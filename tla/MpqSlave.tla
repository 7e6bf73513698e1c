------------------------------ MODULE MpqSlave ------------------------------
(***************************************************************************)
(* The KIO slave for MPQ archives (MpqSlave): a process that keeps one     *)
(* archive open over the commands it is sent and one file of it over a     *)
(* session of read(), seek() and close(), while other programs change the  *)
(* archives on the disk.  With it Listfile, which finds the files and      *)
(* directories of a directory among the paths of a list.                   *)
(*                                                                         *)
(* A command has three steps: parseUrl() looks for the archive on the      *)
(* disk, openArchive() opens it unless it is open already, and the rest    *)
(* answers, reading data from the disk with the tables in memory.          *)
(*                                                                         *)
(* A path is a sequence of tokens with a name and a case; upper is the     *)
(* path without the case.                                                  *)
(***************************************************************************)
EXTENDS Integers, FiniteSets, Sequences, SequencesExt

CONSTANTS
    Archives,     (* the paths of archives                                 *)
    Contents,     (* what an archive may hold                              *)
    Installed,    (* the entries of the installed listfiles                *)
    Urls,         (* an archive and a path in it                           *)
    ReadSizes,    (* the sizes of reads                                    *)
    MaxSeek       (* a bound on the position                               *)

Tokens == Seq([name : STRING, case : STRING])
ASSUME SlaveAssumption ==
    /\ Urls \subseteq [archive : Archives, path : Tokens]
    /\ Installed \in Seq(Tokens)
    /\ Contents \subseteq
         [files : Seq([upper : Seq(STRING), size : Nat, isFile : BOOLEAN]), listed : Seq(Tokens),
          times : BOOLEAN, cut : {"none", "header", "times", "md5s"}]
    /\ MaxSeek \in Nat
    /\ ReadSizes \subseteq Nat

VARIABLES
    disk,           (* what is at the path of each archive                 *)
    archive,        (* m_archive: its path and what it held when opened    *)
    archiveName,    (* m_archiveName                                       *)
    hasAttributes,  (* m_hasAttributes                                     *)
    timesPresent,   (* m_extendedAttributes & FileTimeStamps               *)
    fileTimes,      (* m_fileTimes                                         *)
    halfRead,       (* attributes() threw since m_archive was opened       *)
    file,           (* m_file                                              *)
    seekPos,        (* m_seekPos                                           *)
    pc,             (* how far the command is                              *)
    request,        (* the command and its URL                             *)
    sent,           (* the answers to it                                   *)
    opened,         (* KIO is in a session                                 *)
    asked,          (* the sum of what seek() was called with in it        *)
    dropped         (* a session ended without close()                     *)

attributes == <<hasAttributes, timesPresent, fileTimes, halfRead>>
session == <<file, seekPos, opened, asked, dropped>>
vars == <<disk, archive, archiveName, attributes, session, pc, request, sent>>

Missing == [kind |-> "missing"]
Broken == [kind |-> "broken"]
NoArchive == [id |-> 0]
NoFile == [id |-> 0]
NoName == "no name"
NoTime == <<>>

-----------------------------------------------------------------------------
(* Listfile.                                                               *)
Upper(path) == [i \in DOMAIN path |-> path[i].name]

(* The file findFile() finds, as the index of its block, or 0.  The files  *)
(* of content are those of the neutral locale, so there is one of a path.  *)
FindFile(content, upper) ==
    LET found == {i \in DOMAIN content.files : content.files[i].upper = upper}
    IN  IF found = {} THEN 0 ELSE CHOOSE i \in found : TRUE

(* ref.size() > prefix.size() && istarts_with(ref, prefix), where prefix   *)
(* has a separator behind each of its tokens.                              *)
StartsWith(ref, prefix) ==
    Len(ref) > Len(prefix) /\ \A i \in DOMAIN prefix : ref[i].name = prefix[i]

(* The result a loop over entries has pushed back.                         *)
Those(entries, chosen) ==
    FoldLeft(LAMBDA result, ref : IF ref \in chosen THEN Append(result, ref) ELSE result,
             <<>>, entries)

(* Every entry with the prefix that exists.  The separator that an entry   *)
(* of a deeper level has is never found, since the arguments of find() are *)
(* exchanged: it looks for the size of the prefix as a character.  A       *)
(* mutant for RootListed finds it.                                         *)
ExistingEntriesOfLevel(entries, content, prefix) ==
    Those(entries, {ref \in ToSet(entries) : /\ StartsWith(ref, prefix)
                                             /\ Len(ref) = Len(prefix) + 1
                                             /\ FindFile(content, Upper(ref)) # 0})
ExistingEntries(entries, content, prefix) ==
    Those(entries, {ref \in ToSet(entries) : /\ StartsWith(ref, prefix)
                                             /\ FindFile(content, Upper(ref)) # 0})

(* caseSensitiveEntries(): the case of the first token of each name.       *)
Cased(entries, path) ==
    LET tokens == FlattenSeq(entries)
        First(name) == tokens[CHOOSE i \in DOMAIN tokens :
                                  /\ tokens[i].name = name
                                  /\ \A j \in 1..(i - 1) : tokens[j].name # name]
    IN  [i \in DOMAIN path |-> First(path[i].name)]

CaseSensitiveFileEntries(entries, prefix) ==
    Those(entries, {ref \in ToSet(entries) : StartsWith(ref, prefix) /\ Len(ref) = 1})

(* Of each entry the directory one level below the prefix, each once.      *)
DirOf(entries, prefix, ref) == Cased(entries, SubSeq(ref, 1, Len(prefix) + 1))
EachOnce(dirs) ==
    FoldLeft(LAMBDA done, dir : IF dir \in ToSet(done) THEN done ELSE Append(done, dir), <<>>, dirs)
CaseSensitiveDirEntries(entries, prefix) ==
    LET inner == Those(entries, {ref \in ToSet(entries) : /\ StartsWith(ref, prefix)
                                                          /\ Len(ref) > Len(prefix) + 1})
    IN  EachOnce([i \in DOMAIN inner |-> DirOf(entries, prefix, inner[i])])

Special(name) == <<[name |-> name, case |-> "lower"]>>
Has(content, name) == FindFile(content, <<name>>) # 0
SpecialNames == {"(listfile)", "(attributes)", "(signature)"}
Specials(content) ==
    Those(<<Special("(listfile)"), Special("(attributes)"), Special("(signature)")>>,
          {Special(name) : name \in {name \in SpecialNames : Has(content, name)}})

-----------------------------------------------------------------------------
(* Answers.                                                                *)
Message(kind) == [kind |-> kind]
Error == Message("error")
Finished == Message("finished")
Entry(ref, type, time) ==
    [kind |-> "entry", name |-> ref[Len(ref)].name, case |-> ref[Len(ref)].case,
     type |-> type, time |-> time]
EndOfList == [kind |-> "entry", name |-> "", case |-> "", type |-> "", time |-> NoTime]
DataMessage(cells) == [kind |-> "data", cells |-> cells]

(* A file is decompressed from the disk at the place where the tables in   *)
(* memory say it is; if there is another archive by now, what comes is     *)
(* junk, or an exception.                                                  *)
Cells(image, block) ==
    [j \in 1..image.content.files[block].size |-> <<image.of, block, j>>]
Junk == <<>>
Threw == [threw |-> TRUE]
Gave(cells) == [threw |-> FALSE, cells |-> cells]
Decompressed(image, block) ==
    CASE disk[image.of] = image.content -> {Gave(Cells(image, block))}
      [] disk[image.of] = Missing -> {Threw}
      [] OTHER -> {Threw, Gave([j \in 1..image.content.files[block].size |-> Junk])}

-----------------------------------------------------------------------------
Init ==
    /\ archive = NoArchive /\ archiveName = NoName
    /\ hasAttributes = FALSE /\ timesPresent = FALSE /\ fileTimes = <<>> /\ halfRead = FALSE
    /\ file = NoFile /\ seekPos = 0 /\ opened = FALSE /\ asked = 0 /\ dropped = FALSE
    /\ pc = "idle" /\ sent = <<>>
    /\ disk \in [Archives -> Contents \union {Missing, Broken}]
    /\ request \in [command : {"mkdir"}, url : Urls]

(* Another program replaces an archive.                                    *)
Change ==
    /\ \E a \in Archives, c \in Contents \union {Missing, Broken} :
         disk' = [disk EXCEPT ![a] = c]
    /\ UNCHANGED <<archive, archiveName, attributes, session, pc, request, sent>>

Answer(messages) == pc' = "idle" /\ sent' = messages

(* A command arrives.  parseUrl() goes along the path of the URL as far as *)
(* it exists and fails if that is no file.                                 *)
Commands == {"listDir", "stat", "get", "put", "mkdir", "open"}
Receive ==
    /\ pc = "idle" /\ ~opened
    /\ request' \in [command : Commands, url : Urls]
    /\ CASE request'.command = "mkdir" -> Answer(<<Finished>>)
         [] request'.command # "mkdir" /\ disk[request'.url.archive] = Missing -> Answer(<<Error>>)
         [] OTHER -> pc' = "parsed" /\ sent' = <<>>
    /\ UNCHANGED <<disk, archive, archiveName, attributes, session>>

-----------------------------------------------------------------------------
(* openArchive(): the archive that is open is not looked at again; it is   *)
(* replaced only once everything is read.  A mutant for AnswersFromNamed   *)
(* keeps the name of an archive that did not open.                         *)
Url == request.url
IsOpen == archive # NoArchive /\ archiveName = Url.archive
Found == disk[Url.archive]

OpenCached ==
    /\ pc = "parsed" /\ IsOpen
    /\ pc' = "opened"
    /\ UNCHANGED <<disk, archive, archiveName, attributes, session, request, sent>>
OpenFails ==
    /\ pc = "parsed" /\ ~IsOpen
    /\ Found \in {Missing, Broken}
    /\ Answer(<<Error>>)
    /\ UNCHANGED <<disk, archive, archiveName, attributes, session, request>>

(* attributes() fills the members as far as it gets.                       *)
TimesUpTo(n, content) ==
    [i \in DOMAIN content.files |->
        IF i <= n THEN <<Url.archive, i>>
        ELSE IF i <= Len(fileTimes) THEN fileTimes[i] ELSE NoTime]
ReadAttributes(content) ==
    CASE content.cut = "header" -> UNCHANGED <<timesPresent, fileTimes>>
      [] content.cut = "times" -> /\ timesPresent' = TRUE
                                  /\ fileTimes' = TimesUpTo(1, content)
      [] content.cut \in {"md5s", "none"} ->
            /\ timesPresent' = content.times
            /\ fileTimes' = IF content.times THEN TimesUpTo(Len(content.files), content)
                                             ELSE fileTimes
OpenFailsOnAttributesNamed ==
    /\ pc = "parsed" /\ ~IsOpen
    /\ Found \notin {Missing, Broken} /\ Has(Found, "(attributes)") /\ Found.cut # "none"
    /\ ReadAttributes(Found) /\ halfRead' = TRUE
    /\ archiveName' = Url.archive
    /\ Answer(<<Error>>)
    /\ UNCHANGED <<disk, archive, hasAttributes, session, request>>
OpenFailsOnAttributes ==
    /\ pc = "parsed" /\ ~IsOpen
    /\ Found \notin {Missing, Broken} /\ Has(Found, "(attributes)") /\ Found.cut # "none"
    /\ ReadAttributes(Found) /\ halfRead' = TRUE
    /\ Answer(<<Error>>)
    /\ UNCHANGED <<disk, archive, archiveName, hasAttributes, session, request>>

(* Objects are told apart by id; two are enough, since one lives at a time.*)
Swap(content) ==
    archive' = [id |-> IF archive.id = 1 THEN 2 ELSE 1, of |-> Url.archive, content |-> content]
(* A mutant for TimesOfNamed: attributes are read once.                    *)
AttributesOnce(content) ==
    IF Has(content, "(attributes)") /\ ~hasAttributes
    THEN content.cut = "none" /\ ReadAttributes(content) /\ hasAttributes' = TRUE
    ELSE UNCHANGED <<hasAttributes, timesPresent, fileTimes>>
NewAttributes(content) ==
    IF Has(content, "(attributes)")
    THEN content.cut = "none" /\ ReadAttributes(content) /\ hasAttributes' = TRUE
    ELSE UNCHANGED <<hasAttributes, timesPresent, fileTimes>>
OpenNew ==
    /\ pc = "parsed" /\ ~IsOpen
    /\ Found \notin {Missing, Broken}
    /\ NewAttributes(Found) /\ halfRead' = FALSE
    /\ Swap(Found)
    /\ archiveName' = Url.archive
    /\ pc' = "opened"
    /\ UNCHANGED <<disk, session, request, sent>>

-----------------------------------------------------------------------------
(* The answers.                                                            *)
Asked(command) == pc = "opened" /\ request.command = command
Block == FindFile(archive.content, Upper(Url.path))
Flags(block) == archive.content.files[block]
ShownTime(block) ==
    IF hasAttributes /\ timesPresent /\ block <= Len(fileTimes) THEN fileTimes[block] ELSE NoTime

Stat ==
    /\ Asked("stat")
    /\ IF Block = 0 THEN Answer(<<Error>>)
       ELSE Answer(<<Entry(Url.path, "file", ShownTime(Block)), Finished, Error>>)
    /\ UNCHANGED <<disk, archive, archiveName, attributes, session, request>>

Get ==
    /\ Asked("get")
    /\ IF Block = 0 \/ ~Flags(Block).isFile THEN Answer(<<Error>>)
       ELSE \E result \in Decompressed(archive, Block) :
              IF result.threw THEN Answer(<<Message("totalSize"), Error>>)
              ELSE Answer(<<Message("totalSize"), Message("mimeType"), DataMessage(result.cells),
                            DataMessage(<<>>), Finished>>)
    /\ UNCHANGED <<disk, archive, archiveName, attributes, session, request>>

Put ==
    /\ Asked("put")
    /\ Answer(<<Message("warning"), Finished>>)
    /\ UNCHANGED <<disk, archive, archiveName, attributes, session, request>>

(* listDir(): a directory other than the root gets a separator twice, and  *)
(* no path has a token that is empty.  The entries of a listfile that is   *)
(* junk do not exist.                                                      *)
Prefix == IF Url.path = <<>> THEN <<>> ELSE Append(Upper(Url.path), "")
FileAnswer(ref) ==
    LET block == FindFile(archive.content, Upper(ref))
    IN  IF block = 0 THEN Message("warning") ELSE Entry(ref, "file", ShownTime(block))
DirAnswer(ref) == Entry(ref, "dir", NoTime)
Listing(allEntries) ==
    LET entries == ExistingEntries(allEntries, archive.content, Prefix)
        files == CaseSensitiveFileEntries(entries, Prefix)
                   \o IF Url.path = <<>> THEN Specials(archive.content) ELSE <<>>
        dirs == CaseSensitiveDirEntries(entries, Prefix)
    IN  [i \in DOMAIN files |-> FileAnswer(files[i])] \o [i \in DOMAIN dirs |-> DirAnswer(dirs[i])]
          \o <<EndOfList, Finished>>
HasListfile == Has(archive.content, "(listfile)")
IsOnDisk == disk[archive.of] = archive.content
ListDir ==
    /\ Asked("listDir")
    /\ Answer(Listing(CASE ~HasListfile -> Installed
                        [] HasListfile /\ IsOnDisk -> archive.content.listed
                        [] OTHER -> <<>>))
    /\ HasListfile => disk[archive.of] # Missing
    /\ UNCHANGED <<disk, archive, archiveName, attributes, session, request>>

(* Nobody catches what the listfile throws: the process ends, and the next *)
(* command finds a new one.                                                *)
ListDirEnds ==
    /\ Asked("listDir") /\ HasListfile /\ ~IsOnDisk
    /\ archive' = NoArchive /\ archiveName' = NoName
    /\ hasAttributes' = FALSE /\ timesPresent' = FALSE /\ fileTimes' = <<>> /\ halfRead' = FALSE
    /\ file' = NoFile /\ seekPos' = 0 /\ opened' = FALSE /\ asked' = 0 /\ dropped' = FALSE
    /\ Answer(<<>>)
    /\ UNCHANGED <<disk, request>>

-----------------------------------------------------------------------------
(* A session.  To find the type of the file, open() decompresses it if it  *)
(* is opened to be read; an exception is ignored.  A mutant for            *)
(* OpenFileLives does not look whether there is a file.                    *)
OpenUnchecked ==
    /\ Asked("open")
    /\ Answer(<<Message("totalSize"), Message("opened")>>)
    /\ file' = [id |-> archive.id, block |-> Block]
    /\ opened' = TRUE /\ asked' = 0
    /\ UNCHANGED <<seekPos, dropped, disk, archive, archiveName, attributes, request>>
Open ==
    /\ Asked("open")
    /\ IF Block = 0
       THEN Answer(<<Error>>) /\ UNCHANGED session
       ELSE /\ \E read \in BOOLEAN, result \in Decompressed(archive, Block) :
                 Answer((IF read /\ ~result.threw THEN <<Message("mimeType")>> ELSE <<>>)
                           \o <<Message("totalSize"), Message("opened")>>)
            /\ file' = [id |-> archive.id, block |-> Block]
            /\ opened' = TRUE /\ asked' = 0
            /\ UNCHANGED <<seekPos, dropped>>
    /\ UNCHANGED <<disk, archive, archiveName, attributes, request>>

(* read() decompresses all, and sends as many bytes as were asked for; how *)
(* many there are is not looked at.  Whether KIO goes on with the session  *)
(* after an error is left open.                                            *)
Content(all, size) ==
    [j \in 1..size |-> IF seekPos + j <= Len(all) THEN all[seekPos + j] ELSE Junk]
Read ==
    /\ pc = "idle" /\ opened
    /\ \E size \in ReadSizes, result \in Decompressed(archive, file.block) :
         IF result.threw
         THEN /\ sent' = <<Error>>
              /\ opened' \in BOOLEAN
              /\ dropped' = (dropped \/ ~opened')
         ELSE /\ sent' = <<DataMessage(Content(result.cells, size))>>
              /\ UNCHANGED <<opened, dropped>>
    /\ UNCHANGED <<disk, archive, archiveName, attributes, file, seekPos, asked, pc, request>>

Seek ==
    /\ pc = "idle" /\ opened
    /\ \E offset \in 0..(MaxSeek - seekPos) :
         /\ seekPos' = seekPos + offset
         /\ asked' = asked + offset
    /\ sent' = <<>>
    /\ UNCHANGED <<disk, archive, archiveName, attributes, file, opened, dropped, pc, request>>

(* A mutant for ReadsFromPosition: the position stays.                     *)
CloseInPlace ==
    /\ pc = "idle" /\ opened
    /\ file' = NoFile
    /\ opened' = FALSE /\ asked' = 0 /\ dropped' = FALSE
    /\ sent' = <<>>
    /\ UNCHANGED <<disk, archive, archiveName, attributes, seekPos, pc, request>>
Close ==
    /\ pc = "idle" /\ opened
    /\ seekPos' = 0
    /\ file' = NoFile
    /\ opened' = FALSE /\ asked' = 0 /\ dropped' = FALSE
    /\ sent' = <<>>
    /\ UNCHANGED <<disk, archive, archiveName, attributes, pc, request>>

OpenArchive == OpenCached \/ OpenFails \/ OpenFailsOnAttributes \/ OpenNew
Next ==
    \/ Change \/ Receive \/ OpenArchive
    \/ Stat \/ Get \/ Put \/ ListDir \/ ListDirEnds
    \/ Open \/ Read \/ Seek \/ Close
Spec == Init /\ [][Next]_vars

-----------------------------------------------------------------------------
(* In a session m_file is a file of the Archive that is alive.             *)
OpenFileLives ==
    opened => /\ file # NoFile /\ archive # NoArchive
              /\ file.id = archive.id /\ file.block \in DOMAIN archive.content.files

(* Whatever was opened before, and failed to be opened, all data that is   *)
(* sent is of the archive the URL names, of the file it names when that    *)
(* archive was opened, or was replaced on the disk since (get(), read()).  *)
AnswersFromNamed ==
    \A i \in DOMAIN sent : sent[i].kind = "data" =>
        \A j \in DOMAIN sent[i].cells : sent[i].cells[j] # Junk =>
            /\ sent[i].cells[j][1] = Url.archive
            /\ archive.content.files[sent[i].cells[j][2]].upper = Upper(Url.path)

(* The root lists each file in it the listfile names, the files that tell  *)
(* about the others, and each directory in which a file exists, once.      *)
Sent(type) == {i \in DOMAIN sent' : sent'[i].kind = "entry" /\ sent'[i].type = type}
RootListed ==
    [][ListDir /\ Url.path = <<>> /\ IsOnDisk =>
         LET named == IF HasListfile THEN archive.content.listed ELSE Installed
             known == {ref \in {named[i] : i \in DOMAIN named} :
                          FindFile(archive.content, Upper(ref)) # 0}
             special == {name \in SpecialNames : Has(archive.content, name)}
         IN  /\ {sent'[i].name : i \in Sent("file")}
                   = {ref[1].name : ref \in {ref \in known : Len(ref) = 1}} \union special
             /\ {sent'[i].name : i \in Sent("dir")}
                   = {ref[1].name : ref \in {ref \in known : Len(ref) > 1}}
             /\ \A i, j \in Sent("dir") : i # j => sent'[i].name # sent'[j].name]_vars

(* The times of files.  Of an archive with attributes each file that is    *)
(* shown has its own time, or none if the archive has no times, whatever   *)
(* archives were opened before, as long as no other one failed to open     *)
(* since because its attributes end early.  (After such a failure, and of  *)
(* an archive without attributes, the code shows times of another one.)    *)
FilesShown == {i \in DOMAIN sent : sent[i].kind = "entry" /\ sent[i].type = "file"}
ShownBlock(i) ==
    FindFile(archive.content, IF request.command = "stat" THEN Upper(Url.path) ELSE <<sent[i].name>>)
OwnTime(i) == IF archive.content.times THEN <<Url.archive, ShownBlock(i)>> ELSE NoTime
HasTimes == archive # NoArchive /\ Has(archive.content, "(attributes)")
TimesOfNamed == HasTimes /\ ~halfRead => \A i \in FilesShown : sent[i].time = OwnTime(i)

(* A read() delivers the bytes of the file from where the calls of seek()  *)
(* since it was opened have led, as long as the archive is what it was and *)
(* every session before ended with close().                                *)
ReadsFromPosition ==
    [][Read /\ IsOnDisk /\ ~dropped =>
         /\ sent'[1].kind = "data"
         /\ \A j \in DOMAIN sent'[1].cells :
              asked + j <= archive.content.files[file.block].size =>
                sent'[1].cells[j] = <<archive.of, file.block, asked + j>>]_vars
=============================================================================
