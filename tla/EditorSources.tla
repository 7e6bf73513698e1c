--------------------------- MODULE EditorSources ---------------------------
(***************************************************************************)
(* The sources of MpqPriorityList, the dialog that edits them and the      *)
(* settings that keep them between two runs of an editor.                  *)
(*                                                                         *)
(* A source is a directory or, if its URL has the scheme "mpq", an archive *)
(* that is opened when the source is made.  m_sources is a multiset        *)
(* ordered by priority: a sequence here, to which insert() adds an entry   *)
(* behind those of its priority.  Files are looked up from its end.        *)
(***************************************************************************)
EXTENDS Integers, Sequences, SequencesExt, FiniteSetsExt

CONSTANTS
    Archives,     (* URLs of the scheme mpq                               *)
    Directories,  (* the other URLs users enter                           *)
    Content,      (* the relative URLs each of them has when it is there  *)
    Defaults,     (* war3.mpq, war3x.mpq, War3xlocal.mpq, War3Patch.mpq   *)
                  (* as addDefaultSources(wc3Dir) adds them               *)
    BareDefaults, (* as restoreDefaults() puts them into the dialog: URLs *)
                  (* of the files without the scheme mpq                  *)
    FirstDefault, (* the priority of the first of them                    *)
    Priorities,   (* priorities other callers choose                      *)
    MaxSources    (* bound on the lengths of the list and of the dialog   *)

Sites == Archives \union Directories
AllUrls == Sites \union Range(BareDefaults)

ASSUME SourcesAssumption ==
    /\ Archives \intersect Directories = {}
    /\ Defaults \in Seq(Archives)
    /\ BareDefaults \in Seq(Range(BareDefaults))
    /\ Range(BareDefaults) \intersect Sites = {}
    /\ Priorities \subseteq Nat
    /\ FirstDefault \in Nat
    /\ MaxSources \in Nat

VARIABLES
    state,    (* what is found at each URL: "there", "missing" or "broken"*)
    running,  (* whether an editor runs                                   *)
    sources,  (* m_sources                                                *)
    dialog,   (* the items of the open SourcesDialog, NoDialog if none    *)
    settings  (* the array "entries" of its group in QSettings            *)

vars == <<state, running, sources, dialog, settings>>

Source == [url : AllUrls, priority : Nat, archive : BOOLEAN]
NoDialog == [open |-> FALSE, items |-> <<>>]
Shown(items) == [open |-> TRUE, items |-> items]

-----------------------------------------------------------------------------
(* addSource().                                                            *)

(* A directory must exist.  An archive need not, but then it stays closed. *)
Accepted(u) == u \in Archives \/ (u \in Directories /\ state[u] = "there")
(* The constructor of the entry opens the archive, which may throw.        *)
Throws(u) == u \in Archives /\ state[u] = "broken"

Entry(u, p) == [url |-> u, priority |-> p, archive |-> u \in Archives /\ state[u] = "there"]

(* A mutant for HighestPriorityServes: entries in the order they came.     *)
AppendEntry(s, e) == Append(s, e)
(* A mutant for RestartKeepsSources: an entry before those of its priority.*)
InsertBefore(s, e) ==
    InsertAt(s, Min({i \in DOMAIN s : s[i].priority >= e.priority} \union {Len(s) + 1}), e)
(* insert() of a multiset: behind the last entry that is not greater.      *)
UpperBound(s, p) == Max({i \in DOMAIN s : s[i].priority <= p} \union {0}) + 1
Insert(s, e) == InsertAt(s, UpperBound(s, e.priority), e)

(* addSource() of each of items; those that are not accepted are left out. *)
AddAll(s, items) ==
    FoldLeft(LAMBDA t, i : IF Accepted(i.url) THEN Insert(t, Entry(i.url, i.priority)) ELSE t,
             s, items)
NoneThrows(items) == \A i \in DOMAIN items : ~Throws(items[i].url)

Plain(s) == [i \in DOMAIN s |-> [url |-> s[i].url, priority |-> s[i].priority]]
UrlsOf(s) == [i \in DOMAIN s |-> s[i].url]

-----------------------------------------------------------------------------
(* download() and exists(): the last source that has the file.             *)

Has(e, f) ==
    /\ f \in Content[e.url]
    /\ e.archive \/ (e.url \in Directories /\ state[e.url] = "there")
Holders(f) == {i \in DOMAIN sources : Has(sources[i], f)}
Serving(f) == sources[Max(Holders(f))]

-----------------------------------------------------------------------------
Init ==
    /\ state \in [Sites -> {"there", "missing"}]
    /\ running = FALSE
    /\ sources = <<>>
    /\ dialog = NoDialog
    /\ settings = <<>>

(***************************************************************************)
(* configure() of Editor: read the settings, show the dialog.  An archive  *)
(* that cannot be opened ends the program here: nothing catches what       *)
(* readSettings() throws.                                                  *)
(***************************************************************************)
Start ==
    /\ ~running
    /\ NoneThrows(settings)
    /\ running' = TRUE
    /\ sources' = AddAll(<<>>, settings)
    /\ dialog' = Shown(Reverse(UrlsOf(sources')))
    /\ UNCHANGED <<state, settings>>

(* ~Editor().                                                              *)
Quit ==
    /\ running
    /\ running' = FALSE
    /\ settings' = Plain(sources)
    /\ sources' = <<>>
    /\ dialog' = NoDialog
    /\ UNCHANGED state

(* The end of the process without destructors.                             *)
Die ==
    /\ running' = FALSE
    /\ sources' = <<>>
    /\ dialog' = NoDialog
    /\ UNCHANGED <<state, settings>>
Kill == running /\ Die

-----------------------------------------------------------------------------
(* SourcesDialog: the first item has the highest priority.                 *)

Show ==
    /\ running
    /\ ~dialog.open
    /\ dialog' = Shown(Reverse(UrlsOf(sources)))
    /\ UNCHANGED <<state, running, sources, settings>>

Edit(items) ==
    /\ dialog.open
    /\ Len(items) <= MaxSources
    /\ dialog' = Shown(items)
    /\ UNCHANGED <<state, running, sources, settings>>

(* addUrlSlot() and prepend(), which turns the order of what it adds       *)
(* around, give URLs of archives their scheme (prepareItem()); clear();    *)
(* restoreDefaults(), which does not, so that apply() drops its items.     *)
AddItem(u) == Edit(Append(dialog.items, u))
Prepend(us) == Edit(Reverse(us) \o dialog.items)
ClearItems == Edit(<<>>)
RestoreDefaults == Edit(BareDefaults)

Cancel ==
    /\ dialog.open
    /\ dialog' = NoDialog
    /\ UNCHANGED <<state, running, sources, settings>>

(* A mutant for DialogKeepsOrder: the first item gets the lowest priority. *)
RankedUpwards(items) ==
    [i \in DOMAIN items |-> [url |-> items[i], priority |-> i]]
Ranked(items) ==
    [i \in DOMAIN items |-> [url |-> items[i], priority |-> Len(items) + 1 - i]]

(* apply() and ok(): items that are not accepted are reported and dropped. *)
(* (Where a stand-alone module is the parent, the dialog writes the group  *)
(* of that module, and Module::readSettings() reads "WorldEditor".)        *)
Apply(next) ==
    /\ dialog.open
    /\ next \in {dialog, NoDialog}
    /\ NoneThrows(Ranked(dialog.items))
    /\ sources' = AddAll(<<>>, Ranked(dialog.items))
    /\ settings' = Plain(sources')
    /\ dialog' = next
    /\ UNCHANGED <<state, running>>

(* An exception from a slot ends the program, after clear().               *)
ApplyThrows ==
    /\ dialog.open
    /\ ~NoneThrows(Ranked(dialog.items))
    /\ Die

-----------------------------------------------------------------------------
(* The list as others use it.                                              *)

CallList(s) ==
    /\ running
    /\ Len(s) <= MaxSources
    /\ sources' = s
    /\ UNCHANGED <<state, running, dialog, settings>>

AddSource(u, p) ==
    /\ Accepted(u) /\ ~Throws(u)
    /\ CallList(Insert(sources, Entry(u, p)))

RemoveUrl(u) ==
    /\ \E i \in DOMAIN sources : sources[i].url = u
    /\ CallList(RemoveAt(sources, Min({i \in DOMAIN sources : sources[i].url = u})))

(* removeSource() of an entry: find() compares priorities only.            *)
RemoveSource(e) ==
    \E i \in DOMAIN sources :
        /\ sources[i].priority = e.priority
        /\ CallList(RemoveAt(sources, i))

RankedDefaults ==
    [i \in DOMAIN Defaults |-> [url |-> Defaults[i], priority |-> FirstDefault + i - 1]]

(* addDefaultSources() ends at the first that is not added.                *)
AddDefaultSources ==
    LET failing == {i \in DOMAIN Defaults : ~Accepted(Defaults[i]) \/ Throws(Defaults[i])}
        added == IF failing = {} THEN Len(Defaults) ELSE Min(failing) - 1
    IN CallList(AddAll(sources, SubSeq(RankedDefaults, 1, added)))

ClearSources == CallList(<<>>)

(* Outside of the program.                                                 *)
Change(u, s) ==
    /\ s = "broken" => u \in Archives
    /\ state' = [state EXCEPT ![u] = s]
    /\ UNCHANGED <<running, sources, dialog, settings>>

Next ==
    \/ Start
    \/ Quit
    \/ Kill
    \/ Show
    \/ \E u \in Sites : AddItem(u)
    \/ \E u, v \in Sites : u # v /\ Prepend(<<u, v>>)
    \/ ClearItems
    \/ RestoreDefaults
    \/ Cancel
    \/ \E next \in {dialog, NoDialog} : Apply(next)
    \/ ApplyThrows
    \/ \E u \in Sites, p \in Priorities : AddSource(u, p)
    \/ \E u \in Sites : RemoveUrl(u)
    \/ \E i \in DOMAIN sources : RemoveSource(sources[i])
    \/ AddDefaultSources
    \/ ClearSources
    \/ \E u \in Sites, s \in {"there", "missing", "broken"} : Change(u, s)

Spec == Init /\ [][Next]_vars

-----------------------------------------------------------------------------
(***************************************************************************)
(* A file comes from a source of the highest priority among those that     *)
(* have it ("entries with higher priorities are used first",               *)
(* mpqprioritylist.hpp:59), however the list came about.                   *)
(***************************************************************************)
HighestPriorityServes ==
    \A f \in UNION {Content[u] : u \in Sites} :
        \A i \in Holders(f) : sources[i].priority <= Serving(f).priority

(***************************************************************************)
(* The next run of the editor has the sources the last one saved, with     *)
(* their priorities and, among equal priorities, in the same order, if     *)
(* none went missing: readSettings() undoes writeSettings().               *)
(***************************************************************************)
RestartKeepsSources ==
    [][Start /\ (\A i \in DOMAIN settings : Accepted(settings[i].url))
        => Plain(sources') = settings]_vars

(***************************************************************************)
(* Showing the sources and applying them unchanged leaves the order in     *)
(* which they are searched ("The higher entries have a higher priority     *)
(* than the lower entries", sourcesdialog.hpp:41).                         *)
(***************************************************************************)
DialogKeepsOrder ==
    [][\A next \in {dialog, NoDialog} :
        /\ Apply(next)
        /\ dialog.items = Reverse(UrlsOf(sources))
        /\ \A i \in DOMAIN sources : Accepted(sources[i].url)
        => UrlsOf(sources') = UrlsOf(sources)]_vars
=============================================================================
