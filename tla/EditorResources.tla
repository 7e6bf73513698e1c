-------------------------- MODULE EditorResources --------------------------
(***************************************************************************)
(* The resources of the editor and the MpqPriorityList that lists them.    *)
(*                                                                         *)
(* A Resource keeps a pointer to its list (attached here) and the list a   *)
(* map from URLs to resources (listed).  The two are kept in step by       *)
(* setSource() and ~Resource(), which know a resource by its URL only:     *)
(* insert() of a URL that is listed does nothing, and a removal takes out  *)
(* whatever is listed under the URL.                                       *)
(*                                                                         *)
(* A resource is held by a member of some object, which fixes its URL, and *)
(* the members differ in how they replace what they hold:                  *)
(*   Refreshed  the files of WarcraftIIIShared, loaded into a new MetaData *)
(*              that is swapped in when the load has succeeded;            *)
(*   Objects    the files of one ObjectData each, reset to a new MetaData  *)
(*              one after another, each loaded after it was reset;         *)
(*   Textures   created on demand and kept;                                *)
(*   Clients    resources others construct, attach, detach and delete;     *)
(*   Maps       opened and closed by Editor.                               *)
(* Two resources of one member differ in gen.  All of this runs in the GUI *)
(* thread; every operation that may throw has its failing outcomes.        *)
(***************************************************************************)
EXTENDS Naturals, Sequences

CONSTANTS
    Urls,
    Refreshed, Textures, Clients, Maps,   (* sets of members              *)
    Objects,                              (* ObjectData instances         *)
    Files,                                (* the members of each, in the  *)
                                          (* order load() resets them     *)
    UrlOf                                 (* the URL of each member       *)

FilesOf(o) == {Files[o][i] : i \in DOMAIN Files[o]}
ObjectFiles == UNION {FilesOf(o) : o \in Objects}
Shared == Refreshed \union Textures \union ObjectFiles
Members == Shared \union Clients \union Maps

Resources == [member : Members, gen : {0, 1}]
Url(r) == UrlOf[r.member]

ASSUME MembersAssumption ==
    /\ Clients \intersect (Shared \union Maps) = {}
    /\ Maps \intersect Shared = {}
    /\ Refreshed \intersect (Textures \union ObjectFiles) = {}
    /\ Textures \intersect ObjectFiles = {}

(* No load() reads a file twice, and no two members are the same.          *)
ASSUME FilesAssumption ==
    /\ Files \in [Objects -> Seq(ObjectFiles)]
    /\ \A o \in Objects : Files[o] # <<>>
    /\ \A o \in Objects : \A i, j \in DOMAIN Files[o] :
         UrlOf[Files[o][i]] = UrlOf[Files[o][j]] => i = j

ASSUME UrlsAssumption == UrlOf \in [Members -> Urls]

VARIABLES
    list,      (* the life of the list, see Phases                         *)
    listed,    (* m_resources: the resource listed under each listed URL   *)
    live,      (* the resources that exist                                 *)
    attached,  (* those of them whose source is the list                   *)
    loaded,    (* those of them that were loaded without an exception      *)
    open,      (* the maps in Editor::maps()                               *)
    answer     (* the last loadOnRequest(): its object and what it returned*)

vars == <<list, listed, live, attached, loaded, open, answer>>

(* "detached" is the list between the body of its destructor and the end   *)
(* of its members, "crashed" a process that did not survive a call.        *)
Phases == {"alive", "detached", "gone", "crashed"}
NoAnswer == [returned |-> FALSE, objects |-> {}]

-----------------------------------------------------------------------------
(* What the operations are made of.                                        *)

HeldBy(M) == {r \in live : r.member \in M}
NewFor(m) == [member |-> m, gen |-> IF [member |-> m, gen |-> 0] \in live THEN 1 ELSE 0]

(* addResource() of each of R, whose URLs differ: insert() keeps what is   *)
(* listed.                                                                 *)
With(L, R) ==
    [u \in DOMAIN L \union {Url(r) : r \in R} |->
        IF u \in DOMAIN L THEN L[u] ELSE CHOOSE r \in R : Url(r) = u]

(* A mutant for RegistryNeverDangles: a removal without effect.            *)
WithoutNothing(L, R) == L
(* removeResource() of each of R, by URL.                                  *)
Without(L, R) == [u \in DOMAIN L \ {Url(r) : r \in R} |-> L[u]]
(* ~Resource() of each of R.                                               *)
AfterDelete(L, R) == Without(L, R \intersect attached)

-----------------------------------------------------------------------------
Init ==
    /\ list = "alive"
    /\ listed = <<>>
    /\ live = {}
    /\ attached = {}
    /\ loaded = {}
    /\ open = {}
    /\ answer = NoAnswer

(* A mutant for SharedDataIsLoaded: the swap comes before the load.        *)
RefreshBySwapFirst(m) ==
    /\ list = "alive"
    /\ LET n == NewFor(m)
           old == HeldBy({m})
       IN /\ listed' = AfterDelete(With(listed, {n}), old)
          /\ live' = (live \ old) \union {n}
          /\ attached' = (attached \ old) \union {n}
          /\ loaded' \in {loaded \ old, (loaded \ old) \union {n}}
    /\ answer' = NoAnswer
    /\ UNCHANGED <<list, open>>

(***************************************************************************)
(* refresh...() of WarcraftIIIShared: the new MetaData is attached while   *)
(* the old one still is, and only then loaded.  If load() throws, the new  *)
(* one is destroyed, otherwise the one swapped out.                        *)
(***************************************************************************)
Refresh(m) ==
    /\ list = "alive"
    /\ LET n == NewFor(m)
           old == HeldBy({m})
       IN \/ /\ listed' = AfterDelete(With(listed, {n}), old)
             /\ live' = (live \ old) \union {n}
             /\ attached' = (attached \ old) \union {n}
             /\ loaded' = (loaded \ old) \union {n}
          \/ /\ listed' = Without(With(listed, {n}), {n})
             /\ UNCHANGED <<live, attached, loaded>>
    /\ answer' = NoAnswer
    /\ UNCHANGED <<list, open>>

(* teamColorTexture() and teamGlowTexture().                               *)
NeedTexture(m) ==
    /\ list = "alive"
    /\ HeldBy({m}) = {}
    /\ listed' = With(listed, {NewFor(m)})
    /\ live' = live \union {NewFor(m)}
    /\ attached' = attached \union {NewFor(m)}
    /\ answer' = NoAnswer
    /\ UNCHANGED <<list, loaded, open>>

(* A mutant for SoleOwnersAreListed: the new file is attached before the   *)
(* old one is destroyed.                                                   *)
LoadBeforeDelete(o, k) ==
    LET reset == {Files[o][i] : i \in {j \in DOMAIN Files[o] : j <= k + 1}}
        read == {Files[o][i] : i \in {j \in DOMAIN Files[o] : j <= k}}
        old == HeldBy(reset)
        new == {NewFor(m) : m \in reset}
    IN /\ listed' = AfterDelete(With(listed, new), old)
       /\ live' = (live \ old) \union new
       /\ attached' = (attached \ old) \union new
       /\ loaded' = (loaded \ old) \union {NewFor(m) : m \in read}

(* A mutant for RequestLoads: the last file is made and never loaded.       *)
LoadFilesButLast(o, k) ==
    LET reset == {Files[o][i] : i \in {j \in DOMAIN Files[o] : j <= k + 1}}
        read == {Files[o][i] : i \in {j \in DOMAIN Files[o] : j <= k /\ j < Len(Files[o])}}
        old == HeldBy(reset)
        new == {NewFor(m) : m \in reset}
    IN /\ listed' = With(AfterDelete(listed, old), new)
       /\ live' = (live \ old) \union new
       /\ attached' = (attached \ old) \union new
       /\ loaded' = (loaded \ old) \union {NewFor(m) : m \in read}

(***************************************************************************)
(* load() of an ObjectData whose first k files can be loaded: the next one *)
(* throws, after it replaced the one before it and was attached.           *)
(***************************************************************************)
LoadFiles(o, k) ==
    LET reset == {Files[o][i] : i \in {j \in DOMAIN Files[o] : j <= k + 1}}
        read == {Files[o][i] : i \in {j \in DOMAIN Files[o] : j <= k}}
        old == HeldBy(reset)
        new == {NewFor(m) : m \in reset}
    IN /\ listed' = With(AfterDelete(listed, old), new)
       /\ live' = (live \ old) \union new
       /\ attached' = (attached \ old) \union new
       /\ loaded' = (loaded \ old) \union {NewFor(m) : m \in read}

Load(o) ==
    /\ list = "alive"
    /\ \E k \in 0..Len(Files[o]) : LoadFiles(o, k)
    /\ answer' = NoAnswer
    /\ UNCHANGED <<list, open>>

(* loadOnRequest(): whether to load depends on the first file alone.       *)
LoadOnRequest(o) ==
    /\ list = "alive"
    /\ \/ /\ HeldBy({Files[o][1]}) = {}
          /\ \E k \in 0..Len(Files[o]) :
               /\ LoadFiles(o, k)
               /\ answer' = [returned |-> k = Len(Files[o]), objects |-> {o}]
       \/ /\ HeldBy({Files[o][1]}) # {}
          /\ answer' = [returned |-> TRUE, objects |-> {o}]
          /\ UNCHANGED <<listed, live, attached, loaded>>
    /\ UNCHANGED <<list, open>>

-----------------------------------------------------------------------------
(* Resources of others.                                                    *)

Construct(m) ==
    /\ HeldBy({m}) = {}
    /\ list \in {"alive", "gone"}
    /\ live' = live \union {NewFor(m)}
    /\ answer' = NoAnswer
    /\ UNCHANGED <<list, listed, attached, loaded, open>>

(* setSource() of the list: nothing happens if it is the source already.   *)
SetSource(r) ==
    /\ list = "alive"
    /\ r \in live \ attached
    /\ listed' = With(listed, {r})
    /\ attached' = attached \union {r}
    /\ answer' = NoAnswer
    /\ UNCHANGED <<list, live, loaded, open>>

(***************************************************************************)
(* setSource(0) and ~Resource().  The source of a resource that outlived   *)
(* its list is a dangling pointer: the call may crash or go unnoticed.     *)
(***************************************************************************)
Detach(R) ==
    \/ /\ list = "alive"
       /\ listed' = AfterDelete(listed, R)
       /\ UNCHANGED list
    \/ /\ list # "alive"
       /\ list' \in {list} \union {p \in {"crashed"} : R \intersect attached # {}}
       /\ UNCHANGED listed

DropSource(r) ==
    /\ list \in {"alive", "gone"}
    /\ r \in attached
    /\ Detach({r})
    /\ attached' = attached \ {r}
    /\ answer' = NoAnswer
    /\ UNCHANGED <<live, loaded, open>>

Delete(r) ==
    /\ list \in {"alive", "gone"}
    /\ r \in live
    /\ Detach({r})
    /\ live' = live \ {r}
    /\ attached' = attached \ {r}
    /\ loaded' = loaded \ {r}
    /\ answer' = NoAnswer
    /\ UNCHANGED open

-----------------------------------------------------------------------------
(* Maps.                                                                   *)

(* A mutant for TypeOK: the failed map is deleted but stays among the maps.*)
OpenMapInAnyCase(r) ==
    /\ list = "alive"
    /\ r \notin live
    /\ \/ /\ listed' = With(listed, {r})
          /\ live' = live \union {r}
          /\ attached' = attached \union {r}
          /\ loaded' = loaded \union {r}
       \/ /\ listed' = Without(With(listed, {r}), {r})
          /\ UNCHANGED <<live, attached, loaded>>
    /\ open' = open \union {r}
    /\ answer' = NoAnswer
    /\ UNCHANGED list

(* openMap(): a map that cannot be loaded is deleted.                      *)
OpenMap(r) ==
    /\ list = "alive"
    /\ r \notin live
    /\ \/ /\ listed' = With(listed, {r})
          /\ live' = live \union {r}
          /\ attached' = attached \union {r}
          /\ loaded' = loaded \union {r}
          /\ open' = open \union {r}
       \/ /\ listed' = Without(With(listed, {r}), {r})
          /\ UNCHANGED <<live, attached, loaded, open>>
    /\ answer' = NoAnswer
    /\ UNCHANGED list

(* closeMap(): the map leaves the list but is neither detached nor deleted.*)
CloseMap(r) ==
    /\ list = "alive"
    /\ r \in open
    /\ listed' = Without(listed, {r})
    /\ open' = open \ {r}
    /\ answer' = NoAnswer
    /\ UNCHANGED <<list, live, attached, loaded>>

-----------------------------------------------------------------------------
(***************************************************************************)
(* ~Editor() deletes the open maps.  The loop of ~MpqPriorityList() then   *)
(* erases the first entry, detaches its resource and increments the erased *)
(* iterator: it may go on at any other entry, end, or crash.  (The order of *)
(* the entries is left out, so the first is any of them.)                  *)
(***************************************************************************)
DestroyList ==
    /\ list = "alive"
    /\ LET rest == AfterDelete(listed, open)
       IN \E seen \in SUBSET DOMAIN rest :
            /\ seen = {} <=> DOMAIN rest = {}
            /\ list' \in {"detached"} \union {p \in {"crashed"} : seen # {}}
            /\ attached' = (attached \ open) \ {rest[u] : u \in seen}
    /\ listed' = <<>>
    /\ live' = live \ open
    /\ loaded' = loaded \ open
    /\ open' = {}
    /\ answer' = NoAnswer

(* m_sharedData is declared before m_resources and so destroyed after it.  *)
DestroyShared ==
    /\ list = "detached"
    /\ list' \in {"gone"} \union {p \in {"crashed"} : HeldBy(Shared) \intersect attached # {}}
    /\ live' = live \ HeldBy(Shared)
    /\ attached' = attached \ HeldBy(Shared)
    /\ loaded' = loaded \ HeldBy(Shared)
    /\ UNCHANGED <<listed, open, answer>>

Next ==
    \/ \E m \in Refreshed : Refresh(m)
    \/ \E m \in Textures : NeedTexture(m)
    \/ \E o \in Objects : Load(o)
    \/ \E o \in Objects : LoadOnRequest(o)
    \/ \E m \in Clients : Construct(m)
    \/ \E r \in HeldBy(Clients) : SetSource(r)
    \/ \E r \in HeldBy(Clients) : DropSource(r)
    \/ \E r \in HeldBy(Clients) : Delete(r)
    \/ \E r \in [member : Maps, gen : {0, 1}] : OpenMap(r)
    \/ \E r \in open : CloseMap(r)
    \/ DestroyList
    \/ DestroyShared

Spec == Init /\ [][Next]_vars

-----------------------------------------------------------------------------
TypeOK ==
    /\ list \in Phases
    /\ DOMAIN listed \subseteq Urls
    /\ \A u \in DOMAIN listed : listed[u] \in Resources
    /\ live \subseteq Resources
    /\ attached \subseteq live
    /\ loaded \subseteq live
    /\ open \subseteq HeldBy(Maps)
    /\ answer.returned \in BOOLEAN
    /\ answer.objects \subseteq Objects

(***************************************************************************)
(* Every pointer in m_resources is a resource that exists, has the list as *)
(* its source and has the URL it is listed under: although two resources   *)
(* of one URL take each other out of the list (removeResource() of         *)
(* mpqprioritylist.hpp), neither is left there when it is destroyed.       *)
(***************************************************************************)
RegistryNeverDangles ==
    \A u \in DOMAIN listed : listed[u] \in attached /\ Url(listed[u]) = u

(***************************************************************************)
(* A resource whose URL no other member uses can be found in resources()   *)
(* as long as it is attached, whatever reloads failed in between, if its   *)
(* member destroys the old resource before it attaches the new one         *)
(* (load() of AbilityData and its siblings) or never replaces it.          *)
(***************************************************************************)
Owners == ObjectFiles \union Textures \union Clients
SoleOwner(m) ==
    /\ m \in Owners
    /\ \A n \in Members \ {m} : UrlOf[n] # UrlOf[m]
SoleOwnersAreListed ==
    list = "alive" =>
        \A r \in attached : SoleOwner(r.member) =>
            Url(r) \in DOMAIN listed /\ listed[Url(r)] = r

(***************************************************************************)
(* What WarcraftIIIShared hands out has been loaded completely, because a  *)
(* refresh that throws keeps the old data (the swaps "exception safe" of   *)
(* warcraftiiishared.cpp), and there is one such resource at a time.       *)
(***************************************************************************)
SharedDataIsLoaded ==
    \A m \in Refreshed : \A r, s \in HeldBy({m}) : r \in loaded /\ r = s

(***************************************************************************)
(* "Returns true if the data has been loaded successfully. Otherwise it    *)
(* returns false" (objectdata.hpp:251 on loadOnRequest()): so it is when   *)
(* the request loads, whichever file fails.  It says nothing of a request  *)
(* that finds the first file there: after a load that failed the code      *)
(* takes that file for the whole (objectdata.cpp:170).                     *)
(***************************************************************************)
RequestLoads ==
    [][\A o \in Objects :
        LoadOnRequest(o) /\ HeldBy({Files[o][1]}) = {} =>
            (answer'.returned <=>
                \A m \in FilesOf(o) : HeldBy({m})' # {} /\ HeldBy({m})' \subseteq loaded')]_vars
=============================================================================
