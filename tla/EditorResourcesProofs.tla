----------------------- MODULE EditorResourcesProofs -----------------------
(***************************************************************************)
(* Proofs about EditorResources: m_resources never holds a dangling        *)
(* pointer, sole owners of a URL stay listed, and loadOnRequest() tells    *)
(* whether everything was loaded.                                          *)
(***************************************************************************)
EXTENDS EditorResources, TLAPS

-----------------------------------------------------------------------------
(* Entries of a list L are sound for the attached resources A, the sole    *)
(* owners of A are listed, and S has one resource of each owner.           *)
Sound(L, A) == \A u \in DOMAIN L : L[u] \in A /\ Url(L[u]) = u
SolesIn(L, A) ==
    \A r \in A : SoleOwner(r.member) => Url(r) \in DOMAIN L /\ L[Url(r)] = r
OneEach(S) ==
    \A r, s \in S : r.member = s.member /\ r.member \in Owners => r = s

(* The inductive invariant.  RegistryNeverDangles needs the freshness of   *)
(* new resources, which follows from there being one of each member.       *)
IInv ==
    /\ TypeOK
    /\ Sound(listed, attached)
    /\ list = "alive" => SolesIn(listed, attached)
    /\ list # "alive" => DOMAIN listed = {}
    /\ SharedDataIsLoaded
    /\ OneEach(live)

-----------------------------------------------------------------------------
(* Taking resources out of a sound list, by URL, leaves none of them there.*)
LEMMA WithoutIsSound ==
    ASSUME NEW L, NEW A, NEW R, Sound(L, A)
    PROVE  Sound(Without(L, R), A \ R)
<1> SUFFICES ASSUME NEW u \in DOMAIN L, \A r \in R : Url(r) # u
             PROVE  L[u] \in A \ R /\ Url(L[u]) = u
  BY DEF Sound, Without
<1> QED
  BY DEF Sound

(* Listing resources that are attached.                                    *)
LEMMA WithIsSound ==
    ASSUME NEW L, NEW A, NEW R, Sound(L, A)
    PROVE  Sound(With(L, R), A \union R)
<1>1. SUFFICES ASSUME NEW u \in DOMAIN L \union {Url(r) : r \in R}
               PROVE  With(L, R)[u] \in A \union R /\ Url(With(L, R)[u]) = u
  BY DEF Sound, With
<1>2. CASE u \in DOMAIN L
  <2>1. With(L, R)[u] = L[u]
    BY <1>2 DEF With
  <2> QED
    BY <1>2, <2>1 DEF Sound
<1>3. CASE u \notin DOMAIN L
  <2>1. With(L, R)[u] = CHOOSE r \in R : Url(r) = u
    BY <1>1, <1>3 DEF With
  <2>2. \E r \in R : Url(r) = u
    BY <1>1, <1>3
  <2> QED
    BY <2>1, <2>2
<1> QED
  BY <1>2, <1>3

(* Two resources of one URL have one member if that is its sole owner.     *)
LEMMA SoleOwnerIsAlone ==
    ASSUME NEW r \in Resources, NEW s \in Resources, SoleOwner(r.member), Url(r) = Url(s)
    PROVE  r.member = s.member
BY DEF SoleOwner, Url, Resources

(* The removal of R leaves the other sole owners listed.                   *)
LEMMA WithoutKeepsSoles ==
    ASSUME NEW L, NEW A, NEW R, NEW S \in SUBSET Resources,
           OneEach(S), A \subseteq S, R \subseteq S, SolesIn(L, A)
    PROVE  SolesIn(Without(L, R), A \ R)
<1> SUFFICES ASSUME NEW r \in A \ R, SoleOwner(r.member)
             PROVE  Url(r) \in DOMAIN Without(L, R) /\ Without(L, R)[Url(r)] = r
  BY DEF SolesIn
<1>1. \A s \in R : Url(s) # Url(r)
  <2>1. SUFFICES ASSUME NEW s \in R, Url(s) = Url(r)
                 PROVE  FALSE
    OBVIOUS
  <2>2. s.member = r.member
    BY <2>1, SoleOwnerIsAlone
  <2> QED
    BY <2>2 DEF OneEach, SoleOwner
<1> QED
  BY <1>1 DEF SolesIn, Without

(* A sole owner that is added is listed: nothing else can be in its place. *)
LEMMA WithListsSoles ==
    ASSUME NEW L, NEW A, NEW R, NEW S \in SUBSET Resources,
           OneEach(S), A \subseteq S, R \subseteq S, Sound(L, A), SolesIn(L, A)
    PROVE  SolesIn(With(L, R), A \union R)
<1>1. SUFFICES ASSUME NEW r \in A \union R, SoleOwner(r.member)
               PROVE  Url(r) \in DOMAIN With(L, R) /\ With(L, R)[Url(r)] = r
  BY DEF SolesIn
<1>2. CASE Url(r) \in DOMAIN L
  <2>1. With(L, R)[Url(r)] = L[Url(r)] /\ Url(r) \in DOMAIN With(L, R)
    BY <1>2 DEF With
  <2>2. L[Url(r)] \in A /\ Url(L[Url(r)]) = Url(r)
    BY <1>2 DEF Sound
  <2>3. L[Url(r)].member = r.member
    BY <1>1, <2>2, SoleOwnerIsAlone
  <2> QED
    BY <1>1, <2>1, <2>2, <2>3 DEF OneEach, SoleOwner
<1>3. CASE Url(r) \notin DOMAIN L
  <2>1. r \in R
    BY <1>1, <1>3 DEF SolesIn
  <2>2. /\ Url(r) \in DOMAIN With(L, R)
        /\ With(L, R)[Url(r)] = CHOOSE s \in R : Url(s) = Url(r)
    BY <1>3, <2>1 DEF With
  <2>3. ASSUME NEW s \in R, Url(s) = Url(r)
        PROVE  s = r
    <3>1. s.member = r.member
      BY <1>1, <2>3, SoleOwnerIsAlone
    <3> QED
      BY <1>1, <3>1 DEF OneEach, SoleOwner
  <2> QED
    BY <2>1, <2>2, <2>3
<1> QED
  BY <1>2, <1>3

(* What is sound for resources has the types of m_resources.               *)
LEMMA SoundTypes ==
    ASSUME NEW L, NEW A \in SUBSET Resources, Sound(L, A)
    PROVE  DOMAIN L \subseteq Urls /\ \A u \in DOMAIN L : L[u] \in Resources
BY UrlsAssumption DEF Sound, Url, Resources

(* The resource made for a member that holds at most one is a new one.     *)
LEMMA NewIsFresh ==
    ASSUME NEW m \in Members, \A r, s \in HeldBy({m}) : r = s
    PROVE  NewFor(m) \in Resources /\ NewFor(m) \notin live /\ NewFor(m).member = m
<1>1. NewFor(m) \in Resources /\ NewFor(m).member = m
  BY DEF NewFor, Resources
<1>2. ASSUME NewFor(m) \in live
      PROVE  FALSE
  <2> DEFINE r0 == [member |-> m, gen |-> 0]
             r1 == [member |-> m, gen |-> 1]
  <2>1. r0 \in live /\ r1 \in live
    BY <1>2 DEF NewFor
  <2>2. r0 \in HeldBy({m}) /\ r1 \in HeldBy({m})
    BY <2>1 DEF HeldBy
  <2>3. r0 = r1
    BY <2>2
  <2>4. r0.gen = r1.gen
    BY <2>3
  <2> QED
    BY <2>4
<1> QED
  BY <1>1, <1>2

(* The kinds of members are subsets of the members, and apart where the    *)
(* code keeps them apart.                                                  *)
LEMMA MembersOfKinds ==
    /\ Refreshed \subseteq Members /\ Owners \subseteq Members
    /\ Maps \subseteq Members /\ Clients \subseteq Owners
    /\ Textures \subseteq Owners /\ ObjectFiles \subseteq Owners
    /\ Refreshed \intersect Owners = {} /\ Maps \intersect Owners = {}
    /\ Refreshed \intersect Maps = {}
BY MembersAssumption DEF Members, Shared, Owners

(* At most one resource is held by a member that is not a map.             *)
LEMMA OneHeld ==
    ASSUME IInv, NEW m \in Refreshed \union Owners
    PROVE  \A r, s \in HeldBy({m}) : r = s
BY DEF IInv, SharedDataIsLoaded, OneEach, HeldBy

-----------------------------------------------------------------------------
(* A refresh keeps the invariant, whether it succeeds or not.              *)
LEMMA RefreshKeeps ==
    ASSUME IInv, NEW m \in Refreshed, Refresh(m)
    PROVE  IInv'
<1> DEFINE n == NewFor(m)
           old == HeldBy({m})
<1> USE DEF IInv
<1>1. n \in Resources /\ n \notin live /\ n.member = m
  BY NewIsFresh, OneHeld, MembersOfKinds
<1>2. old \subseteq live /\ n \notin old /\ \A r \in old : r.member = m
  BY <1>1 DEF HeldBy
<1>3. /\ live \subseteq Resources /\ attached \subseteq live /\ loaded \subseteq live
      /\ open \subseteq live /\ \A r \in open : r.member \in Maps
  BY DEF TypeOK, HeldBy
<1>4. m \notin Owners /\ m \notin Maps
  BY MembersOfKinds
<1>5. list = "alive" /\ list' = list /\ open' = open /\ answer' = NoAnswer
  BY DEF Refresh
<1> HIDE DEF n, old
<1>6. Sound(With(listed, {n}), attached \union {n})
  BY WithIsSound
<1>7. OneEach(live \union {n})
  BY <1>1, <1>4 DEF OneEach
<1>8. SolesIn(With(listed, {n}), attached \union {n})
  BY WithListsSoles, <1>7, <1>1, <1>3, <1>5
<1>9. CASE /\ listed' = AfterDelete(With(listed, {n}), old)
           /\ live' = (live \ old) \union {n}
           /\ attached' = (attached \ old) \union {n}
           /\ loaded' = (loaded \ old) \union {n}
  <2>1. attached' = (attached \union {n}) \ (old \intersect attached)
    BY <1>1, <1>2, <1>3, <1>9
  <2>2. Sound(listed, attached)'
    <3>1. Sound(AfterDelete(With(listed, {n}), old), (attached \union {n}) \ (old \intersect attached))
      BY <1>6, WithoutIsSound DEF AfterDelete
    <3> QED
      BY <3>1, <2>1, <1>9 DEF Sound
  <2>3. SolesIn(listed, attached)'
    <3>1. SolesIn(AfterDelete(With(listed, {n}), old), (attached \union {n}) \ (old \intersect attached))
      BY <1>8, <1>7, <1>1, <1>2, <1>3, WithoutKeepsSoles DEF AfterDelete
    <3> QED
      BY <3>1, <2>1, <1>9 DEF SolesIn
  <2>4. OneEach(live)'
    BY <1>7, <1>9 DEF OneEach
  <2>5. SharedDataIsLoaded'
    <3>1. SUFFICES ASSUME NEW k \in Refreshed, NEW r \in HeldBy({k})', NEW s \in HeldBy({k})'
                   PROVE  r \in loaded' /\ r = s
      BY DEF SharedDataIsLoaded
    <3>2. r \in live' /\ s \in live' /\ r.member = k /\ s.member = k
      BY <3>1 DEF HeldBy
    <3>3. CASE k = m
      <4>1. r \notin live \ old /\ s \notin live \ old
        BY <3>2, <3>3 DEF old, HeldBy
      <4> QED
        BY <4>1, <3>2, <1>9
    <3>4. CASE k # m
      <4>1. r \in HeldBy({k}) /\ s \in HeldBy({k}) /\ r \notin old
        BY <3>2, <3>4, <1>1, <1>2, <1>9 DEF HeldBy
      <4> QED
        BY <4>1, <1>9 DEF SharedDataIsLoaded
    <3> QED
      BY <3>3, <3>4
  <2>6. TypeOK'
    <3>1. live' \subseteq Resources /\ attached' \subseteq live' /\ loaded' \subseteq live'
      BY <1>1, <1>3, <1>9
    <3>2. open' \subseteq HeldBy(Maps)'
      BY <1>2, <1>3, <1>4, <1>5, <1>9 DEF HeldBy
    <3> QED
      BY <2>2, <3>1, <3>2, <1>5, SoundTypes DEF TypeOK, NoAnswer, Sound
  <2> QED
    BY <2>2, <2>3, <2>4, <2>5, <2>6, <1>5
<1>10. CASE /\ listed' = Without(With(listed, {n}), {n})
            /\ UNCHANGED <<live, attached, loaded>>
  <2>1. attached' = (attached \union {n}) \ {n}
    BY <1>1, <1>3, <1>10
  <2>2. Sound(listed, attached)'
    <3>1. Sound(Without(With(listed, {n}), {n}), (attached \union {n}) \ {n})
      BY <1>6, WithoutIsSound
    <3> QED
      BY <3>1, <2>1, <1>10 DEF Sound
  <2>3. SolesIn(listed, attached)'
    <3>1. SolesIn(Without(With(listed, {n}), {n}), (attached \union {n}) \ {n})
      BY <1>8, <1>7, <1>1, <1>3, WithoutKeepsSoles
    <3> QED
      BY <3>1, <2>1, <1>10 DEF SolesIn
  <2>4. OneEach(live)' /\ SharedDataIsLoaded'
    BY <1>10 DEF OneEach, SharedDataIsLoaded, HeldBy
  <2>5. TypeOK'
    BY <2>2, <1>3, <1>5, <1>10, SoundTypes DEF TypeOK, NoAnswer, Sound, HeldBy
  <2> QED
    BY <2>2, <2>3, <2>4, <2>5, <1>5
<1> QED
  BY <1>9, <1>10 DEF Refresh, n, old

(* Loading some of the files of an object keeps the invariant.             *)
LEMMA LoadKeeps ==
    ASSUME IInv, NEW o \in Objects, NEW k \in Nat, list = "alive", LoadFiles(o, k),
           UNCHANGED <<list, open>>, answer'.returned \in BOOLEAN, answer'.objects \subseteq Objects
    PROVE  IInv'
<1> DEFINE reset == {Files[o][i] : i \in {j \in DOMAIN Files[o] : j <= k + 1}}
           read == {Files[o][i] : i \in {j \in DOMAIN Files[o] : j <= k}}
           old == HeldBy(reset)
           new == {NewFor(m) : m \in reset}
<1> USE DEF IInv
<1>1. read \subseteq reset /\ reset \subseteq ObjectFiles
  <2>1. DOMAIN Files[o] = 1..Len(Files[o]) /\ Len(Files[o]) \in Nat
    BY FilesAssumption
  <2> QED
    BY <2>1 DEF ObjectFiles, FilesOf
<1>2. \A m \in reset : m \in Members /\ m \in Owners /\ m \notin Refreshed /\ m \notin Maps
  BY <1>1, MembersOfKinds
<1>3. /\ listed' = With(AfterDelete(listed, old), new)
      /\ live' = (live \ old) \union new
      /\ attached' = (attached \ old) \union new
      /\ loaded' = (loaded \ old) \union {NewFor(m) : m \in read}
  BY DEF LoadFiles
<1> HIDE DEF reset, read
<1>4. \A m \in reset : NewFor(m) \in Resources /\ NewFor(m) \notin live /\ NewFor(m).member = m
  BY <1>2, NewIsFresh, OneHeld
<1>5. /\ new \subseteq Resources
      /\ \A r \in new : r \notin live /\ r.member \in reset /\ r = NewFor(r.member)
      /\ {NewFor(m) : m \in read} \subseteq new
  BY <1>1, <1>4
<1>6. old \subseteq live /\ \A r \in live : r \in old <=> r.member \in reset
  BY DEF HeldBy
<1>7. /\ live \subseteq Resources /\ attached \subseteq live /\ loaded \subseteq live
      /\ open \subseteq live /\ \A r \in open : r.member \in Maps
  BY DEF TypeOK, HeldBy
<1> HIDE DEF old, new
<1>8. OneEach(live')
  BY <1>3, <1>5, <1>6 DEF OneEach
<1>9. live' \subseteq Resources /\ attached' \subseteq live' /\ loaded' \subseteq live'
  BY <1>3, <1>5, <1>7
<1>10. attached \ (old \intersect attached) = attached \ old
  OBVIOUS
<1>11. Sound(AfterDelete(listed, old), attached \ old)
  BY <1>10, WithoutIsSound DEF AfterDelete
<1>12. SolesIn(AfterDelete(listed, old), attached \ old)
  BY <1>6, <1>7, <1>10, WithoutKeepsSoles DEF AfterDelete
<1>13. Sound(listed', attached')
  BY <1>3, <1>11, WithIsSound
<1>14. SolesIn(listed', attached')
  BY <1>3, <1>8, <1>9, <1>11, <1>12, WithListsSoles
<1>15. SharedDataIsLoaded'
  <2>1. SUFFICES ASSUME NEW m \in Refreshed, NEW r \in HeldBy({m})', NEW s \in HeldBy({m})'
                 PROVE  r \in loaded' /\ r = s
    BY DEF SharedDataIsLoaded
  <2>2. r \in live' /\ s \in live' /\ r.member = m /\ s.member = m
    BY <2>1 DEF HeldBy
  <2>3. r \notin new /\ s \notin new /\ r \notin old /\ s \notin old
    BY <1>2, <1>5, <1>6, <2>2, <1>3
  <2>4. r \in HeldBy({m}) /\ s \in HeldBy({m})
    BY <2>2, <2>3, <1>3 DEF HeldBy
  <2> QED
    BY <2>3, <2>4, <1>3 DEF SharedDataIsLoaded
<1>16. TypeOK'
  <2>1. open' \subseteq HeldBy(Maps)'
    BY <1>2, <1>3, <1>6, <1>7 DEF HeldBy
  <2>2. DOMAIN listed' \subseteq Urls /\ \A u \in DOMAIN listed' : listed'[u] \in Resources
    BY <1>9, <1>13, SoundTypes
  <2> QED
    BY <1>9, <2>1, <2>2 DEF TypeOK
<1> QED
  BY <1>8, <1>13, <1>14, <1>15, <1>16 DEF OneEach, Sound, SolesIn

(* A new resource of an owner that holds none, attached or not.            *)
LEMMA NewKeeps ==
    ASSUME IInv, NEW m \in Owners, HeldBy({m}) = {},
           live' = live \union {NewFor(m)}, UNCHANGED <<list, loaded, open>>, answer' = NoAnswer,
           \/ /\ list = "alive"
              /\ listed' = With(listed, {NewFor(m)})
              /\ attached' = attached \union {NewFor(m)}
           \/ UNCHANGED <<listed, attached>>
    PROVE  IInv'
<1> DEFINE n == NewFor(m)
<1> USE DEF IInv
<1>1. n \in Resources /\ n \notin live /\ n.member = m
  BY NewIsFresh, OneHeld, MembersOfKinds
<1>2. m \notin Refreshed /\ m \notin Maps
  BY MembersOfKinds
<1>3. /\ live \subseteq Resources /\ attached \subseteq live /\ loaded \subseteq live
      /\ open \subseteq live /\ \A r \in open : r.member \in Maps
  BY DEF TypeOK, HeldBy
<1> HIDE DEF n
<1>4. \A r \in live : r.member # m
  BY DEF HeldBy
<1>5. OneEach(live')
  BY <1>1, <1>4 DEF OneEach, n
<1>6. live' \subseteq Resources /\ attached' \subseteq live' /\ loaded' \subseteq live'
  BY <1>1, <1>3 DEF n
<1>7. Sound(listed', attached')
  BY WithIsSound DEF Sound
<1>8. list' = "alive" => SolesIn(listed', attached')
  BY <1>3, <1>5, <1>6, WithListsSoles DEF SolesIn
<1>9. SharedDataIsLoaded'
  BY <1>1, <1>2 DEF SharedDataIsLoaded, HeldBy, n
<1>10. TypeOK'
  <2>1. open' \subseteq HeldBy(Maps)'
    BY <1>3 DEF HeldBy
  <2>2. DOMAIN listed' \subseteq Urls /\ \A u \in DOMAIN listed' : listed'[u] \in Resources
    BY <1>6, <1>7, SoundTypes
  <2> QED
    BY <1>6, <2>1, <2>2 DEF TypeOK, NoAnswer
<1> QED
  BY <1>5, <1>7, <1>8, <1>9, <1>10 DEF OneEach, Sound, SolesIn

(* setSource() of the list.                                                *)
LEMMA SetSourceKeeps ==
    ASSUME IInv, NEW r \in HeldBy(Clients), SetSource(r)
    PROVE  IInv'
<1> USE DEF IInv, SetSource
<1>1. r \in live /\ live \subseteq Resources /\ attached \subseteq live
  BY DEF TypeOK
<1>2. attached' \subseteq live /\ live' = live
  BY <1>1
<1>3. Sound(listed', attached')
  BY WithIsSound
<1>4. SolesIn(listed', attached')
  BY <1>1, WithListsSoles
<1>5. DOMAIN listed' \subseteq Urls /\ \A u \in DOMAIN listed' : listed'[u] \in Resources
  BY <1>1, <1>2, <1>3, SoundTypes
<1>6. TypeOK'
  BY <1>2, <1>5 DEF TypeOK, NoAnswer, HeldBy
<1>7. SharedDataIsLoaded' /\ OneEach(live)'
  BY DEF SharedDataIsLoaded, OneEach, HeldBy
<1> QED
  BY <1>3, <1>4, <1>6, <1>7 DEF Sound, SolesIn

(* Detaching resources of clients, whether they are destroyed or not.      *)
LEMMA DetachKeeps ==
    ASSUME IInv, NEW r \in HeldBy(Clients), Detach({r}), attached' = attached \ {r},
           \/ UNCHANGED <<live, loaded>>
           \/ live' = live \ {r} /\ loaded' = loaded \ {r},
           UNCHANGED open, answer' = NoAnswer
    PROVE  IInv'
<1> USE DEF IInv
<1>1. /\ live \subseteq Resources /\ attached \subseteq live /\ loaded \subseteq live
      /\ open \subseteq live /\ \A s \in open : s.member \in Maps
  BY DEF TypeOK, HeldBy
<1>2. r \in live /\ r.member \in Owners /\ r.member \notin Maps /\ r.member \notin Refreshed
  BY MembersOfKinds DEF HeldBy
<1>3. live' \subseteq live /\ attached' \subseteq live' /\ loaded' \subseteq live'
  BY <1>1
<1>4. list' \in Phases /\ (list # "alive" => list' # "alive") /\ (list = "alive" => list' = "alive")
  BY DEF TypeOK, Detach, Phases
<1>5. attached \ ({r} \intersect attached) = attached \ {r}
  OBVIOUS
<1>6. Sound(listed', attached')
  <2>1. CASE list = "alive"
    BY <2>1, <1>5, WithoutIsSound DEF Detach, AfterDelete
  <2>2. CASE list # "alive"
    BY <2>2 DEF Detach, Sound
  <2> QED
    BY <2>1, <2>2
<1>7. list' = "alive" => SolesIn(listed', attached')
  BY <1>1, <1>2, <1>4, <1>5, WithoutKeepsSoles DEF Detach, AfterDelete
<1>8. list' # "alive" => DOMAIN listed' = {}
  BY <1>4 DEF Detach
<1>9. DOMAIN listed' \subseteq Urls /\ \A u \in DOMAIN listed' : listed'[u] \in Resources
  BY <1>1, <1>3, <1>6, SoundTypes
<1>10. TypeOK'
  BY <1>1, <1>2, <1>3, <1>4, <1>9 DEF TypeOK, NoAnswer, HeldBy
<1>11. SharedDataIsLoaded'
  BY <1>2 DEF SharedDataIsLoaded, HeldBy
<1>12. OneEach(live)'
  BY <1>3 DEF OneEach
<1> QED
  BY <1>6, <1>7, <1>8, <1>10, <1>11, <1>12 DEF Sound, SolesIn

(* openMap().                                                              *)
LEMMA OpenMapKeeps ==
    ASSUME IInv, NEW r \in [member : Maps, gen : {0, 1}], OpenMap(r)
    PROVE  IInv'
<1> USE DEF IInv
<1>1. r \in Resources /\ r \notin live /\ r.member \in Maps
      /\ r.member \notin Owners /\ r.member \notin Refreshed
  BY MembersOfKinds DEF OpenMap, Resources
<1>2. /\ live \subseteq Resources /\ attached \subseteq live /\ loaded \subseteq live
      /\ open \subseteq live /\ \A s \in open : s.member \in Maps
  BY DEF TypeOK, HeldBy
<1>3. list = "alive" /\ list' = list /\ answer' = NoAnswer
  BY DEF OpenMap
<1>4. OneEach(live \union {r})
  BY <1>1 DEF OneEach
<1>5. Sound(With(listed, {r}), attached \union {r})
  BY WithIsSound
<1>6. SolesIn(With(listed, {r}), attached \union {r})
  BY <1>1, <1>2, <1>3, <1>4, WithListsSoles
<1>7. CASE /\ listed' = With(listed, {r})
           /\ live' = live \union {r}
           /\ attached' = attached \union {r}
           /\ loaded' = loaded \union {r}
           /\ open' = open \union {r}
  <2>1. live' \subseteq Resources /\ attached' \subseteq live' /\ loaded' \subseteq live'
        /\ open' \subseteq HeldBy(Maps)'
    BY <1>1, <1>2, <1>7 DEF HeldBy
  <2>2. DOMAIN listed' \subseteq Urls /\ \A u \in DOMAIN listed' : listed'[u] \in Resources
    BY <1>5, <1>7, <2>1, SoundTypes
  <2>3. TypeOK'
    BY <2>1, <2>2, <1>3 DEF TypeOK, NoAnswer
  <2>4. SharedDataIsLoaded'
    BY <1>1, <1>7 DEF SharedDataIsLoaded, HeldBy
  <2> QED
    BY <1>3, <1>4, <1>5, <1>6, <1>7, <2>3, <2>4 DEF Sound, SolesIn, OneEach
<1>8. CASE /\ listed' = Without(With(listed, {r}), {r})
           /\ UNCHANGED <<live, attached, loaded, open>>
  <2>1. attached' = (attached \union {r}) \ {r}
    BY <1>1, <1>2, <1>8
  <2>2. Sound(listed', attached')
    BY <1>5, <1>8, <2>1, WithoutIsSound
  <2>3. SolesIn(listed', attached')
    BY <1>1, <1>2, <1>4, <1>6, <1>8, <2>1, WithoutKeepsSoles
  <2>4. DOMAIN listed' \subseteq Urls /\ \A u \in DOMAIN listed' : listed'[u] \in Resources
    BY <1>2, <1>8, <2>2, SoundTypes
  <2>5. TypeOK'
    BY <2>4, <1>3, <1>8 DEF TypeOK, NoAnswer, HeldBy
  <2>6. SharedDataIsLoaded' /\ OneEach(live)'
    BY <1>8 DEF SharedDataIsLoaded, HeldBy, OneEach
  <2> QED
    BY <1>3, <2>2, <2>3, <2>5, <2>6 DEF Sound, SolesIn
<1> QED
  BY <1>7, <1>8 DEF OpenMap

(* closeMap(): the map is no owner, so no sole owner leaves the list.      *)
LEMMA CloseMapKeeps ==
    ASSUME IInv, NEW r \in open, CloseMap(r)
    PROVE  IInv'
<1> USE DEF IInv, CloseMap
<1>1. /\ live \subseteq Resources /\ attached \subseteq live
      /\ r \in live /\ r.member \in Maps
  BY DEF TypeOK, HeldBy
<1>2. r.member \notin Owners
  BY <1>1, MembersOfKinds
<1>3. Sound(listed', attached \ {r}) /\ SolesIn(listed', attached \ {r})
  BY <1>1, WithoutIsSound, WithoutKeepsSoles
<1>4. Sound(listed', attached')
  BY <1>3 DEF Sound
<1>5. SolesIn(listed', attached')
  BY <1>2, <1>3 DEF SolesIn, SoleOwner
<1>6. DOMAIN listed' \subseteq Urls /\ \A u \in DOMAIN listed' : listed'[u] \in Resources
  BY <1>1, <1>4, SoundTypes
<1>7. TypeOK'
  BY <1>6 DEF TypeOK, NoAnswer, HeldBy
<1>8. SharedDataIsLoaded' /\ OneEach(live)'
  BY DEF SharedDataIsLoaded, OneEach, HeldBy
<1> QED
  BY <1>4, <1>5, <1>7, <1>8 DEF Sound, SolesIn

(* The two halves of the end of the list.                                  *)
LEMMA DestroyKeeps ==
    ASSUME IInv, DestroyList \/ DestroyShared
    PROVE  IInv'
<1> USE DEF IInv
<1>1. list' \in Phases /\ list' # "alive"
  BY DEF DestroyList, DestroyShared, Phases
<1>2. DOMAIN listed' = {}
  BY DEF DestroyList, DestroyShared
<1>3. live' \subseteq live /\ attached' \subseteq live' /\ loaded' \subseteq live'
  BY DEF TypeOK, DestroyList, DestroyShared
<1>4. open' \subseteq HeldBy(Maps)'
  <2>1. CASE DestroyList
    BY <2>1 DEF DestroyList
  <2>2. CASE DestroyShared
    BY <2>2, MembersAssumption DEF DestroyShared, TypeOK, HeldBy
  <2> QED
    BY <2>1, <2>2
<1>5. answer'.returned \in BOOLEAN /\ answer'.objects \subseteq Objects
  <2>1. answer' = NoAnswer \/ answer' = answer
    BY DEF DestroyList, DestroyShared
  <2>2. answer.returned \in BOOLEAN /\ answer.objects \subseteq Objects
    BY DEF TypeOK
  <2>3. NoAnswer.returned \in BOOLEAN /\ NoAnswer.objects \subseteq Objects
    BY DEF NoAnswer
  <2>4. CASE answer' = NoAnswer
    BY <2>3, <2>4
  <2>5. CASE answer' = answer
    BY <2>2, <2>5, Zenon
  <2> QED
    BY <2>1, <2>4, <2>5
<1>6. TypeOK'
  BY <1>1, <1>2, <1>3, <1>4, <1>5 DEF TypeOK
<1>7. SharedDataIsLoaded'
  <2>1. SUFFICES ASSUME NEW m \in Refreshed, NEW r \in HeldBy({m})', NEW s \in HeldBy({m})'
                 PROVE  r \in loaded' /\ r = s
    BY DEF SharedDataIsLoaded
  <2>2. r \in live' /\ s \in live' /\ r \in HeldBy({m}) /\ s \in HeldBy({m})
    BY <1>3, <2>1 DEF HeldBy
  <2>3. r \in loaded /\ r = s
    BY <2>2 DEF SharedDataIsLoaded
  <2> QED
    BY <2>2, <2>3 DEF DestroyList, DestroyShared
<1>8. OneEach(live)'
  BY <1>3 DEF OneEach
<1> QED
  BY <1>1, <1>2, <1>6, <1>7, <1>8 DEF Sound

-----------------------------------------------------------------------------
(* At the start nothing is attached or loaded, which is sound.             *)
LEMMA InitEstablishes == Init => IInv
BY DEF Init, IInv, TypeOK, Sound, SolesIn, OneEach, SharedDataIsLoaded, HeldBy, Phases, NoAnswer

(* Every step keeps the invariant.                                         *)
LEMMA NextKeeps == IInv /\ [Next]_vars => IInv'
<1> SUFFICES ASSUME IInv, [Next]_vars
             PROVE  IInv'
  OBVIOUS
<1>1. CASE \E m \in Refreshed : Refresh(m)
  BY <1>1, RefreshKeeps
<1>2. CASE \E m \in Textures : NeedTexture(m)
  BY <1>2, NewKeeps, MembersOfKinds DEF NeedTexture
<1>3. CASE \E o \in Objects : Load(o)
  <2>1. PICK o \in Objects : Load(o)
    BY <1>3
  <2>2. Len(Files[o]) \in Nat /\ 0..Len(Files[o]) \subseteq Nat
    BY FilesAssumption
  <2>3. PICK k \in Nat : LoadFiles(o, k)
    BY <2>1, <2>2 DEF Load
  <2>4. answer'.returned \in BOOLEAN /\ answer'.objects \subseteq Objects
    BY <2>1 DEF Load, NoAnswer
  <2> QED
    BY <2>1, <2>3, <2>4, LoadKeeps DEF Load
<1>4. CASE \E o \in Objects : LoadOnRequest(o)
  <2>1. PICK o \in Objects : LoadOnRequest(o)
    BY <1>4
  <2>2. Len(Files[o]) \in Nat /\ 0..Len(Files[o]) \subseteq Nat
    BY FilesAssumption
  <2>3. answer'.returned \in BOOLEAN /\ answer'.objects \subseteq Objects
    <3>1. PICK b \in BOOLEAN : answer' = [returned |-> b, objects |-> {o}]
      BY <2>1, Zenon DEF LoadOnRequest
    <3> QED
      BY <3>1
  <2>4. CASE \E k \in 0..Len(Files[o]) : LoadFiles(o, k)
    <3>1. PICK k \in Nat : LoadFiles(o, k)
      BY <2>2, <2>4
    <3> QED
      BY <2>1, <2>3, <3>1, LoadKeeps DEF LoadOnRequest
  <2>5. CASE UNCHANGED <<listed, live, attached, loaded>>
    BY <2>1, <2>3, <2>5
      DEF LoadOnRequest, IInv, TypeOK, Sound, SolesIn, OneEach, SharedDataIsLoaded, HeldBy
  <2> QED
    BY <2>1, <2>4, <2>5 DEF LoadOnRequest
<1>5. CASE \E m \in Clients : Construct(m)
  BY <1>5, NewKeeps, MembersOfKinds DEF Construct
<1>6. CASE \E r \in HeldBy(Clients) : SetSource(r)
  BY <1>6, SetSourceKeeps
<1>7. CASE \E r \in HeldBy(Clients) : DropSource(r)
  BY <1>7, DetachKeeps DEF DropSource
<1>8. CASE \E r \in HeldBy(Clients) : Delete(r)
  BY <1>8, DetachKeeps DEF Delete
<1>9. CASE \E r \in [member : Maps, gen : {0, 1}] : OpenMap(r)
  BY <1>9, OpenMapKeeps
<1>10. CASE \E r \in open : CloseMap(r)
  BY <1>10, CloseMapKeeps
<1>11. CASE DestroyList \/ DestroyShared
  BY <1>11, DestroyKeeps
<1>12. CASE UNCHANGED vars
  BY <1>12 DEF vars, IInv, TypeOK, Sound, SolesIn, OneEach, SharedDataIsLoaded, HeldBy
<1> QED
  BY <1>1, <1>2, <1>3, <1>4, <1>5, <1>6, <1>7, <1>8, <1>9, <1>10, <1>11, <1>12 DEF Next

(* The inductive invariant holds of every reachable state.                 *)
LEMMA AlwaysIInv == Spec => []IInv
BY InitEstablishes, NextKeeps, PTL DEF Spec

(* The variables keep their types; attached and loaded resources exist.    *)
THEOREM ResourcesTypeCorrect == Spec => []TypeOK
<1>1. IInv => TypeOK
  BY DEF IInv
<1> QED
  BY <1>1, AlwaysIInv, PTL

(* For any members and URLs, whatever loads fail: m_resources holds no     *)
(* pointer to a destroyed or detached resource.                            *)
THEOREM NoDanglingResource == Spec => []RegistryNeverDangles
<1>1. IInv => RegistryNeverDangles
  BY DEF IInv, Sound, RegistryNeverDangles
<1> QED
  BY <1>1, AlwaysIInv, PTL

(* For any members and URLs, an attached resource that is the only user of *)
(* its URL is found in resources().                                        *)
THEOREM SoleOwnersStayListed == Spec => []SoleOwnersAreListed
<1>1. IInv => SoleOwnersAreListed
  BY DEF IInv, SolesIn, SoleOwnersAreListed
<1> QED
  BY <1>1, AlwaysIInv, PTL

(* The files of WarcraftIIIShared are complete whenever they are there.    *)
THEOREM SharedDataStaysLoaded == Spec => []SharedDataIsLoaded
<1>1. IInv => SharedDataIsLoaded
  BY DEF IInv
<1> QED
  BY <1>1, AlwaysIInv, PTL

(* What a load of the first k files of an object leaves: the files that    *)
(* were read are there and loaded, the one that failed is there and is not.*)
LEMMA LoadLeaves ==
    ASSUME IInv, NEW o \in Objects, NEW k \in Nat, LoadFiles(o, k)
    PROVE  /\ \A i \in DOMAIN Files[o] : i <= k =>
                /\ HeldBy({Files[o][i]})' # {}
                /\ HeldBy({Files[o][i]})' \subseteq loaded'
           /\ k + 1 \in DOMAIN Files[o] => ~(HeldBy({Files[o][k + 1]})' \subseteq loaded')
<1> DEFINE reset == {Files[o][i] : i \in {j \in DOMAIN Files[o] : j <= k + 1}}
           read == {Files[o][i] : i \in {j \in DOMAIN Files[o] : j <= k}}
           old == HeldBy(reset)
           new == {NewFor(m) : m \in reset}
<1>1. /\ live' = (live \ old) \union new
      /\ loaded' = (loaded \ old) \union {NewFor(m) : m \in read}
  BY DEF LoadFiles
<1>2. DOMAIN Files[o] \subseteq Nat
  BY FilesAssumption
<1>3. \A i \in DOMAIN Files[o] :
         /\ i <= k + 1 => Files[o][i] \in reset
         /\ i <= k => Files[o][i] \in reset /\ Files[o][i] \in read
  BY <1>2
<1>4. \A m \in read : \E i \in DOMAIN Files[o] : i <= k /\ m = Files[o][i]
  OBVIOUS
<1>5. read \subseteq ObjectFiles /\ reset \subseteq ObjectFiles
  BY DEF ObjectFiles, FilesOf
<1> HIDE DEF reset, read
<1>6. \A m \in reset : NewFor(m) \notin live /\ NewFor(m).member = m
  BY <1>5, NewIsFresh, OneHeld, MembersOfKinds
<1>7. \A m \in read : NewFor(m).member = m
  BY <1>5, NewIsFresh, OneHeld, MembersOfKinds
<1>8. \A r \in live : r.member \in reset => r \in old
  BY DEF HeldBy
<1>9. \A m \in reset : HeldBy({m})' = {NewFor(m)}
  <2> SUFFICES ASSUME NEW m \in reset
               PROVE  {r \in live' : r.member \in {m}} = {NewFor(m)}
    BY DEF HeldBy
  <2>1. NewFor(m) \in live' /\ NewFor(m).member = m
    BY <1>1, <1>6
  <2>2. ASSUME NEW r \in live', r.member = m
        PROVE  r = NewFor(m)
    <3>1. r \notin live \ old
      BY <1>8, <2>2
    <3>2. PICK n \in reset : r = NewFor(n)
      BY <1>1, <3>1
    <3> QED
      BY <1>6, <2>2, <3>2
  <2> QED
    BY <2>1, <2>2
<1>10. ASSUME NEW i \in DOMAIN Files[o], i <= k
       PROVE  HeldBy({Files[o][i]})' # {} /\ HeldBy({Files[o][i]})' \subseteq loaded'
  <2>1. NewFor(Files[o][i]) \in loaded'
    BY <1>1, <1>3, <1>10
  <2> QED
    BY <1>3, <1>9, <1>10, <2>1
<1>11. ASSUME k + 1 \in DOMAIN Files[o]
       PROVE  ~(HeldBy({Files[o][k + 1]})' \subseteq loaded')
  <2> DEFINE m == Files[o][k + 1]
  <2>1. m \in reset
    BY <1>3, <1>11
  <2>2. m \notin read
    <3> SUFFICES ASSUME m \in read
                 PROVE  FALSE
      OBVIOUS
    <3>1. PICK i \in DOMAIN Files[o] : i <= k /\ m = Files[o][i]
      BY <1>4
    <3>2. i = k + 1
      BY <1>11, <3>1, FilesAssumption
    <3> QED
      BY <1>2, <3>1, <3>2
  <2> HIDE DEF m
  <2>3. NewFor(m) \notin loaded
    BY <1>6, <2>1 DEF IInv, TypeOK
  <2>4. \A n \in read : NewFor(n) # NewFor(m)
    BY <1>6, <1>7, <2>1, <2>2
  <2>5. NewFor(m) \notin loaded'
    BY <1>1, <2>3, <2>4
  <2>6. HeldBy({m})' = {NewFor(m)}
    BY <1>9, <2>1
  <2>7. ~(HeldBy({m})' \subseteq loaded')
    BY <2>5, <2>6
  <2> QED
    BY <2>7 DEF m
<1> QED
  BY <1>10, <1>11

(* loadOnRequest() that loads returns TRUE if and only if every file of    *)
(* the object has been loaded, whichever file fails.                       *)
THEOREM RequestsAnswerTruly == Spec => RequestLoads
<1> DEFINE Answers ==
        \A o \in Objects :
            LoadOnRequest(o) /\ HeldBy({Files[o][1]}) = {} =>
                (answer'.returned <=>
                    \A m \in FilesOf(o) : HeldBy({m})' # {} /\ HeldBy({m})' \subseteq loaded')
<1>1. IInv /\ [Next]_vars => [Answers]_vars
  <2> SUFFICES ASSUME IInv, NEW o \in Objects, LoadOnRequest(o), HeldBy({Files[o][1]}) = {}
               PROVE  answer'.returned <=>
                        \A m \in FilesOf(o) : HeldBy({m})' # {} /\ HeldBy({m})' \subseteq loaded'
    OBVIOUS
  <2>1. PICK k \in 0..Len(Files[o]) :
          LoadFiles(o, k) /\ answer' = [returned |-> k = Len(Files[o]), objects |-> {o}]
    BY Zenon DEF LoadOnRequest
  <2>2. DOMAIN Files[o] = 1..Len(Files[o]) /\ Len(Files[o]) \in Nat
    BY FilesAssumption
  <2>3. k \in Nat /\ k <= Len(Files[o])
    BY <2>2
  <2>4. /\ \A i \in DOMAIN Files[o] : i <= k =>
             HeldBy({Files[o][i]})' # {} /\ HeldBy({Files[o][i]})' \subseteq loaded'
        /\ k + 1 \in DOMAIN Files[o] => ~(HeldBy({Files[o][k + 1]})' \subseteq loaded')
    BY <2>1, <2>3, LoadLeaves
  <2>5. answer'.returned <=> k = Len(Files[o])
    BY <2>1
  <2>6. CASE k = Len(Files[o])
    <3>1. \A i \in DOMAIN Files[o] : i <= k
      BY <2>2, <2>6
    <3>2. \A m \in FilesOf(o) : \E i \in DOMAIN Files[o] : m = Files[o][i]
      BY DEF FilesOf
    <3> QED
      BY <2>4, <2>5, <2>6, <3>1, <3>2
  <2>7. CASE k # Len(Files[o])
    <3>1. k + 1 \in DOMAIN Files[o]
      BY <2>2, <2>3, <2>7
    <3>2. Files[o][k + 1] \in FilesOf(o)
      BY <3>1 DEF FilesOf
    <3> QED
      BY <2>4, <2>5, <2>7, <3>1, <3>2
  <2> QED
    BY <2>6, <2>7
<1> QED
  BY <1>1, AlwaysIInv, PTL DEF Spec, RequestLoads
=============================================================================
