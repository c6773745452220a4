------------------------ MODULE DroidHwModule_proofs ------------------------
(***************************************************************************)
(* The references counted in a hw module are those its users and their     *)
(* streams hold, and the lost ones, for every set of cards, sinks, sources *)
(* and modules.                                                            *)
(***************************************************************************)
EXTENDS DroidHwModule, FiniteSetTheorems, TLAPS

Devices == Sinks \cup Sources

(* TypeOK without the bound on references, which follows from Counted.     *)
LibType(l) ==
    l \in [shared : [Ids -> Instances \cup {NoHw}], api : Instances \cup {NoHw},
           id : [Instances -> Ids], refs : [Instances -> Nat],
           how : [Instances -> Options], device : [Instances -> BOOLEAN],
           streams : [Instances -> SUBSET Devices],
           status : {"running", "aborted", "exited"}]

(* What is shared under an id is referenced and open; what is referenced   *)
(* is shared under its id and open; nothing else is left open.             *)
SharedIsOpen(l) ==
    /\ \A d \in Ids : l.shared[d] # NoHw => /\ l.id[l.shared[d]] = d
                                            /\ l.refs[l.shared[d]] > 0
    /\ \A i \in Instances : l.refs[i] > 0 => l.shared[l.id[i]] = i /\ l.device[i]
    /\ \A i \in Instances : l.device[i] /\ l.refs[i] = 0 => l.how[i] = "no_close"
    /\ l.api # NoHw => l.shared[PrimaryId] = l.api
    /\ l.status # "aborted"

UsersOf(h, i) == {u \in Users : h[u] = i}
StreamsOf(h, i) == {s \in Devices : h[s] = i}

(* Every user holds a reference of the object it uses, and its stream one  *)
(* more, besides the references of streams that failed to open.            *)
Counted(l, h, lo) ==
    \A i \in Instances :
        /\ l.streams[i] = StreamsOf(h, i)
        /\ l.refs[i] = Cardinality(UsersOf(h, i)) + Cardinality(StreamsOf(h, i)) + lo[i]

UsesItsId(l, h) == \A u \in Users : h[u] # NoHw => l.id[h[u]] = Id[u]

IInv ==
    /\ LibType(lib) /\ hw \in [Users -> Instances \cup {NoHw}]
    /\ lost \in [Instances -> 0..MaxLost]
    /\ SharedIsOpen(lib)
    /\ Counted(lib, hw, lost)
    /\ UsesItsId(lib, hw)

-----------------------------------------------------------------------------
(* What the functions of droid-util.c do to the counters and to what is    *)
(* shared.                                                                 *)

(* An object a user that asks for module d may get, Fresh().               *)
MayGet(l, d, i) == l.shared[d] = i \/ (l.shared[d] = NoHw /\ l.refs[i] = 0 /\ ~l.device[i])

(* From l to g the references of i change by n, those of no other object.  *)
RefsChange(l, g, i, n) ==
    /\ g.refs[i] = l.refs[i] + n
    /\ \A j \in Instances \ {i} : g.refs[j] = l.refs[j]

LEMMA ReferencedEffect ==
    ASSUME NEW l, LibType(l), SharedIsOpen(l), NEW i \in Instances, l.refs[i] > 0,
           NEW g, g = Referenced(l, i)
    PROVE  /\ LibType(g) /\ SharedIsOpen(g)
           /\ RefsChange(l, g, i, 1)
           /\ g.streams = l.streams /\ g.id = l.id
<1>1. /\ g.refs = [l.refs EXCEPT ![i] = @ + 1]
      /\ g.shared = l.shared /\ g.api = l.api /\ g.id = l.id /\ g.how = l.how
      /\ g.device = l.device /\ g.streams = l.streams /\ g.status = l.status
  BY DEF LibType, Referenced
<1>2. LibType(g)
  BY DEF LibType, Referenced
<1>3. \A j \in Instances : /\ l.refs[j] \in Nat
                           /\ g.refs[j] > 0 <=> l.refs[j] > 0
                           /\ g.refs[j] = 0 <=> l.refs[j] = 0
  BY <1>1 DEF LibType
<1>4. \A d \in Ids : l.shared[d] \in Instances \cup {NoHw}
  BY DEF LibType
<1>5. SharedIsOpen(g)
  BY <1>1, <1>3, <1>4 DEF SharedIsOpen
<1>6. RefsChange(l, g, i, 1)
  BY <1>1 DEF RefsChange, LibType
<1> QED BY <1>1, <1>2, <1>5, <1>6

LEMMA OpenedEffect ==
    ASSUME NEW l, LibType(l), SharedIsOpen(l), NEW d \in Ids, NEW i \in Instances, NEW o \in Options,
           l.shared[d] = NoHw, l.refs[i] = 0, ~l.device[i],
           NEW g, g = Opened(l, d, i, o)
    PROVE  /\ LibType(g) /\ SharedIsOpen(g)
           /\ RefsChange(l, g, i, 1)
           /\ g.streams = l.streams /\ g.id[i] = d
           /\ \A j \in Instances \ {i} : g.id[j] = l.id[j]
<1>1. /\ g.refs = [l.refs EXCEPT ![i] = 1] /\ g.shared = [l.shared EXCEPT ![d] = i]
      /\ g.api = IF d = PrimaryId THEN i ELSE l.api
      /\ g.id = [l.id EXCEPT ![i] = d] /\ g.how = [l.how EXCEPT ![i] = o]
      /\ g.device = [l.device EXCEPT ![i] = TRUE]
      /\ g.streams = l.streams /\ g.status = l.status
  BY DEF LibType, Opened
<1>2. LibType(g)
  BY DEF LibType, Opened
<1>3. /\ \A j \in Instances : l.refs[j] \in Nat /\ l.id[j] \in Ids
      /\ \A e \in Ids : l.shared[e] \in Instances \cup {NoHw}
      /\ l.refs \in [Instances -> Nat] /\ l.shared \in [Ids -> Instances \cup {NoHw}]
      /\ l.id \in [Instances -> Ids] /\ l.device \in [Instances -> BOOLEAN]
      /\ l.how \in [Instances -> Options]
      /\ i # NoHw
  BY HwModuleAssumption DEF LibType
<1>4. \A e \in Ids : g.shared[e] # NoHw => g.id[g.shared[e]] = e /\ g.refs[g.shared[e]] > 0
  BY <1>1, <1>3 DEF SharedIsOpen
<1>5. ASSUME NEW j \in Instances, g.refs[j] > 0
      PROVE  g.shared[g.id[j]] = j /\ g.device[j]
  <2>1. CASE j = i
    BY <1>1, <1>3, <2>1
  <2>2. CASE j # i
    <3>1. l.shared[l.id[j]] = j /\ l.device[j] /\ j # NoHw
      BY <1>1, <1>3, <1>5, <2>2, HwModuleAssumption DEF SharedIsOpen
    <3> QED BY <1>1, <1>3, <2>2, <3>1
  <2> QED BY <2>1, <2>2
<1>6. \A j \in Instances : g.device[j] /\ g.refs[j] = 0 => g.how[j] = "no_close"
  BY <1>1, <1>3 DEF SharedIsOpen
<1>7. g.api # NoHw => g.shared[PrimaryId] = g.api
  BY <1>1, <1>3, HwModuleAssumption DEF SharedIsOpen
<1>8. SharedIsOpen(g)
  BY <1>1, <1>4, <1>5, <1>6, <1>7 DEF SharedIsOpen
<1>9. RefsChange(l, g, i, 1)
  BY <1>1, <1>3 DEF RefsChange
<1> QED BY <1>1, <1>2, <1>3, <1>8, <1>9

(* A user gets the object shared under its id, with one reference more.    *)
LEMMA GotEffect ==
    ASSUME NEW l, LibType(l), SharedIsOpen(l), NEW d \in Ids, NEW i \in Instances, NEW o \in Options,
           MayGet(l, d, i), NEW g, g = Got(l, d, i, o)
    PROVE  /\ LibType(g) /\ SharedIsOpen(g)
           /\ RefsChange(l, g, i, 1) /\ g.refs[i] > 0
           /\ g.streams = l.streams /\ g.id[i] = d
           /\ \A j \in Instances : l.refs[j] > 0 => g.id[j] = l.id[j]
<1>1. /\ i # NoHw /\ l.refs[i] \in Nat /\ l.refs \in [Instances -> Nat]
      /\ l.id \in [Instances -> Ids]
  BY HwModuleAssumption DEF LibType
<1>2. CASE l.shared[d] = i
  <2>1. l.refs[i] > 0 /\ l.id[i] = d
    BY <1>1, <1>2 DEF SharedIsOpen
  <2>2. g = Referenced(l, i)
    BY <1>1, <1>2 DEF Got
  <2>3. /\ LibType(g) /\ SharedIsOpen(g)
        /\ RefsChange(l, g, i, 1)
        /\ g.streams = l.streams /\ g.id = l.id
    BY <2>1, <2>2, ReferencedEffect
  <2> QED BY <1>1, <2>1, <2>3 DEF RefsChange
<1>3. CASE l.shared[d] = NoHw /\ l.refs[i] = 0 /\ ~l.device[i]
  <2>1. g = Opened(l, d, i, o)
    BY <1>3 DEF Got
  <2>2. /\ LibType(g) /\ SharedIsOpen(g)
        /\ RefsChange(l, g, i, 1)
        /\ g.streams = l.streams /\ g.id[i] = d
        /\ \A j \in Instances \ {i} : g.id[j] = l.id[j]
    BY <1>3, <2>1, OpenedEffect
  <2> QED BY <1>1, <1>3, <2>2 DEF RefsChange
<1> QED BY <1>2, <1>3 DEF MayGet

(* References are given back one by one or several in a row, and the last  *)
(* closes: by then no stream may be left.                                  *)
LEMMA UnrefsEffect ==
    ASSUME NEW l, LibType(l), SharedIsOpen(l), NEW i \in Instances, NEW n \in Nat,
           l.refs[i] >= n, l.refs[i] > 0, l.refs[i] = n => l.streams[i] = {},
           NEW g, g = Unrefs(l, i, n)
    PROVE  /\ LibType(g) /\ SharedIsOpen(g)
           /\ RefsChange(l, g, i, -n)
           /\ g.streams = l.streams /\ g.id = l.id
<1> DEFINE less == [l EXCEPT !.refs[i] = @ - n]
<1>1. /\ \A j \in Instances : l.refs[j] \in Nat /\ l.id[j] \in Ids
      /\ \A e \in Ids : l.shared[e] \in Instances \cup {NoHw}
      /\ l.refs \in [Instances -> Nat] /\ l.shared \in [Ids -> Instances \cup {NoHw}]
      /\ l.id \in [Instances -> Ids] /\ l.device \in [Instances -> BOOLEAN]
      /\ l.how \in [Instances -> Options] /\ l.api \in Instances \cup {NoHw}
      /\ l.streams \in [Instances -> SUBSET Devices]
      /\ l.status \in {"running", "aborted", "exited"}
      /\ i # NoHw
  BY HwModuleAssumption DEF LibType
<1>2. /\ less.refs = [l.refs EXCEPT ![i] = @ - n] /\ less.refs[i] = l.refs[i] - n
      /\ less.shared = l.shared /\ less.api = l.api /\ less.id = l.id /\ less.how = l.how
      /\ less.device = l.device /\ less.streams = l.streams /\ less.status = l.status
      /\ LibType(less)
  <2>1. LibType(less)
    BY <1>1 DEF LibType
  <2> QED BY <1>1, <2>1 DEF LibType
<1>3. CASE l.refs[i] > n
  <2>1. g = less
    BY <1>1, <1>2, <1>3 DEF Unrefs
  <2>2. \A j \in Instances : g.refs[j] > 0 <=> l.refs[j] > 0
    BY <1>1, <1>2, <1>3, <2>1
  <2>3. \A j \in Instances : g.refs[j] = 0 <=> l.refs[j] = 0
    BY <1>1, <1>2, <1>3, <2>1
  <2>4. SharedIsOpen(g)
    BY <1>1, <1>2, <2>1, <2>2, <2>3 DEF SharedIsOpen
  <2>5. RefsChange(l, g, i, -n)
    BY <1>1, <1>2, <2>1 DEF RefsChange
  <2> QED BY <1>2, <2>1, <2>4, <2>5
<1>4. CASE l.refs[i] = n
  <2> DEFINE gone == [less EXCEPT !.shared[l.id[i]] = NoHw]
  <2>1. /\ gone.shared = [l.shared EXCEPT ![l.id[i]] = NoHw]
        /\ gone.refs = less.refs /\ gone.api = l.api /\ gone.id = l.id /\ gone.how = l.how
        /\ gone.device = l.device /\ gone.streams = l.streams /\ gone.status = l.status
        /\ LibType(gone)
    BY <1>1, <1>2 DEF LibType
  <2>2. g = Closed(gone, i)
    BY <1>1, <1>2, <1>4 DEF Unrefs
  <2> HIDE DEF less, gone
  <2>3. /\ g.shared = [l.shared EXCEPT ![l.id[i]] = NoHw]
        /\ g.refs = [l.refs EXCEPT ![i] = @ - n] /\ g.id = l.id /\ g.how = l.how
        /\ g.api = IF l.id[i] = PrimaryId THEN NoHw ELSE l.api
        /\ g.device = [l.device EXCEPT ![i] = l.how[i] = "no_close"]
        /\ g.streams = l.streams
        /\ g.status = IF l.how[i] = "exit" THEN "exited" ELSE l.status
    BY <1>2, <1>4, <2>1, <2>2 DEF Closed, LibType
  <2>4. LibType(g)
    <3>1. /\ g.shared \in [Ids -> Instances \cup {NoHw}] /\ g.api \in Instances \cup {NoHw}
          /\ g.id \in [Instances -> Ids] /\ g.refs \in [Instances -> Nat]
          /\ g.how \in [Instances -> Options] /\ g.streams \in [Instances -> SUBSET Devices]
          /\ g.status \in {"running", "aborted", "exited"}
      BY <1>1, <1>2, <2>3 DEF LibType
    <3>2. g.device \in [Instances -> BOOLEAN]
      BY <1>1, <2>3
    <3>3. g = [shared |-> g.shared, api |-> g.api, id |-> g.id, refs |-> g.refs, how |-> g.how,
               device |-> g.device, streams |-> g.streams, status |-> g.status]
      BY <2>1, <2>2 DEF Closed, LibType
    <3> QED BY <3>1, <3>2, <3>3 DEF LibType
  <2>5. /\ g.refs[i] = 0 /\ \A j \in Instances \ {i} : g.refs[j] = l.refs[j]
    BY <1>1, <1>4, <2>3
  <2>6. l.shared[l.id[i]] = i
    BY DEF SharedIsOpen
  <2>7. \A e \in Ids : g.shared[e] # NoHw => g.id[g.shared[e]] = e /\ g.refs[g.shared[e]] > 0
    BY <1>1, <2>3, <2>5 DEF SharedIsOpen
  <2>8. \A j \in Instances : g.refs[j] > 0 => g.shared[g.id[j]] = j /\ g.device[j]
    BY <1>1, <2>3, <2>5, <2>6 DEF SharedIsOpen
  <2>9. ASSUME NEW j \in Instances, g.device[j], g.refs[j] = 0
        PROVE  g.how[j] = "no_close"
    <3>1. CASE j = i
      <4>1. g.device[i] = (l.how[i] = "no_close")
        BY <1>1, <2>3
      <4> QED BY <2>3, <2>9, <3>1, <4>1
    <3>2. CASE j # i
      <4>1. g.device[j] = l.device[j] /\ l.refs[j] = 0
        BY <1>1, <2>3, <2>5, <2>9, <3>2
      <4>2. l.device[j]
        BY <2>9, <4>1
      <4> QED BY <2>3, <4>1, <4>2 DEF SharedIsOpen
    <3> QED BY <3>1, <3>2
  <2>10. g.api # NoHw => g.shared[PrimaryId] = g.api
    BY <1>1, <2>3, HwModuleAssumption DEF SharedIsOpen
  <2>11. g.status # "aborted"
    BY <2>3 DEF SharedIsOpen
  <2>12. RefsChange(l, g, i, -n)
    BY <1>1, <1>4, <2>5 DEF RefsChange
  <2>13. SharedIsOpen(g)
    BY <2>7, <2>8, <2>9, <2>10, <2>11 DEF SharedIsOpen
  <2> QED BY <2>3, <2>4, <2>12, <2>13
<1> QED BY <1>1, <1>3, <1>4

WithStreams(l, i, S) == [l EXCEPT !.streams[i] = S]

LEMMA StreamsEffect ==
    ASSUME NEW l, LibType(l), SharedIsOpen(l), NEW i \in Instances, NEW S \in SUBSET Devices,
           NEW g, g = WithStreams(l, i, S)
    PROVE  /\ LibType(g) /\ SharedIsOpen(g)
           /\ g.streams[i] = S /\ \A j \in Instances \ {i} : g.streams[j] = l.streams[j]
           /\ g.refs = l.refs /\ g.id = l.id
<1>1. /\ g.streams[i] = S /\ \A j \in Instances \ {i} : g.streams[j] = l.streams[j]
      /\ g.shared = l.shared /\ g.api = l.api /\ g.id = l.id /\ g.how = l.how
      /\ g.device = l.device /\ g.refs = l.refs /\ g.status = l.status
  BY DEF LibType, WithStreams
<1>2. LibType(g)
  BY DEF LibType, WithStreams
<1>3. SharedIsOpen(g)
  BY <1>1 DEF SharedIsOpen
<1> QED BY <1>1, <1>2, <1>3

-----------------------------------------------------------------------------
(* What users coming and going does to the sets counted.                   *)

LEMMA FiniteUsers ==
    ASSUME NEW h, NEW i
    PROVE  /\ IsFiniteSet(UsersOf(h, i)) /\ IsFiniteSet(StreamsOf(h, i))
           /\ Cardinality(UsersOf(h, i)) \in Nat /\ Cardinality(StreamsOf(h, i)) \in Nat
           /\ Cardinality(UsersOf(h, i)) <= Cardinality(Users)
           /\ Cardinality(StreamsOf(h, i)) <= Cardinality(Users)
<1>1. UsersOf(h, i) \subseteq Users /\ StreamsOf(h, i) \subseteq Users
  BY DEF UsersOf, StreamsOf, Users, Devices
<1>2. IsFiniteSet(Users)
  BY HwModuleAssumption
<1>3. IsFiniteSet(UsersOf(h, i)) /\ Cardinality(UsersOf(h, i)) <= Cardinality(Users)
  BY <1>1, <1>2, FS_Subset
<1>4. IsFiniteSet(StreamsOf(h, i)) /\ Cardinality(StreamsOf(h, i)) <= Cardinality(Users)
  BY <1>1, <1>2, FS_Subset
<1> QED BY <1>3, <1>4, FS_CardinalityType

LEMMA SubsetDifference ==
    ASSUME NEW T, IsFiniteSet(T), NEW S \in SUBSET T
    PROVE  /\ Cardinality(T \ S) = Cardinality(T) - Cardinality(S)
           /\ Cardinality(S) <= Cardinality(T) /\ Cardinality(S) \in Nat
<1> DEFINE D == T \ S
<1>1. IsFiniteSet(S) /\ Cardinality(S) <= Cardinality(T) /\ IsFiniteSet(D)
  BY FS_Subset
<1>2. D \cup S = T /\ D \cap S = {}
  OBVIOUS
<1> HIDE DEF D
<1>3. Cardinality(D \cup S) = Cardinality(D) + Cardinality(S) - Cardinality(D \cap S)
  BY <1>1, FS_Union
<1>4. /\ Cardinality(D) \in Nat /\ Cardinality(S) \in Nat /\ Cardinality(T) \in Nat
  BY <1>1, FS_CardinalityType
<1>5. Cardinality(D \cap S) = 0
  BY <1>2, FS_EmptySet
<1>6. Cardinality(T) = Cardinality(D) + Cardinality(S)
  <2>1. Cardinality(D \cup S) = Cardinality(T)
    BY <1>2, Zenon
  <2> QED BY <1>3, <1>4, <1>5, <2>1
<1> QED BY <1>1, <1>4, <1>6 DEF D

(* From h to k user u takes object i; or the users S leave object i.       *)
Takes(h, k, u, i) ==
    /\ h[u] = NoHw /\ k[u] = i
    /\ \A v \in Users \ {u} : k[v] = h[v]
Leave(h, k, S, i) ==
    /\ \A u \in S : h[u] = i
    /\ \A u \in Users : k[u] = IF u \in S THEN NoHw ELSE h[u]

(* The users and the streams of the other objects stay what they are.      *)
OthersKept(h, k, i) ==
    \A j \in Instances \ {i} : UsersOf(k, j) = UsersOf(h, j) /\ StreamsOf(k, j) = StreamsOf(h, j)

LEMMA TakeCounts ==
    ASSUME NEW h, NEW k, NEW u \in Users, NEW i \in Instances, Takes(h, k, u, i)
    PROVE  /\ OthersKept(h, k, i)
           /\ Cardinality(UsersOf(k, i)) = Cardinality(UsersOf(h, i)) + 1
           /\ u \in Cards => StreamsOf(k, i) = StreamsOf(h, i)
           /\ u \in Devices => /\ StreamsOf(k, i) = StreamsOf(h, i) \cup {u}
                               /\ Cardinality(StreamsOf(k, i)) = Cardinality(StreamsOf(h, i)) + 1
<1>1. i # NoHw /\ u \notin UsersOf(h, i) /\ u \notin StreamsOf(h, i)
  BY HwModuleAssumption DEF UsersOf, StreamsOf, Takes
<1>2. UsersOf(k, i) = UsersOf(h, i) \cup {u}
  BY DEF UsersOf, Takes
<1>3. Cardinality(UsersOf(k, i)) = Cardinality(UsersOf(h, i)) + 1
  BY <1>1, <1>2, FiniteUsers, FS_AddElement
<1>4. Devices \subseteq Users
  BY DEF Devices, Users
<1>5. OthersKept(h, k, i)
  BY <1>4, HwModuleAssumption DEF UsersOf, StreamsOf, Takes, OthersKept
<1>6. u \in Cards => StreamsOf(k, i) = StreamsOf(h, i)
  BY <1>4, HwModuleAssumption DEF StreamsOf, Devices, Takes
<1>7. u \in Devices => StreamsOf(k, i) = StreamsOf(h, i) \cup {u}
  BY <1>4 DEF StreamsOf, Takes
<1>8. u \in Devices => Cardinality(StreamsOf(k, i)) = Cardinality(StreamsOf(h, i)) + 1
  BY <1>1, <1>7, FiniteUsers, FS_AddElement
<1> QED BY <1>3, <1>5, <1>6, <1>7, <1>8

LEMMA LeaveOthers ==
    ASSUME NEW h, NEW k, NEW S \in SUBSET Users, NEW i \in Instances, Leave(h, k, S, i)
    PROVE  OthersKept(h, k, i)
<1>1. Devices \subseteq Users
  BY DEF Devices, Users
<1> QED BY <1>1, HwModuleAssumption DEF UsersOf, StreamsOf, Leave, OthersKept

LEMMA LeaveUsers ==
    ASSUME NEW h, NEW k, NEW S \in SUBSET Users, NEW i \in Instances, Leave(h, k, S, i)
    PROVE  /\ Cardinality(UsersOf(k, i)) = Cardinality(UsersOf(h, i)) - Cardinality(S)
           /\ Cardinality(S) \in Nat
<1>1. UsersOf(k, i) = UsersOf(h, i) \ S /\ S \subseteq UsersOf(h, i)
  BY HwModuleAssumption DEF UsersOf, Leave
<1> QED BY <1>1, FiniteUsers, SubsetDifference

StreamsIn(S) == S \cap Devices

LEMMA LeaveStreams ==
    ASSUME NEW h, NEW k, NEW S \in SUBSET Users, NEW i \in Instances, Leave(h, k, S, i)
    PROVE  \A s : s \in StreamsOf(k, i) <=> s \in StreamsOf(h, i) /\ s \notin S
<1>1. Devices \subseteq Users /\ i # NoHw
  BY HwModuleAssumption DEF Devices, Users
<1> QED BY <1>1 DEF StreamsOf, Leave

LEMMA LeaveStreamCount ==
    ASSUME NEW h, NEW k, NEW S \in SUBSET Users, NEW i \in Instances, Leave(h, k, S, i)
    PROVE  /\ Cardinality(StreamsOf(k, i)) = Cardinality(StreamsOf(h, i)) - Cardinality(StreamsIn(S))
           /\ Cardinality(StreamsIn(S)) \in Nat
<1>1. StreamsOf(k, i) = StreamsOf(h, i) \ S
  BY LeaveStreams
<1>2. StreamsOf(h, i) \ S = StreamsOf(h, i) \ StreamsIn(S) /\ StreamsIn(S) \subseteq StreamsOf(h, i)
  BY DEF StreamsOf, Leave, StreamsIn
<1> QED BY <1>1, <1>2, FiniteUsers, SubsetDifference

LEMMA InvType ==
    ASSUME IInv
    PROVE  /\ lib.refs \in [Instances -> Nat] /\ lib.id \in [Instances -> Ids]
           /\ lib.streams \in [Instances -> SUBSET Devices] /\ lost \in [Instances -> Nat]
           /\ hw \in [Users -> Instances \cup {NoHw}]
BY HwModuleAssumption DEF IInv, LibType

LEMMA CountOf ==
    ASSUME IInv, NEW i \in Instances
    PROVE  /\ lib.streams[i] = StreamsOf(hw, i)
           /\ lib.refs[i] = Cardinality(UsersOf(hw, i)) + Cardinality(StreamsOf(hw, i)) + lost[i]
           /\ lib.refs[i] \in Nat /\ lost[i] \in Nat
           /\ Cardinality(UsersOf(hw, i)) \in Nat /\ Cardinality(StreamsOf(hw, i)) \in Nat
BY InvType, FiniteUsers DEF IInv, Counted

(* A module without references has neither users nor streams.              *)
LEMMA UnusedIsEmpty ==
    ASSUME IInv, NEW i \in Instances, lib.refs[i] = 0
    PROVE  UsersOf(hw, i) = {} /\ lib.streams[i] = {} /\ lost[i] = 0
<1>1. Cardinality(UsersOf(hw, i)) = 0 /\ Cardinality(StreamsOf(hw, i)) = 0 /\ lost[i] = 0
  BY CountOf
<1> QED BY <1>1, CountOf, FiniteUsers, FS_EmptySet

(* What a user uses is referenced.                                         *)
LEMMA UsedIsReferenced ==
    ASSUME IInv, NEW u \in Users, hw[u] # NoHw
    PROVE  hw[u] \in Instances /\ lib.refs[hw[u]] > 0
<1>1. hw[u] \in Instances /\ lib.refs[hw[u]] \in Nat
  BY InvType
<1>2. u \in UsersOf(hw, hw[u])
  BY DEF UsersOf
<1> QED BY <1>1, <1>2, UnusedIsEmpty

(* Users of one id use the one object that is shared under it.             *)
LEMMA UserShares ==
    ASSUME IInv, NEW u \in Users, hw[u] # NoHw
    PROVE  lib.shared[Id[u]] = hw[u] /\ lib.device[hw[u]]
BY UsedIsReferenced DEF IInv, SharedIsOpen, UsesItsId

-----------------------------------------------------------------------------
(* The actions preserve IInv.                                              *)

LEMMA FreshIsFree ==
    ASSUME IInv, NEW d \in Ids, NEW f \in Fresh(d)
    PROVE  f[1] \in Instances /\ f[2] \in Options /\ MayGet(lib, d, f[1])
<1>1. CASE lib.shared[d] = NoHw
  <2>1. f \in Free \X Options
    BY <1>1 DEF Fresh
  <2> QED BY <1>1, <2>1 DEF Free, MayGet
<1>2. CASE lib.shared[d] # NoHw
  <2>1. f = <<lib.shared[d], lib.how[lib.shared[d]]>>
    BY <1>2 DEF Fresh
  <2>2. lib.shared[d] \in Instances /\ lib.how \in [Instances -> Options]
    BY <1>2 DEF IInv, LibType
  <2> QED BY <2>1, <2>2 DEF MayGet
<1> QED BY <1>1, <1>2

(* The counters follow what one object gains or loses.                     *)
LEMMA CountedStep ==
    ASSUME IInv, NEW g, NEW k, NEW lo, NEW i \in Instances, OthersKept(hw, k, i),
           \A j \in Instances \ {i} : /\ g.refs[j] = lib.refs[j]
                                      /\ g.streams[j] = lib.streams[j]
                                      /\ lo[j] = lost[j],
           g.streams[i] = StreamsOf(k, i),
           g.refs[i] = Cardinality(UsersOf(k, i)) + Cardinality(StreamsOf(k, i)) + lo[i]
    PROVE  Counted(g, k, lo)
BY DEF IInv, Counted, OthersKept

(* Where references stand still the ids of what users use do too.          *)
LEMMA IdsKept ==
    ASSUME IInv, NEW g, \A j \in Instances : lib.refs[j] > 0 => g.id[j] = lib.id[j]
    PROVE  UsesItsId(g, hw)
BY UsedIsReferenced DEF IInv, UsesItsId

LEMMA TakenId ==
    ASSUME IInv, NEW g, \A j \in Instances : lib.refs[j] > 0 => g.id[j] = lib.id[j],
           NEW u \in Users, NEW i \in Instances, g.id[i] = Id[u],
           NEW k, Takes(hw, k, u, i)
    PROVE  UsesItsId(g, k)
BY UsedIsReferenced, InvType DEF IInv, UsesItsId, Takes

LEMMA InitInv == Init => IInv
<1> SUFFICES ASSUME Init PROVE IInv
  OBVIOUS
<1>1. LibType(lib)
  BY HwModuleAssumption DEF Init, LibType
<1>2. SharedIsOpen(lib)
  BY HwModuleAssumption DEF Init, SharedIsOpen
<1>3. \A i \in Instances : UsersOf(hw, i) = {} /\ StreamsOf(hw, i) = {}
  BY HwModuleAssumption DEF Init, UsersOf, StreamsOf, Users, Devices
<1>4. Counted(lib, hw, lost)
  <2>1. ASSUME NEW i \in Instances
        PROVE  Cardinality(UsersOf(hw, i)) = 0 /\ Cardinality(StreamsOf(hw, i)) = 0
    BY <1>3, FS_EmptySet
  <2> QED BY <1>3, <2>1 DEF Init, Counted
<1>5. UsesItsId(lib, hw)
  BY DEF Init, UsesItsId
<1> QED BY <1>1, <1>2, <1>4, <1>5, HwModuleAssumption DEF Init, IInv

(* Who may ask for a module, and what it gets.                             *)
LEMMA Gets ==
    ASSUME IInv, NEW u \in Users, NEW i \in Instances, NEW o \in Options,
           MayGet(lib, Id[u], i), NEW g, g = Got(lib, Id[u], i, o)
    PROVE  /\ LibType(g) /\ SharedIsOpen(g)
           /\ RefsChange(lib, g, i, 1) /\ g.refs[i] > 0
           /\ g.streams = lib.streams /\ g.id[i] = Id[u]
           /\ \A j \in Instances : lib.refs[j] > 0 => g.id[j] = lib.id[j]
<1>1. LibType(lib) /\ SharedIsOpen(lib) /\ Id[u] \in Ids
  BY HwModuleAssumption DEF IInv
<1> QED BY <1>1, GotEffect

LEMMA LoadCardInv == ASSUME IInv, NEW c \in Cards, LoadCard(c) PROVE IInv'
<1>1. c \in Users /\ Id[c] \in Ids /\ hw[c] = NoHw /\ lost' = lost
  BY HwModuleAssumption DEF Users, LoadCard, MayLoad
<1>2. PICK i \in Instances, o \in Options :
        /\ MayGet(lib, Id[c], i) /\ lib' = Got(lib, Id[c], i, o) /\ hw' = [hw EXCEPT ![c] = i]
  <2>1. PICK f \in Fresh(Id[c]) : lib' = Got(lib, Id[c], f[1], f[2]) /\ hw' = [hw EXCEPT ![c] = f[1]]
    BY DEF LoadCard
  <2> QED BY <1>1, <2>1, FreshIsFree
<1>3. Takes(hw, hw', c, i) /\ hw' \in [Users -> Instances \cup {NoHw}]
  BY <1>1, <1>2, InvType DEF Takes
<1>4. /\ LibType(lib') /\ SharedIsOpen(lib')
      /\ RefsChange(lib, lib', i, 1)
      /\ lib'.streams = lib.streams /\ lib'.id[i] = Id[c]
      /\ \A j \in Instances : lib.refs[j] > 0 => lib'.id[j] = lib.id[j]
  BY <1>1, <1>2, Gets
<1>5. /\ OthersKept(hw, hw', i)
      /\ Cardinality(UsersOf(hw', i)) = Cardinality(UsersOf(hw, i)) + 1
      /\ StreamsOf(hw', i) = StreamsOf(hw, i)
  <2>1. OthersKept(hw, hw', i)
    BY <1>1, <1>3, TakeCounts
  <2>2. Cardinality(UsersOf(hw', i)) = Cardinality(UsersOf(hw, i)) + 1
    BY <1>1, <1>3, TakeCounts
  <2>3. StreamsOf(hw', i) = StreamsOf(hw, i)
    BY <1>1, <1>3, TakeCounts
  <2> QED BY <2>1, <2>2, <2>3
<1>6. Counted(lib', hw', lost')
  <2>1. /\ lib'.refs[i] = Cardinality(UsersOf(hw', i)) + Cardinality(StreamsOf(hw', i)) + lost'[i]
        /\ lib'.streams[i] = StreamsOf(hw', i)
    BY <1>1, <1>4, <1>5, CountOf DEF RefsChange
  <2> QED BY <1>1, <1>4, <1>5, <2>1, CountedStep DEF RefsChange
<1>7. UsesItsId(lib', hw')
  BY <1>1, <1>3, <1>4, TakenId
<1> QED BY <1>1, <1>3, <1>4, <1>6, <1>7 DEF IInv

(* pa__init() that fails gives back the reference it took.                 *)
LEMMA LoadFailsInv == ASSUME IInv, NEW u \in Users, LoadFails(u) PROVE IInv'
<1>1. Id[u] \in Ids /\ hw' = hw /\ lost' = lost
  BY HwModuleAssumption DEF LoadFails
<1>2. PICK i \in Instances, o \in Options :
        MayGet(lib, Id[u], i) /\ lib' = Unref(Got(lib, Id[u], i, o), i)
  <2>1. PICK f \in Fresh(Id[u]) : lib' = Unref(Got(lib, Id[u], f[1], f[2]), f[1])
    BY DEF LoadFails
  <2> QED BY <1>1, <2>1, FreshIsFree
<1>3. PICK m : m = Got(lib, Id[u], i, o)
  OBVIOUS
<1>4. /\ LibType(m) /\ SharedIsOpen(m)
      /\ RefsChange(lib, m, i, 1) /\ m.refs[i] > 0
      /\ m.streams = lib.streams
      /\ \A j \in Instances : lib.refs[j] > 0 => m.id[j] = lib.id[j]
  BY <1>1, <1>2, <1>3, Gets
<1>5. m.refs[i] = lib.refs[i] + 1 /\ (m.refs[i] = 1 => m.streams[i] = {})
  BY <1>4, CountOf, UnusedIsEmpty DEF RefsChange
<1>6. lib' = Unrefs(m, i, 1)
  BY <1>2, <1>3 DEF Unref
<1>7. /\ LibType(lib') /\ SharedIsOpen(lib')
      /\ RefsChange(m, lib', i, -1)
      /\ lib'.streams = m.streams /\ lib'.id = m.id
  <2>1. m.refs[i] >= 1
    BY <1>5, CountOf
  <2> QED BY <1>4, <1>5, <1>6, <2>1, UnrefsEffect
<1>8. Counted(lib', hw', lost')
  <2>1. lib'.refs[i] = lib.refs[i] /\ \A j \in Instances \ {i} : lib'.refs[j] = lib.refs[j]
    BY <1>4, <1>5, <1>7, CountOf DEF RefsChange
  <2> QED BY <1>1, <1>4, <1>7, <2>1 DEF IInv, Counted
<1>9. UsesItsId(lib', hw')
  BY <1>1, <1>4, <1>7, IdsKept
<1> QED BY <1>1, <1>7, <1>8, <1>9 DEF IInv

(* A sink or source takes two references, its own and its stream's.        *)
LEMMA NewInv == ASSUME IInv, NEW s \in Devices, New(s) PROVE IInv'
<1>1. s \in Users /\ Id[s] \in Ids /\ hw[s] = NoHw /\ lost' = lost
  BY HwModuleAssumption DEF Users, Devices, New, MayLoad
<1>2. PICK i \in Instances, o \in Options :
        /\ MayGet(lib, Id[s], i) /\ hw' = [hw EXCEPT ![s] = i]
        /\ lib' = StreamNew(Got(lib, Id[s], i, o), i, s)
  <2>1. PICK f \in Fresh(Id[s]) : /\ lib' = StreamNew(Got(lib, Id[s], f[1], f[2]), f[1], s)
                                  /\ hw' = [hw EXCEPT ![s] = f[1]]
    BY DEF New
  <2> QED BY <1>1, <2>1, FreshIsFree
<1>3. PICK m : m = Got(lib, Id[s], i, o)
  OBVIOUS
<1>4. /\ LibType(m) /\ SharedIsOpen(m)
      /\ RefsChange(lib, m, i, 1) /\ m.refs[i] > 0
      /\ m.streams = lib.streams /\ m.id[i] = Id[s]
      /\ \A j \in Instances : lib.refs[j] > 0 => m.id[j] = lib.id[j]
  BY <1>1, <1>2, <1>3, Gets
<1>5. PICK w : w = WithStreams(m, i, m.streams[i] \cup {s})
  OBVIOUS
<1>6. /\ LibType(w) /\ SharedIsOpen(w) /\ w.refs = m.refs /\ w.id = m.id
      /\ w.streams[i] = m.streams[i] \cup {s}
      /\ \A j \in Instances \ {i} : w.streams[j] = m.streams[j]
  <2>1. m.streams[i] \cup {s} \in SUBSET Devices
    BY <1>4, InvType
  <2> QED BY <1>4, <1>5, <2>1, StreamsEffect
<1>7. lib' = Referenced(w, i)
  BY <1>2, <1>3, <1>5 DEF StreamNew, WithStreams
<1>8. /\ LibType(lib') /\ SharedIsOpen(lib') /\ RefsChange(w, lib', i, 1)
      /\ lib'.streams = w.streams /\ lib'.id = w.id
  BY <1>4, <1>6, <1>7, ReferencedEffect
<1>9. Takes(hw, hw', s, i) /\ hw' \in [Users -> Instances \cup {NoHw}]
  BY <1>1, <1>2, InvType DEF Takes
<1>10. OthersKept(hw, hw', i)
  BY <1>1, <1>9, TakeCounts
<1>11. Cardinality(UsersOf(hw', i)) = Cardinality(UsersOf(hw, i)) + 1
  <2>1. s \in Users
    BY <1>1
  <2> QED BY <1>9, <2>1, TakeCounts
<1>12. /\ StreamsOf(hw', i) = StreamsOf(hw, i) \cup {s}
       /\ Cardinality(StreamsOf(hw', i)) = Cardinality(StreamsOf(hw, i)) + 1
  BY <1>1, <1>9, TakeCounts
<1>13. Counted(lib', hw', lost')
  <2>1. lib'.refs[i] = lib.refs[i] + 2 /\ \A j \in Instances \ {i} : lib'.refs[j] = lib.refs[j]
    BY <1>4, <1>6, <1>8, CountOf DEF RefsChange
  <2>2. lib'.refs[i] = Cardinality(UsersOf(hw', i)) + Cardinality(StreamsOf(hw', i)) + lost'[i]
    BY <1>1, <1>11, <1>12, <2>1, CountOf
  <2>3. lib'.streams[i] = StreamsOf(hw', i) /\ \A j \in Instances \ {i} : lib'.streams[j] = lib.streams[j]
    BY <1>4, <1>6, <1>8, <1>12, CountOf
  <2> QED BY <1>1, <1>10, <2>1, <2>2, <2>3, CountedStep
<1>14. UsesItsId(lib', hw')
  BY <1>1, <1>4, <1>6, <1>8, <1>9, TakenId
<1> QED BY <1>1, <1>8, <1>9, <1>13, <1>14 DEF IInv

(* The stream that could not be opened is freed, its reference is not.     *)
LEMMA OutputFailsInv == ASSUME IInv, NEW s \in Devices, OutputFails(s) PROVE IInv'
<1>1. s \in Users /\ Id[s] \in Ids /\ hw' = hw
  BY HwModuleAssumption DEF Users, Devices, OutputFails
<1>2. PICK i \in Instances, o \in Options :
        /\ MayGet(lib, Id[s], i) /\ lost[i] < MaxLost /\ lost' = [lost EXCEPT ![i] = @ + 1]
        /\ lib' = Unref(Referenced(Got(lib, Id[s], i, o), i), i)
  <2>1. PICK f \in Fresh(Id[s]) :
          /\ lost[f[1]] < MaxLost
          /\ lib' = Unref(Referenced(Got(lib, Id[s], f[1], f[2]), f[1]), f[1])
          /\ lost' = [lost EXCEPT ![f[1]] = @ + 1]
    BY DEF OutputFails
  <2> QED BY <1>1, <2>1, FreshIsFree
<1>3. PICK m : m = Got(lib, Id[s], i, o)
  OBVIOUS
<1>4. /\ LibType(m) /\ SharedIsOpen(m)
      /\ RefsChange(lib, m, i, 1) /\ m.refs[i] > 0
      /\ m.streams = lib.streams
      /\ \A j \in Instances : lib.refs[j] > 0 => m.id[j] = lib.id[j]
  BY <1>1, <1>2, <1>3, Gets
<1>5. PICK r : r = Referenced(m, i)
  OBVIOUS
<1>6. /\ LibType(r) /\ SharedIsOpen(r) /\ RefsChange(m, r, i, 1)
      /\ r.streams = m.streams /\ r.id = m.id
  BY <1>4, <1>5, ReferencedEffect
<1>7. lib' = Unrefs(r, i, 1)
  BY <1>2, <1>3, <1>5 DEF Unref
<1>8. r.refs[i] = lib.refs[i] + 2 /\ \A j \in Instances \ {i} : r.refs[j] = lib.refs[j]
  BY <1>4, <1>6, CountOf DEF RefsChange
<1>9. /\ LibType(lib') /\ SharedIsOpen(lib') /\ RefsChange(r, lib', i, -1)
      /\ lib'.streams = r.streams /\ lib'.id = r.id
  <2>1. r.refs[i] >= 1 /\ r.refs[i] > 0 /\ r.refs[i] # 1
    BY <1>8, CountOf
  <2> QED BY <1>6, <1>7, <2>1, UnrefsEffect
<1>10. lost' \in [Instances -> 0..MaxLost] /\ lost'[i] = lost[i] + 1
       /\ \A j \in Instances \ {i} : lost'[j] = lost[j]
  BY <1>2, InvType, HwModuleAssumption DEF IInv
<1>11. Counted(lib', hw', lost')
  <2>1. lib'.refs[i] = lib.refs[i] + 1 /\ \A j \in Instances \ {i} : lib'.refs[j] = lib.refs[j]
    BY <1>8, <1>9, CountOf DEF RefsChange
  <2>2. lib'.refs[i] = Cardinality(UsersOf(hw', i)) + Cardinality(StreamsOf(hw', i)) + lost'[i]
    BY <1>1, <1>10, <2>1, CountOf
  <2>3. lib'.streams = lib.streams /\ lib'.streams[i] = StreamsOf(hw', i)
    BY <1>1, <1>4, <1>6, <1>9, CountOf
  <2>4. OthersKept(hw, hw', i)
    BY <1>1 DEF OthersKept
  <2> QED BY <1>10, <2>1, <2>2, <2>3, <2>4, CountedStep
<1>12. UsesItsId(lib', hw')
  BY <1>1, <1>4, <1>6, <1>9, IdsKept
<1> QED BY <1>1, <1>9, <1>10, <1>11, <1>12 DEF IInv

(* What users S of object i hold of it: a reference each, and one more for *)
(* the stream of each sink or source.                                      *)
Held(S) == Cardinality(S) + Cardinality(StreamsIn(S))

LEMMA HeldCounts ==
    ASSUME IInv, NEW i \in Instances, NEW S \in SUBSET Users, Leave(hw, hw', S, i)
    PROVE  /\ Held(S) \in Nat
           /\ lib.refs[i] - Held(S) = Cardinality(UsersOf(hw', i)) + Cardinality(StreamsOf(hw', i)) + lost[i]
           /\ lib.refs[i] >= Held(S)
           /\ lib.refs[i] = Held(S) => lib.streams[i] \ S = {}
           /\ lib.streams[i] \ S = StreamsOf(hw', i)
<1>1. /\ Cardinality(UsersOf(hw', i)) = Cardinality(UsersOf(hw, i)) - Cardinality(S)
      /\ Cardinality(S) \in Nat
  BY LeaveUsers
<1>2. /\ Cardinality(StreamsOf(hw', i)) = Cardinality(StreamsOf(hw, i)) - Cardinality(StreamsIn(S))
      /\ Cardinality(StreamsIn(S)) \in Nat
  BY LeaveStreamCount
<1>3. Cardinality(UsersOf(hw', i)) \in Nat /\ Cardinality(StreamsOf(hw', i)) \in Nat
  BY FiniteUsers
<1>4. /\ Held(S) \in Nat
      /\ lib.refs[i] - Held(S) = Cardinality(UsersOf(hw', i)) + Cardinality(StreamsOf(hw', i)) + lost[i]
  BY <1>1, <1>2, <1>3, CountOf DEF Held
<1>5. lib.refs[i] >= Held(S)
  BY <1>3, <1>4, CountOf
<1>6. lib.refs[i] = Held(S) => Cardinality(StreamsOf(hw', i)) = 0
  BY <1>3, <1>4, CountOf
<1>7. lib.streams[i] \ S = StreamsOf(hw', i)
  <2>1. lib.streams[i] = StreamsOf(hw, i)
    BY CountOf
  <2>2. \A s : s \in StreamsOf(hw', i) <=> s \in StreamsOf(hw, i) /\ s \notin S
    BY LeaveStreams
  <2> QED BY <2>1, <2>2
<1>8. lib.refs[i] = Held(S) => lib.streams[i] \ S = {}
  BY <1>6, <1>7, FiniteUsers, FS_EmptySet
<1> QED BY <1>4, <1>5, <1>7, <1>8

LEMMA FreedCounted ==
    ASSUME IInv, NEW i \in Instances, NEW S \in SUBSET Users, Leave(hw, hw', S, i),
           NEW g, RefsChange(lib, g, i, -Held(S)), g.streams[i] = lib.streams[i] \ S,
           \A j \in Instances \ {i} : g.streams[j] = lib.streams[j]
    PROVE  Counted(g, hw', lost)
<1>1. OthersKept(hw, hw', i)
  BY LeaveOthers
<1>2. g.refs[i] = Cardinality(UsersOf(hw', i)) + Cardinality(StreamsOf(hw', i)) + lost[i]
  BY HeldCounts, CountOf DEF RefsChange
<1>3. g.streams[i] = StreamsOf(hw', i)
  BY HeldCounts
<1> QED BY <1>1, <1>2, <1>3, CountedStep DEF RefsChange

LEMMA FreeOneInv == ASSUME IInv, NEW s \in Devices, FreeOne(s) PROVE IInv'
<1> DEFINE i == hw[s]
<1>1. /\ s \in Users /\ hw[s] # NoHw /\ lost' = lost
      /\ lib' = Freed(lib, s) /\ hw' = [hw EXCEPT ![s] = NoHw]
  BY DEF Users, Devices, FreeOne
<1>2. i \in Instances
  BY <1>1, UsedIsReferenced
<1>3. Leave(hw, hw', {s}, i) /\ {s} \in SUBSET Users /\ hw' \in [Users -> Instances \cup {NoHw}]
  BY <1>1, InvType DEF Leave
<1>4. Held({s}) = 2
  <2>1. StreamsIn({s}) = {s}
    BY DEF StreamsIn
  <2>2. Cardinality({s}) = 1
    BY FS_Singleton
  <2>3. Cardinality(StreamsIn({s})) = 1
    BY <2>1, <2>2
  <2> QED BY <2>2, <2>3 DEF Held
<1> HIDE DEF i
<1>5. lib.refs[i] >= 2 /\ (lib.refs[i] = 2 => lib.streams[i] \ {s} = {}) /\ lib.refs[i] \in Nat
  BY <1>2, <1>3, <1>4, HeldCounts, CountOf
<1>6. PICK a : a = WithStreams(lib, i, lib.streams[i] \ {s})
  OBVIOUS
<1>7. /\ LibType(a) /\ SharedIsOpen(a) /\ a.refs = lib.refs /\ a.id = lib.id
      /\ a.streams[i] = lib.streams[i] \ {s}
      /\ \A j \in Instances \ {i} : a.streams[j] = lib.streams[j]
  <2>1. lib.streams[i] \ {s} \in SUBSET Devices /\ LibType(lib) /\ SharedIsOpen(lib)
    BY <1>2, InvType DEF IInv
  <2> QED BY <1>2, <1>6, <2>1, StreamsEffect
<1>8. PICK b : b = Unrefs(a, i, 1)
  OBVIOUS
<1>9. lib' = Unrefs(b, i, 1)
  BY <1>1, <1>6, <1>8 DEF Freed, StreamUnref, Unref, WithStreams, i
<1>10. /\ LibType(b) /\ SharedIsOpen(b) /\ RefsChange(a, b, i, -1)
       /\ b.streams = a.streams /\ b.id = a.id
  <2>1. a.refs[i] >= 1 /\ a.refs[i] > 0 /\ a.refs[i] # 1
    BY <1>5, <1>7
  <2> QED BY <1>2, <1>7, <1>8, <2>1, UnrefsEffect
<1>11. b.refs[i] = lib.refs[i] - 1 /\ \A j \in Instances \ {i} : b.refs[j] = lib.refs[j]
  BY <1>5, <1>7, <1>10 DEF RefsChange
<1>12. /\ LibType(lib') /\ SharedIsOpen(lib') /\ RefsChange(b, lib', i, -1)
       /\ lib'.streams = b.streams /\ lib'.id = b.id
  <2>1. b.refs[i] >= 1 /\ b.refs[i] > 0
    BY <1>5, <1>11
  <2>2. b.refs[i] = 1 => b.streams[i] = {}
    BY <1>5, <1>7, <1>10, <1>11
  <2> QED BY <1>2, <1>9, <1>10, <2>1, <2>2, UnrefsEffect
<1>13. Counted(lib', hw', lost)
  <2>1. RefsChange(lib, lib', i, -Held({s}))
    BY <1>4, <1>5, <1>11, <1>12 DEF RefsChange
  <2>2. /\ lib'.streams[i] = lib.streams[i] \ {s}
        /\ \A j \in Instances \ {i} : lib'.streams[j] = lib.streams[j]
    BY <1>7, <1>10, <1>12
  <2> QED BY <1>2, <1>3, <2>1, <2>2, FreedCounted
<1>14. UsesItsId(lib', hw')
  BY <1>1, <1>7, <1>10, <1>12, InvType DEF IInv, UsesItsId
<1> QED BY <1>1, <1>3, <1>12, <1>13, <1>14 DEF IInv

(* The sinks and sources of a card use the object the card uses.           *)
LEMMA CardShares ==
    ASSUME IInv, NEW c \in Cards, hw[c] # NoHw, NEW s \in OfCard(c)
    PROVE  s \in Devices /\ hw[s] = hw[c]
<1>1. s \in Devices /\ s \in Users /\ c \in Users /\ hw[s] # NoHw /\ Id[s] = Id[c]
  BY HwModuleAssumption DEF OfCard, Devices, Users
<1> QED BY <1>1, UserShares

LEMMA UnloadCardInv == ASSUME IInv, NEW c \in Cards, UnloadCard(c) PROVE IInv'
<1> DEFINE i == hw[c]
           S == OfCard(c)
           T == S \cup {c}
<1>1. /\ c \in Users /\ hw[c] # NoHw /\ lost' = lost /\ c \notin Devices
      /\ lib' = Unloaded(c) /\ hw' = [u \in Users |-> IF u \in T THEN NoHw ELSE hw[u]]
  BY HwModuleAssumption DEF Users, Devices, UnloadCard
<1>2. i \in Instances
  BY <1>1, UsedIsReferenced
<1>3. S \subseteq Devices /\ \A s \in S : hw[s] = i
  BY <1>1, CardShares
<1>4. Leave(hw, hw', T, i) /\ T \in SUBSET Users /\ hw' \in [Users -> Instances \cup {NoHw}]
  <2>1. T \in SUBSET Users
    BY <1>1, <1>3 DEF Users, Devices
  <2> QED BY <1>1, <1>3, <2>1, InvType DEF Leave
<1>5. Held(T) = 2 * Cardinality(S) + 1 /\ Cardinality(S) \in Nat
  <2>1. IsFiniteSet(S)
    <3>1. S \in SUBSET Users
      BY <1>3 DEF Users, Devices
    <3> QED BY <3>1, FS_Subset, HwModuleAssumption
  <2>2. StreamsIn(T) = S /\ c \notin S
    BY <1>1, <1>3 DEF StreamsIn
  <2>3. Cardinality(T) = Cardinality(S) + 1
    BY <2>1, <2>2, FS_AddElement
  <2>4. Cardinality(StreamsIn(T)) = Cardinality(S)
    BY <2>2, Zenon
  <2> QED BY <2>1, <2>3, <2>4, FS_CardinalityType DEF Held
<1> HIDE DEF i, T
<1> DEFINE n == 2 * Cardinality(S)
<1>6. /\ n \in Nat /\ lib.refs[i] \in Nat /\ lib.refs[i] >= n + 1
      /\ lib.refs[i] = n + 1 => lib.streams[i] \ T = {}
  BY <1>2, <1>4, <1>5, HeldCounts, CountOf
<1>7. lib.streams[i] \ T = lib.streams[i] \ S
  BY <1>1, <1>2, InvType DEF T
<1>8. PICK a : a = WithStreams(lib, i, lib.streams[i] \ S)
  OBVIOUS
<1>9. PICK b : b = Unrefs(a, i, n)
  OBVIOUS
<1>10. lib' = Unrefs(b, i, 1)
  BY <1>1, <1>8, <1>9 DEF Unloaded, AllFreed, Unref, WithStreams, i
<1> HIDE DEF n, S
<1>11. /\ LibType(a) /\ SharedIsOpen(a) /\ a.refs = lib.refs /\ a.id = lib.id
       /\ a.streams[i] = lib.streams[i] \ S
       /\ \A j \in Instances \ {i} : a.streams[j] = lib.streams[j]
  <2>1. lib.streams[i] \ S \in SUBSET Devices /\ LibType(lib) /\ SharedIsOpen(lib)
    BY <1>2, InvType DEF IInv
  <2> QED BY <1>2, <1>8, <2>1, StreamsEffect
<1>12. /\ LibType(b) /\ SharedIsOpen(b) /\ RefsChange(a, b, i, -n)
       /\ b.streams = a.streams /\ b.id = a.id
  <2>1. a.refs[i] >= n /\ a.refs[i] > 0 /\ a.refs[i] # n
    BY <1>6, <1>11
  <2> QED BY <1>2, <1>6, <1>9, <1>11, <2>1, UnrefsEffect
<1>13. b.refs[i] = lib.refs[i] - n /\ \A j \in Instances \ {i} : b.refs[j] = lib.refs[j]
  BY <1>6, <1>11, <1>12 DEF RefsChange
<1>14. /\ LibType(lib') /\ SharedIsOpen(lib') /\ RefsChange(b, lib', i, -1)
       /\ lib'.streams = b.streams /\ lib'.id = b.id
  <2>1. b.refs[i] >= 1 /\ b.refs[i] > 0
    BY <1>6, <1>13
  <2>2. b.refs[i] = 1 => b.streams[i] = {}
    <3>1. b.refs[i] = 1 => lib.refs[i] = n + 1
      BY <1>6, <1>13
    <3> QED BY <1>6, <1>7, <1>11, <1>12, <3>1
  <2> QED BY <1>2, <1>10, <1>12, <2>1, <2>2, UnrefsEffect
<1>15. Counted(lib', hw', lost)
  <2>1. Held(T) = n + 1
    BY <1>5 DEF n, S
  <2>2. RefsChange(lib, lib', i, -Held(T))
    BY <1>6, <1>13, <1>14, <2>1 DEF RefsChange
  <2>3. /\ lib'.streams[i] = lib.streams[i] \ T
        /\ \A j \in Instances \ {i} : lib'.streams[j] = lib.streams[j]
    BY <1>7, <1>11, <1>12, <1>14
  <2> QED BY <1>2, <1>4, <2>2, <2>3, FreedCounted
<1>16. UsesItsId(lib', hw')
  BY <1>1, <1>11, <1>12, <1>14, InvType DEF IInv, UsesItsId
<1> QED BY <1>1, <1>4, <1>14, <1>15, <1>16 DEF IInv

LEMMA NextInv == IInv /\ [Next]_vars => IInv'
<1> SUFFICES ASSUME IInv, [Next]_vars PROVE IInv'
  OBVIOUS
<1>1. ASSUME NEW c \in Cards, LoadCard(c) PROVE IInv'
  BY <1>1, LoadCardInv
<1>2. ASSUME NEW c \in Cards, UnloadCard(c) PROVE IInv'
  BY <1>2, UnloadCardInv
<1>3. ASSUME NEW u \in Cards \cup Sinks, LoadFails(u) PROVE IInv'
  BY <1>3, LoadFailsInv DEF Users
<1>4. ASSUME NEW s \in Sinks \cup Sources, New(s) PROVE IInv'
  BY <1>4, NewInv DEF Devices
<1>5. ASSUME NEW s \in Sinks \cup Sources, OutputFails(s) PROVE IInv'
  BY <1>5, OutputFailsInv DEF Devices
<1>6. ASSUME NEW s \in Sinks \cup Sources, FreeOne(s) PROVE IInv'
  BY <1>6, FreeOneInv DEF Devices
<1>7. CASE UNCHANGED vars
  BY <1>7 DEF vars, IInv, Counted, UsersOf, StreamsOf
<1> QED BY <1>1, <1>2, <1>3, <1>4, <1>5, <1>6, <1>7 DEF Next

-----------------------------------------------------------------------------
(* Giving back fewer references than are held closes nothing.              *)
Reduced(l, i, n, T) == [l EXCEPT !.refs[i] = @ - n, !.streams[i] = @ \ T]

LEMMA ReducedType ==
    ASSUME NEW l, LibType(l), NEW i \in Instances, NEW n \in Nat, l.refs[i] > n, NEW T
    PROVE  /\ LibType(Reduced(l, i, n, T))
           /\ Reduced(l, i, n, T).refs[i] = l.refs[i] - n
<1>1. l.refs[i] - n \in Nat /\ l.streams[i] \ T \in SUBSET Devices
  BY DEF LibType
<1> QED BY <1>1 DEF Reduced, LibType

LEMMA UnrefsReduce ==
    ASSUME NEW l, LibType(l), NEW i \in Instances, NEW n \in Nat, l.refs[i] > n, NEW T
    PROVE  Unrefs([l EXCEPT !.streams[i] = @ \ T], i, n) = Reduced(l, i, n, T)
<1> DEFINE a == [l EXCEPT !.streams[i] = @ \ T]
           less == [a EXCEPT !.refs[i] = @ - n]
<1>1. a.refs[i] = l.refs[i] /\ less.refs[i] = l.refs[i] - n /\ l.refs[i] \in Nat
  BY DEF LibType
<1>2. less = Reduced(l, i, n, T)
  BY DEF LibType, Reduced
<1>3. ~(a.refs[i] < n) /\ less.refs[i] > 0
  BY <1>1
<1> HIDE DEF a
<1>4. Unrefs(a, i, n) = less
  BY <1>3 DEF Unrefs
<1> QED BY <1>2, <1>4 DEF a

LEMMA ReducedTwice ==
    ASSUME NEW l, LibType(l), NEW i \in Instances, NEW n \in Nat, NEW m \in Nat, l.refs[i] > n + m,
           NEW S, NEW T
    PROVE  Reduced(Reduced(l, i, n, S), i, m, T) = Reduced(l, i, n + m, S \cup T)
<1>1. (l.refs[i] - n) - m = l.refs[i] - (n + m) /\ (l.streams[i] \ S) \ T = l.streams[i] \ (S \cup T)
  BY DEF LibType
<1> QED BY <1>1 DEF Reduced, LibType

(* What pa__done() does to the hw module is what freeing its sinks and     *)
(* sources one after the other does, in any order, and then its own unref: *)
(* one more of them is two more calls of pa_droid_hw_module_unref().       *)
LEMMA FreedOneByOne ==
    ASSUME NEW l, LibType(l), NEW s \in Devices, hw[s] \in Instances,
           NEW S, IsFiniteSet(S), s \notin S,
           l.refs[hw[s]] > 2 * (Cardinality(S) + 1)
    PROVE  AllFreed(l, hw[s], S \cup {s}) = Freed(AllFreed(l, hw[s], S), s)
<1> DEFINE i == hw[s]
           n == 2 * Cardinality(S)
<1>1. Cardinality(S) \in Nat /\ Cardinality(S \cup {s}) = Cardinality(S) + 1
  BY FS_CardinalityType, FS_AddElement
<1>2. l.refs[i] \in Nat /\ l.refs[i] > n + 2 /\ n \in Nat /\ 2 * Cardinality(S \cup {s}) = n + 2
  BY <1>1 DEF LibType
<1> HIDE DEF n
<1>3. AllFreed(l, i, S \cup {s}) = Reduced(l, i, n + 2, S \cup {s})
  <2>1. n + 2 \in Nat
    BY <1>2
  <2> QED BY <1>2, <2>1, UnrefsReduce DEF AllFreed
<1>4. PICK a : a = Reduced(l, i, n, S)
  OBVIOUS
<1>5. AllFreed(l, i, S) = a
  <2>1. l.refs[i] > n
    BY <1>2
  <2> QED BY <1>2, <1>4, <2>1, UnrefsReduce DEF AllFreed, n
<1>6. LibType(a) /\ a.refs[i] = l.refs[i] - n
  BY <1>2, <1>4, ReducedType
<1>7. PICK b : b = Reduced(a, i, 1, {s})
  OBVIOUS
<1>8. StreamUnref(a, i, s) = b /\ LibType(b) /\ b.refs[i] = a.refs[i] - 1
  <2>1. a.refs[i] > 1
    BY <1>2, <1>6
  <2> QED BY <1>6, <1>7, <2>1, UnrefsReduce, ReducedType DEF StreamUnref, Unref
<1>9. Unref(b, i) = Reduced(b, i, 1, {})
  <2>1. b.refs[i] > 1
    BY <1>2, <1>6, <1>8
  <2>2. [b EXCEPT !.streams[i] = @ \ {}] = b
    BY <1>8 DEF LibType
  <2>3. Unrefs([b EXCEPT !.streams[i] = @ \ {}], i, 1) = Reduced(b, i, 1, {})
    BY <1>8, <2>1, UnrefsReduce
  <2> QED BY <2>2, <2>3, Zenon DEF Unref
<1>10. Freed(a, s) = Reduced(Reduced(a, i, 1, {s}), i, 1, {})
  BY <1>7, <1>8, <1>9 DEF Freed
<1>11. Reduced(Reduced(a, i, 1, {s}), i, 1, {}) = Reduced(a, i, 2, {s})
  <2>1. a.refs[i] > 1 + 1
    BY <1>2, <1>6
  <2>2. Reduced(Reduced(a, i, 1, {s}), i, 1, {}) = Reduced(a, i, 1 + 1, {s} \cup {})
    BY <1>6, <2>1, ReducedTwice
  <2>3. 1 + 1 = 2 /\ {s} \cup {} = {s}
    OBVIOUS
  <2> QED BY <2>2, <2>3
<1>12. Reduced(a, i, 2, {s}) = Reduced(l, i, n + 2, S \cup {s})
  BY <1>2, <1>4, ReducedTwice
<1> QED BY <1>3, <1>5, <1>10, <1>11, <1>12

-----------------------------------------------------------------------------
(* The counters of every reachable state are those of its users.           *)
THEOREM CountingInvariant == Spec => []IInv
BY InitInv, NextInv, PTL DEF Spec

(* Type correctness: an object never has more than two references for each *)
(* user, and the lost ones.                                                *)
THEOREM TypeCorrect == Spec => []TypeOK
<1>1. IInv => TypeOK
  <2> SUFFICES ASSUME IInv PROVE TypeOK
    OBVIOUS
  <2>1. Cardinality(Users) \in Nat /\ MaxLost \in Nat
    BY HwModuleAssumption, FS_CardinalityType
  <2>2. ASSUME NEW i \in Instances
        PROVE  lib.refs[i] \in 0..(2 * Cardinality(Users) + MaxLost)
    <3>1. /\ Cardinality(UsersOf(hw, i)) <= Cardinality(Users)
          /\ Cardinality(StreamsOf(hw, i)) <= Cardinality(Users)
      BY FiniteUsers
    <3>2. lost[i] <= MaxLost
      BY <2>1 DEF IInv
    <3> QED BY <2>1, <3>1, <3>2, CountOf
  <2>3. lib.refs \in [Instances -> 0..(2 * Cardinality(Users) + MaxLost)]
    BY <2>2, InvType
  <2> QED BY <2>3 DEF IInv, LibType, TypeOK, Devices
<1> QED BY <1>1, CountingInvariant, PTL

(* No card, sink or source ever uses a hw module that is closed, or        *)
(* another than the one shared under its id.                               *)
THEOREM UsersShareCorrect == Spec => []UsersShareModule
<1>1. IInv => UsersShareModule
  BY UserShares, UsedIsReferenced DEF UsersShareModule
<1> QED BY <1>1, CountingInvariant, PTL

(* A module is opened again only when its device is closed, or was left    *)
(* open by the option that says so.                                        *)
THEOREM OneDeviceCorrect == Spec => []OneDevicePerModule
<1>1. IInv => OneDevicePerModule
  <2> SUFFICES ASSUME IInv, NEW i \in Instances, lib.device[i]
               PROVE  lib.shared[lib.id[i]] = i \/ lib.how[i] = "no_close"
    BY DEF OneDevicePerModule
  <2>1. lib.refs[i] \in Nat
    BY CountOf
  <2>2. CASE lib.refs[i] > 0
    BY <2>2 DEF IInv, SharedIsOpen
  <2>3. CASE lib.refs[i] = 0
    BY <2>3 DEF IInv, SharedIsOpen
  <2> QED BY <2>1, <2>2, <2>3
<1> QED BY <1>1, CountingInvariant, PTL

(* droid.handle.v1 is the primary module while that is open.               *)
THEOREM ApiCorrect == Spec => []ApiIsPrimary
<1>1. IInv => ApiIsPrimary
  <2> SUFFICES ASSUME IInv, lib.api # NoHw
               PROVE  lib.device[lib.api] /\ lib.shared[PrimaryId] = lib.api
    BY DEF ApiIsPrimary
  <2>1. lib.api \in Instances /\ PrimaryId \in Ids /\ lib.shared[PrimaryId] = lib.api
    BY HwModuleAssumption DEF IInv, LibType, SharedIsOpen
  <2>2. lib.refs[lib.api] > 0
    BY <2>1 DEF IInv, SharedIsOpen
  <2> QED BY <2>1, <2>2 DEF IInv, SharedIsOpen
<1> QED BY <1>1, CountingInvariant, PTL

(* No reference is given back twice, and no stream is left at close.       *)
THEOREM AssertionsHold == Spec => []NeverAborts
<1>1. IInv => NeverAborts
  BY DEF IInv, SharedIsOpen, NeverAborts
<1> QED BY <1>1, CountingInvariant, PTL

(* With its last user gone a device is closed, unless it is not to be or   *)
(* the reference of a stream that failed to open was lost.                 *)
THEOREM LastUserCorrect == Spec => []LastUserCloses
<1>1. IInv => LastUserCloses
  <2> SUFFICES ASSUME IInv, \A u \in Users : hw[u] = NoHw, NEW i \in Instances, lib.device[i]
               PROVE  lib.how[i] = "no_close" \/ lost[i] > 0
    BY DEF LastUserCloses
  <2>1. UsersOf(hw, i) = {} /\ StreamsOf(hw, i) = {}
    BY HwModuleAssumption DEF UsersOf, StreamsOf, Users, Devices
  <2>2. Cardinality(UsersOf(hw, i)) = 0 /\ Cardinality(StreamsOf(hw, i)) = 0
    BY <2>1, FS_EmptySet
  <2>3. lib.refs[i] = lost[i] /\ lost[i] \in Nat
    BY <2>2, CountOf
  <2>4. CASE lost[i] = 0
    BY <2>3, <2>4 DEF IInv, SharedIsOpen
  <2> QED BY <2>3, <2>4
<1> QED BY <1>1, CountingInvariant, PTL

=============================================================================
