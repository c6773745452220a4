----------------------- MODULE PolicyProfiles_proofs -----------------------
(***************************************************************************)
(* Theorems of PolicyParser and PolicyProfiles, for files of any length,   *)
(* with any elements in any place, any number of included files, and       *)
(* modules with any number of ports and routes.                            *)
(***************************************************************************)
EXTENDS PolicyProfiles, SequenceTheorems, WellFoundedInduction, TLAPS

(* How deep the table has an element.                                      *)
Level ==
    [n \in Nodes |->
        CASE n = "root" -> 0
          [] n = "audioPolicyConfiguration" -> 1
          [] n \in {"globalConfiguration", "modules"} -> 2
          [] n \in {"module", "modules_include"} -> 3
          [] n \in {"module_include", "attachedDevices", "defaultOutputDevice", "mixPorts",
                    "devicePorts", "routes"} -> 4
          [] n \in {"item", "mixPort", "devicePort", "route"} -> 5
          [] OTHER -> 6]

Live == status \in {"reading", "between", "done"}
InPath(n) == \E i \in 1..Len(path) : path[i] = n

(* The path goes down the table one level at a time, from the root.        *)
PathInv ==
    /\ \A i \in 1..Len(path) : Level[path[i]] = Level[Root(include)] + i - 1
    /\ path # <<>> => path[1] = Root(include)
    /\ include = 0 => path # <<>>

(* Below the root the path is made of elements that are still open, in     *)
(* their order.                                                            *)
Follows(f, p, o) ==
    /\ f \in [2..Len(p) -> 1..Len(o)]
    /\ \A i \in 2..Len(p) : Tag(p[i]) = o[f[i]].tag
    /\ \A i, j \in 2..Len(p) : i < j => f[i] < f[j]
Embedded(p, o) == \E f : Follows(f, p, o)

(* The table has no place for this tag in node n.                          *)
NoPlace(n, tag) == \A m \in Child[n] : Tag(m) # tag

(* How deep the parser was in each open element, as long as none went      *)
(* astray: one deeper than outside of it, or nothing was made of it, as    *)
(* the table has no place for it, and it has another name.                 *)
Deeper(p, d, o, i) ==
    /\ d[i] = d[i - 1] + 1 /\ Tag(p[d[i]]) = o[i].tag
    /\ p[d[i]] \in Child[p[d[i - 1]]]
Ignored(p, d, o, i) ==
    /\ d[i] = d[i - 1] /\ Tag(p[d[i]]) # o[i].tag /\ o[i].made = 0
    /\ NoPlace(p[d[i]], o[i].tag)
Depths(d, p, o) ==
    /\ d \in [0..Len(o) -> 1..Len(p)]
    /\ d[0] = 1 /\ d[Len(o)] = Len(p)
    /\ \A i \in 1..Len(o) : Deeper(p, d, o, i) \/ Ignored(p, d, o, i)
    /\ \A i, j \in 0..Len(o) : i <= j => d[i] <= d[j]
Straight(p, o) == \E d : Depths(d, p, o)

(* What is current, and for how long.                                      *)
AtInv ==
    /\ InPath("module") <=> at.module # 0
    /\ InPath("mixPort") <=> at.mix # 0
    /\ at.device # 0 => InPath("devicePort")
    /\ \A i \in 1..Len(path) : Level[path[i]] >= 4 => at.module # 0
    /\ at.module \in 0..Len(modules)
    /\ at.mix # 0 => at.mix \in 1..Len(modules[at.module].mixPorts)
    /\ at.device # 0 => at.device \in 1..Len(modules[at.module].devicePorts)

ReadInv ==
    /\ PathInv /\ Embedded(path, open) /\ AtInv
    /\ ~astray => Straight(path, open)

IInv ==
    /\ TypeOK
    /\ Live => ReadInv
    /\ status \in {"between", "done"} => open = <<>>
    /\ FirstFileIsSafe /\ CrashIsAstray

-----------------------------------------------------------------------------
(* The table.                                                              *)

LEMMA Levels ==
    /\ \A n \in Nodes : Level[n] \in 0..6
    /\ \A i \in Nat : i = 0 => Level[Root(i)] = 0
    /\ \A i \in Nat : i # 0 => Level[Root(i)] = 2
    /\ \A i : Root(i) \in Nodes
BY DEF Nodes, Level, Root

LEMMA ChildTable ==
    /\ Child["root"] = {"audioPolicyConfiguration"}
    /\ Child["audioPolicyConfiguration"] = {"globalConfiguration", "modules"}
    /\ Child["modules"] = {"module", "modules_include"}
    /\ Child["module"] = {"module_include", "attachedDevices", "defaultOutputDevice",
                          "mixPorts", "devicePorts", "routes"}
    /\ Child["attachedDevices"] = {"item"}
    /\ Child["mixPorts"] = {"mixPort"}
    /\ Child["devicePorts"] = {"devicePort"}
    /\ \A n \in {"mixPort", "devicePort"} : Child[n] = {"profile"}
    /\ Child["routes"] = {"route"}
    /\ \A n \in {"globalConfiguration", "modules_include", "module_include", "item",
                 "defaultOutputDevice", "profile", "route"} : Child[n] = {}
<1>1. Child["root"] = {"audioPolicyConfiguration"}
    BY DEF Child, Nodes
<1>2. Child["audioPolicyConfiguration"] = {"globalConfiguration", "modules"}
    BY DEF Child, Nodes
<1>3. Child["modules"] = {"module", "modules_include"}
    BY DEF Child, Nodes
<1>4. Child["module"] = {"module_include", "attachedDevices", "defaultOutputDevice",
                         "mixPorts", "devicePorts", "routes"}
    BY DEF Child, Nodes
<1>5. Child["attachedDevices"] = {"item"} /\ Child["mixPorts"] = {"mixPort"}
    BY DEF Child, Nodes
<1>6. Child["devicePorts"] = {"devicePort"} /\ Child["routes"] = {"route"}
    BY DEF Child, Nodes
<1>7. \A n \in {"mixPort", "devicePort"} : Child[n] = {"profile"}
    BY DEF Child, Nodes
<1>8. \A n \in {"globalConfiguration", "modules_include", "module_include", "item",
                "defaultOutputDevice", "profile", "route"} : Child[n] = {}
    BY DEF Child, Nodes
<1> QED BY <1>1, <1>2, <1>3, <1>4, <1>5, <1>6, <1>7, <1>8

LEMMA LevelTable ==
    /\ Level["root"] = 0
    /\ Level["audioPolicyConfiguration"] = 1
    /\ Level["globalConfiguration"] = 2 /\ Level["modules"] = 2
    /\ Level["module"] = 3 /\ Level["modules_include"] = 3
    /\ Level["module_include"] = 4 /\ Level["attachedDevices"] = 4 /\ Level["defaultOutputDevice"] = 4
    /\ Level["mixPorts"] = 4 /\ Level["devicePorts"] = 4 /\ Level["routes"] = 4
    /\ Level["item"] = 5 /\ Level["mixPort"] = 5 /\ Level["devicePort"] = 5
    /\ Level["route"] = 5
    /\ Level["profile"] = 6
BY DEF Level, Nodes

LEMMA ChildLevel ==
    ASSUME NEW p \in Nodes, NEW n \in Child[p]
    PROVE  n \in Nodes /\ Level[n] = Level[p] + 1
<1>1. CASE p = "root"
    BY <1>1, ChildTable, LevelTable DEF Nodes
<1>2. CASE p = "audioPolicyConfiguration"
    BY <1>2, ChildTable, LevelTable DEF Nodes
<1>3. CASE p = "modules"
    BY <1>3, ChildTable, LevelTable DEF Nodes
<1>4. CASE p = "module"
    BY <1>4, ChildTable, LevelTable DEF Nodes
<1>5. CASE p = "attachedDevices"
    BY <1>5, ChildTable, LevelTable DEF Nodes
<1>6. CASE p = "mixPorts"
    BY <1>6, ChildTable, LevelTable DEF Nodes
<1>7. CASE p = "devicePorts"
    BY <1>7, ChildTable, LevelTable DEF Nodes
<1>8. CASE p = "mixPort"
    BY <1>8, ChildTable, LevelTable DEF Nodes
<1>9. CASE p = "devicePort"
    BY <1>9, ChildTable, LevelTable DEF Nodes
<1>10. CASE p = "routes"
    BY <1>10, ChildTable, LevelTable DEF Nodes
<1>11. CASE p \in {"globalConfiguration", "modules_include", "module_include", "item",
                 "defaultOutputDevice", "profile", "route"}
    BY <1>11, ChildTable
<1> QED BY <1>1, <1>2, <1>3, <1>4, <1>5, <1>6, <1>7, <1>8, <1>9, <1>10, <1>11 DEF Nodes

(* What is read in what.                                                   *)
LEMMA ParentOf ==
    ASSUME NEW p \in Nodes, NEW n \in Child[p]
    PROVE  /\ n = "module" => p = "modules"
           /\ n = "mixPort" => p = "mixPorts"
           /\ n = "devicePort" => p = "devicePorts"
           /\ n = "profile" => p \in {"mixPort", "devicePort"}
<1>1. CASE p = "root"
    BY <1>1, ChildTable
<1>2. CASE p = "audioPolicyConfiguration"
    BY <1>2, ChildTable
<1>3. CASE p = "modules"
    BY <1>3, ChildTable
<1>4. CASE p = "module"
    BY <1>4, ChildTable
<1>5. CASE p = "attachedDevices"
    BY <1>5, ChildTable
<1>6. CASE p = "mixPorts"
    BY <1>6, ChildTable
<1>7. CASE p = "devicePorts"
    BY <1>7, ChildTable
<1>8. CASE p = "mixPort"
    BY <1>8, ChildTable
<1>9. CASE p = "devicePort"
    BY <1>9, ChildTable
<1>10. CASE p = "routes"
    BY <1>10, ChildTable
<1>11. CASE p \in {"globalConfiguration", "modules_include", "module_include", "item",
                 "defaultOutputDevice", "profile", "route"}
    BY <1>11, ChildTable
<1> QED BY <1>1, <1>2, <1>3, <1>4, <1>5, <1>6, <1>7, <1>8, <1>9, <1>10, <1>11 DEF Nodes

LEMMA BelowModule ==
    ASSUME NEW p \in Nodes, NEW n \in Child[p], Level[n] >= 4
    PROVE  p = "module" \/ Level[p] >= 4
<1>1. Level[n] = Level[p] + 1 /\ Level[p] \in 0..6
    BY ChildLevel, Levels
<1>2. CASE Level[p] = 3
  <2>1. p \in {"module", "modules_include"}
    BY <1>2, LevelTable DEF Nodes
  <2>2. p # "modules_include"
    BY ChildTable
  <2> QED BY <2>1, <2>2
<1> QED BY <1>1, <1>2

LEMMA Tagged ==
    /\ \A n \in Nodes : Tag(n) = "module" <=> n = "module"
    /\ \A n \in Nodes : Tag(n) = "mixPort" <=> n = "mixPort"
    /\ \A n \in Nodes : Tag(n) = "devicePort" <=> n = "devicePort"
    /\ \A n \in Nodes : n # "root" => Tag(n) \in Tags
    /\ Tag("root") \notin Tags
BY DEF Nodes, Tag, Tags

LEMMA FrontIs ==
    ASSUME NEW S, NEW s \in Seq(S), s # <<>>
    PROVE  /\ Front(s) \in Seq(S) /\ Len(Front(s)) = Len(s) - 1 /\ Last(s) \in S
           /\ Len(s) \in Nat \ {0} /\ Last(s) = s[Len(s)]
           /\ \A i \in 1..(Len(s) - 1) : Front(s)[i] = s[i]
<1> DEFINE n == Len(s) - 1
<1>1. Len(s) \in Nat \ {0} /\ n \in Nat /\ n <= Len(s)
    BY EmptySeq, LenProperties
<1>2. \A i \in 1..Len(s) : s[i] \in S
    BY ElementOfSeq
<1>3. Front(s) = SubSeq(s, 1, n)
    BY DEF Front
<1>4. s[Len(s)] \in S
    BY <1>1, <1>2
<1>5. \A i \in 1..n : s[i] \in S
    BY <1>1, <1>2
<1> HIDE DEF n
<1>6. /\ Front(s) \in Seq(S)
      /\ Len(Front(s)) = IF 1 <= n THEN n - 1 + 1 ELSE 0
      /\ \A i \in 1..(n - 1 + 1) : Front(s)[i] = s[1 + i - 1]
    BY <1>1, <1>3, <1>5, SubSeqProperties
<1>7. Len(Front(s)) = n /\ \A i \in 1..n : Front(s)[i] = s[i]
    BY <1>1, <1>6
<1> QED BY <1>1, <1>4, <1>6, <1>7 DEF Last, n

LEMMA AppendIs ==
    ASSUME NEW S, NEW s \in Seq(S), NEW e \in S
    PROVE  /\ Append(s, e) \in Seq(S) /\ Len(Append(s, e)) = Len(s) + 1 /\ Len(s) \in Nat
           /\ \A i \in 1..Len(s) : Append(s, e)[i] = s[i]
           /\ Append(s, e)[Len(s) + 1] = e /\ Append(s, e) # <<>>
<1>1. /\ Append(s, e) \in Seq(S) /\ Len(Append(s, e)) = Len(s) + 1 /\ Len(s) \in Nat
      /\ \A i \in 1..Len(s) : Append(s, e)[i] = s[i]
      /\ Append(s, e)[Len(s) + 1] = e
    BY AppendProperties, LenProperties
<1> QED BY <1>1, EmptySeq

-----------------------------------------------------------------------------
(* The elements of the path among the open ones, as elements open and end. *)

OpenElements == [tag : Tags, made : Nat]

LEMMA FollowsIgnored ==
    ASSUME NEW p \in Seq(Nodes), NEW o \in Seq(OpenElements), NEW e \in OpenElements, Embedded(p, o)
    PROVE  Embedded(p, Append(o, e))
<1>1. PICK f : Follows(f, p, o)
    BY DEF Embedded
<1>2. Follows(f, p, Append(o, e))
    BY <1>1, AppendIs DEF Follows
<1> QED BY <1>2 DEF Embedded

LEMMA FollowsEntered ==
    ASSUME NEW p \in Seq(Nodes), p # <<>>, NEW o \in Seq(OpenElements),
           NEW n \in Nodes, NEW e \in OpenElements, e.tag = Tag(n), Embedded(p, o)
    PROVE  Embedded(Append(p, n), Append(o, e))
<1>1. PICK f : Follows(f, p, o)
    BY DEF Embedded
<1> DEFINE q == Append(p, n)
           r == Append(o, e)
           g == [i \in 2..(Len(p) + 1) |-> IF i = Len(p) + 1 THEN Len(o) + 1 ELSE f[i]]
<1>2. /\ Len(p) \in Nat \ {0} /\ Len(o) \in Nat
      /\ Len(q) = Len(p) + 1 /\ Len(r) = Len(o) + 1
      /\ \A i \in 1..Len(p) : q[i] = p[i]
      /\ \A i \in 1..Len(o) : r[i] = o[i]
      /\ q[Len(p) + 1] = n /\ r[Len(o) + 1] = e
    BY AppendIs, FrontIs
<1> HIDE DEF q, r
<1>3. g \in [2..Len(q) -> 1..Len(r)]
    BY <1>1, <1>2 DEF Follows
<1>4. \A i \in 2..Len(q) : Tag(q[i]) = r[g[i]].tag
  <2> SUFFICES ASSUME NEW i \in 2..Len(q) PROVE Tag(q[i]) = r[g[i]].tag
    OBVIOUS
  <2>1. CASE i = Len(p) + 1
    BY <1>2, <2>1
  <2>2. CASE i \in 2..Len(p)
    <3>1. f[i] \in 1..Len(o) /\ Tag(p[i]) = o[f[i]].tag
        BY <1>1, <2>2 DEF Follows
    <3>2. q[i] = p[i] /\ g[i] = f[i] /\ r[f[i]] = o[f[i]]
        BY <1>2, <2>2, <3>1
    <3> QED BY <3>1, <3>2
  <2> QED BY <1>2, <2>1, <2>2
<1>5. \A i, j \in 2..Len(q) : i < j => g[i] < g[j]
  <2> SUFFICES ASSUME NEW i \in 2..Len(q), NEW j \in 2..Len(q), i < j PROVE g[i] < g[j]
    OBVIOUS
  <2>1. i \in 2..Len(p) /\ g[i] = f[i] /\ f[i] \in 1..Len(o)
    BY <1>1, <1>2 DEF Follows
  <2>2. CASE j = Len(p) + 1
    BY <1>2, <2>1, <2>2
  <2>3. CASE j \in 2..Len(p)
    BY <1>1, <1>2, <2>1, <2>3 DEF Follows
  <2> QED BY <1>2, <2>2, <2>3
<1>6. Follows(g, q, r)
    BY <1>3, <1>4, <1>5 DEF Follows
<1> QED BY <1>6 DEF Embedded, q, r

LEMMA FollowsEnded ==
    ASSUME NEW p \in Seq(Nodes), p # <<>>, NEW o \in Seq(OpenElements), o # <<>>, Embedded(p, o)
    PROVE  /\ Tag(Last(p)) = Last(o).tag => Embedded(Front(p), Front(o))
           /\ Tag(Last(p)) # Last(o).tag => Embedded(p, Front(o))
<1>1. PICK f : Follows(f, p, o)
    BY DEF Embedded
<1>2. /\ Len(p) \in Nat \ {0} /\ Len(o) \in Nat \ {0}
      /\ Len(Front(p)) = Len(p) - 1 /\ Len(Front(o)) = Len(o) - 1
      /\ \A i \in 1..(Len(p) - 1) : Front(p)[i] = p[i]
      /\ \A i \in 1..(Len(o) - 1) : Front(o)[i] = o[i]
      /\ Last(p) = p[Len(p)] /\ Last(o) = o[Len(o)]
    BY FrontIs
<1>3. CASE Tag(Last(p)) = Last(o).tag
  <2> DEFINE q == Front(p)
             r == Front(o)
             g == [i \in 2..(Len(p) - 1) |-> f[i]]
  <2>1. \A i \in 2..(Len(p) - 1) : f[i] \in 1..(Len(o) - 1)
    <3> SUFFICES ASSUME NEW i \in 2..(Len(p) - 1) PROVE f[i] \in 1..(Len(o) - 1)
        OBVIOUS
    <3>1. i \in 2..Len(p) /\ Len(p) \in 2..Len(p) /\ i < Len(p)
        BY <1>2
    <3>2. f[i] \in 1..Len(o) /\ f[Len(p)] \in 1..Len(o) /\ f[i] < f[Len(p)]
        BY <1>1, <3>1 DEF Follows
    <3> QED BY <1>2, <3>2
  <2>2. \A i \in 2..(Len(p) - 1) : q[i] = p[i] /\ r[f[i]] = o[f[i]] /\ i \in 2..Len(p)
    <3> SUFFICES ASSUME NEW i \in 2..(Len(p) - 1)
                 PROVE  q[i] = p[i] /\ r[f[i]] = o[f[i]] /\ i \in 2..Len(p)
        OBVIOUS
    <3>1. i \in 1..(Len(p) - 1) /\ i \in 2..Len(p) /\ f[i] \in 1..(Len(o) - 1)
        BY <1>2, <2>1
    <3> QED BY <1>2, <3>1
  <2>3. Len(q) = Len(p) - 1 /\ Len(r) = Len(o) - 1
    BY <1>2
  <2> HIDE DEF q, r
  <2>4. g \in [2..Len(q) -> 1..Len(r)]
    BY <2>1, <2>3
  <2>5. \A i \in 2..Len(q) : Tag(q[i]) = r[g[i]].tag
    <3> SUFFICES ASSUME NEW i \in 2..Len(q) PROVE Tag(q[i]) = r[g[i]].tag
        OBVIOUS
    <3>1. q[i] = p[i] /\ r[f[i]] = o[f[i]] /\ i \in 2..Len(p) /\ g[i] = f[i]
        BY <2>2, <2>3
    <3> QED BY <1>1, <3>1 DEF Follows
  <2>6. \A i, j \in 2..Len(q) : i < j => g[i] < g[j]
    BY <1>1, <2>2, <2>3 DEF Follows
  <2>7. Follows(g, q, r)
    BY <2>4, <2>5, <2>6 DEF Follows
  <2> QED BY <1>3, <2>7 DEF Embedded, q, r
<1>4. CASE Tag(Last(p)) # Last(o).tag
  <2>1. \A i \in 2..Len(p) : f[i] \in 1..(Len(o) - 1)
    <3> SUFFICES ASSUME NEW i \in 2..Len(p) PROVE f[i] \in 1..(Len(o) - 1)
        OBVIOUS
    <3>1. Len(p) \in 2..Len(p)
        BY <1>2
    <3>2. /\ f[i] \in 1..Len(o) /\ f[Len(p)] \in 1..Len(o)
          /\ i < Len(p) => f[i] < f[Len(p)]
        BY <1>1, <3>1 DEF Follows
    <3>3. f[Len(p)] # Len(o)
        BY <1>1, <1>2, <1>4, <3>1 DEF Follows
    <3> QED BY <1>2, <3>2, <3>3
  <2>2. \A i \in 2..Len(p) : Front(o)[f[i]] = o[f[i]]
    BY <1>2, <2>1
  <2>3. f \in [2..Len(p) -> 1..Len(Front(o))]
    BY <1>1, <1>2, <2>1 DEF Follows
  <2>4. Follows(f, p, Front(o))
    BY <1>1, <2>2, <2>3 DEF Follows
  <2> QED BY <1>4, <2>4 DEF Embedded
<1> QED BY <1>3, <1>4

LEMMA StraightIgnored ==
    ASSUME NEW p \in Seq(Nodes), p # <<>>, NEW o \in Seq(OpenElements), NEW e \in OpenElements,
           e.tag # Tag(Last(p)), e.made = 0, NoPlace(Last(p), e.tag), Straight(p, o)
    PROVE  Straight(p, Append(o, e))
<1>1. PICK d : Depths(d, p, o)
    BY DEF Straight
<1> DEFINE r == Append(o, e)
           g == [i \in 0..(Len(o) + 1) |-> IF i = Len(o) + 1 THEN Len(p) ELSE d[i]]
<1>2. /\ Len(p) \in Nat \ {0} /\ Len(o) \in Nat /\ Len(r) = Len(o) + 1
      /\ \A i \in 1..Len(o) : r[i] = o[i]
      /\ r[Len(o) + 1] = e /\ Last(p) = p[Len(p)]
  <2>1. /\ Len(o) \in Nat /\ Len(r) = Len(o) + 1 /\ r[Len(o) + 1] = e
        /\ \A i \in 1..Len(o) : r[i] = o[i]
    BY AppendIs
  <2>2. Len(p) \in Nat \ {0} /\ Last(p) = p[Len(p)]
    BY FrontIs
  <2> QED BY <2>1, <2>2
<1> HIDE DEF r
<1>3. /\ g \in [0..Len(r) -> 1..Len(p)] /\ g[0] = 1 /\ g[Len(r)] = Len(p)
      /\ \A i \in 0..Len(o) : g[i] = d[i]
    BY <1>1, <1>2 DEF Depths
<1>4. \A i \in 1..Len(r) : Deeper(p, g, r, i) \/ Ignored(p, g, r, i)
  <2> SUFFICES ASSUME NEW i \in 1..Len(r)
               PROVE  Deeper(p, g, r, i) \/ Ignored(p, g, r, i)
    OBVIOUS
  <2>1. CASE i = Len(o) + 1
    <3>1. i - 1 = Len(o) /\ g[i] = Len(p) /\ g[i - 1] = Len(p) /\ r[i] = e
        BY <1>1, <1>2, <1>3, <2>1 DEF Depths
    <3> QED BY <1>2, <3>1 DEF Ignored
  <2>2. CASE i \in 1..Len(o)
    <3>1. g[i] = d[i] /\ g[i - 1] = d[i - 1] /\ r[i] = o[i]
        BY <1>2, <1>3, <2>2
    <3> QED BY <1>1, <2>2, <3>1 DEF Depths, Deeper, Ignored
  <2> QED BY <1>2, <2>1, <2>2
<1>5. \A i, j \in 0..Len(r) : i <= j => g[i] <= g[j]
  <2> SUFFICES ASSUME NEW i \in 0..Len(r), NEW j \in 0..Len(r), i <= j PROVE g[i] <= g[j]
    OBVIOUS
  <2>1. CASE j = Len(o) + 1
    <3>1. g[j] = Len(p) /\ g[i] \in 1..Len(p)
        BY <1>2, <1>3, <2>1
    <3> QED BY <1>2, <3>1
  <2>2. CASE j \in 0..Len(o)
    <3>1. i \in 0..Len(o) /\ g[i] = d[i] /\ g[j] = d[j]
        BY <1>2, <1>3, <2>2
    <3> QED BY <1>1, <2>2, <3>1 DEF Depths
  <2> QED BY <1>2, <2>1, <2>2
<1>6. Depths(g, p, r)
    BY <1>3, <1>4, <1>5 DEF Depths
<1> QED BY <1>6 DEF Straight, r

LEMMA StraightEntered ==
    ASSUME NEW p \in Seq(Nodes), p # <<>>, NEW o \in Seq(OpenElements),
           NEW n \in Nodes, NEW e \in OpenElements, e.tag = Tag(n), n \in Child[Last(p)],
           Straight(p, o)
    PROVE  Straight(Append(p, n), Append(o, e))
<1>1. PICK d : Depths(d, p, o)
    BY DEF Straight
<1> DEFINE q == Append(p, n)
           r == Append(o, e)
           g == [i \in 0..(Len(o) + 1) |-> IF i = Len(o) + 1 THEN Len(p) + 1 ELSE d[i]]
<1>2. /\ Len(p) \in Nat \ {0} /\ Len(o) \in Nat
      /\ Len(q) = Len(p) + 1 /\ Len(r) = Len(o) + 1
      /\ \A i \in 1..Len(p) : q[i] = p[i]
      /\ \A i \in 1..Len(o) : r[i] = o[i]
      /\ q[Len(p) + 1] = n /\ r[Len(o) + 1] = e /\ Last(p) = p[Len(p)]
  <2>1. /\ Len(p) \in Nat \ {0} /\ Len(q) = Len(p) + 1 /\ q[Len(p) + 1] = n
        /\ \A i \in 1..Len(p) : q[i] = p[i]
    BY AppendIs, FrontIs
  <2>2. /\ Len(o) \in Nat /\ Len(r) = Len(o) + 1 /\ r[Len(o) + 1] = e
        /\ \A i \in 1..Len(o) : r[i] = o[i]
    BY AppendIs
  <2>3. Last(p) = p[Len(p)]
    BY DEF Last
  <2> QED BY <2>1, <2>2, <2>3
<1> HIDE DEF q, r
<1>3. /\ g \in [0..Len(r) -> 1..Len(q)] /\ g[0] = 1 /\ g[Len(r)] = Len(q)
      /\ \A i \in 0..Len(o) : g[i] = d[i] /\ d[i] \in 1..Len(p)
  <2>1. d \in [0..Len(o) -> 1..Len(p)] /\ d[0] = 1
    BY <1>1 DEF Depths
  <2>2. \A i \in 0..Len(o) : g[i] = d[i] /\ d[i] \in 1..Len(p) /\ i \in 0..Len(r)
    BY <1>2, <2>1
  <2>3. ASSUME NEW i \in 0..Len(r) PROVE g[i] \in 1..Len(q)
    <3>1. CASE i = Len(o) + 1
        BY <1>2, <3>1
    <3>2. CASE i \in 0..Len(o)
        <4> HIDE DEF g
        <4>1. g[i] \in 1..Len(p)
            BY <2>2, <3>2
        <4> QED BY <1>2, <4>1
    <3> QED BY <1>2, <3>1, <3>2
  <2>4. 0 \in 0..Len(o) /\ Len(r) \in 0..Len(r)
    BY <1>2
  <2> QED BY <1>2, <2>1, <2>2, <2>3, <2>4
<1> HIDE DEF g
<1>4. \A i \in 1..Len(r) : Deeper(q, g, r, i) \/ Ignored(q, g, r, i)
  <2> SUFFICES ASSUME NEW i \in 1..Len(r)
               PROVE  Deeper(q, g, r, i) \/ Ignored(q, g, r, i)
    OBVIOUS
  <2>1. CASE i = Len(o) + 1
    <3>1. i - 1 = Len(o) /\ g[i] = Len(p) + 1 /\ g[i - 1] = Len(p) /\ r[i] = e
        BY <1>1, <1>2, <1>3, <2>1 DEF Depths
    <3>2. q[Len(p)] = Last(p) /\ Tag(q[g[i]]) = r[i].tag
        BY <1>2, <3>1
    <3> QED BY <1>2, <3>1, <3>2 DEF Deeper
  <2>2. CASE i \in 1..Len(o)
    <3>1. /\ i - 1 \in 0..Len(o) /\ i \in 0..Len(o)
          /\ d[i] \in 1..Len(p) /\ d[i - 1] \in 1..Len(p)
        BY <1>2, <1>3, <2>2
    <3>2. g[i] = d[i] /\ g[i - 1] = d[i - 1]
        BY <1>3, <3>1
    <3>3. r[i] = o[i] /\ q[d[i]] = p[d[i]] /\ q[d[i - 1]] = p[d[i - 1]]
        BY <1>2, <2>2, <3>1
    <3> QED BY <1>1, <2>2, <3>2, <3>3 DEF Depths, Deeper, Ignored
  <2> QED BY <1>2, <2>1, <2>2
<1>5. \A i, j \in 0..Len(r) : i <= j => g[i] <= g[j]
  <2> SUFFICES ASSUME NEW i \in 0..Len(r), NEW j \in 0..Len(r), i <= j PROVE g[i] <= g[j]
    OBVIOUS
  <2>1. CASE j = Len(o) + 1
    <3>1. g[j] = Len(q) /\ g[i] \in 1..Len(q)
        BY <1>2, <1>3, <2>1
    <3> QED BY <1>2, <3>1
  <2>2. CASE j \in 0..Len(o)
    <3>1. i \in 0..Len(o) /\ g[i] = d[i] /\ g[j] = d[j]
        BY <1>2, <1>3, <2>2
    <3> QED BY <1>1, <2>2, <3>1 DEF Depths
  <2> QED BY <1>2, <2>1, <2>2
<1>6. Depths(g, q, r)
    BY <1>3, <1>4, <1>5 DEF Depths
<1> QED BY <1>6 DEF Straight, q, r

LEMMA StraightEnded ==
    ASSUME NEW p \in Seq(Nodes), p # <<>>, NEW o \in Seq(OpenElements), o # <<>>, Straight(p, o)
    PROVE  /\ Tag(Last(p)) = Last(o).tag => Straight(Front(p), Front(o))
           /\ Tag(Last(p)) # Last(o).tag => Straight(p, Front(o))
<1>1. PICK d : Depths(d, p, o)
    BY DEF Straight
<1> DEFINE q == IF Tag(Last(p)) = Last(o).tag THEN Front(p) ELSE p
           r == Front(o)
           g == [i \in 0..(Len(o) - 1) |-> d[i]]
<1>2. /\ Len(p) \in Nat \ {0} /\ Len(o) \in Nat \ {0} /\ Len(r) = Len(o) - 1
      /\ \A i \in 1..(Len(o) - 1) : r[i] = o[i]
      /\ Last(p) = p[Len(p)] /\ Last(o) = o[Len(o)]
    BY FrontIs
<1>3. Len(q) = d[Len(o) - 1] /\ \A i \in 1..Len(q) : q[i] = p[i]
  <2>1. /\ d[Len(o)] = Len(p)
        /\ \/ d[Len(o)] = d[Len(o) - 1] + 1 /\ Tag(p[Len(p)]) = Last(o).tag
           \/ d[Len(o)] = d[Len(o) - 1] /\ Tag(p[Len(p)]) # Last(o).tag
        /\ d[Len(o) - 1] \in 1..Len(p)
    BY <1>1, <1>2 DEF Depths, Deeper, Ignored
  <2>2. CASE Tag(Last(p)) = Last(o).tag
    BY <1>2, <2>1, <2>2, FrontIs
  <2>3. CASE Tag(Last(p)) # Last(o).tag
    BY <1>2, <2>1, <2>3
  <2> QED BY <2>2, <2>3
<1> HIDE DEF q, r
<1>4. \A i \in 0..Len(r) : g[i] = d[i] /\ d[i] \in 1..Len(q)
  <2> SUFFICES ASSUME NEW i \in 0..Len(r) PROVE g[i] = d[i] /\ d[i] \in 1..Len(q)
    OBVIOUS
  <2>1. i \in 0..Len(o) /\ Len(o) - 1 \in 0..Len(o) /\ i <= Len(o) - 1 /\ g[i] = d[i]
    BY <1>2
  <2>2. d[i] \in 1..Len(p) /\ d[Len(o) - 1] \in 1..Len(p) /\ d[i] <= d[Len(o) - 1]
    BY <1>1, <2>1 DEF Depths
  <2> QED BY <1>2, <1>3, <2>1, <2>2
<1>5. g \in [0..Len(r) -> 1..Len(q)] /\ g[0] = 1 /\ g[Len(r)] = Len(q)
    BY <1>1, <1>2, <1>3, <1>4 DEF Depths
<1>6. \A i \in 1..Len(r) : Deeper(q, g, r, i) \/ Ignored(q, g, r, i)
  <2> SUFFICES ASSUME NEW i \in 1..Len(r)
               PROVE  Deeper(q, g, r, i) \/ Ignored(q, g, r, i)
    OBVIOUS
  <2>1. /\ i \in 1..Len(o) /\ i \in 0..Len(r) /\ i - 1 \in 0..Len(r)
        /\ i \in 1..(Len(o) - 1)
    BY <1>2
  <2>2. /\ g[i] = d[i] /\ g[i - 1] = d[i - 1] /\ r[i] = o[i]
        /\ q[d[i]] = p[d[i]] /\ q[d[i - 1]] = p[d[i - 1]]
    BY <1>2, <1>3, <1>4, <2>1
  <2> QED BY <1>1, <2>1, <2>2 DEF Depths, Deeper, Ignored
<1>7. \A i, j \in 0..Len(r) : i <= j => g[i] <= g[j]
  <2> SUFFICES ASSUME NEW i \in 0..Len(r), NEW j \in 0..Len(r), i <= j PROVE g[i] <= g[j]
    OBVIOUS
  <2>1. i \in 0..Len(o) /\ j \in 0..Len(o)
    BY <1>2
  <2> QED BY <1>1, <1>4, <2>1 DEF Depths
<1>8. Depths(g, q, r)
    BY <1>5, <1>6, <1>7 DEF Depths
<1> QED BY <1>8 DEF Straight, q, r

-----------------------------------------------------------------------------
(* OpenElements that open.                                                     *)

LEMMA Reading ==
    ASSUME IInv, status = "reading"
    PROVE  /\ PathInv /\ Embedded(path, open) /\ AtInv /\ (~astray => Straight(path, open))
           /\ path \in Seq(Nodes) /\ open \in Seq(OpenElements) /\ modules \in Seq(Module)
           /\ Len(modules) \in Nat /\ Len(path) \in Nat /\ include \in Nat
           /\ at = [module |-> at.module, mix |-> at.mix, device |-> at.device]
           /\ at.module \in Nat /\ at.mix \in Nat /\ at.device \in Nat
BY LenProperties DEF IInv, Live, ReadInv, TypeOK, OpenElements

LEMMA OpensKeeps ==
    ASSUME IInv, NEW tag \in Tags, NEW made \in Nat, MayOpen(tag), Opens(tag, made)
    PROVE  /\ open' = Append(open, [tag |-> tag, made |-> made])
           /\ [tag |-> tag, made |-> made] \in OpenElements /\ open' \in Seq(OpenElements)
           /\ rooted' \in BOOLEAN /\ elements' \in Nat
           /\ status = "reading" /\ path # <<>>
<1>1. /\ open' = Append(open, [tag |-> tag, made |-> made]) /\ rooted' /\ elements' = elements + 1
      /\ status = "reading" /\ path # <<>>
    BY DEF Opens, MayOpen
<1>2. [tag |-> tag, made |-> made] \in OpenElements /\ open \in Seq(OpenElements) /\ elements \in Nat
    BY DEF OpenElements, IInv, TypeOK
<1>3. Append(open, [tag |-> tag, made |-> made]) \in Seq(OpenElements)
    BY <1>2, AppendIs
<1> QED BY <1>1, <1>2, <1>3

(* An element of the table opens.                                          *)
LEMMA EnterKeeps ==
    ASSUME IInv, NEW n \in Nodes, NEW made \in Nat, Enter(n, made)
    PROVE  /\ status = "reading" /\ UNCHANGED <<status, include, astray>>
           /\ path' = Append(path, n) /\ path # <<>> /\ path' \in Seq(Nodes)
           /\ n \in Child[Last(path)] /\ Last(path) \in Nodes
           /\ open' \in Seq(OpenElements) /\ rooted' \in BOOLEAN /\ elements' \in Nat
           /\ Embedded(path', open') /\ (~astray' => Straight(path', open'))
<1>1. /\ MayOpen(Tag(n)) /\ Opens(Tag(n), made) /\ path' = Append(path, n)
      /\ n \in Child[Last(path)] /\ UNCHANGED <<status, include, astray>>
    BY DEF Enter
<1>2. status = "reading" /\ path # <<>>
    BY <1>1 DEF MayOpen
<1>3. path \in Seq(Nodes) /\ Last(path) \in Nodes
    BY <1>2, Reading, FrontIs
<1>4. Tag(n) \in Tags
  <2>1. Level[n] = Level[Last(path)] + 1 /\ Level[Last(path)] \in 0..6
    BY <1>1, <1>3, ChildLevel, Levels
  <2>2. n # "root"
    BY <2>1, LevelTable
  <2> QED BY <2>2, Tagged
<1> DEFINE e == [tag |-> Tag(n), made |-> made]
<1>5. /\ open' = Append(open, e) /\ e \in OpenElements /\ open' \in Seq(OpenElements)
      /\ rooted' \in BOOLEAN /\ elements' \in Nat
    BY <1>1, <1>4, OpensKeeps
<1>6. e.tag = Tag(n)
    OBVIOUS
<1> HIDE DEF e
<1>7. open \in Seq(OpenElements) /\ Embedded(path, open) /\ (~astray => Straight(path, open))
    BY <1>2, Reading
<1>8. path' \in Seq(Nodes)
    BY <1>1, <1>3, AppendIs
<1>9. Embedded(path', open')
    BY <1>1, <1>2, <1>3, <1>5, <1>6, <1>7, FollowsEntered
<1>10. ~astray' => Straight(path', open')
    BY <1>1, <1>2, <1>3, <1>5, <1>6, <1>7, StraightEntered
<1> QED BY <1>1, <1>2, <1>3, <1>5, <1>8, <1>9, <1>10

(* The path and what it holds, with one more element.                      *)
LEMMA EnterPath ==
    ASSUME IInv, NEW n \in Nodes, NEW made \in Nat, Enter(n, made)
    PROVE  /\ PathInv'
           /\ \A m : InPath(m)' <=> InPath(m) \/ m = n
           /\ Level[n] >= 4 => at.module # 0
           /\ \A i \in 1..Len(path) : Level[path[i]] < Level[n]
           /\ (\E i \in 1..Len(path') : Level[path'[i]] >= 4) => at.module # 0
<1>1. /\ status = "reading" /\ include' = include
      /\ path' = Append(path, n) /\ path # <<>> /\ path \in Seq(Nodes)
      /\ n \in Child[Last(path)] /\ Last(path) \in Nodes
      /\ PathInv /\ AtInv
    BY EnterKeeps, Reading
<1> DEFINE k == Len(path)
<1>2. /\ k \in Nat \ {0} /\ Len(path') = k + 1 /\ Last(path) = path[k]
      /\ \A i \in 1..k : path'[i] = path[i] /\ path[i] \in Nodes
      /\ path'[k + 1] = n
    BY <1>1, AppendIs, FrontIs, ElementOfSeq
<1>3. Level[n] = Level[path[k]] + 1 /\ Level[path[k]] \in 0..6 /\ k \in 1..k
    BY <1>1, <1>2, ChildLevel, Levels
<1> HIDE DEF k
<1>4. \A i \in 1..k : Level[path[i]] = Level[Root(include)] + i - 1
    BY <1>1 DEF PathInv, k
<1>5. Level[Root(include)] \in 0..6
    BY Levels
<1>6. Level[n] = Level[Root(include)] + k
    BY <1>2, <1>3, <1>4, <1>5
<1>7. PathInv'
  <2>1. \A i \in 1..Len(path') : Level[path'[i]] = Level[Root(include')] + i - 1
    <3> SUFFICES ASSUME NEW i \in 1..(k + 1) PROVE Level[path'[i]] = Level[Root(include)] + i - 1
        BY <1>1, <1>2
    <3>1. CASE i \in 1..k
        BY <1>2, <1>4, <3>1
    <3>2. CASE i = k + 1
        BY <1>2, <1>5, <1>6, <3>2
    <3> QED BY <1>2, <3>1, <3>2
  <2>2. path'[1] = path[1]
    BY <1>2
  <2>3. path' # <<>>
    BY <1>1, AppendIs
  <2> QED BY <1>1, <2>1, <2>2, <2>3 DEF PathInv
<1>8. \A m : InPath(m)' <=> InPath(m) \/ m = n
  <2> TAKE m
  <2>1. InPath(m)' <=> \E i \in 1..(k + 1) : path'[i] = m
    BY <1>2 DEF InPath
  <2>2. InPath(m) <=> \E i \in 1..k : path[i] = m
    BY DEF InPath, k
  <2>3. \A i \in 1..(k + 1) : i \in 1..k \/ i = k + 1
    BY <1>2
  <2>4. \A i \in 1..k : i \in 1..(k + 1)
    BY <1>2
  <2>5. k + 1 \in 1..(k + 1)
    BY <1>2
  <2> QED BY <1>2, <2>1, <2>2, <2>3, <2>4, <2>5
<1>9. \A i \in 1..k : Level[path[i]] < Level[n]
    BY <1>2, <1>4, <1>5, <1>6
<1>10. Level[n] >= 4 => at.module # 0
  <2> SUFFICES ASSUME Level[n] >= 4 PROVE at.module # 0
    OBVIOUS
  <2>1. path[k] = "module" \/ Level[path[k]] >= 4
    BY <1>1, <1>2, BelowModule
  <2>2. k \in 1..Len(path)
    BY <1>3 DEF k
  <2> QED BY <1>1, <2>1, <2>2 DEF AtInv, InPath
<1>11. ASSUME NEW i \in 1..(k + 1), Level[path'[i]] >= 4 PROVE at.module # 0
  <2>1. CASE i \in 1..k
    BY <1>1, <1>2, <1>11, <2>1 DEF AtInv, k
  <2>2. CASE i = k + 1
    BY <1>2, <1>10, <1>11, <2>2
  <2> QED BY <1>2, <2>1, <2>2
<1> QED BY <1>2, <1>7, <1>8, <1>9, <1>10, <1>11 DEF k

-----------------------------------------------------------------------------
(* What the callbacks of an element do to the modules and what is current.  *)

Positions == [module : Nat, mix : Nat, device : Nat]

(* A module replaced by another keeps all others.                          *)
LEMMA ModuleReplaced ==
    ASSUME modules \in Seq(Module), NEW m \in 1..Len(modules), NEW u \in Module,
           modules' = [modules EXCEPT ![m] = u]
    PROVE  /\ modules' \in Seq(Module) /\ Len(modules') = Len(modules)
           /\ modules'[m] = u
           /\ \A j \in 1..Len(modules) : j # m => modules'[j] = modules[j]
BY ExceptSeq

LEMMA EnterClosed ==
    ASSUME IInv, NEW n \in Nodes, NEW made \in Nat, Enter(n, made),
           modules' \in Seq(Module), includes' \in Seq(0..Len(modules')),
           Len(includes) <= Len(includes'), at' \in Positions, AtInv'
    PROVE  IInv'
<1>1. /\ status' = "reading" /\ UNCHANGED <<include, astray>>
      /\ path' \in Seq(Nodes) /\ open' \in Seq(OpenElements) /\ rooted' \in BOOLEAN /\ elements' \in Nat
      /\ Embedded(path', open') /\ (~astray' => Straight(path', open'))
      /\ PathInv'
    BY EnterKeeps, EnterPath
<1>2. include \in Nat /\ include <= Len(includes) /\ astray \in BOOLEAN /\ Len(includes) \in Nat
    BY LenProperties DEF IInv, TypeOK
<1>3. include' <= Len(includes') /\ Len(includes') \in Nat
    BY <1>1, <1>2, LenProperties
<1>4. TypeOK'
    BY <1>1, <1>2, <1>3 DEF TypeOK, Positions, OpenElements
<1>5. ReadInv'
    BY <1>1 DEF ReadInv
<1> QED BY <1>1, <1>4, <1>5 DEF IInv, Live, FirstFileIsSafe, CrashIsAstray

(* What is current stays so.                                               *)
SizesKept ==
    /\ Len(modules') = Len(modules)
    /\ \A m \in 1..Len(modules) : /\ Len(modules'[m].mixPorts) = Len(modules[m].mixPorts)
                                  /\ Len(modules'[m].devicePorts) = Len(modules[m].devicePorts)

(* Where a part of a module is read, or a port is current, a module is.    *)
LEMMA ModuleCurrent ==
    ASSUME IInv, status = "reading"
    PROVE  /\ at.mix # 0 => at.module \in 1..Len(modules)
           /\ at.device # 0 => at.module \in 1..Len(modules)
           /\ at.module # 0 => at.module \in 1..Len(modules)
<1>1. /\ AtInv /\ at.module \in Nat /\ Len(modules) \in Nat /\ path \in Seq(Nodes)
    BY Reading
<1>2. at.module # 0 => at.module \in 1..Len(modules)
    BY <1>1 DEF AtInv
<1>3. at.mix # 0 => InPath("mixPort")
    BY <1>1 DEF AtInv
<1>4. at.device # 0 => InPath("devicePort")
    BY <1>1 DEF AtInv
<1>5. InPath("mixPort") \/ InPath("devicePort") => at.module # 0
    BY <1>1, LevelTable DEF AtInv, InPath
<1> QED BY <1>2, <1>3, <1>4, <1>5

LEMMA SameCurrent ==
    ASSUME IInv, status = "reading", at' = at, SizesKept,
           InPath("module")' <=> InPath("module"), InPath("mixPort")' <=> InPath("mixPort"),
           InPath("devicePort") => InPath("devicePort")',
           (\E i \in 1..Len(path') : Level[path'[i]] >= 4) => at.module # 0
    PROVE  AtInv'
<1>1. AtInv /\ at.module \in Nat
    BY Reading
<1>2. /\ at.mix # 0 => at.mix \in 1..Len(modules'[at.module].mixPorts)
      /\ at.device # 0 => at.device \in 1..Len(modules'[at.module].devicePorts)
    BY <1>1, ModuleCurrent DEF AtInv, SizesKept
<1> QED BY <1>1, <1>2 DEF AtInv, SizesKept

LEMMA IncludesSame ==
    ASSUME IInv, UNCHANGED includes, Len(modules) <= Len(modules'), Len(modules') \in Nat
    PROVE  includes' \in Seq(0..Len(modules')) /\ Len(includes) <= Len(includes')
<1>1. includes \in Seq(0..Len(modules)) /\ modules \in Seq(Module)
    BY DEF IInv, TypeOK
<1>2. Len(modules) \in Nat /\ Len(includes) \in Nat
    BY <1>1, LenProperties
<1>3. 0..Len(modules) \subseteq 0..Len(modules')
    BY <1>2
<1> QED BY <1>1, <1>2, <1>3, SeqMonotonic

LEMMA SectionKeeps ==
    ASSUME IInv, NEW n \in Nodes, Section(n) PROVE IInv'
<1>1. /\ Enter(n, 0) /\ UNCHANGED <<at, modules, includes>> /\ n \notin {"module", "mixPort", "devicePort"}
    BY DEF Section, confVars
<1>2. status = "reading" /\ SizesKept
    BY <1>1, EnterKeeps DEF SizesKept
<1>3. at \in Positions /\ modules \in Seq(Module) /\ Len(modules) \in Nat
    BY LenProperties DEF IInv, TypeOK, Positions
<1>4. AtInv'
    BY <1>1, <1>2, EnterPath, SameCurrent
<1>5. includes' \in Seq(0..Len(modules')) /\ Len(includes) <= Len(includes')
    BY <1>1, <1>3, IncludesSame
<1> QED BY <1>1, <1>3, <1>4, <1>5, EnterClosed

LEMMA ReadIncludeKeeps ==
    ASSUME IInv, NEW n \in Nodes, ReadInclude(n) PROVE IInv'
<1>1. /\ Enter(n, 0) /\ UNCHANGED <<at, modules>> /\ includes' = Append(includes, at.module)
      /\ n \notin {"module", "mixPort", "devicePort"}
    BY DEF ReadInclude
<1>2. status = "reading" /\ SizesKept
    BY <1>1, EnterKeeps DEF SizesKept
<1>3. at \in Positions /\ modules \in Seq(Module) /\ includes \in Seq(0..Len(modules))
    BY DEF IInv, TypeOK, Positions
<1>4. AtInv'
    BY <1>1, <1>2, EnterPath, SameCurrent
<1>5. at.module \in 0..Len(modules)
    BY <1>2, Reading DEF AtInv
<1>6. includes' \in Seq(0..Len(modules')) /\ Len(includes) <= Len(includes')
    BY <1>1, <1>3, <1>5, AppendIs
<1> QED BY <1>1, <1>3, <1>4, <1>6, EnterClosed

LEMMA NewModuleIs == NewModule \in Module
BY EmptySeq DEF NewModule, Module

LEMMA ReadModuleKeeps ==
    ASSUME IInv, ReadModule PROVE IInv'
<1> DEFINE into == IF include = 0 THEN 0 ELSE includes[include]
           m == IF into # 0 THEN into ELSE Len(modules) + 1
<1>1. /\ Enter("module", m) /\ at' = [at EXCEPT !.module = m]
      /\ modules' = IF into # 0 THEN modules ELSE Append(modules, NewModule)
      /\ UNCHANGED includes
    BY DEF ReadModule
<1>2. /\ include \in Nat /\ include <= Len(includes) /\ includes \in Seq(0..Len(modules))
      /\ modules \in Seq(Module) /\ Len(modules) \in Nat /\ Len(includes) \in Nat
      /\ at \in Positions
    BY LenProperties DEF IInv, TypeOK, Positions
<1>3. into \in 0..Len(modules)
  <2>1. CASE include = 0
    BY <1>2, <2>1
  <2>2. CASE include # 0
    <3>1. include \in 1..Len(includes)
        BY <1>2, <2>2
    <3> QED BY <1>2, <2>2, <3>1, ElementOfSeq
  <2> QED BY <2>1, <2>2
<1>4. /\ modules' \in Seq(Module) /\ Len(modules') \in Nat /\ Len(modules) <= Len(modules')
      /\ m \in 1..Len(modules')
  <2>1. CASE into # 0
    BY <1>1, <1>2, <1>3, <2>1
  <2>2. CASE into = 0
    BY <1>1, <1>2, <2>2, AppendIs, NewModuleIs
  <2> QED BY <2>1, <2>2
<1> HIDE DEF m, into
<1>5. "module" \in Nodes /\ m \in Nat
    BY <1>4 DEF Nodes
<1>6. /\ status = "reading"
      /\ \A i \in 1..Len(path) : Level[path[i]] < 3
      /\ \A n : InPath(n)' <=> InPath(n) \/ n = "module"
    BY <1>1, <1>5, EnterKeeps, EnterPath, LevelTable
<1>7. at' \in Positions /\ at'.module = m /\ at'.mix = at.mix /\ at'.device = at.device
    BY <1>1, <1>2, <1>5 DEF Positions
<1>8. ~InPath("mixPort") /\ ~InPath("devicePort") /\ at.mix = 0 /\ at.device = 0
  <2>1. ~InPath("mixPort") /\ ~InPath("devicePort")
    BY <1>6, LevelTable DEF InPath
  <2> QED BY <1>6, <2>1, Reading DEF AtInv
<1>9. AtInv'
    BY <1>4, <1>6, <1>7, <1>8 DEF AtInv
<1>10. includes' \in Seq(0..Len(modules')) /\ Len(includes) <= Len(includes')
    BY <1>1, <1>4, IncludesSame
<1> QED BY <1>1, <1>4, <1>5, <1>7, <1>9, <1>10, EnterClosed

(* Replacing a list of a module gives a module.                            *)
LEMMA ModuleParts ==
    ASSUME NEW u \in Module
    PROVE  /\ u.mixPorts \in Seq([port : MixPorts, profiles : Nat])
           /\ u.devicePorts \in Seq([port : DevicePorts, profiles : Nat])
           /\ u.routes \in Seq(Routes) /\ u.attached \in Seq(Texts) /\ u.default \in Seq(Texts)
           /\ \A s \in Seq([port : MixPorts, profiles : Nat]) :
                 /\ [u EXCEPT !.mixPorts = s] \in Module
                 /\ [u EXCEPT !.mixPorts = s].mixPorts = s
                 /\ [u EXCEPT !.mixPorts = s].devicePorts = u.devicePorts
           /\ \A s \in Seq([port : DevicePorts, profiles : Nat]) :
                 /\ [u EXCEPT !.devicePorts = s] \in Module
                 /\ [u EXCEPT !.devicePorts = s].devicePorts = s
                 /\ [u EXCEPT !.devicePorts = s].mixPorts = u.mixPorts
           /\ \A s \in Seq(Routes) :
                 /\ [u EXCEPT !.routes = s] \in Module
                 /\ [u EXCEPT !.routes = s].mixPorts = u.mixPorts
                 /\ [u EXCEPT !.routes = s].devicePorts = u.devicePorts
           /\ \A s \in Seq(Texts) :
                 /\ [u EXCEPT !.attached = s] \in Module
                 /\ [u EXCEPT !.attached = s].mixPorts = u.mixPorts
                 /\ [u EXCEPT !.attached = s].devicePorts = u.devicePorts
                 /\ [u EXCEPT !.default = s] \in Module
                 /\ [u EXCEPT !.default = s].mixPorts = u.mixPorts
                 /\ [u EXCEPT !.default = s].devicePorts = u.devicePorts
<1> DEFINE M == Seq([port : MixPorts, profiles : Nat])
           D == Seq([port : DevicePorts, profiles : Nat])
           R == Seq(Routes)
           T == Seq(Texts)
<1>1. Module = [attached : T, default : T, mixPorts : M, devicePorts : D, routes : R]
    BY DEF Module
<1> HIDE DEF M, D, R, T
<1>2. u.mixPorts \in M /\ u.devicePorts \in D /\ u.routes \in R /\ u.attached \in T /\ u.default \in T
    BY <1>1
<1>3. \A s \in M : /\ [u EXCEPT !.mixPorts = s] \in Module
                   /\ [u EXCEPT !.mixPorts = s].mixPorts = s
                   /\ [u EXCEPT !.mixPorts = s].devicePorts = u.devicePorts
    BY <1>1
<1>4. \A s \in D : /\ [u EXCEPT !.devicePorts = s] \in Module
                   /\ [u EXCEPT !.devicePorts = s].devicePorts = s
                   /\ [u EXCEPT !.devicePorts = s].mixPorts = u.mixPorts
    BY <1>1
<1>5. \A s \in R : /\ [u EXCEPT !.routes = s] \in Module
                   /\ [u EXCEPT !.routes = s].mixPorts = u.mixPorts
                   /\ [u EXCEPT !.routes = s].devicePorts = u.devicePorts
    BY <1>1
<1>6. \A s \in T : /\ [u EXCEPT !.attached = s] \in Module
                   /\ [u EXCEPT !.attached = s].mixPorts = u.mixPorts
                   /\ [u EXCEPT !.attached = s].devicePorts = u.devicePorts
                   /\ [u EXCEPT !.default = s] \in Module
                   /\ [u EXCEPT !.default = s].mixPorts = u.mixPorts
                   /\ [u EXCEPT !.default = s].devicePorts = u.devicePorts
    BY <1>1
<1> QED BY <1>2, <1>3, <1>4, <1>5, <1>6 DEF M, D, R, T

(* A part of a module is read while a module is current.                   *)
LEMMA PartKeeps ==
    ASSUME IInv, NEW n \in {"mixPort", "devicePort", "profile", "route"}, NEW made, Enter(n, made)
    PROVE  /\ n \in Nodes /\ status = "reading"
           /\ at.module \in 1..Len(modules) /\ modules[at.module] \in Module
           /\ modules \in Seq(Module) /\ at \in Positions
<1>1. n \in Nodes /\ Level[n] >= 4
    BY LevelTable DEF Nodes
<1>2. status = "reading" /\ path # <<>> /\ n \in Child[Last(path)]
    BY DEF Enter, MayOpen
<1>3. /\ modules \in Seq(Module) /\ at \in Positions /\ AtInv
      /\ Last(path) = path[Len(path)] /\ Last(path) \in Nodes /\ Len(path) \in 1..Len(path)
    BY <1>2, Reading, FrontIs DEF Positions
<1>4. at.module # 0
  <2>1. path[Len(path)] = "module" \/ Level[path[Len(path)]] >= 4
    BY <1>1, <1>2, <1>3, BelowModule
  <2> QED BY <1>3, <2>1 DEF AtInv, InPath
<1>5. at.module \in 1..Len(modules)
    BY <1>2, <1>4, ModuleCurrent
<1> QED BY <1>1, <1>2, <1>3, <1>5, ElementOfSeq

LEMMA ReadMixPortKeeps ==
    ASSUME IInv, NEW p \in MixPorts, ReadMixPort(p) PROVE IInv'
<1> DEFINE m == at.module
           e == [port |-> p, profiles |-> 0]
           new == Append(modules[m].mixPorts, e)
           u == [modules[m] EXCEPT !.mixPorts = new]
           made == Len(new)
<1>1. /\ Enter("mixPort", made) /\ modules' = [modules EXCEPT ![m] = u]
      /\ at' = [at EXCEPT !.mix = made] /\ UNCHANGED includes
    BY DEF ReadMixPort
<1>2. e \in [port : MixPorts, profiles : Nat]
    OBVIOUS
<1> HIDE DEF e
<1>3. /\ "mixPort" \in Nodes /\ status = "reading" /\ m \in 1..Len(modules) /\ modules[m] \in Module
      /\ modules \in Seq(Module) /\ at \in Positions
    BY <1>1, PartKeeps
<1>4. /\ new \in Seq([port : MixPorts, profiles : Nat]) /\ made \in 1..made
  <2>1. modules[m].mixPorts \in Seq([port : MixPorts, profiles : Nat])
    BY <1>3, ModuleParts
  <2>2. Len(modules[m].mixPorts) \in Nat
    BY <2>1, LenProperties
  <2>3. new \in Seq([port : MixPorts, profiles : Nat]) /\ Len(new) = Len(modules[m].mixPorts) + 1
    BY <1>2, <2>1, AppendIs
  <2> HIDE DEF new
  <2> QED BY <2>2, <2>3
<1>5. u \in Module /\ u.mixPorts = new /\ u.devicePorts = modules[m].devicePorts
    BY <1>3, <1>4, ModuleParts
<1> HIDE DEF u
<1>6. modules' \in Seq(Module) /\ Len(modules') = Len(modules) /\ modules'[m] = u
    BY <1>1, <1>3, <1>5, ModuleReplaced
<1>7. made = Len(u.mixPorts) /\ made \in Nat
    BY <1>4, <1>5
<1> HIDE DEF new, made
<1>8. at' \in Positions /\ at'.mix = made /\ at'.module = m /\ at'.device = at.device
    BY <1>1, <1>3, <1>7 DEF Positions
<1>9. /\ \A n : InPath(n)' <=> InPath(n) \/ n = "mixPort"
      /\ AtInv /\ m # 0
    BY <1>1, <1>3, <1>7, EnterPath, Reading
<1>10. AtInv'
    BY <1>4, <1>5, <1>6, <1>7, <1>8, <1>9 DEF AtInv
<1>11. includes' \in Seq(0..Len(modules')) /\ Len(includes) <= Len(includes')
    BY <1>1, <1>3, <1>6, IncludesSame, LenProperties
<1> QED BY <1>1, <1>3, <1>6, <1>7, <1>8, <1>10, <1>11, EnterClosed

LEMMA ReadDevicePortKeeps ==
    ASSUME IInv, NEW d \in DevicePorts, ReadDevicePort(d) PROVE IInv'
<1> DEFINE m == at.module
           e == [port |-> d, profiles |-> 0]
           new == Append(modules[m].devicePorts, e)
           u == [modules[m] EXCEPT !.devicePorts = new]
           made == Len(new)
<1>1. CASE KnownType(d)
  <2>1. /\ Enter("devicePort", made) /\ modules' = [modules EXCEPT ![m] = u]
        /\ at' = [at EXCEPT !.device = made] /\ UNCHANGED includes
    BY <1>1 DEF ReadDevicePort
  <2>2. e \in [port : DevicePorts, profiles : Nat]
    OBVIOUS
  <2> HIDE DEF e
  <2>3. /\ "devicePort" \in Nodes /\ status = "reading" /\ m \in 1..Len(modules) /\ modules[m] \in Module
        /\ modules \in Seq(Module) /\ at \in Positions
    BY <2>1, PartKeeps
  <2>4. new \in Seq([port : DevicePorts, profiles : Nat]) /\ made \in 1..made
    <3>1. modules[m].devicePorts \in Seq([port : DevicePorts, profiles : Nat])
        BY <2>3, ModuleParts
    <3>2. Len(modules[m].devicePorts) \in Nat
        BY <3>1, LenProperties
    <3>3. new \in Seq([port : DevicePorts, profiles : Nat]) /\ Len(new) = Len(modules[m].devicePorts) + 1
        BY <2>2, <3>1, AppendIs
    <3> HIDE DEF new
    <3> QED BY <3>2, <3>3
  <2>5. u \in Module /\ u.devicePorts = new /\ u.mixPorts = modules[m].mixPorts
    BY <2>3, <2>4, ModuleParts
  <2> HIDE DEF u
  <2>6. modules' \in Seq(Module) /\ Len(modules') = Len(modules) /\ modules'[m] = u
    BY <2>1, <2>3, <2>5, ModuleReplaced
  <2>7. made = Len(u.devicePorts) /\ made \in Nat
    BY <2>4, <2>5
  <2> HIDE DEF new, made
  <2>8. at' \in Positions /\ at'.device = made /\ at'.module = m /\ at'.mix = at.mix
    BY <2>1, <2>3, <2>7 DEF Positions
  <2>9. /\ \A n : InPath(n)' <=> InPath(n) \/ n = "devicePort"
        /\ AtInv /\ m # 0
    BY <2>1, <2>3, <2>7, EnterPath, Reading
  <2>10. AtInv'
    BY <2>4, <2>5, <2>6, <2>7, <2>8, <2>9 DEF AtInv
  <2>11. includes' \in Seq(0..Len(modules')) /\ Len(includes) <= Len(includes')
    BY <2>1, <2>3, <2>6, IncludesSame, LenProperties
  <2> QED BY <2>1, <2>3, <2>6, <2>7, <2>8, <2>10, <2>11, EnterClosed
<1>2. CASE ~KnownType(d)
  <2>1. Enter("devicePort", 0) /\ UNCHANGED <<at, modules, includes>>
    BY <1>2 DEF ReadDevicePort, confVars
  <2>2. /\ "devicePort" \in Nodes /\ status = "reading" /\ modules \in Seq(Module) /\ at \in Positions
        /\ SizesKept /\ Len(modules) \in Nat
    BY <2>1, PartKeeps, LenProperties DEF SizesKept
  <2>3. AtInv'
    BY <2>1, <2>2, EnterPath, SameCurrent
  <2>4. includes' \in Seq(0..Len(modules')) /\ Len(includes) <= Len(includes')
    BY <2>1, <2>2, IncludesSame
  <2> QED BY <2>1, <2>2, <2>3, <2>4, EnterClosed
<1> QED BY <1>1, <1>2

(* A part that changes neither the number of ports nor what is current.    *)
LEMMA PartClosed ==
    ASSUME IInv, NEW n \in {"profile", "route"}, Enter(n, 0), UNCHANGED <<at, includes>>,
           modules' \in Seq(Module), SizesKept
    PROVE  IInv'
<1>1. /\ n \in Nodes /\ status = "reading" /\ modules \in Seq(Module) /\ at \in Positions
    BY PartKeeps
<1>2. AtInv'
    BY <1>1, EnterPath, SameCurrent
<1>3. Len(modules') \in Nat /\ Len(modules') = Len(modules)
    BY LenProperties DEF SizesKept
<1>4. includes' \in Seq(0..Len(modules')) /\ Len(includes) <= Len(includes')
    BY <1>3, IncludesSame
<1> QED BY <1>1, <1>2, <1>4, EnterClosed

LEMMA SizesOfReplaced ==
    ASSUME modules \in Seq(Module), NEW m \in 1..Len(modules), NEW u \in Module,
           modules' = [modules EXCEPT ![m] = u],
           Len(u.mixPorts) = Len(modules[m].mixPorts), Len(u.devicePorts) = Len(modules[m].devicePorts)
    PROVE  modules' \in Seq(Module) /\ SizesKept
BY ModuleReplaced DEF SizesKept

LEMMA ReadRouteKeeps ==
    ASSUME IInv, NEW r \in Routes, ReadRoute(r) PROVE IInv'
<1> DEFINE m == at.module
           new == Append(modules[m].routes, r)
           u == [modules[m] EXCEPT !.routes = new]
<1>1. Enter("route", 0) /\ modules' = [modules EXCEPT ![m] = u] /\ UNCHANGED <<at, includes>>
    BY DEF ReadRoute
<1>2. m \in 1..Len(modules) /\ modules[m] \in Module /\ modules \in Seq(Module)
    BY <1>1, PartKeeps
<1>3. new \in Seq(Routes)
    BY <1>2, ModuleParts, AppendIs
<1>4. u \in Module /\ u.mixPorts = modules[m].mixPorts /\ u.devicePorts = modules[m].devicePorts
    BY <1>2, <1>3, ModuleParts
<1> HIDE DEF u
<1>5. modules' \in Seq(Module) /\ SizesKept
    BY <1>1, <1>2, <1>4, SizesOfReplaced
<1> QED BY <1>1, <1>5, PartClosed

LEMMA ReadProfileKeeps ==
    ASSUME IInv, NEW usable \in BOOLEAN, ReadProfile(usable) PROVE IInv'
<1> DEFINE m == at.module
           mixes == modules[m].mixPorts
           devices == modules[m].devicePorts
<1>1. Enter("profile", 0) /\ UNCHANGED <<at, includes>>
    BY DEF ReadProfile
<1>2. /\ m \in 1..Len(modules) /\ modules[m] \in Module /\ modules \in Seq(Module)
      /\ status = "reading" /\ AtInv
    BY <1>1, PartKeeps, Reading
<1>3. mixes \in Seq([port : MixPorts, profiles : Nat]) /\ devices \in Seq([port : DevicePorts, profiles : Nat])
    BY <1>2, ModuleParts
<1>4. CASE usable /\ at.mix # 0
  <2> DEFINE e == [mixes[at.mix] EXCEPT !.profiles = @ + 1]
             new == [mixes EXCEPT ![at.mix] = e]
             u == [modules[m] EXCEPT !.mixPorts = new]
  <2>1. modules' = [modules EXCEPT ![m] = u]
    BY <1>4 DEF ReadProfile
  <2>2. at.mix \in 1..Len(mixes)
    BY <1>2, <1>4 DEF AtInv
  <2>3. e \in [port : MixPorts, profiles : Nat]
    <3>1. mixes[at.mix] \in [port : MixPorts, profiles : Nat]
        BY <1>3, <2>2, ElementOfSeq
    <3> HIDE DEF mixes
    <3> QED BY <3>1
  <2> HIDE DEF e
  <2>4. new \in Seq([port : MixPorts, profiles : Nat]) /\ Len(new) = Len(mixes)
    BY <1>3, <2>2, <2>3, ExceptSeq
  <2> HIDE DEF new
  <2>5. u \in Module /\ u.mixPorts = new /\ u.devicePorts = devices
    BY <1>2, <2>4, ModuleParts
  <2> HIDE DEF u
  <2>6. modules' \in Seq(Module) /\ SizesKept
    BY <1>2, <2>1, <2>4, <2>5, SizesOfReplaced
  <2> QED BY <1>1, <2>6, PartClosed
<1>5. CASE usable /\ at.mix = 0 /\ at.device # 0
  <2> DEFINE e == [devices[at.device] EXCEPT !.profiles = @ + 1]
             new == [devices EXCEPT ![at.device] = e]
             u == [modules[m] EXCEPT !.devicePorts = new]
  <2>1. modules' = [modules EXCEPT ![m] = u]
    BY <1>5 DEF ReadProfile
  <2>2. at.device \in 1..Len(devices)
    BY <1>2, <1>5 DEF AtInv
  <2>3. e \in [port : DevicePorts, profiles : Nat]
    <3>1. devices[at.device] \in [port : DevicePorts, profiles : Nat]
        BY <1>3, <2>2, ElementOfSeq
    <3> HIDE DEF devices
    <3> QED BY <3>1
  <2> HIDE DEF e
  <2>4. new \in Seq([port : DevicePorts, profiles : Nat]) /\ Len(new) = Len(devices)
    BY <1>3, <2>2, <2>3, ExceptSeq
  <2> HIDE DEF new
  <2>5. u \in Module /\ u.mixPorts = mixes /\ u.devicePorts = new
    BY <1>2, <2>4, ModuleParts
  <2> HIDE DEF u
  <2>6. modules' \in Seq(Module) /\ SizesKept
    BY <1>2, <2>1, <2>4, <2>5, SizesOfReplaced
  <2> QED BY <1>1, <2>6, PartClosed
<1>6. CASE ~(usable /\ at.mix # 0) /\ ~(usable /\ at.mix = 0 /\ at.device # 0)
  <2>1. modules' = modules
    BY <1>6 DEF ReadProfile
  <2> QED BY <1>1, <1>2, <2>1, PartClosed DEF SizesKept
<1> QED BY <1>4, <1>5, <1>6

-----------------------------------------------------------------------------
(* Elements that are not read, text, and elements that end.  *)

LEMMA IgnoreKeeps ==
    ASSUME IInv, NEW tag \in Tags, IgnoreElement(tag) PROVE IInv'
<1>1. /\ MayOpen(tag) /\ Opens(tag, 0) /\ astray' = (astray \/ tag = Tag(Last(path)))
      /\ UNCHANGED <<status, include, path, at, modules, includes>>
      /\ NoPlace(Last(path), tag)
    BY DEF IgnoreElement, confVars, Found, NoPlace
<1> DEFINE e == [tag |-> tag, made |-> 0]
<1>2. /\ open' = Append(open, e) /\ e \in OpenElements /\ open' \in Seq(OpenElements)
      /\ rooted' \in BOOLEAN /\ elements' \in Nat /\ status = "reading" /\ path # <<>>
    BY <1>1, OpensKeeps
<1>3. e.tag = tag /\ e.made = 0
    OBVIOUS
<1> HIDE DEF e
<1>4. /\ PathInv /\ Embedded(path, open) /\ AtInv /\ (~astray => Straight(path, open))
      /\ path \in Seq(Nodes) /\ open \in Seq(OpenElements)
    BY <1>2, Reading
<1>5. Embedded(path', open')
    BY <1>1, <1>2, <1>4, FollowsIgnored
<1>6. ~astray' => Straight(path', open')
    BY <1>1, <1>2, <1>3, <1>4, StraightIgnored
<1>7. PathInv' /\ AtInv'
    BY <1>1, <1>4 DEF PathInv, AtInv, InPath
<1>8. TypeOK'
    BY <1>1, <1>2 DEF IInv, TypeOK, OpenElements
<1> QED BY <1>1, <1>2, <1>5, <1>6, <1>7, <1>8
        DEF IInv, Live, ReadInv, FirstFileIsSafe, CrashIsAstray

LEMMA ReadTextKeeps ==
    ASSUME IInv, NEW t \in Texts, ReadText(t) PROVE IInv'
<1> DEFINE m == at.module
           attached == Append(modules[m].attached, t)
           default == Append(modules[m].default, t)
<1>1. /\ status = "reading" /\ path # <<>> /\ elements' = elements + 1
      /\ Last(path) \in {"item", "defaultOutputDevice"}
      /\ \/ modules' = [modules EXCEPT ![m] = [modules[m] EXCEPT !.attached = attached]]
         \/ modules' = [modules EXCEPT ![m] = [modules[m] EXCEPT !.default = default]]
      /\ UNCHANGED <<status, include, path, at, includes, open, rooted, astray>>
    BY DEF ReadText
<1>2. /\ PathInv /\ Embedded(path, open) /\ AtInv /\ (~astray => Straight(path, open))
      /\ modules \in Seq(Module) /\ path \in Seq(Nodes) /\ elements \in Nat
    BY <1>1, Reading DEF IInv, TypeOK
<1>3. m \in 1..Len(modules) /\ modules[m] \in Module
  <2> HIDE DEF attached, default
  <2>1. Last(path) = path[Len(path)] /\ Len(path) \in 1..Len(path)
    <3>1. Last(path) = path[Len(path)] /\ Len(path) \in Nat \ {0}
        BY <1>1, <1>2, FrontIs
    <3> QED BY <3>1
  <2>2. Level[path[Len(path)]] >= 4
    BY <1>1, <2>1, LevelTable
  <2>3. m # 0
    BY <1>2, <2>1, <2>2 DEF AtInv
  <2> QED BY <1>1, <1>2, <2>3, ModuleCurrent, ElementOfSeq
<1>4. attached \in Seq(Texts) /\ default \in Seq(Texts)
  <2>1. modules[m].attached \in Seq(Texts) /\ modules[m].default \in Seq(Texts)
    BY <1>3, ModuleParts
  <2> QED BY <2>1, AppendIs
<1> HIDE DEF attached, default
<1>5. PICK u \in Module : /\ modules' = [modules EXCEPT ![m] = u]
                         /\ u.mixPorts = modules[m].mixPorts /\ u.devicePorts = modules[m].devicePorts
  <2> DEFINE a == [modules[m] EXCEPT !.attached = attached]
             d == [modules[m] EXCEPT !.default = default]
  <2>1. /\ a \in Module /\ a.mixPorts = modules[m].mixPorts /\ a.devicePorts = modules[m].devicePorts
        /\ d \in Module /\ d.mixPorts = modules[m].mixPorts /\ d.devicePorts = modules[m].devicePorts
    BY <1>3, <1>4, ModuleParts
  <2>2. modules' = [modules EXCEPT ![m] = a] \/ modules' = [modules EXCEPT ![m] = d]
    BY <1>1
  <2> HIDE DEF a, d
  <2> QED BY <2>1, <2>2
<1>6. modules' \in Seq(Module) /\ SizesKept
    BY <1>2, <1>3, <1>5, SizesOfReplaced
<1>7. PathInv'
    BY <1>1, <1>2 DEF PathInv
<1>8. AtInv'
  <2>1. \A n : InPath(n)' <=> InPath(n)
    BY <1>1 DEF InPath
  <2>2. (\E i \in 1..Len(path') : Level[path'[i]] >= 4) => at.module # 0
    BY <1>1, <1>2 DEF AtInv
  <2> QED BY <1>1, <1>6, <2>1, <2>2, SameCurrent
<1>9. TypeOK'
  <2>1. Len(modules') = Len(modules)
    BY <1>6 DEF SizesKept
  <2>2. /\ elements' \in Nat
        /\ UNCHANGED <<status, include, path, at, includes, open, rooted, astray>>
    BY <1>1, <1>2
  <2> QED BY <1>6, <2>1, <2>2 DEF IInv, TypeOK
<1> QED BY <1>1, <1>2, <1>7, <1>8, <1>9
        DEF IInv, Live, ReadInv, FirstFileIsSafe, CrashIsAstray

(* The path without its last element.                                      *)
LEMMA PopPath ==
    ASSUME IInv, status = "reading", path # <<>>, path' = Front(path), include' = include,
           Tag(Last(path)) \in Tags
    PROVE  /\ PathInv' /\ path' \in Seq(Nodes) /\ Last(path) \in Nodes
           /\ \A m : InPath(m)' <=> InPath(m) /\ m # Last(path)
           /\ InPath(Last(path))
           /\ \A i \in 1..Len(path') : /\ i \in 1..Len(path) /\ path'[i] = path[i]
                                       /\ Level[path'[i]] < Level[Last(path)]
<1> DEFINE k == Len(path)
<1>1. path \in Seq(Nodes) /\ PathInv /\ include \in Nat
    BY Reading
<1>2. /\ k \in Nat \ {0} /\ Len(path') = k - 1 /\ Last(path) = path[k] /\ path' \in Seq(Nodes)
      /\ \A i \in 1..(k - 1) : path'[i] = path[i]
      /\ Last(path) \in Nodes
    BY <1>1, FrontIs
<1>3. \A i \in 1..k : Level[path[i]] = Level[Root(include)] + i - 1
    BY <1>1 DEF PathInv
<1>4. Level[Root(include)] \in 0..6 /\ k \in 1..k
    BY <1>2, Levels
<1> HIDE DEF k
<1>5. \A i \in 1..(k - 1) : /\ i \in 1..k /\ path'[i] = path[i] /\ Level[path'[i]] < Level[Last(path)]
  <2> SUFFICES ASSUME NEW i \in 1..(k - 1)
               PROVE  /\ i \in 1..k /\ path'[i] = path[i] /\ Level[path'[i]] < Level[Last(path)]
    OBVIOUS
  <2>1. i \in 1..k /\ path'[i] = path[i] /\ i < k
    BY <1>2
  <2>2. Level[path[i]] = Level[Root(include)] + i - 1 /\ Level[path[k]] = Level[Root(include)] + k - 1
    BY <1>3, <1>4, <2>1
  <2> QED BY <1>2, <1>4, <2>1, <2>2
<1>6. \A m : InPath(m)' <=> InPath(m) /\ m # Last(path)
  <2> TAKE m
  <2>1. InPath(m)' <=> \E i \in 1..(k - 1) : path'[i] = m
    BY <1>2 DEF InPath
  <2>2. InPath(m) <=> \E i \in 1..k : path[i] = m
    BY DEF InPath, k
  <2>3. \A i \in 1..k : i \in 1..(k - 1) \/ i = k
    BY <1>2
  <2>4. \A i \in 1..(k - 1) : path'[i] # Last(path)
    <3> SUFFICES ASSUME NEW i \in 1..(k - 1), path'[i] = Last(path) PROVE FALSE
        OBVIOUS
    <3>1. Level[path'[i]] < Level[Last(path)] /\ Level[Last(path)] \in 0..6
        BY <1>2, <1>5, Levels
    <3> QED BY <3>1
  <2> QED BY <1>2, <1>5, <2>1, <2>2, <2>3, <2>4
<1>7. InPath(Last(path))
    BY <1>2, <1>4 DEF InPath, k
<1>8. PathInv'
  <2>1. \A i \in 1..Len(path') : Level[path'[i]] = Level[Root(include')] + i - 1
    BY <1>2, <1>3, <1>5
  <2>2. path' # <<>> => path'[1] = Root(include')
    <3> SUFFICES ASSUME path' # <<>> PROVE path'[1] = Root(include')
        OBVIOUS
    <3>1. Len(path') \in Nat \ {0}
        BY <1>2, EmptySeq
    <3>2. 1 \in 1..(k - 1)
        BY <1>2, <3>1
    <3> QED BY <1>1, <1>5, <3>2 DEF PathInv
  <2>3. include' = 0 => path' # <<>>
    <3> SUFFICES ASSUME include = 0, path' = <<>> PROVE FALSE
        OBVIOUS
    <3>1. Len(path') = 0
        BY EmptySeq
    <3>2. k = 1
        BY <1>2, <3>1
    <3>3. Last(path) = "root"
        BY <1>1, <1>2, <3>2 DEF PathInv, Root
    <3> QED BY <3>3, Tagged
  <2> QED BY <2>1, <2>2, <2>3 DEF PathInv
<1> QED BY <1>2, <1>5, <1>6, <1>7, <1>8 DEF k

LEMMA EndElementKeeps ==
    ASSUME IInv, EndElement PROVE IInv'
<1> DEFINE last == Last(path)
           tag == Last(open).tag
<1>1. /\ status = "reading" /\ open # <<>> /\ path # <<>> /\ open' = Front(open)
      /\ UNCHANGED <<status, include, modules, includes, rooted, astray, elements>>
      /\ Tag(last) = tag => path' = Front(path) /\ at' = Left(at, tag)
      /\ Tag(last) # tag => UNCHANGED <<path, at>>
    BY DEF EndElement, confVars
<1>2. /\ PathInv /\ Embedded(path, open) /\ AtInv /\ (~astray => Straight(path, open))
      /\ path \in Seq(Nodes) /\ open \in Seq(OpenElements) /\ modules \in Seq(Module)
      /\ Len(modules) \in Nat /\ at \in Positions
    BY <1>1, Reading DEF Positions
<1>3. open' \in Seq(OpenElements) /\ Last(open) \in OpenElements /\ tag \in Tags
  <2>1. open' \in Seq(OpenElements) /\ Last(open) \in OpenElements
    BY <1>1, <1>2, FrontIs
  <2> QED BY <2>1 DEF OpenElements
<1>4. CASE Tag(last) # tag
  <2>1. Embedded(path', open') /\ (~astray' => Straight(path', open'))
    BY <1>1, <1>2, <1>4, FollowsEnded, StraightEnded
  <2>2. PathInv' /\ AtInv'
    BY <1>1, <1>2, <1>4 DEF PathInv, AtInv, InPath
  <2>3. TypeOK'
    BY <1>1, <1>3, <1>4 DEF IInv, TypeOK, OpenElements
  <2> QED BY <1>1, <2>1, <2>2, <2>3 DEF IInv, Live, ReadInv, FirstFileIsSafe, CrashIsAstray
<1>5. CASE Tag(last) = tag
  <2>1. path' = Front(path) /\ at' = Left(at, tag)
    BY <1>1, <1>5
  <2>2. Embedded(path', open') /\ (~astray' => Straight(path', open'))
    BY <1>1, <1>2, <1>5, <2>1, FollowsEnded, StraightEnded
  <2>3. /\ PathInv' /\ path' \in Seq(Nodes) /\ last \in Nodes
        /\ \A m : InPath(m)' <=> InPath(m) /\ m # last
        /\ InPath(last)
        /\ \A i \in 1..Len(path') : /\ i \in 1..Len(path) /\ path'[i] = path[i]
                                    /\ Level[path'[i]] < Level[last]
    BY <1>1, <1>3, <1>5, <2>1, PopPath
  <2> HIDE DEF last, tag
  <2>4. /\ tag = "module" <=> last = "module"
        /\ tag = "mixPort" <=> last = "mixPort"
        /\ tag = "devicePort" <=> last = "devicePort"
    BY <1>5, <2>3, Tagged
  <2>5. (\E i \in 1..Len(path') : Level[path'[i]] >= 4) => at.module # 0 /\ last # "module"
    <3> SUFFICES ASSUME NEW i \in 1..Len(path'), Level[path'[i]] >= 4
                 PROVE  at.module # 0 /\ last # "module"
        OBVIOUS
    <3>1. i \in 1..Len(path) /\ Level[path[i]] >= 4 /\ Level[path[i]] < Level[last]
        BY <2>3
    <3>2. Level[last] \in 0..6 /\ path[i] \in Nodes
        BY <1>2, <2>3, <3>1, Levels, ElementOfSeq
    <3>3. Level[path[i]] \in 0..6
        BY <3>2, Levels
    <3>4. last # "module"
        BY <3>1, <3>2, <3>3, LevelTable
    <3> QED BY <1>2, <3>1, <3>4 DEF AtInv
  <2>6. last = "module" => ~InPath("mixPort") /\ ~InPath("devicePort")
    <3> SUFFICES ASSUME last = "module", NEW n \in {"mixPort", "devicePort"}, InPath(n) PROVE FALSE
        OBVIOUS
    <3>1. InPath(n)'
        BY <2>3
    <3>2. PICK i \in 1..Len(path') : path'[i] = n
        BY <3>1 DEF InPath
    <3>3. Level[n] < Level["module"]
        BY <2>3, <3>2
    <3> QED BY <3>3, LevelTable
  <2>7. /\ at' \in Positions
        /\ at'.module = IF last = "module" THEN 0 ELSE at.module
        /\ at'.mix = IF last = "mixPort" THEN 0 ELSE at.mix
        /\ at'.device = IF last = "devicePort" THEN 0 ELSE at.device
    BY <1>2, <2>1, <2>4 DEF Left, Positions
  <2>8. AtInv'
    <3>1. (InPath("module") /\ last # "module" <=> at'.module # 0)
          /\ (InPath("mixPort") /\ last # "mixPort" <=> at'.mix # 0)
          /\ (at'.device # 0 => InPath("devicePort") /\ last # "devicePort")
        BY <1>2, <2>7 DEF AtInv
    <3>2. /\ InPath("module")' <=> at'.module # 0
          /\ InPath("mixPort")' <=> at'.mix # 0
          /\ at'.device # 0 => InPath("devicePort")'
        BY <2>3, <3>1
    <3>3. \A i \in 1..Len(path') : Level[path'[i]] >= 4 => at'.module # 0
        BY <2>5, <2>7
    <3>4. at'.mix # 0 => at'.mix = at.mix /\ at'.module = at.module
        BY <1>2, <2>6, <2>7 DEF AtInv
    <3>5. at'.device # 0 => at'.device = at.device /\ at'.module = at.module
        BY <1>2, <2>6, <2>7 DEF AtInv
    <3>6. at'.module \in 0..Len(modules')
        BY <1>1, <1>2, <2>7 DEF AtInv
    <3>7. /\ at'.mix # 0 => at'.mix \in 1..Len(modules'[at'.module].mixPorts)
          /\ at'.device # 0 => at'.device \in 1..Len(modules'[at'.module].devicePorts)
        BY <1>1, <1>2, <3>4, <3>5 DEF AtInv
    <3> QED BY <3>2, <3>3, <3>6, <3>7 DEF AtInv
  <2>9. TypeOK'
    BY <1>1, <1>3, <2>3, <2>7 DEF IInv, TypeOK, OpenElements, Positions
  <2> QED BY <1>1, <2>2, <2>3, <2>8, <2>9 DEF IInv, Live, ReadInv, FirstFileIsSafe, CrashIsAstray
<1> QED BY <1>4, <1>5

-----------------------------------------------------------------------------
(* Files that end, well or not.                                            *)

(* Reading stops for good.                                                 *)
LEMMA StopKeeps ==
    ASSUME IInv, status = "reading", status' \in {"failed", "aborted", "crashed"},
           path' \in Seq(Nodes), UNCHANGED <<include, at, confVars, docVars>>,
           status' \in {"aborted", "crashed"} => include # 0, status' = "crashed" => astray
    PROVE  IInv'
<1>1. TypeOK'
    BY DEF IInv, TypeOK, confVars, docVars
<1> QED BY <1>1 DEF IInv, Live, FirstFileIsSafe, CrashIsAstray, docVars

LEMMA GiveUpIs == GiveUp \in {"failed", "aborted"} /\ (GiveUp = "aborted" => include # 0)
BY DEF GiveUp

LEMMA RejectKeeps ==
    ASSUME IInv, NEW n \in Nodes, Reject(n) PROVE IInv'
<1>1. /\ status = "reading" /\ path # <<>> /\ path' = <<Last(path)>> /\ status' = GiveUp
      /\ UNCHANGED <<include, at, confVars, docVars>>
    BY DEF Reject, MayOpen
<1>2. Last(path) \in Nodes
    BY <1>1, Reading, FrontIs
<1>3. path' \in Seq(Nodes)
    BY <1>1, <1>2
<1> QED BY <1>1, <1>3, GiveUpIs, StopKeeps

LEMMA MalformedKeeps ==
    ASSUME IInv, Malformed PROVE IInv'
BY GiveUpIs, StopKeeps, Reading DEF Malformed

(* The stack runs empty only in an included file that went astray.         *)
LEMMA NullCurrentKeeps ==
    ASSUME IInv, NullCurrent PROVE IInv'
<1>1. /\ status = "reading" /\ path = <<>> /\ status' = "crashed"
      /\ UNCHANGED <<include, path, at, confVars, docVars>>
    BY DEF NullCurrent
<1>2. include # 0
    BY <1>1, Reading DEF PathInv
<1>3. astray
  <2> SUFFICES ASSUME ~astray PROVE FALSE
    BY DEF IInv, TypeOK
  <2>1. PICK d : Depths(d, path, open)
    BY <1>1, Reading DEF Straight
  <2>2. Len(path) = 0 /\ open \in Seq(OpenElements)
    BY <1>1, Reading, EmptySeq
  <2>3. 0 \in 0..Len(open)
    BY <2>2, LenProperties
  <2>4. d[0] \in 1..0
    BY <2>1, <2>2, <2>3 DEF Depths
  <2> QED BY <2>4
<1> QED BY <1>1, <1>2, <1>3, Reading, StopKeeps

(* With no element open nothing is current, and the path is at its root.   *)
LEMMA NothingLeft ==
    ASSUME IInv, Live, open = <<>>
    PROVE  at = NoPort /\ Len(path) <= 1 /\ Len(path) \in Nat
<1>1. /\ PathInv /\ Embedded(path, open) /\ AtInv /\ path \in Seq(Nodes) /\ at \in Positions
    BY DEF IInv, ReadInv, TypeOK, Positions
<1>2. Len(path) \in Nat /\ Len(open) = 0
    BY <1>1, LenProperties, EmptySeq
<1>3. Len(path) <= 1
  <2> SUFFICES ASSUME Len(path) > 1 PROVE FALSE
    BY <1>2
  <2>1. PICK f : Follows(f, path, open)
    BY <1>1 DEF Embedded
  <2>2. 2 \in 2..Len(path)
    BY <1>2
  <2>3. f[2] \in 1..0
    BY <1>2, <2>1, <2>2 DEF Follows
  <2> QED BY <2>3
<1>4. \A i \in 1..Len(path) : path[i] \in {"root", "modules"}
  <2> SUFFICES ASSUME NEW i \in 1..Len(path) PROVE path[i] \in {"root", "modules"}
    OBVIOUS
  <2>1. i = 1 /\ path # <<>>
    BY <1>2, <1>3, EmptySeq
  <2> QED BY <1>1, <2>1 DEF PathInv, Root
<1>5. ~InPath("module") /\ ~InPath("mixPort") /\ ~InPath("devicePort")
    BY <1>4 DEF InPath
<1>6. at.module = 0 /\ at.mix = 0 /\ at.device = 0
    BY <1>1, <1>5 DEF AtInv
<1> QED BY <1>1, <1>2, <1>3, <1>6 DEF NoPort, Positions

LEMMA EndOfFileKeeps ==
    ASSUME IInv, EndOfFile PROVE IInv'
<1>1. /\ status = "reading" /\ open = <<>>
      /\ UNCHANGED <<include, path, at, modules, includes, open, rooted, astray, elements>>
      /\ status' \in {"aborted", "between"} /\ (status' = "aborted" => include # 0)
    BY DEF EndOfFile, confVars, docVars
<1>2. TypeOK'
    BY <1>1 DEF IInv, TypeOK
<1>3. ReadInv'
    BY <1>1 DEF IInv, Live, ReadInv, PathInv, AtInv, InPath
<1> QED BY <1>1, <1>2, <1>3 DEF IInv, FirstFileIsSafe, CrashIsAstray

LEMMA FinishKeeps ==
    ASSUME IInv, Finish PROVE IInv'
<1>1. /\ status = "between" /\ status' = "done"
      /\ UNCHANGED <<include, path, at, modules, includes, open, rooted, astray, elements>>
    BY DEF Finish, confVars, docVars
<1>2. TypeOK'
    BY <1>1 DEF IInv, TypeOK
<1>3. ReadInv'
    BY <1>1 DEF IInv, Live, ReadInv, PathInv, AtInv, InPath
<1> QED BY <1>1, <1>2, <1>3 DEF IInv, FirstFileIsSafe, CrashIsAstray

(* The path of a file that was just opened is its root.                    *)
LEMMA RootOnly ==
    ASSUME NEW r \in Nodes
    PROVE  /\ <<r>> \in Seq(Nodes) /\ Len(<<r>>) = 1 /\ <<r>>[1] = r
           /\ Embedded(<<r>>, <<>>) /\ Straight(<<r>>, <<>>)
<1>1. <<r>> \in Seq(Nodes) /\ Len(<<r>>) = 1 /\ <<r>>[1] = r
    OBVIOUS
<1>2. Len(<<>>) = 0
    BY EmptySeq
<1> DEFINE p == <<r>>
           o == <<>>
           f == [i \in 2..1 |-> 0]
           d == [i \in 0..0 |-> 1]
<1>3. Follows(f, p, o)
  <2>1. 2..Len(p) = {} /\ 2..1 = {}
    BY <1>1
  <2>2. f \in [2..Len(p) -> 1..Len(o)]
    BY <2>1
  <2> HIDE DEF p, o, f
  <2> QED BY <2>1, <2>2 DEF Follows
<1>4. Depths(d, p, o)
  <2>1. Len(p) = 1 /\ Len(o) = 0 /\ 1..0 = {} /\ 0..0 = {0}
    BY <1>1, <1>2
  <2>2. d \in [0..0 -> 1..1] /\ d[0] = 1
    OBVIOUS
  <2> HIDE DEF p, o, d
  <2> QED BY <2>1, <2>2 DEF Depths
<1> QED BY <1>1, <1>3, <1>4 DEF Embedded, Straight

LEMMA OpenIncludeKeeps ==
    ASSUME IInv, OpenInclude PROVE IInv'
<1>1. /\ status = "between" /\ include < Len(includes) /\ include' = include + 1 /\ open = <<>>
      /\ UNCHANGED <<at, modules, includes, open, astray, elements>>
    BY DEF OpenInclude, confVars, docVars, IInv
<1>2. /\ at = NoPort /\ Len(path) <= 1 /\ Len(path) \in Nat /\ path \in Seq(Nodes)
      /\ include \in Nat /\ includes \in Seq(0..Len(modules)) /\ Len(includes) \in Nat
      /\ Len(modules) \in Nat
    BY <1>1, NothingLeft, LenProperties DEF IInv, Live, TypeOK
<1>3. include' \in Nat \ {0} /\ include' <= Len(includes) /\ Root(include') = "modules"
    BY <1>1, <1>2 DEF Root
<1>4. CASE /\ status' = "reading" /\ rooted' = FALSE
           /\ path' = Append(IF path = <<>> THEN <<>> ELSE Front(path), Root(include'))
  <2>1. path' = <<"modules">>
    <3>1. ASSUME path # <<>> PROVE Front(path) = <<>>
        <4>1. Len(path) \in Nat \ {0} /\ Front(path) \in Seq(Nodes) /\ Len(Front(path)) = Len(path) - 1
            BY <1>2, <3>1, FrontIs
        <4>2. Len(Front(path)) = 0
            BY <1>2, <4>1
        <4> QED BY <4>1, <4>2, EmptySeq
    <3>2. path' = Append(<<>>, "modules")
        BY <1>3, <1>4, <3>1
    <3> QED BY <3>2
  <2>2. "modules" \in Nodes
    BY DEF Nodes
  <2>3. /\ path' \in Seq(Nodes) /\ Len(path') = 1 /\ path'[1] = "modules" /\ path' # <<>>
        /\ Embedded(path', open') /\ Straight(path', open')
    BY <1>1, <2>1, <2>2, RootOnly
  <2> HIDE <2>1
  <2>4. \A i \in 1..Len(path') : i = 1 /\ path'[i] = "modules"
    BY <2>3
  <2>5. PathInv'
    BY <1>3, <2>3, <2>4, LevelTable DEF PathInv
  <2>6. /\ ~InPath("module")' /\ ~InPath("mixPort")' /\ ~InPath("devicePort")'
    BY <2>4 DEF InPath
  <2>7. at'.module = 0 /\ at'.mix = 0 /\ at'.device = 0
    BY <1>1, <1>2 DEF NoPort
  <2>8. AtInv'
    BY <1>1, <1>2, <2>4, <2>6, <2>7, LevelTable DEF AtInv
  <2>9. TypeOK'
    BY <1>1, <1>3, <1>4, <2>3 DEF IInv, TypeOK
  <2> QED BY <1>4, <2>3, <2>5, <2>8, <2>9 DEF IInv, ReadInv, FirstFileIsSafe, CrashIsAstray
<1>5. CASE /\ status' = IF at.module # 0 THEN "aborted" ELSE "failed"
           /\ UNCHANGED <<path, rooted>>
  <2>1. status' = "failed"
    BY <1>2, <1>5 DEF NoPort
  <2>2. TypeOK'
    BY <1>1, <1>3, <1>5, <2>1 DEF IInv, TypeOK
  <2> QED BY <2>1, <2>2 DEF IInv, Live, FirstFileIsSafe, CrashIsAstray
<1> QED BY <1>4, <1>5 DEF OpenInclude, docVars

-----------------------------------------------------------------------------
LEMMA IInvInit == Init => IInv
<1> SUFFICES ASSUME Init PROVE IInv
    OBVIOUS
<1>1. /\ status = "reading" /\ include = 0 /\ path = <<"root">> /\ at = NoPort
      /\ modules = <<>> /\ includes = <<>> /\ open = <<>> /\ rooted = FALSE /\ astray = FALSE
      /\ elements = 0
    BY DEF Init
<1>2. "root" \in Nodes
    BY DEF Nodes
<1>3. /\ path \in Seq(Nodes) /\ Len(path) = 1 /\ path[1] = "root" /\ path # <<>>
      /\ Embedded(path, open) /\ Straight(path, open)
    BY <1>1, <1>2, RootOnly
<1>4. /\ modules \in Seq(Module) /\ Len(modules) = 0 /\ Len(includes) = 0
      /\ includes \in Seq(0..Len(modules)) /\ open \in Seq([tag : Tags, made : Nat])
    BY <1>1, EmptySeq
<1>5. \A i \in 1..Len(path) : i = 1 /\ path[i] = "root"
    BY <1>3
<1>6. TypeOK
  <2>1. at \in Positions
    BY <1>1 DEF NoPort, Positions
  <2>2. /\ status \in {"reading", "between", "done", "failed", "aborted", "crashed"}
        /\ include \in Nat /\ rooted \in BOOLEAN /\ astray \in BOOLEAN /\ elements \in Nat
    BY <1>1
  <2>3. include <= Len(includes)
    BY <1>1, <1>4
  <2> QED BY <1>3, <1>4, <2>1, <2>2, <2>3 DEF TypeOK, Positions
<1>7. PathInv
    BY <1>1, <1>3, <1>5, LevelTable DEF PathInv, Root
<1>8. ~InPath("module") /\ ~InPath("mixPort") /\ ~InPath("devicePort")
    BY <1>5 DEF InPath
<1>9. at.module = 0 /\ at.mix = 0 /\ at.device = 0
    BY <1>1 DEF NoPort
<1>10. AtInv
    BY <1>4, <1>5, <1>8, <1>9, LevelTable DEF AtInv
<1> QED BY <1>1, <1>3, <1>6, <1>7, <1>10 DEF IInv, ReadInv, FirstFileIsSafe, CrashIsAstray

LEMMA IInvStep ==
    ASSUME IInv, [Next]_vars PROVE IInv'
<1>1. CASE ReadElement
  <2>1. ASSUME NEW tag \in Tags, IgnoreElement(tag) PROVE IInv'
    BY <2>1, IgnoreKeeps
  <2>2. ASSUME NEW n \in Nodes, Section(n) \/ ReadInclude(n) PROVE IInv'
    BY <2>2, SectionKeeps, ReadIncludeKeeps
  <2>3. CASE ReadModule
    BY <2>3, ReadModuleKeeps
  <2>4. ASSUME NEW p \in MixPorts, ReadMixPort(p) PROVE IInv'
    BY <2>4, ReadMixPortKeeps
  <2>5. ASSUME NEW d \in DevicePorts, ReadDevicePort(d) PROVE IInv'
    BY <2>5, ReadDevicePortKeeps
  <2>6. ASSUME NEW usable \in BOOLEAN, ReadProfile(usable) PROVE IInv'
    BY <2>6, ReadProfileKeeps
  <2>7. ASSUME NEW r \in Routes, ReadRoute(r) PROVE IInv'
    BY <2>7, ReadRouteKeeps
  <2> QED BY <1>1, <2>1, <2>2, <2>3, <2>4, <2>5, <2>6, <2>7 DEF ReadElement
<1>2. ASSUME NEW n \in Nodes, Reject(n) PROVE IInv'
    BY <1>2, RejectKeeps
<1>3. CASE EndElement
    BY <1>3, EndElementKeeps
<1>4. ASSUME NEW t \in Texts, ReadText(t) PROVE IInv'
    BY <1>4, ReadTextKeeps
<1>5. CASE NullCurrent \/ Malformed \/ EndOfFile
    BY <1>5, NullCurrentKeeps, MalformedKeeps, EndOfFileKeeps
<1>6. CASE OpenInclude \/ Finish
    BY <1>6, OpenIncludeKeeps, FinishKeeps
<1>7. CASE UNCHANGED vars
  <2>1. UNCHANGED <<status, include, path, at, modules, includes, open, rooted, astray, elements>>
    BY <1>7 DEF vars
  <2>2. TypeOK'
    BY <2>1 DEF IInv, TypeOK
  <2>3. Live => PathInv' /\ AtInv' /\ Embedded(path', open') /\ (~astray' => Straight(path', open'))
    BY <2>1 DEF IInv, ReadInv, PathInv, AtInv, InPath
  <2> QED BY <2>1, <2>2, <2>3 DEF IInv, Live, ReadInv, FirstFileIsSafe, CrashIsAstray
<1> QED BY <1>1, <1>2, <1>3, <1>4, <1>5, <1>6, <1>7 DEF Next

-----------------------------------------------------------------------------
(* The position of the parser is where the document's elements lead.       *)

LEMMA FirstOf ==
    ASSUME NEW T, T \subseteq Nat, T # {}
    PROVE  \E x \in T : \A y \in T : x <= y
<1>1. PICK x \in T : \A y \in T : ~(<<y, x>> \in OpToRel(<, Nat))
    BY WFMin, NatLessThanWellFounded
<1>2. \A y \in T : ~(y < x)
    BY <1>1 DEF OpToRel
<1> QED BY <1>2

(* Walk() is the only function that goes on as it does.                    *)
LEMMA WalkIs ==
    ASSUME NEW root, Len(open) \in Nat, NEW w, w = [i \in 0..Len(open) |-> w[i]], w[0] = <<root>>,
           \A i \in 1..Len(open) : w[i] = Extended(w[i - 1], open[i].tag)
    PROVE  Walk(root) = w[Len(open)]
<1> DEFINE n == Len(open)
           F(f) == [i \in 0..n |-> IF i = 0 THEN <<root>> ELSE Extended(f[i - 1], open[i].tag)]
           way == CHOOSE f : f = F(f)
<1>1. Walk(root) = way[n]
    BY DEF Walk
<1>2. w = F(w)
  <2>1. \A i \in 0..n : w[i] = IF i = 0 THEN <<root>> ELSE Extended(w[i - 1], open[i].tag)
    OBVIOUS
  <2>2. [i \in 0..n |-> w[i]] = F(w)
    BY <2>1
  <2> QED BY <2>2
<1>3. way = F(way)
    BY <1>2
<1> HIDE DEF way
<1>4. \A i \in 0..n : way[i] = IF i = 0 THEN <<root>> ELSE Extended(way[i - 1], open[i].tag)
    BY <1>3
<1> HIDE DEF F
<1> DEFINE T == {i \in 0..n : way[i] # w[i]}
<1>5. T \subseteq Nat
    OBVIOUS
<1>6. ASSUME T # {} PROVE FALSE
  <2> HIDE DEF T
  <2>1. PICK k \in T : \A i \in T : k <= i
    BY <1>5, <1>6, FirstOf
  <2> USE DEF T
  <2>2. k \in 1..n /\ k - 1 \in 0..n /\ k - 1 \notin T
    BY <1>4, <2>1
  <2>3. way[k - 1] = w[k - 1]
    BY <2>2
  <2> QED BY <1>4, <2>1, <2>2, <2>3
<1>7. n \in 0..n
    OBVIOUS
<1> QED BY <1>1, <1>6, <1>7

(* An element of the table has no two of one name in it.                   *)
LEMMA OneOfName ==
    ASSUME NEW p \in Nodes, NEW m \in Child[p], NEW n \in Child[p], Tag(m) = Tag(n)
    PROVE  m = n
<1>1. CASE p \in {"root", "audioPolicyConfiguration"}
    BY <1>1, ChildTable DEF Tag
<1>2. CASE p = "modules"
    BY <1>2, ChildTable DEF Tag
<1>3. CASE p = "module"
    BY <1>3, ChildTable DEF Tag
<1>4. CASE p \in {"attachedDevices", "mixPorts", "devicePorts"}
    BY <1>4, ChildTable DEF Tag
<1>5. CASE p \in {"mixPort", "devicePort", "routes"}
    BY <1>5, ChildTable DEF Tag
<1>6. CASE p \in {"globalConfiguration", "modules_include", "module_include", "item",
                  "defaultOutputDevice", "profile", "route"}
    BY <1>6, ChildTable
<1> QED BY <1>1, <1>2, <1>3, <1>4, <1>5, <1>6 DEF Nodes

(* The first elements of a path, and one more.                             *)
LEMMA PathStart ==
    ASSUME NEW p \in Seq(Nodes), NEW k \in 1..Len(p)
    PROVE  /\ Last(SubSeq(p, 1, k)) = p[k] /\ p[k] \in Nodes
           /\ k + 1 <= Len(p) => Append(SubSeq(p, 1, k), p[k + 1]) = SubSeq(p, 1, k + 1)
<1>1. Len(p) \in Nat /\ \A i \in 1..Len(p) : p[i] \in Nodes
    BY LenProperties, ElementOfSeq
<1>2. ASSUME NEW j \in 1..Len(p)
      PROVE  /\ SubSeq(p, 1, j) \in Seq(Nodes) /\ Len(SubSeq(p, 1, j)) = j
             /\ \A i \in 1..j : SubSeq(p, 1, j)[i] = p[i]
  <2>1. \A i \in 1..j : p[i] \in Nodes
    BY <1>1
  <2>2. /\ SubSeq(p, 1, j) \in Seq(Nodes)
        /\ Len(SubSeq(p, 1, j)) = IF 1 <= j THEN j - 1 + 1 ELSE 0
        /\ \A i \in 1..(j - 1 + 1) : SubSeq(p, 1, j)[i] = p[1 + i - 1]
    BY <1>1, <2>1, SubSeqProperties
  <2> QED BY <1>1, <2>2
<1> DEFINE s == SubSeq(p, 1, k) t == SubSeq(p, 1, k + 1)
<1>3. s \in Seq(Nodes) /\ Len(s) = k /\ \A i \in 1..k : s[i] = p[i]
    BY <1>2
<1>4. ASSUME k + 1 <= Len(p) PROVE Append(s, p[k + 1]) = t
  <2>1. k + 1 \in 1..Len(p)
    BY <1>1, <1>4
  <2>2. t \in Seq(Nodes) /\ Len(t) = k + 1 /\ \A i \in 1..(k + 1) : t[i] = p[i]
    BY <1>2, <2>1
  <2> HIDE DEF s, t
  <2> DEFINE a == Append(s, p[k + 1])
  <2>3. /\ a \in Seq(Nodes) /\ Len(a) = k + 1 /\ a[k + 1] = p[k + 1]
        /\ \A i \in 1..k : a[i] = s[i]
    BY <1>1, <1>3, <2>1, AppendIs
  <2> HIDE DEF a
  <2>4. \A i \in 1..(k + 1) : a[i] = t[i]
    BY <1>3, <2>2, <2>3
  <2>5. a = t
    BY <2>2, <2>3, <2>4, SeqEqual
  <2> QED BY <2>5 DEF a
<1> HIDE DEF s, t
<1> QED BY <1>1, <1>3, <1>4 DEF Last, s, t

LEMMA StraightWalk ==
    ASSUME path \in Seq(Nodes), path # <<>>, open \in Seq(OpenElements), Straight(path, open)
    PROVE  path = Walk(path[1])
<1>1. PICK d : Depths(d, path, open)
    BY DEF Straight
<1>2. /\ Len(path) \in Nat \ {0} /\ Len(open) \in Nat
      /\ d \in [0..Len(open) -> 1..Len(path)] /\ d[0] = 1 /\ d[Len(open)] = Len(path)
      /\ \A i \in 1..Len(open) : Deeper(path, d, open, i) \/ Ignored(path, d, open, i)
    BY <1>1, LenProperties, FrontIs DEF Depths
<1> DEFINE w == [i \in 0..Len(open) |-> SubSeq(path, 1, d[i])]
<1>3. ASSUME NEW i \in 1..Len(open) PROVE w[i] = Extended(w[i - 1], open[i].tag)
  <2> DEFINE j == d[i - 1] tag == open[i].tag way == SubSeq(path, 1, j)
             below == {n \in Child[Last(way)] : Tag(n) = tag}
  <2>1. i \in 0..Len(open) /\ i - 1 \in 0..Len(open) /\ j \in 1..Len(path) /\ d[i] \in 1..Len(path)
    BY <1>2
  <2>2. w[i] = SubSeq(path, 1, d[i]) /\ w[i - 1] = way
    BY <2>1
  <2>3. Last(way) = path[j] /\ path[j] \in Nodes
    BY <2>1, PathStart
  <2> HIDE DEF way, w
  <2>4. Extended(way, tag) = IF below = {} THEN way ELSE Append(way, CHOOSE n \in below : TRUE)
    BY DEF Extended
  <2>5. CASE Ignored(path, d, open, i)
    <3>1. d[i] = j /\ below = {}
        BY <2>3, <2>5 DEF Ignored, NoPlace
    <3> QED BY <2>2, <2>4, <3>1 DEF way
  <2>6. CASE Deeper(path, d, open, i)
    <3>1. d[i] = j + 1 /\ path[j + 1] \in Child[path[j]] /\ Tag(path[j + 1]) = tag
        BY <2>6 DEF Deeper
    <3>2. below = {path[j + 1]}
        BY <2>3, <3>1, OneOfName
    <3>3. (CHOOSE n \in below : TRUE) = path[j + 1]
        BY <3>2
    <3>4. Extended(way, tag) = Append(way, path[j + 1])
        BY <2>4, <3>2, <3>3
    <3>5. Append(way, path[j + 1]) = SubSeq(path, 1, j + 1)
        BY <2>1, <3>1, PathStart DEF way
    <3> QED BY <2>2, <3>1, <3>4, <3>5
  <2> QED BY <1>2, <2>5, <2>6
<1>4. w[0] = <<path[1]>>
    BY <1>2
<1>5. w = [i \in 0..Len(open) |-> w[i]] /\ w[Len(open)] = SubSeq(path, 1, Len(path))
    BY <1>2
<1> HIDE DEF w
<1>6. Walk(path[1]) = w[Len(open)]
    BY <1>2, <1>3, <1>4, <1>5, WalkIs
<1>7. SubSeq(path, 1, Len(path)) = path
    BY <1>2, SubSeqFull
<1> QED BY <1>5, <1>6, <1>7

-----------------------------------------------------------------------------
(* What is current and the elements that are open.                         *)

Owners == {"module", "mixPort", "devicePort"}
Held(x) == CASE x = "module" -> at.module [] x = "mixPort" -> at.mix [] OTHER -> at.device

(* The only thing made of an open element of tag x is v, or nothing was.   *)
OnlyMade(x, v, o) ==
    /\ \A j \in 1..Len(o) : o[j].tag = x /\ o[j].made # 0 => o[j].made = v
    /\ \A i, j \in 1..Len(o) :
          o[i].tag = x /\ o[j].tag = x /\ o[i].made # 0 /\ o[j].made # 0 => i = j
    /\ v # 0 => \E j \in 1..Len(o) : o[j].tag = x /\ o[j].made = v

OpenInv == status = "reading" /\ ~astray => \A x \in Owners : OnlyMade(x, Held(x), open)

(* An element of which nothing was made, or of another tag.                *)
LEMMA OthersOpen ==
    ASSUME NEW x, NEW v \in Nat, NEW o \in Seq(OpenElements), NEW e \in OpenElements,
           e.made = 0 \/ e.tag # x, OnlyMade(x, v, o)
    PROVE  OnlyMade(x, v, Append(o, e))
<1> DEFINE r == Append(o, e)
<1>1. /\ Len(r) = Len(o) + 1 /\ Len(o) \in Nat /\ r[Len(o) + 1] = e
      /\ \A i \in 1..Len(o) : r[i] = o[i]
    BY AppendIs
<1> HIDE DEF r
<1>2. ASSUME NEW j \in 1..Len(r), r[j].tag = x, r[j].made # 0
      PROVE  j \in 1..Len(o) /\ r[j] = o[j]
    BY <1>1, <1>2
<1>3. v # 0 => \E j \in 1..Len(r) : r[j].tag = x /\ r[j].made = v
  <2> SUFFICES ASSUME v # 0 PROVE \E j \in 1..Len(r) : r[j].tag = x /\ r[j].made = v
    OBVIOUS
  <2>1. PICK j \in 1..Len(o) : o[j].tag = x /\ o[j].made = v
    BY DEF OnlyMade
  <2>2. j \in 1..Len(r) /\ r[j] = o[j]
    BY <1>1
  <2> QED BY <2>1, <2>2
<1>4. OnlyMade(x, v, r)
    BY <1>2, <1>3 DEF OnlyMade
<1> QED BY <1>4 DEF r

(* The first thing made of an element of its tag.                          *)
LEMMA FirstOpens ==
    ASSUME NEW x, NEW o \in Seq(OpenElements), NEW e \in OpenElements,
           e.tag = x, e.made # 0, OnlyMade(x, 0, o)
    PROVE  OnlyMade(x, e.made, Append(o, e))
<1> DEFINE r == Append(o, e)
<1>1. /\ Len(r) = Len(o) + 1 /\ Len(o) \in Nat /\ r[Len(o) + 1] = e
      /\ \A i \in 1..Len(o) : r[i] = o[i]
    BY AppendIs
<1> HIDE DEF r
<1>2. ASSUME NEW j \in 1..Len(r), r[j].tag = x, r[j].made # 0
      PROVE  j = Len(o) + 1 /\ r[j] = e
  <2>1. CASE j \in 1..Len(o)
    BY <1>1, <1>2, <2>1 DEF OnlyMade
  <2> QED BY <1>1, <2>1
<1>3. Len(o) + 1 \in 1..Len(r)
    BY <1>1
<1>4. OnlyMade(x, e.made, r)
    BY <1>1, <1>2, <1>3 DEF OnlyMade
<1> QED BY <1>4 DEF r

(* An element ends: of which nothing was made, or of another tag.          *)
LEMMA OthersEnd ==
    ASSUME NEW x, NEW v \in Nat, NEW o \in Seq(OpenElements), o # <<>>,
           Last(o).made = 0 \/ Last(o).tag # x, OnlyMade(x, v, o)
    PROVE  OnlyMade(x, v, Front(o))
<1> DEFINE r == Front(o)
<1>1. /\ Len(r) = Len(o) - 1 /\ Len(o) \in Nat \ {0} /\ Last(o) = o[Len(o)]
      /\ \A i \in 1..(Len(o) - 1) : r[i] = o[i]
    BY FrontIs
<1> HIDE DEF r
<1>2. \A j \in 1..Len(r) : j \in 1..Len(o) /\ r[j] = o[j]
    BY <1>1
<1>3. v # 0 => \E j \in 1..Len(r) : r[j].tag = x /\ r[j].made = v
  <2> SUFFICES ASSUME v # 0 PROVE \E j \in 1..Len(r) : r[j].tag = x /\ r[j].made = v
    OBVIOUS
  <2>1. PICK j \in 1..Len(o) : o[j].tag = x /\ o[j].made = v
    BY DEF OnlyMade
  <2>2. j # Len(o)
    BY <1>1, <2>1
  <2>3. j \in 1..Len(r)
    BY <1>1, <2>2
  <2> QED BY <1>2, <2>1, <2>3
<1>4. OnlyMade(x, v, r)
    BY <1>2, <1>3 DEF OnlyMade
<1> QED BY <1>4 DEF r

(* An element that is popped leaves none of its tag that anything was      *)
(* made of.                                                                *)
LEMMA NoneLeft ==
    ASSUME IInv, status = "reading", ~astray, path # <<>>, open # <<>>,
           Tag(Last(path)) = Last(open).tag, Last(open).tag \in Owners
    PROVE  OnlyMade(Last(open).tag, 0, Front(open))
<1> DEFINE r == Front(open)
           x == Last(open).tag
           k == Len(path)
           n == Len(open)
<1>1. /\ path \in Seq(Nodes) /\ open \in Seq(OpenElements) /\ PathInv
    BY Reading
<1>2. PICK d : Depths(d, path, open)
    BY Reading DEF Straight
<1>3. /\ Len(r) = n - 1 /\ n \in Nat \ {0} /\ Last(open) = open[n]
      /\ \A i \in 1..(n - 1) : r[i] = open[i]
    BY <1>1, FrontIs
<1>4. k \in Nat \ {0} /\ Last(path) = path[k]
    BY <1>1, FrontIs
<1>5. /\ d \in [0..n -> 1..k] /\ d[n] = k
      /\ \A i \in 1..n :
            \/ d[i] = d[i - 1] + 1 /\ Tag(path[d[i]]) = open[i].tag
            \/ d[i] = d[i - 1] /\ Tag(path[d[i]]) # open[i].tag /\ open[i].made = 0
      /\ \A i, j \in 0..n : i <= j => d[i] <= d[j]
    BY <1>2 DEF Depths, Deeper, Ignored
<1>6. Tag(path[k]) = x /\ x = open[n].tag
    BY <1>3, <1>4
<1>7. x \in Owners
    OBVIOUS
<1> HIDE DEF r, k, n, x
<1>8. d[n - 1] = k - 1
  <2>1. n \in 1..n /\ n - 1 \in 0..n
    BY <1>3
  <2>2. \/ d[n] = d[n - 1] + 1 /\ Tag(path[d[n]]) = open[n].tag
        \/ d[n] = d[n - 1] /\ Tag(path[d[n]]) # open[n].tag
    BY <1>5, <2>1
  <2>3. d[n - 1] \in 1..k /\ d[n] = k
    BY <1>5, <2>1
  <2> QED BY <1>4, <1>6, <2>2, <2>3
<1>9. ASSUME NEW j \in 1..(n - 1), open[j].tag = x, open[j].made # 0 PROVE FALSE
  <2>1. d[j] <= d[n - 1] /\ d[j] \in 1..k /\ j \in 1..n
    BY <1>3, <1>5
  <2>2. Tag(path[d[j]]) = x
    BY <1>5, <1>9, <2>1
  <2>3. path[d[j]] \in Nodes /\ path[k] \in Nodes /\ k \in 1..k
    BY <1>1, <1>4, <2>1, ElementOfSeq DEF k
  <2>4. path[d[j]] = path[k]
    BY <1>6, <1>7, <2>2, <2>3, Tagged DEF Owners
  <2>5. \A i \in 1..k : Level[path[i]] = Level[Root(include)] + i - 1
    BY <1>1 DEF PathInv, k
  <2>6. Level[Root(include)] \in 0..6
    BY Levels
  <2>7. /\ Level[path[d[j]]] = Level[Root(include)] + d[j] - 1
        /\ Level[path[k]] = Level[Root(include)] + k - 1
    BY <2>1, <2>3, <2>5
  <2>8. d[j] = k
    BY <1>4, <2>1, <2>4, <2>6, <2>7
  <2> QED BY <1>4, <1>8, <2>1, <2>8
<1> QED
  <2>1. ASSUME NEW j \in 1..Len(r), r[j].tag = x PROVE r[j].made = 0
    <3>1. j \in 1..(n - 1) /\ r[j] = open[j]
        BY <1>3
    <3> QED BY <1>9, <2>1, <3>1
  <2> QED BY <2>1 DEF OnlyMade, r, x

(* With nothing open nothing was made.                                     *)
LEMMA NoneOpen ==
    ASSUME at = NoPort, open = <<>>
    PROVE  \A x \in Owners : OnlyMade(x, Held(x), open)
<1>1. Len(open) = 0
    BY EmptySeq
<1>2. \A x \in Owners : Held(x) = 0
    BY DEF Held, NoPort
<1> QED BY <1>1, <1>2 DEF OnlyMade

(* An element of the table that owns nothing, or of which nothing was made. *)
LEMMA EnterOpen ==
    ASSUME IInv, OpenInv, NEW n \in Nodes, NEW made \in Nat, Enter(n, made)
    PROVE  /\ status = "reading" /\ UNCHANGED astray
           /\ ~astray => \A x \in Owners :
                 made = 0 \/ Tag(n) # x => OnlyMade(x, Held(x), open')
           /\ ~astray /\ made # 0 /\ Tag(n) \in Owners /\ Held(Tag(n)) = 0 =>
                 OnlyMade(Tag(n), made, open')
<1>1. Opens(Tag(n), made) /\ status = "reading" /\ UNCHANGED astray /\ MayOpen(Tag(n))
    BY EnterKeeps DEF Enter
<1>2. Tag(n) \in Tags
  <2>1. n \in Child[Last(path)] /\ Last(path) \in Nodes
    BY EnterKeeps
  <2>2. Level[n] = Level[Last(path)] + 1 /\ Level[Last(path)] \in 0..6
    BY <2>1, ChildLevel, Levels
  <2>3. n # "root"
    BY <2>2, LevelTable
  <2> QED BY <2>3, Tagged
<1> DEFINE e == [tag |-> Tag(n), made |-> made]
<1>3. open' = Append(open, e) /\ e \in OpenElements /\ e.tag = Tag(n) /\ e.made = made
    BY <1>1, <1>2, OpensKeeps
<1> HIDE DEF e
<1>4. /\ open \in Seq(OpenElements) /\ \A x \in Owners : Held(x) \in Nat
    BY <1>1, Reading DEF Held
<1>5. ~astray => \A x \in Owners : OnlyMade(x, Held(x), open)
    BY <1>1 DEF OpenInv
<1>6. ASSUME ~astray, NEW x \in Owners, made = 0 \/ Tag(n) # x PROVE OnlyMade(x, Held(x), open')
    BY <1>3, <1>4, <1>5, <1>6, OthersOpen
<1>7. ASSUME ~astray, made # 0, Tag(n) \in Owners, Held(Tag(n)) = 0
      PROVE  OnlyMade(Tag(n), made, open')
    BY <1>3, <1>4, <1>5, <1>7, FirstOpens
<1> QED BY <1>1, <1>6, <1>7

(* Nothing is made of the elements of a section, of profiles and routes.   *)
LEMMA OtherOpen ==
    ASSUME IInv, OpenInv, NEW n \in Nodes, Enter(n, 0), at' = at
    PROVE  OpenInv'
<1>1. status = "reading" /\ UNCHANGED astray
      /\ (~astray => \A x \in Owners : OnlyMade(x, Held(x), open'))
    BY EnterOpen
<1>2. \A x \in Owners : Held(x)' = Held(x)
    BY DEF Held
<1> QED BY <1>1, <1>2 DEF OpenInv

(* A module or port becomes current where none of its kind was.            *)
LEMMA OwnerOpen ==
    ASSUME IInv, OpenInv, NEW n \in Owners, NEW made \in Nat, made # 0, Enter(n, made),
           at' = [at EXCEPT !.module = IF n = "module" THEN made ELSE @,
                            !.mix = IF n = "mixPort" THEN made ELSE @,
                            !.device = IF n = "devicePort" THEN made ELSE @]
    PROVE  OpenInv'
<1>1. n \in Nodes /\ Tag(n) = n
    BY DEF Owners, Nodes, Tag
<1>2. /\ status = "reading" /\ UNCHANGED astray
      /\ ~astray => \A x \in Owners : n # x => OnlyMade(x, Held(x), open')
      /\ ~astray /\ Held(n) = 0 => OnlyMade(n, made, open')
    BY <1>1, EnterOpen
<1>3. AtInv /\ at \in Positions
    BY <1>2, Reading DEF Positions
<1>4. ~InPath(n)
  <2>1. \A i \in 1..Len(path) : Level[path[i]] < Level[n]
    BY <1>1, EnterPath
  <2>2. Level[n] \in 0..6
    BY <1>1, Levels
  <2>3. ~(Level[n] < Level[n])
    BY <2>2
  <2> QED BY <2>1, <2>3 DEF InPath
<1>5. Held(n) = 0
    BY <1>3, <1>4 DEF Held, Owners, AtInv
<1>6. \A x \in Owners : Held(x)' = IF x = n THEN made ELSE Held(x)
    BY <1>3 DEF Held, Owners, Positions
<1> QED BY <1>2, <1>5, <1>6 DEF OpenInv

LEMMA ReadModuleOpen ==
    ASSUME IInv, OpenInv, ReadModule PROVE OpenInv'
<1> DEFINE into == IF include = 0 THEN 0 ELSE includes[include]
           m == IF into # 0 THEN into ELSE Len(modules) + 1
<1>1. Enter("module", m) /\ at' = [at EXCEPT !.module = m]
    BY DEF ReadModule
<1>2. /\ include \in Nat /\ include <= Len(includes) /\ includes \in Seq(0..Len(modules))
      /\ Len(modules) \in Nat /\ Len(includes) \in Nat /\ at \in Positions
    BY LenProperties DEF IInv, TypeOK, Positions
<1>3. into \in 0..Len(modules)
  <2>1. CASE include = 0
    BY <1>2, <2>1
  <2>2. CASE include # 0
    <3>1. include \in 1..Len(includes)
        BY <1>2, <2>2
    <3> QED BY <1>2, <2>2, <3>1, ElementOfSeq
  <2> QED BY <2>1, <2>2
<1>4. m \in Nat /\ m # 0
    BY <1>2, <1>3
<1> HIDE DEF m, into
<1>5. "module" \in Owners
    BY DEF Owners
<1>6. at' = [at EXCEPT !.module = IF "module" = "module" THEN m ELSE @,
                       !.mix = IF "module" = "mixPort" THEN m ELSE @,
                       !.device = IF "module" = "devicePort" THEN m ELSE @]
    BY <1>1, <1>2 DEF Positions
<1> QED BY <1>1, <1>4, <1>5, <1>6, OwnerOpen

LEMMA ReadMixPortOpen ==
    ASSUME IInv, OpenInv, NEW p \in MixPorts, ReadMixPort(p) PROVE OpenInv'
<1> DEFINE e == [port |-> p, profiles |-> 0]
           made == Len(Append(modules[at.module].mixPorts, e))
<1>1. Enter("mixPort", made) /\ at' = [at EXCEPT !.mix = made]
    BY DEF ReadMixPort
<1>2. e \in [port : MixPorts, profiles : Nat]
    OBVIOUS
<1> HIDE DEF e
<1>3. modules[at.module] \in Module /\ at \in Positions
    BY <1>1, PartKeeps
<1>4. modules[at.module].mixPorts \in Seq([port : MixPorts, profiles : Nat])
    BY <1>3, ModuleParts
<1>5. made = Len(modules[at.module].mixPorts) + 1 /\ Len(modules[at.module].mixPorts) \in Nat
    BY <1>2, <1>4, AppendIs
<1> HIDE DEF made
<1>6. made \in Nat /\ made # 0
    BY <1>5
<1>7. "mixPort" \in Owners
    BY DEF Owners
<1>8. at' = [at EXCEPT !.module = IF "mixPort" = "module" THEN made ELSE @,
                       !.mix = IF "mixPort" = "mixPort" THEN made ELSE @,
                       !.device = IF "mixPort" = "devicePort" THEN made ELSE @]
    BY <1>1, <1>3 DEF Positions
<1> QED BY <1>1, <1>6, <1>7, <1>8, OwnerOpen

LEMMA ReadDevicePortOpen ==
    ASSUME IInv, OpenInv, NEW d \in DevicePorts, ReadDevicePort(d) PROVE OpenInv'
<1> DEFINE e == [port |-> d, profiles |-> 0]
           made == Len(Append(modules[at.module].devicePorts, e))
<1>1. CASE KnownType(d)
  <2>1. Enter("devicePort", made) /\ at' = [at EXCEPT !.device = made]
    BY <1>1 DEF ReadDevicePort
  <2>2. e \in [port : DevicePorts, profiles : Nat]
    OBVIOUS
  <2> HIDE DEF e
  <2>3. modules[at.module] \in Module /\ at \in Positions
    BY <2>1, PartKeeps
  <2>4. modules[at.module].devicePorts \in Seq([port : DevicePorts, profiles : Nat])
    BY <2>3, ModuleParts
  <2>5. made = Len(modules[at.module].devicePorts) + 1
        /\ Len(modules[at.module].devicePorts) \in Nat
    BY <2>2, <2>4, AppendIs
  <2> HIDE DEF made
  <2>6. made \in Nat /\ made # 0
    BY <2>5
  <2>7. "devicePort" \in Owners
    BY DEF Owners
  <2>8. at' = [at EXCEPT !.module = IF "devicePort" = "module" THEN made ELSE @,
                         !.mix = IF "devicePort" = "mixPort" THEN made ELSE @,
                         !.device = IF "devicePort" = "devicePort" THEN made ELSE @]
    BY <2>1, <2>3 DEF Positions
  <2> QED BY <2>1, <2>6, <2>7, <2>8, OwnerOpen
<1>2. CASE ~KnownType(d)
  <2>1. Enter("devicePort", 0) /\ at' = at
    BY <1>2 DEF ReadDevicePort
  <2>2. "devicePort" \in Nodes
    BY DEF Nodes
  <2> QED BY <2>1, <2>2, OtherOpen
<1> QED BY <1>1, <1>2

LEMMA IgnoreOpen ==
    ASSUME IInv, OpenInv, NEW tag \in Tags, IgnoreElement(tag) PROVE OpenInv'
<1>1. /\ MayOpen(tag) /\ Opens(tag, 0) /\ astray' = (astray \/ tag = Tag(Last(path)))
      /\ UNCHANGED <<status, at>>
    BY DEF IgnoreElement
<1> DEFINE e == [tag |-> tag, made |-> 0]
<1>2. open' = Append(open, e) /\ e \in OpenElements /\ status = "reading" /\ e.made = 0
    BY <1>1, OpensKeeps
<1> HIDE DEF e
<1>3. open \in Seq(OpenElements) /\ \A x \in Owners : Held(x) \in Nat /\ Held(x)' = Held(x)
    BY <1>1, <1>2, Reading DEF Held
<1>4. ~astray' => \A x \in Owners : OnlyMade(x, Held(x), open)
    BY <1>1, <1>2 DEF OpenInv
<1>5. ~astray' => \A x \in Owners : OnlyMade(x, Held(x), open')
    BY <1>2, <1>3, <1>4, OthersOpen
<1> QED BY <1>3, <1>5 DEF OpenInv

(* The element that ends owns what is let go; any other keeps it.          *)
LEMMA EndElementOpen ==
    ASSUME IInv, OpenInv, EndElement PROVE OpenInv'
<1> DEFINE tag == Last(open).tag
<1>1. /\ status = "reading" /\ open # <<>> /\ path # <<>> /\ open' = Front(open)
      /\ UNCHANGED <<status, astray>>
      /\ Tag(Last(path)) = tag => at' = Left(at, tag)
      /\ Tag(Last(path)) # tag => UNCHANGED at
    BY DEF EndElement
<1>2. open \in Seq(OpenElements) /\ at \in Positions /\ \A x \in Owners : Held(x) \in Nat
    BY <1>1, Reading DEF Held, Positions
<1> SUFFICES ASSUME ~astray, NEW x \in Owners PROVE OnlyMade(x, Held(x)', open')
    BY <1>1 DEF OpenInv
<1>3. OnlyMade(x, Held(x), open)
    BY <1>1 DEF OpenInv
<1>4. CASE Tag(Last(path)) # tag
  <2>1. PICK d : Depths(d, path, open)
    BY <1>1, Reading DEF Straight
  <2>2. Len(open) \in Nat \ {0} /\ Last(open) = open[Len(open)] /\ Last(path) = path[Len(path)]
    BY <1>1, <1>2, Reading, FrontIs
  <2>3. Len(open) \in 1..Len(open)
    BY <2>2
  <2>4. Last(open).made = 0
    BY <1>4, <2>1, <2>2, <2>3 DEF Depths, Deeper, Ignored
  <2>5. Held(x)' = Held(x)
    BY <1>1, <1>4 DEF Held
  <2> QED BY <1>1, <1>2, <1>3, <2>4, <2>5, OthersEnd
<1>5. CASE Tag(Last(path)) = tag /\ tag # x
  <2>1. Held(x)' = Held(x)
    BY <1>1, <1>2, <1>5 DEF Held, Left, Owners, Positions
  <2> QED BY <1>1, <1>2, <1>3, <1>5, <2>1, OthersEnd
<1>6. CASE Tag(Last(path)) = tag /\ tag = x
  <2>1. Held(x)' = 0
    BY <1>1, <1>2, <1>6 DEF Held, Left, Owners, Positions
  <2> QED BY <1>1, <1>6, <2>1, NoneLeft
<1> QED BY <1>4, <1>5, <1>6

LEMMA OpenInvStep ==
    ASSUME IInv, OpenInv, [Next]_vars PROVE OpenInv'
<1>1. ASSUME NEW tag \in Tags, IgnoreElement(tag) PROVE OpenInv'
    BY <1>1, IgnoreOpen
<1>2. ASSUME NEW n \in Nodes, Section(n) \/ ReadInclude(n) PROVE OpenInv'
    BY <1>2, OtherOpen DEF Section, ReadInclude
<1>3. CASE ReadModule
    BY <1>3, ReadModuleOpen
<1>4. ASSUME NEW p \in MixPorts, ReadMixPort(p) PROVE OpenInv'
    BY <1>4, ReadMixPortOpen
<1>5. ASSUME NEW d \in DevicePorts, ReadDevicePort(d) PROVE OpenInv'
    BY <1>5, ReadDevicePortOpen
<1>6. ASSUME NEW usable \in BOOLEAN, ReadProfile(usable) PROVE OpenInv'
  <2>1. Enter("profile", 0) /\ at' = at
    BY <1>6 DEF ReadProfile
  <2>2. "profile" \in Nodes
    BY DEF Nodes
  <2> QED BY <2>1, <2>2, OtherOpen
<1>7. ASSUME NEW r \in Routes, ReadRoute(r) PROVE OpenInv'
  <2>1. Enter("route", 0) /\ at' = at
    BY <1>7 DEF ReadRoute
  <2>2. "route" \in Nodes
    BY DEF Nodes
  <2> QED BY <2>1, <2>2, OtherOpen
<1>8. CASE EndElement
    BY <1>8, EndElementOpen
<1>9. CASE OpenInclude
  <2>1. CASE status' = "reading"
    <3>1. status = "between" /\ UNCHANGED <<at, open>>
        BY <1>9, <2>1 DEF OpenInclude
    <3>2. open = <<>> /\ at = NoPort
        BY <3>1, NothingLeft DEF IInv, Live
    <3>3. \A x \in Owners : OnlyMade(x, Held(x), open)
        BY <3>2, NoneOpen
    <3>4. \A x \in Owners : Held(x)' = Held(x) /\ open' = open
        BY <3>1 DEF Held
    <3> QED BY <3>3, <3>4 DEF OpenInv
  <2>2. CASE status' # "reading"
    BY <2>2 DEF OpenInv
  <2> QED BY <2>1, <2>2
<1>10. ASSUME status' # "reading" PROVE OpenInv'
    BY <1>10 DEF OpenInv
<1>11. ASSUME UNCHANGED <<status, astray, at, open>> PROVE OpenInv'
    BY <1>11 DEF OpenInv, Held
<1>12. ASSUME NEW t \in Texts, ReadText(t) PROVE OpenInv'
    BY <1>11, <1>12 DEF ReadText
<1>13. ASSUME NEW n \in Nodes, Reject(n) PROVE OpenInv'
  <2>1. status' # "reading"
    BY <1>13, GiveUpIs DEF Reject
  <2> QED BY <1>10, <2>1
<1>14. CASE NullCurrent \/ Malformed \/ EndOfFile \/ Finish
  <2>1. status' # "reading"
    BY <1>14, GiveUpIs DEF NullCurrent, Malformed, EndOfFile, Finish
  <2> QED BY <1>10, <2>1
<1>15. CASE UNCHANGED vars
    BY <1>11, <1>15 DEF vars
<1> QED BY <1>1, <1>2, <1>3, <1>4, <1>5, <1>6, <1>7, <1>8, <1>9, <1>12, <1>13, <1>14, <1>15
        DEF Next, ReadElement

LEMMA OpenInvInit == Init => OpenInv
BY NoneOpen DEF Init, OpenInv

(* The object of the innermost open element is the one that was made.      *)
LEMMA MadeIs ==
    ASSUME NEW x, NEW v \in Nat, open \in Seq(OpenElements), OnlyMade(x, v, open)
    PROVE  Made(x) = v
<1> DEFINE of == {i \in DOMAIN open : open[i].tag = x /\ open[i].made # 0}
<1>1. DOMAIN open = 1..Len(open) /\ Len(open) \in Nat
    BY LenProperties
<1>2. Made(x) = IF of = {} THEN 0 ELSE open[CHOOSE i \in of : \A j \in of : j <= i].made
    BY DEF Made
<1>3. CASE v = 0
  <2>1. of = {}
    BY <1>1, <1>3 DEF OnlyMade
  <2> QED BY <1>2, <1>3, <2>1
<1>4. CASE v # 0
  <2>1. PICK k \in 1..Len(open) : open[k].tag = x /\ open[k].made = v
    BY <1>4 DEF OnlyMade
  <2>2. of = {k}
    BY <1>1, <1>4, <2>1 DEF OnlyMade
  <2>3. \E i \in of : \A j \in of : j <= i
    BY <1>1, <2>1, <2>2
  <2>4. (CHOOSE i \in of : \A j \in of : j <= i) \in of
    BY <2>3
  <2> HIDE DEF of
  <2>5. (CHOOSE i \in of : \A j \in of : j <= i) = k
    BY <2>2, <2>4
  <2> QED BY <1>2, <2>1, <2>2, <2>5
<1> QED BY <1>3, <1>4

(* What was read stays well formed for any files: every module is made of  *)
(* ports and routes of the files, and what is current has an index there.  *)
THEOREM TypeCorrect == Spec => []TypeOK
<1>1. IInv => TypeOK
    BY DEF IInv
<1> QED BY IInvInit, IInvStep, <1>1, PTL DEF Spec

(* Whatever the files hold, reading them ends the daemon only in an        *)
(* included file, and crashes it only where an element that is not read    *)
(* was inside one of the same name.                                        *)
THEOREM ReadingEndsCorrect == Spec => []ReadingEnds
<1>1. IInv => ReadingEnds
    BY DEF IInv, ReadingEnds
<1> QED BY IInvInit, IInvStep, <1>1, PTL DEF Spec

(* Whatever was opened and ended before, the parser is where the open      *)
(* elements of the document lead in the table, unless one went astray.     *)
THEOREM PathCorrect == Spec => []PathFollowsDocument
<1>1. IInv => PathFollowsDocument
  <2> SUFFICES ASSUME IInv, status = "reading", ~astray PROVE path = Walk(Root(include))
    BY DEF PathFollowsDocument
  <2>1. PathInv /\ Straight(path, open) /\ path \in Seq(Nodes) /\ open \in Seq(OpenElements)
    BY Reading
  <2>2. path # <<>>
    <3>1. PICK d : Depths(d, path, open)
        BY <2>1 DEF Straight
    <3>2. 0 \in 0..Len(open) /\ d[0] \in 1..Len(path)
        BY <2>1, <3>1, LenProperties DEF Depths
    <3> QED BY <3>2, EmptySeq
  <2>3. path[1] = Root(include)
    BY <2>1, <2>2 DEF PathInv
  <2> QED BY <2>1, <2>2, <2>3, StraightWalk
<1> QED BY IInvInit, IInvStep, <1>1, PTL DEF Spec

(* For any files, in any order of their elements: a profile, a port or a   *)
(* route is added to the module and port of the elements it is in, unless  *)
(* one went astray; no callback of a part of a module finds no module; and *)
(* a file leaves nothing current to the next.                              *)
THEOREM CurrentCorrect == Spec => []CurrentIsRight
<1>1. OpenInv /\ IInv => CurrentIsOpen
  <2> SUFFICES ASSUME OpenInv, IInv, status = "reading", ~astray
               PROVE  at = [module |-> Made("module"), mix |-> Made("mixPort"),
                            device |-> Made("devicePort")]
    BY DEF CurrentIsOpen
  <2>1. /\ open \in Seq(OpenElements) /\ at.module \in Nat /\ at.mix \in Nat /\ at.device \in Nat
        /\ at = [module |-> at.module, mix |-> at.mix, device |-> at.device]
    BY Reading
  <2>2. /\ OnlyMade("module", at.module, open) /\ OnlyMade("mixPort", at.mix, open)
        /\ OnlyMade("devicePort", at.device, open)
    BY DEF OpenInv, Owners, Held
  <2>3. Made("module") = at.module /\ Made("mixPort") = at.mix /\ Made("devicePort") = at.device
    BY <2>1, <2>2, MadeIs
  <2> QED BY <2>1, <2>3
<1>2. IInv => ModuleForItsParts
  <2> SUFFICES ASSUME IInv, status = "reading" PROVE ModuleForItsParts
    BY DEF ModuleForItsParts
  <2>1. AtInv /\ path \in Seq(Nodes)
    BY Reading
  <2>2. DOMAIN path = 1..Len(path)
    BY <2>1, LenProperties
  <2> QED BY <2>1, <2>2 DEF AtInv, InPath, ModuleForItsParts
<1>3. IInv => LeavesNothing
    BY NothingLeft DEF LeavesNothing, Live
<1>4. IInv /\ OpenInv => CurrentIsRight
    BY <1>1, <1>2, <1>3 DEF CurrentIsRight
<1>5. Init => IInv /\ OpenInv
    BY IInvInit, OpenInvInit
<1>6. IInv /\ OpenInv /\ [Next]_vars => (IInv /\ OpenInv)'
    BY IInvStep, OpenInvStep
<1> QED BY <1>4, <1>5, <1>6, PTL DEF Spec

(* Induction up to n.                                                      *)
LEMMA UpTo ==
    ASSUME NEW n \in Nat, NEW T, 0 \in T, \A i \in 1..n : i - 1 \in T => i \in T
    PROVE  \A i \in 0..n : i \in T
<1> DEFINE Out == {i \in 0..n : i \notin T}
<1>1. Out \subseteq Nat
    OBVIOUS
<1>2. ASSUME Out # {} PROVE FALSE
  <2>1. PICK k \in Out : \A i \in Out : k <= i
    <3> HIDE DEF Out
    <3> QED BY <1>1, <1>2, FirstOf
  <2>2. k \in 1..n /\ k - 1 \in 0..n /\ k - 1 \notin Out
    BY <2>1
  <2> QED BY <2>2
<1> QED BY <1>2

(* A function that starts with a, and goes on from one index to the next   *)
(* as g says, exists.                                                      *)
Goes(f, a, g, n, S) ==
    f \in [0..n -> S] /\ f[0] = a /\ \A i \in 1..n : f[i] = g[f[i - 1]][i]

LEMMA GoesOn ==
    ASSUME NEW S, NEW a \in S, NEW n \in Nat, NEW g, g \in [S -> [1..n -> S]]
    PROVE  \E f : Goes(f, a, g, n, S)
<1> DEFINE Ok(f, m) == /\ f \in [0..m -> S] /\ f[0] = a
                       /\ \A i \in 1..m : f[i] = g[f[i - 1]][i]
           T == {m \in 0..n : \E f : Ok(f, m)}
<1>1. 0 \in T
  <2> DEFINE f == [i \in 0..0 |-> a]
  <2>1. f \in [0..0 -> S] /\ f[0] = a /\ \A i : i \notin 1..0
    OBVIOUS
  <2>2. Ok(f, 0)
    BY <2>1
  <2> HIDE DEF f, Ok
  <2> QED BY <2>2
<1>2. ASSUME NEW m \in 1..n, m - 1 \in T PROVE m \in T
  <2>1. PICK f : Ok(f, m - 1)
    BY <1>2
  <2> DEFINE h == [i \in 0..m |-> IF i = m THEN g[f[m - 1]][m] ELSE f[i]]
  <2>2. f[m - 1] \in S /\ g[f[m - 1]] \in [1..n -> S]
    BY <2>1
  <2>3. g[f[m - 1]][m] \in S
    BY <2>2
  <2>4. \A i \in 0..m : i = m \/ (i \in 0..(m - 1) /\ f[i] \in S)
    BY <2>1
  <2>5. h \in [0..m -> S] /\ h[0] = a
    BY <2>1, <2>3, <2>4
  <2>6. ASSUME NEW i \in 1..m PROVE h[i] = g[h[i - 1]][i]
    <3>1. i - 1 \in 0..m /\ i - 1 # m /\ h[i - 1] = f[i - 1]
        OBVIOUS
    <3>2. CASE i = m
        BY <3>1, <3>2
    <3>3. CASE i # m
        <4>1. i \in 1..(m - 1) /\ h[i] = f[i]
            BY <3>3
        <4> QED BY <2>1, <3>1, <4>1
    <3> QED BY <3>2, <3>3
  <2>7. Ok(h, m)
    BY <2>5, <2>6
  <2> HIDE DEF Ok
  <2> QED BY <2>7
<1> HIDE DEF T
<1>3. n \in T
  <2>1. \A i \in 0..n : i \in T
    BY <1>1, <1>2, UpTo
  <2> QED BY <2>1
<1> QED BY <1>3 DEF T, Goes

(* What is on a list of ports that are there: those that are.              *)
LEMMA PresentIs ==
    ASSUME NEW T, NEW s, IsList(s), Elements(s) \subseteq T \cup {0}
    PROVE  Present(s) \in Seq(T) /\ Elements(Present(s)) = Elements(s) \ {0}
<1>0. /\ Len(s) \in Nat /\ DOMAIN s = 1..Len(s)
      /\ \A i \in 1..Len(s) : s[i] = 0 \/ s[i] \in T
    BY DEF IsList, Elements
<1> DEFINE n == Len(s)
           F(f) == [i \in 0..n |-> IF i = 0 THEN <<>>
                                   ELSE IF s[i] = 0 THEN f[i - 1] ELSE Append(f[i - 1], s[i])]
           g == [p \in Seq(T) |-> [i \in 1..n |-> IF s[i] = 0 THEN p ELSE Append(p, s[i])]]
           list == CHOOSE f : f = F(f)
<1>1. Present(s) = list[n]
    BY DEF Present
<1>2. g \in [Seq(T) -> [1..n -> Seq(T)]]
  <2> SUFFICES ASSUME NEW p \in Seq(T), NEW i \in 1..n
               PROVE  (IF s[i] = 0 THEN p ELSE Append(p, s[i])) \in Seq(T)
    OBVIOUS
  <2>1. s[i] \in T => Append(p, s[i]) \in Seq(T)
    BY AppendProperties
  <2> QED BY <1>0, <2>1
<1>3. PICK w \in [0..n -> Seq(T)] : w[0] = <<>> /\ \A i \in 1..n : w[i] = g[w[i - 1]][i]
  <2> DEFINE none == <<>> S == Seq(T)
  <2>1. n \in Nat /\ none \in S /\ g \in [S -> [1..n -> S]]
    BY <1>0, <1>2
  <2> HIDE DEF g, none, S, n
  <2>2. \E w : Goes(w, none, g, n, S)
    BY <2>1, GoesOn
  <2> QED BY <2>2 DEF none, S, Goes
<1>4. \A i \in 1..n : w[i] = IF s[i] = 0 THEN w[i - 1] ELSE Append(w[i - 1], s[i])
  <2> SUFFICES ASSUME NEW i \in 1..n
               PROVE  w[i] = IF s[i] = 0 THEN w[i - 1] ELSE Append(w[i - 1], s[i])
    OBVIOUS
  <2>1. w[i - 1] \in Seq(T)
    OBVIOUS
  <2> QED BY <1>3, <2>1
<1> HIDE DEF g
<1>5. w = F(w)
  <2>1. \A i \in 0..n : w[i] = IF i = 0 THEN <<>>
                               ELSE IF s[i] = 0 THEN w[i - 1] ELSE Append(w[i - 1], s[i])
    <3> SUFFICES ASSUME NEW i \in 0..n
                 PROVE  w[i] = IF i = 0 THEN <<>>
                               ELSE IF s[i] = 0 THEN w[i - 1] ELSE Append(w[i - 1], s[i])
        OBVIOUS
    <3>1. CASE i = 0
        BY <1>3, <3>1
    <3>2. CASE i # 0
        <4>1. i \in 1..n
            BY <3>2
        <4> QED BY <1>4, <3>2, <4>1
    <3> QED BY <3>1, <3>2
  <2>2. [i \in 0..n |-> w[i]] = F(w)
    BY <2>1, Zenon
  <2> QED BY <2>2
<1>6. list = F(list)
    BY <1>5, Zenon
<1> HIDE DEF list
<1>7. \A i \in 0..n : list[i] = IF i = 0 THEN <<>>
                                ELSE IF s[i] = 0 THEN list[i - 1] ELSE Append(list[i - 1], s[i])
    BY <1>6
<1> HIDE DEF F
<1> DEFINE On(i, x) == \E k \in 1..Len(list[i]) : list[i][k] = x
           Ok(i) == list[i] \in Seq(T) /\ \A x : On(i, x) <=> x # 0 /\ \E k \in 1..i : s[k] = x
           Good == {i \in 0..n : Ok(i)}
<1>8. 0 \in Good
  <2>1. list[0] = <<>> /\ Len(<<>>) = 0 /\ <<>> \in Seq(T) /\ 0 \in 0..n
    BY <1>7
  <2>2. \A k : k \notin 1..0
    OBVIOUS
  <2>3. Ok(0)
    BY <2>1, <2>2
  <2> HIDE DEF Ok
  <2> QED BY <2>1, <2>3
<1>9. ASSUME NEW i \in 1..n, i - 1 \in Good PROVE i \in Good
  <2>1. Ok(i - 1) /\ i \in 0..n
    BY <1>9
  <2>2. \A k : k \in 1..i <=> k \in 1..(i - 1) \/ k = i
    OBVIOUS
  <2>5. list[i] = IF s[i] = 0 THEN list[i - 1] ELSE Append(list[i - 1], s[i])
    <3>1. i \in 0..n /\ i # 0
        OBVIOUS
    <3> HIDE DEF Ok
    <3> QED BY <1>7, <3>1
  <2>3. CASE s[i] = 0
    <3>1. list[i] = list[i - 1]
        BY <2>3, <2>5
    <3>2. \A x : x # 0 => ((\E k \in 1..i : s[k] = x) <=> (\E k \in 1..(i - 1) : s[k] = x))
        BY <2>2, <2>3
    <3>3. Ok(i)
        BY <2>1, <3>1, <3>2
    <3> QED BY <2>1, <3>3
  <2>4. CASE s[i] # 0
    <3> DEFINE p == list[i - 1] q == Append(p, s[i])
    <3>1. list[i] = q /\ s[i] \in T /\ p \in Seq(T)
        <4>1. list[i] = q
            BY <2>4, <2>5
        <4>2. s[i] \in T /\ p \in Seq(T)
            BY <1>0, <2>1, <2>4
        <4> QED BY <4>1, <4>2
    <3>2. /\ q \in Seq(T) /\ Len(q) = Len(p) + 1 /\ Len(p) \in Nat /\ q[Len(p) + 1] = s[i]
          /\ \A k \in 1..Len(p) : q[k] = p[k]
        BY <3>1, AppendProperties, LenProperties
    <3>3. \A x : (\E k \in 1..Len(p) : p[k] = x) <=> x # 0 /\ \E k \in 1..(i - 1) : s[k] = x
        BY <2>1
    <3> HIDE DEF p, q, Ok
    <3>4. \A x : (\E k \in 1..Len(q) : q[k] = x) <=> (\E k \in 1..Len(p) : p[k] = x) \/ x = s[i]
        <4>1. \A k : k \in 1..Len(q) <=> k \in 1..Len(p) \/ k = Len(p) + 1
            BY <3>2
        <4> QED BY <3>2, <4>1
    <3>5. \A x : (\E k \in 1..i : s[k] = x) <=> (\E k \in 1..(i - 1) : s[k] = x) \/ x = s[i]
        BY <2>2
    <3>6. Ok(i)
        BY <2>4, <3>1, <3>2, <3>3, <3>4, <3>5 DEF Ok
    <3> QED BY <2>1, <3>6
  <2> QED BY <2>3, <2>4
<1> HIDE DEF Good, Ok
<1>10. n \in Good
  <2>1. \A i \in 0..n : i \in Good
    BY <1>0, <1>8, <1>9, UpTo
  <2> QED BY <1>0, <2>1
<1>11. Present(s) \in Seq(T) /\ \A x : On(n, x) <=> x # 0 /\ \E k \in 1..n : s[k] = x
    BY <1>1, <1>10 DEF Good, Ok
<1>12. DOMAIN Present(s) = 1..Len(list[n])
    BY <1>1, <1>11, LenProperties
<1>13. \A x : x \in Elements(Present(s)) <=> On(n, x)
    BY <1>1, <1>12 DEF Elements
<1>14. \A x : x \in Elements(s) <=> \E k \in 1..n : s[k] = x
    BY <1>0 DEF Elements
<1> HIDE DEF On, n
<1>15. \A x : x \in Elements(Present(s)) <=> x \in Elements(s) /\ x # 0
    BY <1>11, <1>13, <1>14
<1> QED BY <1>11, <1>15

(* The first of a set of ports.                                            *)
LEMMA FirstIs ==
    ASSUME NEW T, T \subseteq Nat \ {0}
    PROVE  /\ T = {} <=> First(T) = 0
           /\ T # {} => First(T) \in T /\ \A j \in T : First(T) <= j
<1>1. CASE T = {}
    BY <1>1 DEF First
<1>2. CASE T # {}
  <2>1. \E x \in T : \A y \in T : x <= y
    BY <1>2, FirstOf
  <2> QED BY <1>2, <2>1 DEF First
<1> QED BY <1>1, <1>2

-----------------------------------------------------------------------------
(* The configuration made of a module that was read.                       *)

Ports(m) == Generate(m).ports
DevicesOf(m) == [i \in DOMAIN m.devicePorts |-> DevicePort(m.devicePorts[i])]
Size(m) == Len(m.devicePorts) + Len(m.mixPorts)

(* The first port of its name.                                             *)
IsFirst(all, k) == k \in DOMAIN all /\ \A j \in Named(all, all[k].name) : k <= j

LEMMA JoinIs ==
    ASSUME NEW a \in Nat, NEW b \in Nat, NEW f, NEW g,
           f = [i \in 1..a |-> f[i]], g = [i \in 1..b |-> g[i]]
    PROVE  /\ Len(f \o g) = a + b /\ DOMAIN (f \o g) = 1..(a + b)
           /\ \A i \in 1..a : (f \o g)[i] = f[i]
           /\ \A i \in 1..b : (f \o g)[a + i] = g[i]
<1> DEFINE S == {f[i] : i \in 1..a} \cup {g[i] : i \in 1..b}
<1>1. f \in [1..a -> S] /\ g \in [1..b -> S]
  <2>1. \A i \in 1..a : f[i] \in S
    OBVIOUS
  <2>2. \A i \in 1..b : g[i] \in S
    OBVIOUS
  <2> HIDE DEF S
  <2> QED BY <2>1, <2>2
<1> HIDE DEF S
<1>2. f \in Seq(S) /\ g \in Seq(S)
  <2>1. f \in Seq(S)
    BY <1>1, SeqDef
  <2>2. g \in Seq(S)
    BY <1>1, SeqDef
  <2> QED BY <2>1, <2>2
<1>3. Len(f) = a /\ Len(g) = b
  <2>1. DOMAIN f = 1..a /\ DOMAIN g = 1..b
    BY <1>1
  <2>2. DOMAIN f = 1..Len(f) /\ DOMAIN g = 1..Len(g) /\ Len(f) \in Nat /\ Len(g) \in Nat
    BY <1>2, LenProperties
  <2> QED BY <2>1, <2>2
<1> DEFINE h == f \o g
<1>4. /\ h \in Seq(S) /\ Len(h) = Len(f) + Len(g)
      /\ \A i \in 1..(Len(f) + Len(g)) : h[i] = IF i <= Len(f) THEN f[i] ELSE g[i - Len(f)]
    BY <1>2, ConcatProperties
<1> HIDE DEF h
<1>5. DOMAIN h = 1..Len(h)
    BY <1>4, LenProperties
<1>6. \A i \in 1..a : h[i] = f[i]
  <2> SUFFICES ASSUME NEW i \in 1..a PROVE h[i] = f[i]
    OBVIOUS
  <2>1. i \in 1..(Len(f) + Len(g)) /\ i <= Len(f)
    BY <1>3
  <2> QED BY <1>4, <2>1
<1>7. \A i \in 1..b : h[a + i] = g[i]
  <2> SUFFICES ASSUME NEW i \in 1..b PROVE h[a + i] = g[i]
    OBVIOUS
  <2> DEFINE k == a + i
  <2>1. k \in 1..(Len(f) + Len(g)) /\ ~(k <= Len(f)) /\ k - Len(f) = i
    BY <1>3
  <2> HIDE DEF k
  <2>2. h[k] = g[k - Len(f)]
    BY <1>4, <2>1
  <2> QED BY <2>1, <2>2 DEF k
<1> QED BY <1>3, <1>4, <1>5, <1>6, <1>7 DEF h

LEMMA PortsOf ==
    ASSUME NEW m, WellRead(m)
    PROVE  /\ Len(m.devicePorts) \in Nat /\ Len(m.mixPorts) \in Nat
           /\ Len(Ports(m)) = Size(m) /\ DOMAIN Ports(m) = 1..Size(m)
           /\ \A i \in 1..Len(m.devicePorts) : Ports(m)[i] = DevicePort(m.devicePorts[i])
           /\ \A i \in 1..Len(m.mixPorts) :
                 Ports(m)[Len(m.devicePorts) + i] = MixPort(m.mixPorts[i])
<1> DEFINE a == Len(m.devicePorts) b == Len(m.mixPorts)
           f == DevicesOf(m) g == [i \in DOMAIN m.mixPorts |-> MixPort(m.mixPorts[i])]
<1>1. a \in Nat /\ b \in Nat /\ DOMAIN m.devicePorts = 1..a /\ DOMAIN m.mixPorts = 1..b
    BY DEF WellRead, IsList
<1>2. Ports(m) = f \o g
    BY DEF Ports, Generate, DevicesOf
<1>3. /\ \A i \in 1..a : f[i] = DevicePort(m.devicePorts[i])
      /\ \A i \in 1..b : g[i] = MixPort(m.mixPorts[i])
    BY <1>1 DEF DevicesOf
<1>4. f = [i \in 1..a |-> f[i]] /\ g = [i \in 1..b |-> g[i]]
    BY <1>1 DEF DevicesOf
<1> HIDE DEF f, g, a, b
<1>5. /\ Len(f \o g) = a + b /\ DOMAIN (f \o g) = 1..(a + b)
      /\ \A i \in 1..a : (f \o g)[i] = f[i]
      /\ \A i \in 1..b : (f \o g)[a + i] = g[i]
    BY <1>1, <1>4, JoinIs
<1> QED BY <1>1, <1>2, <1>3, <1>5 DEF Size, a, b

LEMMA FirstNamed ==
    ASSUME NEW all, NEW n \in Nat, DOMAIN all = 1..n, NEW name
    PROVE  /\ First(Named(all, name)) = 0 <=> Named(all, name) = {}
           /\ First(Named(all, name)) # 0 =>
                 /\ First(Named(all, name)) \in 1..n
                 /\ all[First(Named(all, name))].name = name
                 /\ IsFirst(all, First(Named(all, name)))
<1> DEFINE T == Named(all, name)
<1>1. T \subseteq Nat \ {0} /\ T \subseteq 1..n /\ \A i \in T : all[i].name = name
    BY DEF Named
<1> HIDE DEF T
<1>2. /\ T = {} <=> First(T) = 0
      /\ T # {} => First(T) \in T /\ \A j \in T : First(T) <= j
    BY <1>1, FirstIs
<1>3. First(T) # 0 => IsFirst(all, First(T))
    BY <1>1, <1>2 DEF IsFirst, T
<1> QED BY <1>1, <1>2, <1>3 DEF T

(* The copy of a port that is the first of its name is that port.          *)
LEMMA CopyIs ==
    ASSUME NEW all, NEW n \in Nat, DOMAIN all = 1..n, NEW k, k = 0 \/ IsFirst(all, k)
    PROVE  CopyOf(all, k) = k
<1>1. CASE k = 0
    BY <1>1 DEF CopyOf
<1>2. CASE k # 0 /\ IsFirst(all, k)
  <2> DEFINE T == {j \in DOMAIN all : Equal(all[k], all[j])}
  <2>1. T \subseteq Nat \ {0} /\ k \in T /\ \A j \in T : k <= j
    BY <1>2 DEF IsFirst, Named, Equal
  <2>2. CopyOf(all, k) = First(T)
    BY <1>2 DEF CopyOf
  <2> HIDE DEF T
  <2>3. First(T) \in T /\ \A j \in T : First(T) <= j
    BY <2>1, FirstIs
  <2>4. First(T) <= k /\ k <= First(T) /\ First(T) \in Nat /\ k \in Nat
    BY <2>1, <2>3
  <2> QED BY <2>2, <2>4
<1> QED BY <1>1, <1>2

-----------------------------------------------------------------------------
(* Whatever is read, a module has device ports of known types only.        *)

Known(u) == \A i \in DOMAIN u.devicePorts : KnownType(u.devicePorts[i].port)
KnownInv == \A i \in DOMAIN modules : Known(modules[i])

LEMMA KnownReplaced ==
    ASSUME KnownInv, modules \in Seq(Module), NEW m \in 1..Len(modules), NEW u \in Module,
           modules' = [modules EXCEPT ![m] = u], Known(u)
    PROVE  KnownInv'
<1>1. /\ modules' \in Seq(Module) /\ Len(modules') = Len(modules)
      /\ modules'[m] = u
      /\ \A j \in 1..Len(modules) : j # m => modules'[j] = modules[j]
    BY ModuleReplaced
<1>2. DOMAIN modules' = 1..Len(modules) /\ DOMAIN modules = 1..Len(modules)
    BY <1>1, LenProperties
<1> HIDE DEF Known
<1> QED BY <1>1, <1>2 DEF KnownInv

LEMMA ReadModuleKnown ==
    ASSUME IInv, KnownInv, ReadModule PROVE KnownInv'
<1>1. modules' = modules \/ modules' = Append(modules, NewModule)
    BY DEF ReadModule
<1>2. CASE modules' = modules
    BY <1>2 DEF KnownInv, Known
<1>3. CASE modules' = Append(modules, NewModule)
  <2>1. Known(NewModule)
    BY DEF Known, NewModule
  <2>2. modules \in Seq(Module) /\ NewModule \in Module
    BY NewModuleIs DEF IInv, TypeOK
  <2>3. /\ modules' \in Seq(Module) /\ Len(modules') = Len(modules) + 1
        /\ \A i \in 1..Len(modules) : modules'[i] = modules[i]
        /\ modules'[Len(modules) + 1] = NewModule
    BY <1>3, <2>2, AppendIs
  <2>4. /\ DOMAIN modules' = 1..(Len(modules) + 1) /\ DOMAIN modules = 1..Len(modules)
        /\ Len(modules) \in Nat
    BY <2>2, <2>3, LenProperties
  <2> QED BY <2>1, <2>3, <2>4 DEF KnownInv, Known
<1> QED BY <1>1, <1>2, <1>3

LEMMA ReadDevicePortKnown ==
    ASSUME IInv, KnownInv, NEW d \in DevicePorts, ReadDevicePort(d) PROVE KnownInv'
<1> DEFINE m == at.module
           e == [port |-> d, profiles |-> 0]
           old == modules[m].devicePorts
           new == Append(old, e)
           u == [modules[m] EXCEPT !.devicePorts = new]
<1>1. CASE KnownType(d)
  <2>1. Enter("devicePort", Len(new)) /\ modules' = [modules EXCEPT ![m] = u]
    BY <1>1 DEF ReadDevicePort
  <2>2. e \in [port : DevicePorts, profiles : Nat] /\ e.port = d
    OBVIOUS
  <2> HIDE DEF e
  <2>3. m \in 1..Len(modules) /\ modules[m] \in Module /\ modules \in Seq(Module)
    BY <2>1, PartKeeps
  <2>4. old \in Seq([port : DevicePorts, profiles : Nat])
    BY <2>3, ModuleParts
  <2>5. /\ new \in Seq([port : DevicePorts, profiles : Nat]) /\ Len(new) = Len(old) + 1
        /\ \A i \in 1..Len(old) : new[i] = old[i]
        /\ new[Len(old) + 1] = e
    BY <2>2, <2>4, AppendIs
  <2>6. u \in Module /\ u.devicePorts = new
    BY <2>3, <2>5, ModuleParts
  <2>7. Known(modules[m])
    BY <2>3, LenProperties DEF KnownInv
  <2>8. /\ DOMAIN new = 1..(Len(old) + 1) /\ DOMAIN old = 1..Len(old) /\ Len(old) \in Nat
    BY <2>4, <2>5, LenProperties
  <2>9. \A i \in DOMAIN old : KnownType(old[i].port)
    BY <2>7 DEF Known
  <2> HIDE DEF u, new, old
  <2>10. \A i \in DOMAIN new : KnownType(new[i].port)
    BY <1>1, <2>2, <2>5, <2>8, <2>9
  <2>11. Known(u)
    BY <2>6, <2>10 DEF Known
  <2> QED BY <2>1, <2>3, <2>6, <2>11, KnownReplaced
<1>2. CASE ~KnownType(d)
    BY <1>2 DEF ReadDevicePort, confVars, KnownInv, Known
<1> QED BY <1>1, <1>2

(* Another part of a module is replaced.                                   *)
LEMMA OtherKnown ==
    ASSUME KnownInv, modules \in Seq(Module), NEW m \in 1..Len(modules), NEW u \in Module,
           modules' = [modules EXCEPT ![m] = u], u.devicePorts = modules[m].devicePorts
    PROVE  KnownInv'
<1>1. Known(modules[m])
    BY LenProperties DEF KnownInv
<1>2. Known(u)
    BY <1>1 DEF Known
<1> QED BY <1>2, KnownReplaced

LEMMA ReadMixPortKnown ==
    ASSUME IInv, KnownInv, NEW p \in MixPorts, ReadMixPort(p) PROVE KnownInv'
<1> DEFINE m == at.module
           e == [port |-> p, profiles |-> 0]
           new == Append(modules[m].mixPorts, e)
           u == [modules[m] EXCEPT !.mixPorts = new]
<1>1. Enter("mixPort", Len(new)) /\ modules' = [modules EXCEPT ![m] = u]
    BY DEF ReadMixPort
<1>2. e \in [port : MixPorts, profiles : Nat]
    OBVIOUS
<1> HIDE DEF e
<1>3. m \in 1..Len(modules) /\ modules[m] \in Module /\ modules \in Seq(Module)
    BY <1>1, PartKeeps
<1>4. modules[m].mixPorts \in Seq([port : MixPorts, profiles : Nat])
    BY <1>3, ModuleParts
<1>5. new \in Seq([port : MixPorts, profiles : Nat])
    BY <1>2, <1>4, AppendIs
<1>6. u \in Module /\ u.devicePorts = modules[m].devicePorts
    BY <1>3, <1>5, ModuleParts
<1> HIDE DEF u
<1> QED BY <1>1, <1>3, <1>6, OtherKnown

LEMMA ReadRouteKnown ==
    ASSUME IInv, KnownInv, NEW r \in Routes, ReadRoute(r) PROVE KnownInv'
<1> DEFINE m == at.module
           new == Append(modules[m].routes, r)
           u == [modules[m] EXCEPT !.routes = new]
<1>1. Enter("route", 0) /\ modules' = [modules EXCEPT ![m] = u]
    BY DEF ReadRoute
<1>2. m \in 1..Len(modules) /\ modules[m] \in Module /\ modules \in Seq(Module)
    BY <1>1, PartKeeps
<1>3. new \in Seq(Routes)
    BY <1>2, ModuleParts, AppendIs
<1>4. u \in Module /\ u.devicePorts = modules[m].devicePorts
    BY <1>2, <1>3, ModuleParts
<1> HIDE DEF u
<1> QED BY <1>1, <1>2, <1>4, OtherKnown

LEMMA ReadTextKnown ==
    ASSUME IInv, KnownInv, NEW t \in Texts, ReadText(t) PROVE KnownInv'
<1> DEFINE m == at.module
           attached == Append(modules[m].attached, t)
           default == Append(modules[m].default, t)
           a == [modules[m] EXCEPT !.attached = attached]
           d == [modules[m] EXCEPT !.default = default]
<1>1. /\ status = "reading" /\ path # <<>>
      /\ Last(path) \in {"item", "defaultOutputDevice"}
      /\ modules' = [modules EXCEPT ![m] = a] \/ modules' = [modules EXCEPT ![m] = d]
    BY DEF ReadText
<1>2. /\ AtInv /\ modules \in Seq(Module) /\ path \in Seq(Nodes)
    BY <1>1, Reading
<1>3. m \in 1..Len(modules) /\ modules[m] \in Module
  <2> HIDE DEF attached, default
  <2>1. Last(path) = path[Len(path)] /\ Len(path) \in 1..Len(path)
    <3>1. Last(path) = path[Len(path)] /\ Len(path) \in Nat \ {0}
        BY <1>1, <1>2, FrontIs
    <3> QED BY <3>1
  <2>2. Level[path[Len(path)]] >= 4
    BY <1>1, <2>1, LevelTable
  <2>3. m # 0
    BY <1>2, <2>1, <2>2 DEF AtInv
  <2> QED BY <1>1, <1>2, <2>3, ModuleCurrent, ElementOfSeq
<1>4. attached \in Seq(Texts) /\ default \in Seq(Texts)
  <2>1. modules[m].attached \in Seq(Texts) /\ modules[m].default \in Seq(Texts)
    BY <1>3, ModuleParts
  <2> QED BY <2>1, AppendIs
<1> HIDE DEF attached, default
<1>5. /\ a \in Module /\ a.devicePorts = modules[m].devicePorts
      /\ d \in Module /\ d.devicePorts = modules[m].devicePorts
    BY <1>3, <1>4, ModuleParts
<1> HIDE DEF a, d
<1> QED BY <1>1, <1>2, <1>3, <1>5, OtherKnown

LEMMA ReadProfileKnown ==
    ASSUME IInv, KnownInv, NEW usable \in BOOLEAN, ReadProfile(usable) PROVE KnownInv'
<1> DEFINE m == at.module
           mixes == modules[m].mixPorts
           devices == modules[m].devicePorts
<1>1. Enter("profile", 0)
    BY DEF ReadProfile
<1>2. /\ m \in 1..Len(modules) /\ modules[m] \in Module /\ modules \in Seq(Module)
      /\ status = "reading" /\ AtInv
    BY <1>1, PartKeeps, Reading
<1>3. mixes \in Seq([port : MixPorts, profiles : Nat]) /\ devices \in Seq([port : DevicePorts, profiles : Nat])
    BY <1>2, ModuleParts
<1>4. CASE usable /\ at.mix # 0
  <2> DEFINE e == [mixes[at.mix] EXCEPT !.profiles = @ + 1]
             new == [mixes EXCEPT ![at.mix] = e]
             u == [modules[m] EXCEPT !.mixPorts = new]
  <2>1. modules' = [modules EXCEPT ![m] = u]
    BY <1>4 DEF ReadProfile
  <2>2. at.mix \in 1..Len(mixes)
    BY <1>2, <1>4 DEF AtInv
  <2>3. e \in [port : MixPorts, profiles : Nat]
    <3>1. mixes[at.mix] \in [port : MixPorts, profiles : Nat]
        BY <1>3, <2>2, ElementOfSeq
    <3> HIDE DEF mixes
    <3> QED BY <3>1
  <2> HIDE DEF e
  <2>4. new \in Seq([port : MixPorts, profiles : Nat])
    BY <1>3, <2>2, <2>3, ExceptSeq
  <2> HIDE DEF new
  <2>5. u \in Module /\ u.devicePorts = devices
    BY <1>2, <2>4, ModuleParts
  <2> HIDE DEF u
  <2> QED BY <1>2, <2>1, <2>5, OtherKnown
<1>5. CASE usable /\ at.mix = 0 /\ at.device # 0
  <2> DEFINE k == at.device
             e == [devices[k] EXCEPT !.profiles = @ + 1]
             new == [devices EXCEPT ![k] = e]
             u == [modules[m] EXCEPT !.devicePorts = new]
  <2>1. modules' = [modules EXCEPT ![m] = u]
    BY <1>5 DEF ReadProfile
  <2>2. k \in 1..Len(devices)
    BY <1>2, <1>5 DEF AtInv
  <2>3. e \in [port : DevicePorts, profiles : Nat] /\ e.port = devices[k].port
    <3>1. devices[k] \in [port : DevicePorts, profiles : Nat]
        BY <1>3, <2>2, ElementOfSeq
    <3> HIDE DEF devices
    <3> QED BY <3>1
  <2> HIDE DEF e
  <2>4. /\ new \in Seq([port : DevicePorts, profiles : Nat]) /\ Len(new) = Len(devices)
        /\ new[k] = e /\ \A j \in 1..Len(devices) : j # k => new[j] = devices[j]
    BY <1>3, <2>2, <2>3, ExceptSeq
  <2> HIDE DEF new
  <2>5. u \in Module /\ u.devicePorts = new
    BY <1>2, <2>4, ModuleParts
  <2>6. Known(modules[m])
    BY <1>2, LenProperties DEF KnownInv
  <2>7. DOMAIN new = 1..Len(devices) /\ DOMAIN devices = 1..Len(devices)
    BY <1>3, <2>4, LenProperties
  <2>8. \A i \in DOMAIN devices : KnownType(devices[i].port)
    BY <2>6 DEF Known
  <2> HIDE DEF u, new, devices
  <2>9. \A i \in DOMAIN new : KnownType(new[i].port)
    <3> SUFFICES ASSUME NEW i \in 1..Len(devices) PROVE KnownType(new[i].port)
        BY <2>7
    <3>1. new[i].port = devices[i].port
        BY <2>3, <2>4
    <3>2. KnownType(devices[i].port)
        BY <2>7, <2>8
    <3> QED BY <3>1, <3>2
  <2>10. Known(u)
    BY <2>5, <2>9 DEF Known
  <2> QED BY <1>2, <2>1, <2>5, <2>10, KnownReplaced
<1>6. CASE ~(usable /\ at.mix # 0) /\ ~(usable /\ at.mix = 0 /\ at.device # 0)
  <2>1. modules' = modules
    BY <1>6 DEF ReadProfile
  <2> QED BY <2>1 DEF KnownInv, Known
<1> QED BY <1>4, <1>5, <1>6

LEMMA KnownStep ==
    ASSUME IInv, KnownInv, [Next]_vars PROVE KnownInv'
<1>1. ASSUME modules' = modules PROVE KnownInv'
    BY <1>1 DEF KnownInv, Known
<1>2. CASE ReadElement
  <2>1. ASSUME NEW tag \in Tags, IgnoreElement(tag) PROVE KnownInv'
    BY <1>1, <2>1 DEF IgnoreElement, confVars
  <2>2. ASSUME NEW n \in Nodes, Section(n) \/ ReadInclude(n) PROVE KnownInv'
    BY <1>1, <2>2 DEF Section, ReadInclude, confVars
  <2>3. CASE ReadModule
    BY <2>3, ReadModuleKnown
  <2>4. ASSUME NEW p \in MixPorts, ReadMixPort(p) PROVE KnownInv'
    BY <2>4, ReadMixPortKnown
  <2>5. ASSUME NEW d \in DevicePorts, ReadDevicePort(d) PROVE KnownInv'
    BY <2>5, ReadDevicePortKnown
  <2>6. ASSUME NEW usable \in BOOLEAN, ReadProfile(usable) PROVE KnownInv'
    BY <2>6, ReadProfileKnown
  <2>7. ASSUME NEW r \in Routes, ReadRoute(r) PROVE KnownInv'
    BY <2>7, ReadRouteKnown
  <2> QED BY <1>2, <2>1, <2>2, <2>3, <2>4, <2>5, <2>6, <2>7 DEF ReadElement
<1>3. ASSUME NEW n \in Nodes, Reject(n) PROVE KnownInv'
    BY <1>1, <1>3 DEF Reject, confVars
<1>4. CASE EndElement
    BY <1>1, <1>4 DEF EndElement, confVars
<1>5. ASSUME NEW t \in Texts, ReadText(t) PROVE KnownInv'
    BY <1>5, ReadTextKnown
<1>6. CASE NullCurrent \/ Malformed \/ EndOfFile
    BY <1>1, <1>6 DEF NullCurrent, Malformed, EndOfFile, confVars
<1>7. CASE OpenInclude \/ Finish
    BY <1>1, <1>7 DEF OpenInclude, Finish, confVars
<1>8. CASE UNCHANGED vars
    BY <1>1, <1>8 DEF vars
<1> QED BY <1>2, <1>3, <1>4, <1>5, <1>6, <1>7, <1>8 DEF Next

(* What the parser makes of files is what Confs may hold.                  *)
LEMMA ReadIs ==
    ASSUME IInv, KnownInv, NEW i \in DOMAIN modules PROVE WellRead(modules[i])
<1> DEFINE m == modules[i]
<1>1. modules \in Seq(Module) /\ DOMAIN modules = 1..Len(modules)
    BY LenProperties DEF IInv, TypeOK
<1>2. m \in Module /\ Known(m)
    BY <1>1, ElementOfSeq DEF KnownInv
<1> HIDE DEF m
<1>3. /\ m.mixPorts \in Seq([port : MixPorts, profiles : Nat])
      /\ m.devicePorts \in Seq([port : DevicePorts, profiles : Nat])
      /\ m.routes \in Seq(Routes) /\ m.attached \in Seq(Texts) /\ m.default \in Seq(Texts)
    BY <1>2, ModuleParts
<1>4. /\ IsList(m.mixPorts) /\ IsList(m.devicePorts) /\ IsList(m.routes)
      /\ IsList(m.attached) /\ IsList(m.default)
    BY <1>3, LenProperties DEF IsList
<1>5. ASSUME NEW r \in DOMAIN m.routes PROVE IsList(m.routes[r].sources)
  <2>1. m.routes[r] \in Routes
    BY <1>3, <1>4, ElementOfSeq DEF IsList
  <2>2. m.routes[r].sources \in Seq(Names)
    BY <2>1, ParserAssumption
  <2> QED BY <2>2, LenProperties DEF IsList
<1> QED BY <1>2, <1>4, <1>5 DEF WellRead, Known, m

-----------------------------------------------------------------------------
(* The lists of ports of a configuration, and those of its copy.           *)

LEMMA ListIs ==
    ASSUME NEW n \in Nat, NEW f, f = [i \in 1..n |-> f[i]]
    PROVE  IsList(f) /\ Len(f) = n /\ DOMAIN f = 1..n
<1> DEFINE S == {f[i] : i \in 1..n}
<1>1. f \in [1..n -> S]
  <2>1. \A i \in 1..n : f[i] \in S
    OBVIOUS
  <2> HIDE DEF S
  <2> QED BY <2>1
<1> HIDE DEF S
<1>2. f \in Seq(S)
    BY <1>1, SeqDef
<1>3. DOMAIN f = 1..n /\ DOMAIN f = 1..Len(f) /\ Len(f) \in Nat
    BY <1>1, <1>2, LenProperties
<1>4. Len(f) = n
    BY <1>3
<1> QED BY <1>3, <1>4 DEF IsList

(* What the lists of names and of ports become.                            *)
FoundIn(all, names) == Present([i \in DOMAIN names |-> First(Named(all, names[i]))])
CopiesIn(all, list) == Present([j \in DOMAIN list |-> CopyOf(all, list[j])])
Firsts(all) == {k \in DOMAIN all : IsFirst(all, k)}

(* A list of names becomes the list of the first ports of these names.     *)
FirstsOf(all, names) == {First(Named(all, name)) : name \in Elements(names)}

LEMMA FoundIs ==
    ASSUME NEW all, NEW n \in Nat, DOMAIN all = 1..n, NEW names, IsList(names)
    PROVE  /\ IsList(FoundIn(all, names))
           /\ Elements(FoundIn(all, names)) \subseteq Firsts(all)
           /\ Elements(FoundIn(all, names)) = FirstsOf(all, names) \ {0}
<1> DEFINE s == [i \in DOMAIN names |-> First(Named(all, names[i]))]
           T == Firsts(all)
<1>1. Len(names) \in Nat /\ DOMAIN names = 1..Len(names)
    BY DEF IsList
<1>2. IsList(s)
  <2>1. s = [i \in 1..Len(names) |-> s[i]]
    BY <1>1
  <2> HIDE DEF s
  <2> QED BY <1>1, <2>1, ListIs
<1>3. FirstsOf(all, names) \subseteq T \cup {0}
  <2> SUFFICES ASSUME NEW name PROVE First(Named(all, name)) \in T \cup {0}
    BY DEF FirstsOf
  <2> DEFINE k == First(Named(all, name))
  <2>1. k # 0 => k \in 1..n /\ IsFirst(all, k)
    BY FirstNamed
  <2> HIDE DEF k
  <2>2. k \in T \cup {0}
    BY <2>1 DEF Firsts
  <2> QED BY <2>2 DEF k
<1>4. Elements(s) = FirstsOf(all, names) /\ FoundIn(all, names) = Present(s)
    BY DEF Elements, FirstsOf, FoundIn
<1> HIDE DEF s, T
<1>5. /\ FoundIn(all, names) \in Seq(T)
      /\ Elements(FoundIn(all, names)) = FirstsOf(all, names) \ {0}
    BY <1>2, <1>3, <1>4, PresentIs
<1>6. IsList(FoundIn(all, names))
    BY <1>5, LenProperties DEF IsList
<1> QED BY <1>3, <1>5, <1>6 DEF T

(* The copy of a list of first ports has these ports.                      *)
LEMMA CopiedIs ==
    ASSUME NEW all, NEW n \in Nat, DOMAIN all = 1..n, NEW list, IsList(list),
           Elements(list) \subseteq Firsts(all)
    PROVE  /\ IsList(CopiesIn(all, list))
           /\ Elements(CopiesIn(all, list)) = Elements(list)
<1> DEFINE s == [j \in DOMAIN list |-> CopyOf(all, list[j])]
           T == Firsts(all)
<1>1. Len(list) \in Nat /\ DOMAIN list = 1..Len(list)
    BY DEF IsList
<1>2. IsList(s)
  <2>1. s = [i \in 1..Len(list) |-> s[i]]
    BY <1>1
  <2> HIDE DEF s
  <2> QED BY <1>1, <2>1, ListIs
<1>3. ASSUME NEW j \in DOMAIN list PROVE s[j] = list[j] /\ list[j] \in T /\ list[j] # 0
  <2>1. IsFirst(all, list[j]) /\ list[j] \in 1..n
    BY DEF Firsts, Elements
  <2>2. CopyOf(all, list[j]) = list[j]
    BY <2>1, CopyIs
  <2> QED BY <2>1, <2>2 DEF Firsts
<1>4. Elements(s) = Elements(list)
    BY <1>3 DEF Elements
<1>5. CopiesIn(all, list) = Present(s) /\ 0 \notin Elements(list)
  <2>1. 0 \notin Elements(list)
    BY <1>3 DEF Elements
  <2>2. CopiesIn(all, list) = Present(s)
    BY DEF CopiesIn
  <2> QED BY <2>1, <2>2
<1> HIDE DEF s, T
<1>6. /\ CopiesIn(all, list) \in Seq(T)
      /\ Elements(CopiesIn(all, list)) = Elements(list)
  <2>1. Elements(s) \subseteq T \cup {0}
    BY <1>4 DEF T
  <2>2. Present(s) \in Seq(T) /\ Elements(Present(s)) = Elements(s) \ {0}
    BY <1>2, <2>1, PresentIs, Zenon
  <2> QED BY <1>4, <1>5, <2>2
<1>7. IsList(CopiesIn(all, list))
    BY <1>6, LenProperties DEF IsList
<1> QED BY <1>6, <1>7

(* The configuration of a module that was read, as every hw module has it: *)
(* its ports are lists, of known types, and every name in it stands for    *)
(* one port.                                                               *)
Sound(c) ==
    /\ IsList(c.ports) /\ IsList(c.routes)
    /\ \A i \in DOMAIN c.ports :
          /\ c.ports[i].kind \in {"device", "mix"}
          /\ c.ports[i].kind = "device" => KnownType(c.ports[i])
    /\ \A i \in DOMAIN c.routes :
          /\ c.routes[i].sink # 0 => c.routes[i].sink \in Firsts(c.ports)
          /\ IsList(c.routes[i].sources)
          /\ Elements(c.routes[i].sources) \subseteq Firsts(c.ports)

(* What the copy has for a route of the module.                            *)
RouteCopied(c, m, i) ==
    /\ c.routes[i].sink = First(Named(c.ports, m.routes[i].sink))
    /\ Elements(c.routes[i].sources) = FirstsOf(c.ports, m.routes[i].sources) \ {0}

LEMMA GenerateIs ==
    ASSUME NEW m, WellRead(m)
    PROVE  LET g == Generate(m) c == Dup(g) IN
           /\ c.ports = Ports(m) /\ g.ports = Ports(m)
           /\ DOMAIN c.routes = DOMAIN m.routes
           /\ IsList(c.routes)
           /\ c.default = IF m.default = <<>> THEN 0 ELSE First(Named(DevicesOf(m), m.default[1]))
           /\ \A i \in DOMAIN m.routes :
                 /\ g.routes[i].sink = First(Named(g.ports, m.routes[i].sink))
                 /\ g.routes[i].sources = FoundIn(g.ports, m.routes[i].sources)
                 /\ c.routes[i].sink = CopyOf(g.ports, g.routes[i].sink)
                 /\ c.routes[i].sources = CopiesIn(g.ports, g.routes[i].sources)
<1> DEFINE g == Generate(m)
           c == Dup(g)
           attached(x) == Present([i \in DOMAIN x.ports |->
                                  IF \E j \in DOMAIN x.attached : x.attached[j] = i THEN i ELSE 0])
           routes(x) == [i \in DOMAIN x.routes |->
                        [sink |-> CopyOf(x.ports, x.routes[i].sink),
                         sources |-> CopiesIn(x.ports, x.routes[i].sources)]]
<1>1. /\ g.ports = Ports(m)
      /\ g.routes = [i \in DOMAIN m.routes |->
                        [sink |-> First(Named(Ports(m), m.routes[i].sink)),
                         sources |-> FoundIn(Ports(m), m.routes[i].sources)]]
      /\ g.default = IF m.default = <<>> THEN 0 ELSE First(Named(DevicesOf(m), m.default[1]))
      /\ g = [ports |-> g.ports, attached |-> g.attached, default |-> g.default, routes |-> g.routes]
    BY DEF Generate, Ports, DevicesOf, FoundIn
<1> HIDE DEF g
<1>2. c = [g EXCEPT !.attached = attached(g), !.routes = routes(g)]
    BY DEF Dup, CopiesIn
<1> HIDE DEF c
<1>3. c.ports = g.ports /\ c.default = g.default /\ c.routes = routes(g)
  <2> HIDE DEF attached, routes
  <2> QED BY <1>1, <1>2
<1>4. DOMAIN g.routes = DOMAIN m.routes /\ DOMAIN c.routes = DOMAIN m.routes
  <2>1. DOMAIN g.routes = DOMAIN m.routes
    BY <1>1
  <2>2. DOMAIN c.routes = DOMAIN g.routes
    BY <1>3
  <2> QED BY <2>1, <2>2
<1>5. IsList(c.routes)
  <2>1. DOMAIN m.routes = 1..Len(m.routes) /\ Len(m.routes) \in Nat
    BY DEF WellRead, IsList
  <2>2. c.routes = [i \in 1..Len(m.routes) |-> c.routes[i]]
    BY <1>3, <1>4, <2>1
  <2> QED BY <2>1, <2>2, ListIs
<1>6. ASSUME NEW i \in DOMAIN m.routes
      PROVE  /\ g.routes[i].sink = First(Named(g.ports, m.routes[i].sink))
             /\ g.routes[i].sources = FoundIn(g.ports, m.routes[i].sources)
    BY <1>1
<1>7. ASSUME NEW i \in DOMAIN m.routes
      PROVE  /\ c.routes[i].sink = CopyOf(g.ports, g.routes[i].sink)
             /\ c.routes[i].sources = CopiesIn(g.ports, g.routes[i].sources)
    BY <1>3, <1>4
<1> QED BY <1>1, <1>3, <1>4, <1>5, <1>6, <1>7, Zenon DEF c, g

LEMMA ConfigIs ==
    ASSUME NEW m, WellRead(m)
    PROVE  LET c == Dup(Generate(m)) IN
           /\ Sound(c)
           /\ c.ports = Ports(m) /\ DOMAIN c.ports = 1..Size(m) /\ Size(m) \in Nat
           /\ DOMAIN c.routes = DOMAIN m.routes
           /\ c.default = IF m.default = <<>> THEN 0 ELSE First(Named(DevicesOf(m), m.default[1]))
           /\ \A i \in DOMAIN m.routes : RouteCopied(c, m, i)
<1> DEFINE g == Generate(m)
           c == Dup(g)
           P == Ports(m)
           n == Size(m)
<1>1. /\ c.ports = P /\ g.ports = P
      /\ DOMAIN c.routes = DOMAIN m.routes
      /\ IsList(c.routes)
      /\ c.default = IF m.default = <<>> THEN 0 ELSE First(Named(DevicesOf(m), m.default[1]))
      /\ \A i \in DOMAIN m.routes :
            /\ g.routes[i].sink = First(Named(P, m.routes[i].sink))
            /\ g.routes[i].sources = FoundIn(P, m.routes[i].sources)
            /\ c.routes[i].sink = CopyOf(P, g.routes[i].sink)
            /\ c.routes[i].sources = CopiesIn(P, g.routes[i].sources)
  <2> HIDE DEF P
  <2> QED BY GenerateIs DEF P
<1>2. /\ n \in Nat /\ Len(P) = n /\ DOMAIN P = 1..n
      /\ \A i \in 1..Len(m.devicePorts) : P[i] = DevicePort(m.devicePorts[i])
      /\ \A i \in 1..Len(m.mixPorts) :
                 P[Len(m.devicePorts) + i] = MixPort(m.mixPorts[i])
      /\ Len(m.devicePorts) \in Nat /\ Len(m.mixPorts) \in Nat
  <2> DEFINE a == Len(m.devicePorts) b == Len(m.mixPorts)
  <2>1. a \in Nat /\ b \in Nat
    BY PortsOf
  <2>2. n = a + b
    BY DEF Size
  <2> HIDE DEF a, b, n
  <2>3. n \in Nat
    BY <2>1, <2>2
  <2>4. Len(m.devicePorts) \in Nat /\ Len(m.mixPorts) \in Nat
    BY <2>1 DEF a, b
  <2> QED BY <2>3, <2>4, PortsOf DEF n
<1> HIDE DEF c, g, P, n
<1>3. ASSUME NEW i \in DOMAIN P
      PROVE  P[i].kind \in {"device", "mix"} /\ (P[i].kind = "device" => KnownType(P[i]))
  <2>1. CASE i \in 1..Len(m.devicePorts)
    <3>1. KnownType(m.devicePorts[i].port)
        BY <2>1 DEF WellRead, IsList
    <3>2. P[i] = DevicePort(m.devicePorts[i])
        BY <1>2, <2>1
    <3>3. /\ P[i].kind = "device" /\ P[i].type = m.devicePorts[i].port.type
          /\ P[i].role = m.devicePorts[i].port.role
        BY <3>2 DEF DevicePort
    <3> QED BY <3>1, <3>3 DEF KnownType
  <2>2. CASE i \notin 1..Len(m.devicePorts)
    <3> DEFINE a == Len(m.devicePorts) b == Len(m.mixPorts) k == i - a
    <3>1. i \in 1..(a + b) /\ i \notin 1..a /\ a \in Nat /\ b \in Nat
        BY <1>2, <2>2 DEF Size, n
    <3>4. k \in 1..b /\ i = a + k
        <4> HIDE DEF a, b
        <4> QED BY <3>1
    <3> HIDE DEF k
    <3>2. P[i] = MixPort(m.mixPorts[k])
        BY <1>2, <3>4
    <3> QED BY <3>2 DEF MixPort
  <2> QED BY <2>1, <2>2
<1>4. ASSUME NEW i \in DOMAIN m.routes
      PROVE  /\ c.routes[i].sink = First(Named(P, m.routes[i].sink))
             /\ c.routes[i].sink # 0 => c.routes[i].sink \in Firsts(P)
  <2> DEFINE k == First(Named(P, m.routes[i].sink))
  <2>1. k # 0 => k \in 1..n /\ IsFirst(P, k)
    BY <1>2, FirstNamed
  <2> HIDE DEF k
  <2>2. CopyOf(P, k) = k
    BY <1>2, <2>1, CopyIs
  <2>3. c.routes[i].sink = CopyOf(P, k)
    BY <1>1 DEF k
  <2> QED BY <1>2, <2>1, <2>2, <2>3 DEF Firsts, k
<1>5. ASSUME NEW i \in DOMAIN m.routes
      PROVE  /\ IsList(c.routes[i].sources)
             /\ Elements(c.routes[i].sources) \subseteq Firsts(P)
             /\ Elements(c.routes[i].sources) = FirstsOf(P, m.routes[i].sources) \ {0}
  <2> DEFINE names == m.routes[i].sources
             found == FoundIn(P, names)
             copy == c.routes[i].sources
  <2>1. IsList(names)
    BY DEF WellRead
  <2>2. copy = CopiesIn(P, found)
    BY <1>1
  <2>3. /\ IsList(found) /\ Elements(found) \subseteq Firsts(P)
        /\ Elements(found) = FirstsOf(P, names) \ {0}
    <3> HIDE DEF names
    <3> QED BY <1>2, <2>1, FoundIs
  <2> HIDE DEF names, found, copy
  <2>4. IsList(copy) /\ Elements(copy) = Elements(found)
    BY <1>2, <2>2, <2>3, CopiedIs
  <2> QED BY <2>3, <2>4 DEF copy, names
<1>6. Sound(c)
  <2>1. IsList(c.ports)
    BY <1>1, <1>2 DEF IsList
  <2> QED BY <1>1, <1>3, <1>4, <1>5, <2>1 DEF Sound
<1>7. \A i \in DOMAIN m.routes : RouteCopied(c, m, i)
    BY <1>1, <1>4, <1>5 DEF RouteCopied
<1> QED BY <1>1, <1>2, <1>6, <1>7 DEF c, g, P, n

-----------------------------------------------------------------------------
(* From the files to the card's configuration.                             *)

(* What is known of the modules, and of the configuration of the card that *)
(* is made of one of them.                                                 *)
FilesInv ==
    /\ status # "done" => IInv /\ KnownInv
    /\ status = "done" => IsList(modules) /\ \A i \in DOMAIN modules : WellRead(modules[i])

Fresh ==
    /\ stage = "routes" /\ next = [route |-> 1, source |-> 1]
    /\ mappings = <<>> /\ outputs = <<>> /\ inputs = <<>>
    /\ ports = << >> /\ card = << >>

LoadInv ==
    /\ loaded = 0 => Fresh /\ mod = NoConfig
    /\ loaded # 0 => /\ status = "done" /\ loaded \in DOMAIN modules
                     /\ mod = Dup(Generate(modules[loaded]))

NextInv ==
    /\ next = [route |-> next.route, source |-> next.source]
    /\ next.route \in Nat \ {0} /\ next.source \in Nat \ {0}

CrashInv == stage = "crashed" => \E i \in 1..Len(mod.routes) : mod.routes[i].sink = 0

ConfInv == FilesInv /\ LoadInv /\ NextInv /\ CrashInv

LEMMA ConfInit ==
    ASSUME ConfigInit PROVE ConfInv
<1>1. Fresh /\ mod = NoConfig /\ loaded = 0
    BY DEF ConfigInit, ProfileInit, Fresh
<1>2. LoadInv
    BY <1>1 DEF LoadInv
<1>3. NextInv /\ CrashInv
    BY <1>1 DEF Fresh, NextInv, CrashInv
<1>4. CASE Init
  <2>1. status # "done"
    BY <1>4 DEF Init
  <2>2. KnownInv
    BY <1>4 DEF Init, KnownInv
  <2> QED BY <1>2, <1>3, <1>4, <2>1, <2>2, IInvInit DEF ConfInv, FilesInv
<1>5. ASSUME NEW c \in Confs, status = "done", modules = <<c>> PROVE ConfInv
  <2>1. DOMAIN modules = {1} /\ modules[1] = c
    BY <1>5
  <2>2. WellRead(c)
    BY ConfsAssumption
  <2>3. \A i \in DOMAIN modules : WellRead(modules[i])
    BY <2>1, <2>2
  <2>4. IsList(modules)
    BY <1>5 DEF IsList
  <2> QED BY <1>2, <1>3, <1>5, <2>3, <2>4 DEF ConfInv, FilesInv
<1> QED BY <1>4, <1>5 DEF ConfigInit

(* When all files were read, nothing more is; and the last step of reading *)
(* leaves the modules alone.                                               *)
LEMMA DoneIsLast ==
    ASSUME Next PROVE status # "done" /\ (status' = "done" => modules' = modules)
<1>1. ASSUME NEW n, MayOpen(n) PROVE status = "reading"
    BY <1>1 DEF MayOpen
<1>2. CASE ReadElement
  <2> SUFFICES status = "reading" /\ status' = status
    OBVIOUS
  <2>1. CASE \E tag \in Tags : IgnoreElement(tag)
    BY <2>1, <1>1 DEF IgnoreElement, Enter
  <2>2. CASE \E n \in Nodes : Section(n) \/ ReadInclude(n)
    BY <2>2, <1>1 DEF Section, ReadInclude, Enter
  <2>3. CASE ReadModule
    BY <2>3, <1>1 DEF ReadModule, Enter
  <2>4. CASE \E p \in MixPorts : ReadMixPort(p)
    BY <2>4, <1>1 DEF ReadMixPort, Enter
  <2>5. CASE \E d \in DevicePorts : ReadDevicePort(d)
    BY <2>5, <1>1 DEF ReadDevicePort, Enter
  <2>6. CASE \E usable \in BOOLEAN : ReadProfile(usable)
    BY <2>6, <1>1 DEF ReadProfile, Enter
  <2>7. CASE \E r \in Routes : ReadRoute(r)
    BY <2>7, <1>1 DEF ReadRoute, Enter
  <2> QED BY <1>2, <2>1, <2>2, <2>3, <2>4, <2>5, <2>6, <2>7 DEF ReadElement
<1>3. ASSUME NEW n \in Nodes, Reject(n) PROVE status = "reading" /\ status' # "done"
    BY <1>1, <1>3, GiveUpIs DEF Reject
<1>4. CASE EndElement \/ NullCurrent \/ Malformed \/ EndOfFile \/ \E t \in Texts : ReadText(t)
    BY <1>4, GiveUpIs DEF EndElement, NullCurrent, Malformed, EndOfFile, ReadText
<1>5. CASE OpenInclude \/ Finish
    BY <1>5 DEF OpenInclude, Finish, confVars
<1> QED BY <1>2, <1>3, <1>4, <1>5 DEF Next

LEMMA ParseFiles ==
    ASSUME FilesInv, Next PROVE FilesInv'
<1>1. status # "done" /\ IInv /\ KnownInv /\ (status' = "done" => modules' = modules)
    BY DoneIsLast DEF FilesInv
<1>2. IInv' /\ KnownInv'
    BY <1>1, IInvStep, KnownStep
<1>3. \A i \in DOMAIN modules : WellRead(modules[i])
    BY <1>1, ReadIs
<1>4. IsList(modules)
    BY <1>1, LenProperties DEF IInv, TypeOK, IsList
<1>5. status' = "done" => (IsList(modules) /\ \A i \in DOMAIN modules : WellRead(modules[i]))'
    BY <1>1, <1>3, <1>4
<1> QED BY <1>2, <1>5 DEF FilesInv

(* The files as they are.                                                  *)
LEMMA SameFiles ==
    ASSUME FilesInv, UNCHANGED vars PROVE FilesInv'
<1>1. CASE status # "done"
  <2>1. IInv' /\ KnownInv' /\ status' = status
    BY <1>1, IInvStep, KnownStep DEF FilesInv, vars
  <2> QED BY <1>1, <2>1 DEF FilesInv
<1>2. CASE status = "done"
  <2>1. status' = status /\ modules' = modules
    BY DEF vars
  <2> QED BY <1>2, <2>1 DEF FilesInv
<1> QED BY <1>1, <1>2

(* Every step of the profile keeps the configuration, and the position is  *)
(* one.                                                                    *)
LEMMA ProfileKeeps ==
    ASSUME NextInv, CrashInv, ProfileNext
    PROVE  mod' = mod /\ NextInv' /\ CrashInv'
<1>1. mod' = mod
    BY DEF ProfileNext, UpdateOutput, UpdateInput, Join, SkipPatch, Confused, NullSink, NextRoute,
           RoutesDone, AddCardPorts, CardDone
<1>2. ASSUME Advance PROVE NextInv'
    BY <1>2 DEF Advance, NextInv
<1>3. ASSUME UNCHANGED next PROVE NextInv'
    BY <1>3 DEF NextInv
<1>4. ASSUME NEW x, NEW d, NEW i, Join(x, d, i) 
      PROVE  NextInv' /\ stage' \in {stage, "aborted"}
    BY <1>2, <1>3, <1>4 DEF Join
<1>5. CASE UpdateOutput \/ UpdateInput
    BY <1>1, <1>4, <1>5 DEF UpdateOutput, UpdateInput, CrashInv
<1>6. CASE SkipPatch \/ NextRoute
    BY <1>1, <1>2, <1>6 DEF SkipPatch, NextRoute, CrashInv
<1>7. CASE Confused
    BY <1>1, <1>3, <1>7 DEF Confused, CrashInv
<1>8. CASE NullSink
  <2>1. next' = next /\ next.route \in 1..Len(mod.routes) /\ mod.routes[next.route].sink = 0
    <3>1. next' = next /\ next.route <= Len(mod.routes) /\ mod.routes[next.route].sink = 0
        BY <1>8 DEF NullSink, InRoute, Route
    <3>2. next.route \in Nat \ {0}
        BY DEF NextInv
    <3> QED BY <3>1, <3>2
  <2> QED BY <1>1, <1>3, <2>1 DEF CrashInv
<1>9. CASE RoutesDone
    BY <1>1, <1>9 DEF RoutesDone, NextInv, CrashInv
<1>10. CASE AddCardPorts
  <2>1. stage' = stage /\ stage = "card" /\ next' = [next EXCEPT !.route = @ + 1]
    BY <1>10 DEF AddCardPorts
  <2>2. NextInv'
    BY <2>1 DEF NextInv
  <2> QED BY <1>1, <2>1, <2>2 DEF CrashInv
<1>11. CASE CardDone
    BY <1>1, <1>3, <1>11 DEF CardDone, CrashInv
<1> QED BY <1>1, <1>5, <1>6, <1>7, <1>8, <1>9, <1>10, <1>11 DEF ProfileNext

LEMMA ConfStep ==
    ASSUME ConfInv, [ConfigNext]_allVars PROVE ConfInv'
<1>1. CASE Parse
  <2>1. FilesInv' /\ status # "done" /\ loaded' = loaded /\ UNCHANGED profileVars
    BY <1>1, ParseFiles, DoneIsLast DEF Parse, ConfInv
  <2>2. loaded = 0
    BY <2>1 DEF ConfInv, LoadInv
  <2> QED BY <2>1, <2>2 DEF ConfInv, LoadInv, Fresh, NextInv, CrashInv, profileVars
<1>2. ASSUME NEW m \in DOMAIN modules, Load(m) PROVE ConfInv'
  <2>1. /\ loaded = 0 /\ status = "done" /\ loaded' = m /\ mod' = Dup(Generate(modules[m]))
        /\ UNCHANGED <<vars, stage, next, mappings, outputs, inputs, ports, card>>
    BY <1>2 DEF Load
  <2>2. Fresh
    BY <2>1 DEF ConfInv, LoadInv
  <2>3. FilesInv'
    BY <2>1, SameFiles DEF ConfInv
  <2>4. modules' = modules /\ status' = status
    BY <2>1 DEF vars
  <2>5. loaded' # 0
    <3>1. IsList(modules)
        BY <2>1 DEF ConfInv, FilesInv
    <3>2. m # 0
        BY <3>1 DEF IsList
    <3> QED BY <2>1, <3>2
  <2>6. LoadInv'
    BY <2>1, <2>4, <2>5 DEF LoadInv
  <2> QED BY <2>1, <2>2, <2>3, <2>6 DEF ConfInv, Fresh, NextInv, CrashInv
<1>3. CASE MakeProfile
  <2>1. loaded # 0 /\ ProfileNext /\ loaded' = loaded /\ UNCHANGED vars
    BY <1>3 DEF MakeProfile
  <2>2. mod' = mod /\ NextInv' /\ CrashInv'
    BY <2>1, ProfileKeeps DEF ConfInv
  <2>3. FilesInv'
    BY <2>1, SameFiles DEF ConfInv
  <2> QED BY <2>1, <2>2, <2>3 DEF ConfInv, LoadInv, vars
<1>4. CASE UNCHANGED allVars
  <2>1. FilesInv'
    BY <1>4, SameFiles DEF ConfInv, allVars
  <2> QED BY <1>4, <2>1 DEF ConfInv, LoadInv, Fresh, NextInv, CrashInv, allVars, vars, profileVars
<1> QED BY <1>1, <1>2, <1>3, <1>4 DEF ConfigNext

-----------------------------------------------------------------------------
(* The ports as read, and those of the card's configuration.               *)

Loaded == modules[loaded]

LEMMA ReadPortsIs ==
    ASSUME WellRead(Loaded)
    PROVE  /\ Size(Loaded) \in Nat
           /\ Len(Loaded.devicePorts) \in 0..Size(Loaded)
           /\ DOMAIN ReadPorts = 1..Size(Loaded)
           /\ DOMAIN Ports(Loaded) = 1..Size(Loaded)
           /\ \A i \in 1..Size(Loaded) :
                 /\ Ports(Loaded)[i].name = ReadPorts[i].name
                 /\ Ports(Loaded)[i].role = ReadPorts[i].role
                 /\ ~IsMix(i) => /\ Ports(Loaded)[i].kind = "device"
                                 /\ Ports(Loaded)[i].type = ReadPorts[i].type
                                 /\ Ports(Loaded)[i] = DevicesOf(Loaded)[i]
                 /\ IsMix(i) => Ports(Loaded)[i].kind = "mix"
           /\ DOMAIN DevicesOf(Loaded) = 1..Len(Loaded.devicePorts)
<1> DEFINE m == Loaded
           a == Len(m.devicePorts) b == Len(m.mixPorts)
           f == [i \in DOMAIN m.devicePorts |-> m.devicePorts[i].port]
           g == [i \in DOMAIN m.mixPorts |-> m.mixPorts[i].port]
           P == Ports(m)
           n == Size(m)
<1>1. a \in Nat /\ b \in Nat /\ DOMAIN m.devicePorts = 1..a /\ DOMAIN m.mixPorts = 1..b
    BY DEF WellRead, IsList
<1>2. ReadPorts = f \o g
    BY DEF ReadPorts, Loaded
<1>3. n = a + b
    BY DEF Size
<1>4. /\ \A i \in 1..a : f[i] = m.devicePorts[i].port /\ DevicesOf(m)[i] = DevicePort(m.devicePorts[i])
      /\ \A i \in 1..b : g[i] = m.mixPorts[i].port
      /\ DOMAIN DevicesOf(m) = 1..a
    BY <1>1 DEF DevicesOf
<1>5. f = [i \in 1..a |-> f[i]] /\ g = [i \in 1..b |-> g[i]]
    BY <1>1
<1>6. /\ DOMAIN P = 1..n
      /\ \A i \in 1..a : P[i] = DevicePort(m.devicePorts[i])
      /\ \A i \in 1..b : P[a + i] = MixPort(m.mixPorts[i])
  <2> HIDE DEF m
  <2> QED BY PortsOf DEF m
<1>7. \A i : IsMix(i) <=> i > a
    BY DEF IsMix, Loaded
<1> HIDE DEF f, g, a, b, P, n
<1>8. /\ DOMAIN (f \o g) = 1..(a + b)
      /\ \A i \in 1..a : (f \o g)[i] = f[i]
      /\ \A i \in 1..b : (f \o g)[a + i] = g[i]
    BY <1>1, <1>5, JoinIs
<1>9. ASSUME NEW i \in 1..a
      PROVE  /\ P[i].name = ReadPorts[i].name /\ P[i].role = ReadPorts[i].role
             /\ P[i].kind = "device" /\ P[i].type = ReadPorts[i].type /\ ~IsMix(i)
             /\ P[i] = DevicesOf(m)[i]
  <2>1. ReadPorts[i] = m.devicePorts[i].port /\ P[i] = DevicePort(m.devicePorts[i]) /\ ~IsMix(i)
    BY <1>1, <1>2, <1>4, <1>6, <1>7, <1>8
  <2> QED BY <1>4, <2>1 DEF DevicePort
<1>10. ASSUME NEW i \in 1..b
       PROVE  /\ P[a + i].name = ReadPorts[a + i].name /\ P[a + i].role = ReadPorts[a + i].role
              /\ P[a + i].kind = "mix" /\ IsMix(a + i)
  <2>1. ReadPorts[a + i] = m.mixPorts[i].port /\ P[a + i] = MixPort(m.mixPorts[i])
    BY <1>1, <1>2, <1>4, <1>6, <1>8
  <2>2. IsMix(a + i)
    BY <1>1, <1>7
  <2> QED BY <2>1, <2>2 DEF MixPort
<1>11. \A i \in 1..n : i \in 1..a \/ \E k \in 1..b : i = a + k
  <2> SUFFICES ASSUME NEW i \in 1..n, i \notin 1..a PROVE \E k \in 1..b : i = a + k
    OBVIOUS
  <2>1. i - a \in 1..b /\ i = a + (i - a)
    BY <1>1, <1>3
  <2> QED BY <2>1
<1>12. n \in Nat /\ a \in 0..n
    BY <1>1, <1>3
<1>13. DOMAIN ReadPorts = 1..n
    BY <1>2, <1>3, <1>8
<1>14. \A i \in 1..n :
                 /\ P[i].name = ReadPorts[i].name
                 /\ P[i].role = ReadPorts[i].role
                 /\ ~IsMix(i) => /\ P[i].kind = "device"
                                 /\ P[i].type = ReadPorts[i].type
                                 /\ P[i] = DevicesOf(m)[i]
                 /\ IsMix(i) => P[i].kind = "mix"
    BY <1>9, <1>10, <1>11
<1> QED BY <1>4, <1>6, <1>12, <1>13, <1>14 DEF P, n, a

(* A name stands for the same ports.                                       *)
LEMMA SameNamed ==
    ASSUME WellRead(Loaded), NEW name
    PROVE  /\ Named(ReadPorts, name) = Named(Ports(Loaded), name)
           /\ First(Named(Ports(Loaded), name)) = 0 <=> Named(ReadPorts, name) = {}
           /\ First(Named(Ports(Loaded), name)) # 0 =>
                 /\ First(Named(Ports(Loaded), name)) \in 1..Size(Loaded)
                 /\ Ports(Loaded)[First(Named(Ports(Loaded), name))].name = name
<1> DEFINE P == Ports(Loaded)
<1>1. /\ Size(Loaded) \in Nat /\ DOMAIN P = 1..Size(Loaded) /\ DOMAIN ReadPorts = 1..Size(Loaded)
      /\ \A i \in 1..Size(Loaded) : P[i].name = ReadPorts[i].name
    BY ReadPortsIs
<1> HIDE DEF P
<1>2. Named(ReadPorts, name) = Named(P, name)
    BY <1>1 DEF Named
<1>3. /\ First(Named(P, name)) = 0 <=> Named(P, name) = {}
      /\ First(Named(P, name)) # 0 =>
            /\ First(Named(P, name)) \in 1..Size(Loaded)
            /\ P[First(Named(P, name))].name = name
    BY <1>1, FirstNamed
<1> QED BY <1>2, <1>3 DEF P

LEMMA RoutesKept ==
    ASSUME ConfInv PROVE CopyKeepsRoutes /\ CrashHasLostPort
<1> DEFINE m == Loaded
           P == Ports(m)
<1>1. CASE loaded = 0
  <2>1. stage = "routes"
    BY <1>1 DEF ConfInv, LoadInv, Fresh
  <2> QED BY <1>1, <2>1 DEF CopyKeepsRoutes, CrashHasLostPort
<1>2. CASE loaded # 0
  <2>1. WellRead(m) /\ mod = Dup(Generate(m))
    BY <1>2 DEF ConfInv, LoadInv, FilesInv, Loaded
  <2> HIDE DEF m
  <2>2. /\ Sound(mod) /\ mod.ports = P /\ DOMAIN mod.routes = DOMAIN m.routes
        /\ \A i \in DOMAIN m.routes : RouteCopied(mod, m, i)
    BY <2>1, ConfigIs
  <2>3. IsList(m.routes) /\ IsList(mod.routes)
    BY <2>1, <2>2 DEF WellRead, Sound
  <2>4. Len(mod.routes) = Len(m.routes) /\ DOMAIN m.routes = 1..Len(mod.routes)
    BY <2>2, <2>3 DEF IsList
  <2>5. \A name : /\ First(Named(P, name)) = 0 <=> Named(ReadPorts, name) = {}
                  /\ First(Named(P, name)) # 0 => P[First(Named(P, name))].name = name
    BY <2>1, SameNamed DEF m
  <2> HIDE DEF P
  <2>6. ASSUME NEW i \in DOMAIN m.routes
        PROVE  /\ mod.routes[i].sink = 0 <=> Named(ReadPorts, m.routes[i].sink) = {}
               /\ mod.routes[i].sink # 0 => mod.ports[mod.routes[i].sink].name = m.routes[i].sink
    BY <2>2, <2>5 DEF RouteCopied
  <2>7. ASSUME NEW i \in DOMAIN m.routes
        PROVE  {mod.ports[s].name : s \in Elements(mod.routes[i].sources)}
                    = {s \in Elements(m.routes[i].sources) : Named(ReadPorts, s) # {}}
    <3> DEFINE names == Elements(m.routes[i].sources)
    <3>1. Elements(mod.routes[i].sources) = {First(Named(P, name)) : name \in names} \ {0}
        BY <2>2 DEF RouteCopied, FirstsOf
    <3> HIDE DEF names
    <3> QED BY <2>2, <2>5, <3>1 DEF names
  <2>8. CopyKeepsRoutes
    BY <2>4, <2>6, <2>7 DEF CopyKeepsRoutes, Loaded, m
  <2>9. CrashHasLostPort
    <3> SUFFICES ASSUME stage = "crashed"
                 PROVE  \E r \in Elements(m.routes) : Named(ReadPorts, r.sink) = {}
        BY DEF CrashHasLostPort, Loaded, m
    <3>1. PICK i \in 1..Len(mod.routes) : mod.routes[i].sink = 0
        BY DEF ConfInv, CrashInv
    <3>2. Named(ReadPorts, m.routes[i].sink) = {} /\ m.routes[i] \in Elements(m.routes)
        BY <2>4, <2>6, <3>1 DEF Elements
    <3> QED BY <3>2
  <2> QED BY <2>8, <2>9
<1> QED BY <1>1, <1>2

(* For any files, the card's configuration has the routes of the module as *)
(* read: a port no element was read for is lost, and nothing else is.  The *)
(* profile crashes only on a route to such a port.                         *)
THEOREM LostPortsCorrect == ConfigSpec => []LostPortsOnly
<1>1. ConfInv => LostPortsOnly
    BY RoutesKept DEF LostPortsOnly
<1> QED BY ConfInit, ConfStep, <1>1, PTL DEF ConfigSpec

-----------------------------------------------------------------------------
(* Mappings.  How far the routes were gone through, and which pairs of a   *)
(* mix port and a device port they joined.                                 *)

Alive == stage \in {"routes", "card", "ready"}
Sources(r) == mod.routes[r].sources
Past(r, s) ==
    \/ stage \in {"card", "ready"}
    \/ r < next.route
    \/ r = next.route /\ s < next.source

Joins(kind, r, s, x, d) ==
    /\ mod.routes[r].sink # 0
    /\ kind = "output" => x = Sources(r)[s] /\ d = mod.routes[r].sink
    /\ kind = "input" => x = mod.routes[r].sink /\ d = Sources(r)[s]
    /\ Kind(x) = "mix" /\ Kind(d) = "device"

Joined(kind, x, d) ==
    \E r \in 1..Len(mod.routes) : \E s \in 1..Len(Sources(r)) : Past(r, s) /\ Joins(kind, r, s, x, d)
Joint(x, d) == Joined("output", x, d) \/ Joined("input", x, d)

Mixes == {k \in Firsts(mod.ports) : Kind(k) = "mix"}
Mapping == [mix : Nat, dir : {"output", "input"}, devices : SUBSET Nat, ports : SUBSET PortNames]

(* There is one mapping of a mix port.                                     *)
MixInv ==
    /\ mappings \in Seq(Mapping)
    /\ \A i \in 1..Len(mappings) : /\ mappings[i].mix \in Mixes
                                   /\ mappings[i].dir = Direction(mappings[i].mix)
    /\ \A i, j \in 1..Len(mappings) : mappings[i].mix = mappings[j].mix => i = j

(* It reaches what its mix port was joined with.                           *)
ReachInv ==
    \A i \in 1..Len(mappings) :
        /\ \A d : d \in mappings[i].devices <=> Joint(mappings[i].mix, d)
        /\ mappings[i].ports = {mod.ports[d].type : d \in mappings[i].devices}
                                    \cup {Parking(mappings[i].dir)}

(* A list of the profile has the mappings of the mix ports joined.         *)
ListInv(kind, list) ==
    /\ list \in Seq(1..Len(mappings))
    /\ \A i, j \in 1..Len(list) : mappings[list[i]].mix = mappings[list[j]].mix => i = j
    /\ \A x : (\E i \in 1..Len(list) : mappings[list[i]].mix = x) <=> \E d : Joined(kind, x, d)

(* A port stands for parking, or for a type with a device of that type.    *)
PortOK(name) ==
    \/ /\ name \in {OutputParking, InputParking}
       /\ ports[name].device = 0 /\ ports[name].priority = 50
    \/ /\ name \in OutTypes \cup InTypes
       /\ ports[name].device \in DOMAIN mod.ports /\ Kind(ports[name].device) = "device"
       /\ mod.ports[ports[name].device].type = name
       /\ ports[name].priority = Priority(name)
PortInv ==
    /\ \A i \in 1..Len(mappings) : mappings[i].ports \subseteq DOMAIN ports
    /\ \A name \in DOMAIN ports : PortOK(name)

MapInv == MixInv /\ ReachInv /\ ListInv("output", outputs) /\ ListInv("input", inputs) /\ PortInv

-----------------------------------------------------------------------------
(* The position moves past one source, or past a route without any.        *)

LEMMA RoutesAre ==
    ASSUME Sound(mod)
    PROVE  /\ Len(mod.routes) \in Nat /\ DOMAIN mod.routes = 1..Len(mod.routes)
           /\ \A r \in 1..Len(mod.routes) :
                 /\ Len(Sources(r)) \in Nat /\ DOMAIN Sources(r) = 1..Len(Sources(r))
                 /\ mod.routes[r].sink # 0 => mod.routes[r].sink \in Firsts(mod.ports)
                 /\ \A s \in 1..Len(Sources(r)) : Sources(r)[s] \in Firsts(mod.ports)
<1>1. IsList(mod.routes)
    BY DEF Sound
<1>2. ASSUME NEW r \in DOMAIN mod.routes
      PROVE  /\ IsList(Sources(r)) /\ Elements(Sources(r)) \subseteq Firsts(mod.ports)
             /\ mod.routes[r].sink # 0 => mod.routes[r].sink \in Firsts(mod.ports)
    BY DEF Sound, Sources
<1>3. \A r \in DOMAIN mod.routes : \A s \in DOMAIN Sources(r) : Sources(r)[s] \in Firsts(mod.ports)
    BY <1>2 DEF Elements
<1> QED BY <1>1, <1>2, <1>3 DEF IsList

LEMMA PastSource ==
    ASSUME Sound(mod), NextInv, InRoute, HasSource, Advance, stage' = stage, mod' = mod
    PROVE  \A r \in 1..Len(mod.routes) : \A s \in 1..Len(Sources(r)) :
              Past(r, s)' <=> Past(r, s) \/ (r = next.route /\ s = next.source)
<1> SUFFICES ASSUME NEW r \in 1..Len(mod.routes), NEW s \in 1..Len(Sources(r))
             PROVE  Past(r, s)' <=> Past(r, s) \/ (r = next.route /\ s = next.source)
    OBVIOUS
<1> DEFINE n == Len(Sources(next.route)) k == next.route h == next.source
<1>1. k \in 1..Len(mod.routes) /\ k \in Nat /\ h \in Nat /\ n \in Nat /\ h <= n
      /\ r \in Nat /\ s \in Nat
  <2>1. k \in Nat \ {0} /\ h \in Nat \ {0} /\ k <= Len(mod.routes) /\ h <= n
    BY DEF NextInv, InRoute, HasSource, Route, Sources
  <2>2. k \in 1..Len(mod.routes)
    BY <2>1, RoutesAre
  <2>3. n \in Nat
    BY <2>2, RoutesAre
  <2> QED BY <2>1, <2>2, <2>3, RoutesAre
<1>2. stage = "routes" /\ stage' = "routes"
    BY DEF InRoute
<1>3. r = k => s <= n
    BY <1>1, RoutesAre
<1>4. CASE h < n
  <2>1. next'.route = k /\ next'.source = h + 1
    BY <1>4 DEF Advance, NextInv, Sources
  <2> HIDE DEF n, k, h
  <2>2. Past(r, s)' <=> r < k \/ (r = k /\ s < h + 1)
    BY <1>2, <2>1 DEF Past
  <2>3. Past(r, s) <=> r < k \/ (r = k /\ s < h)
    BY <1>2 DEF Past, k, h
  <2> QED BY <1>1, <2>2, <2>3 DEF k, h
<1>5. CASE ~(h < n)
  <2>1. next'.route = k + 1 /\ next'.source = 1
    BY <1>5 DEF Advance, NextInv, Sources
  <2> HIDE DEF n, k, h
  <2>2. Past(r, s)' <=> r < k + 1 \/ (r = k + 1 /\ s < 1)
    BY <1>2, <2>1 DEF Past
  <2>3. Past(r, s) <=> r < k \/ (r = k /\ s < h)
    BY <1>2 DEF Past, k, h
  <2>4. h = n /\ ~(s < 1)
    BY <1>1, <1>5
  <2>5. r < k + 1 <=> r < k \/ r = k
    BY <1>1
  <2>6. r = k => s < h \/ s = h
    BY <1>1, <1>3, <2>4
  <2> QED BY <2>2, <2>3, <2>4, <2>5, <2>6 DEF k, h
<1> QED BY <1>4, <1>5

LEMMA PastEmpty ==
    ASSUME Sound(mod), NextInv, NextRoute
    PROVE  \A r \in 1..Len(mod.routes) : \A s \in 1..Len(Sources(r)) : Past(r, s)' <=> Past(r, s)
<1> SUFFICES ASSUME NEW r \in 1..Len(mod.routes), NEW s \in 1..Len(Sources(r))
             PROVE  Past(r, s)' <=> Past(r, s)
    OBVIOUS
<1> DEFINE n == Len(Sources(next.route)) k == next.route h == next.source
<1>1. InRoute /\ ~HasSource /\ h = 1 /\ Advance /\ stage' = stage
    BY DEF NextRoute
<1>2. k \in 1..Len(mod.routes) /\ k \in Nat /\ n \in Nat /\ ~(1 <= n) /\ r \in Nat /\ s \in Nat
  <2>1. k \in Nat \ {0} /\ k <= Len(mod.routes) /\ ~(1 <= n)
    BY <1>1 DEF NextInv, InRoute, HasSource, Route, Sources
  <2>2. k \in 1..Len(mod.routes)
    BY <2>1, RoutesAre
  <2>3. n \in Nat
    BY <2>2, RoutesAre
  <2> QED BY <2>1, <2>2, <2>3, RoutesAre
<1>3. stage = "routes" /\ stage' = "routes"
    BY <1>1 DEF InRoute
<1>4. r # k
    BY <1>2, RoutesAre
<1>5. next'.route = k + 1 /\ next'.source = 1
  <2>1. ~(h < n)
    <3> HIDE DEF n
    <3> QED BY <1>1, <1>2
  <2> QED BY <1>1, <2>1 DEF Advance, Sources
<1> HIDE DEF n, k, h
<1>6. Past(r, s)' <=> r < k + 1 \/ (r = k + 1 /\ s < 1)
    BY <1>3, <1>5 DEF Past
<1>7. Past(r, s) <=> r < k
    BY <1>3, <1>4 DEF Past, k
<1> QED BY <1>2, <1>4, <1>6, <1>7

LEMMA PastAll ==
    ASSUME Sound(mod), NextInv, RoutesDone
    PROVE  \A r \in 1..Len(mod.routes) : \A s \in 1..Len(Sources(r)) : Past(r, s)' /\ Past(r, s)
<1>1. Len(mod.routes) \in Nat /\ next.route \in Nat /\ next.route > Len(mod.routes) /\ stage' = "card"
    BY RoutesAre DEF NextInv, RoutesDone
<1>2. \A r \in 1..Len(mod.routes) : r < next.route
    BY <1>1
<1> QED BY <1>1, <1>2 DEF Past

(* The pairs stay joined, and one more may be.                             *)
LEMMA JoinedSame ==
    ASSUME mod' = mod,
           \A r \in 1..Len(mod.routes) : \A s \in 1..Len(Sources(r)) : Past(r, s)' <=> Past(r, s),
           NEW kind, NEW x, NEW d
    PROVE  Joined(kind, x, d)' <=> Joined(kind, x, d)
<1>1. \A r, s : Joins(kind, r, s, x, d)' <=> Joins(kind, r, s, x, d)
    BY DEF Joins, Sources, Kind
<1>2. \A r : Sources(r)' = Sources(r)
    BY DEF Sources
<1> QED BY <1>1, <1>2 DEF Joined

LEMMA JoinedOne ==
    ASSUME Sound(mod), NextInv, InRoute, HasSource, Advance, stage' = stage, mod' = mod,
           NEW kind, NEW x, NEW d
    PROVE  Joined(kind, x, d)' <=> Joined(kind, x, d) \/ Joins(kind, next.route, next.source, x, d)
<1>1. \A r, s : Joins(kind, r, s, x, d)' <=> Joins(kind, r, s, x, d)
    BY DEF Joins, Sources, Kind
<1>2. \A r : Sources(r)' = Sources(r)
    BY DEF Sources
<1>3. \A r \in 1..Len(mod.routes) : \A s \in 1..Len(Sources(r)) :
              Past(r, s)' <=> Past(r, s) \/ (r = next.route /\ s = next.source)
    BY PastSource
<1>4. next.route \in 1..Len(mod.routes) /\ next.source \in 1..Len(Sources(next.route))
  <2>1. /\ next.route \in Nat \ {0} /\ next.source \in Nat \ {0} /\ next.route <= Len(mod.routes)
        /\ next.source <= Len(Sources(next.route))
    BY DEF NextInv, InRoute, HasSource, Route, Sources
  <2>2. next.route \in 1..Len(mod.routes)
    BY <2>1, RoutesAre
  <2>3. Len(Sources(next.route)) \in Nat
    BY <2>2, RoutesAre
  <2> QED BY <2>1, <2>2, <2>3
<1> QED BY <1>1, <1>2, <1>3, <1>4 DEF Joined

-----------------------------------------------------------------------------
(* A pair is joined into the mapping of its mix port.                      *)

LEMMA FirstsSame ==
    ASSUME Sound(mod), NEW a \in Firsts(mod.ports), NEW b \in Firsts(mod.ports),
           mod.ports[a].name = mod.ports[b].name
    PROVE  a = b
<1>1. DOMAIN mod.ports = 1..Len(mod.ports) /\ Len(mod.ports) \in Nat
    BY DEF Sound, IsList
<1>2. a \in DOMAIN mod.ports /\ b \in DOMAIN mod.ports /\ a <= b /\ b <= a
    BY DEF Firsts, IsFirst, Named
<1> QED BY <1>1, <1>2

LEMMA MixesAre ==
    ASSUME Sound(mod)
    PROVE  Mixes \subseteq 1..Len(mod.ports) /\ Len(mod.ports) \in Nat /\ DOMAIN mod.ports = 1..Len(mod.ports)
           /\ Mixes \subseteq Firsts(mod.ports)
BY DEF Sound, IsList, Mixes, Firsts

LEMMA MappingOfIs ==
    ASSUME Sound(mod), MixInv, NEW x \in Mixes
    PROVE  /\ MappingOf(x) \in 0..Len(mappings) /\ Len(mappings) \in Nat
           /\ MappingOf(x) = 0 => \A i \in 1..Len(mappings) : mappings[i].mix # x
           /\ MappingOf(x) # 0 => mappings[MappingOf(x)].mix = x
<1> DEFINE T == {i \in DOMAIN mappings : /\ mappings[i].dir = Direction(x)
                                         /\ mod.ports[mappings[i].mix].name = mod.ports[x].name}
<1>1. MappingOf(x) = First(T)
    BY DEF MappingOf
<1>2. DOMAIN mappings = 1..Len(mappings) /\ Len(mappings) \in Nat
    BY LenProperties DEF MixInv
<1>3. \A i \in 1..Len(mappings) : i \in T <=> mappings[i].mix = x
  <2> SUFFICES ASSUME NEW i \in 1..Len(mappings) PROVE i \in T <=> mappings[i].mix = x
    OBVIOUS
  <2>1. mappings[i].mix \in Mixes /\ mappings[i].dir = Direction(mappings[i].mix)
    BY DEF MixInv
  <2>2. mod.ports[mappings[i].mix].name = mod.ports[x].name => mappings[i].mix = x
    BY <2>1, MixesAre, FirstsSame
  <2> QED BY <1>2, <2>1, <2>2
<1>4. T \subseteq 1..Len(mappings) /\ T \subseteq Nat \ {0}
    BY <1>2
<1> HIDE DEF T
<1>5. (T = {} <=> First(T) = 0) /\ (T # {} => First(T) \in T)
    BY <1>4, FirstIs
<1>6. CASE T = {}
  <2>1. MappingOf(x) = 0
    BY <1>1, <1>5, <1>6
  <2>2. \A i \in 1..Len(mappings) : mappings[i].mix # x
    BY <1>3, <1>6
  <2> QED BY <1>2, <2>1, <2>2
<1>7. CASE T # {}
  <2>1. MappingOf(x) \in T
    BY <1>1, <1>5, <1>7
  <2>2. MappingOf(x) \in 1..Len(mappings)
    BY <1>4, <2>1
  <2>3. mappings[MappingOf(x)].mix = x
    BY <1>3, <2>1, <2>2
  <2> QED BY <1>2, <2>2, <2>3
<1> QED BY <1>6, <1>7

(* Where the mapping of a mix port is after the pair was joined.           *)
Slot(x) == IF MappingOf(x) = 0 THEN Len(mappings) + 1 ELSE MappingOf(x)
Ends(x, d) == {Parking(Direction(x)), mod.ports[d].type}

Updated(u, x, d) ==
    /\ u \in Seq(Mapping)
    /\ Len(u) \in Nat /\ Len(mappings) \in 0..Len(u) /\ Slot(x) \in 1..Len(u)
    /\ \A i \in 1..Len(u) : i = Slot(x) \/ i \in 1..Len(mappings)
    /\ \A i \in 1..Len(mappings) : i # Slot(x) => u[i] = mappings[i]
    /\ MappingOf(x) = 0 => Slot(x) \notin 1..Len(mappings)
    /\ MappingOf(x) # 0 => Slot(x) \in 1..Len(mappings) /\ mappings[Slot(x)].mix = x
    /\ u[Slot(x)].mix = x /\ u[Slot(x)].dir = Direction(x)
    /\ u[Slot(x)].devices = (IF MappingOf(x) = 0 THEN {} ELSE mappings[Slot(x)].devices) \cup {d}
    /\ u[Slot(x)].ports = (IF MappingOf(x) = 0 THEN {} ELSE mappings[Slot(x)].ports) \cup Ends(x, d)

LEMMA UpdatedIs ==
    ASSUME Sound(mod), MixInv, NEW x \in Mixes, NEW d \in DOMAIN mod.ports,
           mod.ports[d].type \in OutTypes \cup InTypes
    PROVE  Updated(UpdatedMappings(x, d), x, d)
<1> DEFINE n == Len(mappings)
           u == UpdatedMappings(x, d)
           names == Ends(x, d)
<1>1. /\ MappingOf(x) \in 0..n /\ n \in Nat
      /\ MappingOf(x) # 0 => mappings[MappingOf(x)].mix = x
      /\ mappings \in Seq(Mapping) /\ x \in Nat /\ d \in Nat
  <2>1. x \in Nat /\ d \in Nat
    BY MixesAre
  <2>2. mappings \in Seq(Mapping)
    BY DEF MixInv
  <2> QED BY <2>1, <2>2, MappingOfIs
<1>2. names \subseteq PortNames /\ Direction(x) \in {"output", "input"}
    BY DEF Ends, PortNames, Parking, Direction
<1>3. CASE MappingOf(x) = 0
  <2> DEFINE e == [mix |-> x, dir |-> Direction(x), devices |-> {d}, ports |-> names]
  <2>1. u = Append(mappings, e)
    BY <1>3 DEF UpdatedMappings, Ends
  <2>2. /\ e \in Mapping /\ e.mix = x /\ e.dir = Direction(x) /\ e.devices = {d} /\ e.ports = names
    <3> HIDE DEF names
    <3> QED BY <1>1, <1>2 DEF Mapping
  <2> HIDE DEF e, u, names, n
  <2>3. /\ u \in Seq(Mapping) /\ Len(u) = n + 1
        /\ \A i \in 1..n : u[i] = mappings[i]
        /\ u[n + 1] = e
    BY <1>1, <2>1, <2>2, AppendIs DEF n
  <2>4. Slot(x) = n + 1
    BY <1>3 DEF Slot, n
  <2>5. Len(u) \in Nat /\ n \in 0..Len(u) /\ n + 1 \in 1..Len(u) /\ n + 1 \notin 1..n
    BY <1>1, <2>3
  <2>6. \A i \in 1..Len(u) : i = n + 1 \/ i \in 1..n
    BY <1>1, <2>3
  <2>7. u[n + 1].mix = x /\ u[n + 1].dir = Direction(x) /\ u[n + 1].devices = {d} /\ u[n + 1].ports = names
    BY <2>2, <2>3
  <2> QED BY <1>3, <2>3, <2>4, <2>5, <2>6, <2>7 DEF Updated, n, u, names
<1>4. CASE MappingOf(x) # 0
  <2> DEFINE k == MappingOf(x)
             e == [mappings[k] EXCEPT !.devices = @ \cup {d}, !.ports = @ \cup names]
  <2>1. u = [mappings EXCEPT ![k] = e]
    BY <1>4 DEF UpdatedMappings, Ends
  <2>2. k \in 1..n
    BY <1>1, <1>4
  <2>3. mappings[k] \in Mapping
    BY <1>1, <2>2, ElementOfSeq
  <2>4. /\ e \in Mapping /\ e.mix = mappings[k].mix /\ e.dir = mappings[k].dir
        /\ e.devices = mappings[k].devices \cup {d} /\ e.ports = mappings[k].ports \cup names
    <3> HIDE DEF names, k
    <3>1. {d} \in SUBSET Nat
        BY <1>1
    <3> QED BY <1>2, <2>3, <3>1 DEF Mapping
  <2>5. mappings[k].mix = x /\ mappings[k].dir = Direction(x) /\ Slot(x) = k
    BY <1>1, <1>4, <2>2 DEF MixInv, Slot
  <2> HIDE DEF e, u, names, n, k
  <2>6. /\ u \in Seq(Mapping) /\ Len(u) = n /\ u[k] = e
        /\ \A i \in 1..n : i # k => u[i] = mappings[i]
    BY <1>1, <2>1, <2>2, <2>4, ExceptSeq DEF n
  <2> QED BY <1>1, <1>4, <2>2, <2>4, <2>5, <2>6 DEF Updated, n, u, names
<1> QED BY <1>3, <1>4

(* The lists of the profile.                                               *)
LEMMA PutIs ==
    ASSUME Sound(mod), MixInv, NEW x \in Mixes, NEW list \in Seq(1..Len(mappings))
    PROVE  LET has == \E i \in 1..Len(list) : mappings[list[i]].mix = x IN
           /\ has => Put(list, x) = list
           /\ ~has => Put(list, x) = Append(list, Slot(x))
<1>1. DOMAIN list = 1..Len(list) /\ \A i \in 1..Len(list) : list[i] \in 1..Len(mappings)
    BY LenProperties, ElementOfSeq
<1>2. \A i \in 1..Len(list) :
          mod.ports[mappings[list[i]].mix].name = mod.ports[x].name <=> mappings[list[i]].mix = x
  <2> SUFFICES ASSUME NEW i \in 1..Len(list),
                      mod.ports[mappings[list[i]].mix].name = mod.ports[x].name
               PROVE  mappings[list[i]].mix = x
    OBVIOUS
  <2>1. mappings[list[i]].mix \in Mixes
    BY <1>1 DEF MixInv
  <2> QED BY <2>1, MixesAre, FirstsSame
<1>3. (\E i \in Elements(list) : mod.ports[mappings[i].mix].name = mod.ports[x].name)
        <=> \E i \in 1..Len(list) : mappings[list[i]].mix = x
    BY <1>1, <1>2 DEF Elements
<1> QED BY <1>3 DEF Put, Slot

LEMMA ListKept ==
    ASSUME MixInv, NEW x, NEW d, Updated(mappings', x, d), NEW list \in Seq(1..Len(mappings))
    PROVE  /\ list \in Seq(1..Len(mappings'))
           /\ \A i \in 1..Len(list) : mappings'[list[i]].mix = mappings[list[i]].mix
<1>1. \A i \in 1..Len(mappings) : mappings'[i].mix = mappings[i].mix
    BY DEF Updated
<1>2. \A i \in 1..Len(list) : list[i] \in 1..Len(mappings)
    BY ElementOfSeq
<1>3. 1..Len(mappings) \subseteq 1..Len(mappings')
    BY DEF Updated
<1>4. list \in Seq(1..Len(mappings'))
  <2> DEFINE n == Len(list) S == 1..Len(mappings')
  <2>1. list \in [1..n -> 1..Len(mappings)] /\ n \in Nat
    BY LenProperties
  <2>2. list \in [1..n -> S]
    BY <1>3, <2>1
  <2> HIDE DEF n, S
  <2>3. list \in Seq(S)
    BY <2>1, <2>2, SeqDef
  <2> QED BY <2>3 DEF S
<1> QED BY <1>1, <1>2, <1>4

Kinds == {"output", "input"}

(* The pair x, d is joined into a list, and nothing else is.               *)
OneMore(into, x, d) ==
    \A kind \in Kinds : \A y, e :
        Joined(kind, y, e)' <=> Joined(kind, y, e) \/ (kind = into /\ y = x /\ e = d)

LEMMA JoinGives ==
    ASSUME Sound(mod), MixInv, NEW x \in Mixes, NEW d \in DOMAIN mod.ports, NEW into,
           stage = "routes", stage' = stage, Join(x, d, into)
    PROVE  /\ Updated(mappings', x, d)
           /\ mod.ports[d].type \in OutTypes \cup InTypes
           /\ ports' = AddedPorts(Direction(x), d)
           /\ outputs' = IF into = "output" THEN Put(outputs, x) ELSE outputs
           /\ inputs' = IF into = "input" THEN Put(inputs, x) ELSE inputs
           /\ Advance /\ mod' = mod /\ card' = card
<1>1. mod.ports[d].type \in (IF Direction(x) = "output" THEN OutTypes ELSE InTypes)
    BY DEF Join
<1>2. mod.ports[d].type \in OutTypes \cup InTypes
    BY <1>1
<1>3. Updated(UpdatedMappings(x, d), x, d)
    BY <1>2, UpdatedIs
<1> QED BY <1>1, <1>2, <1>3 DEF Join

(* What a mapping of the new list is of the old one.                       *)
LEMMA OfOld ==
    ASSUME Sound(mod), MixInv, NEW x \in Mixes, NEW d, Updated(mappings', x, d)
    PROVE  /\ \A i \in 1..Len(mappings') :
                 i # Slot(x) => /\ i \in 1..Len(mappings) /\ mappings'[i] = mappings[i]
                                /\ mappings[i].mix # x
           /\ mappings'[Slot(x)].mix = x
           /\ \A i \in 1..Len(mappings') : mappings'[i].mix = x => i = Slot(x)
<1>1. ASSUME NEW i \in 1..Len(mappings'), i # Slot(x)
      PROVE  i \in 1..Len(mappings) /\ mappings'[i] = mappings[i] /\ mappings[i].mix # x
  <2>1. i \in 1..Len(mappings) /\ mappings'[i] = mappings[i]
    BY <1>1 DEF Updated
  <2>2. CASE MappingOf(x) = 0
    BY <2>1, <2>2, MappingOfIs
  <2>3. CASE MappingOf(x) # 0
    <3>1. Slot(x) \in 1..Len(mappings) /\ mappings[Slot(x)].mix = x
        BY <2>3 DEF Updated
    <3> QED BY <1>1, <2>1, <3>1 DEF MixInv
  <2> QED BY <2>1, <2>2, <2>3
<1>2. mappings'[Slot(x)].mix = x
    BY DEF Updated
<1> QED BY <1>1, <1>2

LEMMA MixStep ==
    ASSUME Sound(mod), MixInv, NEW x \in Mixes, NEW d, Updated(mappings', x, d), mod' = mod
    PROVE  MixInv'
<1>1. Mixes' = Mixes /\ \A y : Direction(y)' = Direction(y)
    BY DEF Mixes, Kind, Direction
<1>2. ASSUME NEW i \in 1..Len(mappings')
      PROVE  /\ mappings'[i].mix \in Mixes /\ mappings'[i].dir = Direction(mappings'[i].mix)
  <2>1. CASE i = Slot(x)
    BY <2>1 DEF Updated
  <2>2. CASE i # Slot(x)
    BY <2>2 DEF Updated, MixInv
  <2> QED BY <2>1, <2>2
<1>3. ASSUME NEW i \in 1..Len(mappings'), NEW j \in 1..Len(mappings'), mappings'[i].mix = mappings'[j].mix
      PROVE  i = j
  <2>1. CASE i = Slot(x) \/ j = Slot(x)
    BY <1>3, <2>1, OfOld
  <2>2. CASE i # Slot(x) /\ j # Slot(x)
    <3>1. /\ i \in 1..Len(mappings) /\ mappings'[i] = mappings[i]
          /\ j \in 1..Len(mappings) /\ mappings'[j] = mappings[j]
        BY <2>2, OfOld
    <3> QED BY <1>3, <3>1 DEF MixInv
  <2> QED BY <2>1, <2>2
<1>4. mappings' \in Seq(Mapping)
    BY DEF Updated
<1> QED BY <1>1, <1>2, <1>3, <1>4 DEF MixInv

(* A mix port without a mapping was not joined with anything.              *)
LEMMA NotJoined ==
    ASSUME Sound(mod), MixInv, ListInv("output", outputs), ListInv("input", inputs),
           NEW x \in Mixes, MappingOf(x) = 0
    PROVE  \A e : ~Joint(x, e)
<1>1. \A i \in 1..Len(mappings) : mappings[i].mix # x
    BY MappingOfIs
<1>2. ASSUME NEW kind, NEW list, ListInv(kind, list) PROVE \A e : ~Joined(kind, x, e)
  <2>1. \A i \in 1..Len(list) : list[i] \in 1..Len(mappings)
    BY <1>2, ElementOfSeq DEF ListInv
  <2>2. ~ \E i \in 1..Len(list) : mappings[list[i]].mix = x
    BY <1>1, <2>1
  <2> QED BY <1>2, <2>2 DEF ListInv
<1> QED BY <1>2 DEF Joint

LEMMA ReachStep ==
    ASSUME Sound(mod), MixInv, ReachInv, ListInv("output", outputs), ListInv("input", inputs),
           NEW into \in Kinds, NEW x \in Mixes, NEW d, Updated(mappings', x, d), mod' = mod,
           OneMore(into, x, d)
    PROVE  ReachInv'
<1>1. \A y, e : Joint(y, e)' <=> Joint(y, e) \/ (y = x /\ e = d)
    BY DEF Joint, OneMore, Kinds
<1> DEFINE Now(y, e) == Joint(y, e) \/ (y = x /\ e = d)
<1>2. ASSUME NEW i \in 1..Len(mappings'), i # Slot(x)
      PROVE  /\ \A e : e \in mappings'[i].devices <=> Now(mappings'[i].mix, e)
             /\ mappings'[i].ports = {mod.ports[e].type : e \in mappings'[i].devices}
                                         \cup {Parking(mappings'[i].dir)}
  <2>1. i \in 1..Len(mappings) /\ mappings'[i] = mappings[i] /\ mappings[i].mix # x
    BY <1>2, OfOld
  <2> QED BY <2>1 DEF ReachInv
<1>3. /\ \A e : e \in mappings'[Slot(x)].devices <=> Now(x, e)
      /\ mappings'[Slot(x)].ports = {mod.ports[e].type : e \in mappings'[Slot(x)].devices}
                                         \cup {Parking(mappings'[Slot(x)].dir)}
  <2> DEFINE k == Slot(x)
  <2>1. CASE MappingOf(x) = 0
    <3>1. mappings'[k].devices = {d} /\ mappings'[k].ports = Ends(x, d) /\ mappings'[k].dir = Direction(x)
        BY <2>1 DEF Updated
    <3>2. \A e : ~Joint(x, e)
        BY <2>1, NotJoined
    <3> QED BY <3>1, <3>2 DEF Ends
  <2>2. CASE MappingOf(x) # 0
    <3>1. /\ k \in 1..Len(mappings) /\ mappings[k].mix = x
          /\ mappings'[k].devices = mappings[k].devices \cup {d}
          /\ mappings'[k].ports = mappings[k].ports \cup Ends(x, d)
          /\ mappings'[k].dir = Direction(x)
        BY <2>2 DEF Updated
    <3>2. mappings[k].dir = Direction(x)
        BY <3>1 DEF MixInv
    <3>3. /\ \A e : e \in mappings[k].devices <=> Joint(x, e)
          /\ mappings[k].ports = {mod.ports[e].type : e \in mappings[k].devices}
                                         \cup {Parking(Direction(x))}
        BY <3>1, <3>2 DEF ReachInv
    <3>4. \A e : e \in mappings'[k].devices <=> Now(x, e)
        BY <3>1, <3>3
    <3> HIDE DEF k
    <3>5. {mod.ports[e].type : e \in mappings[k].devices} \cup {mod.ports[d].type}
              = {mod.ports[e].type : e \in mappings[k].devices \cup {d}}
        OBVIOUS
    <3>6. mappings'[k].ports = {mod.ports[e].type : e \in mappings'[k].devices} \cup {Parking(mappings'[k].dir)}
        BY <3>1, <3>3, <3>5 DEF Ends
    <3> QED BY <3>4, <3>6 DEF k
  <2> QED BY <2>1, <2>2
<1>4. mappings'[Slot(x)].mix = x
    BY OfOld
<1>5. ASSUME NEW i \in 1..Len(mappings')
      PROVE  /\ \A e : e \in mappings'[i].devices <=> Now(mappings'[i].mix, e)
             /\ mappings'[i].ports = {mod.ports[e].type : e \in mappings'[i].devices}
                                         \cup {Parking(mappings'[i].dir)}
  <2>1. CASE i = Slot(x)
    BY <1>3, <1>4, <2>1
  <2>2. CASE i # Slot(x)
    BY <1>2, <2>2
  <2> QED BY <2>1, <2>2
<1>6. \A y : Parking(y)' = Parking(y)
    BY DEF Parking
<1> HIDE DEF Now
<1>7. \A y, e : Joint(y, e)' <=> Now(y, e)
    BY <1>1 DEF Now
<1> QED BY <1>5, <1>6, <1>7 DEF ReachInv

(* A list has, after the step, the mappings of the mix ports joined.       *)
ListThen(kind, list) ==
    /\ list \in Seq(1..Len(mappings'))
    /\ \A i, j \in 1..Len(list) : mappings'[list[i]].mix = mappings'[list[j]].mix => i = j
    /\ \A x : (\E i \in 1..Len(list) : mappings'[list[i]].mix = x) <=> \E d : Joined(kind, x, d)'

LEMMA ListOther ==
    ASSUME MixInv, NEW kind \in Kinds, NEW list, ListInv(kind, list),
           NEW into, NEW x, NEW d, Updated(mappings', x, d), OneMore(into, x, d),
           kind # into \/ \E i \in 1..Len(list) : mappings[list[i]].mix = x
    PROVE  ListThen(kind, list)
<1>1. list \in Seq(1..Len(mappings))
    BY DEF ListInv
<1>2. /\ list \in Seq(1..Len(mappings'))
      /\ \A i \in 1..Len(list) : mappings'[list[i]].mix = mappings[list[i]].mix
    BY <1>1, ListKept
<1>3. \A y : (\E e : Joined(kind, y, e)') <=> (\E e : Joined(kind, y, e)) \/ (kind = into /\ y = x)
    BY DEF OneMore
<1>4. \A y : (\E i \in 1..Len(list) : mappings[list[i]].mix = y) <=> \E e : Joined(kind, y, e)
    BY DEF ListInv
<1>5. \A y : (\E i \in 1..Len(list) : mappings'[list[i]].mix = y)
                <=> \E i \in 1..Len(list) : mappings[list[i]].mix = y
    BY <1>2
<1>6. \A i, j \in 1..Len(list) : mappings'[list[i]].mix = mappings'[list[j]].mix => i = j
    BY <1>2 DEF ListInv
<1>7. \A y : (\E i \in 1..Len(list) : mappings'[list[i]].mix = y) <=> \E e : Joined(kind, y, e)'
    BY <1>3, <1>4, <1>5
<1> QED BY <1>2, <1>6, <1>7 DEF ListThen

LEMMA ListInto ==
    ASSUME Sound(mod), MixInv, NEW kind \in Kinds, NEW list, ListInv(kind, list),
           NEW x \in Mixes, NEW d, Updated(mappings', x, d), OneMore(kind, x, d),
           NEW new, new = Put(list, x)
    PROVE  ListThen(kind, new)
<1>1. list \in Seq(1..Len(mappings))
    BY DEF ListInv
<1>2. CASE \E i \in 1..Len(list) : mappings[list[i]].mix = x
  <2>1. new = list
    BY <1>1, <1>2, PutIs
  <2>2. ListThen(kind, list)
    BY <1>2, ListOther
  <2> QED BY <2>1, <2>2
<1>3. CASE ~ \E i \in 1..Len(list) : mappings[list[i]].mix = x
  <2> DEFINE n == Len(list)
  <2>1. new = Append(list, Slot(x))
    BY <1>1, <1>3, PutIs
  <2>2. /\ list \in Seq(1..Len(mappings'))
        /\ \A i \in 1..n : mappings'[list[i]].mix = mappings[list[i]].mix
    BY <1>1, ListKept
  <2>3. Slot(x) \in 1..Len(mappings') /\ mappings'[Slot(x)].mix = x
    BY DEF Updated
  <2>4. /\ new \in Seq(1..Len(mappings')) /\ Len(new) = n + 1
        /\ \A i \in 1..n : new[i] = list[i]
        /\ new[n + 1] = Slot(x)
    BY <2>1, <2>2, <2>3, AppendIs
  <2>5. n \in Nat
    BY <1>1, LenProperties
  <2> HIDE DEF n
  <2>6. \A i : i \in 1..Len(new) <=> i \in 1..n \/ i = n + 1
    BY <2>4, <2>5
  <2>7. \A i \in 1..n : mappings'[new[i]].mix = mappings[list[i]].mix /\ mappings[list[i]].mix # x
    BY <1>3, <2>2, <2>4 DEF n
  <2>8. mappings'[new[n + 1]].mix = x
    BY <2>3, <2>4
  <2>9. \A i, j \in 1..n : mappings[list[i]].mix = mappings[list[j]].mix => i = j
    BY DEF ListInv, n
  <2>10. \A i, j \in 1..Len(new) : mappings'[new[i]].mix = mappings'[new[j]].mix => i = j
    BY <2>6, <2>7, <2>8, <2>9
  <2>11. \A y : (\E e : Joined(kind, y, e)') <=> (\E e : Joined(kind, y, e)) \/ y = x
    BY DEF OneMore
  <2>12. \A y : (\E i \in 1..n : mappings[list[i]].mix = y) <=> \E e : Joined(kind, y, e)
    BY DEF ListInv, n
  <2>13. \A y : (\E i \in 1..Len(new) : mappings'[new[i]].mix = y)
                   <=> (\E i \in 1..n : mappings[list[i]].mix = y) \/ y = x
    BY <2>6, <2>7, <2>8
  <2>14. \A y : (\E i \in 1..Len(new) : mappings'[new[i]].mix = y) <=> \E e : Joined(kind, y, e)'
    BY <2>11, <2>12, <2>13
  <2> QED BY <2>4, <2>10, <2>14 DEF ListThen
<1> QED BY <1>2, <1>3

LEMMA AddedIs ==
    ASSUME NEW all, NEW name, NEW port
    PROVE  /\ DOMAIN Added(all, name, port) = DOMAIN all \cup {name}
           /\ \A n \in DOMAIN all : Added(all, name, port)[n] = all[n]
           /\ name \notin DOMAIN all => Added(all, name, port)[name] = port
BY DEF Added

LEMMA PortStep ==
    ASSUME Sound(mod), MixInv, PortInv, NEW x \in Mixes, NEW d \in DOMAIN mod.ports, Kind(d) = "device",
           Updated(mappings', x, d), mod.ports[d].type \in OutTypes \cup InTypes,
           ports' = AddedPorts(Direction(x), d), mod' = mod
    PROVE  PortInv'
<1> DEFINE parking == Parking(Direction(x))
           type == mod.ports[d].type
           one == [device |-> 0, priority |-> 50]
           other == [device |-> d, priority |-> Priority(type)]
           all == Added(ports, parking, one)
<1>1. parking \in {OutputParking, InputParking} /\ Ends(x, d) = {parking, type}
    BY DEF Parking, Ends
<1>2. ports' = Added(all, type, other)
    BY DEF AddedPorts
<1>3. one.device = 0 /\ one.priority = 50 /\ other.device = d /\ other.priority = Priority(type)
    OBVIOUS
<1> HIDE DEF parking, one, other, all
<1>4. /\ DOMAIN all = DOMAIN ports \cup {parking}
      /\ \A n \in DOMAIN ports : all[n] = ports[n]
      /\ parking \notin DOMAIN ports => all[parking] = one
    BY AddedIs DEF all
<1>5. /\ DOMAIN ports' = DOMAIN all \cup {type}
      /\ \A n \in DOMAIN all : ports'[n] = all[n]
      /\ type \notin DOMAIN all => ports'[type] = other
  <2> HIDE DEF type
  <2>1. /\ DOMAIN Added(all, type, other) = DOMAIN all \cup {type}
        /\ \A n \in DOMAIN all : Added(all, type, other)[n] = all[n]
        /\ type \notin DOMAIN all => Added(all, type, other)[type] = other
    BY AddedIs
  <2> QED BY <1>2, <2>1
<1>6. DOMAIN ports' = DOMAIN ports \cup Ends(x, d)
    BY <1>1, <1>4, <1>5
<1>7. ASSUME NEW i \in 1..Len(mappings') PROVE mappings'[i].ports \subseteq DOMAIN ports'
  <2>1. CASE i # Slot(x)
    <3>1. i \in 1..Len(mappings) /\ mappings'[i] = mappings[i]
        BY <2>1 DEF Updated
    <3> QED BY <1>6, <3>1 DEF PortInv
  <2>2. CASE i = Slot(x)
    <3>1. \/ mappings'[i].ports = {} \cup Ends(x, d)
          \/ /\ i \in 1..Len(mappings)
             /\ mappings'[i].ports = mappings[i].ports \cup Ends(x, d)
        BY <2>2 DEF Updated
    <3> QED BY <1>6, <3>1 DEF PortInv
  <2> QED BY <2>1, <2>2
<1>8. \A t : Priority(t)' = Priority(t)
    BY DEF Priority
<1>9. ASSUME NEW name \in DOMAIN ports' PROVE PortOK(name)'
  <2>1. CASE name \in DOMAIN ports
    <3>1. ports'[name] = ports[name] /\ PortOK(name)
        BY <1>4, <1>5, <2>1 DEF PortInv
    <3> QED BY <1>8, <3>1 DEF PortOK, Kind
  <2>2. CASE name = parking /\ name \notin DOMAIN ports
    <3>1. ports'[name] = one
        BY <1>4, <1>5, <2>2
    <3> QED BY <1>1, <1>3, <2>2, <3>1 DEF PortOK
  <2>3. CASE name = type /\ name # parking /\ name \notin DOMAIN ports
    <3>1. ports'[name] = other
        BY <1>4, <1>5, <2>3
    <3>2. ports'[name].device = d /\ ports'[name].priority = Priority(name)
        BY <1>3, <2>3, <3>1
    <3> QED BY <1>8, <2>3, <3>2 DEF PortOK, Kind
  <2> QED BY <1>4, <1>5, <2>1, <2>2, <2>3
<1> QED BY <1>7, <1>9 DEF PortInv

(* A pair is joined.                                                       *)
LEMMA JoinStep ==
    ASSUME Sound(mod), MapInv, NEW into \in Kinds, NEW x \in Mixes, NEW d \in DOMAIN mod.ports,
           Kind(d) = "device", stage = "routes", stage' = stage, Join(x, d, into), OneMore(into, x, d)
    PROVE  MapInv'
<1>1. /\ Updated(mappings', x, d)
      /\ mod.ports[d].type \in OutTypes \cup InTypes
      /\ ports' = AddedPorts(Direction(x), d)
      /\ outputs' = IF into = "output" THEN Put(outputs, x) ELSE outputs
      /\ inputs' = IF into = "input" THEN Put(inputs, x) ELSE inputs
      /\ mod' = mod
    BY JoinGives DEF MapInv
<1>2. MixInv /\ ReachInv /\ ListInv("output", outputs) /\ ListInv("input", inputs) /\ PortInv
    BY DEF MapInv
<1>3. MixInv'
    BY <1>1, <1>2, MixStep
<1>4. ReachInv'
    BY <1>1, <1>2, ReachStep
<1>5. PortInv'
    BY <1>1, <1>2, PortStep
<1>6. ListThen("output", outputs')
  <2>1. "output" \in Kinds
    BY DEF Kinds
  <2>2. CASE into = "output"
    <3>1. outputs' = Put(outputs, x)
        BY <1>1, <2>2
    <3> QED BY <1>1, <1>2, <2>1, <2>2, <3>1, ListInto
  <2>3. CASE into # "output"
    <3>1. outputs' = outputs
        BY <1>1, <2>3
    <3>2. ListThen("output", outputs)
        BY <1>1, <1>2, <2>1, <2>3, ListOther
    <3> QED BY <3>1, <3>2
  <2> QED BY <2>2, <2>3
<1>7. ListThen("input", inputs')
  <2>1. "input" \in Kinds
    BY DEF Kinds
  <2>2. CASE into = "input"
    <3>1. inputs' = Put(inputs, x)
        BY <1>1, <2>2
    <3> QED BY <1>1, <1>2, <2>1, <2>2, <3>1, ListInto
  <2>3. CASE into # "input"
    <3>1. inputs' = inputs
        BY <1>1, <2>3
    <3>2. ListThen("input", inputs)
        BY <1>1, <1>2, <2>1, <2>3, ListOther
    <3> QED BY <3>1, <3>2
  <2> QED BY <2>2, <2>3
<1>8. ListInv("output", outputs)' /\ ListInv("input", inputs)'
    BY <1>6, <1>7 DEF ListInv, ListThen
<1> QED BY <1>3, <1>4, <1>5, <1>8 DEF MapInv

-----------------------------------------------------------------------------
(* Every step of the profile.                                              *)

LEMMA MapSame ==
    ASSUME MapInv, UNCHANGED <<mod, mappings, outputs, inputs, ports>>,
           \A kind \in Kinds : \A y, e : Joined(kind, y, e)' <=> Joined(kind, y, e)
    PROVE  MapInv'
<1>1. \A y, e : Joint(y, e)' <=> Joint(y, e)
    BY DEF Joint, Kinds
<1>2. \A y, e : /\ Joined("output", y, e)' <=> Joined("output", y, e)
                /\ Joined("input", y, e)' <=> Joined("input", y, e)
    BY DEF Kinds
<1>3. /\ Mixes' = Mixes /\ \A y : Direction(y)' = Direction(y) /\ Parking(y)' = Parking(y)
      /\ \A y : Priority(y)' = Priority(y) /\ Kind(y)' = Kind(y)
    BY DEF Mixes, Kind, Direction, Parking, Priority
<1>4. MixInv'
    BY <1>3 DEF MapInv, MixInv
<1>5. ReachInv'
    BY <1>1, <1>3 DEF MapInv, ReachInv
<1>6. ListInv("output", outputs)' /\ ListInv("input", inputs)'
    BY <1>2 DEF MapInv, ListInv
<1>7. PortInv'
    BY <1>3 DEF MapInv, PortInv, PortOK
<1> QED BY <1>4, <1>5, <1>6, <1>7 DEF MapInv

(* The route and the source worked on.                                     *)
LEMMA HereIs ==
    ASSUME Sound(mod), NextInv, InRoute, HasSource
    PROVE  /\ Source \in Firsts(mod.ports) /\ Source \in DOMAIN mod.ports
           /\ Route.sink # 0 => Route.sink \in Firsts(mod.ports) /\ Route.sink \in DOMAIN mod.ports
           /\ Source = Sources(next.route)[next.source] /\ Route.sink = mod.routes[next.route].sink
           /\ next.route \in 1..Len(mod.routes) /\ next.source \in 1..Len(Sources(next.route))
<1>1. /\ next.route \in Nat \ {0} /\ next.source \in Nat \ {0} /\ next.route <= Len(mod.routes)
      /\ next.source <= Len(Sources(next.route))
    BY DEF NextInv, InRoute, HasSource, Route, Sources
<1>2. next.route \in 1..Len(mod.routes)
    BY <1>1, RoutesAre
<1>3. Len(Sources(next.route)) \in Nat
    BY <1>2, RoutesAre
<1>4. next.source \in 1..Len(Sources(next.route))
    BY <1>1, <1>3
<1>5. Source = Sources(next.route)[next.source] /\ Route.sink = mod.routes[next.route].sink
    BY DEF Source, Sources, Route
<1>6. Source \in Firsts(mod.ports) /\ (Route.sink # 0 => Route.sink \in Firsts(mod.ports))
    BY <1>2, <1>4, <1>5, RoutesAre
<1> QED BY <1>2, <1>4, <1>5, <1>6 DEF Firsts

LEMMA JoinsHere ==
    ASSUME Sound(mod), NextInv, InRoute, HasSource, Route.sink # 0, NEW y, NEW e
    PROVE  /\ Joins("output", next.route, next.source, y, e)
                 <=> /\ y = Source /\ e = Route.sink
                     /\ Kind(Source) = "mix" /\ Kind(Route.sink) = "device"
           /\ Joins("input", next.route, next.source, y, e)
                 <=> /\ y = Route.sink /\ e = Source
                     /\ Kind(Source) = "device" /\ Kind(Route.sink) = "mix"
BY HereIs DEF Joins

LEMMA UpdateOutputMap ==
    ASSUME Sound(mod), NextInv, MapInv, UpdateOutput, stage' \in {"routes", "card", "ready"}
    PROVE  MapInv'
<1>1. /\ InRoute /\ HasSource /\ Route.sink # 0 /\ stage = "routes"
      /\ Kind(Source) = "mix" /\ Kind(Route.sink) = "device"
      /\ Join(Source, Route.sink, "output")
    BY DEF UpdateOutput, InRoute
<1>2. Advance /\ stage' = stage /\ mod' = mod
    BY <1>1 DEF Join
<1>3. OneMore("output", Source, Route.sink)
  <2> SUFFICES ASSUME NEW kind \in Kinds, NEW y, NEW e
               PROVE  Joined(kind, y, e)' <=> Joined(kind, y, e)
                                               \/ (kind = "output" /\ y = Source /\ e = Route.sink)
    BY DEF OneMore
  <2>1. Joined(kind, y, e)' <=> Joined(kind, y, e) \/ Joins(kind, next.route, next.source, y, e)
    BY <1>1, <1>2, JoinedOne
  <2>2. Joins(kind, next.route, next.source, y, e)
            <=> kind = "output" /\ y = Source /\ e = Route.sink
    BY <1>1, JoinsHere DEF Kinds
  <2> QED BY <2>1, <2>2
<1>4. Source \in Mixes /\ Route.sink \in DOMAIN mod.ports /\ "output" \in Kinds
    BY <1>1, HereIs DEF Mixes, Kinds
<1> QED BY <1>1, <1>2, <1>3, <1>4, JoinStep

LEMMA UpdateInputMap ==
    ASSUME Sound(mod), NextInv, MapInv, UpdateInput, stage' \in {"routes", "card", "ready"}
    PROVE  MapInv'
<1>1. /\ InRoute /\ HasSource /\ Route.sink # 0 /\ stage = "routes"
      /\ Kind(Source) = "device" /\ Kind(Route.sink) = "mix"
      /\ Join(Route.sink, Source, "input")
    BY DEF UpdateInput, InRoute
<1>2. Advance /\ stage' = stage /\ mod' = mod
    BY <1>1 DEF Join
<1>3. OneMore("input", Route.sink, Source)
  <2> SUFFICES ASSUME NEW kind \in Kinds, NEW y, NEW e
               PROVE  Joined(kind, y, e)' <=> Joined(kind, y, e)
                                               \/ (kind = "input" /\ y = Route.sink /\ e = Source)
    BY DEF OneMore
  <2>1. Joined(kind, y, e)' <=> Joined(kind, y, e) \/ Joins(kind, next.route, next.source, y, e)
    BY <1>1, <1>2, JoinedOne
  <2>2. Joins(kind, next.route, next.source, y, e)
            <=> kind = "input" /\ y = Route.sink /\ e = Source
    BY <1>1, JoinsHere DEF Kinds
  <2> QED BY <2>1, <2>2
<1>4. Route.sink \in Mixes /\ Source \in DOMAIN mod.ports /\ "input" \in Kinds
    BY <1>1, HereIs DEF Mixes, Kinds
<1> QED BY <1>1, <1>2, <1>3, <1>4, JoinStep

LEMMA MapStep ==
    ASSUME Sound(mod), NextInv, MapInv, ProfileNext, stage' \in {"routes", "card", "ready"}
    PROVE  MapInv'
<1>1. CASE UpdateOutput \/ UpdateInput
    BY <1>1, UpdateOutputMap, UpdateInputMap
<1>2. CASE SkipPatch
  <2>1. /\ InRoute /\ HasSource /\ Route.sink # 0 /\ Kind(Source) = "device" /\ Kind(Route.sink) = "device"
        /\ Advance /\ UNCHANGED <<mod, stage, mappings, outputs, inputs, ports>>
    BY <1>2 DEF SkipPatch
  <2>2. \A kind \in Kinds : \A y, e : Joined(kind, y, e)' <=> Joined(kind, y, e)
    <3> SUFFICES ASSUME NEW kind \in Kinds, NEW y, NEW e
                 PROVE  Joined(kind, y, e)' <=> Joined(kind, y, e)
        OBVIOUS
    <3>1. Joined(kind, y, e)' <=> Joined(kind, y, e) \/ Joins(kind, next.route, next.source, y, e)
        BY <2>1, JoinedOne
    <3>2. ~Joins(kind, next.route, next.source, y, e)
        BY <2>1, JoinsHere DEF Kinds
    <3> QED BY <3>1, <3>2
  <2> QED BY <2>1, <2>2, MapSame
<1>3. ASSUME UNCHANGED <<mod, mappings, outputs, inputs, ports>>,
             \A r \in 1..Len(mod.routes) : \A s \in 1..Len(Sources(r)) : Past(r, s)' <=> Past(r, s)
      PROVE  MapInv'
  <2>1. \A kind \in Kinds : \A y, e : Joined(kind, y, e)' <=> Joined(kind, y, e)
    BY <1>3, JoinedSame
  <2> QED BY <1>3, <2>1, MapSame
<1>4. CASE NextRoute
  <2>1. UNCHANGED <<mod, mappings, outputs, inputs, ports>>
    BY <1>4 DEF NextRoute
  <2> QED BY <1>3, <1>4, <2>1, PastEmpty
<1>5. CASE RoutesDone
  <2>1. UNCHANGED <<mod, mappings, outputs, inputs, ports>>
    BY <1>5 DEF RoutesDone
  <2> QED BY <1>3, <1>5, <2>1, PastAll
<1>6. CASE AddCardPorts \/ CardDone
  <2>1. /\ UNCHANGED <<mod, mappings, outputs, inputs, ports>>
        /\ stage = "card" /\ stage' \in {"card", "ready"}
    BY <1>6 DEF AddCardPorts, CardDone
  <2>2. \A r, s : Past(r, s)' /\ Past(r, s)
    BY <2>1 DEF Past
  <2> QED BY <1>3, <2>1, <2>2
<1>7. CASE Confused \/ NullSink
    BY <1>7 DEF Confused, NullSink
<1> QED BY <1>1, <1>2, <1>4, <1>5, <1>6, <1>7 DEF ProfileNext

LEMMA FreshMap ==
    ASSUME Sound(mod), Fresh PROVE MapInv
<1>1. /\ mappings = <<>> /\ outputs = <<>> /\ inputs = <<>> /\ ports = << >> /\ Len(<<>>) = 0
      /\ next.route = 1 /\ next.source = 1 /\ stage = "routes"
    BY DEF Fresh
<1>2. MixInv /\ ReachInv /\ PortInv
  <2>1. \A i : i \notin 1..Len(mappings)
    BY <1>1
  <2>2. mappings \in Seq(Mapping) /\ DOMAIN ports = {}
    BY <1>1
  <2> QED BY <2>1, <2>2 DEF MixInv, ReachInv, PortInv
<1>3. \A kind, x, d : ~Joined(kind, x, d)
  <2>1. \A r \in 1..Len(mod.routes) : \A s \in 1..Len(Sources(r)) : ~Past(r, s)
    <3> SUFFICES ASSUME NEW r \in 1..Len(mod.routes), NEW s \in 1..Len(Sources(r)) PROVE ~Past(r, s)
        OBVIOUS
    <3>1. ~(r < 1) /\ ~(s < 1)
        OBVIOUS
    <3> QED BY <1>1, <3>1 DEF Past
  <2> QED BY <2>1 DEF Joined
<1>4. ASSUME NEW kind PROVE ListInv(kind, <<>>)
  <2>1. <<>> \in Seq(1..Len(mappings)) /\ Len(<<>>) = 0 /\ \A i : i \notin 1..0
    OBVIOUS
  <2> QED BY <1>3, <2>1 DEF ListInv
<1> QED BY <1>1, <1>2, <1>4 DEF MapInv

-----------------------------------------------------------------------------
(* The ports of the card.                                                  *)

All == outputs \o inputs
Taken(m) == IF MayHavePorts(m) THEN mappings[m].ports ELSE {}

(* The card has the ports of the mappings gone through.                    *)
CardInv ==
    /\ stage = "routes" => card = << >>
    /\ stage \in {"card", "ready"} =>
          \A name : name \in DOMAIN card
                       <=> \E i \in 1..Len(All) : /\ stage = "card" => i < next.route
                                                  /\ name \in Taken(All[i])
    /\ \A name \in DOMAIN card : card[name].available = Available(name)

ProfileInv == CardInv /\ (Fresh \/ (Alive => MapInv))

LEMMA AllIs ==
    ASSUME MapInv
    PROVE  /\ Len(outputs) \in Nat /\ Len(inputs) \in Nat
           /\ Len(All) = Len(outputs) + Len(inputs) /\ Len(All) \in Nat
           /\ \A i \in 1..Len(outputs) : All[i] = outputs[i] /\ i \in 1..Len(All)
           /\ \A i \in 1..Len(inputs) : All[Len(outputs) + i] = inputs[i] /\ Len(outputs) + i \in 1..Len(All)
           /\ \A i \in 1..Len(All) : i \in 1..Len(outputs) \/ \E k \in 1..Len(inputs) : i = Len(outputs) + k
<1> DEFINE a == Len(outputs) b == Len(inputs) S == 1..Len(mappings) h == outputs \o inputs
<1>1. outputs \in Seq(S) /\ inputs \in Seq(S)
    BY DEF MapInv, ListInv
<1>2. a \in Nat /\ b \in Nat
    BY <1>1, LenProperties
<1> HIDE DEF S
<1>3. /\ Len(h) = Len(outputs) + Len(inputs)
      /\ \A i \in 1..(Len(outputs) + Len(inputs)) :
            h[i] = IF i <= Len(outputs) THEN outputs[i] ELSE inputs[i - Len(outputs)]
    BY <1>1, ConcatProperties
<1> HIDE DEF a, b, h
<1>4. Len(h) = a + b /\ \A i \in 1..(a + b) : h[i] = IF i <= a THEN outputs[i] ELSE inputs[i - a]
    BY <1>3 DEF a, b
<1>5. \A i \in 1..a : i \in 1..(a + b) /\ h[i] = outputs[i]
  <2> SUFFICES ASSUME NEW i \in 1..a PROVE i \in 1..(a + b) /\ h[i] = outputs[i]
    OBVIOUS
  <2>1. i \in 1..(a + b) /\ i <= a
    BY <1>2
  <2> QED BY <1>4, <2>1
<1>6. \A i \in 1..b : a + i \in 1..(a + b) /\ h[a + i] = inputs[i]
  <2> SUFFICES ASSUME NEW i \in 1..b PROVE a + i \in 1..(a + b) /\ h[a + i] = inputs[i]
    OBVIOUS
  <2> DEFINE k == a + i
  <2>1. k \in 1..(a + b) /\ ~(k <= a) /\ k - a = i
    BY <1>2
  <2> HIDE DEF k
  <2>2. h[k] = inputs[k - a]
    BY <1>4, <2>1
  <2> QED BY <2>1, <2>2 DEF k
<1>7. \A i \in 1..(a + b) : i \in 1..a \/ \E k \in 1..b : i = a + k
  <2> SUFFICES ASSUME NEW i \in 1..(a + b), i \notin 1..a PROVE \E k \in 1..b : i = a + k
    OBVIOUS
  <2>1. i - a \in 1..b /\ i = a + (i - a)
    BY <1>2
  <2> QED BY <2>1
<1>8. a + b \in Nat
    BY <1>2
<1> QED BY <1>2, <1>4, <1>5, <1>6, <1>7, <1>8 DEF All, h, a, b

LEMMA AddCardPortsKeeps ==
    ASSUME NextInv, CardInv, AddCardPorts, MapInv PROVE CardInv'
<1> DEFINE k == next.route
           taken == Taken(All[k])
<1>1. /\ stage = "card" /\ k <= Len(All)
      /\ card' = [n \in DOMAIN card \cup taken |->
                        IF n \in DOMAIN card THEN card[n]
                        ELSE [available |-> Available(n), priority |-> ports[n].priority]]
      /\ next' = [next EXCEPT !.route = @ + 1]
      /\ UNCHANGED <<mod, stage, mappings, outputs, inputs, ports>>
  <2> DEFINE all == outputs \o inputs
             some == IF MayHavePorts(all[next.route]) THEN mappings[all[next.route]].ports ELSE {}
  <2>1. /\ stage = "card" /\ next.route <= Len(all)
        /\ card' = [n \in DOMAIN card \cup some |->
                          IF n \in DOMAIN card THEN card[n]
                          ELSE [available |-> Available(n), priority |-> ports[n].priority]]
        /\ next' = [next EXCEPT !.route = @ + 1]
        /\ UNCHANGED <<mod, stage, mappings, outputs, inputs, ports>>
    BY Zenon DEF AddCardPorts
  <2>2. all = All /\ some = taken
    BY Zenon DEF All, Taken
  <2> HIDE DEF all, some, taken, k
  <2>3. card' = [n \in DOMAIN card \cup taken |->
                     IF n \in DOMAIN card THEN card[n]
                     ELSE [available |-> Available(n), priority |-> ports[n].priority]]
    BY <2>1, <2>2, Zenon
  <2>4. k <= Len(All)
    BY <2>1, <2>2 DEF k
  <2> QED BY <2>1, <2>3, <2>4
<1>2. k \in Nat \ {0} /\ next'.route = k + 1 /\ Len(All) \in Nat
  <2>1. next' = [next EXCEPT !.route = @ + 1]
    BY <1>1
  <2>2. k \in Nat \ {0} /\ next'.route = k + 1
    BY <2>1 DEF NextInv
  <2>3. Len(All) \in Nat
    BY AllIs
  <2> QED BY <2>2, <2>3
<1>3. k \in 1..Len(All)
    BY <1>1, <1>2
<1>4. \A name : name \in DOMAIN card <=> \E i \in 1..Len(All) : i < k /\ name \in Taken(All[i])
  <2>1. stage = "card"
    BY <1>1
  <2> QED BY <2>1 DEF CardInv
<1>5. All' = All /\ (\A m : Taken(m)' = Taken(m)) /\ (\A n : Available(n)' = Available(n))
    BY <1>1, Zenon DEF All, Taken, MayHavePorts, Available
<1>6. /\ DOMAIN card' = DOMAIN card \cup taken
      /\ \A n \in DOMAIN card' : card'[n].available = Available(n)
  <2>1. DOMAIN card' = DOMAIN card \cup taken
    BY <1>1
  <2>2. \A n \in DOMAIN card : card'[n] = card[n] /\ card[n].available = Available(n)
    BY <1>1 DEF CardInv
  <2>3. \A n \in taken : n \notin DOMAIN card => card'[n].available = Available(n)
    <3> HIDE DEF taken
    <3> QED BY <1>1
  <2> HIDE DEF taken
  <2> QED BY <2>1, <2>2, <2>3
<1>7. \A i \in 1..Len(All) : i < k + 1 <=> i < k \/ i = k
    BY <1>2
<1> HIDE DEF k
<1>8. \A name : name \in DOMAIN card'
                   <=> \E i \in 1..Len(All) : i < k + 1 /\ name \in Taken(All[i])
    BY <1>3, <1>4, <1>6, <1>7
<1> HIDE DEF taken
<1> QED BY <1>1, <1>2, <1>5, <1>6, <1>8 DEF CardInv

LEMMA CardStep ==
    ASSUME NextInv, ProfileInv, ProfileNext, stage = "card" => MapInv
    PROVE  CardInv'
<1>0. CardInv
    BY DEF ProfileInv
<1>1. CASE UpdateOutput \/ UpdateInput \/ SkipPatch \/ Confused \/ NullSink \/ NextRoute
  <2>1. stage = "routes" /\ stage' \in {"routes", "aborted", "crashed"} /\ card' = card
    BY <1>1 DEF UpdateOutput, UpdateInput, SkipPatch, Confused, NullSink, NextRoute, Join, InRoute
  <2>2. card' = << >>
    BY <1>0, <2>1 DEF CardInv
  <2>3. DOMAIN card' = {}
    BY <2>2
  <2> QED BY <2>1, <2>2, <2>3 DEF CardInv
<1>2. CASE RoutesDone
  <2>1. stage' = "card" /\ card' = << >> /\ next'.route = 1
    BY <1>0, <1>2 DEF RoutesDone, CardInv
  <2>2. \A i \in 1..Len(All') : ~(i < 1)
    OBVIOUS
  <2>3. DOMAIN card' = {}
    BY <2>1
  <2> QED BY <2>1, <2>2, <2>3 DEF CardInv
<1>3. CASE AddCardPorts
    BY <1>0, <1>3, AddCardPortsKeeps DEF AddCardPorts
<1>4. CASE CardDone
  <2>1. /\ stage = "card" /\ stage' = "ready" /\ next.route > Len(outputs) + Len(inputs)
        /\ UNCHANGED <<mod, mappings, outputs, inputs, ports, card>>
    BY <1>4 DEF CardDone
  <2>2. All' = All /\ (\A m : Taken(m)' = Taken(m)) /\ (\A n : Available(n)' = Available(n))
    BY <2>1, Zenon DEF All, Taken, MayHavePorts, Available
  <2>3. \A i \in 1..Len(All) : i < next.route
    BY <2>1, AllIs DEF NextInv
  <2> QED BY <1>0, <2>1, <2>2, <2>3 DEF CardInv
<1> QED BY <1>1, <1>2, <1>3, <1>4 DEF ProfileNext

LEMMA ProfileStep ==
    ASSUME Sound(mod), NextInv, ProfileInv, ProfileNext PROVE ProfileInv'
<1>1. Alive => MapInv
    BY FreshMap DEF ProfileInv
<1>2. Alive
    BY DEF Alive, ProfileNext, UpdateOutput, UpdateInput, SkipPatch, Confused, NullSink, NextRoute,
           InRoute, RoutesDone, AddCardPorts, CardDone
<1>3. CardInv'
    BY <1>1, <1>2, CardStep
<1>4. Alive' => MapInv'
    BY <1>1, <1>2, MapStep DEF Alive
<1> QED BY <1>3, <1>4 DEF ProfileInv

-----------------------------------------------------------------------------
(* The invariant of the whole, and what follows of the mappings.           *)

MadeInv == ConfInv /\ (loaded # 0 => ProfileInv)

LEMMA LoadedIs ==
    ASSUME ConfInv, loaded # 0
    PROVE  WellRead(Loaded) /\ mod = Dup(Generate(Loaded)) /\ Sound(mod)
<1>1. WellRead(Loaded) /\ mod = Dup(Generate(Loaded))
    BY DEF ConfInv, LoadInv, FilesInv, Loaded
<1>2. Sound(mod)
  <2> DEFINE m == Loaded
  <2> HIDE DEF m
  <2> QED BY <1>1, ConfigIs DEF m
<1> QED BY <1>1, <1>2

LEMMA MadeStep ==
    ASSUME MadeInv, [ConfigNext]_allVars PROVE MadeInv'
<1>0. ConfInv'
    BY ConfStep DEF MadeInv
<1>1. CASE Parse
  <2>1. status # "done" /\ loaded' = loaded
    BY <1>1, DoneIsLast DEF Parse
  <2>2. loaded = 0
    BY <2>1 DEF MadeInv, ConfInv, LoadInv
  <2> QED BY <1>0, <2>1, <2>2 DEF MadeInv
<1>2. ASSUME NEW m \in DOMAIN modules, Load(m) PROVE MadeInv'
  <2>1. Fresh /\ UNCHANGED <<stage, next, mappings, outputs, inputs, ports, card>>
    BY <1>2 DEF Load, MadeInv, ConfInv, LoadInv
  <2>2. Fresh' /\ stage' = "routes" /\ card' = << >> /\ DOMAIN card' = {}
    BY <2>1 DEF Fresh
  <2>3. CardInv'
    BY <2>2 DEF CardInv
  <2> QED BY <1>0, <2>2, <2>3 DEF MadeInv, ProfileInv
<1>3. CASE MakeProfile
  <2>1. loaded # 0 /\ ProfileNext /\ loaded' = loaded
    BY <1>3 DEF MakeProfile
  <2>2. Sound(mod) /\ NextInv /\ ProfileInv
    BY <2>1, LoadedIs DEF MadeInv, ConfInv
  <2>3. ProfileInv'
    BY <2>1, <2>2, ProfileStep
  <2> QED BY <1>0, <2>3 DEF MadeInv
<1>4. CASE UNCHANGED allVars
  <2>1. loaded' = loaded /\ UNCHANGED profileVars
    BY <1>4 DEF allVars
  <2>2. ASSUME ProfileInv PROVE ProfileInv'
    <3>1. /\ UNCHANGED <<mod, mappings, outputs, inputs, ports>>
          /\ stage' = stage /\ next' = next /\ card' = card
        BY <2>1 DEF profileVars
    <3>2. CardInv'
        <4>1. All' = All /\ (\A m : Taken(m)' = Taken(m)) /\ (\A n : Available(n)' = Available(n))
            BY <3>1 DEF All, Taken, MayHavePorts, Available
        <4> QED BY <2>2, <3>1, <4>1 DEF ProfileInv, CardInv
    <3>3. CASE Fresh
        BY <3>1, <3>2, <3>3 DEF Fresh, ProfileInv
    <3>4. CASE Alive => MapInv
        <4>1. Alive' <=> Alive
            BY <3>1 DEF Alive
        <4>2. \A r, s : Past(r, s)' <=> Past(r, s)
            BY <3>1 DEF Past
        <4>3. \A kind \in Kinds : \A y, e : Joined(kind, y, e)' <=> Joined(kind, y, e)
            BY <3>1, <4>2, JoinedSame
        <4>4. Alive' => MapInv'
            BY <3>1, <3>4, <4>1, <4>3, MapSame
        <4> QED BY <3>2, <4>4 DEF ProfileInv
    <3> QED BY <2>2, <3>3, <3>4 DEF ProfileInv
  <2> QED BY <1>0, <2>1, <2>2 DEF MadeInv
<1> QED BY <1>1, <1>2, <1>3, <1>4 DEF ConfigNext

LEMMA MadeInit == ASSUME ConfigInit PROVE MadeInv
BY ConfInit DEF MadeInv, ConfigInit

(* The invariant of the mappings, when the routes were gone through.       *)
LEMMA RoutedIs ==
    ASSUME MadeInv, stage \in {"card", "ready"}
    PROVE  loaded # 0 /\ Sound(mod) /\ MapInv /\ CardInv
<1>1. loaded # 0
    BY DEF MadeInv, ConfInv, LoadInv, Fresh
<1>2. ~Fresh /\ Alive
    BY DEF Fresh, Alive
<1>3. Sound(mod)
    BY <1>1, LoadedIs DEF MadeInv
<1>4. ProfileInv
    BY <1>1 DEF MadeInv
<1>5. CardInv /\ (Fresh \/ (Alive => MapInv))
    BY <1>4 DEF ProfileInv
<1>6. MapInv
    BY <1>2, <1>5
<1>7. CardInv
    BY <1>5
<1> QED BY <1>1, <1>3, <1>6, <1>7

(* Then the pairs joined are those of the routes.                          *)
LEMMA PairsAre ==
    ASSUME Sound(mod), stage \in {"card", "ready"}, NEW kind \in Kinds
    PROVE  /\ \A x, d : <<x, d>> \in Pairs(kind) <=> Joined(kind, x, d)
           /\ \A p \in Pairs(kind) : p = <<p[1], p[2]>>
<1> DEFINE Of(i) ==
        LET r == mod.routes[i] IN
           IF r.sink = 0 THEN {}
           ELSE {<<IF kind = "output" THEN s ELSE r.sink, IF kind = "output" THEN r.sink ELSE s>> :
                 s \in {t \in Elements(r.sources) :
                          /\ Kind(t) = IF kind = "output" THEN "mix" ELSE "device"
                          /\ Kind(r.sink) = IF kind = "output" THEN "device" ELSE "mix"}}
<1>1. Pairs(kind) = UNION {Of(i) : i \in DOMAIN mod.routes}
    BY DEF Pairs
<1>2. ASSUME NEW i \in DOMAIN mod.routes
      PROVE  \A p : p \in Of(i) <=> \E s \in 1..Len(Sources(i)) : 
                    \E x, d : p = <<x, d>> /\ Joins(kind, i, s, x, d)
  <2>1. DOMAIN Sources(i) = 1..Len(Sources(i)) /\ Sources(i) = mod.routes[i].sources
    BY RoutesAre DEF Sources
  <2>2. \A t : t \in Elements(mod.routes[i].sources) <=> \E s \in 1..Len(Sources(i)) : t = Sources(i)[s]
    BY <2>1 DEF Elements
  <2>3. CASE kind = "output"
    BY <2>1, <2>2, <2>3 DEF Joins
  <2>4. CASE kind = "input"
    BY <2>1, <2>2, <2>4 DEF Joins
  <2> QED BY <2>3, <2>4 DEF Kinds
<1> HIDE DEF Of
<1>3. DOMAIN mod.routes = 1..Len(mod.routes)
    BY RoutesAre
<1>4. \A r, s : Past(r, s)
    BY DEF Past
<1>5. \A p : p \in Pairs(kind) <=> \E x, d : p = <<x, d>> /\ Joined(kind, x, d)
    BY <1>1, <1>2, <1>3, <1>4 DEF Joined
<1>6. \A p \in Pairs(kind) : p = <<p[1], p[2]>>
    BY <1>5
<1>7. ASSUME NEW x, NEW d PROVE <<x, d>> \in Pairs(kind) <=> Joined(kind, x, d)
    BY <1>5
<1> QED BY <1>6, <1>7

-----------------------------------------------------------------------------
(* The mappings are those of the routes.                                   *)

ListOf(kind) == IF kind = "output" THEN outputs ELSE inputs
Other(kind) == IF kind = "output" THEN "input" ELSE "output"

LEMMA ListOfIs ==
    ASSUME MapInv, NEW kind \in Kinds
    PROVE  /\ ListInv(kind, ListOf(kind)) /\ DOMAIN ListOf(kind) = 1..Len(ListOf(kind))
           /\ \A i \in 1..Len(ListOf(kind)) : ListOf(kind)[i] \in 1..Len(mappings)
           /\ Elements(ListOf(kind)) = {ListOf(kind)[i] : i \in 1..Len(ListOf(kind))}
<1>1. ListInv(kind, ListOf(kind))
    BY DEF MapInv, ListOf, Kinds
<1>2. ListOf(kind) \in Seq(1..Len(mappings))
    BY <1>1 DEF ListInv
<1>3. DOMAIN ListOf(kind) = 1..Len(ListOf(kind))
    BY <1>2, LenProperties
<1>4. \A i \in 1..Len(ListOf(kind)) : ListOf(kind)[i] \in 1..Len(mappings)
    BY <1>2, ElementOfSeq
<1> QED BY <1>1, <1>3, <1>4 DEF Elements

(* A mapping on a list is that of a mix port at the end the list is for,   *)
(* and reaches what its mix port has routes of that kind with.             *)
LEMMA OnList ==
    ASSUME Sound(mod), MapInv, stage \in {"card", "ready"}, RolesAgree,
           NEW kind \in Kinds, NEW i \in Elements(ListOf(kind))
    PROVE  /\ i \in 1..Len(mappings)
           /\ mappings[i].dir = kind
           /\ \A d : d \in mappings[i].devices <=> Joined(kind, mappings[i].mix, d)
<1> DEFINE x == mappings[i].mix
<1>1. PICK k \in 1..Len(ListOf(kind)) : i = ListOf(kind)[k]
    BY ListOfIs
<1>2. i \in 1..Len(mappings)
    BY <1>1, ListOfIs
<1>3. PICK e : Joined(kind, x, e)
  <2>1. ListInv(kind, ListOf(kind))
    BY ListOfIs
  <2> QED BY <1>1, <2>1 DEF ListInv
<1> HIDE DEF x
<1>4. ASSUME NEW other \in Kinds, NEW d, Joined(other, x, d)
      PROVE  mod.ports[x].role = IF other = "output" THEN "source" ELSE "sink"
  <2>1. <<x, d>> \in Pairs(other)
    BY <1>4, PairsAre
  <2> DEFINE p == <<x, d>>
  <2>2. p \in Pairs(other) /\ p[1] = x
    BY <2>1
  <2> HIDE DEF p
  <2> QED BY <2>2 DEF RolesAgree, Kinds
<1>5. mod.ports[x].role = IF kind = "output" THEN "source" ELSE "sink"
    BY <1>3, <1>4
<1>6. mappings[i].dir = kind
    BY <1>2, <1>5 DEF MapInv, MixInv, Direction, Kinds, x
<1>7. \A d : ~Joined(Other(kind), x, d)
    BY <1>4, <1>5 DEF Other, Kinds
<1>8. \A d : d \in mappings[i].devices <=> Joint(x, d)
    BY <1>2 DEF MapInv, ReachInv, x
<1> QED BY <1>2, <1>6, <1>7, <1>8 DEF Joint, Other, Kinds, x

LEMMA MappedAsRouted ==
    ASSUME MadeInv PROVE MappingsOfRoutes
<1>1. CASE stage \in {"card", "ready"}
  <2>1. Sound(mod) /\ MapInv
    BY <1>1, RoutedIs
  <2>2. ASSUME NEW kind \in Kinds
        PROVE  /\ {mappings[i].mix : i \in Elements(ListOf(kind))} = {p[1] : p \in Pairs(kind)}
               /\ \A i, j \in DOMAIN ListOf(kind) :
                     i # j => mappings[ListOf(kind)[i]].mix # mappings[ListOf(kind)[j]].mix
    <3> DEFINE list == ListOf(kind)
               firsts == {p[1] : p \in Pairs(kind)}
    <3>1. /\ ListInv(kind, list) /\ DOMAIN list = 1..Len(list)
          /\ Elements(list) = {list[i] : i \in 1..Len(list)}
        BY <2>1, ListOfIs
    <3>2. \A x : x \in firsts <=> \E d : Joined(kind, x, d)
      <4>1. \A x, d : <<x, d>> \in Pairs(kind) <=> Joined(kind, x, d)
        BY <1>1, <2>1, PairsAre
      <4>2. \A p \in Pairs(kind) : p = <<p[1], p[2]>>
        BY <1>1, <2>1, PairsAre
      <4>3. ASSUME NEW x, NEW d, Joined(kind, x, d) PROVE x \in firsts
        <5> DEFINE p == <<x, d>>
        <5>1. p \in Pairs(kind) /\ p[1] = x
            BY <4>1, <4>3
        <5> HIDE DEF p
        <5> QED BY <5>1
      <4>4. ASSUME NEW p \in Pairs(kind) PROVE Joined(kind, p[1], p[2])
        <5>1. <<p[1], p[2]>> \in Pairs(kind)
            BY <4>2
        <5> QED BY <4>1, <5>1
      <4>5. \A x \in firsts : \E d : Joined(kind, x, d)
        BY <4>4
      <4> HIDE DEF firsts
      <4> QED BY <4>3, <4>5
    <3> HIDE DEF list, firsts
    <3>3. \A x : x \in {mappings[i].mix : i \in Elements(list)} <=> \E i \in 1..Len(list) : mappings[list[i]].mix = x
        BY <3>1
    <3>4. {mappings[i].mix : i \in Elements(list)} = firsts
        BY <3>1, <3>2, <3>3 DEF ListInv
    <3>5. \A i, j \in DOMAIN list : i # j => mappings[list[i]].mix # mappings[list[j]].mix
        BY <3>1 DEF ListInv
    <3> QED BY <3>4, <3>5 DEF list, firsts
  <2>3. MappingPerMixPort
    BY <2>2 DEF MappingPerMixPort, ListOf, Kinds
  <2>4. ASSUME RolesAgree, NEW kind \in Kinds, NEW i \in Elements(ListOf(kind)),
               NEW reached, reached = {p[2] : p \in {q \in Pairs(kind) : q[1] = mappings[i].mix}}
        PROVE  /\ mappings[i].devices = reached
               /\ mappings[i].ports = {mod.ports[d].type : d \in reached} \cup {Parking(mappings[i].dir)}
    <3> DEFINE x == mappings[i].mix
    <3>1. /\ i \in 1..Len(mappings)
          /\ \A d : d \in mappings[i].devices <=> Joined(kind, x, d)
        BY <1>1, <2>1, <2>4, OnList
    <3>2. \A d : d \in reached <=> Joined(kind, x, d)
      <4>1. \A y, d : <<y, d>> \in Pairs(kind) <=> Joined(kind, y, d)
        BY <1>1, <2>1, PairsAre
      <4>2. \A p \in Pairs(kind) : p = <<p[1], p[2]>>
        BY <1>1, <2>1, PairsAre
      <4>3. ASSUME NEW d, Joined(kind, x, d) PROVE d \in reached
        <5> DEFINE p == <<x, d>>
        <5>1. p \in Pairs(kind) /\ p[1] = x /\ p[2] = d
            BY <4>1, <4>3
        <5> HIDE DEF p
        <5> QED BY <2>4, <5>1 DEF x
      <4>4. ASSUME NEW p \in Pairs(kind), p[1] = x PROVE Joined(kind, x, p[2])
        <5>1. <<x, p[2]>> \in Pairs(kind)
            BY <4>2, <4>4
        <5> QED BY <4>1, <5>1
      <4> QED BY <2>4, <4>3, <4>4
    <3>3. mappings[i].devices = reached
      <4> HIDE DEF x
      <4>1. \A d : d \in mappings[i].devices <=> d \in reached
        BY <3>1, <3>2
      <4> QED BY <4>1
    <3>4. mappings[i].ports = {mod.ports[d].type : d \in mappings[i].devices} \cup {Parking(mappings[i].dir)}
        BY <2>1, <3>1 DEF MapInv, ReachInv
    <3> QED BY <3>3, <3>4
  <2>5. MappingReachesRoutes
    BY <2>4 DEF MappingReachesRoutes, ListOf, Kinds
  <2> QED BY <2>3, <2>5 DEF MappingsOfRoutes
<1>2. CASE stage \notin {"card", "ready"}
    BY <1>2 DEF MappingsOfRoutes, MappingPerMixPort, MappingReachesRoutes
<1> QED BY <1>1, <1>2

(* Whatever order the routes come in and however often one is repeated,    *)
(* the profile lists one mapping for every mix port with a route, and it   *)
(* reaches the devices of these routes and their ports, and nothing else.  *)
THEOREM MappingsCorrect == ConfigSpec => []MappingsOfRoutes
BY MadeInit, MadeStep, MappedAsRouted, PTL DEF ConfigSpec

-----------------------------------------------------------------------------
(* The ports are what the configuration says.                              *)

LEMMA OfDefault ==
    ASSUME MapInv, mod.default # 0, NEW best, best = mod.ports[mod.default].type,
           best \in OutTypes, NEW i \in 1..Len(mappings), best \in mappings[i].ports,
           NEW n \in mappings[i].ports
    PROVE  ports[n].priority <= ports[best].priority
<1>1. PortOK(best) /\ PortOK(n)
    BY DEF MapInv, PortInv
<1>2. ports[best].priority = Priority(best)
    BY <1>1, ParkingAssumption DEF PortOK
<1>3. ports[n].priority = 50 \/ ports[n].priority = Priority(n)
    BY <1>1 DEF PortOK
<1>4. Priority(best) \in {200, 300}
    BY DEF Priority
<1>5. n # best => Priority(n) \in {100, 200}
    BY DEF Priority
<1> QED BY <1>2, <1>3, <1>4, <1>5

LEMMA CardAvailable ==
    ASSUME Sound(mod), MapInv, NEW n \in DOMAIN ports
    PROVE  Available(n) <=> n \in Connected \cup {OutputParking, InputParking}
<1>1. PortOK(n)
    BY DEF MapInv, PortInv
<1>2. 0 \notin DOMAIN mod.ports
    BY DEF Sound, IsList
<1>3. CASE n \in {OutputParking, InputParking}
  <2>1. ports[n].device = 0
    BY <1>1, <1>3, ParkingAssumption DEF PortOK
  <2> QED BY <1>3, <2>1 DEF Available
<1>4. CASE n \notin {OutputParking, InputParking}
  <2>1. ports[n].device # 0 /\ mod.ports[ports[n].device].type = n
    BY <1>1, <1>2, <1>4 DEF PortOK
  <2> QED BY <1>4, <2>1 DEF Available
<1> QED BY <1>3, <1>4

(* The card's ports are those of the mappings that may have them.          *)
LEMMA CardTaken ==
    ASSUME Sound(mod), MapInv, CardInv, stage = "ready", RolesAgree, NEW name
    PROVE  name \in DOMAIN card
              <=> \/ \E i \in Elements(outputs) :
                        mod.ports[mappings[i].mix].primary /\ name \in mappings[i].ports
                  \/ \E i \in Elements(inputs) : name \in mappings[i].ports
<1>1. name \in DOMAIN card <=> \E i \in 1..Len(All) : name \in Taken(All[i])
    BY DEF CardInv
<1>2. /\ Elements(outputs) = {outputs[i] : i \in 1..Len(outputs)}
      /\ Elements(inputs) = {inputs[i] : i \in 1..Len(inputs)}
  <2>1. ListOf("output") = outputs /\ ListOf("input") = inputs /\ "output" \in Kinds /\ "input" \in Kinds
    BY DEF ListOf, Kinds
  <2> QED BY <2>1, ListOfIs
<1>3. ASSUME NEW i \in Elements(outputs)
      PROVE  name \in Taken(i) <=> mod.ports[mappings[i].mix].primary /\ name \in mappings[i].ports
  <2>1. mappings[i].dir = "output"
    <3>1. ListOf("output") = outputs /\ "output" \in Kinds
        BY DEF ListOf, Kinds
    <3> QED BY <3>1, OnList
  <2> QED BY <2>1 DEF Taken, MayHavePorts
<1>4. ASSUME NEW i \in Elements(inputs) PROVE Taken(i) = mappings[i].ports
  <2>1. mappings[i].dir = "input"
    <3>1. ListOf("input") = inputs /\ "input" \in Kinds
        BY DEF ListOf, Kinds
    <3> QED BY <3>1, OnList
  <2> QED BY <2>1 DEF Taken, MayHavePorts
<1>5. (\E i \in 1..Len(All) : name \in Taken(All[i]))
        <=> \/ \E i \in 1..Len(outputs) : name \in Taken(outputs[i])
            \/ \E i \in 1..Len(inputs) : name \in Taken(inputs[i])
  <2>1. ASSUME NEW i \in 1..Len(All), name \in Taken(All[i])
        PROVE  \/ \E k \in 1..Len(outputs) : name \in Taken(outputs[k])
               \/ \E k \in 1..Len(inputs) : name \in Taken(inputs[k])
    <3>1. i \in 1..Len(outputs) \/ \E k \in 1..Len(inputs) : i = Len(outputs) + k
        BY AllIs
    <3>2. CASE i \in 1..Len(outputs)
        BY <2>1, <3>2, AllIs
    <3>3. ASSUME NEW k \in 1..Len(inputs), i = Len(outputs) + k PROVE name \in Taken(inputs[k])
        BY <2>1, <3>3, AllIs
    <3> QED BY <3>1, <3>2, <3>3
  <2>2. ASSUME NEW k \in 1..Len(outputs), name \in Taken(outputs[k])
        PROVE  \E i \in 1..Len(All) : name \in Taken(All[i])
    BY <2>2, AllIs
  <2>3. ASSUME NEW k \in 1..Len(inputs), name \in Taken(inputs[k])
        PROVE  \E i \in 1..Len(All) : name \in Taken(All[i])
    <3> DEFINE i == Len(outputs) + k
    <3>1. i \in 1..Len(All) /\ All[i] = inputs[k]
        BY AllIs
    <3> HIDE DEF i
    <3> QED BY <2>3, <3>1
  <2> QED BY <2>1, <2>2, <2>3
<1>6. (\E i \in 1..Len(outputs) : name \in Taken(outputs[i])) <=> \E i \in Elements(outputs) : name \in Taken(i)
    BY <1>2
<1>7. (\E i \in 1..Len(inputs) : name \in Taken(inputs[i])) <=> \E i \in Elements(inputs) : name \in Taken(i)
    BY <1>2
<1> QED BY <1>1, <1>3, <1>4, <1>5, <1>6, <1>7

LEMMA PortsAsConfigured ==
    ASSUME MadeInv PROVE PortsOfMappings
<1>1. ASSUME stage \in {"card", "ready"}, mod.default # 0 PROVE DefaultPortBest
  <2>1. MapInv
    BY <1>1, RoutedIs
  <2>2. Elements(outputs) \subseteq 1..Len(mappings)
    <3>1. ListOf("output") = outputs /\ "output" \in Kinds
        BY DEF ListOf, Kinds
    <3>2. Elements(ListOf("output")) \subseteq 1..Len(mappings)
        BY <2>1, <3>1, ListOfIs
    <3> QED BY <3>1, <3>2
  <2> QED BY <1>1, <2>1, <2>2, OfDefault DEF DefaultPortBest
<1>2. ASSUME stage = "ready", RolesAgree PROVE CardPortsOfMappings
  <2>1. Sound(mod) /\ MapInv /\ CardInv
    BY <1>2, RoutedIs
  <2> DEFINE from == {i \in Elements(outputs) :
                        \E p \in {mod.ports[mappings[i].mix]} : p.primary} \cup Elements(inputs)
             those == UNION {mappings[i].ports : i \in from}
  <2>2. ASSUME NEW name
        PROVE  name \in those
              <=> \/ \E i \in Elements(outputs) :
                        mod.ports[mappings[i].mix].primary /\ name \in mappings[i].ports
                  \/ \E i \in Elements(inputs) : name \in mappings[i].ports
    OBVIOUS
  <2> HIDE DEF those
  <2>3. DOMAIN card = those
    <3>1. \A name : name \in DOMAIN card <=> name \in those
        BY <1>2, <2>1, <2>2, CardTaken
    <3> QED BY <3>1
  <2>4. ASSUME NEW n \in DOMAIN card
        PROVE  card[n].available <=> n \in Connected \cup {OutputParking, InputParking}
    <3>1. PICK i \in 1..Len(mappings) : n \in mappings[i].ports
      <4>1. PICK i \in Elements(outputs) \cup Elements(inputs) : n \in mappings[i].ports
        BY <2>2, <2>3
      <4>2. i \in 1..Len(mappings)
        <5>1. ListOf("output") = outputs /\ ListOf("input") = inputs /\ "output" \in Kinds /\ "input" \in Kinds
            BY DEF ListOf, Kinds
        <5>2. \A kind \in Kinds : Elements(ListOf(kind)) \subseteq 1..Len(mappings)
            BY <2>1, ListOfIs
        <5> QED BY <5>1, <5>2
      <4> QED BY <4>1, <4>2
    <3>2. n \in DOMAIN ports
        BY <2>1, <3>1 DEF MapInv, PortInv
    <3>3. card[n].available = Available(n)
        BY <2>1 DEF CardInv
    <3> QED BY <2>1, <3>2, <3>3, CardAvailable
  <2> QED BY <2>3, <2>4 DEF CardPortsOfMappings, those
<1> QED BY <1>1, <1>2 DEF PortsOfMappings, DefaultPortBest, CardPortsOfMappings

(* Of the ports of an output that has the default device, none is before  *)
(* that of the default device; the card has the ports of its inputs and    *)
(* primary outputs, and none that can be unplugged is available from the   *)
(* start.                                                                  *)
THEOREM PortsCorrect == ConfigSpec => []PortsOfMappings
BY MadeInit, MadeStep, PortsAsConfigured, PTL DEF ConfigSpec

-----------------------------------------------------------------------------
(* The card of a plain module.                                             *)

IsDevice(i) == i \in DOMAIN mod.ports /\ Kind(i) = "device"

(* What a plain module's configuration is.                                 *)
Unlike ==
    \A i, j \in DOMAIN mod.ports :
        i # j => /\ mod.ports[i].name # mod.ports[j].name
                 /\ IsDevice(i) /\ IsDevice(j) => mod.ports[i].type # mod.ports[j].type
PlainRoute(r) ==
    LET k == mod.routes[r].sink IN
    /\ k # 0 /\ mod.ports[k].role = "sink"
    /\ \A s \in 1..Len(Sources(r)) :
          mod.ports[Sources(r)[s]].role = "source" /\ Kind(Sources(r)[s]) # Kind(k)
PlainMod ==
    /\ Unlike
    /\ IsDevice(mod.default) /\ mod.ports[mod.default].role = "sink"
    /\ \A r \in 1..Len(mod.routes) : PlainRoute(r)

LEMMA PlainIs ==
    ASSUME ConfInv, loaded # 0, PlainModule PROVE PlainMod
<1> DEFINE m == Loaded P == Ports(Loaded) n == Size(Loaded) a == Len(Loaded.devicePorts)
<1>1. WellRead(m) /\ Sound(mod) /\ mod = Dup(Generate(m))
    BY LoadedIs
<1>2. /\ mod.ports = P /\ DOMAIN mod.routes = DOMAIN m.routes
      /\ mod.default = IF m.default = <<>> THEN 0 ELSE First(Named(DevicesOf(m), m.default[1]))
      /\ \A i \in DOMAIN m.routes : RouteCopied(mod, m, i)
  <2> HIDE DEF m
  <2> QED BY <1>1, ConfigIs DEF m
<1>3. /\ n \in Nat /\ a \in 0..n /\ DOMAIN ReadPorts = 1..n /\ DOMAIN P = 1..n
      /\ DOMAIN DevicesOf(m) = 1..a
      /\ \A i \in 1..n :
                 /\ P[i].name = ReadPorts[i].name
                 /\ P[i].role = ReadPorts[i].role
                 /\ ~IsMix(i) => /\ P[i].kind = "device"
                                 /\ P[i].type = ReadPorts[i].type
                                 /\ P[i] = DevicesOf(m)[i]
                 /\ IsMix(i) => P[i].kind = "mix"
    BY <1>1, ReadPortsIs
<1>4. \A name : /\ Named(ReadPorts, name) = Named(P, name)
                /\ First(Named(P, name)) = 0 <=> Named(ReadPorts, name) = {}
                /\ First(Named(P, name)) # 0 =>
                      /\ First(Named(P, name)) \in 1..n
                      /\ P[First(Named(P, name))].name = name
    BY <1>1, SameNamed
<1>5. \A i : IsMix(i) <=> i > a
    BY DEF IsMix, Loaded
<1>6. \A i \in 1..n : i \in 1..a => DevicesOf(m)[i] = P[i]
    BY <1>3, <1>5
<1>7. /\ \A i, j \in DOMAIN ReadPorts :
              i # j => /\ ReadPorts[i].name # ReadPorts[j].name
                       /\ ~IsMix(i) /\ ~IsMix(j) => ReadPorts[i].type # ReadPorts[j].type
      /\ m.default # <<>>
      /\ \E i \in Named(ReadPorts, m.default[1]) : ~IsMix(i) /\ ReadPorts[i].role = "sink"
      /\ \A r \in Elements(m.routes) :
              \E i \in Named(ReadPorts, r.sink) :
                 /\ ReadPorts[i].role = "sink"
                 /\ \A s \in Elements(r.sources) :
                       \E j \in Named(ReadPorts, s) : ReadPorts[j].role = "source" /\ IsMix(i) # IsMix(j)
    BY DEF PlainModule, Loaded
<1> HIDE DEF m, P, n, a
<1>8. Unlike
    BY <1>2, <1>3, <1>7 DEF Unlike, IsDevice, Kind
<1>9. ASSUME NEW name, NEW i \in Named(ReadPorts, name)
      PROVE  First(Named(P, name)) = i /\ i \in 1..n
  <2>1. i \in 1..n /\ P[i].name = name
    BY <1>3 DEF Named
  <2>2. First(Named(P, name)) \in 1..n /\ P[First(Named(P, name))].name = name
    BY <1>4
  <2> QED BY <1>2, <1>3, <1>8, <2>1, <2>2 DEF Unlike
<1>10. IsDevice(mod.default) /\ mod.ports[mod.default].role = "sink"
  <2>1. PICK i \in Named(ReadPorts, m.default[1]) : ~IsMix(i) /\ ReadPorts[i].role = "sink"
    BY <1>7
  <2>2. i \in 1..n /\ ReadPorts[i].name = m.default[1]
    BY <1>3 DEF Named
  <2>3. i \in 1..a /\ P[i].kind = "device" /\ P[i].role = "sink" /\ P[i].name = m.default[1]
    BY <1>3, <1>5, <2>1, <2>2
  <2> DEFINE D == DevicesOf(m) k == First(Named(DevicesOf(m), m.default[1]))
  <2>4. i \in Named(D, m.default[1])
    BY <1>3, <1>6, <2>2, <2>3 DEF Named
  <2>5. /\ k = 0 <=> Named(D, m.default[1]) = {}
        /\ k # 0 => k \in 1..a /\ D[k].name = m.default[1]
    <3> HIDE DEF D
    <3>1. a \in Nat /\ DOMAIN D = 1..a
        BY <1>3 DEF D
    <3> QED BY <3>1, FirstNamed DEF D
  <2> HIDE DEF D, k
  <2>6. k \in 1..a /\ D[k].name = m.default[1]
    BY <2>4, <2>5
  <2>7. k \in 1..n /\ P[k].name = m.default[1]
    BY <1>3, <1>6, <2>6 DEF D
  <2>8. k = i
    BY <1>2, <1>3, <1>8, <2>2, <2>3, <2>7 DEF Unlike
  <2> QED BY <1>2, <1>3, <1>7, <2>3, <2>7, <2>8 DEF IsDevice, Kind, k
<1>11. ASSUME NEW r \in 1..Len(mod.routes) PROVE PlainRoute(r)
  <2>1. r \in DOMAIN mod.routes /\ r \in DOMAIN m.routes /\ RouteCopied(mod, m, r)
    BY <1>1, <1>2, RoutesAre
  <2>2. PICK i \in Named(ReadPorts, m.routes[r].sink) :
            /\ ReadPorts[i].role = "sink"
            /\ \A s \in Elements(m.routes[r].sources) :
                  \E j \in Named(ReadPorts, s) : ReadPorts[j].role = "source" /\ IsMix(i) # IsMix(j)
    BY <1>7, <2>1 DEF Elements
  <2>3. mod.routes[r].sink = i /\ i \in 1..n
    BY <1>2, <1>9, <2>1 DEF RouteCopied
  <2>4. ASSUME NEW s \in 1..Len(Sources(r))
        PROVE  mod.ports[Sources(r)[s]].role = "source" /\ Kind(Sources(r)[s]) # Kind(i)
    <3>1. Sources(r)[s] \in Elements(mod.routes[r].sources)
        BY <1>1, RoutesAre DEF Elements, Sources
    <3>2. Sources(r)[s] \in FirstsOf(P, m.routes[r].sources)
        BY <1>2, <2>1, <3>1 DEF RouteCopied
    <3>3. PICK name \in Elements(m.routes[r].sources) : Sources(r)[s] = First(Named(P, name))
        BY <3>2 DEF FirstsOf
    <3>4. PICK j \in Named(ReadPorts, name) : ReadPorts[j].role = "source" /\ IsMix(i) # IsMix(j)
        BY <2>2
    <3>5. Sources(r)[s] = j /\ j \in 1..n
        BY <1>9, <3>3
    <3>6. (P[i].kind = "mix" <=> IsMix(i)) /\ (P[j].kind = "mix" <=> IsMix(j))
        BY <1>3, <2>3, <3>5
    <3>7. P[i].kind # P[j].kind
        <4>1. IsMix(i) \in BOOLEAN /\ IsMix(j) \in BOOLEAN
            BY DEF IsMix
        <4> QED BY <3>4, <3>6, <4>1
    <3> QED BY <1>2, <1>3, <3>4, <3>5, <3>7 DEF Kind
  <2>5. mod.ports[i].role = "sink" /\ i # 0
    BY <1>2, <1>3, <2>2, <2>3
  <2> QED BY <2>3, <2>4, <2>5 DEF PlainRoute
<1> QED BY <1>8, <1>10, <1>11 DEF PlainMod

(* No step of its profile ends the daemon.                                 *)
LEMMA PlainStep ==
    ASSUME Sound(mod), NextInv, PlainMod, ProfileNext, stage \notin {"aborted", "crashed"}
    PROVE  stage' \notin {"aborted", "crashed"}
<1>1. ASSUME InRoute, HasSource
      PROVE  /\ Route.sink # 0 /\ mod.ports[Route.sink].role = "sink"
             /\ mod.ports[Source].role = "source" /\ Kind(Source) # Kind(Route.sink)
             /\ Source \in DOMAIN mod.ports /\ Route.sink \in DOMAIN mod.ports
  <2>1. /\ next.route \in 1..Len(mod.routes) /\ next.source \in 1..Len(Sources(next.route))
        /\ Source = Sources(next.route)[next.source] /\ Route.sink = mod.routes[next.route].sink
        /\ Source \in DOMAIN mod.ports /\ (Route.sink # 0 => Route.sink \in DOMAIN mod.ports)
    BY <1>1, HereIs
  <2>2. PlainRoute(next.route)
    BY <2>1 DEF PlainMod
  <2> QED BY <2>1, <2>2 DEF PlainRoute
<1>2. ASSUME NEW d \in DOMAIN mod.ports, Kind(d) = "device"
      PROVE  mod.ports[d].type \in (IF mod.ports[d].role = "sink" THEN OutTypes ELSE InTypes)
    BY <1>2 DEF Sound, Kind, KnownType
<1>3. CASE UpdateOutput
  <2>1. /\ InRoute /\ HasSource /\ Kind(Route.sink) = "device" /\ Join(Source, Route.sink, "output")
    BY <1>3 DEF UpdateOutput
  <2>2. Direction(Source) = "output" /\ mod.ports[Route.sink].type \in OutTypes
    BY <1>1, <1>2, <2>1 DEF Direction
  <2> QED BY <2>1, <2>2 DEF Join
<1>4. CASE UpdateInput
  <2>1. /\ InRoute /\ HasSource /\ Kind(Source) = "device" /\ Join(Route.sink, Source, "input")
    BY <1>4 DEF UpdateInput
  <2>2. Direction(Route.sink) = "input" /\ mod.ports[Source].type \in InTypes
    BY <1>1, <1>2, <2>1 DEF Direction
  <2> QED BY <2>1, <2>2 DEF Join
<1>5. ~Confused /\ ~NullSink
    BY <1>1 DEF Confused, NullSink
<1>6. CASE SkipPatch \/ NextRoute \/ RoutesDone \/ AddCardPorts \/ CardDone
    BY <1>6 DEF SkipPatch, NextRoute, RoutesDone, AddCardPorts, CardDone
<1> QED BY <1>3, <1>4, <1>5, <1>6 DEF ProfileNext

(* What is joined is a device; the first port that is one thing is found.  *)
LEMMA JointDevice ==
    ASSUME Sound(mod), NEW x, NEW d, Joint(x, d) PROVE IsDevice(d)
<1>1. PICK kind \in Kinds : Joined(kind, x, d)
    BY DEF Joint, Kinds
<1>2. PICK r \in 1..Len(mod.routes) : \E s \in 1..Len(Sources(r)) : Joins(kind, r, s, x, d)
    BY <1>1 DEF Joined
<1>3. PICK s \in 1..Len(Sources(r)) : Joins(kind, r, s, x, d)
    BY <1>2
<1>4. d \in Firsts(mod.ports)
    BY <1>3, RoutesAre DEF Joins, Kinds
<1> QED BY <1>3, <1>4 DEF Joins, IsDevice, Firsts

LEMMA OnlyOne ==
    ASSUME NEW T, NEW k \in Nat \ {0}, T = {k} PROVE First(T) = k
<1>1. T \subseteq Nat \ {0} /\ T # {}
    OBVIOUS
<1> QED BY <1>1, FirstIs

LEMMA TypeFound ==
    ASSUME Sound(mod), Unlike, NEW d, IsDevice(d)
    PROVE  FindDevicePort(mod, mod.ports[d].type) = d
<1> DEFINE T == {i \in DOMAIN mod.ports : /\ mod.ports[i].kind = "device"
                                          /\ mod.ports[i].type = mod.ports[d].type}
<1>1. T = {d}
    BY DEF Unlike, IsDevice, Kind
<1>2. d \in Nat \ {0}
    BY DEF IsDevice, Sound, IsList
<1> HIDE DEF T
<1>3. First(T) = d
    BY <1>1, <1>2, OnlyOne
<1> QED BY <1>3 DEF FindDevicePort, T

LEMMA MixFound ==
    ASSUME Sound(mod), Unlike, NEW x \in Mixes
    PROVE  FindMixPort(mod, mod.ports[x].name) = x
<1> DEFINE T == {i \in Named(mod.ports, mod.ports[x].name) : mod.ports[i].kind = "mix"}
<1>0. x \in DOMAIN mod.ports /\ mod.ports[x].kind = "mix"
    BY DEF Mixes, Firsts, Kind
<1>1. T = {x}
    BY <1>0 DEF Unlike, Named
<1>2. x \in Nat \ {0}
    BY <1>0 DEF Sound, IsList
<1> HIDE DEF T
<1>3. First(T) = x
    BY <1>1, <1>2, OnlyOne
<1> QED BY <1>3 DEF FindMixPort, T

LEMMA PlainReady ==
    ASSUME Sound(mod), MapInv, PlainMod
    PROVE  /\ \A i \in DOMAIN mappings : \A d \in mappings[i].devices :
                 /\ ports[mod.ports[d].type].device = d
                 /\ FindDevicePort(mod, mod.ports[d].type) = d
           /\ \A i \in Elements(outputs) :
                 FindMixPort(mod, mod.ports[mappings[i].mix].name) = mappings[i].mix
           /\ mod.default # 0 /\ FindDevicePort(mod, mod.ports[mod.default].type) = mod.default
<1>0. Unlike /\ DOMAIN mappings = 1..Len(mappings)
    BY LenProperties DEF PlainMod, MapInv, MixInv
<1>1. ASSUME NEW i \in 1..Len(mappings), NEW d \in mappings[i].devices
      PROVE  /\ ports[mod.ports[d].type].device = d
             /\ FindDevicePort(mod, mod.ports[d].type) = d
  <2>1. IsDevice(d)
    BY <1>1, JointDevice DEF MapInv, ReachInv
  <2>2. mod.ports[d].type \in mappings[i].ports
    BY <1>1 DEF MapInv, ReachInv
  <2>3. PortOK(mod.ports[d].type)
    BY <2>2 DEF MapInv, PortInv
  <2>4. mod.ports[d].type \in OutTypes \cup InTypes
    BY <2>1 DEF Sound, IsDevice, Kind, KnownType
  <2>5. IsDevice(ports[mod.ports[d].type].device)
        /\ mod.ports[ports[mod.ports[d].type].device].type = mod.ports[d].type
    BY <2>3, <2>4, ParkingAssumption DEF PortOK, IsDevice
  <2>6. ports[mod.ports[d].type].device = d
    BY <1>0, <2>1, <2>5 DEF Unlike, IsDevice
  <2> QED BY <1>0, <2>1, <2>6, TypeFound
<1>2. ASSUME NEW i \in Elements(outputs)
      PROVE  FindMixPort(mod, mod.ports[mappings[i].mix].name) = mappings[i].mix
  <2>1. i \in 1..Len(mappings)
    <3>1. ListOf("output") = outputs /\ "output" \in Kinds
        BY DEF ListOf, Kinds
    <3> QED BY <3>1, ListOfIs
  <2>2. mappings[i].mix \in Mixes
    BY <2>1 DEF MapInv, MixInv
  <2> QED BY <1>0, <2>2, MixFound
<1>3. mod.default # 0
    BY DEF PlainMod, IsDevice, Sound, IsList
<1> QED BY <1>0, <1>1, <1>2, <1>3, TypeFound DEF PlainMod

PlainInv == MadeInv /\ (loaded # 0 /\ PlainModule => stage \notin {"aborted", "crashed"})

LEMMA PlainInvStep ==
    ASSUME PlainInv, [ConfigNext]_allVars PROVE PlainInv'
<1>0. MadeInv'
    BY MadeStep DEF PlainInv
<1>1. CASE Parse
  <2>1. status # "done" /\ loaded' = loaded
    BY <1>1, DoneIsLast DEF Parse
  <2>2. loaded = 0
    BY <2>1 DEF PlainInv, MadeInv, ConfInv, LoadInv
  <2> QED BY <1>0, <2>1, <2>2 DEF PlainInv
<1>2. ASSUME NEW m \in DOMAIN modules, Load(m) PROVE PlainInv'
  <2>1. stage' = "routes"
    BY <1>2 DEF Load, PlainInv, MadeInv, ConfInv, LoadInv, Fresh
  <2> QED BY <1>0, <2>1 DEF PlainInv
<1>3. ASSUME UNCHANGED <<modules, loaded>> PROVE PlainModule' <=> PlainModule
  <2>1. ReadPorts' = ReadPorts /\ \A i : IsMix(i)' = IsMix(i)
    BY <1>3 DEF ReadPorts, IsMix
  <2> QED BY <1>3, <2>1 DEF PlainModule
<1>4. CASE MakeProfile
  <2>1. loaded # 0 /\ ProfileNext /\ UNCHANGED <<modules, loaded>>
    BY <1>4 DEF MakeProfile, vars
  <2>2. ASSUME PlainModule PROVE stage' \notin {"aborted", "crashed"}
    <3>1. ConfInv /\ NextInv /\ stage \notin {"aborted", "crashed"}
        BY <2>1, <2>2 DEF PlainInv, MadeInv, ConfInv
    <3>2. Sound(mod) /\ PlainMod
        BY <2>1, <2>2, <3>1, LoadedIs, PlainIs
    <3> QED BY <2>1, <3>1, <3>2, PlainStep
  <2> QED BY <1>0, <1>3, <2>1, <2>2 DEF PlainInv
<1>5. CASE UNCHANGED allVars
  <2>1. UNCHANGED <<modules, loaded, stage>>
    BY <1>5 DEF allVars, vars, profileVars
  <2> QED BY <1>0, <1>3, <2>1 DEF PlainInv
<1> QED BY <1>1, <1>2, <1>4, <1>5 DEF ConfigNext

LEMMA PlainIsEnough ==
    ASSUME PlainInv PROVE PlainModuleWorks
<1> SUFFICES ASSUME loaded # 0, PlainModule, stage = "ready"
             PROVE  /\ Sound(mod) /\ MapInv /\ PlainMod
    BY PlainReady DEF PlainModuleWorks, PlainInv
<1>1. ConfInv
    BY DEF PlainInv, MadeInv
<1> QED BY <1>1, RoutedIs, PlainIs DEF PlainInv

(* A policy file that names every port and device type once, and whose     *)
(* routes and default output are of such ports, makes a card, however many *)
(* ports it has: every device a route names is opened by its type, and     *)
(* every output by its name.                                               *)
THEOREM PlainCorrect == ConfigSpec => []PlainModuleWorks
<1>1. ASSUME ConfigInit PROVE PlainInv
    BY <1>1, MadeInit DEF PlainInv, ConfigInit
<1> QED BY <1>1, PlainInvStep, PlainIsEnough, PTL DEF ConfigSpec

=============================================================================
