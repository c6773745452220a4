--------------------------- MODULE DroidLocks_proofs ---------------------------
(***************************************************************************)
(* Theorems of DroidLocks, for any outputs, options and handlers.  What a  *)
(* thread has left to do is annotated, as one would annotate a program:    *)
(* with the mutexes its handler has before each step, which is all that    *)
(* the theorems about mutexes need, and then with what the thread may rely *)
(* on before it, of streams, states and other threads, from which streams  *)
(* are open when they are used, and have their own io_handle.              *)
(***************************************************************************)
EXTENDS DroidLocks, SequenceTheorems, TLAPS

-----------------------------------------------------------------------------
(* Annotations.  Moves is a set of triples, what holds before a step, the  *)
(* step, and what holds after it.                                          *)

Path(Moves, p, b, e) ==
    \E d : /\ d[1] = b /\ d[Len(p) + 1] = e
           /\ \A k \in 1..Len(p) : <<d[k], p[k], d[k + 1]>> \in Moves

LEMMA PathNone ==
    ASSUME NEW Moves, NEW b PROVE Path(Moves, <<>>, b, b)
<1> DEFINE d == [k \in 1..1 |-> b]
<1>1. d[1] = b /\ Len(<<>>) = 0
    OBVIOUS
<1>2. \A k \in 1..Len(<<>>) : <<d[k], <<>>[k], d[k + 1]>> \in Moves
    BY <1>1
<1> HIDE DEF d
<1> QED BY <1>1, <1>2 DEF Path

LEMMA PathOne ==
    ASSUME NEW Moves, NEW b, NEW s, NEW e, <<b, s, e>> \in Moves
    PROVE  Path(Moves, <<s>>, b, e)
<1> DEFINE d == <<b, e>>
<1>1. d[1] = b /\ d[2] = e /\ Len(<<s>>) = 1 /\ <<s>>[1] = s
    OBVIOUS
<1> HIDE DEF d
<1>2. \A k \in 1..Len(<<s>>) : <<d[k], <<s>>[k], d[k + 1]>> \in Moves
    BY <1>1
<1> QED BY <1>1, <1>2 DEF Path

LEMMA PathJoin ==
    ASSUME NEW Moves, NEW Of, NEW p \in Seq(Of), NEW q \in Seq(Of), NEW b, NEW c, NEW e,
           Path(Moves, p, b, c), Path(Moves, q, c, e)
    PROVE  Path(Moves, p \o q, b, e)
<1>1. PICK d : /\ d[1] = b /\ d[Len(p) + 1] = c
               /\ \A k \in 1..Len(p) : <<d[k], p[k], d[k + 1]>> \in Moves
    BY DEF Path
<1>2. PICK f : /\ f[1] = c /\ f[Len(q) + 1] = e
               /\ \A k \in 1..Len(q) : <<f[k], q[k], f[k + 1]>> \in Moves
    BY DEF Path
<1> DEFINE m == Len(p) n == Len(q)
           g == [k \in 1..m + n + 1 |-> IF k <= m THEN d[k] ELSE f[k - m]]
<1>3. /\ m \in Nat /\ n \in Nat /\ Len(p \o q) = m + n
      /\ \A k \in 1..m + n : (p \o q)[k] = IF k <= m THEN p[k] ELSE q[k - m]
    BY ConcatProperties, LenProperties
<1>4. /\ \A k \in 1..m : g[k] = d[k]
      /\ \A k \in 1..n + 1 : g[m + k] = f[k]
    BY <1>3
<1>5. g[1] = b /\ g[m + n + 1] = e
    BY <1>1, <1>2, <1>3, <1>4
<1>6. \A k \in 1..m : <<g[k], p[k], g[k + 1]>> \in Moves
    BY <1>1, <1>2, <1>3, <1>4
<1>7. \A k \in 1..n : <<g[m + k], q[k], g[m + k + 1]>> \in Moves
    BY <1>2, <1>3, <1>4
<1> HIDE DEF g
<1>8. \A k \in 1..m + n : <<g[k], (p \o q)[k], g[k + 1]>> \in Moves
  <2> SUFFICES ASSUME NEW k \in 1..m + n PROVE <<g[k], (p \o q)[k], g[k + 1]>> \in Moves
    OBVIOUS
  <2>1. CASE k <= m
    BY <1>3, <1>6, <2>1
  <2>2. CASE ~(k <= m)
    <3>1. k - m \in 1..n /\ m + (k - m) = k
        BY <1>3, <2>2
    <3> QED BY <1>3, <1>7, <2>2, <3>1
  <2> QED BY <2>1, <2>2
<1> QED BY <1>3, <1>5, <1>8 DEF Path

LEMMA PathTwo ==
    ASSUME NEW Moves, NEW b, NEW r, NEW c, NEW s, NEW e,
           <<b, r, c>> \in Moves, <<c, s, e>> \in Moves
    PROVE  Path(Moves, <<r, s>>, b, e)
<1> DEFINE d == <<b, c, e>>
<1>1. d[1] = b /\ d[2] = c /\ d[3] = e /\ Len(<<r, s>>) = 2 /\ <<r, s>>[1] = r /\ <<r, s>>[2] = s
    OBVIOUS
<1> HIDE DEF d
<1>2. \A k \in 1..Len(<<r, s>>) : <<d[k], <<r, s>>[k], d[k + 1]>> \in Moves
    BY <1>1
<1> QED BY <1>1, <1>2 DEF Path

LEMMA PathThree ==
    ASSUME NEW Moves, NEW b, NEW r, NEW c, NEW s, NEW f, NEW u, NEW e,
           <<b, r, c>> \in Moves, <<c, s, f>> \in Moves, <<f, u, e>> \in Moves
    PROVE  Path(Moves, <<r, s, u>>, b, e)
<1> DEFINE d == <<b, c, f, e>> p == <<r, s, u>>
<1>1. d[1] = b /\ d[2] = c /\ d[3] = f /\ d[4] = e
    OBVIOUS
<1>2. Len(p) = 3 /\ p[1] = r /\ p[2] = s /\ p[3] = u
    OBVIOUS
<1> HIDE DEF d, p
<1>3. \A k \in 1..Len(p) : <<d[k], p[k], d[k + 1]>> \in Moves
  <2> SUFFICES ASSUME NEW k \in 1..Len(p) PROVE <<d[k], p[k], d[k + 1]>> \in Moves
    OBVIOUS
  <2>1. k = 1 \/ k = 2 \/ k = 3
    BY <1>2
  <2> QED BY <1>1, <1>2, <2>1
<1> QED BY <1>1, <1>2, <1>3 DEF Path, p

(* The first step of an annotated sequence, and those after it.            *)
LEMMA PathFirst ==
    ASSUME NEW Moves, NEW Of, NEW p \in Seq(Of), NEW b, NEW e, p # <<>>, Path(Moves, p, b, e)
    PROVE  \E c : <<b, Head(p), c>> \in Moves /\ Path(Moves, Tail(p), c, e)
<1>1. PICK d : /\ d[1] = b /\ d[Len(p) + 1] = e
               /\ \A k \in 1..Len(p) : <<d[k], p[k], d[k + 1]>> \in Moves
    BY DEF Path
<1>2. /\ Len(p) \in Nat \ {0} /\ Len(Tail(p)) = Len(p) - 1 /\ Head(p) = p[1]
      /\ \A k \in 1..Len(Tail(p)) : Tail(p)[k] = p[k + 1]
    BY HeadTailProperties, EmptySeq
<1> DEFINE n == Len(Tail(p))
           f == [k \in 1..n + 1 |-> d[k + 1]]
<1>3. f[1] = d[2] /\ f[n + 1] = e
    BY <1>1, <1>2
<1>4. \A k \in 1..n : <<f[k], Tail(p)[k], f[k + 1]>> \in Moves
  <2> SUFFICES ASSUME NEW k \in 1..n PROVE <<f[k], Tail(p)[k], f[k + 1]>> \in Moves
    OBVIOUS
  <2>1. f[k] = d[k + 1] /\ f[k + 1] = d[k + 1 + 1] /\ k + 1 \in 1..Len(p)
    BY <1>2
  <2> QED BY <1>1, <1>2, <2>1
<1> HIDE DEF f
<1>5. Path(Moves, Tail(p), d[2], e)
    BY <1>3, <1>4 DEF Path
<1>6. <<b, Head(p), d[2]>> \in Moves
    BY <1>1, <1>2
<1> QED BY <1>5, <1>6

(* Nothing left to do changes nothing.                                     *)
LEMMA PathEnd ==
    ASSUME NEW Moves, NEW b, NEW e, Path(Moves, <<>>, b, e) PROVE b = e
BY DEF Path

-----------------------------------------------------------------------------
(* Which mutexes a handler has before and after a step.  hw_mutex is the   *)
(* first one it takes, a stream is closed with the mutex of its kind, and  *)
(* nothing else is done with one: above all, nobody is waited for.         *)

Asks == {"suspend", "resume", "unlink", "wait"}
Quiet == {"standby", "closing", "suspending", "opening", "created", "read", "handle", "valid",
          "none", "suspended", "running"}
Touches == {"open", "opened", "volume", "route", "use", "close"}

StepsOf(t) ==
    [do : {"lock", "unlock"}, on : Mutexes] \cup [do : Quiet \cup Touches, on : Streams] \cup
    (IF t = "main" THEN [do : Asks, on : Streams] \cup [do : {"hal"}, on : {"hw"}] ELSE {})

Fits(b, s, e) ==
    \/ s.do = "lock" /\ b \in {{}, {"hw"}} \ {{s.on}} /\ (s.on = "hw" => b = {}) /\ e = b \cup {s.on}
    \/ s.do = "unlock" /\ s.on \in b /\ e = b \ {s.on}
    \/ s.do \in {"open", "opened"} /\ b = {"hw"} /\ e = {}
    \/ s.do \in {"hal", "volume"} /\ "hw" \in b /\ e = b
    \/ s.do = "route" /\ b \in {{}, {"hw"}} /\ e = b
    \/ s.do = "use" /\ e = b
    \/ s.do = "close" /\ MutexOf(s.on) \in b /\ e = b
    \/ s.do \in Quiet \cup Asks /\ b = {} /\ e = {}

Moves(t) ==
    {v \in (SUBSET Mutexes) \X StepsOf(t) \X (SUBSET Mutexes) : Fits(v[1], v[2], v[3])}

LEMMA MoveIs ==
    ASSUME NEW t, NEW b, NEW s, NEW e
    PROVE  <<b, s, e>> \in Moves(t) <=>
               /\ b \in SUBSET Mutexes /\ s \in StepsOf(t) /\ e \in SUBSET Mutexes
               /\ Fits(b, s, e)
BY DEF Moves

(* p may be left to do, by a handler that has the mutexes b before it and  *)
(* e after it.                                                             *)
Does(t, p, b, e) == p \in Seq(StepsOf(t)) /\ Path(Moves(t), p, b, e)

LEMMA DoesNone == ASSUME NEW t, NEW b PROVE Does(t, <<>>, b, b)
BY PathNone, EmptySeq DEF Does

LEMMA DoesOne ==
    ASSUME NEW t, NEW b, NEW s, NEW e, <<b, s, e>> \in Moves(t) PROVE Does(t, <<s>>, b, e)
<1>1. s \in StepsOf(t)
    BY MoveIs
<1>2. <<s>> \in Seq(StepsOf(t))
    BY <1>1
<1> QED BY <1>2, PathOne DEF Does

LEMMA DoesTwo ==
    ASSUME NEW t, NEW b, NEW r, NEW c, NEW s, NEW e,
           <<b, r, c>> \in Moves(t), <<c, s, e>> \in Moves(t)
    PROVE  Does(t, <<r, s>>, b, e)
<1>1. r \in StepsOf(t) /\ s \in StepsOf(t)
    BY MoveIs
<1>2. <<r, s>> \in Seq(StepsOf(t))
    BY <1>1
<1> QED BY <1>2, PathTwo DEF Does

LEMMA DoesThree ==
    ASSUME NEW t, NEW b, NEW r, NEW c, NEW s, NEW f, NEW u, NEW e,
           <<b, r, c>> \in Moves(t), <<c, s, f>> \in Moves(t), <<f, u, e>> \in Moves(t)
    PROVE  Does(t, <<r, s, u>>, b, e)
<1>1. r \in StepsOf(t) /\ s \in StepsOf(t) /\ u \in StepsOf(t)
    BY MoveIs
<1>2. <<r, s, u>> \in Seq(StepsOf(t))
    BY <1>1
<1> QED BY <1>2, PathThree DEF Does

LEMMA DoesJoin ==
    ASSUME NEW t, NEW p, NEW q, NEW b, NEW c, NEW e, Does(t, p, b, c), Does(t, q, c, e)
    PROVE  Does(t, p \o q, b, e)
<1>1. p \in Seq(StepsOf(t)) /\ q \in Seq(StepsOf(t)) /\ p \o q \in Seq(StepsOf(t))
    BY ConcatProperties DEF Does
<1>2. Path(Moves(t), p \o q, b, e)
    BY <1>1, PathJoin DEF Does
<1> QED BY <1>1, <1>2 DEF Does

LEMMA DoesFirst ==
    ASSUME NEW t, NEW p, NEW b, NEW e, Does(t, p, b, e), p # <<>>
    PROVE  /\ Head(p) \in StepsOf(t)
           /\ \E c : <<b, Head(p), c>> \in Moves(t) /\ Does(t, Tail(p), c, e)
<1>1. p \in Seq(StepsOf(t)) /\ Head(p) \in StepsOf(t) /\ Tail(p) \in Seq(StepsOf(t))
    BY HeadTailProperties DEF Does
<1>2. \E c : <<b, Head(p), c>> \in Moves(t) /\ Path(Moves(t), Tail(p), c, e)
    BY <1>1, PathFirst DEF Does
<1> QED BY <1>1, <1>2 DEF Does

LEMMA DoesEnd == ASSUME NEW t, NEW b, NEW e, Does(t, <<>>, b, e) PROVE b = e
BY PathEnd DEF Does

-----------------------------------------------------------------------------
(* The pieces that handlers are made of.                                   *)

NoMutex == {}
Hw == {"hw"}

LEMMA LockMove ==
    ASSUME NEW t, NEW m \in Mutexes, NEW b \in {NoMutex, Hw}, m = "hw" => b = NoMutex
    PROVE  /\ <<b, S("lock", m), b \cup {m}>> \in Moves(t)
           /\ <<b \cup {m}, S("unlock", m), b>> \in Moves(t)
<1> DEFINE l == S("lock", m) u == S("unlock", m) c == b \cup {m}
<1>1. l \in StepsOf(t) /\ l.do = "lock" /\ l.on = m /\ u \in StepsOf(t) /\ u.do = "unlock" /\ u.on = m
    BY DEF S, StepsOf
<1>2. b \in SUBSET Mutexes /\ c \in SUBSET Mutexes /\ c \ {m} = b /\ b # {m}
    BY DEF Mutexes, NoMutex, Hw
<1>3. Fits(b, l, c)
    BY <1>1, <1>2 DEF Fits, NoMutex, Hw
<1>4. Fits(c, u, b)
    BY <1>1, <1>2 DEF Fits
<1> HIDE DEF l, u, c
<1>5. <<b, l, c>> \in Moves(t) /\ <<c, u, b>> \in Moves(t)
    BY <1>1, <1>2, <1>3, <1>4, MoveIs
<1> QED BY <1>5 DEF l, u, c

LEMMA QuietMove ==
    ASSUME NEW t, NEW do \in Quiet, NEW on \in Streams
    PROVE  <<NoMutex, S(do, on), NoMutex>> \in Moves(t)
<1> DEFINE s == S(do, on)
<1>1. s \in StepsOf(t) /\ s.do = do
    BY DEF S, StepsOf
<1>2. Fits(NoMutex, s, NoMutex)
    BY <1>1 DEF Fits, NoMutex
<1> HIDE DEF s
<1>3. <<NoMutex, s, NoMutex>> \in Moves(t)
    BY <1>1, <1>2, MoveIs DEF NoMutex
<1> QED BY <1>3 DEF s

LEMMA AskMove ==
    ASSUME NEW do \in Asks, NEW on \in Streams
    PROVE  <<NoMutex, S(do, on), NoMutex>> \in Moves("main")
<1> DEFINE s == S(do, on)
<1>1. s \in StepsOf("main") /\ s.do = do
    BY DEF S, StepsOf
<1>2. Fits(NoMutex, s, NoMutex)
    BY <1>1 DEF Fits, NoMutex
<1> HIDE DEF s
<1>3. <<NoMutex, s, NoMutex>> \in Moves("main")
    BY <1>1, <1>2, MoveIs DEF NoMutex
<1> QED BY <1>3 DEF s

LEMMA OpenMove ==
    ASSUME NEW t, NEW do \in {"open", "opened"}, NEW on \in Streams
    PROVE  <<Hw, S(do, on), NoMutex>> \in Moves(t)
<1> DEFINE s == S(do, on)
<1>1. s \in StepsOf(t) /\ s.do = do
    BY DEF S, StepsOf, Touches
<1>2. Fits(Hw, s, NoMutex)
    BY <1>1 DEF Fits, NoMutex, Hw
<1> HIDE DEF s
<1>3. <<Hw, s, NoMutex>> \in Moves(t)
    BY <1>1, <1>2, MoveIs DEF NoMutex, Hw, Mutexes
<1> QED BY <1>3 DEF s

LEMMA VolumeMove ==
    ASSUME NEW t, NEW on \in Streams PROVE <<Hw, S("volume", on), Hw>> \in Moves(t)
<1> DEFINE s == S("volume", on)
<1>1. s \in StepsOf(t) /\ s.do = "volume"
    BY DEF S, StepsOf, Touches
<1>2. Fits(Hw, s, Hw)
    BY <1>1 DEF Fits, Hw
<1> HIDE DEF s
<1>3. <<Hw, s, Hw>> \in Moves(t)
    BY <1>1, <1>2, MoveIs DEF Hw, Mutexes
<1> QED BY <1>3 DEF s

LEMMA HalMove == <<Hw, S("hal", "hw"), Hw>> \in Moves("main")
<1> DEFINE s == S("hal", "hw")
<1>1. s \in StepsOf("main") /\ s.do = "hal"
    BY DEF S, StepsOf
<1>2. Fits(Hw, s, Hw)
    BY <1>1 DEF Fits, Hw
<1> HIDE DEF s
<1>3. <<Hw, s, Hw>> \in Moves("main")
    BY <1>1, <1>2, MoveIs DEF Hw, Mutexes
<1> QED BY <1>3 DEF s

LEMMA RouteMove ==
    ASSUME NEW t, NEW on \in Streams, NEW b \in {NoMutex, Hw}
    PROVE  <<b, S("route", on), b>> \in Moves(t)
<1> DEFINE s == S("route", on)
<1>1. s \in StepsOf(t) /\ s.do = "route"
    BY DEF S, StepsOf, Touches
<1>2. Fits(b, s, b)
    BY <1>1 DEF Fits, NoMutex, Hw
<1> HIDE DEF s
<1>3. <<b, s, b>> \in Moves(t)
    BY <1>1, <1>2, MoveIs DEF NoMutex, Hw, Mutexes
<1> QED BY <1>3 DEF s

LEMMA UseMove ==
    ASSUME NEW t, NEW on \in Streams, NEW b \in SUBSET Mutexes
    PROVE  <<b, S("use", on), b>> \in Moves(t)
<1> DEFINE s == S("use", on)
<1>1. s \in StepsOf(t) /\ s.do = "use"
    BY DEF S, StepsOf, Touches
<1>2. Fits(b, s, b)
    BY <1>1 DEF Fits
<1> HIDE DEF s
<1>3. <<b, s, b>> \in Moves(t)
    BY <1>1, <1>2, MoveIs
<1> QED BY <1>3 DEF s

LEMMA CloseMove ==
    ASSUME NEW t, NEW on \in Streams
    PROVE  <<{MutexOf(on)}, S("close", on), {MutexOf(on)}>> \in Moves(t)
<1> DEFINE s == S("close", on) b == {MutexOf(on)}
<1>1. s \in StepsOf(t) /\ s.do = "close" /\ s.on = on /\ b \in SUBSET Mutexes
    BY DEF S, StepsOf, Touches, MutexOf, Mutexes
<1>2. Fits(b, s, b)
    BY <1>1 DEF Fits
<1> HIDE DEF s, b
<1>3. <<b, s, b>> \in Moves(t)
    BY <1>1, <1>2, MoveIs
<1> QED BY <1>3 DEF s, b

(* A section.                                                              *)
LEMMA DoesUnder ==
    ASSUME NEW t, NEW m \in Mutexes, NEW b \in {NoMutex, Hw}, m = "hw" => b = NoMutex,
           NEW p, Does(t, p, b \cup {m}, b \cup {m})
    PROVE  Does(t, Under(m, p), b, b)
<1> DEFINE c == b \cup {m} l == <<S("lock", m)>> u == <<S("unlock", m)>>
<1>1. Does(t, l, b, c) /\ Does(t, u, c, b)
    BY LockMove, DoesOne
<1> HIDE DEF c, l, u
<1>2. Does(t, p, c, c)
    BY DEF c
<1>3. Does(t, l \o p, b, c)
    BY <1>1, <1>2, DoesJoin
<1>4. Does(t, (l \o p) \o u, b, b)
    BY <1>1, <1>3, DoesJoin
<1> QED BY <1>4 DEF Under, l, u

LEMMA DoesSetRoute ==
    ASSUME NEW t, NEW s \in Streams, NEW b \in {NoMutex, Hw}
    PROVE  Does(t, SetRoute(s), b, b)
<1> DEFINE m == MutexOf(s) c == b \cup {m}
<1>1. m \in Mutexes /\ m # "hw" /\ c \in SUBSET Mutexes
    BY DEF MutexOf, Mutexes, NoMutex, Hw
<1> HIDE DEF m, c
<1>2. Does(t, <<S("use", s)>>, c, c)
    BY <1>1, UseMove, DoesOne
<1>3. Does(t, Under(m, <<S("use", s)>>), b, b)
    BY <1>1, <1>2, DoesUnder DEF c
<1>4. Does(t, <<>>, b, b)
    BY DoesNone
<1> QED BY <1>3, <1>4 DEF SetRoute, m

LEMMA DoesStandby ==
    ASSUME NEW t, NEW s \in Streams PROVE Does(t, Standby(s), NoMutex, NoMutex)
<1> DEFINE m == MutexOf(s) c == NoMutex \cup {m}
<1>1. m \in Mutexes /\ m # "hw" /\ c \in SUBSET Mutexes
    BY DEF MutexOf, Mutexes, NoMutex
<1> HIDE DEF m, c
<1>2. Does(t, <<S("use", s)>>, c, c)
    BY <1>1, UseMove, DoesOne
<1>3. Does(t, Under(m, <<S("use", s)>>), NoMutex, NoMutex)
    BY <1>1, <1>2, DoesUnder DEF c
<1>4. Does(t, <<>>, NoMutex, NoMutex)
    BY DoesNone
<1> QED BY <1>3, <1>4 DEF Standby, m

LEMMA DoesCloseInput == ASSUME NEW t PROVE Does(t, CloseInput, NoMutex, NoMutex)
<1> DEFINE c == {"input"} p == <<S("use", "in"), S("close", "in")>>
<1>1. "input" \in Mutexes /\ c \in SUBSET Mutexes /\ c = NoMutex \cup {"input"}
      /\ MutexOf("in") = "input" /\ "in" \in Streams
    BY DEF MutexOf, Mutexes, NoMutex, Streams
<1>2. <<c, S("use", "in"), c>> \in Moves(t) /\ <<c, S("close", "in"), c>> \in Moves(t)
    BY <1>1, UseMove, CloseMove
<1> HIDE DEF c
<1>3. Does(t, p, c, c)
    BY <1>2, DoesTwo
<1> HIDE DEF p
<1>4. Does(t, Under("input", p), NoMutex, NoMutex)
    BY <1>1, <1>3, DoesUnder
<1>5. Does(t, <<>>, NoMutex, NoMutex)
    BY DoesNone
<1> QED BY <1>4, <1>5 DEF CloseInput, p

LEMMA DoesSuspendInput == ASSUME NEW t PROVE Does(t, SuspendInput, NoMutex, NoMutex)
BY DoesCloseInput, DoesStandby DEF SuspendInput, Streams

LEMMA DoesOpenInput == ASSUME NEW t PROVE Does(t, OpenInput, NoMutex, NoMutex)
<1>1. "hw" \in Mutexes /\ Hw = NoMutex \cup {"hw"} /\ "in" \in Streams
    BY DEF Mutexes, NoMutex, Hw, Streams
<1>2. <<NoMutex, S("lock", "hw"), Hw>> \in Moves(t)
    BY <1>1, LockMove
<1>3. <<Hw, S("open", "in"), NoMutex>> \in Moves(t)
    BY <1>1, OpenMove
<1>4. Does(t, <<S("lock", "hw"), S("open", "in")>>, NoMutex, NoMutex)
    BY <1>2, <1>3, DoesTwo
<1> QED BY <1>4, DoesNone DEF OpenInput

LEMMA DoesVolume ==
    ASSUME NEW t, NEW o \in Streams PROVE Does(t, Under("hw", <<S("volume", o)>>), NoMutex, NoMutex)
<1>1. "hw" \in Mutexes /\ Hw = NoMutex \cup {"hw"}
    BY DEF Mutexes, NoMutex, Hw
<1>2. Does(t, <<S("volume", o)>>, Hw, Hw)
    BY VolumeMove, DoesOne
<1> QED BY <1>1, <1>2, DoesUnder

-----------------------------------------------------------------------------
(* The handlers.                                                           *)

LEMMA DoesResumed == ASSUME NEW t PROVE Does(t, Resumed, NoMutex, NoMutex)
<1>1. /\ <<NoMutex, S("opening", "in"), NoMutex>> \in Moves(t)
      /\ <<NoMutex, S("valid", "in"), NoMutex>> \in Moves(t)
    BY QuietMove DEF Quiet, Streams
<1>2. Does(t, <<S("opening", "in"), S("valid", "in")>>, NoMutex, NoMutex)
    BY <1>1, DoesTwo
<1>3. Does(t, <<S("valid", "in")>>, NoMutex, NoMutex)
    BY <1>1, DoesOne
<1> QED BY <1>2, <1>3 DEF Resumed

(* What a sink's thread and the source's do about a message.               *)
LEMMA DoesTold ==
    ASSUME NEW s \in Streams, NEW m \in {"suspend", "resume", "unlink"}
    PROVE  Does(s, Told(m, s), NoMutex, NoMutex)
<1>1. \A do \in Quiet : /\ <<NoMutex, S(do, s), NoMutex>> \in Moves(s)
                        /\ <<NoMutex, S(do, "in"), NoMutex>> \in Moves(s)
    BY QuietMove DEF Streams
<1>2. \A do \in Quiet : Does(s, <<S(do, s)>>, NoMutex, NoMutex)
    BY <1>1, DoesOne
<1>3. CASE s # "in"
  <2>1. CASE m = "suspend"
    <3>1. Does(s, <<S("standby", s), S("suspended", s)>>, NoMutex, NoMutex)
        BY <1>1, DoesTwo DEF Quiet
    <3> QED BY <1>3, <2>1, <3>1 DEF Told, SinkTold
  <2>2. CASE m = "unlink"
    <3>1. Does(s, <<S("standby", s), S("none", s)>>, NoMutex, NoMutex)
        BY <1>1, DoesTwo DEF Quiet
    <3> QED BY <1>3, <2>2, <3>1 DEF Told, SinkTold
  <2>3. CASE m = "resume"
    <3>1. Does(s, <<S("running", s)>>, NoMutex, NoMutex)
        BY <1>2 DEF Quiet
    <3>2. Does(s, Under("hw", <<S("volume", s)>>) \o <<S("running", s)>>, NoMutex, NoMutex)
        BY <3>1, DoesVolume, DoesJoin
    <3> QED BY <1>3, <2>3, <3>2 DEF Told, SinkTold
  <2> QED BY <2>1, <2>2, <2>3
<1>4. CASE s = "in"
  <2>1. CASE m = "suspend"
    <3>1. Does(s, <<S("suspending", "in"), S("suspended", "in")>>, NoMutex, NoMutex)
        BY <1>1, DoesTwo DEF Quiet
    <3> QED BY <1>4, <2>1, <3>1 DEF Told, SourceTold
  <2>2. CASE m = "unlink"
    <3>1. Does(s, <<S("suspending", "in"), S("none", "in")>>, NoMutex, NoMutex)
        BY <1>1, DoesTwo DEF Quiet
    <3> QED BY <1>4, <2>2, <3>1 DEF Told, SourceTold
  <2>3. CASE m = "resume"
    <3>1. Does(s, <<S("running", "in")>>, NoMutex, NoMutex)
        BY <1>2, <1>4 DEF Quiet
    <3>2. Does(s, Resumed \o <<S("running", "in")>>, NoMutex, NoMutex)
        BY <3>1, DoesResumed, DoesJoin
    <3> QED BY <1>4, <2>3, <3>2 DEF Told, SourceTold
  <2> QED BY <2>1, <2>2, <2>3
<1> QED BY <1>3, <1>4

LEMMA DoesAsk ==
    ASSUME NEW m \in Asks, NEW s \in Streams PROVE Does("main", Ask(m, s), NoMutex, NoMutex)
<1>1. /\ <<NoMutex, S(m, s), NoMutex>> \in Moves("main")
      /\ <<NoMutex, S("wait", s), NoMutex>> \in Moves("main")
    BY AskMove DEF Asks
<1> QED BY <1>1, DoesTwo DEF Ask

LEMMA DoesRoute ==
    ASSUME NEW s \in Streams PROVE Does("main", <<S("route", s)>>, NoMutex, NoMutex)
<1>1. <<NoMutex, S("route", s), NoMutex>> \in Moves("main")
    BY RouteMove
<1> QED BY <1>1, DoesOne

LEMMA DoesOpenOutput ==
    ASSUME NEW o \in Outputs
    PROVE  Does("main", <<S("lock", "hw"), S("open", o), S("route", Primary)>> \o
                        Under("hw", <<S("volume", o)>>) \o <<S("running", o)>>, NoMutex, NoMutex)
<1>1. o \in Streams /\ Primary \in Streams /\ "hw" \in Mutexes /\ Hw = NoMutex \cup {"hw"}
    BY LocksAssumption DEF Streams, Mutexes, NoMutex, Hw
<1>2. /\ <<NoMutex, S("lock", "hw"), Hw>> \in Moves("main")
      /\ <<Hw, S("open", o), NoMutex>> \in Moves("main")
      /\ <<NoMutex, S("route", Primary), NoMutex>> \in Moves("main")
      /\ <<NoMutex, S("running", o), NoMutex>> \in Moves("main")
    BY <1>1, LockMove, OpenMove, RouteMove, QuietMove DEF Quiet
<1> DEFINE p == <<S("lock", "hw"), S("open", o), S("route", Primary)>>
           q == Under("hw", <<S("volume", o)>>)
           r == <<S("running", o)>>
<1>3. Does("main", p, NoMutex, NoMutex)
    BY <1>2, DoesThree
<1>4. Does("main", q, NoMutex, NoMutex)
    BY <1>1, DoesVolume
<1>5. Does("main", r, NoMutex, NoMutex)
    BY <1>2, DoesOne
<1> HIDE DEF p, q, r
<1>6. Does("main", (p \o q) \o r, NoMutex, NoMutex)
    BY <1>3, <1>4, <1>5, DoesJoin
<1> QED BY <1>6 DEF p, q, r

LEMMA DoesCloseOutput ==
    ASSUME NEW o \in Outputs
    PROVE  Does("main", Ask("unlink", o) \o Under("output", <<S("close", o)>>), NoMutex, NoMutex)
<1> DEFINE c == {"output"}
<1>1. /\ o \in Streams /\ "output" \in Mutexes /\ MutexOf(o) = "output"
      /\ c = NoMutex \cup {"output"}
    BY LocksAssumption DEF Streams, Mutexes, MutexOf, NoMutex
<1>2. <<c, S("close", o), c>> \in Moves("main")
    BY <1>1, CloseMove
<1> HIDE DEF c
<1>3. Does("main", <<S("close", o)>>, c, c)
    BY <1>2, DoesOne
<1>4. Does("main", Under("output", <<S("close", o)>>), NoMutex, NoMutex)
    BY <1>1, <1>3, DoesUnder
<1>5. Does("main", Ask("unlink", o), NoMutex, NoMutex)
    BY <1>1, DoesAsk DEF Asks
<1> QED BY <1>4, <1>5, DoesJoin

LEMMA DoesReopen == Does("main", Reopen, NoMutex, NoMutex)
<1>1. \A do \in {"closing", "opening"} : <<NoMutex, S(do, "in"), NoMutex>> \in Moves("main")
    BY QuietMove DEF Quiet, Streams
<1> QED BY <1>1, DoesThree DEF Reopen

LEMMA DoesReconfigure ==
    ASSUME NEW p \in {<<>>, <<S("route", "in")>>}
    PROVE  /\ Does("main", Ask("suspend", "in") \o p \o Reopen \o Ask("resume", "in"), NoMutex, NoMutex)
           /\ Does("main", p \o Reopen, NoMutex, NoMutex)
<1> DEFINE a == Ask("suspend", "in") q == Reopen r == Ask("resume", "in")
<1>1. "in" \in Streams
    BY DEF Streams
<1>2. Does("main", a, NoMutex, NoMutex)
    BY <1>1, DoesAsk DEF Asks
<1>3. Does("main", r, NoMutex, NoMutex)
    BY <1>1, DoesAsk DEF Asks
<1>4. Does("main", q, NoMutex, NoMutex)
    BY DoesReopen
<1>5. Does("main", p, NoMutex, NoMutex)
    BY <1>1, DoesRoute, DoesNone
<1> HIDE DEF a, q, r
<1>6. Does("main", a \o p, NoMutex, NoMutex)
    BY <1>2, <1>5, DoesJoin
<1>7. Does("main", (a \o p) \o q, NoMutex, NoMutex)
    BY <1>4, <1>6, DoesJoin
<1>8. Does("main", ((a \o p) \o q) \o r, NoMutex, NoMutex)
    BY <1>3, <1>7, DoesJoin
<1>9. Does("main", p \o q, NoMutex, NoMutex)
    BY <1>4, <1>5, DoesJoin
<1> QED BY <1>8, <1>9 DEF a, q, r

LEMMA DoesSetMode ==
    ASSUME NEW early \in {<<>>, <<S("route", Primary)>>}
    PROVE  Does("main", early \o Under("hw", <<S("hal", "hw"), S("route", Primary)>>), NoMutex, NoMutex)
<1>1. Primary \in Streams /\ "hw" \in Mutexes /\ Hw = NoMutex \cup {"hw"}
    BY LocksAssumption DEF Streams, Mutexes, NoMutex, Hw
<1>2. <<Hw, S("route", Primary), Hw>> \in Moves("main")
    BY <1>1, RouteMove
<1>3. Does("main", <<S("hal", "hw"), S("route", Primary)>>, Hw, Hw)
    BY <1>2, HalMove, DoesTwo
<1>4. Does("main", Under("hw", <<S("hal", "hw"), S("route", Primary)>>), NoMutex, NoMutex)
    BY <1>1, <1>3, DoesUnder
<1>5. Does("main", early, NoMutex, NoMutex)
    BY <1>1, DoesRoute, DoesNone
<1> QED BY <1>4, <1>5, DoesJoin

LEMMA DoesHalCall == Does("main", Under("hw", <<S("hal", "hw")>>), NoMutex, NoMutex)
<1>1. "hw" \in Mutexes /\ Hw = NoMutex \cup {"hw"}
    BY DEF Mutexes, NoMutex, Hw
<1>2. Does("main", <<S("hal", "hw")>>, Hw, Hw)
    BY HalMove, DoesOne
<1> QED BY <1>1, <1>2, DoesUnder

(* What the main thread starts.                                            *)
LEMMA MainDoes ==
    ASSUME MainHandler
    PROVE  \E p : Starts("main", p) /\ Does("main", p, NoMutex, NoMutex)
<1>1. ASSUME NEW o \in Outputs, OpenOutput(o) PROVE \E p : Starts("main", p) /\ Does("main", p, NoMutex, NoMutex)
    BY <1>1, DoesOpenOutput DEF OpenOutput
<1>2. ASSUME NEW o \in Outputs, CloseOutput(o) PROVE \E p : Starts("main", p) /\ Does("main", p, NoMutex, NoMutex)
    BY <1>2, DoesCloseOutput DEF CloseOutput
<1>3. ASSUME NEW o \in Outputs, Route(o) PROVE \E p : Starts("main", p) /\ Does("main", p, NoMutex, NoMutex)
  <2>1. o \in Streams
    BY DEF Streams
  <2> QED BY <1>3, <2>1, DoesSetRoute DEF Route
<1>4. ASSUME NEW o \in Outputs, NEW m \in {"suspend", "resume"}, SinkState(o, m)
      PROVE  \E p : Starts("main", p) /\ Does("main", p, NoMutex, NoMutex)
  <2>1. o \in Streams /\ m \in Asks
    BY DEF Streams, Asks
  <2> QED BY <1>4, <2>1, DoesAsk DEF SinkState
<1>5. CASE NewSource
  <2>1. \A do \in {"opening", "created"} : <<NoMutex, S(do, "in"), NoMutex>> \in Moves("main")
    BY QuietMove DEF Quiet, Streams
  <2>2. Does("main", <<S("opening", "in"), S("created", "in")>>, NoMutex, NoMutex)
    BY <2>1, DoesTwo
  <2> QED BY <1>5, <2>2 DEF NewSource
<1>6. CASE FreeSource
  <2>1. <<NoMutex, S("closing", "in"), NoMutex>> \in Moves("main")
    BY QuietMove DEF Quiet, Streams
  <2>2. Does("main", <<S("closing", "in")>>, NoMutex, NoMutex)
    BY <2>1, DoesOne
  <2>3. Does("main", Ask("unlink", "in"), NoMutex, NoMutex)
    BY DoesAsk DEF Asks, Streams
  <2>4. Does("main", Ask("unlink", "in") \o <<S("closing", "in")>>, NoMutex, NoMutex)
    BY <2>2, <2>3, DoesJoin
  <2> QED BY <1>6, <2>4 DEF FreeSource
<1>7. ASSUME NEW m \in {"suspend", "resume"}, SourceState(m)
      PROVE  \E p : Starts("main", p) /\ Does("main", p, NoMutex, NoMutex)
  <2>1. "in" \in Streams /\ m \in Asks
    BY DEF Streams, Asks
  <2> QED BY <1>7, <2>1, DoesAsk DEF SourceState
<1>8. ASSUME NEW p \in {<<>>, <<S("route", "in")>>}, Reconfigure(p)
      PROVE  \E q : Starts("main", q) /\ Does("main", q, NoMutex, NoMutex)
    BY <1>8, DoesReconfigure DEF Reconfigure
<1>9. CASE HalCall
    BY <1>9, DoesHalCall DEF HalCall
<1>10. ASSUME NEW p \in {<<>>, <<S("route", Primary)>>}, SetModeInCall(p)
       PROVE  \E q : Starts("main", q) /\ Does("main", q, NoMutex, NoMutex)
    BY <1>10, DoesSetMode DEF SetModeInCall
<1> QED BY <1>1, <1>2, <1>3, <1>4, <1>5, <1>6, <1>7, <1>8, <1>9, <1>10 DEF MainHandler

(* A round of an IO thread.                                                *)
LEMMA RoundDoes ==
    /\ \A o \in Outputs : Render(o) => \E p : Starts(o, p) /\ Does(o, p, NoMutex, NoMutex)
    /\ Record => \E p : Starts("in", p) /\ Does("in", p, NoMutex, NoMutex)
<1>1. ASSUME NEW o \in Outputs, Render(o)
      PROVE  \E p : Starts(o, p) /\ Does(o, p, NoMutex, NoMutex)
  <2>1. o \in Streams /\ NoMutex \in SUBSET Mutexes
    BY DEF Streams, NoMutex
  <2>2. Does(o, <<S("use", o)>>, NoMutex, NoMutex)
    BY <2>1, UseMove, DoesOne
  <2>3. Does(o, Under("hw", <<S("volume", o)>>) \o <<S("use", o)>>, NoMutex, NoMutex)
    BY <2>1, <2>2, DoesVolume, DoesJoin
  <2> QED BY <1>1, <2>3 DEF Render
<1>2. ASSUME Record PROVE \E p : Starts("in", p) /\ Does("in", p, NoMutex, NoMutex)
  <2>1. <<NoMutex, S("read", "in"), NoMutex>> \in Moves("in")
    BY QuietMove DEF Quiet, Streams
  <2>2. Does("in", <<S("read", "in")>>, NoMutex, NoMutex)
    BY <2>1, DoesOne
  <2>3. Does("in", IF valid THEN <<>> ELSE Resumed, NoMutex, NoMutex)
    BY DoesResumed, DoesNone
  <2>4. Does("in", (IF valid THEN <<>> ELSE Resumed) \o <<S("read", "in")>>, NoMutex, NoMutex)
    BY <2>2, <2>3, DoesJoin
  <2> QED BY <1>2, <2>4 DEF Record
<1> QED BY <1>1, <1>2

-----------------------------------------------------------------------------
(* The invariant.  hw_mutex is locked once more by a thread that left with *)
(* it; what else is locked, the handler that is going on unlocks again.    *)

Left(t, m) == IF t \in leaked /\ m = "hw" THEN 1 ELSE 0
Has(t) == {m \in Mutexes : held[t][m] > Left(t, m)}

Counts ==
    /\ held \in [Threads -> [Mutexes -> 0..2]]
    /\ \A t \in Threads : \A m \in Mutexes : held[t][m] \in {Left(t, m), Left(t, m) + 1}

(* What a mutex is.                                                        *)
Exclusive ==
    \A t, u \in Threads : \A m \in Mutexes : t # u /\ held[t][m] > 0 => held[u][m] = 0

Handling ==
    /\ DOMAIN todo = Threads
    /\ \A t \in Threads : Does(t, todo[t], Has(t), NoMutex)

LockInv ==
    /\ option \in Options /\ leaked \subseteq Threads
    /\ leaked # {} => "unfillable" \in option
    /\ Counts /\ Exclusive /\ Handling

(* What a step needs, and what it leaves.                                  *)
LEMMA MoveParts ==
    ASSUME NEW t, NEW b, NEW s, NEW e, <<b, s, e>> \in Moves(t)
    PROVE  /\ s.do = "lock" => s.on \in Mutexes \ b /\ e = b \cup {s.on}
                               /\ (s.on = "hw" => b = {}) /\ b \in {{}, {"hw"}}
           /\ s.do = "unlock" => s.on \in Mutexes \cap b /\ e = b \ {s.on}
           /\ s.do \in {"open", "opened"} => s.on \in Streams /\ b = {"hw"} /\ e = {}
           /\ s.do = "hal" => t = "main" /\ "hw" \in b /\ e = b
           /\ s.do = "volume" => s.on \in Streams /\ "hw" \in b /\ e = b
           /\ s.do = "route" => s.on \in Streams /\ b \in {{}, {"hw"}} /\ e = b
           /\ s.do \in {"use", "close"} => s.on \in Streams /\ e = b
           /\ s.do \in Quiet => s.on \in Streams /\ b = {} /\ e = {}
           /\ s.do \in Asks => t = "main" /\ s.on \in Streams /\ b = {} /\ e = {}
<1>1. s \in StepsOf(t) /\ Fits(b, s, e)
    BY MoveIs
<1>2. s.do = "lock" => s.on \in Mutexes \ b /\ e = b \cup {s.on}
                       /\ (s.on = "hw" => b = {}) /\ b \in {{}, {"hw"}}
    BY <1>1 DEF StepsOf, Fits, Quiet, Asks, Touches
<1>3. s.do = "unlock" => s.on \in Mutexes \cap b /\ e = b \ {s.on}
    BY <1>1 DEF StepsOf, Fits, Quiet, Asks, Touches
<1>4. s.do \in {"open", "opened"} => s.on \in Streams /\ b = {"hw"} /\ e = {}
    BY <1>1 DEF StepsOf, Fits, Quiet, Asks, Touches
<1>5. s.do = "hal" => t = "main" /\ "hw" \in b /\ e = b
    BY <1>1 DEF StepsOf, Fits, Quiet, Asks, Touches
<1>6. s.do = "volume" => s.on \in Streams /\ "hw" \in b /\ e = b
    BY <1>1 DEF StepsOf, Fits, Quiet, Asks, Touches
<1>7. s.do = "route" => s.on \in Streams /\ b \in {{}, {"hw"}} /\ e = b
    BY <1>1 DEF StepsOf, Fits, Quiet, Asks, Touches
<1>8. s.do \in {"use", "close"} => s.on \in Streams /\ e = b
    BY <1>1 DEF StepsOf, Fits, Quiet, Asks, Touches
<1>9. s.do \in Quiet => s.on \in Streams /\ b = {} /\ e = {}
    BY <1>1 DEF StepsOf, Fits, Quiet, Asks, Touches
<1>10. s.do \in Asks => t = "main" /\ s.on \in Streams /\ b = {} /\ e = {}
    BY <1>1 DEF StepsOf, Fits, Quiet, Asks, Touches
<1> QED BY <1>2, <1>3, <1>4, <1>5, <1>6, <1>7, <1>8, <1>9, <1>10

(* A thread that is to do something has it before it.                      *)
LEMMA AtStep ==
    ASSUME Handling, NEW t \in Threads, NEW do, do # "idle", At(t, do)
    PROVE  /\ ~Idle(t) /\ Doing(t) = Head(todo[t]) /\ Doing(t).do = do
           /\ \E e : <<Has(t), Doing(t), e>> \in Moves(t) /\ Does(t, Tail(todo[t]), e, NoMutex)
<1>1. todo[t] # <<>> /\ Doing(t) = Head(todo[t]) /\ Doing(t).do = do
    BY DEF At, Doing, S
<1>2. \E e : <<Has(t), Head(todo[t]), e>> \in Moves(t) /\ Does(t, Tail(todo[t]), e, NoMutex)
    BY <1>1, DoesFirst DEF Handling
<1> QED BY <1>1, <1>2 DEF Idle

(* Steps that lock nothing leave it all as it is, if what is left to do is *)
(* all right.                                                              *)
LEMMA SameHas ==
    ASSUME UNCHANGED <<held, leaked>> PROVE \A t : Has(t)' = Has(t)
BY DEF Has, Left

LEMMA SameLocks ==
    ASSUME LockInv, UNCHANGED <<option, held, leaked>>, DOMAIN todo' = Threads,
           \A t \in Threads : Does(t, todo'[t], Has(t), NoMutex)
    PROVE  LockInv'
<1>1. Counts' /\ Exclusive'
    BY DEF LockInv, Counts, Exclusive, Left
<1>2. Handling'
    BY SameHas DEF Handling
<1> QED BY <1>1, <1>2 DEF LockInv

(* A step is done, and p comes before what was to come after it.           *)
LEMMA GoesOn ==
    ASSUME LockInv, NEW t \in Threads, NEW p, NEW e, Done(t, p), UNCHANGED <<option, held, leaked>>,
           Does(t, p, Has(t), e), Does(t, Tail(todo[t]), e, NoMutex)
    PROVE  LockInv'
<1>1. Does(t, p \o Tail(todo[t]), Has(t), NoMutex)
    BY DoesJoin
<1>2. DOMAIN todo' = Threads /\ todo'[t] = p \o Tail(todo[t])
      /\ \A u \in Threads \ {t} : todo'[u] = todo[u]
    BY DEF Done, LockInv, Handling
<1>3. \A u \in Threads : Does(u, todo'[u], Has(u), NoMutex)
    BY <1>1, <1>2 DEF LockInv, Handling
<1> QED BY <1>2, <1>3, SameLocks

LEMMA DoneNothing ==
    ASSUME Handling, NEW t \in Threads, Done(t, <<>>), ~Idle(t)
    PROVE  /\ DOMAIN todo' = Threads /\ todo'[t] = Tail(todo[t])
           /\ \A u \in Threads \ {t} : todo'[u] = todo[u]
<1>1. todo[t] \in Seq(StepsOf(t)) /\ todo[t] # <<>>
    BY DEF Handling, Does, Idle
<1>2. Tail(todo[t]) \in Seq(StepsOf(t))
    BY <1>1, HeadTailProperties
<1>3. <<>> \o Tail(todo[t]) = Tail(todo[t])
    BY <1>2, ConcatEmptySeq
<1> QED BY <1>3 DEF Done, Handling

LEMMA LockKeeps == ASSUME LockInv, NEW t \in Threads, Lock(t) PROVE LockInv'
<1> DEFINE m == On(t)
<1>1. PICK e : <<Has(t), Doing(t), e>> \in Moves(t) /\ Does(t, Tail(todo[t]), e, NoMutex)
    BY AtStep DEF Lock, LockInv
<1>2. m \in Mutexes \ Has(t) /\ e = Has(t) \cup {m}
    BY <1>1, MoveParts DEF Lock, At, On
<1>3. ~Idle(t)
    BY AtStep DEF Lock, LockInv
<1>4. /\ DOMAIN todo' = Threads /\ todo'[t] = Tail(todo[t])
      /\ \A u \in Threads \ {t} : todo'[u] = todo[u]
    BY <1>3, DoneNothing DEF Lock, LockInv
<1>5. /\ UNCHANGED <<option, leaked>> /\ Free(m, t)
      /\ held' = [held EXCEPT ![t][m] = @ + 1]
    BY DEF Lock
<1> HIDE DEF m
<1>6. held \in [Threads -> [Mutexes -> 0..2]] /\ leaked \subseteq Threads
    BY DEF LockInv, Counts
<1>7. held[t][m] = Left(t, m) /\ Left(t, m) \in {0, 1}
    BY <1>2 DEF LockInv, Counts, Has, Left
<1>8. /\ held' \in [Threads -> [Mutexes -> 0..2]]
      /\ held'[t][m] = Left(t, m) + 1
      /\ \A u \in Threads, n \in Mutexes : u # t \/ n # m => held'[u][n] = held[u][n]
    BY <1>2, <1>5, <1>6, <1>7
<1>9. \A u, n : Left(u, n)' = Left(u, n)
    BY <1>5 DEF Left
<1>10. Counts'
    BY <1>8, <1>9 DEF Counts, LockInv
<1>11. Exclusive'
    BY <1>2, <1>5, <1>6, <1>8 DEF Exclusive, LockInv, Free
<1>12. Has(t)' = e /\ \A u \in Threads \ {t} : Has(u)' = Has(u)
    BY <1>2, <1>7, <1>8, <1>9 DEF Has
<1>13. Handling'
    BY <1>1, <1>4, <1>12 DEF Handling, LockInv
<1> QED BY <1>5, <1>10, <1>11, <1>13 DEF LockInv

LEMMA UnlockKeeps == ASSUME LockInv, NEW t \in Threads, Unlock(t) PROVE LockInv'
<1> DEFINE m == On(t)
<1>1. PICK e : <<Has(t), Doing(t), e>> \in Moves(t) /\ Does(t, Tail(todo[t]), e, NoMutex)
    BY AtStep DEF Unlock, LockInv
<1>2. m \in Mutexes \cap Has(t) /\ e = Has(t) \ {m}
    BY <1>1, MoveParts DEF Unlock, At, On
<1>3. ~Idle(t)
    BY AtStep DEF Unlock, LockInv
<1>4. /\ DOMAIN todo' = Threads /\ todo'[t] = Tail(todo[t])
      /\ \A u \in Threads \ {t} : todo'[u] = todo[u]
    BY <1>3, DoneNothing DEF Unlock, LockInv
<1>5. UNCHANGED <<option, leaked>> /\ held' = [held EXCEPT ![t][m] = @ - 1]
    BY DEF Unlock
<1> HIDE DEF m
<1>6. held \in [Threads -> [Mutexes -> 0..2]] /\ leaked \subseteq Threads
    BY DEF LockInv, Counts
<1>7. held[t][m] = Left(t, m) + 1 /\ Left(t, m) \in {0, 1}
    BY <1>2 DEF LockInv, Counts, Has, Left
<1>8. /\ held' \in [Threads -> [Mutexes -> 0..2]]
      /\ held'[t][m] = Left(t, m)
      /\ \A u \in Threads, n \in Mutexes : u # t \/ n # m => held'[u][n] = held[u][n]
    BY <1>2, <1>5, <1>6, <1>7
<1>9. \A u, n : Left(u, n)' = Left(u, n)
    BY <1>5 DEF Left
<1>10. Counts'
    BY <1>8, <1>9 DEF Counts, LockInv
<1>11. Exclusive'
    BY <1>2, <1>6, <1>7, <1>8 DEF Exclusive, LockInv
<1>12. Has(t)' = e /\ \A u \in Threads \ {t} : Has(u)' = Has(u)
    BY <1>2, <1>7, <1>8, <1>9 DEF Has
<1>13. Handling'
    BY <1>1, <1>4, <1>12 DEF Handling, LockInv
<1> QED BY <1>5, <1>10, <1>11, <1>13 DEF LockInv

(* The handler goes on without hw_mutex, which the thread has locked for   *)
(* good.                                                                   *)
LEMMA LeakKeeps == ASSUME LockInv, NEW t \in Threads, DefaultsDoNotFit(t) PROVE LockInv'
<1>1. PICK e : <<Has(t), Doing(t), e>> \in Moves(t) /\ Does(t, Tail(todo[t]), e, NoMutex)
    BY AtStep DEF DefaultsDoNotFit, LockInv
<1>2. Has(t) = {"hw"} /\ e = {}
    BY <1>1, MoveParts DEF DefaultsDoNotFit, At
<1>3. ~Idle(t)
    BY AtStep DEF DefaultsDoNotFit, LockInv
<1>4. /\ DOMAIN todo' = Threads /\ todo'[t] = Tail(todo[t])
      /\ \A u \in Threads \ {t} : todo'[u] = todo[u]
    BY <1>3, DoneNothing DEF DefaultsDoNotFit, LockInv
<1>5. /\ UNCHANGED <<option, held>> /\ leaked' = leaked \cup {t} /\ t \notin leaked
      /\ "unfillable" \in option
    BY DEF DefaultsDoNotFit
<1>6. held \in [Threads -> [Mutexes -> 0..2]] /\ leaked \subseteq Threads
    BY DEF LockInv, Counts
<1>7. /\ \A m \in Mutexes : Left(t, m) = 0 /\ Left(t, m)' = IF m = "hw" THEN 1 ELSE 0
      /\ \A u \in Threads \ {t} : \A m \in Mutexes : Left(u, m)' = Left(u, m)
    BY <1>5 DEF Left
<1>8. "hw" \in Mutexes
    BY DEF Mutexes
<1>9. held[t]["hw"] = 1 /\ \A m \in Mutexes \ {"hw"} : held[t][m] = 0
    BY <1>2, <1>7, <1>8 DEF Has, LockInv, Counts
<1>10. Counts'
    BY <1>5, <1>6, <1>7, <1>9 DEF Counts, LockInv
<1>11. Exclusive'
    BY <1>5 DEF Exclusive, LockInv
<1>12. Has(t)' = e /\ \A u \in Threads \ {t} : Has(u)' = Has(u)
    BY <1>2, <1>5, <1>7, <1>9 DEF Has
<1>13. Handling'
    BY <1>1, <1>4, <1>12 DEF Handling, LockInv
<1>14. leaked' \subseteq Threads
    BY <1>5, <1>6
<1> QED BY <1>5, <1>10, <1>11, <1>13, <1>14 DEF LockInv

LEMMA CallKeeps == ASSUME LockInv, NEW t \in Threads, Call(t) PROVE LockInv'
<1>1. PICK do \in {"use", "volume", "hal"} : At(t, do)
    BY DEF Call
<1>2. PICK e : <<Has(t), Doing(t), e>> \in Moves(t) /\ Does(t, Tail(todo[t]), e, NoMutex)
    BY <1>1, AtStep DEF LockInv
<1>3. e = Has(t)
    BY <1>1, <1>2, MoveParts DEF At
<1>4. Does(t, <<>>, Has(t), e)
    BY <1>3, DoesNone
<1> QED BY <1>2, <1>4, GoesOn DEF Call

LEMMA LookKeeps == ASSUME LockInv, NEW t \in Threads, Look(t) PROVE LockInv'
<1>1. UNCHANGED <<option, held, leaked>>
    BY DEF Look
<1>2. ASSUME NEW do \in Quiet \cup Asks, At(t, do)
      PROVE  /\ On(t) \in Streams /\ Has(t) = NoMutex
             /\ Does(t, Tail(todo[t]), NoMutex, NoMutex)
  <2>1. do # "idle"
    BY DEF Quiet, Asks
  <2>2. PICK e : <<Has(t), Doing(t), e>> \in Moves(t) /\ Does(t, Tail(todo[t]), e, NoMutex)
    BY <1>2, <2>1, AtStep DEF LockInv
  <2> QED BY <1>2, <2>2, MoveParts DEF At, On, NoMutex
<1>3. ASSUME NEW do \in Quiet \cup Asks, At(t, do), NEW p, Does(t, p, NoMutex, NoMutex), Done(t, p)
      PROVE  LockInv'
    BY <1>1, <1>2, <1>3, GoesOn
<1>4. CASE At(t, "standby") /\ Done(t, Standby(On(t)))
    BY <1>2, <1>3, <1>4, DoesStandby DEF Quiet
<1>5. CASE At(t, "closing") /\ Done(t, CloseInput)
    BY <1>3, <1>5, DoesCloseInput DEF Quiet
<1>6. CASE At(t, "suspending") /\ Done(t, SuspendInput)
    BY <1>3, <1>6, DoesSuspendInput DEF Quiet
<1>7. CASE At(t, "opening") /\ (Done(t, OpenInput) \/ Done(t, <<>>))
    BY <1>3, <1>7, DoesOpenInput, DoesNone DEF Quiet
<1>8. CASE At(t, "route") /\ Done(t, IF stream[On(t)].open THEN SetRoute(On(t)) ELSE <<>>)
  <2>1. PICK e : <<Has(t), Doing(t), e>> \in Moves(t) /\ Does(t, Tail(todo[t]), e, NoMutex)
    BY <1>8, AtStep DEF LockInv
  <2>2. On(t) \in Streams /\ Has(t) \in {NoMutex, Hw} /\ e = Has(t)
    BY <1>8, <2>1, MoveParts DEF At, On, NoMutex, Hw
  <2>3. Does(t, IF stream[On(t)].open THEN SetRoute(On(t)) ELSE <<>>, Has(t), e)
    BY <2>2, DoesSetRoute, DoesNone
  <2> QED BY <1>1, <1>8, <2>1, <2>3, GoesOn
<1>9. CASE At(t, "read") /\ Done(t, IF valid THEN <<S("use", "in")>> ELSE <<>>)
  <2>1. Does(t, <<S("use", "in")>>, NoMutex, NoMutex)
    BY UseMove, DoesOne DEF Streams, NoMutex
  <2>2. Does(t, IF valid THEN <<S("use", "in")>> ELSE <<>>, NoMutex, NoMutex)
    BY <2>1, DoesNone
  <2> QED BY <1>3, <1>9, <2>2 DEF Quiet
<1>10. CASE At(t, "wait") /\ Idle(On(t)) /\ Done(t, <<>>)
    BY <1>3, <1>10, DoesNone DEF Asks
<1> QED BY <1>4, <1>5, <1>6, <1>7, <1>8, <1>9, <1>10 DEF Look

LEMMA OpeningKeeps ==
    ASSUME LockInv, NEW t \in Threads, OpenBegins(t) \/ OpenSucceeds(t) \/ OpenFails(t)
    PROVE  LockInv'
<1>1. UNCHANGED <<option, held, leaked>>
    BY DEF OpenBegins, OpenSucceeds, OpenFails
<1>2. PICK do \in {"open", "opened"} : At(t, do) /\ (do = "open" <=> OpenBegins(t))
    BY DEF OpenBegins, OpenSucceeds, OpenFails, At
<1>3. PICK e : <<Has(t), Doing(t), e>> \in Moves(t) /\ Does(t, Tail(todo[t]), e, NoMutex)
    BY <1>2, AtStep DEF LockInv
<1>4. On(t) \in Streams /\ Has(t) = Hw /\ e = NoMutex
    BY <1>2, <1>3, MoveParts DEF At, On, NoMutex, Hw
<1>5. "hw" \in Mutexes /\ Hw = NoMutex \cup {"hw"}
    BY DEF Mutexes, NoMutex, Hw
<1>6. <<Hw, S("unlock", "hw"), NoMutex>> \in Moves(t)
    BY <1>5, LockMove
<1>7. Does(t, <<S("unlock", "hw")>>, Hw, NoMutex)
    BY <1>6, DoesOne
<1>8. CASE OpenBegins(t)
  <2>1. <<Hw, S("opened", On(t)), NoMutex>> \in Moves(t)
    BY <1>4, OpenMove
  <2>2. Does(t, <<S("opened", On(t))>>, Hw, NoMutex)
    BY <2>1, DoesOne
  <2> QED BY <1>1, <1>3, <1>4, <1>8, <2>2, GoesOn DEF OpenBegins
<1>9. CASE OpenSucceeds(t)
  <2> DEFINE p == <<S("unlock", "hw"), S("handle", On(t))>>
             q == IF On(t) = "in" THEN <<S("standby", "in"), S("route", "in")>> ELSE <<>>
  <2>1. /\ <<NoMutex, S("handle", On(t)), NoMutex>> \in Moves(t)
        /\ <<NoMutex, S("standby", "in"), NoMutex>> \in Moves(t)
        /\ <<NoMutex, S("route", "in"), NoMutex>> \in Moves(t)
    BY <1>4, QuietMove, RouteMove DEF Quiet, Streams
  <2>2. Does(t, p, Hw, NoMutex)
    BY <1>6, <2>1, DoesTwo
  <2>3. Does(t, q, NoMutex, NoMutex)
    BY <2>1, DoesTwo, DoesNone
  <2>4. Done(t, p \o q)
    BY <1>9 DEF OpenSucceeds
  <2> HIDE DEF p, q
  <2>5. Does(t, p \o q, Hw, NoMutex)
    BY <2>2, <2>3, DoesJoin
  <2> QED BY <1>1, <1>3, <1>4, <2>4, <2>5, GoesOn
<1>10. CASE OpenFails(t)
  <2>1. CASE On(t) = "in" /\ Done(t, <<S("unlock", "hw")>>)
    BY <1>1, <1>3, <1>4, <1>7, <2>1, GoesOn
  <2>2. CASE todo' = [todo EXCEPT ![t] = <<S("unlock", "hw")>>]
    <3>1. DOMAIN todo' = Threads /\ todo'[t] = <<S("unlock", "hw")>>
          /\ \A u \in Threads \ {t} : todo'[u] = todo[u]
        BY <2>2 DEF LockInv, Handling
    <3>2. \A u \in Threads : Does(u, todo'[u], Has(u), NoMutex)
        BY <1>4, <1>7, <3>1 DEF LockInv, Handling
    <3> QED BY <1>1, <3>1, <3>2, SameLocks
  <2> QED BY <1>10, <2>1, <2>2 DEF OpenFails
<1> QED BY <1>8, <1>9, <1>10

(* Steps after which nothing new is to be done, but for Created.           *)
LEMMA QuietKeeps ==
    ASSUME LockInv, NEW t \in Threads,
           Handle(t) \/ Close(t) \/ Created(t) \/ SetState(t) \/ Refused(t) \/ SetValid(t)
    PROVE  LockInv'
<1>1. UNCHANGED <<option, held, leaked>>
    BY DEF Handle, Close, Created, SetState, Refused, SetValid
<1>2. CASE Close(t)
  <2>1. PICK e : <<Has(t), Doing(t), e>> \in Moves(t) /\ Does(t, Tail(todo[t]), e, NoMutex)
    BY <1>2, AtStep DEF Close, LockInv
  <2>2. e = Has(t)
    BY <1>2, <2>1, MoveParts DEF Close, At
  <2>3. Does(t, <<>>, Has(t), e)
    BY <2>2, DoesNone
  <2> QED BY <1>1, <1>2, <2>1, <2>3, GoesOn DEF Close
<1>3. ASSUME NEW do \in Quiet, At(t, do), NEW p, Does(t, p, NoMutex, NoMutex), Done(t, p)
      PROVE  LockInv'
  <2>1. do # "idle"
    BY DEF Quiet
  <2>2. PICK e : <<Has(t), Doing(t), e>> \in Moves(t) /\ Does(t, Tail(todo[t]), e, NoMutex)
    BY <1>3, <2>1, AtStep DEF LockInv
  <2>3. Has(t) = NoMutex /\ e = NoMutex
    BY <1>3, <2>2, MoveParts DEF At, NoMutex
  <2> QED BY <1>1, <1>3, <2>2, <2>3, GoesOn
<1>4. CASE Handle(t)
    BY <1>3, <1>4, DoesNone DEF Handle, Quiet
<1>5. CASE SetState(t)
  <2>1. PICK st \in {"none", "suspended", "running"} : At(t, st)
    BY <1>5 DEF SetState
  <2>2. st \in Quiet
    BY DEF Quiet
  <2> QED BY <1>3, <1>5, <2>1, <2>2, DoesNone DEF SetState
<1>6. CASE Refused(t)
    BY <1>3, <1>6, DoesNone DEF Refused, Quiet
<1>7. CASE SetValid(t)
    BY <1>3, <1>7, DoesNone DEF SetValid, Quiet
<1>8. CASE Created(t)
  <2> DEFINE p == <<S("route", "in"), S("suspending", "in"), S("suspended", "in")>>
  <2>1. /\ <<NoMutex, S("suspending", "in"), NoMutex>> \in Moves(t)
        /\ <<NoMutex, S("suspended", "in"), NoMutex>> \in Moves(t)
        /\ <<NoMutex, S("route", "in"), NoMutex>> \in Moves(t)
    BY QuietMove, RouteMove DEF Quiet, Streams
  <2>2. Does(t, p, NoMutex, NoMutex)
    BY <2>1, DoesThree
  <2>3. Done(t, IF stream["in"].open THEN p ELSE <<>>) /\ At(t, "created")
    BY <1>8 DEF Created
  <2> HIDE DEF p
  <2>4. Does(t, IF stream["in"].open THEN p ELSE <<>>, NoMutex, NoMutex)
    BY <2>2, DoesNone
  <2> QED BY <1>3, <2>3, <2>4 DEF Quiet
<1> QED BY <1>2, <1>4, <1>5, <1>6, <1>7, <1>8

(* An idle thread has nothing but what it left with.                       *)
LEMMA IdleHasNothing ==
    ASSUME Handling, NEW t \in Threads, Idle(t) PROVE Has(t) = NoMutex
<1>1. Does(t, <<>>, Has(t), NoMutex)
    BY DEF Handling, Idle
<1> QED BY <1>1, DoesEnd

LEMMA SendKeeps == ASSUME LockInv, NEW t \in Threads, Send(t) PROVE LockInv'
<1>1. PICK m \in {"suspend", "resume", "unlink"} :
        /\ At(t, m) /\ Idle(On(t))
        /\ todo' = [todo EXCEPT ![t] = Tail(@),
                                ![On(t)] = IF Is(m, run[On(t)]) THEN <<>> ELSE Told(m, On(t))]
    BY DEF Send
<1>2. UNCHANGED <<option, held, leaked>>
    BY DEF Send
<1>3. m \in Asks
    BY DEF Asks
<1>4. PICK e : <<Has(t), Doing(t), e>> \in Moves(t) /\ Does(t, Tail(todo[t]), e, NoMutex)
    BY <1>1, AtStep DEF LockInv
<1>5. On(t) \in Streams /\ Has(t) = NoMutex /\ e = NoMutex
    BY <1>1, <1>3, <1>4, MoveParts DEF At, On, NoMutex
<1>6. ~Idle(t)
    BY <1>1, AtStep DEF LockInv
<1> DEFINE s == On(t) p == IF Is(m, run[s]) THEN <<>> ELSE Told(m, s)
<1>7. s # t /\ s \in Threads
    BY <1>1, <1>5, <1>6 DEF Threads
<1>8. Does(s, p, NoMutex, NoMutex)
    BY <1>5, DoesTold, DoesNone
<1>9. todo' = [todo EXCEPT ![t] = Tail(@), ![s] = p]
    BY <1>1
<1>10. Has(s) = NoMutex
    BY <1>1, <1>7, IdleHasNothing DEF LockInv
<1> HIDE DEF s, p
<1>11. /\ DOMAIN todo' = Threads /\ todo'[t] = Tail(todo[t]) /\ todo'[s] = p
       /\ \A u \in Threads \ {s, t} : todo'[u] = todo[u]
    BY <1>7, <1>9 DEF LockInv, Handling
<1>12. \A u \in Threads : Does(u, todo'[u], Has(u), NoMutex)
    BY <1>4, <1>5, <1>8, <1>10, <1>11 DEF LockInv, Handling
<1> QED BY <1>2, <1>11, <1>12, SameLocks

LEMMA StartsKeeps ==
    ASSUME LockInv, NEW t \in Threads, NEW p, Starts(t, p), Does(t, p, NoMutex, NoMutex)
    PROVE  LockInv'
<1>1. /\ DOMAIN todo' = Threads /\ todo'[t] = p
      /\ \A u \in Threads \ {t} : todo'[u] = todo[u]
    BY DEF Starts, LockInv, Handling
<1>2. Has(t) = NoMutex
    BY IdleHasNothing DEF LockInv, Starts
<1>3. \A u \in Threads : Does(u, todo'[u], Has(u), NoMutex)
    BY <1>1, <1>2 DEF LockInv, Handling
<1>4. UNCHANGED <<option, held, leaked>>
    BY DEF Starts
<1> QED BY <1>1, <1>3, <1>4, SameLocks

LEMMA LockInvInit == Init => LockInv
<1> SUFFICES ASSUME Init PROVE LockInv
    OBVIOUS
<1>1. /\ option \in Options /\ leaked = {}
      /\ todo = [t \in Threads |-> <<>>] /\ held = [t \in Threads |-> [m \in Mutexes |-> 0]]
    BY DEF Init
<1>2. \A t, m : Left(t, m) = 0
    BY <1>1 DEF Left
<1>3. /\ held \in [Threads -> [Mutexes -> 0..2]]
      /\ \A t \in Threads : \A m \in Mutexes : held[t][m] = 0
    BY <1>1
<1>4. Counts /\ Exclusive
    BY <1>2, <1>3 DEF Counts, Exclusive
<1>5. \A t \in Threads : Has(t) = NoMutex
    BY <1>2, <1>3 DEF Has, NoMutex
<1>6. Handling
  <2>1. DOMAIN todo = Threads /\ \A t \in Threads : todo[t] = <<>>
    BY <1>1
  <2>2. \A t \in Threads : Does(t, <<>>, NoMutex, NoMutex)
    BY DoesNone
  <2> QED BY <1>5, <2>1, <2>2 DEF Handling
<1> QED BY <1>1, <1>4, <1>6 DEF LockInv

LEMMA LockInvStep == LockInv /\ [Next]_vars => LockInv'
<1> SUFFICES ASSUME LockInv, [Next]_vars PROVE LockInv'
    OBVIOUS
<1>1. ASSUME NEW t \in Threads, Step(t) PROVE LockInv'
    BY <1>1, LockKeeps, UnlockKeeps, CallKeeps, LookKeeps, OpeningKeeps, LeakKeeps, QuietKeeps,
       SendKeeps DEF Step
<1>2. CASE MainHandler
    BY <1>2, MainDoes, StartsKeeps DEF Threads
<1>3. ASSUME NEW o \in Outputs, Render(o) PROVE LockInv'
  <2>1. o \in Threads
    BY DEF Threads, Streams
  <2> QED BY <1>3, <2>1, RoundDoes, StartsKeeps
<1>4. CASE Record
  <2>1. "in" \in Threads
    BY DEF Threads, Streams
  <2> QED BY <1>4, <2>1, RoundDoes, StartsKeeps
<1>5. CASE UNCHANGED vars
  <2>1. UNCHANGED <<option, held, leaked, todo>>
    BY <1>5 DEF vars
  <2> QED BY <2>1, SameLocks DEF LockInv, Handling
<1> QED BY <1>1, <1>2, <1>3, <1>4, <1>5 DEF Next

-----------------------------------------------------------------------------
(* Theorems about the mutexes.                                             *)

(* Whatever the handlers decide and however the threads interleave, each   *)
(* thread's handler unlocks what it locks, in an order, and no two threads *)
(* have the same mutex.                                                    *)
THEOREM LockInvariant == Spec => []LockInv
BY LockInvInit, LockInvStep, PTL DEF Spec

(* A thread that talks to the HAL has hw_mutex, so that it is the only one *)
(* to do so: one stream is opened at a time, and no mode, parameter or     *)
(* volume is set meanwhile.                                                *)
THEOREM HalIsLocked == Spec => []OneInHal
<1>1. LockInv => OneInHal
  <2> SUFFICES ASSUME LockInv, NEW t \in Threads, NEW u \in Threads, t # u,
                      Doing(t).do \in {"opened", "hal", "volume"},
                      Doing(u).do \in {"opened", "hal", "volume"}
               PROVE  FALSE
    BY DEF OneInHal
  <2>1. ASSUME NEW v \in Threads, Doing(v).do \in {"opened", "hal", "volume"}
        PROVE  held[v]["hw"] > 0
    <3>1. At(v, Doing(v).do) /\ Doing(v).do # "idle"
        BY <2>1 DEF At
    <3>2. PICK e : <<Has(v), Doing(v), e>> \in Moves(v)
        BY <3>1, AtStep DEF LockInv
    <3>3. "hw" \in Has(v)
        BY <2>1, <3>2, MoveParts
    <3>4. "hw" \in Mutexes /\ Left(v, "hw") \in {0, 1} /\ held[v]["hw"] > Left(v, "hw")
        BY <3>3 DEF Has, Left
    <3>5. held[v]["hw"] \in {Left(v, "hw"), Left(v, "hw") + 1}
        BY <3>4 DEF LockInv, Counts
    <3> QED BY <3>4, <3>5
  <2>2. held[t]["hw"] > 0 /\ held[u]["hw"] > 0 /\ "hw" \in Mutexes
    BY <2>1 DEF Mutexes
  <2>3. held[u]["hw"] = 0
    BY <2>2 DEF LockInv, Exclusive
  <2> QED BY <2>2, <2>3
<1> QED BY <1>1, LockInvariant, PTL

(* Handlers end with no mutex locked, except those of a thread that left   *)
(* input_stream_open() with hw_mutex, which takes defaults that fit        *)
(* nothing.                                                                *)
THEOREM HandlersUnlock == Spec => []LocksReleased
<1>1. LockInv => LocksReleased
  <2> SUFFICES ASSUME LockInv, NEW t \in Threads
               PROVE  /\ t \notin leaked /\ Idle(t) => \A m \in Mutexes : held[t][m] = 0
                      /\ t \in leaked => held[t]["hw"] > 0 /\ "unfillable" \in option
    BY DEF LocksReleased
  <2>1. ASSUME t \notin leaked, Idle(t), NEW m \in Mutexes PROVE held[t][m] = 0
    <3>1. Has(t) = {} /\ Left(t, m) = 0
        BY <2>1, IdleHasNothing DEF LockInv, Left, NoMutex
    <3>2. held[t][m] \in {0, 1} /\ ~(held[t][m] > 0)
        BY <3>1 DEF LockInv, Counts, Has
    <3> QED BY <3>2
  <2>2. ASSUME t \in leaked PROVE held[t]["hw"] > 0 /\ "unfillable" \in option
    <3>1. "hw" \in Mutexes /\ Left(t, "hw") = 1
        BY <2>2 DEF Mutexes, Left
    <3>2. held[t]["hw"] \in {1, 2}
        BY <3>1 DEF LockInv, Counts
    <3> QED BY <2>2, <3>2 DEF LockInv
  <2> QED BY <2>1, <2>2
<1> QED BY <1>1, LockInvariant, PTL

(* A thread cannot go on before another one does: its mutex is taken, or   *)
(* the thread it sends to or waits for is in a handler.                    *)
Blocked(t) ==
    \/ At(t, "lock") /\ ~Free(On(t), t)
    \/ \E do \in Asks : At(t, do) /\ ~Idle(On(t))

NoStandstill ==
    leaked = {} /\ (\E t \in Threads : ~Idle(t)) => \E t \in Threads : ~Idle(t) /\ ~Blocked(t)

(* Threads that have a mutex wait for no answer, nor for a mutex that one  *)
(* could have who waits for theirs: there is always one that goes on,      *)
(* unless a thread left with hw_mutex.                                     *)
THEOREM NoDeadlock == Spec => []NoStandstill
<1>1. LockInv => NoStandstill
  <2> SUFFICES ASSUME LockInv, leaked = {}, \A t \in Threads : ~Idle(t) => Blocked(t)
               PROVE  \A t \in Threads : Idle(t)
    BY DEF NoStandstill
  <2>1. \A t \in Threads : \A m \in Mutexes : held[t][m] \in {0, 1} /\ (held[t][m] = 1 <=> m \in Has(t))
    BY DEF LockInv, Counts, Has, Left
  <2>2. ASSUME NEW t \in Threads, At(t, "lock")
        PROVE  On(t) \in Mutexes /\ Has(t) \subseteq {"hw"} /\ (On(t) = "hw" => Has(t) = {})
    <3>1. PICK e : <<Has(t), Doing(t), e>> \in Moves(t)
        BY <2>2, AtStep DEF LockInv
    <3> QED BY <2>2, <3>1, MoveParts DEF At, On
  <2>3. ASSUME NEW t \in Threads, NEW do \in Asks, At(t, do)
        PROVE  t = "main" /\ On(t) \in Streams /\ Has(t) = {}
    <3>1. do # "idle"
        BY DEF Asks
    <3>2. PICK e : <<Has(t), Doing(t), e>> \in Moves(t)
        BY <2>3, <3>1, AtStep DEF LockInv
    <3> QED BY <2>3, <3>2, MoveParts DEF At, On
  <2>4. ASSUME NEW t \in Threads, ~Idle(t)
        PROVE  \/ At(t, "lock") /\ \E u \in Threads : On(t) \in Has(u)
               \/ t = "main" /\ Has(t) = {} /\ On(t) \in Streams /\ ~Idle(On(t))
    <3>1. CASE At(t, "lock") /\ ~Free(On(t), t)
        BY <3>1, <2>1, <2>2 DEF Free
    <3>2. CASE \E do \in Asks : At(t, do) /\ ~Idle(On(t))
        BY <3>2, <2>3
    <3> QED BY <2>4, <3>1, <3>2 DEF Blocked
  <2>5. \A t \in Threads : Has(t) # {} => ~Idle(t)
    BY IdleHasNothing DEF LockInv, NoMutex
  <2>6. \A u \in Threads : Has(u) \subseteq {"hw"}
    <3> SUFFICES ASSUME NEW u \in Threads, Has(u) # {} PROVE Has(u) \subseteq {"hw"}
        OBVIOUS
    <3> QED BY <2>2, <2>4, <2>5
  <2>7. \A t \in Threads : At(t, "lock") /\ ~Idle(t) => On(t) = "hw" /\ Has(t) = {}
    <3> SUFFICES ASSUME NEW t \in Threads, At(t, "lock"), ~Idle(t) PROVE On(t) = "hw" /\ Has(t) = {}
        OBVIOUS
    <3>1. CASE ~Free(On(t), t)
      <4>1. PICK u \in Threads : held[u][On(t)] # 0
        BY <3>1 DEF Free
      <4>2. On(t) \in Has(u)
        BY <2>1, <2>2, <4>1
      <4> QED BY <2>2, <2>6, <4>2
    <3>2. CASE \E do \in Asks : At(t, do)
        BY <3>2 DEF At, Asks
    <3> QED BY <3>1, <3>2 DEF Blocked
  <2>8. \A u \in Threads : Has(u) = {}
    BY <2>4, <2>5, <2>7
  <2>9. ASSUME NEW t \in Threads, ~Idle(t)
        PROVE  t = "main" /\ On(t) \in Streams /\ ~Idle(On(t))
    BY <2>4, <2>8, <2>9
  <2>10. \A s \in Streams : s \in Threads /\ s # "main"
    BY LocksAssumption DEF Streams, Threads
  <2> QED BY <2>9, <2>10
<1> QED BY <1>1, LockInvariant, PTL

-----------------------------------------------------------------------------
(* The types of what steps assign.                                         *)

TypeRest ==
    /\ last \in Streams
    /\ stream \in [Streams -> [open : BOOLEAN, handle : Streams]]
    /\ run \in [Streams -> {"none", "suspended", "running"}]
    /\ valid \in BOOLEAN
    /\ stolen \subseteq Streams

LEMMA OnStream ==
    ASSUME Handling, NEW t \in Threads, NEW do \in Quiet \cup Touches, At(t, do)
    PROVE  On(t) \in Streams
<1>1. do # "idle"
    BY DEF Quiet, Touches
<1>2. PICK e : <<Has(t), Doing(t), e>> \in Moves(t)
    BY <1>1, AtStep
<1>3. CASE do \in Quiet
    BY <1>2, <1>3, MoveParts DEF At, On
<1>4. CASE do \in Touches
    BY <1>2, <1>4, MoveParts DEF At, On, Touches
<1> QED BY <1>3, <1>4

LEMMA TypeRestStep == LockInv /\ TypeRest /\ [Next]_vars => TypeRest'
<1> SUFFICES ASSUME LockInv, TypeRest, [Next]_vars PROVE TypeRest'
    OBVIOUS
<1>1. CASE UNCHANGED <<last, stream, run, valid, stolen>>
    BY <1>1 DEF TypeRest
<1>2. ASSUME NEW t \in Threads, OpenBegins(t) PROVE TypeRest'
  <2>1. On(t) \in Streams
    BY <1>2, OnStream DEF LockInv, OpenBegins, Touches
  <2>2. last' \in Streams /\ stolen' \subseteq Streams
    BY <1>2, <2>1 DEF OpenBegins, TypeRest
  <2> QED BY <1>2, <2>2 DEF OpenBegins, TypeRest
<1>3. ASSUME NEW t \in Threads, NEW s \in Streams, NEW open \in BOOLEAN,
             stream' = [stream EXCEPT ![s].open = open], UNCHANGED <<last, run, valid, stolen>>
      PROVE  TypeRest'
    BY <1>3 DEF TypeRest
<1>4. ASSUME NEW t \in Threads, OpenSucceeds(t) \/ Close(t) PROVE TypeRest'
  <2>1. On(t) \in Streams
    BY <1>4, OnStream DEF LockInv, OpenSucceeds, Close, Touches
  <2> QED BY <1>3, <1>4, <2>1 DEF OpenSucceeds, Close
<1>5. ASSUME NEW t \in Threads, Handle(t) PROVE TypeRest'
  <2>1. On(t) \in Streams
    BY <1>5, OnStream DEF LockInv, Handle, Quiet
  <2>2. stream' \in [Streams -> [open : BOOLEAN, handle : Streams]]
    BY <1>5, <2>1 DEF Handle, TypeRest
  <2> QED BY <1>5, <2>2 DEF Handle, TypeRest
<1>6. ASSUME NEW t \in Threads, Created(t) PROVE TypeRest'
    BY <1>6 DEF Created, TypeRest
<1>7. ASSUME NEW t \in Threads, SetState(t) PROVE TypeRest'
  <2>1. PICK st \in {"none", "suspended", "running"} : At(t, st) /\ run' = [run EXCEPT ![On(t)] = st]
    BY <1>7 DEF SetState
  <2>2. On(t) \in Streams
    BY <2>1, OnStream DEF LockInv, Quiet
  <2>3. run' \in [Streams -> {"none", "suspended", "running"}]
    BY <2>1, <2>2 DEF TypeRest
  <2> QED BY <1>7, <2>3 DEF SetState, TypeRest
<1>8. ASSUME NEW t \in Threads, SetValid(t) PROVE TypeRest'
  <2>1. ("close_input" \in option => stream["in"].open) \in BOOLEAN
    OBVIOUS
  <2>2. valid' \in BOOLEAN
    BY <1>8, <2>1 DEF SetValid
  <2> QED BY <1>8, <2>2 DEF SetValid, TypeRest
<1>9. ASSUME NEW t \in Threads, Step(t) PROVE TypeRest'
  <2>1. CASE Lock(t) \/ Unlock(t) \/ Call(t) \/ Look(t) \/ OpenFails(t) \/ DefaultsDoNotFit(t)
             \/ Refused(t) \/ Send(t)
    BY <1>1, <2>1 DEF Lock, Unlock, Call, Look, OpenFails, DefaultsDoNotFit, Refused, Send
  <2> QED BY <1>2, <1>4, <1>5, <1>6, <1>7, <1>8, <1>9, <2>1 DEF Step
<1>10. CASE MainHandler
    BY <1>1, <1>10, MainDoes DEF Starts
<1>11. CASE Record \/ \E o \in Outputs : Render(o)
    BY <1>1, <1>11, RoundDoes DEF Starts
<1>12. CASE UNCHANGED vars
    BY <1>1, <1>12 DEF vars
<1> QED BY <1>9, <1>10, <1>11, <1>12 DEF Next

(* No handler gets to a step about anything but a stream of the hw module, *)
(* or one of its mutexes, and none is locked more than twice by a thread.  *)
THEOREM TypeCorrect == Spec => []TypeOK
<1> DEFINE Inv == LockInv /\ TypeRest
<1>1. Init => Inv
  <2>1. Init => TypeRest
    BY DEF Init, TypeRest, Streams
  <2> QED BY <2>1, LockInvInit
<1>2. Inv /\ [Next]_vars => Inv'
    BY LockInvStep, TypeRestStep
<1>3. Inv => TypeOK
  <2> SUFFICES ASSUME LockInv, TypeRest, NEW t \in Threads, NEW k \in DOMAIN todo[t]
               PROVE  todo[t][k].on \in Threads \cup Mutexes
    BY DEF TypeOK, TypeRest, LockInv, Counts
  <2>1. todo[t] \in Seq(StepsOf(t)) /\ DOMAIN todo[t] = 1..Len(todo[t])
    BY LenProperties DEF LockInv, Handling, Does
  <2>2. todo[t][k] \in StepsOf(t)
    BY <2>1, ElementOfSeq
  <2>3. \A s \in StepsOf(t) : s.on \in Threads \cup Mutexes
    BY DEF StepsOf, Threads, Mutexes
  <2> QED BY <2>2, <2>3
<1> QED BY <1>1, <1>2, <1>3, PTL DEF Spec

-----------------------------------------------------------------------------
(* What a thread may rely on while it is in a handler: of its own sink or  *)
(* source an IO thread, of all of them the main thread.  As above, a step  *)
(* has what it needs before it and what it leaves after it.                *)

Steps == StepsOf("main")

Private == "close_input" \in option    \* the source's thread opens and closes
Guarded(s) == s \in Outputs \/ Private

(* Notes of the thread of s: "on" in a handler; the state of s; its stream; *)
(* "fit", that stream_valid does not say too much.                          *)
Notes == {"on", "there", "gone", "stopped", "open", "closed", "fit"}

Noted(s, n) ==
    /\ n = "there" => run[s] # "none"
    /\ n = "gone" => run[s] = "none"
    /\ n = "stopped" => (Private => run[s] # "running")
    /\ n = "open" => (Guarded(s) => stream[s].open)
    /\ n = "closed" => (Guarded(s) => ~stream[s].open)
    /\ n = "fit" /\ s = "in" => (Private /\ valid => stream[s].open)

MindsAny(s, b, r, e) ==
    \/ r.do = "standby" /\ e \subseteq b
    \/ r.do = "use" /\ (Guarded(s) => "open" \in b) /\ e \subseteq b
    \/ r.do = "none" /\ e \subseteq (b \ {"on", "there"}) \cup {"gone", "stopped"}
    \/ r.do = "suspended" /\ (s # "in" => "open" \in b)
       /\ e \subseteq (b \ {"on", "gone"}) \cup (IF s = "in" THEN {"stopped"} ELSE {})
    \/ r.do = "running" /\ (s # "in" => "open" \in b) /\ e \subseteq b \ {"on", "gone", "stopped"}

MindsOutput(b, r, e) == r.do = "volume" /\ "open" \in b /\ e \subseteq b

MindsInput(b, r, e) ==
    \/ r.do = "valid" /\ e \subseteq b \cup {"fit"}
    \/ r.do = "read" /\ "fit" \in b /\ e \subseteq b
    \/ r.do = "suspending" /\ e \subseteq b \ {"open", "closed", "fit"}
    \/ /\ Private
       /\ \/ r.do = "opening" /\ e \subseteq b \ {"open", "closed"}
          \/ r.do \in {"open", "opened"} /\ "closed" \in b /\ e \subseteq b \ {"open", "closed"}
          \/ r.do \in {"handle", "route"} /\ e \subseteq b
          \/ r.do = "close" /\ e \subseteq b \ {"open", "closed", "fit"}

Minds(s, b, r, e) ==
    /\ "on" \in b
    /\ \/ r.do \in {"lock", "unlock"} /\ e \subseteq b
       \/ r.on = s /\ MindsAny(s, b, r, e)
       \/ r.on = s /\ s # "in" /\ MindsOutput(b, r, e)
       \/ r.on = s /\ s = "in" /\ MindsInput(b, r, e)

IoMoves(s) == {v \in (SUBSET Notes) \X Steps \X (SUBSET Notes) : Minds(s, v[1], v[2], v[3])}

LEMMA IoMoveIs ==
    ASSUME NEW s, NEW b, NEW r, NEW e
    PROVE  <<b, r, e>> \in IoMoves(s) <=>
               b \in SUBSET Notes /\ r \in Steps /\ e \in SUBSET Notes /\ Minds(s, b, r, e)
BY DEF IoMoves

(* p may be left to do for who knows b before it, and then knows e.        *)
Runs(M, p, b, e) == p \in Seq(Steps) /\ Path(M, p, b, e)

(* What the thread of s has left to do ends with e.                        *)
Leads(s, e) ==
    \E b \in SUBSET Notes : (\A n \in b : Noted(s, n)) /\ Runs(IoMoves(s), todo[s], b, e)

(* Nothing but a round of its thread is going on.                          *)
Settled(s) == Idle(s) \/ (run[s] = "running" /\ Leads(s, {"there"}))

-----------------------------------------------------------------------------
(* Facts the main thread knows: no other thread can undo them.             *)

Gone(s) == <<"gone", s>>        \* the sink or source is unlinked
Leaving(s) == <<"leaving", s>>  \* it will be when its thread is idle
Alive(s) == <<"alive", s>>      \* it is there and will be
Open(s) == <<"open", s>>        \* the stream is open
Closed(s) == <<"closed", s>>    \* the stream is closed
Asked(s) == <<"asked", s>>      \* no other thread is busy with a message
Calm == <<"calm", "in">>        \* the source's thread leaves the stream alone
Halting == <<"halting", "in">>  \* it will when it is idle
Rest == <<"rest", "in">>        \* no thread is busy with a message

Facts ==
    ({"gone", "leaving", "alive", "open", "closed", "asked"} \X Streams) \cup {Calm, Halting, Rest}

Quietly == Private => run["in"] # "running" /\ Idle("in")

Known(f) ==
    /\ f[1] = "gone" => run[f[2]] = "none" /\ Idle(f[2])
    /\ f[1] = "leaving" => Leads(f[2], {"gone"})
    /\ f[1] = "alive" => Leads(f[2], {"there"})
    /\ f[1] = "open" => (Guarded(f[2]) => stream[f[2]].open) /\ (f[2] = "in" => Quietly)
    /\ f[1] = "closed" => (Guarded(f[2]) => ~stream[f[2]].open) /\ (f[2] = "in" => Quietly)
    /\ f[1] = "asked" => \A u \in Streams \ {f[2]} : Settled(u)
    /\ f[1] = "calm" => Quietly
    /\ f[1] = "halting" => (Private => Leads("in", {"stopped"}))
    /\ f[1] = "rest" => \A u \in Streams : Settled(u)

(* What is known of one stream.                                            *)
Of(s) == {f \in Facts : f[2] = s /\ f[1] # "rest"}

TellsOutput(b, s, e) ==
    \/ /\ s.do \in {"open", "opened"} /\ {Closed(s.on), Gone(s.on), Rest} \subseteq b
       /\ e \subseteq (b \ Of(s.on)) \cup {Open(s.on), Gone(s.on)}
    \/ s.do \in {"use", "volume"} /\ Open(s.on) \in b /\ e \subseteq b
    \/ s.do = "close" /\ Gone(s.on) \in b /\ e \subseteq b \ Of(s.on)
    \/ s.do = "running" /\ {Open(s.on), Gone(s.on)} \subseteq b /\ e \subseteq b \ Of(s.on)
    \/ s.do = "route" /\ e \subseteq b

TellsInput(b, s, e) ==
    \/ s.do = "use" /\ (Private => Open("in") \in b) /\ e \subseteq b
    \/ /\ Calm \in b
       /\ \/ s.do \in {"open", "opened"} /\ Closed("in") \in b /\ e \subseteq b \ {Open("in"), Closed("in")}
          \/ s.do \in {"close", "closing", "suspending", "opening"}
             /\ e \subseteq b \ {Open("in"), Closed("in")}
          \/ s.do \in {"standby", "route"} /\ e \subseteq b
          \/ s.do \in {"suspended", "created"} /\ Gone("in") \in b /\ e \subseteq b \ Of("in")

TellsAny(b, s, e) ==
    \/ s.do = "handle" /\ e \subseteq b
    \/ /\ s.do \in {"suspend", "resume"} /\ {Alive(s.on), Rest} \subseteq b
       /\ e \subseteq {Asked(s.on), Alive(s.on)}
                      \cup (IF s.on = "in" /\ s.do = "suspend" THEN {Halting} ELSE {})
    \/ /\ s.do = "unlink" /\ {Alive(s.on), Rest} \subseteq b
       /\ e \subseteq {Asked(s.on), Leaving(s.on)} \cup (IF s.on = "in" THEN {Halting} ELSE {})
    \/ /\ s.do = "wait" /\ Asked(s.on) \in b
       /\ e \subseteq b \cup {Rest} \cup (IF Leaving(s.on) \in b THEN {Gone(s.on)} ELSE {})
                        \cup (IF s.on = "in" /\ Halting \in b THEN {Calm} ELSE {})

Tells(b, s, e) ==
    \/ s.do \in {"lock", "unlock", "hal"} /\ e \subseteq b
    \/ s.on \in Streams /\ TellsAny(b, s, e)
    \/ s.on \in Outputs /\ TellsOutput(b, s, e)
    \/ s.on = "in" /\ TellsInput(b, s, e)

MainMoves == {v \in (SUBSET Facts) \X Steps \X (SUBSET Facts) : Tells(v[1], v[2], v[3])}

LEMMA MainMoveIs ==
    ASSUME NEW b, NEW s, NEW e
    PROVE  <<b, s, e>> \in MainMoves <=>
               b \in SUBSET Facts /\ s \in Steps /\ e \in SUBSET Facts /\ Tells(b, s, e)
BY DEF MainMoves

(* The main thread may do what it has left to do, and then it is done with *)
(* all messages.                                                           *)
Knows(b) ==
    /\ b \in SUBSET Facts /\ \A f \in b : Known(f)
    /\ Runs(MainMoves, todo["main"], b, {Rest})

FlowInv ==
    /\ \A o \in Outputs : run[o] # "none" => stream[o].open
    /\ \A s \in Streams : Leads(s, {})
    /\ Private => Leads("in", {"fit"}) \/ Leads("in", {"stopped"})
    /\ \E b : Knows(b)

-----------------------------------------------------------------------------
(* Annotated sequences, as above.                                          *)

LEMMA RunsNone == ASSUME NEW M, NEW b PROVE Runs(M, <<>>, b, b)
BY PathNone, EmptySeq DEF Runs

LEMMA RunsOne ==
    ASSUME NEW M, NEW b, NEW s \in Steps, NEW e, <<b, s, e>> \in M
    PROVE  Runs(M, <<s>>, b, e)
<1>1. <<s>> \in Seq(Steps)
    OBVIOUS
<1> QED BY <1>1, PathOne DEF Runs

LEMMA RunsTwo ==
    ASSUME NEW M, NEW b, NEW r \in Steps, NEW c, NEW s \in Steps, NEW e,
           <<b, r, c>> \in M, <<c, s, e>> \in M
    PROVE  Runs(M, <<r, s>>, b, e)
<1>1. <<r, s>> \in Seq(Steps)
    OBVIOUS
<1> QED BY <1>1, PathTwo DEF Runs

LEMMA RunsThree ==
    ASSUME NEW M, NEW b, NEW r \in Steps, NEW c, NEW s \in Steps, NEW f, NEW u \in Steps, NEW e,
           <<b, r, c>> \in M, <<c, s, f>> \in M, <<f, u, e>> \in M
    PROVE  Runs(M, <<r, s, u>>, b, e)
<1>1. <<r, s, u>> \in Seq(Steps)
    OBVIOUS
<1> QED BY <1>1, PathThree DEF Runs

LEMMA RunsJoin ==
    ASSUME NEW M, NEW p, NEW q, NEW b, NEW c, NEW e, Runs(M, p, b, c), Runs(M, q, c, e)
    PROVE  Runs(M, p \o q, b, e)
<1>1. p \in Seq(Steps) /\ q \in Seq(Steps) /\ p \o q \in Seq(Steps)
    BY ConcatProperties DEF Runs
<1>2. Path(M, p \o q, b, e)
    BY <1>1, PathJoin DEF Runs
<1> QED BY <1>1, <1>2 DEF Runs

LEMMA RunsFirst ==
    ASSUME NEW M, NEW p, NEW b, NEW e, Runs(M, p, b, e), p # <<>>
    PROVE  \E c : <<b, Head(p), c>> \in M /\ Runs(M, Tail(p), c, e)
<1>1. p \in Seq(Steps) /\ Tail(p) \in Seq(Steps)
    BY HeadTailProperties DEF Runs
<1>2. \E c : <<b, Head(p), c>> \in M /\ Path(M, Tail(p), c, e)
    BY <1>1, PathFirst DEF Runs
<1> QED BY <1>1, <1>2 DEF Runs

LEMMA RunsEnd == ASSUME NEW M, NEW b, NEW e, Runs(M, <<>>, b, e) PROVE b = e
BY PathEnd DEF Runs

LEMMA LockSteps ==
    ASSUME NEW m \in Mutexes
    PROVE  /\ S("lock", m) \in Steps /\ S("lock", m).do = "lock" /\ S("lock", m).on = m
           /\ S("unlock", m) \in Steps /\ S("unlock", m).do = "unlock" /\ S("unlock", m).on = m
BY DEF S, Steps, StepsOf

LEMMA StreamSteps ==
    ASSUME NEW s \in Streams, NEW do \in Quiet \cup Touches \cup Asks
    PROVE  S(do, s) \in Steps /\ S(do, s).do = do /\ S(do, s).on = s
BY DEF S, Steps, StepsOf

LEMMA RunsSection ==
    ASSUME NEW M, NEW m \in Mutexes, NEW p, NEW b, NEW c, NEW d, NEW e,
           <<b, S("lock", m), c>> \in M, Runs(M, p, c, d), <<d, S("unlock", m), e>> \in M
    PROVE  Runs(M, Under(m, p), b, e)
<1> DEFINE l == S("lock", m) u == S("unlock", m)
<1>1. l \in Steps /\ u \in Steps
    BY LockSteps
<1> HIDE DEF l, u
<1>2. <<b, l, c>> \in M /\ <<d, u, e>> \in M
    BY DEF l, u
<1>3. Runs(M, <<l>>, b, c) /\ Runs(M, <<u>>, d, e)
    BY <1>1, <1>2, RunsOne
<1>4. Runs(M, <<l>> \o p, b, d)
    BY <1>3, RunsJoin
<1>5. Runs(M, (<<l>> \o p) \o <<u>>, b, e)
    BY <1>3, <1>4, RunsJoin
<1> QED BY <1>5 DEF Under, l, u

-----------------------------------------------------------------------------
(* What the main thread's handlers know.                                   *)

LEMMA FactsOf ==
    ASSUME NEW s \in Streams
    PROVE  /\ {Gone(s), Leaving(s), Alive(s), Open(s), Closed(s), Asked(s), Calm, Halting, Rest} \subseteq Facts
           /\ Rest \notin Of(s)
           /\ {Gone(s), Alive(s), Calm, Rest} \cap {Open("in"), Closed("in")} = {}
BY DEF Gone, Leaving, Alive, Open, Closed, Asked, Calm, Halting, Rest, Facts, Of, Streams

LEMMA MainRuns ==
    ASSUME NEW s \in Streams, NEW do \in Quiet \cup Touches \cup Asks,
           NEW b \in SUBSET Facts, NEW e \in SUBSET Facts, Tells(b, S(do, s), e)
    PROVE  Runs(MainMoves, <<S(do, s)>>, b, e)
<1> DEFINE r == S(do, s)
<1>1. r \in Steps
    BY StreamSteps
<1> HIDE DEF r
<1>2. <<b, r, e>> \in MainMoves
    BY <1>1, MainMoveIs DEF r
<1>3. Runs(MainMoves, <<r>>, b, e)
    BY <1>1, <1>2, RunsOne
<1> QED BY <1>3 DEF r

LEMMA MainLocks ==
    ASSUME NEW m \in Mutexes, NEW b \in SUBSET Facts, NEW e \in SUBSET Facts, e \subseteq b
    PROVE  <<b, S("lock", m), e>> \in MainMoves /\ <<b, S("unlock", m), e>> \in MainMoves
<1> DEFINE l == S("lock", m) u == S("unlock", m)
<1>1. l \in Steps /\ u \in Steps /\ l.do = "lock" /\ u.do = "unlock"
    BY LockSteps
<1> HIDE DEF l, u
<1>2. Tells(b, l, e) /\ Tells(b, u, e)
    BY <1>1 DEF Tells
<1>3. <<b, l, e>> \in MainMoves /\ <<b, u, e>> \in MainMoves
    BY <1>1, <1>2, MainMoveIs
<1> QED BY <1>3 DEF l, u

LEMMA MainSection ==
    ASSUME NEW m \in Mutexes, NEW p, NEW b \in SUBSET Facts, NEW c \in SUBSET Facts,
           NEW e \in SUBSET Facts, e \subseteq c, Runs(MainMoves, p, b, c)
    PROVE  Runs(MainMoves, Under(m, p), b, e)
<1>1. <<b, S("lock", m), b>> \in MainMoves /\ <<c, S("unlock", m), e>> \in MainMoves
    BY MainLocks
<1> QED BY <1>1, RunsSection

(* Steps of an output's handlers.                                          *)
LEMMA OutputTells ==
    ASSUME NEW o \in Outputs, NEW b \in SUBSET Facts, NEW e \in SUBSET Facts
    PROVE  /\ e \subseteq b => Runs(MainMoves, <<S("route", o)>>, b, e)
           /\ Open(o) \in b /\ e \subseteq b => /\ Runs(MainMoves, <<S("use", o)>>, b, e)
                                               /\ Runs(MainMoves, <<S("volume", o)>>, b, e)
           /\ Gone(o) \in b /\ e \subseteq b \ Of(o) => Runs(MainMoves, <<S("close", o)>>, b, e)
           /\ Open(o) \in b /\ Gone(o) \in b /\ e \subseteq b \ Of(o) =>
                  Runs(MainMoves, <<S("running", o)>>, b, e)
<1>1. o \in Streams
    BY DEF Streams
<1>2. \A do \in Quiet \cup Touches \cup Asks :
        Tells(b, S(do, o), e) => Runs(MainMoves, <<S(do, o)>>, b, e)
    BY <1>1, MainRuns
<1>3. \A do \in Quiet \cup Touches \cup Asks :
        TellsOutput(b, S(do, o), e) => Runs(MainMoves, <<S(do, o)>>, b, e)
    BY <1>1, <1>2, StreamSteps DEF Tells
<1>4. {"route", "use", "volume", "close", "running"} \subseteq Quiet \cup Touches \cup Asks
    BY DEF Quiet, Touches
<1>5. \A do \in {"route", "use", "volume", "close", "running"} : S(do, o).do = do /\ S(do, o).on = o
    BY DEF S
<1>6. e \subseteq b => TellsOutput(b, S("route", o), e)
    BY <1>5 DEF TellsOutput
<1>7. Open(o) \in b /\ e \subseteq b => /\ TellsOutput(b, S("use", o), e)
                                        /\ TellsOutput(b, S("volume", o), e)
    BY <1>5 DEF TellsOutput
<1>8. Gone(o) \in b /\ e \subseteq b \ Of(o) => TellsOutput(b, S("close", o), e)
    BY <1>5 DEF TellsOutput
<1>9. Open(o) \in b /\ Gone(o) \in b /\ e \subseteq b \ Of(o) => TellsOutput(b, S("running", o), e)
    BY <1>5 DEF TellsOutput
<1> QED BY <1>3, <1>4, <1>6, <1>7, <1>8, <1>9

LEMMA OpenOutputTells ==
    ASSUME NEW o \in Outputs, NEW do \in {"open", "opened"}, NEW b \in SUBSET Facts, NEW e \in SUBSET Facts,
           {Closed(o), Gone(o), Rest} \subseteq b, e \subseteq (b \ Of(o)) \cup {Open(o), Gone(o)}
    PROVE  Runs(MainMoves, <<S(do, o)>>, b, e)
<1>1. o \in Streams /\ do \in Quiet \cup Touches \cup Asks
    BY DEF Streams, Touches
<1>2. S(do, o).do = do /\ S(do, o).on = o
    BY DEF S
<1>3. Tells(b, S(do, o), e)
    BY <1>2 DEF Tells, TellsOutput
<1> QED BY <1>1, <1>3, MainRuns

(* Steps of the source's handlers.                                         *)
LEMMA InputTells ==
    ASSUME NEW b \in SUBSET Facts, NEW e \in SUBSET Facts
    PROVE  /\ (Private => Open("in") \in b) /\ e \subseteq b => Runs(MainMoves, <<S("use", "in")>>, b, e)
           /\ Calm \in b /\ Closed("in") \in b /\ e \subseteq b \ {Open("in"), Closed("in")} =>
                  /\ Runs(MainMoves, <<S("open", "in")>>, b, e)
                  /\ Runs(MainMoves, <<S("opened", "in")>>, b, e)
           /\ Calm \in b /\ e \subseteq b \ {Open("in"), Closed("in")} =>
                  \A do \in {"close", "closing", "suspending", "opening"} :
                      Runs(MainMoves, <<S(do, "in")>>, b, e)
           /\ Calm \in b /\ e \subseteq b =>
                  \A do \in {"standby", "route"} : Runs(MainMoves, <<S(do, "in")>>, b, e)
           /\ Calm \in b /\ Gone("in") \in b /\ e \subseteq b \ Of("in") =>
                  \A do \in {"suspended", "created"} : Runs(MainMoves, <<S(do, "in")>>, b, e)
<1>1. "in" \in Streams
    BY DEF Streams
<1> DEFINE Dos == {"use", "open", "opened", "close", "closing", "suspending", "opening", "standby",
                   "route", "suspended", "created"}
<1>2. Dos \subseteq Quiet \cup Touches \cup Asks
    BY DEF Quiet, Touches
<1>3. \A do \in Dos : S(do, "in").do = do /\ S(do, "in").on = "in"
    BY DEF S
<1>4. \A do \in Dos : Tells(b, S(do, "in"), e) => Runs(MainMoves, <<S(do, "in")>>, b, e)
    BY <1>1, <1>2, MainRuns
<1>5. \A do \in Dos : TellsInput(b, S(do, "in"), e) => Runs(MainMoves, <<S(do, "in")>>, b, e)
    BY <1>3, <1>4 DEF Tells
<1>6. (Private => Open("in") \in b) /\ e \subseteq b => TellsInput(b, S("use", "in"), e)
    BY <1>3 DEF TellsInput
<1>7. Calm \in b /\ Closed("in") \in b /\ e \subseteq b \ {Open("in"), Closed("in")} =>
        TellsInput(b, S("open", "in"), e) /\ TellsInput(b, S("opened", "in"), e)
    BY <1>3 DEF TellsInput
<1>8. Calm \in b /\ e \subseteq b \ {Open("in"), Closed("in")} =>
        \A do \in {"close", "closing", "suspending", "opening"} : TellsInput(b, S(do, "in"), e)
    BY <1>3 DEF TellsInput
<1>9. Calm \in b /\ e \subseteq b => \A do \in {"standby", "route"} : TellsInput(b, S(do, "in"), e)
    BY <1>3 DEF TellsInput
<1>10. Calm \in b /\ Gone("in") \in b /\ e \subseteq b \ Of("in") =>
        \A do \in {"suspended", "created"} : TellsInput(b, S(do, "in"), e)
    BY <1>3 DEF TellsInput
<1> QED BY <1>5, <1>6, <1>7, <1>8, <1>9, <1>10

LEMMA HandleTells ==
    ASSUME NEW s \in Streams, NEW b \in SUBSET Facts, NEW e \in SUBSET Facts, e \subseteq b
    PROVE  Runs(MainMoves, <<S("handle", s)>>, b, e)
<1>1. S("handle", s).do = "handle" /\ S("handle", s).on = s
    BY DEF S
<1>2. Tells(b, S("handle", s), e)
    BY <1>1 DEF Tells, TellsAny
<1> QED BY <1>2, MainRuns DEF Quiet

LEMMA ConcatOne ==
    ASSUME NEW X, NEW p \in Seq(X), NEW q \in Seq(X), Len(q) = 1
    PROVE  /\ p \o q \in Seq(X) /\ Len(p \o q) = Len(p) + 1
           /\ (p \o q)[Len(p) + 1] = q[1] /\ \A k \in 1..Len(p) : (p \o q)[k] = p[k]
<1> DEFINE n == Len(p)
<1>1. /\ p \o q \in Seq(X) /\ Len(p \o q) = Len(p) + Len(q) /\ n \in Nat
      /\ \A i \in 1..Len(p) + Len(q) : (p \o q)[i] = IF i <= Len(p) THEN p[i] ELSE q[i - Len(p)]
    BY ConcatProperties, LenProperties
<1>2. /\ Len(p \o q) = n + 1
      /\ \A i \in 1..n + 1 : (p \o q)[i] = IF i <= n THEN p[i] ELSE q[i - n]
    BY <1>1
<1> HIDE DEF n
<1>3. (p \o q)[n + 1] = q[n + 1 - n]
    BY <1>1, <1>2
<1>4. \A k \in 1..n : (p \o q)[k] = p[k]
    BY <1>1, <1>2
<1>5. n + 1 - n = 1
    BY <1>1
<1>6. (p \o q)[n + 1] = q[1]
    BY <1>3, <1>5
<1> QED BY <1>1, <1>2, <1>4, <1>6 DEF n

LEMMA InOrder ==
    ASSUME NEW r, NEW s, NEW u
    PROVE  <<r>> \o <<s>> = <<r, s>> /\ (<<r>> \o <<s>>) \o <<u>> = <<r, s, u>>
<1> DEFINE Set == {r, s, u} p == <<r>> ps == <<s>> pu == <<u>>
           q == p \o ps v == q \o pu two == <<r, s>> three == <<r, s, u>>
<1>1. /\ p \in Seq(Set) /\ Len(p) = 1 /\ p[1] = r
      /\ ps \in Seq(Set) /\ Len(ps) = 1 /\ ps[1] = s
      /\ pu \in Seq(Set) /\ Len(pu) = 1 /\ pu[1] = u
      /\ two \in Seq(Set) /\ Len(two) = 2 /\ two[1] = r /\ two[2] = s
      /\ three \in Seq(Set) /\ Len(three) = 3 /\ three[1] = r /\ three[2] = s /\ three[3] = u
    OBVIOUS
<1> HIDE DEF Set, p, ps, pu, two, three
<1>2. /\ q \in Seq(Set) /\ Len(q) = Len(p) + 1
      /\ q[Len(p) + 1] = ps[1] /\ \A k \in 1..Len(p) : q[k] = p[k]
  <2>1. p \in Seq(Set) /\ ps \in Seq(Set) /\ Len(ps) = 1
    BY <1>1
  <2> QED BY <2>1, ConcatOne, Zenon
<1>3. q \in Seq(Set) /\ Len(q) = 2 /\ q[1] = r /\ q[2] = s
    BY <1>1, <1>2
<1> HIDE DEF q
<1>4. q \in Seq(Set) /\ pu \in Seq(Set) /\ Len(pu) = 1
    BY <1>1, <1>3
<1>5. /\ v \in Seq(Set) /\ Len(v) = Len(q) + 1
      /\ v[Len(q) + 1] = pu[1] /\ \A k \in 1..Len(q) : v[k] = q[k]
    BY <1>4, ConcatOne, Zenon
<1>6. v \in Seq(Set) /\ Len(v) = 3 /\ v[1] = r /\ v[2] = s /\ v[3] = u
    BY <1>1, <1>3, <1>5
<1> HIDE DEF v
<1>7. q = two
  <2>1. \A i \in 1..Len(q) : q[i] = two[i]
    BY <1>1, <1>3
  <2> QED BY <1>1, <1>3, <2>1, SeqEqual
<1>8. v = three
  <2>1. \A i \in 1..Len(v) : v[i] = three[i]
    BY <1>1, <1>6
  <2> QED BY <1>1, <1>6, <2>1, SeqEqual
<1> QED BY <1>7, <1>8 DEF p, ps, pu, q, v, two, three

(* A message and the answer.                                               *)
LEMMA AskRuns ==
    ASSUME NEW s \in Streams, NEW m \in {"suspend", "resume", "unlink"},
           NEW b \in SUBSET Facts, NEW c \in SUBSET Facts, NEW e \in SUBSET Facts,
           Tells(b, S(m, s), c), Tells(c, S("wait", s), e)
    PROVE  Runs(MainMoves, Ask(m, s), b, e)
<1> DEFINE r == S(m, s) w == S("wait", s)
<1>1. r \in Steps /\ w \in Steps
    BY StreamSteps DEF Asks
<1> HIDE DEF r, w
<1>2. <<b, r, c>> \in MainMoves /\ <<c, w, e>> \in MainMoves
    BY <1>1, MainMoveIs DEF r, w
<1>3. Runs(MainMoves, <<r, w>>, b, e)
    BY <1>1, <1>2, RunsTwo
<1> QED BY <1>3 DEF Ask, r, w

LEMMA StateAsked ==
    ASSUME NEW s \in Streams, NEW m \in {"suspend", "resume"}
    PROVE  Runs(MainMoves, Ask(m, s), {Rest, Alive(s)}, {Rest})
<1> DEFINE b == {Rest, Alive(s)} c == {Asked(s)} e == {Rest}
<1>1. b \in SUBSET Facts /\ c \in SUBSET Facts /\ e \in SUBSET Facts
    BY FactsOf
<1>2. /\ S(m, s).do = m /\ S(m, s).on = s
      /\ S("wait", s).do = "wait" /\ S("wait", s).on = s
    BY DEF S
<1>3. Tells(b, S(m, s), c)
    BY <1>2 DEF Tells, TellsAny
<1>4. Tells(c, S("wait", s), e)
    BY <1>2 DEF Tells, TellsAny
<1> HIDE DEF b, c, e
<1>5. Runs(MainMoves, Ask(m, s), b, e)
    BY <1>1, <1>3, <1>4, AskRuns
<1> QED BY <1>5 DEF b, e

LEMMA UnlinkAsked ==
    ASSUME NEW s \in Streams, NEW e \in SUBSET Facts,
           e \subseteq {Rest, Gone(s)} \cup (IF s = "in" THEN {Calm} ELSE {})
    PROVE  Runs(MainMoves, Ask("unlink", s), {Rest, Alive(s)}, e)
<1> DEFINE b == {Rest, Alive(s)}
           c == {Asked(s), Leaving(s)} \cup (IF s = "in" THEN {Halting} ELSE {})
<1>1. b \in SUBSET Facts /\ c \in SUBSET Facts
    BY FactsOf
<1>2. /\ S("unlink", s).do = "unlink" /\ S("unlink", s).on = s
      /\ S("wait", s).do = "wait" /\ S("wait", s).on = s
    BY DEF S
<1>3. Tells(b, S("unlink", s), c)
    BY <1>2 DEF Tells, TellsAny
<1>4. Tells(c, S("wait", s), e)
    BY <1>2 DEF Tells, TellsAny
<1> HIDE DEF b, c
<1>5. Runs(MainMoves, Ask("unlink", s), b, e)
    BY <1>1, <1>3, <1>4, AskRuns
<1> QED BY <1>5 DEF b

LEMMA SuspendAsked ==
    Runs(MainMoves, Ask("suspend", "in"), {Rest, Alive("in")}, {Rest, Alive("in"), Calm})
<1> DEFINE s == "in" b == {Rest, Alive(s)} c == {Asked(s), Alive(s), Halting}
           e == {Rest, Alive(s), Calm}
<1>1. s \in Streams /\ b \in SUBSET Facts /\ c \in SUBSET Facts /\ e \in SUBSET Facts
    BY FactsOf DEF Streams
<1>2. /\ S("suspend", s).do = "suspend" /\ S("suspend", s).on = s
      /\ S("wait", s).do = "wait" /\ S("wait", s).on = s
    BY DEF S
<1>3. Tells(b, S("suspend", s), c)
    BY <1>1, <1>2 DEF Tells, TellsAny
<1>4. Tells(c, S("wait", s), e)
    BY <1>1, <1>2 DEF Tells, TellsAny
<1> HIDE DEF b, c, e
<1>5. Runs(MainMoves, Ask("suspend", s), b, e)
    BY <1>1, <1>3, <1>4, AskRuns
<1> QED BY <1>5 DEF b, e

(* The handlers.                                                           *)
LEMMA OpenOutputRuns ==
    ASSUME NEW o \in Outputs
    PROVE  Runs(MainMoves, <<S("lock", "hw"), S("open", o), S("route", Primary)>> \o
                           Under("hw", <<S("volume", o)>>) \o <<S("running", o)>>,
                {Rest, Closed(o), Gone(o)}, {Rest})
<1> DEFINE b == {Rest, Closed(o), Gone(o)} c == {Rest, Open(o), Gone(o)} e == {Rest}
           p == <<S("lock", "hw"), S("open", o), S("route", Primary)>>
           q == Under("hw", <<S("volume", o)>>)
           r == <<S("running", o)>>
<1>1. /\ o \in Streams /\ Primary \in Outputs /\ "hw" \in Mutexes
      /\ b \in SUBSET Facts /\ c \in SUBSET Facts /\ e \in SUBSET Facts /\ Rest \notin Of(o)
    BY LocksAssumption, FactsOf DEF Streams, Mutexes
<1>2. Runs(MainMoves, <<S("open", o)>>, b, c)
  <2>1. {Closed(o), Gone(o), Rest} \subseteq b /\ c \subseteq (b \ Of(o)) \cup {Open(o), Gone(o)}
    BY <1>1
  <2> HIDE DEF b, c
  <2> QED BY <1>1, <2>1, OpenOutputTells
<1>3. Runs(MainMoves, <<S("route", Primary)>>, c, c)
  <2> HIDE DEF c
  <2> QED BY <1>1, OutputTells
<1>4. Runs(MainMoves, <<S("volume", o)>>, c, c)
  <2>1. Open(o) \in c
    OBVIOUS
  <2> HIDE DEF c
  <2> QED BY <1>1, <2>1, OutputTells
<1>5. Runs(MainMoves, r, c, e)
  <2>1. Open(o) \in c /\ Gone(o) \in c /\ e \subseteq c \ Of(o)
    BY <1>1
  <2> HIDE DEF c, e
  <2> QED BY <1>1, <2>1, OutputTells
<1> HIDE DEF b, c, e, r
<1>6. Runs(MainMoves, q, c, c)
    BY <1>1, <1>4, MainSection
<1> HIDE DEF q
<1>7. Runs(MainMoves, p, b, c)
  <2>1. <<b, S("lock", "hw"), b>> \in MainMoves /\ S("lock", "hw") \in Steps
    BY <1>1, MainLocks, LockSteps
  <2>2. Runs(MainMoves, <<S("lock", "hw")>>, b, b)
    BY <2>1, RunsOne
  <2>3. Runs(MainMoves, <<S("lock", "hw")>> \o <<S("open", o)>>, b, c)
    BY <1>2, <2>2, RunsJoin
  <2>4. Runs(MainMoves, (<<S("lock", "hw")>> \o <<S("open", o)>>) \o <<S("route", Primary)>>, b, c)
    BY <1>3, <2>3, RunsJoin
  <2>5. (<<S("lock", "hw")>> \o <<S("open", o)>>) \o <<S("route", Primary)>> = p
    BY InOrder
  <2> HIDE DEF p
  <2> QED BY <2>4, <2>5
<1> HIDE DEF p
<1>8. Runs(MainMoves, (p \o q) \o r, b, e)
  <2>1. Runs(MainMoves, p \o q, b, c)
    BY <1>6, <1>7, RunsJoin
  <2> QED BY <1>5, <2>1, RunsJoin
<1> QED BY <1>8 DEF b, e, p, q, r

LEMMA CloseOutputRuns ==
    ASSUME NEW o \in Outputs
    PROVE  Runs(MainMoves, Ask("unlink", o) \o Under("output", <<S("close", o)>>),
                {Rest, Alive(o)}, {Rest})
<1> DEFINE b == {Rest, Alive(o)} c == {Rest, Gone(o)} e == {Rest}
<1>1. /\ o \in Streams /\ "output" \in Mutexes /\ b \in SUBSET Facts /\ c \in SUBSET Facts
      /\ e \in SUBSET Facts /\ Rest \notin Of(o) /\ e \subseteq c \ Of(o) /\ Gone(o) \in c
    BY FactsOf DEF Streams, Mutexes
<1>2. Runs(MainMoves, Ask("unlink", o), b, c)
    BY <1>1, UnlinkAsked
<1> HIDE DEF b, c, e
<1>3. Runs(MainMoves, <<S("close", o)>>, c, e)
    BY <1>1, OutputTells
<1>4. Runs(MainMoves, Under("output", <<S("close", o)>>), c, e)
    BY <1>1, <1>3, MainSection
<1>5. Runs(MainMoves, Ask("unlink", o) \o Under("output", <<S("close", o)>>), b, e)
    BY <1>2, <1>4, RunsJoin
<1> QED BY <1>5 DEF b, e

LEMMA RouteRuns ==
    ASSUME NEW o \in Outputs
    PROVE  Runs(MainMoves, SetRoute(o), {Rest, Open(o)}, {Rest}) \/
           Runs(MainMoves, SetRoute(o), {Rest}, {Rest})
<1> DEFINE b == {Rest, Open(o)} e == {Rest}
<1>1. /\ o \in Streams /\ MutexOf(o) \in Mutexes /\ b \in SUBSET Facts
      /\ e \in SUBSET Facts /\ e \subseteq b /\ Open(o) \in b
    BY FactsOf DEF Streams, Mutexes, MutexOf
<1> HIDE DEF b, e
<1>2. Runs(MainMoves, <<S("use", o)>>, b, b)
    BY <1>1, OutputTells
<1>3. Runs(MainMoves, Under(MutexOf(o), <<S("use", o)>>), b, e)
    BY <1>1, <1>2, MainSection
<1>4. Runs(MainMoves, <<>>, e, e)
    BY RunsNone
<1> QED BY <1>3, <1>4 DEF SetRoute, b, e

LEMMA NewSourceRuns ==
    Runs(MainMoves, <<S("opening", "in"), S("created", "in")>>, {Rest, Calm, Gone("in")}, {Rest})
<1> DEFINE b == {Rest, Calm, Gone("in")} e == {Rest} p == <<S("opening", "in")>> q == <<S("created", "in")>>
<1>1. /\ b \in SUBSET Facts /\ e \in SUBSET Facts /\ Calm \in b /\ Gone("in") \in b
      /\ b \subseteq b \ {Open("in"), Closed("in")} /\ e \subseteq b \ Of("in")
    BY FactsOf DEF Streams
<1> HIDE DEF b, e
<1>2. Runs(MainMoves, p, b, b)
    BY <1>1, InputTells
<1>3. Runs(MainMoves, q, b, e)
    BY <1>1, InputTells
<1> HIDE DEF p, q
<1>4. Runs(MainMoves, p \o q, b, e)
    BY <1>2, <1>3, RunsJoin
<1>5. p \o q = <<S("opening", "in"), S("created", "in")>>
    BY InOrder DEF p, q
<1>6. Runs(MainMoves, <<S("opening", "in"), S("created", "in")>>, b, e)
    BY <1>4, <1>5
<1> QED BY <1>6 DEF b, e

LEMMA FreeSourceRuns ==
    Runs(MainMoves, Ask("unlink", "in") \o <<S("closing", "in")>>, {Rest, Alive("in")}, {Rest})
<1> DEFINE b == {Rest, Alive("in")} c == {Rest, Calm} e == {Rest}
<1>1. /\ "in" \in Streams /\ c \in SUBSET Facts /\ e \in SUBSET Facts /\ Calm \in c
      /\ e \subseteq c \ {Open("in"), Closed("in")}
    BY FactsOf DEF Streams
<1>2. Runs(MainMoves, Ask("unlink", "in"), b, c)
    BY <1>1, UnlinkAsked
<1> HIDE DEF b, c, e
<1>3. Runs(MainMoves, <<S("closing", "in")>>, c, e)
    BY <1>1, InputTells
<1>4. Runs(MainMoves, Ask("unlink", "in") \o <<S("closing", "in")>>, b, e)
    BY <1>2, <1>3, RunsJoin
<1> QED BY <1>4 DEF b, e

(* Routing and reopening the stream, when its thread leaves it alone.      *)
LEMMA ReopenRuns ==
    ASSUME NEW p \in {<<>>, <<S("route", "in")>>}, NEW b \in SUBSET Facts, NEW e \in SUBSET Facts,
           Calm \in b, b \subseteq b \ {Open("in"), Closed("in")}, e \subseteq b
    PROVE  Runs(MainMoves, p, b, b) /\ Runs(MainMoves, Reopen, b, e)
<1>1. Runs(MainMoves, <<S("route", "in")>>, b, b)
    BY InputTells
<1>2. Runs(MainMoves, p, b, b)
    BY <1>1, RunsNone
<1> DEFINE c == <<S("closing", "in")>> o == <<S("opening", "in")>>
<1>3. e \subseteq b \ {Open("in"), Closed("in")}
    OBVIOUS
<1>4. Runs(MainMoves, c, b, b) /\ Runs(MainMoves, o, b, b)
    BY InputTells
<1>5. Runs(MainMoves, o, b, e)
    BY <1>3, InputTells
<1>6. (c \o o) \o o = Reopen
    BY InOrder DEF Reopen
<1> HIDE DEF c, o
<1>7. Runs(MainMoves, c \o o, b, b)
    BY <1>4, RunsJoin
<1>8. Runs(MainMoves, (c \o o) \o o, b, e)
    BY <1>5, <1>7, RunsJoin
<1>9. Runs(MainMoves, Reopen, b, e)
    BY <1>6, <1>8
<1> QED BY <1>2, <1>9

LEMMA ReconfigureRuns ==
    ASSUME NEW p \in {<<>>, <<S("route", "in")>>}
    PROVE  /\ Runs(MainMoves, Ask("suspend", "in") \o p \o Reopen \o Ask("resume", "in"),
                   {Rest, Alive("in")}, {Rest})
           /\ Runs(MainMoves, p \o Reopen, {Rest, Calm}, {Rest})
<1> DEFINE b == {Rest, Alive("in")} c == {Rest, Alive("in"), Calm} d == {Rest, Calm} e == {Rest}
           a == Ask("suspend", "in") q == Reopen r == Ask("resume", "in")
<1>1. /\ "in" \in Streams /\ b \in SUBSET Facts /\ c \in SUBSET Facts /\ d \in SUBSET Facts
      /\ e \in SUBSET Facts /\ Calm \in c /\ Calm \in d /\ b \subseteq c /\ e \subseteq d
      /\ c \subseteq c \ {Open("in"), Closed("in")} /\ d \subseteq d \ {Open("in"), Closed("in")}
    BY FactsOf DEF Streams
<1>2. Runs(MainMoves, a, b, c)
    BY SuspendAsked
<1>3. Runs(MainMoves, r, b, e)
    BY <1>1, StateAsked
<1> HIDE DEF a, b, c, d, e, r
<1>4. Runs(MainMoves, p, c, c) /\ Runs(MainMoves, q, c, b)
    BY <1>1, ReopenRuns
<1>5. Runs(MainMoves, p, d, d) /\ Runs(MainMoves, q, d, e)
    BY <1>1, ReopenRuns
<1> HIDE DEF q
<1>6. Runs(MainMoves, a \o p, b, c)
    BY <1>2, <1>4, RunsJoin
<1>7. Runs(MainMoves, (a \o p) \o q, b, b)
    BY <1>4, <1>6, RunsJoin
<1>8. Runs(MainMoves, ((a \o p) \o q) \o r, b, e)
    BY <1>3, <1>7, RunsJoin
<1>9. Runs(MainMoves, p \o q, d, e)
    BY <1>5, RunsJoin
<1> QED BY <1>8, <1>9 DEF a, b, d, e, q, r

LEMMA CallRuns ==
    ASSUME NEW early \in {<<>>, <<S("route", Primary)>>}
    PROVE  /\ Runs(MainMoves, Under("hw", <<S("hal", "hw")>>), {Rest}, {Rest})
           /\ Runs(MainMoves, early \o Under("hw", <<S("hal", "hw"), S("route", Primary)>>), {Rest}, {Rest})
<1> DEFINE e == {Rest} h == S("hal", "hw")
<1>1. e \in SUBSET Facts /\ Primary \in Outputs /\ "hw" \in Mutexes
    BY LocksAssumption, FactsOf DEF Streams, Mutexes
<1>2. h \in Steps /\ h.do = "hal"
    BY DEF S, Steps, StepsOf
<1> HIDE DEF e, h
<1>3. <<e, h, e>> \in MainMoves
    BY <1>1, <1>2, MainMoveIs DEF Tells
<1>4. Runs(MainMoves, <<h>>, e, e)
    BY <1>2, <1>3, RunsOne
<1>5. Runs(MainMoves, <<S("route", Primary)>>, e, e)
    BY <1>1, OutputTells
<1>6. Runs(MainMoves, <<h>> \o <<S("route", Primary)>>, e, e)
    BY <1>4, <1>5, RunsJoin
<1>7. Runs(MainMoves, <<h, S("route", Primary)>>, e, e)
    BY <1>6, InOrder
<1>8. Runs(MainMoves, Under("hw", <<h>>), e, e)
    BY <1>1, <1>4, MainSection
<1>9. Runs(MainMoves, Under("hw", <<h, S("route", Primary)>>), e, e)
    BY <1>1, <1>7, MainSection
<1>10. Runs(MainMoves, early, e, e)
    BY <1>5, RunsNone
<1>11. Runs(MainMoves, early \o Under("hw", <<h, S("route", Primary)>>), e, e)
    BY <1>9, <1>10, RunsJoin
<1> QED BY <1>8, <1>11 DEF e, h

-----------------------------------------------------------------------------
(* What a step leaves as it was.                                           *)

LEMMA SameMoves ==
    ASSUME option' = option
    PROVE  /\ Private' = Private /\ MainMoves' = MainMoves
           /\ \A s : Guarded(s)' = Guarded(s) /\ IoMoves(s)' = IoMoves(s)
BY DEF Private, MainMoves, Tells, TellsAny, TellsOutput, TellsInput, Guarded, IoMoves, Minds, MindsAny,
       MindsOutput, MindsInput

(* A step leaves what the thread of s does and sees.                       *)
Untouched(s) ==
    /\ todo'[s] = todo[s] /\ run'[s] = run[s] /\ stream'[s].open = stream[s].open
    /\ s = "in" => valid' = valid

LEMMA NotedSame ==
    ASSUME option' = option, NEW s, run'[s] = run[s], stream'[s].open = stream[s].open,
           s = "in" => valid' = valid
    PROVE  \A n : Noted(s, n)' = Noted(s, n)
BY SameMoves DEF Noted

LEMMA LeadsSame ==
    ASSUME option' = option, NEW s, Untouched(s)
    PROVE  \A e : Leads(s, e) => Leads(s, e)'
<1> SUFFICES ASSUME NEW e, Leads(s, e) PROVE Leads(s, e)'
    OBVIOUS
<1>1. PICK b \in SUBSET Notes : (\A n \in b : Noted(s, n)) /\ Runs(IoMoves(s), todo[s], b, e)
    BY DEF Leads
<1>2. \A n \in b : Noted(s, n)'
    BY <1>1, NotedSame DEF Untouched
<1>3. IoMoves(s)' = IoMoves(s) /\ todo'[s] = todo[s]
    BY SameMoves DEF Untouched
<1>4. Runs(IoMoves(s), todo[s], b, e)'
    BY <1>1, <1>3 DEF Runs, Path
<1> QED BY <1>1, <1>2, <1>4 DEF Leads

LEMMA SettledSame ==
    ASSUME option' = option, NEW s, Untouched(s), Settled(s)
    PROVE  Settled(s)'
BY LeadsSame DEF Settled, Idle, Untouched

(* The idle thread leads to what is so.                                    *)
LEMMA IdleLeads ==
    ASSUME NEW s, Idle(s), NEW e \in SUBSET Notes
    PROVE  Leads(s, e) <=> \A n \in e : Noted(s, n)
<1>1. ASSUME Leads(s, e) PROVE \A n \in e : Noted(s, n)
  <2>1. PICK b \in SUBSET Notes : (\A n \in b : Noted(s, n)) /\ Runs(IoMoves(s), <<>>, b, e)
    BY <1>1 DEF Leads, Idle
  <2> QED BY <2>1, RunsEnd
<1>2. ASSUME \A n \in e : Noted(s, n) PROVE Leads(s, e)
  <2>1. Runs(IoMoves(s), todo[s], e, e)
    BY RunsNone DEF Idle
  <2> QED BY <1>2, <2>1 DEF Leads
<1> QED BY <1>1, <1>2

(* Facts about other streams than s.                                       *)
LEMMA KnownSame ==
    ASSUME option' = option, NEW s \in Streams, \A u \in Streams \ {s} : Untouched(u),
           Settled(s) => Settled(s)', NEW f \in Facts \ Of(s), Known(f)
    PROVE  Known(f)'
<1>1. \A u \in Streams \ {s} : \A e : Leads(u, e) => Leads(u, e)'
    BY LeadsSame
<1>2. \A u \in Streams : Settled(u) => Settled(u)'
    BY SettledSame
<1>3. Private' = Private /\ \A u : Guarded(u)' = Guarded(u)
    BY SameMoves
<1>4. CASE f = Rest
    BY <1>2, <1>4 DEF Known, Rest
<1>5. CASE f \in {Calm, Halting}
  <2>1. s # "in" /\ "in" \in Streams
    BY <1>5 DEF Of, Calm, Halting, Facts, Streams
  <2>2. Untouched("in") /\ \A e : Leads("in", e) => Leads("in", e)'
    BY <1>1, <2>1
  <2>3. Quietly => Quietly'
    BY <1>3, <2>2 DEF Quietly, Untouched, Idle
  <2> QED BY <1>3, <1>5, <2>2, <2>3 DEF Known, Calm, Halting
<1>6. ASSUME NEW k \in {"gone", "leaving", "alive", "open", "closed", "asked"}, NEW u \in Streams, f = <<k, u>>
      PROVE  Known(f)'
  <2>1. f[1] = k /\ f[2] = u /\ u # s
    BY <1>6 DEF Of, Facts
  <2>2. Untouched(u) /\ (\A e : Leads(u, e) => Leads(u, e)') /\ Guarded(u)' = Guarded(u)
    BY <1>1, <1>3, <2>1
  <2>3. u = "in" => (Quietly => Quietly')
    BY <1>3, <2>2 DEF Quietly, Untouched, Idle
  <2>4. CASE k = "gone"
    BY <2>1, <2>2, <2>4 DEF Known, Untouched, Idle
  <2>5. CASE k = "leaving"
    BY <2>1, <2>2, <2>5 DEF Known
  <2>6. CASE k = "alive"
    BY <2>1, <2>2, <2>6 DEF Known
  <2>7. CASE k \in {"open", "closed"}
    BY <2>1, <2>2, <2>3, <2>7 DEF Known, Untouched
  <2>8. CASE k = "asked"
    BY <1>2, <2>1, <2>8 DEF Known
  <2> QED BY <2>4, <2>5, <2>6, <2>7, <2>8
<1> QED BY <1>4, <1>5, <1>6 DEF Facts

(* Nothing that facts are about changes.                                   *)
LEMMA KnownStays ==
    ASSUME option' = option, \A u \in Streams : Untouched(u), NEW f \in Facts, Known(f)
    PROVE  Known(f)'
<1>1. CASE f \in {Calm, Halting, Rest}
  <2>1. "in" \in Streams /\ Private' = Private
    BY SameMoves DEF Streams
  <2>2. (\A e : Leads("in", e) => Leads("in", e)') /\ (Quietly => Quietly')
    BY <2>1, LeadsSame DEF Quietly, Untouched, Idle
  <2>3. \A u \in Streams : Settled(u) => Settled(u)'
    BY SettledSame
  <2> QED BY <1>1, <2>1, <2>2, <2>3 DEF Known, Calm, Halting, Rest
<1>2. ASSUME NEW k \in {"gone", "leaving", "alive", "open", "closed", "asked"}, NEW u \in Streams, f = <<k, u>>
      PROVE  Known(f)'
  <2>1. f[1] = k /\ f[2] = u
    BY <1>2
  <2>2. Untouched(u) /\ (\A e : Leads(u, e) => Leads(u, e)') /\ Guarded(u)' = Guarded(u)
    BY LeadsSame, SameMoves
  <2>3. u = "in" => (Quietly => Quietly')
    BY <2>2, SameMoves DEF Quietly, Untouched, Idle
  <2>4. \A v \in Streams : Settled(v) => Settled(v)'
    BY SettledSame
  <2> QED BY <2>1, <2>2, <2>3, <2>4 DEF Known, Untouched, Idle
<1> QED BY <1>1, <1>2 DEF Facts

-----------------------------------------------------------------------------
(* The steps of an IO thread's own handlers.                               *)

LEMMA IoRuns ==
    ASSUME NEW s \in Streams, NEW do \in Quiet \cup Touches \cup Asks,
           NEW b \in SUBSET Notes, NEW e \in SUBSET Notes, Minds(s, b, S(do, s), e)
    PROVE  Runs(IoMoves(s), <<S(do, s)>>, b, e)
<1> DEFINE r == S(do, s)
<1>1. r \in Steps
    BY StreamSteps
<1> HIDE DEF r
<1>2. <<b, r, e>> \in IoMoves(s)
    BY <1>1, IoMoveIs DEF r
<1>3. Runs(IoMoves(s), <<r>>, b, e)
    BY <1>1, <1>2, RunsOne
<1> QED BY <1>3 DEF r

LEMMA IoLocks ==
    ASSUME NEW s, NEW m \in Mutexes, NEW b \in SUBSET Notes, NEW e \in SUBSET Notes,
           "on" \in b, e \subseteq b
    PROVE  <<b, S("lock", m), e>> \in IoMoves(s) /\ <<b, S("unlock", m), e>> \in IoMoves(s)
<1> DEFINE l == S("lock", m) u == S("unlock", m)
<1>1. l \in Steps /\ u \in Steps /\ l.do = "lock" /\ u.do = "unlock"
    BY LockSteps
<1> HIDE DEF l, u
<1>2. Minds(s, b, l, e) /\ Minds(s, b, u, e)
    BY <1>1 DEF Minds
<1>3. <<b, l, e>> \in IoMoves(s) /\ <<b, u, e>> \in IoMoves(s)
    BY <1>1, <1>2, IoMoveIs
<1> QED BY <1>3 DEF l, u

LEMMA IoSection ==
    ASSUME NEW s, NEW m \in Mutexes, NEW p, NEW b \in SUBSET Notes, NEW c \in SUBSET Notes,
           NEW e \in SUBSET Notes, "on" \in b, "on" \in c, e \subseteq c, Runs(IoMoves(s), p, b, c)
    PROVE  Runs(IoMoves(s), Under(m, p), b, e)
<1>1. <<b, S("lock", m), b>> \in IoMoves(s) /\ <<c, S("unlock", m), e>> \in IoMoves(s)
    BY IoLocks
<1> QED BY <1>1, RunsSection

(* What all of them do.                                                    *)
LEMMA AnyMinds ==
    ASSUME NEW s \in Streams, NEW b \in SUBSET Notes, NEW e \in SUBSET Notes, "on" \in b
    PROVE  /\ e \subseteq b => Runs(IoMoves(s), <<S("standby", s)>>, b, e)
           /\ (Guarded(s) => "open" \in b) /\ e \subseteq b => Runs(IoMoves(s), <<S("use", s)>>, b, e)
           /\ e \subseteq (b \ {"on", "there"}) \cup {"gone", "stopped"} =>
                  Runs(IoMoves(s), <<S("none", s)>>, b, e)
           /\ (s # "in" => "open" \in b)
              /\ e \subseteq (b \ {"on", "gone"}) \cup (IF s = "in" THEN {"stopped"} ELSE {}) =>
                  Runs(IoMoves(s), <<S("suspended", s)>>, b, e)
           /\ (s # "in" => "open" \in b) /\ e \subseteq b \ {"on", "gone", "stopped"} =>
                  Runs(IoMoves(s), <<S("running", s)>>, b, e)
           /\ s # "in" /\ "open" \in b /\ e \subseteq b => Runs(IoMoves(s), <<S("volume", s)>>, b, e)
<1> DEFINE Dos == {"standby", "use", "none", "suspended", "running", "volume"}
<1>1. \A do \in Dos : S(do, s).do = do /\ S(do, s).on = s
    BY DEF S
<1>2. \A do \in Dos : Minds(s, b, S(do, s), e) => Runs(IoMoves(s), <<S(do, s)>>, b, e)
    BY IoRuns DEF Quiet, Touches
<1>3. \A do \in Dos : MindsAny(s, b, S(do, s), e) => Runs(IoMoves(s), <<S(do, s)>>, b, e)
    BY <1>1, <1>2 DEF Minds
<1>4. e \subseteq b => MindsAny(s, b, S("standby", s), e)
    BY <1>1 DEF MindsAny
<1>5. (Guarded(s) => "open" \in b) /\ e \subseteq b => MindsAny(s, b, S("use", s), e)
    BY <1>1 DEF MindsAny
<1>6. e \subseteq (b \ {"on", "there"}) \cup {"gone", "stopped"} => MindsAny(s, b, S("none", s), e)
    BY <1>1 DEF MindsAny
<1>7. (s # "in" => "open" \in b)
      /\ e \subseteq (b \ {"on", "gone"}) \cup (IF s = "in" THEN {"stopped"} ELSE {}) =>
          MindsAny(s, b, S("suspended", s), e)
    BY <1>1 DEF MindsAny
<1>8. (s # "in" => "open" \in b) /\ e \subseteq b \ {"on", "gone", "stopped"} =>
          MindsAny(s, b, S("running", s), e)
    BY <1>1 DEF MindsAny
<1>9. s # "in" /\ "open" \in b /\ e \subseteq b => Minds(s, b, S("volume", s), e)
    BY <1>1 DEF Minds, MindsOutput
<1> QED BY <1>2, <1>3, <1>4, <1>5, <1>6, <1>7, <1>8, <1>9

(* What the source's does.                                                 *)
LEMMA InputMinds ==
    ASSUME NEW b \in SUBSET Notes, NEW e \in SUBSET Notes, "on" \in b
    PROVE  /\ e \subseteq b \cup {"fit"} => Runs(IoMoves("in"), <<S("valid", "in")>>, b, e)
           /\ "fit" \in b /\ e \subseteq b => Runs(IoMoves("in"), <<S("read", "in")>>, b, e)
           /\ e \subseteq b \ {"open", "closed", "fit"} =>
                  Runs(IoMoves("in"), <<S("suspending", "in")>>, b, e)
           /\ Private /\ e \subseteq b \ {"open", "closed"} =>
                  /\ Runs(IoMoves("in"), <<S("opening", "in")>>, b, e)
                  /\ "closed" \in b => /\ Runs(IoMoves("in"), <<S("open", "in")>>, b, e)
                                       /\ Runs(IoMoves("in"), <<S("opened", "in")>>, b, e)
           /\ Private /\ e \subseteq b => /\ Runs(IoMoves("in"), <<S("handle", "in")>>, b, e)
                                          /\ Runs(IoMoves("in"), <<S("route", "in")>>, b, e)
           /\ Private /\ e \subseteq b \ {"open", "closed", "fit"} =>
                  Runs(IoMoves("in"), <<S("close", "in")>>, b, e)
<1> DEFINE Dos == {"valid", "read", "suspending", "opening", "open", "opened", "handle", "route", "close"}
<1>1. "in" \in Streams
    BY DEF Streams
<1>2. \A do \in Dos : S(do, "in").do = do /\ S(do, "in").on = "in"
    BY DEF S
<1>3. \A do \in Dos : Minds("in", b, S(do, "in"), e) => Runs(IoMoves("in"), <<S(do, "in")>>, b, e)
    BY <1>1, IoRuns DEF Quiet, Touches
<1>4. \A do \in Dos : MindsInput(b, S(do, "in"), e) => Runs(IoMoves("in"), <<S(do, "in")>>, b, e)
    BY <1>2, <1>3 DEF Minds
<1>5. e \subseteq b \cup {"fit"} => MindsInput(b, S("valid", "in"), e)
    BY <1>2 DEF MindsInput
<1>6. "fit" \in b /\ e \subseteq b => MindsInput(b, S("read", "in"), e)
    BY <1>2 DEF MindsInput
<1>7. e \subseteq b \ {"open", "closed", "fit"} => MindsInput(b, S("suspending", "in"), e)
    BY <1>2 DEF MindsInput
<1>8. Private /\ e \subseteq b \ {"open", "closed"} => MindsInput(b, S("opening", "in"), e)
    BY <1>2 DEF MindsInput
<1>9. Private /\ e \subseteq b \ {"open", "closed"} /\ "closed" \in b =>
          MindsInput(b, S("open", "in"), e) /\ MindsInput(b, S("opened", "in"), e)
    BY <1>2 DEF MindsInput
<1>10. Private /\ e \subseteq b => MindsInput(b, S("handle", "in"), e) /\ MindsInput(b, S("route", "in"), e)
    BY <1>2 DEF MindsInput
<1>11. Private /\ e \subseteq b \ {"open", "closed", "fit"} => MindsInput(b, S("close", "in"), e)
    BY <1>2 DEF MindsInput
<1> QED BY <1>4, <1>5, <1>6, <1>7, <1>8, <1>9, <1>10, <1>11

(* Sections that use the stream.                                           *)
LEMMA UseSection ==
    ASSUME NEW s \in Streams, NEW b \in SUBSET Notes, NEW e \in SUBSET Notes, "on" \in b,
           Guarded(s) => "open" \in b, e \subseteq b
    PROVE  Runs(IoMoves(s), Under(MutexOf(s), <<S("use", s)>>), b, e)
<1>1. MutexOf(s) \in Mutexes
    BY DEF Mutexes, MutexOf
<1>2. Runs(IoMoves(s), <<S("use", s)>>, b, b)
    BY AnyMinds
<1> QED BY <1>1, <1>2, IoSection

LEMMA CloseSection ==
    ASSUME NEW b \in SUBSET Notes, NEW e \in SUBSET Notes, Private, "on" \in b, "open" \in b,
           e \subseteq b \ {"open", "closed", "fit"}
    PROVE  Runs(IoMoves("in"), Under("input", <<S("use", "in"), S("close", "in")>>), b, e)
<1> DEFINE c == b \ {"open", "closed", "fit"} u == <<S("use", "in")>> p == <<S("close", "in")>>
<1>1. c \in SUBSET Notes /\ c \subseteq b \ {"open", "closed", "fit"} /\ "on" \in c /\ e \subseteq c
    OBVIOUS
<1>2. "in" \in Streams /\ "input" \in Mutexes
    BY DEF Streams, Mutexes
<1> HIDE DEF c
<1>3. Runs(IoMoves("in"), u, b, b)
    BY <1>2, AnyMinds
<1>4. Runs(IoMoves("in"), p, b, c)
    BY <1>1, InputMinds
<1>5. u \o p = <<S("use", "in"), S("close", "in")>>
    BY InOrder
<1> HIDE DEF u, p
<1>6. Runs(IoMoves("in"), u \o p, b, c)
    BY <1>3, <1>4, RunsJoin
<1>7. Runs(IoMoves("in"), <<S("use", "in"), S("close", "in")>>, b, c)
    BY <1>5, <1>6
<1> QED BY <1>1, <1>2, <1>7, IoSection

LEMMA MindsParts ==
    ASSUME NEW s, NEW b, NEW r, NEW c, Minds(s, b, r, c)
    PROVE  /\ "on" \in b
           /\ r.do \notin {"lock", "unlock"} => r.on = s
           /\ r.do \notin {"hal", "closing", "created", "suspend", "resume", "unlink", "wait"}
           /\ r.do \in {"valid", "read", "suspending", "opening", "open", "opened", "handle", "route", "close"}
                  => s = "in"
           /\ r.do \in {"opening", "open", "opened", "handle", "route", "close"} => Private
           /\ r.do \in {"lock", "unlock", "standby", "use", "volume", "read", "handle", "route"}
                  => c \subseteq b
           /\ r.do = "use" => (Guarded(s) => "open" \in b)
           /\ r.do = "volume" => "open" \in b
           /\ r.do = "read" => "fit" \in b
           /\ r.do \in {"suspended", "running"} => (s # "in" => "open" \in b)
           /\ r.do = "none" => c \subseteq (b \ {"on", "there"}) \cup {"gone", "stopped"}
           /\ r.do = "suspended" => c \subseteq (b \ {"on", "gone"}) \cup (IF s = "in" THEN {"stopped"} ELSE {})
           /\ r.do = "running" => c \subseteq b \ {"on", "gone", "stopped"}
           /\ r.do = "valid" => c \subseteq b \cup {"fit"}
           /\ r.do \in {"suspending", "close"} => c \subseteq b \ {"open", "closed", "fit"}
           /\ r.do \in {"opening", "open", "opened"} => c \subseteq b \ {"open", "closed"}
           /\ r.do \in {"open", "opened"} => "closed" \in b
<1>1. /\ "on" \in b
      /\ r.do \notin {"lock", "unlock"} => r.on = s
      /\ r.do \notin {"hal", "closing", "created", "suspend", "resume", "unlink", "wait"}
    BY DEF Minds, MindsAny, MindsOutput, MindsInput
<1>2. /\ r.do \in {"valid", "read", "suspending", "opening", "open", "opened", "handle", "route", "close"}
             => s = "in"
      /\ r.do \in {"opening", "open", "opened", "handle", "route", "close"} => Private
    BY DEF Minds, MindsAny, MindsOutput, MindsInput
<1>3. r.do \in {"lock", "unlock", "standby", "use", "volume", "read", "handle", "route"} => c \subseteq b
    BY DEF Minds, MindsAny, MindsOutput, MindsInput
<1>4. /\ r.do = "use" => (Guarded(s) => "open" \in b)
      /\ r.do = "volume" => "open" \in b
      /\ r.do = "read" => "fit" \in b
      /\ r.do \in {"suspended", "running"} => (s # "in" => "open" \in b)
      /\ r.do \in {"open", "opened"} => "closed" \in b
    BY DEF Minds, MindsAny, MindsOutput, MindsInput
<1>5. /\ r.do = "none" => c \subseteq (b \ {"on", "there"}) \cup {"gone", "stopped"}
      /\ r.do = "suspended" => c \subseteq (b \ {"on", "gone"}) \cup (IF s = "in" THEN {"stopped"} ELSE {})
      /\ r.do = "running" => c \subseteq b \ {"on", "gone", "stopped"}
    BY DEF Minds, MindsAny, MindsOutput, MindsInput
<1>6. /\ r.do = "valid" => c \subseteq b \cup {"fit"}
      /\ r.do \in {"suspending", "close"} => c \subseteq b \ {"open", "closed", "fit"}
      /\ r.do \in {"opening", "open", "opened"} => c \subseteq b \ {"open", "closed"}
    BY DEF Minds, MindsAny, MindsOutput, MindsInput
<1> QED BY <1>1, <1>2, <1>3, <1>4, <1>5, <1>6

(* What the thread of s knows before and after its next step.              *)
Reads(s, b, c) ==
    /\ b \in SUBSET Notes /\ c \in SUBSET Notes
    /\ (\A n \in b : Noted(s, n)) /\ Minds(s, b, Doing(s), c)

LEMMA NextMinded ==
    ASSUME NEW s, NEW e, Leads(s, e), ~Idle(s)
    PROVE  \E b, c : Reads(s, b, c) /\ Runs(IoMoves(s), Tail(todo[s]), c, e)
<1>1. PICK b \in SUBSET Notes : (\A n \in b : Noted(s, n)) /\ Runs(IoMoves(s), todo[s], b, e)
    BY DEF Leads
<1>2. PICK c : <<b, Head(todo[s]), c>> \in IoMoves(s) /\ Runs(IoMoves(s), Tail(todo[s]), c, e)
    BY <1>1, RunsFirst DEF Idle
<1>3. c \in SUBSET Notes /\ Minds(s, b, Head(todo[s]), c)
    BY <1>2, IoMoveIs
<1> QED BY <1>1, <1>2, <1>3 DEF Reads, Doing, Idle

(* p, done instead of that step, leaves the same.                          *)
Carries(s, p) ==
    \A b, c : Reads(s, b, c) =>
        \E d \in SUBSET Notes : (\A n \in d : Noted(s, n)') /\ Runs(IoMoves(s), p, d, c)

LEMMA CarriesOn ==
    ASSUME option' = option, NEW s, NEW p, ~Idle(s), todo'[s] = p \o Tail(todo[s]), Carries(s, p)
    PROVE  \A e : Leads(s, e) => Leads(s, e)'
<1> SUFFICES ASSUME NEW e, Leads(s, e) PROVE Leads(s, e)'
    OBVIOUS
<1>1. PICK b, c : Reads(s, b, c) /\ Runs(IoMoves(s), Tail(todo[s]), c, e)
    BY NextMinded
<1>2. PICK d \in SUBSET Notes : (\A n \in d : Noted(s, n)') /\ Runs(IoMoves(s), p, d, c)
    BY <1>1 DEF Carries
<1>3. Runs(IoMoves(s), p \o Tail(todo[s]), d, e)
    BY <1>1, <1>2, RunsJoin
<1>4. Runs(IoMoves(s), todo[s], d, e)'
    BY <1>3, SameMoves DEF Runs, Path
<1> QED BY <1>2, <1>4 DEF Leads

(* A step that is done, when what is known after it is so.                 *)
LEMMA CarriesNothing ==
    ASSUME NEW s, \A b, c : Reads(s, b, c) => \A n \in c : Noted(s, n)'
    PROVE  Carries(s, <<>>)
<1> SUFFICES ASSUME NEW b, NEW c, Reads(s, b, c)
             PROVE  \E d \in SUBSET Notes : (\A n \in d : Noted(s, n)') /\ Runs(IoMoves(s), <<>>, d, c)
    BY DEF Carries
<1>1. Runs(IoMoves(s), <<>>, c, c)
    BY RunsNone
<1> QED BY <1>1 DEF Reads

(* What is seen, and then done.                                            *)
LEMMA CarriesSeen ==
    ASSUME option' = option, NEW s, NEW p, NEW x \in SUBSET Notes,
           run'[s] = run[s], stream'[s].open = stream[s].open, s = "in" => valid' = valid,
           \A n \in x : Noted(s, n),
           \A b, c : Reads(s, b, c) => Runs(IoMoves(s), p, b \cup x, c)
    PROVE  Carries(s, p)
<1> SUFFICES ASSUME NEW b, NEW c, Reads(s, b, c)
             PROVE  \E d \in SUBSET Notes : (\A n \in d : Noted(s, n)') /\ Runs(IoMoves(s), p, d, c)
    BY DEF Carries
<1>1. \A n \in b \cup x : Noted(s, n)'
    BY NotedSame DEF Reads
<1>2. b \cup x \in SUBSET Notes /\ Runs(IoMoves(s), p, b \cup x, c)
    BY DEF Reads
<1> QED BY <1>1, <1>2

-----------------------------------------------------------------------------
(* The steps of an IO thread: each leaves it what it needs for the rest.   *)

LEMMA OwnDone ==
    ASSUME LockInv, NEW t \in Threads, NEW p, Done(t, p)
    PROVE  /\ DOMAIN todo' = Threads /\ todo'[t] = p \o Tail(todo[t])
           /\ \A u \in Threads \ {t} : todo'[u] = todo[u]
BY DEF Done, LockInv, Handling

LEMMA SameHandle ==
    ASSUME TypeRest, NEW s, NEW h, stream' = [stream EXCEPT ![s].handle = h]
    PROVE  \A u \in Streams : stream'[u].open = stream[u].open
BY DEF TypeRest

LEMMA CallCarries ==
    ASSUME TypeRest, NEW s \in Streams, Lock(s) \/ Unlock(s) \/ Call(s) \/ Handle(s)
    PROVE  Carries(s, <<>>)
<1>1. /\ option' = option /\ run' = run /\ valid' = valid
      /\ stream'[s].open = stream[s].open
    BY SameHandle DEF Lock, Unlock, Call, Handle
<1>2. Doing(s).do \in {"lock", "unlock", "use", "volume", "hal", "handle"}
    BY DEF Lock, Unlock, Call, Handle, At
<1>3. \A n : Noted(s, n)' = Noted(s, n)
    BY <1>1, NotedSame
<1>4. ASSUME NEW b, NEW c, Reads(s, b, c) PROVE \A n \in c : Noted(s, n)'
    BY <1>2, <1>3, <1>4, MindsParts DEF Reads
<1> QED BY <1>4, CarriesNothing

(* Looking at the stream first.                                            *)
LEMMA StandbyCarries ==
    ASSUME NEW s \in Streams, Look(s), Doing(s).do \in {"standby", "suspending"},
           Doing(s).do = "suspending" => s = "in" /\ ~Private
    PROVE  Carries(s, Standby(s))
<1>1. option' = option /\ run' = run /\ valid' = valid /\ stream' = stream
    BY DEF Look
<1>2. \A b, c : Reads(s, b, c) => /\ b \in SUBSET Notes /\ c \in SUBSET Notes /\ "on" \in b
                                  /\ c \subseteq b /\ \A n \in b : Noted(s, n)
    BY MindsParts DEF Reads
<1>3. CASE ~stream[s].open
  <2>1. Standby(s) = <<>>
    BY <1>3 DEF Standby
  <2>2. \A n : Noted(s, n)' = Noted(s, n)
    BY <1>1, NotedSame
  <2>3. \A b, c : Reads(s, b, c) => \A n \in c : Noted(s, n)'
    BY <1>2, <2>2
  <2> QED BY <2>1, <2>3, CarriesNothing
<1>4. CASE stream[s].open
  <2>1. Standby(s) = Under(MutexOf(s), <<S("use", s)>>)
    BY <1>4 DEF Standby
  <2> DEFINE x == {"open"} p == Under(MutexOf(s), <<S("use", s)>>)
  <2>2. x \in SUBSET Notes /\ \A n \in x : Noted(s, n)
    BY <1>4 DEF Notes, Noted
  <2>3. ASSUME NEW b, NEW c, Reads(s, b, c) PROVE Runs(IoMoves(s), p, b \cup x, c)
    <3>1. b \cup x \in SUBSET Notes /\ c \in SUBSET Notes /\ "on" \in b \cup x
          /\ c \subseteq b \cup x /\ "open" \in b \cup x
        BY <1>2, <2>2, <2>3
    <3> HIDE DEF x
    <3> QED BY <3>1, UseSection
  <2> HIDE DEF x, p
  <2>4. Carries(s, p)
    BY <1>1, <2>2, <2>3, CarriesSeen
  <2> QED BY <2>1, <2>4 DEF p
<1> QED BY <1>3, <1>4

LEMMA ClosingCarries ==
    ASSUME Look("in"), Doing("in").do = "suspending", Private
    PROVE  Carries("in", CloseInput)
<1>1. option' = option /\ run' = run /\ valid' = valid /\ stream' = stream
    BY DEF Look
<1>2. \A b, c : Reads("in", b, c) =>
        /\ b \in SUBSET Notes /\ c \in SUBSET Notes /\ "on" \in b
        /\ c \subseteq b \ {"open", "closed", "fit"} /\ \A n \in b : Noted("in", n)
    BY MindsParts DEF Reads
<1>3. CASE ~stream["in"].open
  <2>1. CloseInput = <<>>
    BY <1>3 DEF CloseInput
  <2>2. \A n : Noted("in", n)' = Noted("in", n)
    BY <1>1, NotedSame
  <2>3. \A b, c : Reads("in", b, c) => \A n \in c : Noted("in", n)'
    BY <1>2, <2>2
  <2> QED BY <2>1, <2>3, CarriesNothing
<1>4. CASE stream["in"].open
  <2> DEFINE x == {"open"} p == Under("input", <<S("use", "in"), S("close", "in")>>)
  <2>1. CloseInput = p
    BY <1>4 DEF CloseInput
  <2>2. x \in SUBSET Notes /\ \A n \in x : Noted("in", n)
    BY <1>4 DEF Notes, Noted
  <2>3. ASSUME NEW b, NEW c, Reads("in", b, c) PROVE Runs(IoMoves("in"), p, b \cup x, c)
    <3>1. b \cup x \in SUBSET Notes /\ c \in SUBSET Notes /\ "on" \in b \cup x
          /\ c \subseteq (b \cup x) \ {"open", "closed", "fit"} /\ "open" \in b \cup x
        BY <1>2, <2>2, <2>3
    <3> HIDE DEF x
    <3> QED BY <3>1, CloseSection
  <2> HIDE DEF x, p
  <2>4. Carries("in", p)
    BY <1>1, <2>2, <2>3, CarriesSeen
  <2> QED BY <2>1, <2>4
<1> QED BY <1>3, <1>4

LEMMA OpeningCarries ==
    ASSUME Look("in"), Doing("in").do = "opening"
    PROVE  Carries("in", <<>>) /\ Carries("in", OpenInput)
<1>1. option' = option /\ run' = run /\ valid' = valid /\ stream' = stream
    BY DEF Look
<1>2. \A b, c : Reads("in", b, c) =>
        /\ b \in SUBSET Notes /\ c \in SUBSET Notes /\ "on" \in b /\ Private
        /\ c \subseteq b \ {"open", "closed"} /\ \A n \in b : Noted("in", n)
    BY MindsParts DEF Reads
<1>3. Carries("in", <<>>)
  <2>1. \A n : Noted("in", n)' = Noted("in", n)
    BY <1>1, NotedSame
  <2>2. \A b, c : Reads("in", b, c) => \A n \in c : Noted("in", n)'
    BY <1>2, <2>1
  <2> QED BY <2>2, CarriesNothing
<1>4. CASE stream["in"].open
    BY <1>3, <1>4 DEF OpenInput
<1>5. CASE ~stream["in"].open
  <2> DEFINE x == {"closed"} l == <<S("lock", "hw")>> o == <<S("open", "in")>>
  <2>1. OpenInput = l \o o
    BY <1>5, InOrder DEF OpenInput
  <2>2. x \in SUBSET Notes /\ \A n \in x : Noted("in", n)
    BY <1>5 DEF Notes, Noted
  <2>3. ASSUME NEW b, NEW c, Reads("in", b, c) PROVE Runs(IoMoves("in"), l \o o, b \cup x, c)
    <3>1. b \cup x \in SUBSET Notes /\ c \in SUBSET Notes /\ "on" \in b \cup x /\ Private
          /\ c \subseteq (b \cup x) \ {"open", "closed"} /\ "closed" \in b \cup x
        BY <1>2, <2>2, <2>3
    <3> HIDE DEF x
    <3>2. Runs(IoMoves("in"), o, b \cup x, c)
        BY <3>1, InputMinds
    <3>3. "hw" \in Mutexes /\ b \cup x \subseteq b \cup x
        BY DEF Mutexes
    <3>4. <<b \cup x, S("lock", "hw"), b \cup x>> \in IoMoves("in")
        BY <3>1, <3>3, IoLocks
    <3>5. S("lock", "hw") \in Steps
        BY <3>3, LockSteps
    <3>6. Runs(IoMoves("in"), l, b \cup x, b \cup x)
        BY <3>4, <3>5, RunsOne
    <3> HIDE DEF l, o
    <3> QED BY <3>2, <3>6, RunsJoin
  <2> HIDE DEF x, l, o
  <2>4. Carries("in", l \o o)
    BY <1>1, <2>2, <2>3, CarriesSeen
  <2> QED BY <1>3, <2>1, <2>4
<1> QED BY <1>3, <1>4, <1>5

LEMMA RouteCarries ==
    ASSUME Look("in"), Doing("in").do = "route"
    PROVE  Carries("in", IF stream["in"].open THEN SetRoute("in") ELSE <<>>)
<1>1. option' = option /\ run' = run /\ valid' = valid /\ stream' = stream
    BY DEF Look
<1>2. \A b, c : Reads("in", b, c) => /\ b \in SUBSET Notes /\ c \in SUBSET Notes /\ "on" \in b
                                     /\ c \subseteq b /\ \A n \in b : Noted("in", n)
    BY MindsParts DEF Reads
<1>3. Carries("in", <<>>)
  <2>1. \A n : Noted("in", n)' = Noted("in", n)
    BY <1>1, NotedSame
  <2>2. \A b, c : Reads("in", b, c) => \A n \in c : Noted("in", n)'
    BY <1>2, <2>1
  <2> QED BY <2>2, CarriesNothing
<1>4. ASSUME stream["in"].open, "legacy" \in option
      PROVE  Carries("in", Under(MutexOf("in"), <<S("use", "in")>>))
  <2> DEFINE x == {"open"} p == Under(MutexOf("in"), <<S("use", "in")>>)
  <2>1. x \in SUBSET Notes /\ (\A n \in x : Noted("in", n)) /\ "in" \in Streams
    BY <1>4 DEF Notes, Noted, Streams
  <2>2. ASSUME NEW b, NEW c, Reads("in", b, c) PROVE Runs(IoMoves("in"), p, b \cup x, c)
    <3>1. b \cup x \in SUBSET Notes /\ c \in SUBSET Notes /\ "on" \in b \cup x
          /\ c \subseteq b \cup x /\ "open" \in b \cup x
        BY <1>2, <2>1, <2>2
    <3> HIDE DEF x
    <3> QED BY <2>1, <3>1, UseSection
  <2> HIDE DEF x, p
  <2>3. Carries("in", p)
    BY <1>1, <2>1, <2>2, CarriesSeen
  <2> QED BY <2>3 DEF p
<1> QED BY <1>3, <1>4 DEF SetRoute

LEMMA ReadCarries ==
    ASSUME Look("in"), Doing("in").do = "read"
    PROVE  Carries("in", IF valid THEN <<S("use", "in")>> ELSE <<>>)
<1>1. option' = option /\ run' = run /\ valid' = valid /\ stream' = stream
    BY DEF Look
<1>2. \A b, c : Reads("in", b, c) => /\ b \in SUBSET Notes /\ c \in SUBSET Notes /\ "on" \in b
                                     /\ "fit" \in b /\ c \subseteq b /\ \A n \in b : Noted("in", n)
    BY MindsParts DEF Reads
<1>3. Carries("in", <<>>)
  <2>1. \A n : Noted("in", n)' = Noted("in", n)
    BY <1>1, NotedSame
  <2>2. \A b, c : Reads("in", b, c) => \A n \in c : Noted("in", n)'
    BY <1>2, <2>1
  <2> QED BY <2>2, CarriesNothing
<1>4. ASSUME valid PROVE Carries("in", <<S("use", "in")>>)
  <2> DEFINE x == IF \E b, c : Reads("in", b, c) THEN {"open"} ELSE {}
  <2>1. x \in SUBSET Notes /\ "in" \in Streams
    BY DEF Notes, Streams
  <2>2. \A n \in x : Noted("in", n)
    <3> SUFFICES ASSUME NEW b, NEW c, Reads("in", b, c) PROVE Noted("in", "open")
        OBVIOUS
    <3>1. Noted("in", "fit")
        BY <1>2
    <3>2. "in" \notin Outputs
        BY LocksAssumption
    <3> QED BY <1>4, <3>1, <3>2 DEF Noted, Guarded
  <2>3. ASSUME NEW b, NEW c, Reads("in", b, c) PROVE Runs(IoMoves("in"), <<S("use", "in")>>, b \cup x, c)
    <3>1. "open" \in x
        BY <2>3
    <3>2. b \cup x \in SUBSET Notes /\ c \in SUBSET Notes /\ "on" \in b \cup x
          /\ c \subseteq b \cup x /\ "open" \in b \cup x
        BY <1>2, <2>1, <2>3, <3>1
    <3> HIDE DEF x
    <3> QED BY <2>1, <3>2, AnyMinds
  <2> HIDE DEF x
  <2> QED BY <1>1, <2>1, <2>2, <2>3, CarriesSeen
<1> QED BY <1>3, <1>4

(* Opening the input stream.                                               *)
LEMMA BeginCarries ==
    ASSUME OpenBegins("in") PROVE Carries("in", <<S("opened", "in")>>)
<1>1. option' = option /\ run' = run /\ valid' = valid /\ stream' = stream /\ Doing("in").do = "open"
    BY DEF OpenBegins, At
<1>2. \A b, c : Reads("in", b, c) =>
        /\ b \in SUBSET Notes /\ c \in SUBSET Notes /\ "on" \in b /\ Private /\ "closed" \in b
        /\ c \subseteq b \ {"open", "closed"} /\ \A n \in b : Noted("in", n)
    BY <1>1, MindsParts DEF Reads
<1>3. \A b, c : Reads("in", b, c) => Runs(IoMoves("in"), <<S("opened", "in")>>, b, c)
    BY <1>2, InputMinds
<1>4. \A b : b \cup {} = b
    OBVIOUS
<1>5. {} \in SUBSET Notes /\ \A n \in {} : Noted("in", n)
    OBVIOUS
<1>6. \A b, c : Reads("in", b, c) => Runs(IoMoves("in"), <<S("opened", "in")>>, b \cup {}, c)
    BY <1>3, <1>4
<1> QED BY <1>1, <1>5, <1>6, CarriesSeen

LEMMA SucceedCarries ==
    ASSUME TypeRest, OpenSucceeds("in"), On("in") = "in"
    PROVE  Carries("in", <<S("unlock", "hw"), S("handle", "in")>> \o <<S("standby", "in"), S("route", "in")>>)
<1> DEFINE u == <<S("unlock", "hw")>> h == <<S("handle", "in")>>
           t == <<S("standby", "in")>> r == <<S("route", "in")>>
<1>1. /\ option' = option /\ run' = run /\ valid' = valid /\ Doing("in").do = "opened"
      /\ stream'["in"].open = TRUE
    BY DEF OpenSucceeds, At, TypeRest, Streams
<1>2. \A b, c : Reads("in", b, c) =>
        /\ c \in SUBSET Notes /\ "on" \in b /\ Private
        /\ c \subseteq b \ {"open", "closed"} /\ \A n \in b : Noted("in", n)
    BY <1>1, MindsParts DEF Reads
<1>3. SUFFICES ASSUME NEW b, NEW c, Reads("in", b, c)
               PROVE  \E d \in SUBSET Notes : /\ \A n \in d : Noted("in", n)'
                                              /\ Runs(IoMoves("in"), (u \o h) \o (t \o r), d, c)
    BY InOrder DEF Carries
<1> DEFINE d == c \cup {"on"}
<1>4. d \in SUBSET Notes /\ "on" \in d /\ d \subseteq d /\ c \subseteq d /\ Private /\ "in" \in Streams
    BY <1>2, <1>3 DEF Notes, Streams
<1>5. \A n \in d : Noted("in", n)'
    BY <1>1, <1>2, <1>3 DEF Noted, Private
<1> HIDE DEF d
<1>6. Runs(IoMoves("in"), h, d, d) /\ Runs(IoMoves("in"), r, d, c)
    BY <1>4, InputMinds
<1>7. Runs(IoMoves("in"), t, d, d)
    BY <1>4, AnyMinds
<1>8. "hw" \in Mutexes
    BY DEF Mutexes
<1>9. <<d, S("unlock", "hw"), d>> \in IoMoves("in") /\ S("unlock", "hw") \in Steps
    BY <1>4, <1>8, IoLocks, LockSteps
<1>10. Runs(IoMoves("in"), u, d, d)
    BY <1>9, RunsOne
<1> HIDE DEF u, h, t, r
<1>11. Runs(IoMoves("in"), u \o h, d, d) /\ Runs(IoMoves("in"), t \o r, d, c)
    BY <1>6, <1>7, <1>10, RunsJoin
<1>12. Runs(IoMoves("in"), (u \o h) \o (t \o r), d, c)
    BY <1>11, RunsJoin
<1> QED BY <1>4, <1>5, <1>12

LEMMA FailCarries ==
    ASSUME OpenFails("in") \/ DefaultsDoNotFit("in")
    PROVE  Carries("in", <<S("unlock", "hw")>>) /\ Carries("in", <<>>)
<1>1. option' = option /\ run' = run /\ valid' = valid /\ stream' = stream /\ Doing("in").do = "opened"
    BY DEF OpenFails, DefaultsDoNotFit, At
<1>2. \A b, c : Reads("in", b, c) =>
        /\ b \in SUBSET Notes /\ c \in SUBSET Notes /\ "on" \in b
        /\ c \subseteq b \ {"open", "closed"} /\ \A n \in b : Noted("in", n)
    BY <1>1, MindsParts DEF Reads
<1>3. \A n : Noted("in", n)' = Noted("in", n)
    BY <1>1, NotedSame
<1>4. \A b, c : Reads("in", b, c) => \A n \in c : Noted("in", n)'
    BY <1>2, <1>3
<1>5. "hw" \in Mutexes
    BY DEF Mutexes
<1>6. ASSUME NEW b, NEW c, Reads("in", b, c) PROVE Runs(IoMoves("in"), <<S("unlock", "hw")>>, b \cup {}, c)
  <2>1. b \cup {} = b /\ c \subseteq b
    BY <1>2, <1>6
  <2>2. <<b, S("unlock", "hw"), c>> \in IoMoves("in") /\ S("unlock", "hw") \in Steps
    BY <1>2, <1>5, <1>6, <2>1, IoLocks, LockSteps
  <2>3. Runs(IoMoves("in"), <<S("unlock", "hw")>>, b, c)
    BY <2>2, RunsOne
  <2> QED BY <2>1, <2>3
<1>7. {} \in SUBSET Notes /\ \A n \in {} : Noted("in", n)
    OBVIOUS
<1> QED BY <1>1, <1>4, <1>6, <1>7, CarriesNothing, CarriesSeen

LEMMA CloseCarries ==
    ASSUME TypeRest, Close("in"), On("in") = "in" PROVE Carries("in", <<>>)
<1>1. option' = option /\ run' = run /\ valid' = valid /\ Doing("in").do = "close"
    BY DEF Close, At
<1>2. \A b, c : Reads("in", b, c) => /\ c \subseteq b \ {"open", "closed", "fit"}
                                     /\ \A n \in b : Noted("in", n)
    BY <1>1, MindsParts DEF Reads
<1>3. \A n : n \notin {"open", "closed", "fit"} /\ Noted("in", n) => Noted("in", n)'
    BY <1>1 DEF Noted, Private
<1> QED BY <1>2, <1>3, CarriesNothing

LEMMA StateCarries ==
    ASSUME TypeRest, NEW s \in Streams, SetState(s), On(s) = s PROVE Carries(s, <<>>)
<1>1. option' = option /\ stream' = stream /\ valid' = valid
    BY DEF SetState
<1>2. PICK st \in {"none", "suspended", "running"} : Doing(s).do = st /\ run'[s] = st
    BY DEF SetState, At, TypeRest
<1>3. \A n : n \notin {"there", "gone", "stopped"} /\ Noted(s, n) => Noted(s, n)'
    BY <1>1 DEF Noted, Private, Guarded
<1>4. ASSUME NEW b, NEW c, Reads(s, b, c) PROVE \A n \in c : Noted(s, n)'
  <2>1. \A n \in b : Noted(s, n)
    BY <1>4 DEF Reads
  <2>2. CASE st = "none"
    <3>1. c \subseteq (b \ {"on", "there"}) \cup {"gone", "stopped"}
        BY <1>2, <1>4, <2>2, MindsParts DEF Reads
    <3>2. Noted(s, "gone")' /\ Noted(s, "stopped")'
        BY <1>2, <2>2 DEF Noted
    <3> QED BY <1>3, <2>1, <3>1, <3>2
  <2>3. CASE st = "suspended"
    <3>1. c \subseteq (b \ {"on", "gone"}) \cup (IF s = "in" THEN {"stopped"} ELSE {})
        BY <1>2, <1>4, <2>3, MindsParts DEF Reads
    <3>2. Noted(s, "there")' /\ Noted(s, "stopped")'
        BY <1>2, <2>3 DEF Noted
    <3> QED BY <1>3, <2>1, <3>1, <3>2
  <2>4. CASE st = "running"
    <3>1. c \subseteq b \ {"on", "gone", "stopped"}
        BY <1>2, <1>4, <2>4, MindsParts DEF Reads
    <3>2. Noted(s, "there")'
        BY <1>2, <2>4 DEF Noted
    <3> QED BY <1>3, <2>1, <3>1, <3>2
  <2> QED BY <2>2, <2>3, <2>4
<1> QED BY <1>4, CarriesNothing

LEMMA RefusedCarries ==
    ASSUME NEW s \in Streams, Refused(s), On(s) = s PROVE Carries(s, <<>>)
<1>1. /\ option' = option /\ stream' = stream /\ valid' = valid /\ run' = run
      /\ Doing(s).do = "suspended" /\ run[s] = "running" /\ (s = "in" => ~Private)
    BY DEF Refused, At, Private
<1>2. \A n : Noted(s, n)' = Noted(s, n)
    BY <1>1, NotedSame
<1>3. s = "in" => Noted(s, "stopped")
    BY <1>1 DEF Noted
<1>4. \A b, c : Reads(s, b, c) => /\ c \subseteq b \cup (IF s = "in" THEN {"stopped"} ELSE {})
                                  /\ \A n \in b : Noted(s, n)
    BY <1>1, MindsParts DEF Reads
<1>5. \A b, c : Reads(s, b, c) => \A n \in c : Noted(s, n)
    BY <1>3, <1>4
<1> QED BY <1>2, <1>5, CarriesNothing

LEMMA ValidCarries ==
    ASSUME SetValid("in") PROVE Carries("in", <<>>)
<1>1. /\ option' = option /\ stream' = stream /\ run' = run /\ Doing("in").do = "valid"
      /\ valid' = (Private => stream["in"].open)
    BY DEF SetValid, At, Private
<1>2. \A n : n # "fit" /\ Noted("in", n) => Noted("in", n)'
    BY <1>1 DEF Noted, Private, Guarded
<1>3. Noted("in", "fit")'
    BY <1>1 DEF Noted, Private
<1>4. \A b, c : Reads("in", b, c) => c \subseteq b \cup {"fit"} /\ \A n \in b : Noted("in", n)
    BY <1>1, MindsParts DEF Reads
<1>5. \A b, c : Reads("in", b, c) => \A n \in c : Noted("in", n)'
    BY <1>2, <1>3, <1>4
<1> QED BY <1>5, CarriesNothing

(* A step is about the thread's own stream, or a mutex.                    *)
LEMMA OwnStep ==
    ASSUME NEW s \in Streams, Leads(s, {}), Step(s)
    PROVE  /\ ~Idle(s)
           /\ Doing(s).do \notin {"hal", "closing", "created", "suspend", "resume", "unlink", "wait"}
           /\ Doing(s).do \notin {"lock", "unlock"} => On(s) = s
           /\ Doing(s).do \in {"valid", "read", "suspending", "opening", "open", "opened", "handle",
                               "route", "close"} => s = "in"
           /\ s # "in" /\ Doing(s).do \in {"suspended", "running"} => stream[s].open
<1>1. Doing(s).do # "idle"
    BY DEF Step, Lock, Unlock, Call, Look, OpenBegins, OpenSucceeds, OpenFails, DefaultsDoNotFit, Handle,
       Close, Created, SetState, Refused, SetValid, Send, At
<1>2. ~Idle(s)
    BY <1>1 DEF Doing, Idle, S
<1>3. PICK b, c : Reads(s, b, c)
    BY <1>2, NextMinded
<1>4. Minds(s, b, Doing(s), c) /\ \A n \in b : Noted(s, n)
    BY <1>3 DEF Reads
<1>5. s # "in" /\ "open" \in b => stream[s].open
    BY <1>4 DEF Noted, Guarded, Streams
<1> QED BY <1>2, <1>4, <1>5, MindsParts DEF On

LEMMA StepCarries ==
    ASSUME LockInv, TypeRest, NEW s \in Streams, Leads(s, {}), Step(s)
    PROVE  \E p : Done(s, p) /\ Carries(s, p)
<1>1. /\ ~Idle(s)
      /\ Doing(s).do \notin {"hal", "closing", "created", "suspend", "resume", "unlink", "wait"}
      /\ Doing(s).do \notin {"lock", "unlock"} => On(s) = s
      /\ Doing(s).do \in {"valid", "read", "suspending", "opening", "open", "opened", "handle",
                          "route", "close"} => s = "in"
    BY OwnStep
<1>2. CASE Lock(s) \/ Unlock(s) \/ Call(s) \/ Handle(s)
    BY <1>2, CallCarries DEF Lock, Unlock, Call, Handle
<1>3. CASE Look(s)
  <2>1. CASE At(s, "standby") /\ Done(s, Standby(On(s)))
    BY <1>1, <1>3, <2>1, StandbyCarries DEF At
  <2>2. CASE At(s, "suspending") /\ Done(s, SuspendInput)
    <3>1. s = "in" /\ Doing(s).do = "suspending"
        BY <1>1, <2>2 DEF At
    <3>2. CASE Private
      <4>1. SuspendInput = CloseInput
        BY <3>2 DEF SuspendInput, Private
      <4> QED BY <1>3, <2>2, <3>1, <3>2, <4>1, ClosingCarries
    <3>3. CASE ~Private
      <4>1. SuspendInput = Standby("in")
        BY <3>3 DEF SuspendInput, Private
      <4> QED BY <1>3, <2>2, <3>1, <3>3, <4>1, StandbyCarries
    <3> QED BY <3>2, <3>3
  <2>3. CASE At(s, "opening") /\ (Done(s, OpenInput) \/ Done(s, <<>>))
    BY <1>1, <1>3, <2>3, OpeningCarries DEF At
  <2>4. CASE At(s, "route") /\ Done(s, IF stream[On(s)].open THEN SetRoute(On(s)) ELSE <<>>)
    BY <1>1, <1>3, <2>4, RouteCarries DEF At
  <2>5. CASE At(s, "read") /\ Done(s, IF valid THEN <<S("use", "in")>> ELSE <<>>)
    BY <1>1, <1>3, <2>5, ReadCarries DEF At
  <2> QED BY <1>1, <1>3, <2>1, <2>2, <2>3, <2>4, <2>5 DEF Look, At
<1>4. CASE OpenBegins(s)
  <2>1. s = "in" /\ On("in") = "in"
    BY <1>1, <1>4 DEF OpenBegins, At
  <2> QED BY <1>4, <2>1, BeginCarries DEF OpenBegins
<1>5. CASE OpenSucceeds(s)
  <2>1. s = "in" /\ On("in") = "in"
    BY <1>1, <1>5 DEF OpenSucceeds, At
  <2>2. Done("in", <<S("unlock", "hw"), S("handle", "in")>> \o <<S("standby", "in"), S("route", "in")>>)
    BY <1>5, <2>1 DEF OpenSucceeds
  <2> QED BY <1>5, <2>1, <2>2, SucceedCarries
<1>6. CASE OpenFails(s) \/ DefaultsDoNotFit(s)
  <2>1. s = "in" /\ On("in") = "in"
    BY <1>1, <1>6 DEF OpenFails, DefaultsDoNotFit, At
  <2>2. Done("in", <<S("unlock", "hw")>>) \/ Done("in", <<>>)
    BY <1>6, <2>1 DEF OpenFails, DefaultsDoNotFit
  <2> QED BY <1>6, <2>1, <2>2, FailCarries
<1>7. CASE Close(s)
    BY <1>1, <1>7, CloseCarries DEF Close, At
<1>8. CASE SetState(s)
    BY <1>1, <1>8, StateCarries DEF SetState, At
<1>9. CASE Refused(s)
    BY <1>1, <1>9, RefusedCarries DEF Refused, At
<1>10. CASE SetValid(s)
    BY <1>1, <1>10, ValidCarries DEF SetValid, At
<1>11. ~Created(s) /\ ~Send(s)
    BY <1>1 DEF Created, Send, At
<1> QED BY <1>2, <1>3, <1>4, <1>5, <1>6, <1>7, <1>8, <1>9, <1>10, <1>11 DEF Step

(* What it leaves others.                                                  *)
LEMMA StepEffects ==
    ASSUME LockInv, TypeRest, NEW s \in Streams, Leads(s, {}), Step(s)
    PROVE  /\ option' = option /\ \A u \in Threads \ {s} : todo'[u] = todo[u]
           /\ \A u \in Streams \ {s} : Untouched(u)
           /\ s # "in" => stream'[s].open = stream[s].open
           /\ s # "in" /\ run'[s] \notin {"none", run[s]} => stream[s].open
<1>1. /\ Doing(s).do \notin {"created", "suspend", "resume", "unlink"}
      /\ Doing(s).do \notin {"lock", "unlock"} => On(s) = s
      /\ Doing(s).do \in {"valid", "opened", "close", "handle"} => s = "in"
      /\ s # "in" /\ Doing(s).do \in {"suspended", "running"} => stream[s].open
    BY OwnStep
<1>2. /\ s \in Threads /\ s # "main"
      /\ \A u \in Streams : u \in Threads
    BY LocksAssumption DEF Streams, Threads
<1>3. \A u \in Threads \ {s} : todo'[u] = todo[u]
    BY <1>2, StepCarries, OwnDone
<1>4. option' = option
    BY DEF Step, Lock, Unlock, Call, Look, OpenBegins, OpenSucceeds, OpenFails, DefaultsDoNotFit, Handle,
       Close, Created, SetState, Refused, SetValid, Send
<1>5. ~Created(s) /\ ~Send(s)
    BY <1>1 DEF Created, Send, At
<1>6. s # "in" => valid' = valid
    BY <1>1, <1>5 DEF Step, Lock, Unlock, Call, Look, OpenBegins, OpenSucceeds, OpenFails,
       DefaultsDoNotFit, Handle, Close, SetState, Refused, SetValid, At
<1>7. /\ \A u \in Streams \ {s} : stream'[u].open = stream[u].open
      /\ s # "in" => stream'[s].open = stream[s].open
  <2>1. CASE stream' = stream
    BY <2>1
  <2>2. CASE Handle(s)
    BY <2>2, SameHandle DEF Handle
  <2>3. CASE OpenSucceeds(s) \/ Close(s)
    <3>1. On(s) = s /\ s = "in"
        BY <1>1, <2>3 DEF OpenSucceeds, Close, At
    <3> QED BY <2>3, <3>1 DEF OpenSucceeds, Close, TypeRest
  <2> QED BY <1>5, <2>1, <2>2, <2>3 DEF Step, Lock, Unlock, Call, Look, OpenBegins, OpenFails,
         DefaultsDoNotFit, SetState, Refused, SetValid
<1>8. /\ \A u \in Streams \ {s} : run'[u] = run[u]
      /\ run'[s] # run[s] => Doing(s).do \in {"none", "suspended", "running"} /\ run'[s] = Doing(s).do
  <2>1. CASE run' = run
    BY <2>1
  <2>2. CASE SetState(s)
    <3>1. PICK st \in {"none", "suspended", "running"} : At(s, st) /\ run' = [run EXCEPT ![On(s)] = st]
        BY <2>2 DEF SetState
    <3>2. On(s) = s
        BY <1>1, <3>1 DEF At
    <3> QED BY <3>1, <3>2 DEF At, TypeRest
  <2> QED BY <1>5, <2>1, <2>2 DEF Step, Lock, Unlock, Call, Look, OpenBegins, OpenSucceeds, OpenFails,
         DefaultsDoNotFit, Handle, Close, Refused, SetValid
<1>9. \A u \in Streams \ {s} : Untouched(u)
    BY <1>2, <1>3, <1>6, <1>7, <1>8 DEF Untouched
<1> QED BY <1>1, <1>3, <1>4, <1>7, <1>8, <1>9

(* A thread whose state is set has done all.                               *)
LEMMA StateIsLast ==
    ASSUME LockInv, NEW s \in Streams, Leads(s, {}), Step(s), Done(s, <<>>),
           Doing(s).do \in {"none", "suspended", "running"}
    PROVE  Idle(s)'
<1>1. ~Idle(s)
    BY OwnStep
<1>2. PICK b, c : Reads(s, b, c) /\ Runs(IoMoves(s), Tail(todo[s]), c, {})
    BY <1>1, NextMinded
<1>3. "on" \notin c
  <2>1. Minds(s, b, Doing(s), c)
    BY <1>2 DEF Reads
  <2>2. Doing(s).do = "none" => "on" \notin c
    BY <2>1, MindsParts
  <2>3. Doing(s).do = "suspended" => "on" \notin c
    BY <2>1, MindsParts
  <2>4. Doing(s).do = "running" => "on" \notin c
    BY <2>1, MindsParts
  <2> QED BY <2>2, <2>3, <2>4
<1>4. Tail(todo[s]) = <<>>
  <2> SUFFICES ASSUME Tail(todo[s]) # <<>> PROVE FALSE
    OBVIOUS
  <2>1. PICK d : <<c, Head(Tail(todo[s])), d>> \in IoMoves(s)
    BY <1>2, RunsFirst
  <2>2. Minds(s, c, Head(Tail(todo[s])), d)
    BY <2>1, IoMoveIs
  <2> QED BY <1>3, <2>2, MindsParts
<1>5. s \in Threads
    BY DEF Threads
<1>6. todo'[s] = Tail(todo[s])
    BY <1>1, <1>5, DoneNothing DEF LockInv
<1> QED BY <1>4, <1>6 DEF Idle

LEMMA StepSettled ==
    ASSUME LockInv, TypeRest, NEW s \in Streams, Leads(s, {}), Step(s), Settled(s)
    PROVE  Settled(s)'
<1>1. ~Idle(s) /\ run[s] = "running" /\ Leads(s, {"there"})
    BY OwnStep DEF Settled
<1>2. CASE SetState(s)
  <2>1. Doing(s).do \in {"none", "suspended", "running"} /\ Done(s, <<>>)
    BY <1>2 DEF SetState, At
  <2> QED BY <2>1, StateIsLast DEF Settled
<1>3. CASE ~SetState(s)
  <2>1. run' = run
    BY <1>3 DEF Step, Lock, Unlock, Call, Look, OpenBegins, OpenSucceeds, OpenFails, DefaultsDoNotFit,
         Handle, Close, Created, Refused, SetValid, Send
  <2>2. option' = option /\ s \in Threads
    BY StepEffects DEF Threads
  <2>3. PICK p : todo'[s] = p \o Tail(todo[s]) /\ Carries(s, p)
    BY <2>2, StepCarries, OwnDone
  <2>4. Leads(s, {"there"})'
    BY <1>1, <2>2, <2>3, CarriesOn
  <2> QED BY <1>1, <2>1, <2>4 DEF Settled
<1> QED BY <1>2, <1>3

LEMMA StepKnown ==
    ASSUME LockInv, TypeRest, NEW s \in Streams, Leads(s, {}), Step(s), NEW f \in Facts, Known(f)
    PROVE  Known(f)'
<1>1. option' = option /\ (\A u \in Streams \ {s} : Untouched(u))
      /\ (s # "in" => stream'[s].open = stream[s].open) /\ ~Idle(s) /\ s \in Threads
    BY StepEffects, OwnStep DEF Threads
<1>2. PICK p : todo'[s] = p \o Tail(todo[s]) /\ Carries(s, p)
    BY <1>1, StepCarries, OwnDone
<1>3. \A e : Leads(s, e) => Leads(s, e)'
    BY <1>1, <1>2, CarriesOn
<1>4. Settled(s) => Settled(s)'
    BY StepSettled
<1>5. CASE f \notin Of(s)
    BY <1>1, <1>4, <1>5, KnownSame
<1>6. CASE f \in Of(s)
  <2>1. Private' = Private /\ Guarded(s)' = Guarded(s)
    BY <1>1, SameMoves
  <2>2. f[2] = s
    BY <1>6 DEF Of
  <2>3. s = "in" /\ Quietly => ~Private /\ Quietly'
    BY <1>1, <2>1 DEF Quietly
  <2>4. s = "in" => (Guarded(s) <=> Private)
    BY LocksAssumption DEF Guarded
  <2>5. \A u \in Streams \ {s} : Settled(u) => Settled(u)'
    BY <1>1, SettledSame
  <2>6. f[1] \in {"gone", "leaving", "alive", "open", "closed", "asked", "calm", "halting"}
    BY <1>6 DEF Of, Facts, Calm, Halting, Rest
  <2>7. CASE f[1] = "gone"
    BY <1>1, <2>2, <2>7 DEF Known
  <2>8. CASE f[1] \in {"leaving", "alive"}
    BY <1>3, <2>2, <2>8 DEF Known
  <2>9. CASE f[1] \in {"open", "closed"}
    BY <1>1, <2>1, <2>2, <2>3, <2>4, <2>9 DEF Known
  <2>10. CASE f[1] = "asked"
    BY <2>2, <2>5, <2>10 DEF Known
  <2>11. CASE f[1] = "calm"
    <3>1. f = Calm /\ s = "in"
        BY <1>6, <2>2, <2>11 DEF Of, Facts, Calm, Halting, Rest
    <3> QED BY <2>3, <2>11, <3>1 DEF Known
  <2>12. CASE f[1] = "halting"
    <3>1. f = Halting /\ s = "in"
        BY <1>6, <2>2, <2>12 DEF Of, Facts, Calm, Halting, Rest
    <3> QED BY <1>3, <2>1, <2>12, <3>1 DEF Known
  <2> QED BY <2>6, <2>7, <2>8, <2>9, <2>10, <2>11, <2>12
<1> QED BY <1>5, <1>6

LEMMA IoStepKeeps ==
    ASSUME LockInv, TypeRest, FlowInv, NEW s \in Streams, Step(s)
    PROVE  FlowInv'
<1>1. Leads(s, {}) /\ \A u \in Streams : Leads(u, {})
    BY DEF FlowInv
<1>2. /\ option' = option /\ todo'["main"] = todo["main"] /\ s \in Threads
      /\ \A u \in Streams \ {s} : Untouched(u)
      /\ s # "in" => stream'[s].open = stream[s].open
      /\ s # "in" /\ run'[s] \notin {"none", run[s]} => stream[s].open
  <2>1. "main" \in Threads \ {s}
    BY LocksAssumption DEF Threads, Streams
  <2> QED BY <1>1, <2>1, StepEffects DEF Threads
<1>3. \A u \in Streams : \A e : Leads(u, e) => Leads(u, e)'
  <2>1. PICK p : todo'[s] = p \o Tail(todo[s]) /\ Carries(s, p)
    BY <1>1, <1>2, StepCarries, OwnDone
  <2>2. \A e : Leads(s, e) => Leads(s, e)'
    BY <1>1, <1>2, <2>1, OwnStep, CarriesOn
  <2>3. ASSUME NEW u \in Streams \ {s} PROVE \A e : Leads(u, e) => Leads(u, e)'
    BY <1>2, LeadsSame
  <2> QED BY <2>2, <2>3
<1>4. \A o \in Outputs : run'[o] # "none" => stream'[o].open
  <2> SUFFICES ASSUME NEW o \in Outputs, run'[o] # "none" PROVE stream'[o].open
    OBVIOUS
  <2>1. o \in Streams /\ o # "in"
    BY LocksAssumption DEF Streams
  <2>2. run[o] # "none" => stream[o].open
    BY DEF FlowInv
  <2>3. CASE o = s
    BY <1>2, <2>1, <2>2, <2>3
  <2>4. CASE o # s
    BY <1>2, <2>1, <2>2, <2>4 DEF Untouched
  <2> QED BY <2>3, <2>4
<1>5. Private' = Private /\ MainMoves' = MainMoves
    BY <1>2, SameMoves
<1>6. Private' => Leads("in", {"fit"})' \/ Leads("in", {"stopped"})'
    BY <1>3, <1>5 DEF FlowInv, Streams
<1>7. \E b : Knows(b)'
  <2>1. PICK b : Knows(b)
    BY DEF FlowInv
  <2>2. \A f \in b : Known(f)'
    BY <1>1, <2>1, StepKnown DEF Knows
  <2>3. Runs(MainMoves, todo["main"], b, {Rest})'
    BY <1>2, <1>5, <2>1 DEF Knows, Runs, Path, Rest
  <2> QED BY <2>1, <2>2, <2>3 DEF Knows
<1> QED BY <1>1, <1>3, <1>4, <1>6, <1>7 DEF FlowInv

-----------------------------------------------------------------------------
(* A round begins.                                                         *)

LEMMA StartsParts ==
    ASSUME LockInv, NEW t \in Threads, NEW p, Starts(t, p)
    PROVE  /\ Idle(t) /\ DOMAIN todo' = Threads /\ todo'[t] = p
           /\ \A u \in Threads \ {t} : todo'[u] = todo[u]
           /\ option' = option /\ run' = run /\ stream' = stream /\ valid' = valid
           /\ \A u \in Streams \ {t} : Untouched(u)
BY DEF Starts, LockInv, Handling, Untouched, Threads

LEMMA RoundKnown ==
    ASSUME LockInv, NEW s \in Streams, run[s] = "running", NEW p, Starts(s, p), Leads(s, {"there"})',
           NEW f \in Facts, Known(f)
    PROVE  Known(f)'
<1>1. /\ Idle(s) /\ option' = option /\ run' = run /\ stream' = stream
      /\ \A u \in Streams \ {s} : Untouched(u)
    BY StartsParts DEF Threads
<1>2. Settled(s)'
    BY <1>1 DEF Settled
<1>3. CASE f \notin Of(s)
    BY <1>1, <1>2, <1>3, KnownSame
<1>4. CASE f \in Of(s)
  <2>1. Private' = Private /\ Guarded(s)' = Guarded(s)
    BY <1>1, SameMoves
  <2>2. f[2] = s
    BY <1>4 DEF Of
  <2>3. s = "in" /\ Quietly => ~Private /\ Quietly'
    BY <2>1 DEF Quietly
  <2>4. s = "in" => (Guarded(s) <=> Private)
    BY LocksAssumption DEF Guarded
  <2>5. \A u \in Streams \ {s} : Settled(u) => Settled(u)'
    BY <1>1, SettledSame
  <2>6. f[1] \in {"gone", "leaving", "alive", "open", "closed", "asked", "calm", "halting"}
    BY <1>4 DEF Of, Facts, Calm, Halting, Rest
  <2>7. CASE f[1] = "gone"
    BY <2>2, <2>7 DEF Known
  <2>8. CASE f[1] = "leaving"
    <3>1. Leads(s, {"gone"}) /\ {"gone"} \in SUBSET Notes
        BY <2>2, <2>8 DEF Known, Notes
    <3>2. Noted(s, "gone")
        BY <1>1, <3>1, IdleLeads
    <3> QED BY <3>2 DEF Noted
  <2>9. CASE f[1] = "alive"
    BY <2>2, <2>9 DEF Known
  <2>10. CASE f[1] \in {"open", "closed"}
    BY <1>1, <2>1, <2>2, <2>3, <2>4, <2>10 DEF Known
  <2>11. CASE f[1] = "asked"
    BY <2>2, <2>5, <2>11 DEF Known
  <2>12. CASE f[1] = "calm"
    <3>1. f = Calm /\ s = "in"
        BY <1>4, <2>2, <2>12 DEF Of, Facts, Calm, Halting, Rest
    <3> QED BY <2>3, <2>12, <3>1 DEF Known
  <2>13. CASE f[1] = "halting"
    <3>1. s = "in" /\ (Private => Leads("in", {"stopped"})) /\ {"stopped"} \in SUBSET Notes
        BY <1>4, <2>2, <2>13 DEF Of, Facts, Calm, Halting, Rest, Known, Notes
    <3>2. Private => Noted("in", "stopped")
        BY <1>1, <3>1, IdleLeads
    <3>3. ~Private
        BY <3>1, <3>2 DEF Noted
    <3> QED BY <2>1, <2>13, <3>3 DEF Known
  <2> QED BY <2>6, <2>7, <2>8, <2>9, <2>10, <2>11, <2>12, <2>13
<1> QED BY <1>3, <1>4

LEMMA RoundKeeps ==
    ASSUME LockInv, FlowInv, NEW s \in Streams, run[s] = "running", NEW p, Starts(s, p),
           NEW b \in SUBSET Notes, \A n \in b : Noted(s, n),
           Runs(IoMoves(s), p, b, {}), Runs(IoMoves(s), p, b, {"there"}),
           s = "in" => Runs(IoMoves(s), p, b, {"fit"})
    PROVE  FlowInv'
<1>1. /\ option' = option /\ run' = run /\ stream' = stream /\ valid' = valid /\ todo'[s] = p
      /\ \A u \in Streams \ {s} : Untouched(u)
      /\ \A u \in Threads \ {s} : todo'[u] = todo[u]
    BY StartsParts DEF Threads
<1>2. Private' = Private /\ MainMoves' = MainMoves /\ IoMoves(s)' = IoMoves(s)
    BY <1>1, SameMoves
<1>3. \A n \in b : Noted(s, n)'
    BY <1>1, NotedSame
<1>4. \A e : Runs(IoMoves(s), p, b, e) => Leads(s, e)'
  <2> SUFFICES ASSUME NEW e, Runs(IoMoves(s), p, b, e) PROVE Leads(s, e)'
    OBVIOUS
  <2>1. Runs(IoMoves(s), todo[s], b, e)'
    BY <1>1, <1>2 DEF Runs, Path
  <2> QED BY <1>3, <2>1 DEF Leads
<1>5. Leads(s, {})' /\ Leads(s, {"there"})' /\ (s = "in" => Leads(s, {"fit"})')
    BY <1>4
<1>6. \A u \in Streams \ {s} : \A e : Leads(u, e) => Leads(u, e)'
    BY <1>1, LeadsSame
<1>7. \A u \in Streams : Leads(u, {})'
    BY <1>5, <1>6 DEF FlowInv
<1>8. Private' => Leads("in", {"fit"})' \/ Leads("in", {"stopped"})'
    BY <1>2, <1>5, <1>6 DEF FlowInv, Streams
<1>9. \A o \in Outputs : run'[o] # "none" => stream'[o].open
    BY <1>1 DEF FlowInv
<1>10. \E k : Knows(k)'
  <2>1. PICK k : Knows(k)
    BY DEF FlowInv
  <2>2. \A f \in k : Known(f)'
    BY <1>5, <2>1, RoundKnown DEF Knows
  <2>3. "main" \in Threads \ {s}
    BY LocksAssumption DEF Threads, Streams
  <2>4. Runs(MainMoves, todo["main"], k, {Rest})'
    BY <1>1, <1>2, <2>1, <2>3 DEF Knows, Runs, Path, Rest
  <2> QED BY <2>1, <2>2, <2>4 DEF Knows
<1> QED BY <1>7, <1>8, <1>9, <1>10 DEF FlowInv

LEMMA RenderKeeps == ASSUME LockInv, FlowInv, NEW o \in Outputs, Render(o) PROVE FlowInv'
<1> DEFINE b == {"on", "there", "open"} v == <<S("volume", o)>> u == <<S("use", o)>>
<1>1. /\ o \in Streams /\ o # "in" /\ "hw" \in Mutexes /\ run[o] = "running" /\ stream[o].open
      /\ Starts(o, Under("hw", v) \o u)
    BY LocksAssumption DEF Streams, Mutexes, Render, FlowInv
<1>2. /\ b \in SUBSET Notes /\ "on" \in b /\ "open" \in b /\ b \subseteq b
      /\ {} \in SUBSET Notes /\ {} \subseteq b
      /\ {"there"} \in SUBSET Notes /\ {"there"} \subseteq b
    BY DEF Notes
<1>3. \A n \in b : Noted(o, n)
    BY <1>1 DEF Noted
<1> HIDE DEF b
<1>4. Runs(IoMoves(o), v, b, b)
    BY <1>1, <1>2, AnyMinds
<1>5. Runs(IoMoves(o), u, b, {}) /\ Runs(IoMoves(o), u, b, {"there"})
    BY <1>1, <1>2, AnyMinds
<1> HIDE DEF v, u
<1>6. Runs(IoMoves(o), Under("hw", v), b, b)
    BY <1>1, <1>2, <1>4, IoSection
<1>7. Runs(IoMoves(o), Under("hw", v) \o u, b, {}) /\ Runs(IoMoves(o), Under("hw", v) \o u, b, {"there"})
    BY <1>5, <1>6, RunsJoin
<1> QED BY <1>1, <1>2, <1>3, <1>7, RoundKeeps

LEMMA ResumedMinds ==
    ASSUME NEW b \in SUBSET Notes, NEW e \in SUBSET Notes, "on" \in b,
           e \subseteq (b \ {"open", "closed"}) \cup {"fit"}
    PROVE  Runs(IoMoves("in"), Resumed, b, e)
<1> DEFINE c == b \ {"open", "closed"} o == <<S("opening", "in")>> v == <<S("valid", "in")>>
<1>1. c \in SUBSET Notes /\ c \subseteq b \ {"open", "closed"} /\ "on" \in c
      /\ e \subseteq c \cup {"fit"} /\ e \subseteq b \cup {"fit"}
    OBVIOUS
<1> HIDE DEF c
<1>2. Runs(IoMoves("in"), v, b, e) /\ Runs(IoMoves("in"), v, c, e)
    BY <1>1, InputMinds
<1>3. Private => Runs(IoMoves("in"), o, b, c)
    BY <1>1, InputMinds
<1>4. o \o v = <<S("opening", "in"), S("valid", "in")>>
    BY InOrder
<1> HIDE DEF o, v
<1>5. Private => Runs(IoMoves("in"), o \o v, b, e)
    BY <1>2, <1>3, RunsJoin
<1> QED BY <1>2, <1>4, <1>5 DEF Resumed, Private, v

LEMMA RecordKeeps == ASSUME LockInv, FlowInv, Record PROVE FlowInv'
<1> DEFINE r == <<S("read", "in")>> p == IF valid THEN <<>> ELSE Resumed
           b == IF valid THEN {"on", "there", "fit"} ELSE {"on", "there"} c == {"on", "there", "fit"}
<1>1. "in" \in Streams /\ run["in"] = "running" /\ Starts("in", p \o r) /\ Idle("in")
    BY DEF Streams, Record, Starts
<1>2. /\ b \in SUBSET Notes /\ "on" \in b /\ c \in SUBSET Notes /\ "on" \in c /\ "fit" \in c
      /\ c \subseteq (b \ {"open", "closed"}) \cup {"fit"}
      /\ {} \in SUBSET Notes /\ {} \subseteq c /\ {"there"} \in SUBSET Notes /\ {"there"} \subseteq c
      /\ {"fit"} \in SUBSET Notes /\ {"fit"} \subseteq c /\ {"stopped"} \in SUBSET Notes
    BY DEF Notes
<1>3. Noted("in", "fit")
  <2>1. CASE Private
    <3>1. ~Leads("in", {"stopped"})
      <4>1. ~Noted("in", "stopped")
        BY <1>1, <2>1 DEF Noted
      <4> QED BY <1>1, <1>2, <4>1, IdleLeads
    <3> QED BY <1>1, <1>2, <2>1, <3>1, IdleLeads DEF FlowInv
  <2>2. CASE ~Private
    BY <2>2 DEF Noted
  <2> QED BY <2>1, <2>2
<1>4. \A n \in b : Noted("in", n)
  <2>1. Noted("in", "on") /\ Noted("in", "there")
    BY <1>1 DEF Noted
  <2> QED BY <1>3, <2>1
<1>5. Runs(IoMoves("in"), r, c, {}) /\ Runs(IoMoves("in"), r, c, {"there"}) /\ Runs(IoMoves("in"), r, c, {"fit"})
    BY <1>2, InputMinds
<1>6. Runs(IoMoves("in"), p, b, c)
  <2>1. CASE valid
    <3>1. p = <<>> /\ b = c
        BY <2>1
    <3> QED BY <3>1, RunsNone
  <2>2. CASE ~valid
    <3>1. p = Resumed
        BY <2>2
    <3> HIDE DEF b, c, p
    <3> QED BY <1>2, <3>1, ResumedMinds
  <2> QED BY <2>1, <2>2
<1> HIDE DEF b, c, p, r
<1>7. /\ Runs(IoMoves("in"), p \o r, b, {}) /\ Runs(IoMoves("in"), p \o r, b, {"there"})
      /\ Runs(IoMoves("in"), p \o r, b, {"fit"})
    BY <1>5, <1>6, RunsJoin
<1> QED BY <1>1, <1>2, <1>4, <1>7, RoundKeeps

-----------------------------------------------------------------------------
(* The main thread begins a handler.                                       *)

LEMMA AtRest ==
    ASSUME FlowInv, Idle("main")
    PROVE  /\ Known(Rest)
           /\ \A s \in Streams : /\ run[s] # "none" => Known(Alive(s))
                                 /\ run[s] # "running" => Idle(s)
                                 /\ run[s] = "none" => Known(Gone(s))
           /\ run["in"] # "running" => Known(Calm)
<1>1. PICK b : Knows(b)
    BY DEF FlowInv
<1>2. b = {Rest}
    BY <1>1, RunsEnd DEF Knows, Idle
<1>3. Known(Rest)
    BY <1>1, <1>2 DEF Knows
<1>4. \A s \in Streams : Settled(s)
    BY <1>3 DEF Known, Rest
<1>5. \A s \in Streams : run[s] # "running" => Idle(s)
    BY <1>4 DEF Settled
<1>6. ASSUME NEW s \in Streams, run[s] # "none" PROVE Leads(s, {"there"})
  <2>1. CASE Idle(s)
    <3>1. {"there"} \in SUBSET Notes /\ \A n \in {"there"} : Noted(s, n)
        BY <1>6 DEF Notes, Noted
    <3> QED BY <2>1, <3>1, IdleLeads
  <2> QED BY <1>4, <2>1 DEF Settled
<1>7. ASSUME NEW s \in Streams, run[s] # "none" PROVE Known(Alive(s))
    BY <1>6, <1>7 DEF Known, Alive
<1>8. ASSUME NEW s \in Streams, run[s] = "none" PROVE Known(Gone(s))
    BY <1>5, <1>8 DEF Known, Gone
<1>9. ASSUME run["in"] # "running" PROVE Known(Calm)
    BY <1>5, <1>9 DEF Known, Calm, Quietly, Streams
<1> QED BY <1>3, <1>5, <1>7, <1>8, <1>9

LEMMA StartKeeps ==
    ASSUME LockInv, FlowInv, NEW p, Starts("main", p), NEW d \in SUBSET Facts,
           \A f \in d : Known(f), Runs(MainMoves, p, d, {Rest})
    PROVE  FlowInv'
<1>1. /\ option' = option /\ run' = run /\ stream' = stream /\ valid' = valid /\ todo'["main"] = p
      /\ \A u \in Streams : Untouched(u)
  <2>1. "main" \in Threads /\ \A u \in Streams : u # "main"
    BY LocksAssumption DEF Threads, Streams
  <2> QED BY <2>1, StartsParts
<1>2. Private' = Private /\ MainMoves' = MainMoves
    BY <1>1, SameMoves
<1>3. \A u \in Streams : \A e : Leads(u, e) => Leads(u, e)'
    BY <1>1, LeadsSame
<1>4. \A f \in d : Known(f)'
    BY <1>1, KnownStays
<1>5. Runs(MainMoves, todo["main"], d, {Rest})'
    BY <1>1, <1>2 DEF Runs, Path, Rest
<1>6. Knows(d)'
    BY <1>4, <1>5 DEF Knows
<1>7. Private' => Leads("in", {"fit"})' \/ Leads("in", {"stopped"})'
    BY <1>2, <1>3 DEF FlowInv, Streams
<1>8. \A u \in Streams : Leads(u, {})'
    BY <1>3 DEF FlowInv
<1>9. \A o \in Outputs : run'[o] # "none" => stream'[o].open
    BY <1>1 DEF FlowInv
<1> QED BY <1>6, <1>7, <1>8, <1>9 DEF FlowInv

LEMMA OutputStarts ==
    ASSUME LockInv, FlowInv, NEW o \in Outputs,
           OpenOutput(o) \/ CloseOutput(o) \/ Route(o) \/ \E m \in {"suspend", "resume"} : SinkState(o, m)
    PROVE  FlowInv'
<1>1. Idle("main")
    BY DEF OpenOutput, CloseOutput, Route, SinkState, Starts
<1>2. o \in Streams /\ o # "in"
    BY LocksAssumption DEF Streams
<1>3. {Gone(o), Alive(o), Open(o), Closed(o), Rest} \subseteq Facts
    BY <1>2, FactsOf
<1>4. Known(Rest) /\ (run[o] # "none" => Known(Alive(o))) /\ (run[o] = "none" => Known(Gone(o)))
    BY <1>1, <1>2, AtRest
<1>5. CASE OpenOutput(o)
  <2>1. Known(Closed(o))
    BY <1>2, <1>5 DEF OpenOutput, Known, Closed
  <2>2. {Rest, Closed(o), Gone(o)} \in SUBSET Facts /\ \A f \in {Rest, Closed(o), Gone(o)} : Known(f)
    BY <1>3, <1>4, <1>5, <2>1 DEF OpenOutput
  <2> QED BY <1>5, <2>2, OpenOutputRuns, StartKeeps DEF OpenOutput
<1>6. {Rest, Alive(o)} \in SUBSET Facts
    BY <1>3
<1>7. CASE CloseOutput(o)
  <2>1. \A f \in {Rest, Alive(o)} : Known(f)
    BY <1>4, <1>7 DEF CloseOutput
  <2> QED BY <1>6, <1>7, <2>1, CloseOutputRuns, StartKeeps DEF CloseOutput
<1>8. ASSUME NEW m \in {"suspend", "resume"}, SinkState(o, m) PROVE FlowInv'
  <2>1. \A f \in {Rest, Alive(o)} : Known(f)
    BY <1>4, <1>8 DEF SinkState
  <2> QED BY <1>2, <1>6, <1>8, <2>1, StateAsked, StartKeeps DEF SinkState
<1>9. CASE Route(o)
  <2>1. Known(Open(o))
    BY <1>2, <1>9 DEF Route, Known, Open
  <2>2. /\ {Rest, Open(o)} \in SUBSET Facts /\ \A f \in {Rest, Open(o)} : Known(f)
        /\ {Rest} \in SUBSET Facts /\ \A f \in {Rest} : Known(f)
    BY <1>3, <1>4, <2>1
  <2> QED BY <1>9, <2>2, RouteRuns, StartKeeps DEF Route
<1> QED BY <1>5, <1>7, <1>8, <1>9

LEMMA InputStarts ==
    ASSUME LockInv, FlowInv,
           \/ NewSource \/ FreeSource
           \/ \E m \in {"suspend", "resume"} : SourceState(m)
           \/ \E p \in {<<>>, <<S("route", "in")>>} : Reconfigure(p)
    PROVE  FlowInv'
<1>1. Idle("main") /\ "in" \in Streams
    BY DEF NewSource, FreeSource, SourceState, Reconfigure, Starts, Streams
<1>2. {Gone("in"), Alive("in"), Calm, Rest} \subseteq Facts
    BY <1>1, FactsOf
<1>3. /\ Known(Rest) /\ (run["in"] # "none" => Known(Alive("in")))
      /\ (run["in"] = "none" => Known(Gone("in"))) /\ (run["in"] # "running" => Known(Calm))
    BY <1>1, AtRest
<1>4. CASE NewSource
  <2>1. {Rest, Calm, Gone("in")} \in SUBSET Facts /\ \A f \in {Rest, Calm, Gone("in")} : Known(f)
    BY <1>2, <1>3, <1>4 DEF NewSource
  <2> QED BY <1>4, <2>1, NewSourceRuns, StartKeeps DEF NewSource
<1>5. ASSUME run["in"] # "none"
      PROVE  {Rest, Alive("in")} \in SUBSET Facts /\ \A f \in {Rest, Alive("in")} : Known(f)
    BY <1>2, <1>3, <1>5
<1>6. CASE FreeSource
    BY <1>5, <1>6, FreeSourceRuns, StartKeeps DEF FreeSource
<1>7. ASSUME NEW m \in {"suspend", "resume"}, SourceState(m) PROVE FlowInv'
    BY <1>1, <1>5, <1>7, StateAsked, StartKeeps DEF SourceState
<1>8. ASSUME NEW p \in {<<>>, <<S("route", "in")>>}, Reconfigure(p) PROVE FlowInv'
  <2>1. CASE run["in"] = "running"
    <3>1. Starts("main", Ask("suspend", "in") \o p \o Reopen \o Ask("resume", "in"))
        BY <1>8, <2>1 DEF Reconfigure
    <3> QED BY <1>5, <2>1, <3>1, ReconfigureRuns, StartKeeps
  <2>2. CASE run["in"] # "running"
    <3>1. Starts("main", p \o Reopen)
        BY <1>8, <2>2 DEF Reconfigure
    <3>2. {Rest, Calm} \in SUBSET Facts /\ \A f \in {Rest, Calm} : Known(f)
        BY <1>2, <1>3, <2>2
    <3> QED BY <3>1, <3>2, ReconfigureRuns, StartKeeps
  <2> QED BY <2>1, <2>2
<1> QED BY <1>4, <1>6, <1>7, <1>8

LEMMA HandlerKeeps == ASSUME LockInv, FlowInv, MainHandler PROVE FlowInv'
<1>1. CASE HalCall \/ \E p \in {<<>>, <<S("route", Primary)>>} : SetModeInCall(p)
  <2>1. Idle("main")
    BY <1>1 DEF HalCall, SetModeInCall, Starts
  <2>2. {Rest} \in SUBSET Facts /\ \A f \in {Rest} : Known(f)
    BY <2>1, AtRest DEF Facts
  <2>3. Runs(MainMoves, Under("hw", <<S("hal", "hw")>>), {Rest}, {Rest})
    BY CallRuns
  <2>4. \A p \in {<<>>, <<S("route", Primary)>>} :
          Runs(MainMoves, p \o Under("hw", <<S("hal", "hw"), S("route", Primary)>>), {Rest}, {Rest})
    BY CallRuns
  <2> QED BY <1>1, <2>2, <2>3, <2>4, StartKeeps DEF HalCall, SetModeInCall
<1> QED BY <1>1, OutputStarts, InputStarts DEF MainHandler

-----------------------------------------------------------------------------
(* The steps of the main thread.                                           *)

(* What it knows before and after its next step.                           *)
Sees(b, c) ==
    /\ b \in SUBSET Facts /\ c \in SUBSET Facts
    /\ (\A f \in b : Known(f)) /\ Tells(b, Doing("main"), c)
    /\ Runs(MainMoves, Tail(todo["main"]), c, {Rest})

LEMMA NextSeen ==
    ASSUME FlowInv, ~Idle("main") PROVE \E b, c : Sees(b, c)
<1>1. PICK b : Knows(b)
    BY DEF FlowInv
<1>2. PICK c : <<b, Head(todo["main"]), c>> \in MainMoves
               /\ Runs(MainMoves, Tail(todo["main"]), c, {Rest})
    BY <1>1, RunsFirst DEF Knows, Idle
<1>3. c \in SUBSET Facts /\ Tells(b, Head(todo["main"]), c)
    BY <1>2, MainMoveIs
<1> QED BY <1>1, <1>2, <1>3 DEF Sees, Knows, Doing, Idle

LEMMA SeenOn ==
    ASSUME option' = option, NEW p, todo'["main"] = p \o Tail(todo["main"]),
           NEW b, NEW c, Sees(b, c), NEW d \in SUBSET Facts, \A f \in d : Known(f)',
           Runs(MainMoves, p, d, c)
    PROVE  \E k : Knows(k)'
<1>1. Runs(MainMoves, p \o Tail(todo["main"]), d, {Rest})
    BY RunsJoin DEF Sees
<1>2. Runs(MainMoves, todo["main"], d, {Rest})'
    BY <1>1, SameMoves DEF Runs, Path, Rest
<1>3. Knows(d)'
    BY <1>2 DEF Knows
<1> QED BY <1>3

LEMMA TellsParts ==
    ASSUME NEW b, NEW r, NEW c, Tells(b, r, c)
    PROVE  /\ r.do \notin {"read", "valid", "none"}
           /\ r.do \notin {"lock", "unlock", "hal"} => r.on \in Streams
           /\ r.do \in {"lock", "unlock", "hal", "use", "volume", "handle", "standby", "route"} => c \subseteq b
           /\ r.do \in {"standby", "closing", "suspending", "opening", "suspended", "created"} => r.on = "in"
           /\ r.do \in {"standby", "route", "closing", "suspending", "opening", "suspended", "created",
                        "open", "opened", "close"} /\ r.on = "in" => Calm \in b
           /\ r.do \in {"closing", "suspending", "opening"} => c \subseteq b \ {Open("in"), Closed("in")}
           /\ r.do \in {"open", "opened", "close"} /\ r.on = "in" => c \subseteq b \ {Open("in"), Closed("in")}
           /\ r.do \in {"open", "opened"} /\ r.on = "in" => Closed("in") \in b
           /\ r.do \in {"open", "opened"} /\ r.on # "in" =>
                  /\ {Closed(r.on), Gone(r.on), Rest} \subseteq b
                  /\ c \subseteq (b \ Of(r.on)) \cup {Open(r.on), Gone(r.on)}
           /\ r.do = "close" /\ r.on # "in" => Gone(r.on) \in b /\ c \subseteq b \ Of(r.on)
           /\ r.do \in {"suspended", "created"} => Gone("in") \in b /\ c \subseteq b \ Of("in")
           /\ r.do = "running" => /\ r.on # "in" /\ {Open(r.on), Gone(r.on)} \subseteq b
                                  /\ c \subseteq b \ Of(r.on)
           /\ r.do = "use" /\ r.on # "in" => Open(r.on) \in b
           /\ r.do = "use" /\ r.on = "in" => (Private => Open("in") \in b)
           /\ r.do = "volume" => r.on # "in" /\ Open(r.on) \in b
<1>1. r.on \in Outputs => r.on # "in" /\ r.on \in Streams
    BY LocksAssumption DEF Streams
<1>2. /\ r.do \notin {"read", "valid", "none"}
      /\ r.do \notin {"lock", "unlock", "hal"} => r.on \in Streams
    BY <1>1 DEF Tells, TellsAny, TellsInput, TellsOutput, Streams
<1>3. r.do \in {"lock", "unlock", "hal", "use", "volume", "handle", "standby", "route"} => c \subseteq b
    BY <1>1 DEF Tells, TellsAny, TellsInput, TellsOutput
<1>4. r.do \in {"standby", "closing", "suspending", "opening", "suspended", "created"} => r.on = "in"
    BY <1>1 DEF Tells, TellsAny, TellsInput, TellsOutput
<1>5. r.do \in {"standby", "route", "closing", "suspending", "opening", "suspended", "created",
                "open", "opened", "close"} /\ r.on = "in" => Calm \in b
    BY <1>1 DEF Tells, TellsAny, TellsInput, TellsOutput
<1>6. r.do \in {"closing", "suspending", "opening"} => c \subseteq b \ {Open("in"), Closed("in")}
    BY <1>1 DEF Tells, TellsAny, TellsInput, TellsOutput
<1>7. r.do \in {"open", "opened", "close"} /\ r.on = "in" => c \subseteq b \ {Open("in"), Closed("in")}
    BY <1>1 DEF Tells, TellsAny, TellsInput, TellsOutput
<1>8. r.do \in {"open", "opened"} /\ r.on = "in" => Closed("in") \in b
    BY <1>1 DEF Tells, TellsAny, TellsInput, TellsOutput
<1>9. r.do \in {"open", "opened"} /\ r.on # "in" =>
          /\ {Closed(r.on), Gone(r.on), Rest} \subseteq b
          /\ c \subseteq (b \ Of(r.on)) \cup {Open(r.on), Gone(r.on)}
    BY <1>1 DEF Tells, TellsAny, TellsInput, TellsOutput
<1>10. r.do = "close" /\ r.on # "in" => Gone(r.on) \in b /\ c \subseteq b \ Of(r.on)
    BY <1>1 DEF Tells, TellsAny, TellsInput, TellsOutput
<1>11. r.do \in {"suspended", "created"} => Gone("in") \in b /\ c \subseteq b \ Of("in")
    BY <1>1 DEF Tells, TellsAny, TellsInput, TellsOutput
<1>12. r.do = "running" => /\ r.on # "in" /\ {Open(r.on), Gone(r.on)} \subseteq b
                           /\ c \subseteq b \ Of(r.on)
    BY <1>1 DEF Tells, TellsAny, TellsInput, TellsOutput
<1>13. /\ r.do = "use" /\ r.on # "in" => Open(r.on) \in b
       /\ r.do = "use" /\ r.on = "in" => (Private => Open("in") \in b)
       /\ r.do = "volume" => r.on # "in" /\ Open(r.on) \in b
    BY <1>1 DEF Tells, TellsAny, TellsInput, TellsOutput
<1> QED BY <1>2, <1>3, <1>4, <1>5, <1>6, <1>7, <1>8, <1>9, <1>10, <1>11, <1>12, <1>13

LEMMA AskParts ==
    ASSUME NEW b, NEW r, NEW c, Tells(b, r, c)
    PROVE  /\ r.do \in {"suspend", "resume", "unlink"} => {Alive(r.on), Rest} \subseteq b
           /\ r.do \in {"suspend", "resume"} =>
                  c \subseteq {Asked(r.on), Alive(r.on)}
                      \cup (IF r.on = "in" /\ r.do = "suspend" THEN {Halting} ELSE {})
           /\ r.do = "unlink" =>
                  c \subseteq {Asked(r.on), Leaving(r.on)} \cup (IF r.on = "in" THEN {Halting} ELSE {})
           /\ r.do = "wait" =>
                  /\ Asked(r.on) \in b
                  /\ c \subseteq b \cup {Rest} \cup (IF Leaving(r.on) \in b THEN {Gone(r.on)} ELSE {})
                             \cup (IF r.on = "in" /\ Halting \in b THEN {Calm} ELSE {})
<1>1. r.do \in {"suspend", "resume", "unlink", "wait"} => TellsAny(b, r, c)
    BY DEF Tells, TellsInput, TellsOutput
<1>2. r.do \in {"suspend", "resume", "unlink"} => {Alive(r.on), Rest} \subseteq b
    BY <1>1 DEF TellsAny
<1>3. r.do \in {"suspend", "resume"} =>
          c \subseteq {Asked(r.on), Alive(r.on)}
              \cup (IF r.on = "in" /\ r.do = "suspend" THEN {Halting} ELSE {})
    BY <1>1 DEF TellsAny
<1>4. r.do = "unlink" =>
          c \subseteq {Asked(r.on), Leaving(r.on)} \cup (IF r.on = "in" THEN {Halting} ELSE {})
    BY <1>1 DEF TellsAny
<1>5. r.do = "wait" =>
          /\ Asked(r.on) \in b
          /\ c \subseteq b \cup {Rest} \cup (IF Leaving(r.on) \in b THEN {Gone(r.on)} ELSE {})
                     \cup (IF r.on = "in" /\ Halting \in b THEN {Calm} ELSE {})
    BY <1>1 DEF TellsAny
<1> QED BY <1>2, <1>3, <1>4, <1>5

(* Steps after which streams, states and what IO threads do are the same.  *)
LEMMA SeenSame ==
    ASSUME LockInv, FlowInv, option' = option, run' = run, valid' = valid,
           \A u \in Streams : stream'[u].open = stream[u].open,
           \A u \in Streams : todo'[u] = todo[u],
           NEW p, todo'["main"] = p \o Tail(todo["main"]),
           NEW b, NEW c, Sees(b, c), NEW d \in SUBSET Facts, \A f \in d : Known(f),
           Runs(MainMoves, p, d, c)
    PROVE  FlowInv'
<1>1. \A u \in Streams : Untouched(u)
    BY DEF Untouched
<1>2. \A f \in d : Known(f)'
    BY <1>1, KnownStays
<1>3. \E k : Knows(k)'
    BY <1>2, SeenOn
<1>4. \A u \in Streams : \A e : Leads(u, e) => Leads(u, e)'
    BY <1>1, LeadsSame
<1>5. Private' = Private
    BY SameMoves
<1>6. Private' => Leads("in", {"fit"})' \/ Leads("in", {"stopped"})'
    BY <1>4, <1>5 DEF FlowInv, Streams
<1>7. \A u \in Streams : Leads(u, {})'
    BY <1>4 DEF FlowInv
<1>8. \A o \in Outputs : run'[o] # "none" => stream'[o].open
    BY DEF FlowInv, Streams
<1> QED BY <1>3, <1>6, <1>7, <1>8 DEF FlowInv

LEMMA MainDone ==
    ASSUME LockInv, NEW p, Done("main", p)
    PROVE  todo'["main"] = p \o Tail(todo["main"]) /\ \A u \in Streams : todo'[u] = todo[u]
<1>1. "main" \in Threads /\ \A u \in Streams : u \in Threads \ {"main"}
    BY LocksAssumption DEF Threads, Streams
<1> QED BY <1>1, OwnDone

LEMMA MainCalls ==
    ASSUME LockInv, TypeRest, FlowInv,
           Lock("main") \/ Unlock("main") \/ Call("main") \/ Handle("main") \/ DefaultsDoNotFit("main"),
           NEW b, NEW c, Sees(b, c)
    PROVE  FlowInv'
<1>1. /\ option' = option /\ run' = run /\ valid' = valid /\ Done("main", <<>>)
      /\ \A u \in Streams : stream'[u].open = stream[u].open
    BY SameHandle DEF Lock, Unlock, Call, Handle, DefaultsDoNotFit
<1>2. todo'["main"] = <<>> \o Tail(todo["main"]) /\ \A u \in Streams : todo'[u] = todo[u]
    BY <1>1, MainDone
<1>3. /\ Doing("main").do \in {"lock", "unlock", "use", "volume", "hal", "handle", "opened"}
      /\ Doing("main").do = "opened" => Doing("main").on = "in"
    BY DEF Lock, Unlock, Call, Handle, DefaultsDoNotFit, At, On
<1>4. c \subseteq b /\ c \in SUBSET Facts /\ \A f \in c : Known(f)
    BY <1>3, TellsParts DEF Sees
<1>5. Runs(MainMoves, <<>>, c, c)
    BY RunsNone
<1> QED BY <1>1, <1>2, <1>4, <1>5, SeenSame

(* A section that is done if the stream is open.                           *)
LEMMA UseTells ==
    ASSUME NEW b \in SUBSET Facts, NEW c \in SUBSET Facts, c \subseteq b, NEW s \in Streams, Open(s) \in b
    PROVE  Runs(MainMoves, Under(MutexOf(s), <<S("use", s)>>), b, c)
<1>1. MutexOf(s) \in Mutexes /\ b \subseteq b
    BY DEF Mutexes, MutexOf
<1>2. Runs(MainMoves, <<S("use", s)>>, b, b)
  <2>1. CASE s \in Outputs
    BY <1>1, <2>1, OutputTells
  <2>2. CASE s = "in"
    BY <1>1, <2>2, InputTells
  <2> QED BY <2>1, <2>2 DEF Streams
<1> QED BY <1>1, <1>2, MainSection

LEMMA CloseTells ==
    ASSUME NEW b \in SUBSET Facts, NEW c \in SUBSET Facts, c \subseteq b \ {Open("in"), Closed("in")},
           Open("in") \in b, Calm \in b
    PROVE  Runs(MainMoves, Under("input", <<S("use", "in"), S("close", "in")>>), b, c)
<1> DEFINE u == <<S("use", "in")>> p == <<S("close", "in")>>
<1>1. "input" \in Mutexes /\ b \subseteq b /\ c \subseteq c
    BY DEF Mutexes
<1>2. Runs(MainMoves, u, b, b)
    BY <1>1, InputTells
<1>3. Runs(MainMoves, p, b, c)
    BY InputTells
<1>4. u \o p = <<S("use", "in"), S("close", "in")>>
    BY InOrder
<1> HIDE DEF u, p
<1>5. Runs(MainMoves, u \o p, b, c)
    BY <1>2, <1>3, RunsJoin
<1>6. Runs(MainMoves, <<S("use", "in"), S("close", "in")>>, b, c)
    BY <1>4, <1>5
<1> QED BY <1>1, <1>6, MainSection

(* What the main thread finds out about a stream.                          *)
LEMMA SeesStream ==
    ASSUME NEW b, NEW c, Sees(b, c), NEW s \in Streams, s = "in" => Calm \in b
    PROVE  /\ stream[s].open => /\ b \cup {Open(s)} \in SUBSET Facts
                                /\ \A f \in b \cup {Open(s)} : Known(f)
           /\ ~stream[s].open => /\ b \cup {Closed(s)} \in SUBSET Facts
                                 /\ \A f \in b \cup {Closed(s)} : Known(f)
<1>1. b \in SUBSET Facts /\ \A f \in b : Known(f)
    BY DEF Sees
<1>2. Open(s) \in Facts /\ Closed(s) \in Facts
    BY FactsOf
<1>3. s = "in" => Quietly
    BY <1>1 DEF Known, Calm
<1>4. /\ stream[s].open => Known(Open(s))
      /\ ~stream[s].open => Known(Closed(s))
    BY <1>3 DEF Known, Open, Closed
<1> QED BY <1>1, <1>2, <1>4

LEMMA StandbySeen ==
    ASSUME NEW b, NEW c, Sees(b, c), NEW s \in Streams, s = "in" => Calm \in b, c \subseteq b
    PROVE  \E d \in SUBSET Facts : (\A f \in d : Known(f)) /\ Runs(MainMoves, Standby(s), d, c)
<1>1. b \in SUBSET Facts /\ c \in SUBSET Facts /\ \A f \in b : Known(f)
    BY DEF Sees
<1>2. CASE stream[s].open
  <2> DEFINE d == b \cup {Open(s)}
  <2>1. d \in SUBSET Facts /\ (\A f \in d : Known(f)) /\ c \subseteq d /\ Open(s) \in d
    BY <1>2, SeesStream
  <2> HIDE DEF d
  <2>2. Runs(MainMoves, Under(MutexOf(s), <<S("use", s)>>), d, c)
    BY <1>1, <2>1, UseTells
  <2> QED BY <1>2, <2>1, <2>2 DEF Standby
<1>3. CASE ~stream[s].open
  <2>1. Standby(s) = <<>> /\ \A f \in c : Known(f)
    BY <1>1, <1>3 DEF Standby
  <2>2. Runs(MainMoves, <<>>, c, c)
    BY RunsNone
  <2> QED BY <1>1, <2>1, <2>2
<1> QED BY <1>2, <1>3

LEMMA CloseSeen ==
    ASSUME NEW b, NEW c, Sees(b, c), Calm \in b, c \subseteq b \ {Open("in"), Closed("in")}
    PROVE  \E d \in SUBSET Facts : (\A f \in d : Known(f)) /\ Runs(MainMoves, CloseInput, d, c)
<1>1. b \in SUBSET Facts /\ c \in SUBSET Facts /\ (\A f \in b : Known(f)) /\ "in" \in Streams
    BY DEF Sees, Streams
<1>2. CASE stream["in"].open
  <2> DEFINE d == b \cup {Open("in")}
  <2>1. d \in SUBSET Facts /\ (\A f \in d : Known(f)) /\ c \subseteq d \ {Open("in"), Closed("in")}
        /\ Open("in") \in d /\ Calm \in d
    BY <1>1, <1>2, SeesStream
  <2> HIDE DEF d
  <2>2. Runs(MainMoves, Under("input", <<S("use", "in"), S("close", "in")>>), d, c)
    BY <1>1, <2>1, CloseTells
  <2> QED BY <1>2, <2>1, <2>2 DEF CloseInput
<1>3. CASE ~stream["in"].open
  <2>1. CloseInput = <<>> /\ \A f \in c : Known(f)
    BY <1>1, <1>3 DEF CloseInput
  <2>2. Runs(MainMoves, <<>>, c, c)
    BY RunsNone
  <2> QED BY <1>1, <2>1, <2>2
<1> QED BY <1>2, <1>3

LEMMA OpenSeen ==
    ASSUME NEW b, NEW c, Sees(b, c), Calm \in b, c \subseteq b \ {Open("in"), Closed("in")}
    PROVE  \E d \in SUBSET Facts : (\A f \in d : Known(f)) /\ Runs(MainMoves, OpenInput, d, c)
<1>1. b \in SUBSET Facts /\ c \in SUBSET Facts /\ (\A f \in b : Known(f)) /\ "in" \in Streams
    BY DEF Sees, Streams
<1>2. CASE ~stream["in"].open
  <2> DEFINE d == b \cup {Closed("in")} l == <<S("lock", "hw")>> o == <<S("open", "in")>>
  <2>1. d \in SUBSET Facts /\ (\A f \in d : Known(f)) /\ c \subseteq d \ {Open("in"), Closed("in")}
        /\ Closed("in") \in d /\ Calm \in d /\ d \subseteq d
    BY <1>1, <1>2, SeesStream
  <2> HIDE DEF d
  <2>2. Runs(MainMoves, o, d, c)
    BY <1>1, <2>1, InputTells
  <2>3. "hw" \in Mutexes
    BY DEF Mutexes
  <2>4. <<d, S("lock", "hw"), d>> \in MainMoves /\ S("lock", "hw") \in Steps
    BY <2>1, <2>3, MainLocks, LockSteps
  <2>5. Runs(MainMoves, l, d, d)
    BY <2>4, RunsOne
  <2>6. OpenInput = l \o o
    BY <1>2, InOrder DEF OpenInput
  <2> HIDE DEF l, o
  <2>7. Runs(MainMoves, l \o o, d, c)
    BY <2>2, <2>5, RunsJoin
  <2> QED BY <2>1, <2>6, <2>7
<1>3. CASE stream["in"].open
  <2>1. OpenInput = <<>> /\ \A f \in c : Known(f)
    BY <1>1, <1>3 DEF OpenInput
  <2>2. Runs(MainMoves, <<>>, c, c)
    BY RunsNone
  <2> QED BY <1>1, <2>1, <2>2
<1> QED BY <1>2, <1>3

(* The answer to a message.                                                *)
LEMMA Answered ==
    ASSUME NEW b, NEW c, Sees(b, c), At("main", "wait"), Idle(On("main"))
    PROVE  \A f \in c : Known(f)
<1> DEFINE s == On("main")
<1>1. Tells(b, Doing("main"), c) /\ Doing("main").do = "wait" /\ Doing("main").on = s /\ Idle(s)
    BY DEF Sees, At, On
<1>2. s \in Streams /\ \A f \in b : Known(f)
    BY <1>1, TellsParts DEF Sees
<1> HIDE DEF s
<1>3. /\ Asked(s) \in b
      /\ c \subseteq b \cup {Rest} \cup (IF Leaving(s) \in b THEN {Gone(s)} ELSE {})
                 \cup (IF s = "in" /\ Halting \in b THEN {Calm} ELSE {})
    BY <1>1, AskParts
<1>4. Known(Rest)
  <2>1. \A u \in Streams \ {s} : Settled(u)
    BY <1>2, <1>3 DEF Known, Asked
  <2>2. \A u \in Streams : Settled(u)
    BY <1>1, <2>1 DEF Settled
  <2> QED BY <2>2 DEF Known, Rest
<1>5. Leaving(s) \in b => Known(Gone(s))
  <2> SUFFICES ASSUME Leaving(s) \in b PROVE Known(Gone(s))
    OBVIOUS
  <2>1. Leads(s, {"gone"}) /\ {"gone"} \in SUBSET Notes
    BY <1>2 DEF Known, Leaving, Notes
  <2>2. Noted(s, "gone")
    BY <1>1, <2>1, IdleLeads
  <2> QED BY <1>1, <2>2 DEF Known, Gone, Noted
<1>6. s = "in" /\ Halting \in b => Known(Calm)
  <2> SUFFICES ASSUME s = "in", Halting \in b PROVE Known(Calm)
    OBVIOUS
  <2>1. (Private => Leads("in", {"stopped"})) /\ {"stopped"} \in SUBSET Notes
    BY <1>2 DEF Known, Halting, Notes
  <2>2. Private => Noted("in", "stopped")
    BY <1>1, <2>1, IdleLeads
  <2>3. Quietly
    BY <1>1, <2>2 DEF Noted, Quietly
  <2> QED BY <2>3 DEF Known, Calm
<1> QED BY <1>2, <1>3, <1>4, <1>5, <1>6

LEMMA MainLooks ==
    ASSUME LockInv, FlowInv, Look("main"), NEW b, NEW c, Sees(b, c)
    PROVE  FlowInv'
<1>1. option' = option /\ run' = run /\ valid' = valid /\ stream' = stream
    BY DEF Look
<1>2. /\ b \in SUBSET Facts /\ c \in SUBSET Facts /\ (\A f \in b : Known(f))
      /\ Tells(b, Doing("main"), c)
    BY DEF Sees
<1>3. ASSUME NEW p, Done("main", p),
             \E d \in SUBSET Facts : (\A f \in d : Known(f)) /\ Runs(MainMoves, p, d, c)
      PROVE  FlowInv'
  <2>1. PICK d \in SUBSET Facts : (\A f \in d : Known(f)) /\ Runs(MainMoves, p, d, c)
    BY <1>3
  <2>2. todo'["main"] = p \o Tail(todo["main"]) /\ \A u \in Streams : todo'[u] = todo[u]
    BY <1>3, MainDone
  <2> QED BY <1>1, <2>1, <2>2, SeenSame
<1>4. ASSUME Done("main", <<>>), \A f \in c : Known(f) PROVE FlowInv'
  <2>1. Runs(MainMoves, <<>>, c, c)
    BY RunsNone
  <2> QED BY <1>2, <1>3, <1>4, <2>1
<1>5. CASE At("main", "standby") /\ Done("main", Standby(On("main")))
  <2>1. c \subseteq b /\ On("main") \in Streams /\ Calm \in b
    BY <1>2, <1>5, TellsParts DEF At, On
  <2> QED BY <1>3, <1>5, <2>1, StandbySeen
<1>6. ASSUME At("main", "closing") \/ At("main", "suspending") \/ At("main", "opening")
      PROVE  Calm \in b /\ c \subseteq b \ {Open("in"), Closed("in")} /\ c \subseteq b
             /\ \A f \in c : Known(f)
    BY <1>2, <1>6, TellsParts DEF At, On
<1>7. CASE At("main", "closing") /\ Done("main", CloseInput)
    BY <1>3, <1>6, <1>7, CloseSeen
<1>8. CASE At("main", "suspending") /\ Done("main", SuspendInput)
  <2>1. CASE "close_input" \in option
    BY <1>3, <1>6, <1>8, <2>1, CloseSeen DEF SuspendInput
  <2>2. CASE "close_input" \notin option
    BY <1>3, <1>6, <1>8, <2>2, StandbySeen DEF SuspendInput, Streams
  <2> QED BY <2>1, <2>2
<1>9. CASE At("main", "opening") /\ (Done("main", OpenInput) \/ Done("main", <<>>))
    BY <1>3, <1>4, <1>6, <1>9, OpenSeen
<1>10. CASE /\ At("main", "route")
            /\ Done("main", IF stream[On("main")].open THEN SetRoute(On("main")) ELSE <<>>)
  <2>1. /\ c \subseteq b /\ On("main") \in Streams /\ (On("main") = "in" => Calm \in b)
        /\ \A f \in c : Known(f)
    BY <1>2, <1>10, TellsParts DEF At, On
  <2>2. CASE stream[On("main")].open /\ "legacy" \in option
    <3>1. Done("main", Standby(On("main")))
        BY <1>10, <2>2 DEF Standby, SetRoute
    <3> QED BY <1>3, <2>1, <3>1, StandbySeen
  <2>3. CASE ~(stream[On("main")].open /\ "legacy" \in option)
    <3>1. Done("main", <<>>)
        BY <1>10, <2>3 DEF SetRoute
    <3> QED BY <1>4, <2>1, <3>1
  <2> QED BY <2>2, <2>3
<1>11. CASE At("main", "read")
    BY <1>2, <1>11, TellsParts DEF At
<1>12. CASE At("main", "wait") /\ Idle(On("main")) /\ Done("main", <<>>)
    BY <1>4, <1>12, Answered
<1> QED BY <1>5, <1>7, <1>8, <1>9, <1>10, <1>11, <1>12 DEF Look

LEMMA OpenedTells ==
    ASSUME NEW s \in Streams, NEW b \in SUBSET Facts, NEW c \in SUBSET Facts,
           s = "in" => Calm \in b /\ Closed("in") \in b /\ c \subseteq b \ {Open("in"), Closed("in")},
           s # "in" => {Closed(s), Gone(s), Rest} \subseteq b /\ c \subseteq (b \ Of(s)) \cup {Open(s), Gone(s)}
    PROVE  Runs(MainMoves, <<S("opened", s)>>, b, c)
<1>1. CASE s = "in"
  <2>1. Runs(MainMoves, <<S("opened", "in")>>, b, c)
    BY <1>1, InputTells
  <2> QED BY <1>1, <2>1
<1>2. CASE s # "in"
  <2>1. s \in Outputs /\ "opened" \in {"open", "opened"}
    BY <1>2 DEF Streams
  <2> QED BY <1>2, <2>1, OpenOutputTells
<1> QED BY <1>1, <1>2

LEMMA MainOpens ==
    ASSUME LockInv, FlowInv, OpenBegins("main") \/ OpenFails("main"), NEW b, NEW c, Sees(b, c)
    PROVE  FlowInv'
<1> DEFINE s == On("main") o == <<S("opened", s)>> u == <<S("unlock", "hw")>>
<1>1. option' = option /\ run' = run /\ valid' = valid /\ stream' = stream
    BY DEF OpenBegins, OpenFails
<1>2. /\ b \in SUBSET Facts /\ c \in SUBSET Facts /\ (\A f \in b : Known(f))
      /\ Tells(b, Doing("main"), c) /\ Doing("main").do \in {"open", "opened"} /\ Doing("main").on = s
    BY DEF Sees, OpenBegins, OpenFails, At, On
<1>3. /\ s \in Streams
      /\ s = "in" => Calm \in b /\ Closed("in") \in b /\ c \subseteq b \ {Open("in"), Closed("in")}
      /\ s # "in" => {Closed(s), Gone(s), Rest} \subseteq b /\ c \subseteq (b \ Of(s)) \cup {Open(s), Gone(s)}
    BY <1>2, TellsParts
<1> HIDE DEF s
<1>4. "hw" \in Mutexes
    BY DEF Mutexes
<1>5. CASE OpenBegins("main")
  <2>3. Runs(MainMoves, o, b, c)
    BY <1>2, <1>3, OpenedTells
  <2>4. Done("main", o)
    BY <1>5 DEF OpenBegins, s
  <2> HIDE DEF o
  <2>5. todo'["main"] = o \o Tail(todo["main"]) /\ \A v \in Streams : todo'[v] = todo[v]
    BY <2>4, MainDone
  <2> QED BY <1>1, <1>2, <2>3, <2>5, SeenSame
<1>6. CASE OpenFails("main") /\ s = "in"
  <2>1. Done("main", u)
    BY <1>6 DEF OpenFails, s
  <2>2. <<c, S("unlock", "hw"), c>> \in MainMoves /\ S("unlock", "hw") \in Steps
    BY <1>2, <1>4, MainLocks, LockSteps
  <2>3. Runs(MainMoves, u, c, c) /\ \A f \in c : Known(f)
    BY <1>2, <1>3, <1>6, <2>2, RunsOne
  <2> HIDE DEF u
  <2>4. todo'["main"] = u \o Tail(todo["main"]) /\ \A v \in Streams : todo'[v] = todo[v]
    BY <2>1, MainDone
  <2> QED BY <1>1, <1>2, <2>3, <2>4, SeenSame
<1>7. CASE OpenFails("main") /\ s # "in"
  <2> DEFINE d == {Rest}
  <2>1. todo'["main"] = u /\ \A v \in Streams : Untouched(v)
    <3>1. "main" \in Threads /\ \A v \in Streams : v # "main"
        BY LocksAssumption DEF Threads, Streams
    <3>2. todo' = [todo EXCEPT !["main"] = u]
        BY <1>7 DEF OpenFails, s
    <3> QED BY <1>1, <3>1, <3>2 DEF LockInv, Handling, Untouched
  <2>2. d \in SUBSET Facts /\ (\A f \in d : Known(f)) /\ d \subseteq d
    BY <1>2, <1>3, <1>7 DEF Facts
  <2>3. <<d, S("unlock", "hw"), d>> \in MainMoves /\ S("unlock", "hw") \in Steps
    BY <1>4, <2>2, MainLocks, LockSteps
  <2>4. Runs(MainMoves, u, d, d)
    BY <2>3, RunsOne
  <2> HIDE DEF u
  <2>5. \A f \in d : Known(f)'
    BY <1>1, <2>1, <2>2, KnownStays
  <2>6. Private' = Private /\ MainMoves' = MainMoves
    BY <1>1, SameMoves
  <2>7. Runs(MainMoves, todo["main"], d, {Rest})'
    BY <2>1, <2>4, <2>6 DEF Runs, Path, Rest
  <2>8. Knows(d)'
    BY <2>2, <2>5, <2>7 DEF Knows
  <2>9. \A v \in Streams : \A e : Leads(v, e) => Leads(v, e)'
    BY <1>1, <2>1, LeadsSame
  <2>10. Private' => Leads("in", {"fit"})' \/ Leads("in", {"stopped"})'
    BY <2>6, <2>9 DEF FlowInv, Streams
  <2>11. \A v \in Streams : Leads(v, {})'
    BY <2>9 DEF FlowInv
  <2>12. \A v \in Outputs : run'[v] # "none" => stream'[v].open
    BY <1>1 DEF FlowInv
  <2> QED BY <2>8, <2>10, <2>11, <2>12 DEF FlowInv
<1> QED BY <1>5, <1>6, <1>7

(* A stream, or the state of a sink or source, changes.                    *)
LEMMA IdleWill ==
    ASSUME NEW s, todo'[s] = <<>>, NEW e \in SUBSET Notes, \A n \in e : Noted(s, n)'
    PROVE  Leads(s, e)'
<1>1. Runs(IoMoves(s)', <<>>, e, e)
    BY RunsNone
<1>2. Runs(IoMoves(s), todo[s], e, e)'
    BY <1>1 DEF Runs, Path
<1> QED BY <1>2 DEF Leads

LEMMA IdleMoved ==
    ASSUME FlowInv, option' = option, NEW s \in Streams, \A u \in Streams \ {s} : Untouched(u),
           Idle(s), todo'[s] = todo[s]
    PROVE  /\ \A f \in Facts \ Of(s) : Known(f) => Known(f)'
           /\ \A u \in Streams : Leads(u, {})'
           /\ s # "in" => (Private' => Leads("in", {"fit"})' \/ Leads("in", {"stopped"})')
<1>1. Settled(s)' /\ Idle(s)'
    BY DEF Settled, Idle
<1>2. \A f \in Facts \ Of(s) : Known(f) => Known(f)'
    BY <1>1, KnownSame
<1>3. {} \in SUBSET Notes /\ todo'[s] = <<>>
    BY DEF Idle
<1>4. Leads(s, {})'
    BY <1>3, IdleWill
<1>5. \A u \in Streams \ {s} : \A e : Leads(u, e) => Leads(u, e)'
    BY LeadsSame
<1>6. Private' = Private
    BY SameMoves
<1> QED BY <1>2, <1>4, <1>5, <1>6 DEF FlowInv, Streams

LEMMA InputLeads ==
    ASSUME option' = option, todo'["in"] = todo["in"], run'["in"] = run["in"], Quietly,
           NEW e \in {{}, {"gone"}, {"there"}, {"stopped"}}, Leads("in", e)
    PROVE  Leads("in", e)'
<1>1. e \in SUBSET Notes
    BY DEF Notes
<1>2. Private' = Private /\ IoMoves("in")' = IoMoves("in")
    BY SameMoves
<1>3. CASE Private
  <2>1. Idle("in")
    BY <1>3 DEF Quietly
  <2>2. \A n \in e : Noted("in", n)
    BY <1>1, <2>1, IdleLeads
  <2>3. \A n \in e : n \in {"gone", "there", "stopped"}
    OBVIOUS
  <2>4. \A n \in e : Noted("in", n)'
    BY <1>2, <2>2, <2>3 DEF Noted
  <2>5. todo'["in"] = <<>>
    BY <2>1 DEF Idle
  <2> QED BY <1>1, <2>4, <2>5, IdleWill
<1>4. CASE ~Private
  <2>1. PICK b \in SUBSET Notes : (\A n \in b : Noted("in", n)) /\ Runs(IoMoves("in"), todo["in"], b, e)
    BY DEF Leads
  <2>2. ~Guarded("in") /\ ~Guarded("in")'
    BY <1>2, <1>4, LocksAssumption DEF Guarded
  <2>3. \A n \in b : Noted("in", n)'
    BY <1>2, <1>4, <2>1, <2>2 DEF Noted
  <2>4. Runs(IoMoves("in"), todo["in"], b, e)'
    BY <1>2, <2>1 DEF Runs, Path
  <2> QED BY <2>1, <2>3, <2>4 DEF Leads
<1> QED BY <1>3, <1>4

LEMMA InputMoved ==
    ASSUME FlowInv, option' = option, \A u \in Outputs : Untouched(u),
           todo'["in"] = todo["in"], run'["in"] = run["in"], Quietly
    PROVE  /\ \A f \in Facts \ {Open("in"), Closed("in")} : Known(f) => Known(f)'
           /\ \A u \in Streams : Leads(u, {})'
           /\ Private' => Leads("in", {"fit"})' \/ Leads("in", {"stopped"})'
<1>1. "in" \in Streams /\ \A u \in Streams \ {"in"} : Untouched(u)
    BY DEF Streams
<1>2. Private' = Private
    BY SameMoves
<1>3. \A e \in {{}, {"gone"}, {"there"}, {"stopped"}} : Leads("in", e) => Leads("in", e)'
    BY InputLeads
<1>4. Leads("in", {})'
    BY <1>1, <1>3 DEF FlowInv
<1>5. \A u \in Streams \ {"in"} : \A e : Leads(u, e) => Leads(u, e)'
    BY <1>1, LeadsSame
<1>6. \A u \in Streams : Leads(u, {})'
    BY <1>4, <1>5 DEF FlowInv
<1>7. Quietly'
    BY <1>2 DEF Quietly, Idle
<1>8. ASSUME Private PROVE Leads("in", {"stopped"})'
  <2>1. {"stopped"} \in SUBSET Notes /\ \A n \in {"stopped"} : Noted("in", n)'
    BY <1>8 DEF Quietly, Notes, Noted
  <2>2. todo'["in"] = <<>>
    BY <1>8 DEF Quietly, Idle
  <2> QED BY <2>1, <2>2, IdleWill
<1>9. Settled("in") => Settled("in")'
    BY <1>3 DEF Settled, Idle
<1>10. ASSUME NEW f \in Facts \ {Open("in"), Closed("in")}, Known(f) PROVE Known(f)'
  <2>1. CASE f \notin Of("in")
    BY <1>1, <1>9, <1>10, <2>1, KnownSame
  <2>2. CASE f \in Of("in")
    <3>1. f[2] = "in" /\ f[1] \in {"gone", "leaving", "alive", "asked", "calm", "halting"}
        BY <1>10, <2>2 DEF Of, Facts, Calm, Halting, Rest, Open, Closed
    <3>2. CASE f[1] = "gone"
        BY <1>10, <3>1, <3>2 DEF Known, Idle
    <3>3. CASE f[1] \in {"leaving", "alive"}
        BY <1>3, <1>10, <3>1, <3>3 DEF Known
    <3>4. CASE f[1] = "asked"
        BY <1>1, <1>10, <3>1, <3>4, SettledSame DEF Known
    <3>5. CASE f[1] = "calm"
        BY <1>7, <3>5 DEF Known
    <3>6. CASE f[1] = "halting"
        BY <1>2, <1>8, <3>6 DEF Known
    <3> QED BY <3>1, <3>2, <3>3, <3>4, <3>5, <3>6
  <2> QED BY <2>1, <2>2
<1> QED BY <1>2, <1>6, <1>8, <1>10

LEMMA SucceedTells ==
    ASSUME NEW s \in Streams, NEW b \in SUBSET Facts, NEW c \in SUBSET Facts,
           s = "in" => Calm \in b, c \subseteq b
    PROVE  Runs(MainMoves, <<S("unlock", "hw"), S("handle", s)>> \o
                           IF s = "in" THEN <<S("standby", "in"), S("route", "in")>> ELSE <<>>, b, c)
<1> DEFINE u == <<S("unlock", "hw")>> h == <<S("handle", s)>> t == <<S("standby", "in")>>
           r == <<S("route", "in")>>
<1>1. "hw" \in Mutexes /\ b \subseteq b
    BY DEF Mutexes
<1>2. <<b, S("unlock", "hw"), b>> \in MainMoves /\ S("unlock", "hw") \in Steps
    BY <1>1, MainLocks, LockSteps
<1>3. Runs(MainMoves, u, b, b)
    BY <1>2, RunsOne
<1>4. Runs(MainMoves, h, b, b) /\ Runs(MainMoves, h, b, c)
    BY <1>1, HandleTells
<1>5. Runs(MainMoves, u \o h, b, b) /\ Runs(MainMoves, u \o h, b, c)
    BY <1>3, <1>4, RunsJoin
<1>6. u \o h = <<S("unlock", "hw"), S("handle", s)>> /\ t \o r = <<S("standby", "in"), S("route", "in")>>
    BY InOrder
<1>7. CASE s = "in"
  <2>1. Runs(MainMoves, t, b, b) /\ Runs(MainMoves, r, b, c)
    BY <1>1, <1>7, InputTells
  <2> HIDE DEF t, r
  <2>2. Runs(MainMoves, t \o r, b, c)
    BY <2>1, RunsJoin
  <2> HIDE DEF u, h
  <2>3. Runs(MainMoves, (u \o h) \o (t \o r), b, c)
    BY <1>5, <2>2, RunsJoin
  <2> QED BY <1>6, <1>7, <2>3
<1>8. CASE s # "in"
  <2>1. Runs(MainMoves, <<>>, c, c)
    BY RunsNone
  <2> HIDE DEF u, h
  <2>2. Runs(MainMoves, (u \o h) \o <<>>, b, c)
    BY <1>5, <2>1, RunsJoin
  <2> QED BY <1>6, <1>8, <2>2
<1> QED BY <1>7, <1>8

LEMMA MainSucceeds ==
    ASSUME LockInv, TypeRest, FlowInv, OpenSucceeds("main"), NEW b, NEW c, Sees(b, c)
    PROVE  FlowInv'
<1>0. PICK s : s = On("main")
    OBVIOUS
<1> DEFINE p == <<S("unlock", "hw"), S("handle", s)>> \o
                IF s = "in" THEN <<S("standby", "in"), S("route", "in")>> ELSE <<>>
<1>1. /\ option' = option /\ run' = run /\ valid' = valid /\ stream' = [stream EXCEPT ![s].open = TRUE]
      /\ Done("main", p)
    BY <1>0 DEF OpenSucceeds
<1>2. /\ b \in SUBSET Facts /\ c \in SUBSET Facts /\ (\A f \in b : Known(f))
      /\ Tells(b, Doing("main"), c) /\ Doing("main").do = "opened" /\ Doing("main").on = s
    BY <1>0 DEF Sees, OpenSucceeds, At, On
<1>3. /\ s \in Streams
      /\ s = "in" => Calm \in b /\ c \subseteq b \ {Open("in"), Closed("in")}
      /\ s # "in" => Gone(s) \in b /\ c \subseteq (b \ Of(s)) \cup {Open(s), Gone(s)}
    BY <1>2, TellsParts
<1> HIDE DEF p
<1>4. todo'["main"] = p \o Tail(todo["main"]) /\ \A u \in Streams : todo'[u] = todo[u]
    BY <1>1, MainDone
<1>5. stream'[s].open = TRUE /\ \A u \in Streams \ {s} : stream'[u].open = stream[u].open
    BY <1>1, <1>3 DEF TypeRest
<1>6. \A u \in Streams \ {s} : Untouched(u)
    BY <1>1, <1>4, <1>5 DEF Untouched
<1>7. \A o \in Outputs : run'[o] # "none" => stream'[o].open
    BY <1>1, <1>3, <1>5 DEF FlowInv, Streams
<1>8. CASE s = "in"
  <2>1. Quietly /\ \A u \in Outputs : Untouched(u)
    <3>1. \A u \in Outputs : u \in Streams \ {s}
        BY <1>8, LocksAssumption DEF Streams
    <3> QED BY <1>2, <1>3, <1>6, <1>8, <3>1 DEF Known, Calm
  <2>2. /\ \A f \in Facts \ {Open("in"), Closed("in")} : Known(f) => Known(f)'
        /\ \A u \in Streams : Leads(u, {})'
        /\ Private' => Leads("in", {"fit"})' \/ Leads("in", {"stopped"})'
    BY <1>1, <1>3, <1>4, <1>8, <2>1, InputMoved
  <2> DEFINE d == c \cup {Calm}
  <2>3. d \in SUBSET Facts /\ c \subseteq d /\ Calm \in d /\ \A f \in d : Known(f)'
    <3>1. Calm \in Facts \ {Open("in"), Closed("in")}
        BY <1>3, FactsOf DEF Streams
    <3> QED BY <1>2, <1>3, <1>8, <2>2, <3>1
  <2> HIDE DEF d
  <2>4. Runs(MainMoves, p, d, c)
    BY <1>2, <1>3, <2>3, SucceedTells DEF p
  <2>5. \E k : Knows(k)'
    BY <1>1, <1>4, <2>3, <2>4, SeenOn
  <2> QED BY <1>7, <2>2, <2>5 DEF FlowInv
<1>9. CASE s # "in"
  <2>1. Known(Gone(s)) /\ Idle(s) /\ run[s] = "none"
    BY <1>2, <1>3, <1>9 DEF Known, Gone
  <2>2. /\ \A f \in Facts \ Of(s) : Known(f) => Known(f)'
        /\ \A u \in Streams : Leads(u, {})'
        /\ Private' => Leads("in", {"fit"})' \/ Leads("in", {"stopped"})'
    BY <1>1, <1>3, <1>4, <1>6, <1>9, <2>1, IdleMoved
  <2>3. Known(Open(s))' /\ Known(Gone(s))'
    BY <1>1, <1>3, <1>4, <1>5, <1>9, <2>1 DEF Known, Open, Gone, Idle
  <2>4. \A f \in c : Known(f)'
    BY <1>2, <1>3, <1>9, <2>2, <2>3
  <2>5. Runs(MainMoves, p, c, c)
    BY <1>2, <1>3, <1>9, SucceedTells DEF p
  <2>6. \E k : Knows(k)'
    BY <1>1, <1>2, <1>4, <2>4, <2>5, SeenOn
  <2> QED BY <1>7, <2>2, <2>6 DEF FlowInv
<1> QED BY <1>8, <1>9

LEMMA MainCloses ==
    ASSUME LockInv, TypeRest, FlowInv, Close("main"), NEW b, NEW c, Sees(b, c)
    PROVE  FlowInv'
<1> DEFINE s == On("main")
<1>1. /\ option' = option /\ run' = run /\ valid' = valid /\ stream' = [stream EXCEPT ![s].open = FALSE]
      /\ Done("main", <<>>)
    BY DEF Close
<1>2. /\ b \in SUBSET Facts /\ c \in SUBSET Facts /\ (\A f \in b : Known(f))
      /\ Tells(b, Doing("main"), c) /\ Doing("main").do = "close" /\ Doing("main").on = s
    BY DEF Sees, Close, At, On
<1>3. /\ s \in Streams
      /\ s = "in" => Calm \in b /\ c \subseteq b \ {Open("in"), Closed("in")}
      /\ s # "in" => Gone(s) \in b /\ c \subseteq b \ Of(s)
    BY <1>2, TellsParts
<1> HIDE DEF s
<1>4. todo'["main"] = <<>> \o Tail(todo["main"]) /\ \A u \in Streams : todo'[u] = todo[u]
    BY <1>1, MainDone
<1>5. \A u \in Streams \ {s} : stream'[u].open = stream[u].open
    BY <1>1, <1>3 DEF TypeRest
<1>6. \A u \in Streams \ {s} : Untouched(u)
    BY <1>1, <1>4, <1>5 DEF Untouched
<1>7. Runs(MainMoves, <<>>, c, c)
    BY RunsNone
<1>8. CASE s = "in"
  <2>1. Quietly /\ \A u \in Outputs : Untouched(u) /\ u # s
    <3>1. \A u \in Outputs : u \in Streams \ {s}
        BY <1>8, LocksAssumption DEF Streams
    <3> QED BY <1>2, <1>3, <1>6, <1>8, <3>1 DEF Known, Calm
  <2>2. /\ \A f \in Facts \ {Open("in"), Closed("in")} : Known(f) => Known(f)'
        /\ \A u \in Streams : Leads(u, {})'
        /\ Private' => Leads("in", {"fit"})' \/ Leads("in", {"stopped"})'
    BY <1>1, <1>3, <1>4, <1>8, <2>1, InputMoved
  <2>3. \A f \in c : Known(f)'
    BY <1>2, <1>3, <1>8, <2>2
  <2>4. \E k : Knows(k)'
    BY <1>1, <1>2, <1>4, <1>7, <2>3, SeenOn
  <2>5. \A o \in Outputs : run'[o] # "none" => stream'[o].open
    BY <1>1, <1>5, <2>1 DEF FlowInv, Streams
  <2> QED BY <2>2, <2>4, <2>5 DEF FlowInv
<1>9. CASE s # "in"
  <2>1. Idle(s) /\ run[s] = "none"
    BY <1>2, <1>3, <1>9 DEF Known, Gone
  <2>2. /\ \A f \in Facts \ Of(s) : Known(f) => Known(f)'
        /\ \A u \in Streams : Leads(u, {})'
        /\ Private' => Leads("in", {"fit"})' \/ Leads("in", {"stopped"})'
    BY <1>1, <1>3, <1>4, <1>6, <1>9, <2>1, IdleMoved
  <2>3. \A f \in c : Known(f)'
    BY <1>2, <1>3, <1>9, <2>2
  <2>4. \E k : Knows(k)'
    BY <1>1, <1>2, <1>4, <1>7, <2>3, SeenOn
  <2>5. \A o \in Outputs : run'[o] # "none" => stream'[o].open
    BY <1>1, <1>5, <2>1 DEF FlowInv, Streams
  <2> QED BY <2>2, <2>4, <2>5 DEF FlowInv
<1> QED BY <1>8, <1>9

LEMMA MainCreates ==
    ASSUME LockInv, TypeRest, FlowInv, Created("main"), NEW b, NEW c, Sees(b, c)
    PROVE  FlowInv'
<1> DEFINE r == <<S("route", "in")>> u == <<S("suspending", "in")>> t == <<S("suspended", "in")>>
<1>1. /\ option' = option /\ run' = run /\ stream' = stream
      /\ Done("main", IF stream["in"].open THEN <<S("route", "in"), S("suspending", "in"), S("suspended", "in")>>
                      ELSE <<>>)
    BY DEF Created
<1>2. /\ b \in SUBSET Facts /\ c \in SUBSET Facts /\ (\A f \in b : Known(f))
      /\ Tells(b, Doing("main"), c) /\ Doing("main").do = "created"
    BY DEF Sees, Created, At
<1>3. Calm \in b /\ Gone("in") \in b /\ c \subseteq b \ Of("in") /\ "in" \in Streams
    BY <1>2, TellsParts DEF Streams
<1>4. \A u1 \in Streams : todo'[u1] = todo[u1]
    BY <1>1, MainDone
<1>5. Quietly
    BY <1>2, <1>3 DEF Known, Calm
<1>6. \A o \in Outputs : Untouched(o)
    BY <1>1, <1>4, LocksAssumption DEF Untouched, Streams
<1>7. /\ \A f \in Facts \ {Open("in"), Closed("in")} : Known(f) => Known(f)'
      /\ \A v \in Streams : Leads(v, {})'
      /\ Private' => Leads("in", {"fit"})' \/ Leads("in", {"stopped"})'
    BY <1>1, <1>3, <1>4, <1>5, <1>6, InputMoved
<1>8. {Open("in"), Closed("in")} \subseteq Of("in")
    BY <1>3, FactsOf DEF Of, Open, Closed
<1> DEFINE d == c \cup {Calm, Gone("in")}
<1>9. /\ d \in SUBSET Facts /\ Calm \in d /\ Gone("in") \in d /\ d \subseteq d
      /\ d \subseteq d \ {Open("in"), Closed("in")} /\ c \subseteq d \ Of("in")
    BY <1>2, <1>3, <1>8, FactsOf
<1>10. \A f \in d : Known(f)'
    BY <1>2, <1>3, <1>7, <1>9
<1>11. \A f \in c : Known(f)'
    BY <1>10
<1> HIDE DEF d
<1>12. Runs(MainMoves, r, d, d) /\ Runs(MainMoves, u, d, d) /\ Runs(MainMoves, t, d, c)
    BY <1>2, <1>9, InputTells
<1>13. (r \o u) \o t = <<S("route", "in"), S("suspending", "in"), S("suspended", "in")>>
    BY InOrder
<1> HIDE DEF r, u, t
<1>14. Runs(MainMoves, r \o u, d, d)
    BY <1>12, RunsJoin
<1>15. Runs(MainMoves, (r \o u) \o t, d, c)
    BY <1>12, <1>14, RunsJoin
<1>16. Runs(MainMoves, <<>>, c, c)
    BY RunsNone
<1>17. \E k : Knows(k)'
  <2>1. CASE stream["in"].open
    <3>1. todo'["main"] = ((r \o u) \o t) \o Tail(todo["main"])
        BY <1>1, <1>13, <2>1, MainDone
    <3> QED BY <1>1, <1>9, <1>10, <1>15, <3>1, SeenOn
  <2>2. CASE ~stream["in"].open
    <3>1. todo'["main"] = <<>> \o Tail(todo["main"])
        BY <1>1, <2>2, MainDone
    <3> QED BY <1>1, <1>2, <1>11, <1>16, <3>1, SeenOn
  <2> QED BY <2>1, <2>2
<1>18. \A o \in Outputs : run'[o] # "none" => stream'[o].open
    BY <1>1 DEF FlowInv
<1> QED BY <1>7, <1>17, <1>18 DEF FlowInv

LEMMA MainSets ==
    ASSUME LockInv, TypeRest, FlowInv, SetState("main"), NEW b, NEW c, Sees(b, c)
    PROVE  FlowInv'
<1>0. PICK s : s = On("main")
    OBVIOUS
<1>1. PICK st \in {"none", "suspended", "running"} :
        /\ Doing("main").do = st /\ run' = [run EXCEPT ![s] = st]
        /\ option' = option /\ valid' = valid /\ stream' = stream /\ Done("main", <<>>)
    BY <1>0 DEF SetState, At
<1>2. /\ b \in SUBSET Facts /\ c \in SUBSET Facts /\ (\A f \in b : Known(f))
      /\ Tells(b, Doing("main"), c) /\ Doing("main").on = s
    BY <1>0 DEF Sees, On
<1>3. /\ st # "none" /\ s \in Streams /\ Gone(s) \in b /\ c \subseteq b \ Of(s)
      /\ s # "in" => Open(s) \in b
      /\ s = "in" => st = "suspended"
  <2>1. st # "none" /\ s \in Streams
    BY <1>1, <1>2, TellsParts
  <2>2. CASE st = "suspended"
    BY <1>1, <1>2, <2>1, <2>2, TellsParts
  <2>3. CASE st = "running"
    BY <1>1, <1>2, <2>1, <2>3, TellsParts
  <2> QED BY <2>1, <2>2, <2>3
<1>4. todo'["main"] = <<>> \o Tail(todo["main"]) /\ \A u \in Streams : todo'[u] = todo[u]
    BY <1>1, MainDone
<1>5. run'[s] = st /\ \A u \in Streams \ {s} : run'[u] = run[u] /\ Untouched(u)
    BY <1>1, <1>3, <1>4 DEF TypeRest, Untouched
<1>6. Idle(s) /\ (s # "in" => stream[s].open)
    BY <1>2, <1>3 DEF Known, Gone, Open, Guarded, Streams
<1>7. /\ \A f \in Facts \ Of(s) : Known(f) => Known(f)'
      /\ \A u \in Streams : Leads(u, {})'
      /\ s # "in" => (Private' => Leads("in", {"fit"})' \/ Leads("in", {"stopped"})')
    BY <1>1, <1>3, <1>4, <1>5, <1>6, IdleMoved
<1>8. s = "in" => Leads("in", {"stopped"})'
  <2> SUFFICES ASSUME s = "in" PROVE Leads("in", {"stopped"})'
    OBVIOUS
  <2>1. run'["in"] = "suspended" /\ todo'["in"] = <<>>
    BY <1>3, <1>4, <1>5, <1>6 DEF Idle
  <2>2. {"stopped"} \in SUBSET Notes /\ \A n \in {"stopped"} : Noted("in", n)'
    BY <2>1 DEF Notes, Noted
  <2> QED BY <2>1, <2>2, IdleWill
<1>9. \A f \in c : Known(f)'
    BY <1>2, <1>3, <1>7
<1>10. Runs(MainMoves, <<>>, c, c)
    BY RunsNone
<1>11. \E k : Knows(k)'
    BY <1>1, <1>2, <1>4, <1>9, <1>10, SeenOn
<1>12. \A o \in Outputs : run'[o] # "none" => stream'[o].open
  <2> SUFFICES ASSUME NEW o \in Outputs, run'[o] # "none" PROVE stream'[o].open
    OBVIOUS
  <2>1. o \in Streams /\ o # "in"
    BY LocksAssumption DEF Streams
  <2> QED BY <1>1, <1>5, <1>6, <2>1 DEF FlowInv
<1> QED BY <1>7, <1>8, <1>11, <1>12 DEF FlowInv

LEMMA MainRefuses == ASSUME Refused("main"), NEW b, NEW c, Sees(b, c) PROVE FALSE
<1>1. /\ Tells(b, Doing("main"), c) /\ Doing("main").do = "suspended" /\ run[Doing("main").on] = "running"
      /\ \A f \in b : Known(f)
    BY DEF Sees, Refused, At, On
<1>2. Gone("in") \in b /\ Doing("main").on = "in"
    BY <1>1, TellsParts
<1> QED BY <1>1, <1>2 DEF Known, Gone

(* What a thread does about a message.                                     *)
LEMMA ToldMinds ==
    ASSUME NEW s \in Streams, NEW m \in {"suspend", "resume", "unlink"},
           NEW b \in SUBSET Notes, b = {"on", "there"} \cup (IF s = "in" THEN {} ELSE {"open"}),
           NEW e \in SUBSET Notes,
           m = "suspend" => e \subseteq {"there"} \cup (IF s = "in" THEN {"stopped"} ELSE {}),
           m = "resume" => e \subseteq {"there"} \cup (IF s = "in" THEN {"fit"} ELSE {}),
           m = "unlink" => e \subseteq {"gone", "stopped"}
    PROVE  Runs(IoMoves(s), Told(m, s), b, e)
<1>1. "on" \in b /\ b \subseteq b /\ (s # "in" => "open" \in b) /\ (s = "in" => b = {"on", "there"})
      /\ "there" \in b
    OBVIOUS
<1>2. CASE s # "in"
  <2> DEFINE y == <<S("standby", s)>> v == <<S("volume", s)>>
  <2>1. Runs(IoMoves(s), y, b, b) /\ Runs(IoMoves(s), v, b, b)
    BY <1>1, <1>2, AnyMinds
  <2>2. "hw" \in Mutexes
    BY DEF Mutexes
  <2>3. Runs(IoMoves(s), Under("hw", v), b, b)
    BY <1>1, <2>1, <2>2, IoSection
  <2>4. CASE m = "suspend"
    <3> DEFINE z == <<S("suspended", s)>>
    <3>1. Runs(IoMoves(s), z, b, e)
        BY <1>1, <1>2, <2>4, AnyMinds
    <3>2. Told(m, s) = y \o z
        BY <1>2, <2>4, InOrder DEF Told, SinkTold
    <3> HIDE DEF y, z
    <3> QED BY <2>1, <3>1, <3>2, RunsJoin
  <2>5. CASE m = "resume"
    <3> DEFINE z == <<S("running", s)>>
    <3>1. Runs(IoMoves(s), z, b, e)
        BY <1>1, <1>2, <2>5, AnyMinds
    <3>2. Told(m, s) = Under("hw", v) \o z
        BY <1>2, <2>5 DEF Told, SinkTold
    <3> HIDE DEF v, z
    <3> QED BY <2>3, <3>1, <3>2, RunsJoin
  <2>6. CASE m = "unlink"
    <3> DEFINE z == <<S("none", s)>>
    <3>1. Runs(IoMoves(s), z, b, e)
        BY <1>1, <1>2, <2>6, AnyMinds
    <3>2. Told(m, s) = y \o z
        BY <1>2, <2>6, InOrder DEF Told, SinkTold
    <3> HIDE DEF y, z
    <3> QED BY <2>1, <3>1, <3>2, RunsJoin
  <2> QED BY <2>4, <2>5, <2>6
<1>3. CASE s = "in"
  <2> DEFINE y == <<S("suspending", "in")>>
  <2>1. b \subseteq b \ {"open", "closed", "fit"} /\ "in" \in Streams
    BY <1>1, <1>3
  <2>2. Runs(IoMoves("in"), y, b, b)
    BY <1>1, <2>1, InputMinds
  <2>3. CASE m = "suspend"
    <3> DEFINE z == <<S("suspended", "in")>>
    <3>1. Runs(IoMoves("in"), z, b, e)
        BY <1>1, <1>3, <2>1, <2>3, AnyMinds
    <3>2. Told(m, "in") = y \o z
        BY <2>3, InOrder DEF Told, SourceTold
    <3> HIDE DEF y, z
    <3>3. Runs(IoMoves("in"), y \o z, b, e)
        BY <2>2, <3>1, RunsJoin
    <3>4. Runs(IoMoves("in"), Told(m, "in"), b, e)
        BY <3>2, <3>3
    <3> QED BY <1>3, <3>4
  <2>4. CASE m = "resume"
    <3> DEFINE z == <<S("running", "in")>> c == b \cup {"fit"}
    <3>1. c \in SUBSET Notes /\ "on" \in c /\ c \subseteq (b \ {"open", "closed"}) \cup {"fit"}
          /\ e \subseteq c \ {"on", "gone", "stopped"}
        BY <1>1, <1>3, <2>4 DEF Notes
    <3> HIDE DEF c
    <3>2. Runs(IoMoves("in"), z, c, e)
        BY <2>1, <3>1, AnyMinds
    <3>3. Runs(IoMoves("in"), Resumed, b, c)
        BY <1>1, <3>1, ResumedMinds
    <3>4. Told(m, "in") = Resumed \o z
        BY <2>4 DEF Told, SourceTold
    <3> HIDE DEF z
    <3>5. Runs(IoMoves("in"), Resumed \o z, b, e)
        BY <3>2, <3>3, RunsJoin
    <3>6. Runs(IoMoves("in"), Told(m, "in"), b, e)
        BY <3>4, <3>5
    <3> QED BY <1>3, <3>6
  <2>5. CASE m = "unlink"
    <3> DEFINE z == <<S("none", "in")>>
    <3>1. Runs(IoMoves("in"), z, b, e)
        BY <1>1, <1>3, <2>1, <2>5, AnyMinds
    <3>2. Told(m, "in") = y \o z
        BY <2>5, InOrder DEF Told, SourceTold
    <3> HIDE DEF y, z
    <3>3. Runs(IoMoves("in"), y \o z, b, e)
        BY <2>2, <3>1, RunsJoin
    <3>4. Runs(IoMoves("in"), Told(m, "in"), b, e)
        BY <3>2, <3>3
    <3> QED BY <1>3, <3>4
  <2> QED BY <2>3, <2>4, <2>5
<1> QED BY <1>2, <1>3

LEMMA TellWill ==
    ASSUME option' = option, NEW s \in Streams, run'[s] = run[s], stream'[s].open = stream[s].open,
           s = "in" => valid' = valid, NEW p, todo'[s] = p,
           NEW b \in SUBSET Notes, \A n \in b : Noted(s, n), NEW e, Runs(IoMoves(s), p, b, e)
    PROVE  Leads(s, e)'
<1>1. \A n \in b : Noted(s, n)'
    BY NotedSame
<1>2. Runs(IoMoves(s), todo[s], b, e)'
    BY SameMoves DEF Runs, Path
<1> QED BY <1>1, <1>2 DEF Leads

LEMMA ToldWill ==
    ASSUME FlowInv, NEW s \in Streams, NEW m \in {"suspend", "resume", "unlink"}, Idle(s), run[s] # "none",
           option' = option, run' = run, stream' = stream, valid' = valid,
           todo'[s] = IF Is(m, run[s]) THEN <<>> ELSE Told(m, s)
    PROVE  /\ Leads(s, {})'
           /\ m # "unlink" => Leads(s, {"there"})'
           /\ m = "unlink" => Leads(s, {"gone"})'
           /\ s = "in" /\ m # "resume" => (Private' => Leads("in", {"stopped"})')
           /\ s = "in" /\ m = "resume" => (Private' => Leads("in", {"fit"})' \/ Leads("in", {"stopped"})')
<1> DEFINE Ends == {{}, {"there"}, {"gone"}, {"stopped"}, {"fit"}}
<1>1. Ends \subseteq SUBSET Notes
    BY DEF Notes
<1>2. CASE ~Is(m, run[s])
  <2> DEFINE b == {"on", "there"} \cup (IF s = "in" THEN {} ELSE {"open"})
  <2>1. b \in SUBSET Notes /\ \A n \in b : Noted(s, n)
    BY DEF Noted, Notes, FlowInv, Streams
  <2>2. todo'[s] = Told(m, s)
    BY <1>2
  <2>3. b = {"on", "there"} \cup (IF s = "in" THEN {} ELSE {"open"})
    OBVIOUS
  <2> HIDE DEF b
  <2>4. \A e \in Ends : Runs(IoMoves(s), Told(m, s), b, e) => Leads(s, e)'
    BY <2>1, <2>2, TellWill
  <2> HIDE DEF Ends
  <2>5. {} \in Ends /\ {"there"} \in Ends /\ {"gone"} \in Ends /\ {"stopped"} \in Ends /\ {"fit"} \in Ends
    BY DEF Ends
  <2>6. /\ {} \in SUBSET Notes /\ {"there"} \in SUBSET Notes /\ {"gone"} \in SUBSET Notes
        /\ {"stopped"} \in SUBSET Notes /\ {"fit"} \in SUBSET Notes
    BY <1>1, <2>5
  <2>7. Runs(IoMoves(s), Told(m, s), b, {})
    BY <2>1, <2>3, <2>6, ToldMinds
  <2>8. m # "unlink" => Runs(IoMoves(s), Told(m, s), b, {"there"})
    BY <2>1, <2>3, <2>6, ToldMinds
  <2>9. m = "unlink" => Runs(IoMoves(s), Told(m, s), b, {"gone"})
    BY <2>1, <2>3, <2>6, ToldMinds
  <2>10. s = "in" /\ m # "resume" => Runs(IoMoves(s), Told(m, s), b, {"stopped"})
    BY <2>1, <2>3, <2>6, ToldMinds
  <2>11. s = "in" /\ m = "resume" => Runs(IoMoves(s), Told(m, s), b, {"fit"})
    BY <2>1, <2>3, <2>6, ToldMinds
  <2>12. /\ Leads(s, {})'
         /\ m # "unlink" => Leads(s, {"there"})'
         /\ m = "unlink" => Leads(s, {"gone"})'
    BY <2>4, <2>5, <2>7, <2>8, <2>9
  <2>13. /\ s = "in" /\ m # "resume" => Leads(s, {"stopped"})'
         /\ s = "in" /\ m = "resume" => Leads(s, {"fit"})'
    BY <2>4, <2>5, <2>10, <2>11
  <2> QED BY <2>12, <2>13
<1>3. CASE Is(m, run[s])
  <2>1. /\ todo'[s] = <<>> /\ m # "unlink" /\ todo'[s] = todo[s]
        /\ m = "suspend" => run[s] # "running"
    BY <1>3 DEF Is, Idle
  <2>2. (\A n \in {} : Noted(s, n)') /\ (\A n \in {"there"} : Noted(s, n)')
    BY DEF Noted
  <2>3. Leads(s, {})' /\ Leads(s, {"there"})'
    BY <1>1, <2>1, <2>2, IdleWill
  <2>4. m = "suspend" => \A n \in {"stopped"} : Noted(s, n)'
    BY <2>1 DEF Noted
  <2>5. m = "suspend" => Leads(s, {"stopped"})'
    BY <1>1, <2>1, <2>4, IdleWill
  <2>6. Untouched(s) /\ Private' = Private
    BY <2>1, SameMoves DEF Untouched
  <2>7. s = "in" => (Private' => Leads("in", {"fit"})' \/ Leads("in", {"stopped"})')
    BY <2>6, LeadsSame DEF FlowInv
  <2> QED BY <2>1, <2>3, <2>5, <2>7
<1> QED BY <1>2, <1>3

LEMMA MainSends ==
    ASSUME LockInv, FlowInv, Send("main"), NEW b, NEW c, Sees(b, c)
    PROVE  FlowInv'
<1>0. PICK s : s = On("main")
    OBVIOUS
<1>1. PICK m \in {"suspend", "resume", "unlink"} :
        /\ Doing("main").do = m /\ Idle(s)
        /\ todo' = [todo EXCEPT !["main"] = Tail(@),
                                ![s] = IF Is(m, run[s]) THEN <<>> ELSE Told(m, s)]
    BY <1>0 DEF Send, At
<1>2. option' = option /\ run' = run /\ stream' = stream /\ valid' = valid
    BY DEF Send
<1>3. /\ b \in SUBSET Facts /\ c \in SUBSET Facts /\ (\A f \in b : Known(f))
      /\ Tells(b, Doing("main"), c) /\ Doing("main").on = s
      /\ Runs(MainMoves, Tail(todo["main"]), c, {Rest})
    BY <1>0 DEF Sees, On
<1>4. s \in Streams /\ {Alive(s), Rest} \subseteq b
    BY <1>1, <1>3, TellsParts, AskParts
<1>5. /\ m # "unlink" => c \subseteq {Asked(s), Alive(s)}
                             \cup (IF s = "in" /\ m = "suspend" THEN {Halting} ELSE {})
      /\ m = "unlink" => c \subseteq {Asked(s), Leaving(s)} \cup (IF s = "in" THEN {Halting} ELSE {})
    BY <1>1, <1>3, AskParts
<1>6. s # "main" /\ s \in Threads /\ "main" \in Threads /\ \A u \in Streams : u \in Threads /\ u # "main"
    BY <1>4, LocksAssumption DEF Threads, Streams
<1>7. /\ todo'["main"] = Tail(todo["main"])
      /\ todo'[s] = IF Is(m, run[s]) THEN <<>> ELSE Told(m, s)
      /\ \A u \in Streams \ {s} : todo'[u] = todo[u]
    BY <1>1, <1>6 DEF LockInv, Handling
<1>8. \A u \in Streams \ {s} : Untouched(u)
    BY <1>2, <1>7 DEF Untouched
<1>9. run[s] # "none"
  <2>1. Leads(s, {"there"}) /\ {"there"} \in SUBSET Notes
    BY <1>3, <1>4 DEF Known, Alive, Notes
  <2>2. Noted(s, "there")
    BY <1>1, <2>1, IdleLeads
  <2> QED BY <2>2 DEF Noted
<1>10. /\ Leads(s, {})'
       /\ m # "unlink" => Leads(s, {"there"})'
       /\ m = "unlink" => Leads(s, {"gone"})'
       /\ s = "in" /\ m # "resume" => (Private' => Leads("in", {"stopped"})')
       /\ s = "in" /\ m = "resume" => (Private' => Leads("in", {"fit"})' \/ Leads("in", {"stopped"})')
    BY <1>1, <1>2, <1>4, <1>7, <1>9, ToldWill
<1>11. \A u \in Streams \ {s} : \A e : Leads(u, e) => Leads(u, e)'
    BY <1>2, <1>8, LeadsSame
<1>12. Private' = Private /\ MainMoves' = MainMoves
    BY <1>2, SameMoves
<1>13. Known(Asked(s))'
  <2>1. \A u \in Streams : Settled(u)
    BY <1>3, <1>4 DEF Known, Rest
  <2>2. \A u \in Streams \ {s} : Settled(u)'
    BY <1>2, <1>8, <2>1, SettledSame
  <2> QED BY <2>2 DEF Known, Asked
<1>14. m # "unlink" => Known(Alive(s))'
    BY <1>10 DEF Known, Alive
<1>15. m = "unlink" => Known(Leaving(s))'
    BY <1>10 DEF Known, Leaving
<1>16. s = "in" /\ m # "resume" => Known(Halting)'
    BY <1>10 DEF Known, Halting
<1>17. \A f \in c : Known(f)'
  <2>1. CASE m = "unlink"
    BY <1>5, <1>13, <1>15, <1>16, <2>1
  <2>2. CASE m = "suspend"
    BY <1>5, <1>13, <1>14, <1>16, <2>2
  <2>3. CASE m = "resume"
    BY <1>5, <1>13, <1>14, <2>3
  <2> QED BY <2>1, <2>2, <2>3
<1>18. Runs(MainMoves, todo["main"], c, {Rest})'
    BY <1>3, <1>7, <1>12 DEF Runs, Path, Rest
<1>19. Knows(c)'
    BY <1>3, <1>17, <1>18 DEF Knows
<1>20. \A u \in Streams : Leads(u, {})'
    BY <1>10, <1>11 DEF FlowInv
<1>21. Private' => Leads("in", {"fit"})' \/ Leads("in", {"stopped"})'
  <2>1. CASE s = "in"
    BY <1>10, <2>1
  <2>2. CASE s # "in"
    BY <1>11, <1>12, <2>2 DEF FlowInv, Streams
  <2> QED BY <2>1, <2>2
<1>22. \A o \in Outputs : run'[o] # "none" => stream'[o].open
    BY <1>2 DEF FlowInv
<1> QED BY <1>19, <1>20, <1>21, <1>22 DEF FlowInv

LEMMA MainStepKeeps ==
    ASSUME LockInv, TypeRest, FlowInv, Step("main")
    PROVE  FlowInv'
<1>1. ~Idle("main")
    BY DEF Step, Lock, Unlock, Call, Look, OpenBegins, OpenSucceeds, OpenFails, DefaultsDoNotFit,
           Handle, Close, Created, SetState, Refused, SetValid, Send, At, Doing, Idle, S
<1>2. PICK b, c : Sees(b, c)
    BY <1>1, NextSeen
<1>3. CASE Lock("main") \/ Unlock("main") \/ Call("main") \/ Handle("main") \/ DefaultsDoNotFit("main")
    BY <1>2, <1>3, MainCalls
<1>4. CASE Look("main")
    BY <1>2, <1>4, MainLooks
<1>5. CASE OpenBegins("main") \/ OpenFails("main")
    BY <1>2, <1>5, MainOpens
<1>6. CASE OpenSucceeds("main")
    BY <1>2, <1>6, MainSucceeds
<1>7. CASE Close("main")
    BY <1>2, <1>7, MainCloses
<1>8. CASE Created("main")
    BY <1>2, <1>8, MainCreates
<1>9. CASE SetState("main")
    BY <1>2, <1>9, MainSets
<1>10. CASE Refused("main")
    BY <1>2, <1>10, MainRefuses
<1>11. CASE SetValid("main")
  <2>1. Tells(b, Doing("main"), c) /\ Doing("main").do = "valid"
    BY <1>2, <1>11 DEF Sees, SetValid, At
  <2> QED BY <2>1, TellsParts
<1>12. CASE Send("main")
    BY <1>2, <1>12, MainSends
<1> QED
    BY <1>3, <1>4, <1>5, <1>6, <1>7, <1>8, <1>9, <1>10, <1>11, <1>12 DEF Step

-----------------------------------------------------------------------------
(* The streams are open.                                                   *)

LEMMA FlowInvInit == Init => FlowInv
<1> SUFFICES ASSUME Init PROVE FlowInv
    OBVIOUS
<1>1. \A s \in Streams : Idle(s) /\ run[s] = "none"
    BY DEF Init, Idle, Threads
<1>2. {} \in SUBSET Notes /\ {"stopped"} \in SUBSET Notes /\ "in" \in Streams
    BY DEF Notes, Streams
<1>3. \A s \in Streams : Leads(s, {})
    BY <1>1, <1>2, IdleLeads
<1>4. Leads("in", {"stopped"})
  <2>1. Noted("in", "stopped")
    BY <1>1, <1>2 DEF Noted
  <2> QED BY <1>1, <1>2, <2>1, IdleLeads
<1>5. \E b : Knows(b)
  <2>1. {Rest} \in SUBSET Facts
    BY DEF Facts
  <2>2. Known(Rest)
    BY <1>1 DEF Known, Rest, Settled
  <2>3. todo["main"] = <<>>
    BY DEF Init, Threads
  <2>4. Runs(MainMoves, todo["main"], {Rest}, {Rest})
    BY <2>3, RunsNone
  <2>5. Knows({Rest})
    BY <2>1, <2>2, <2>4 DEF Knows
  <2> QED BY <2>5
<1>6. \A o \in Outputs : run[o] = "none"
    BY <1>1 DEF Streams
<1> QED BY <1>3, <1>4, <1>5, <1>6 DEF FlowInv

LEMMA FlowInvStep == LockInv /\ TypeRest /\ FlowInv /\ [Next]_vars => FlowInv'
<1> SUFFICES ASSUME LockInv, TypeRest, FlowInv, [Next]_vars PROVE FlowInv'
    OBVIOUS
<1>1. ASSUME NEW t \in Threads, Step(t) PROVE FlowInv'
  <2>1. CASE t = "main"
    BY <1>1, <2>1, MainStepKeeps
  <2>2. CASE t \in Streams
    BY <1>1, <2>2, IoStepKeeps
  <2> QED BY <2>1, <2>2 DEF Threads
<1>2. CASE MainHandler
    BY <1>2, HandlerKeeps
<1>3. ASSUME NEW o \in Outputs, Render(o) PROVE FlowInv'
    BY <1>3, RenderKeeps
<1>4. CASE Record
    BY <1>4, RecordKeeps
<1>5. CASE UNCHANGED vars
  <2>1. /\ option' = option /\ todo' = todo /\ stream' = stream /\ run' = run /\ valid' = valid
        /\ \A u \in Streams : Untouched(u)
    BY <1>5 DEF vars, Untouched
  <2>2. \A u \in Streams : \A e : Leads(u, e) => Leads(u, e)'
    BY <2>1, LeadsSame
  <2>3. \E b : Knows(b)'
    <3>1. PICK b : Knows(b)
        BY DEF FlowInv
    <3>2. \A f \in b : Known(f)'
        BY <2>1, <3>1, KnownStays DEF Knows
    <3>3. MainMoves' = MainMoves
        BY <2>1, SameMoves
    <3>4. Runs(MainMoves, todo["main"], b, {Rest})'
        BY <2>1, <3>1, <3>3 DEF Knows, Runs, Path
    <3> QED BY <3>1, <3>2, <3>4 DEF Knows
  <2>4. Private' = Private
    BY <2>1, SameMoves
  <2>5. Private' => Leads("in", {"fit"})' \/ Leads("in", {"stopped"})'
    BY <2>2, <2>4 DEF FlowInv, Streams
  <2>6. \A u \in Streams : Leads(u, {})'
    BY <2>2 DEF FlowInv
  <2>7. \A o \in Outputs : run'[o] # "none" => stream'[o].open
    BY <2>1 DEF FlowInv
  <2> QED BY <2>3, <2>5, <2>6, <2>7 DEF FlowInv
<1> QED BY <1>1, <1>2, <1>3, <1>4, <1>5 DEF Next

(* What either kind of thread knows before it uses a stream.               *)
LEMMA MainUses ==
    ASSUME FlowInv, Doing("main").do \in {"use", "volume"}
    PROVE  stream[On("main")].open \/ (On("main") = "in" /\ ~Private)
<1>1. ~Idle("main")
    BY DEF Doing, Idle, S
<1>2. PICK b, c : Sees(b, c)
    BY <1>1, NextSeen
<1>3. /\ Tells(b, Doing("main"), c) /\ On("main") = Doing("main").on
      /\ \A f \in b : Known(f)
    BY <1>2 DEF Sees, On
<1>4. On("main") \in Streams /\ (Open(On("main")) \in b \/ (On("main") = "in" /\ ~Private))
    BY <1>3, TellsParts
<1>5. PICK s \in Streams : s = On("main")
    BY <1>4
<1>6. Open(s) \in b => (Guarded(s) => stream[s].open)
    BY <1>3 DEF Known, Open
<1> QED BY <1>4, <1>5, <1>6 DEF Guarded, Streams

LEMMA ThreadUses ==
    ASSUME FlowInv, NEW t \in Streams, Doing(t).do \in {"use", "volume"}
    PROVE  stream[On(t)].open \/ (On(t) = "in" /\ ~Private)
<1>1. ~Idle(t) /\ Leads(t, {})
    BY DEF Doing, Idle, S, FlowInv
<1>2. PICK b, c : Reads(t, b, c)
    BY <1>1, NextMinded
<1>3. Minds(t, b, Doing(t), c) /\ \A n \in b : Noted(t, n)
    BY <1>2 DEF Reads
<1>4. On(t) = t /\ (Guarded(t) => "open" \in b)
    BY <1>3, MindsParts DEF On
<1>5. Guarded(t) => stream[t].open
    BY <1>3, <1>4 DEF Noted
<1> QED BY <1>4, <1>5 DEF Guarded, Streams

(* No thread plays, routes, records from or sets the volume of a stream    *)
(* that is closed, and no thread of a sink outlives its stream, whatever   *)
(* the threads do in whatever order, and however many outputs there are.   *)
THEOREM StreamsAreOpen == Spec => []NoUseAfterClose
<1> DEFINE Inv == LockInv /\ TypeRest /\ FlowInv
<1>1. Init => Inv
  <2>1. Init => TypeRest
    BY DEF Init, TypeRest, Streams
  <2> QED BY <2>1, LockInvInit, FlowInvInit
<1>2. Inv /\ [Next]_vars => Inv'
    BY LockInvStep, TypeRestStep, FlowInvStep
<1>3. Inv => NoUseAfterClose
  <2> SUFFICES ASSUME FlowInv, NEW t \in Threads, Doing(t).do \in {"use", "volume"}
               PROVE  stream[On(t)].open \/ (On(t) = "in" /\ ~Private)
    BY DEF NoUseAfterClose, Private
  <2>1. CASE t = "main"
    BY <2>1, MainUses
  <2>2. CASE t \in Streams
    BY <2>2, ThreadUses
  <2> QED BY <2>1, <2>2 DEF Threads
<1> QED BY <1>1, <1>2, <1>3, PTL DEF Spec

-----------------------------------------------------------------------------
(* Steps that read stream_id only follow those that counted it up.         *)

PlainSteps == {s \in Steps : s.do \notin {"opened", "handle"}}

LEMMA PlainLocks ==
    ASSUME NEW m \in Mutexes PROVE S("lock", m) \in PlainSteps /\ S("unlock", m) \in PlainSteps
BY LockSteps DEF PlainSteps

LEMMA PlainStream ==
    ASSUME NEW s \in Streams, NEW do \in Quiet \cup Touches \cup Asks, do \notin {"opened", "handle"}
    PROVE  S(do, s) \in PlainSteps
BY StreamSteps DEF PlainSteps

LEMMA PlainSome ==
    /\ <<>> \in Seq(PlainSteps)
    /\ \A r \in PlainSteps : <<r>> \in Seq(PlainSteps)
    /\ \A r, s \in PlainSteps : <<r, s>> \in Seq(PlainSteps)
    /\ \A r, s, u \in PlainSteps : <<r, s, u>> \in Seq(PlainSteps)
BY EmptySeq

LEMMA PlainJoin ==
    ASSUME NEW p \in Seq(PlainSteps), NEW q \in Seq(PlainSteps) PROVE p \o q \in Seq(PlainSteps)
BY ConcatProperties

LEMMA PlainUnder ==
    ASSUME NEW m \in Mutexes, NEW p \in Seq(PlainSteps) PROVE Under(m, p) \in Seq(PlainSteps)
<1> DEFINE l == S("lock", m) u == S("unlock", m)
<1>1. l \in PlainSteps /\ u \in PlainSteps
    BY PlainLocks
<1> HIDE DEF l, u
<1>2. <<l>> \in Seq(PlainSteps) /\ <<u>> \in Seq(PlainSteps)
    BY <1>1, PlainSome
<1>3. (<<l>> \o p) \o <<u>> \in Seq(PlainSteps)
    BY <1>2, PlainJoin
<1> QED BY <1>3 DEF Under, l, u

(* Every step about a stream that handlers are made of.                    *)
LEMMA PlainDo ==
    ASSUME NEW s \in Streams
    PROVE  /\ S("standby", s) \in PlainSteps /\ S("closing", s) \in PlainSteps
           /\ S("suspending", s) \in PlainSteps /\ S("opening", s) \in PlainSteps
           /\ S("created", s) \in PlainSteps /\ S("read", s) \in PlainSteps
           /\ S("valid", s) \in PlainSteps /\ S("none", s) \in PlainSteps
           /\ S("suspended", s) \in PlainSteps /\ S("running", s) \in PlainSteps
           /\ S("open", s) \in PlainSteps /\ S("volume", s) \in PlainSteps
           /\ S("route", s) \in PlainSteps /\ S("use", s) \in PlainSteps /\ S("close", s) \in PlainSteps
           /\ S("suspend", s) \in PlainSteps /\ S("resume", s) \in PlainSteps
           /\ S("unlink", s) \in PlainSteps /\ S("wait", s) \in PlainSteps
BY PlainStream DEF Quiet, Touches, Asks

LEMMA PlainSection ==
    ASSUME NEW s \in Streams
    PROVE  /\ Under(MutexOf(s), <<S("use", s)>>) \in Seq(PlainSteps)
           /\ Under("hw", <<S("volume", s)>>) \in Seq(PlainSteps)
           /\ SetRoute(s) \in Seq(PlainSteps) /\ Standby(s) \in Seq(PlainSteps)
<1>1. MutexOf(s) \in Mutexes /\ "hw" \in Mutexes
    BY DEF Mutexes, MutexOf
<1>2. <<S("use", s)>> \in Seq(PlainSteps) /\ <<S("volume", s)>> \in Seq(PlainSteps)
    BY PlainDo, PlainSome
<1>3. Under(MutexOf(s), <<S("use", s)>>) \in Seq(PlainSteps)
    BY <1>1, <1>2, PlainUnder
<1>4. Under("hw", <<S("volume", s)>>) \in Seq(PlainSteps)
    BY <1>1, <1>2, PlainUnder
<1>5. SetRoute(s) \in Seq(PlainSteps)
    BY <1>3, PlainSome DEF SetRoute
<1>6. Standby(s) \in Seq(PlainSteps)
    BY <1>3, PlainSome DEF Standby
<1> QED BY <1>3, <1>4, <1>5, <1>6

LEMMA PlainInput ==
    /\ CloseInput \in Seq(PlainSteps) /\ SuspendInput \in Seq(PlainSteps)
    /\ OpenInput \in Seq(PlainSteps) /\ Resumed \in Seq(PlainSteps) /\ Reopen \in Seq(PlainSteps)
<1>1. "in" \in Streams /\ "input" \in Mutexes /\ "hw" \in Mutexes
    BY DEF Streams, Mutexes
<1>2. <<S("use", "in"), S("close", "in")>> \in Seq(PlainSteps)
    BY <1>1, PlainDo, PlainSome
<1>3. Under("input", <<S("use", "in"), S("close", "in")>>) \in Seq(PlainSteps)
    BY <1>1, <1>2, PlainUnder
<1>4. CloseInput \in Seq(PlainSteps)
    BY <1>3, PlainSome DEF CloseInput
<1>5. SuspendInput \in Seq(PlainSteps)
    BY <1>1, <1>4, PlainSection DEF SuspendInput
<1>6. OpenInput \in Seq(PlainSteps)
  <2>1. <<S("lock", "hw"), S("open", "in")>> \in Seq(PlainSteps)
    BY <1>1, PlainLocks, PlainDo, PlainSome
  <2> QED BY <2>1, PlainSome DEF OpenInput
<1>7. Resumed \in Seq(PlainSteps)
  <2>1. <<S("opening", "in"), S("valid", "in")>> \in Seq(PlainSteps)
        /\ <<S("valid", "in")>> \in Seq(PlainSteps)
    BY <1>1, PlainDo, PlainSome
  <2> QED BY <2>1 DEF Resumed
<1>8. Reopen \in Seq(PlainSteps)
    BY <1>1, PlainDo, PlainSome DEF Reopen
<1> QED BY <1>4, <1>5, <1>6, <1>7, <1>8

LEMMA PlainTold ==
    ASSUME NEW s \in Streams, NEW m \in {"suspend", "resume", "unlink"}
    PROVE  Told(m, s) \in Seq(PlainSteps) /\ Ask(m, s) \in Seq(PlainSteps)
<1>1. "in" \in Streams
    BY DEF Streams
<1>2. Ask(m, s) \in Seq(PlainSteps)
    BY PlainDo, PlainSome DEF Ask
<1>3. <<S("running", s)>> \in Seq(PlainSteps)
    BY PlainDo, PlainSome
<1>4. SinkTold(m, s) \in Seq(PlainSteps)
  <2>1. <<S("standby", s), S("suspended", s)>> \in Seq(PlainSteps)
        /\ <<S("standby", s), S("none", s)>> \in Seq(PlainSteps)
    BY PlainDo, PlainSome
  <2>2. Under("hw", <<S("volume", s)>>) \o <<S("running", s)>> \in Seq(PlainSteps)
    BY <1>3, PlainSection, PlainJoin
  <2> QED BY <2>1, <2>2 DEF SinkTold
<1>5. s = "in" => SourceTold(m) \in Seq(PlainSteps)
  <2> SUFFICES ASSUME s = "in" PROVE SourceTold(m) \in Seq(PlainSteps)
    OBVIOUS
  <2>1. <<S("suspending", "in"), S("suspended", "in")>> \in Seq(PlainSteps)
        /\ <<S("suspending", "in"), S("none", "in")>> \in Seq(PlainSteps)
    BY <1>1, PlainDo, PlainSome
  <2>2. Resumed \o <<S("running", "in")>> \in Seq(PlainSteps)
    BY <1>3, PlainInput, PlainJoin
  <2> QED BY <2>1, <2>2 DEF SourceTold
<1> QED BY <1>2, <1>4, <1>5 DEF Told

(* What starts handlers.                                                   *)
LEMMA PlainHandlers ==
    ASSUME MainHandler PROVE \E p \in Seq(PlainSteps) : Starts("main", p)
<1>1. "in" \in Streams /\ "hw" \in Mutexes /\ "output" \in Mutexes /\ Primary \in Streams
      /\ \A o \in Outputs : o \in Streams
    BY LocksAssumption DEF Streams, Mutexes
<1>2. ASSUME NEW o \in Outputs, OpenOutput(o) PROVE \E p \in Seq(PlainSteps) : Starts("main", p)
  <2>1. <<S("lock", "hw"), S("open", o), S("route", Primary)>> \in Seq(PlainSteps)
    BY <1>1, PlainLocks, PlainDo, PlainSome
  <2>2. Under("hw", <<S("volume", o)>>) \in Seq(PlainSteps) /\ <<S("running", o)>> \in Seq(PlainSteps)
    BY <1>1, PlainSection, PlainDo, PlainSome
  <2>3. <<S("lock", "hw"), S("open", o), S("route", Primary)>> \o Under("hw", <<S("volume", o)>>)
        \in Seq(PlainSteps)
    BY <2>1, <2>2, PlainJoin
  <2>4. <<S("lock", "hw"), S("open", o), S("route", Primary)>> \o Under("hw", <<S("volume", o)>>)
        \o <<S("running", o)>> \in Seq(PlainSteps)
    BY <2>2, <2>3, PlainJoin
  <2> QED BY <1>2, <2>4 DEF OpenOutput
<1>3. ASSUME NEW o \in Outputs, CloseOutput(o) PROVE \E p \in Seq(PlainSteps) : Starts("main", p)
  <2>1. <<S("close", o)>> \in Seq(PlainSteps)
    BY <1>1, PlainDo, PlainSome
  <2>2. Under("output", <<S("close", o)>>) \in Seq(PlainSteps) /\ Ask("unlink", o) \in Seq(PlainSteps)
    BY <1>1, <2>1, PlainUnder, PlainTold
  <2>3. Ask("unlink", o) \o Under("output", <<S("close", o)>>) \in Seq(PlainSteps)
    BY <2>2, PlainJoin
  <2> QED BY <1>3, <2>3 DEF CloseOutput
<1>4. ASSUME NEW o \in Outputs, Route(o) PROVE \E p \in Seq(PlainSteps) : Starts("main", p)
    BY <1>1, <1>4, PlainSection DEF Route
<1>5. ASSUME NEW o \in Outputs, NEW m \in {"suspend", "resume"}, SinkState(o, m)
      PROVE  \E p \in Seq(PlainSteps) : Starts("main", p)
    BY <1>1, <1>5, PlainTold DEF SinkState
<1>6. CASE NewSource
  <2>1. <<S("opening", "in"), S("created", "in")>> \in Seq(PlainSteps)
    BY <1>1, PlainDo, PlainSome
  <2> QED BY <1>6, <2>1 DEF NewSource
<1>7. CASE FreeSource
  <2>1. <<S("closing", "in")>> \in Seq(PlainSteps) /\ Ask("unlink", "in") \in Seq(PlainSteps)
    BY <1>1, PlainDo, PlainSome, PlainTold
  <2>2. Ask("unlink", "in") \o <<S("closing", "in")>> \in Seq(PlainSteps)
    BY <2>1, PlainJoin
  <2> QED BY <1>7, <2>2 DEF FreeSource
<1>8. ASSUME NEW m \in {"suspend", "resume"}, SourceState(m)
      PROVE  \E p \in Seq(PlainSteps) : Starts("main", p)
    BY <1>1, <1>8, PlainTold DEF SourceState
<1>9. ASSUME NEW p \in {<<>>, <<S("route", "in")>>}, Reconfigure(p)
      PROVE  \E q \in Seq(PlainSteps) : Starts("main", q)
  <2>1. p \in Seq(PlainSteps)
    BY <1>1, PlainDo, PlainSome
  <2>2. p \o Reopen \in Seq(PlainSteps)
    BY <2>1, PlainInput, PlainJoin
  <2>3. Ask("suspend", "in") \in Seq(PlainSteps) /\ Ask("resume", "in") \in Seq(PlainSteps)
    BY <1>1, PlainTold
  <2>4. Ask("suspend", "in") \o p \in Seq(PlainSteps)
    BY <2>1, <2>3, PlainJoin
  <2>5. Ask("suspend", "in") \o p \o Reopen \in Seq(PlainSteps)
    BY <2>4, PlainInput, PlainJoin
  <2>6. Ask("suspend", "in") \o p \o Reopen \o Ask("resume", "in") \in Seq(PlainSteps)
    BY <2>3, <2>5, PlainJoin
  <2> QED BY <1>9, <2>2, <2>6 DEF Reconfigure
<1>10. CASE HalCall
  <2>1. S("hal", "hw") \in PlainSteps
    BY DEF PlainSteps, Steps, StepsOf, S
  <2>2. <<S("hal", "hw")>> \in Seq(PlainSteps)
    BY <2>1, PlainSome
  <2>3. Under("hw", <<S("hal", "hw")>>) \in Seq(PlainSteps)
    BY <1>1, <2>2, PlainUnder
  <2> QED BY <1>10, <2>3 DEF HalCall
<1>11. ASSUME NEW p \in {<<>>, <<S("route", Primary)>>}, SetModeInCall(p)
       PROVE  \E q \in Seq(PlainSteps) : Starts("main", q)
  <2>1. S("hal", "hw") \in PlainSteps
    BY DEF PlainSteps, Steps, StepsOf, S
  <2>2. p \in Seq(PlainSteps)
    BY <1>1, PlainDo, PlainSome
  <2>3. <<S("hal", "hw"), S("route", Primary)>> \in Seq(PlainSteps)
    BY <1>1, <2>1, PlainDo, PlainSome
  <2>4. Under("hw", <<S("hal", "hw"), S("route", Primary)>>) \in Seq(PlainSteps)
    BY <1>1, <2>3, PlainUnder
  <2>5. p \o Under("hw", <<S("hal", "hw"), S("route", Primary)>>) \in Seq(PlainSteps)
    BY <2>2, <2>4, PlainJoin
  <2> QED BY <1>11, <2>5 DEF SetModeInCall
<1> QED BY <1>2, <1>3, <1>4, <1>5, <1>6, <1>7, <1>8, <1>9, <1>10, <1>11 DEF MainHandler

LEMMA PlainRounds ==
    /\ \A o \in Outputs : Render(o) => \E p \in Seq(PlainSteps) : Starts(o, p)
    /\ Record => \E p \in Seq(PlainSteps) : Starts("in", p)
<1>1. ASSUME NEW o \in Outputs, Render(o) PROVE \E p \in Seq(PlainSteps) : Starts(o, p)
  <2>1. o \in Streams
    BY DEF Streams
  <2>2. <<S("use", o)>> \in Seq(PlainSteps) /\ Under("hw", <<S("volume", o)>>) \in Seq(PlainSteps)
    BY <2>1, PlainDo, PlainSome, PlainSection
  <2>3. Under("hw", <<S("volume", o)>>) \o <<S("use", o)>> \in Seq(PlainSteps)
    BY <2>2, PlainJoin
  <2> QED BY <1>1, <2>3 DEF Render
<1>2. ASSUME Record PROVE \E p \in Seq(PlainSteps) : Starts("in", p)
  <2> DEFINE q == IF valid THEN <<>> ELSE Resumed
  <2>1. <<S("read", "in")>> \in Seq(PlainSteps)
    BY PlainDo, PlainSome DEF Streams
  <2>2. q \in Seq(PlainSteps)
    BY PlainSome, PlainInput
  <2>3. q \o <<S("read", "in")>> \in Seq(PlainSteps)
    BY <2>1, <2>2, PlainJoin
  <2> QED BY <1>2, <2>3 DEF Record
<1> QED BY <1>1, <1>2

-----------------------------------------------------------------------------
(* Threads that are to read stream_id for a stream.                        *)

Handing(p, s) == Contains(p, S("handle", s))

LEMMA HandingNone ==
    ASSUME NEW p \in Seq(PlainSteps), NEW s PROVE ~Handing(p, s)
<1>1. \A k \in 1..Len(p) : p[k] \in PlainSteps
    OBVIOUS
<1>2. \A k \in 1..Len(p) : p[k].do # "handle"
    BY <1>1 DEF PlainSteps
<1>3. S("handle", s).do = "handle"
    BY DEF S
<1> QED BY <1>2, <1>3 DEF Handing, Contains

LEMMA HandingFirst ==
    ASSUME NEW p \in Seq(Steps), p # <<>>, NEW s
    PROVE  Handing(p, s) <=> Head(p) = S("handle", s) \/ Handing(Tail(p), s)
<1> DEFINE h == S("handle", s) q == Tail(p)
<1>1. /\ Len(p) \in Nat /\ Len(p) > 0 /\ Len(q) = Len(p) - 1 /\ Head(p) = p[1]
      /\ \A k \in 1..Len(q) : q[k] = p[k + 1]
    BY EmptySeq, HeadTailProperties, LenProperties
<1> HIDE DEF h, q
<1>2. ASSUME NEW k \in 1..Len(p), p[k] = h PROVE Head(p) = h \/ \E j \in 1..Len(q) : q[j] = h
  <2>1. CASE k = 1
    BY <1>1, <1>2, <2>1
  <2>2. CASE k # 1
    <3>1. k - 1 \in 1..Len(q) /\ q[k - 1] = p[(k - 1) + 1] /\ (k - 1) + 1 = k
        BY <1>1, <1>2, <2>2
    <3>2. q[k - 1] = h
        BY <1>2, <3>1
    <3> QED BY <3>1, <3>2
  <2> QED BY <2>1, <2>2
<1>3. ASSUME NEW k \in 1..Len(q), q[k] = h PROVE \E j \in 1..Len(p) : p[j] = h
  <2>1. k + 1 \in 1..Len(p) /\ p[k + 1] = h
    BY <1>1, <1>3
  <2> QED BY <2>1
<1>4. Head(p) = h => \E j \in 1..Len(p) : p[j] = h
    BY <1>1
<1>5. (\E j \in 1..Len(p) : p[j] = h) <=> Head(p) = h \/ \E j \in 1..Len(q) : q[j] = h
    BY <1>2, <1>3, <1>4
<1> QED BY <1>5 DEF Handing, Contains, h, q

LEMMA HandingJoin ==
    ASSUME NEW p \in Seq(Steps), NEW q \in Seq(Steps), NEW s
    PROVE  Handing(p \o q, s) <=> Handing(p, s) \/ Handing(q, s)
<1> DEFINE h == S("handle", s) m == Len(p) n == Len(q) r == p \o q
<1>1. /\ m \in Nat /\ n \in Nat /\ Len(r) = m + n
      /\ \A k \in 1..m + n : r[k] = IF k <= m THEN p[k] ELSE q[k - m]
    BY ConcatProperties, LenProperties
<1> HIDE DEF h, m, n, r
<1>2. ASSUME NEW k \in 1..m + n, r[k] = h
      PROVE  (\E j \in 1..m : p[j] = h) \/ \E j \in 1..n : q[j] = h
  <2>1. CASE k <= m
    BY <1>1, <1>2, <2>1
  <2>2. CASE ~(k <= m)
    <3>1. k - m \in 1..n /\ q[k - m] = h
        BY <1>1, <1>2, <2>2
    <3> QED BY <3>1
  <2> QED BY <2>1, <2>2
<1>3. ASSUME NEW k \in 1..m, p[k] = h PROVE \E j \in 1..m + n : r[j] = h
  <2>1. k \in 1..m + n /\ k <= m
    BY <1>1
  <2>2. r[k] = h
    BY <1>1, <1>3, <2>1
  <2> QED BY <2>1, <2>2
<1>4. ASSUME NEW k \in 1..n, q[k] = h PROVE \E j \in 1..m + n : r[j] = h
  <2>1. m + k \in 1..m + n /\ ~(m + k <= m) /\ (m + k) - m = k
    BY <1>1
  <2>2. r[m + k] = h
    BY <1>1, <1>4, <2>1
  <2> QED BY <2>1, <2>2
<1>5. (\E j \in 1..m + n : r[j] = h) <=> (\E j \in 1..m : p[j] = h) \/ \E j \in 1..n : q[j] = h
    BY <1>2, <1>3, <1>4
<1>6. Len(r) = m + n
    BY <1>1
<1> QED BY <1>5, <1>6 DEF Handing, Contains, h, m, n, r

(* Where a handler stands about a stream it opens: it has just begun to,   *)
(* or is to read stream_id next, or when it has unlocked hw_mutex.         *)
Soon(p) ==
    \/ p \in Seq(PlainSteps)
    \/ /\ p \in Seq(Steps) /\ p # <<>>
       /\ \/ Head(p).do \in {"opened", "handle"} /\ Tail(p) \in Seq(PlainSteps)
          \/ /\ Head(p).do = "unlock" /\ Tail(p) \in Seq(Steps) /\ Tail(p) # <<>>
             /\ Head(Tail(p)).do = "handle" /\ Tail(Tail(p)) \in Seq(PlainSteps)

(* stream_id is that of the stream a thread is to read it for, unless it   *)
(* was counted up again meanwhile.                                         *)
OwnInv ==
    /\ \A t \in Threads : Soon(todo[t])
    /\ stolen # {} => Private
    /\ \A t \in Threads : At(t, "opened") => last = On(t)
    /\ \A t \in Threads, s \in Streams : Handing(todo[t], s) => last = s \/ s \in stolen
    /\ \A s \in Streams : stream[s].open /\ s \notin stolen /\ (\A t \in Threads : ~Handing(todo[t], s))
                              => stream[s].handle = s

LEMMA PlainParts ==
    ASSUME NEW p \in Seq(PlainSteps), p # <<>>
    PROVE  Head(p) \in Steps /\ Head(p).do \notin {"opened", "handle"} /\ Tail(p) \in Seq(PlainSteps)
<1>1. Head(p) \in PlainSteps /\ Tail(p) \in Seq(PlainSteps)
    BY HeadTailProperties
<1> QED BY <1>1 DEF PlainSteps

LEMMA PlainAre == ASSUME NEW p \in Seq(PlainSteps) PROVE p \in Seq(Steps)
<1>1. PlainSteps \subseteq Steps
    BY DEF PlainSteps
<1> QED BY <1>1

LEMMA SoonSteps == ASSUME NEW p, Soon(p) PROVE p \in Seq(Steps)
BY PlainAre DEF Soon

(* A handler after a step that is not about stream_id.                     *)
LEMMA SoonTail ==
    ASSUME NEW p, Soon(p), p # <<>>
    PROVE  /\ Tail(p) \in Seq(Steps) /\ Soon(Tail(p))
           /\ Head(p).do # "unlock" => Tail(p) \in Seq(PlainSteps)
           /\ Tail(p) # <<>> => Head(Tail(p)).do # "opened"
<1>1. CASE p \in Seq(PlainSteps)
  <2>1. Tail(p) \in Seq(PlainSteps)
    BY <1>1, PlainParts
  <2>2. Tail(p) \in Seq(Steps)
    BY <2>1, PlainAre
  <2> QED BY <2>1, <2>2, PlainParts DEF Soon
<1>2. CASE Tail(p) \in Seq(PlainSteps)
  <2>1. Tail(p) \in Seq(Steps)
    BY <1>2, PlainAre
  <2> QED BY <1>2, <2>1, PlainParts DEF Soon
<1>3. CASE /\ Head(p).do = "unlock" /\ Tail(p) \in Seq(Steps) /\ Tail(p) # <<>>
           /\ Head(Tail(p)).do = "handle" /\ Tail(Tail(p)) \in Seq(PlainSteps)
    BY <1>3 DEF Soon
<1> QED BY <1>1, <1>2, <1>3 DEF Soon

Starting(p, x, q) == p = <<x>> \o q

LEMMA FirstOf ==
    ASSUME NEW x \in Steps, NEW q \in Seq(Steps), NEW p, Starting(p, x, q)
    PROVE  p \in Seq(Steps) /\ p # <<>> /\ Head(p) = x /\ Tail(p) = q
<1> DEFINE o == <<x>> n == Len(q)
<1>1. o \in Seq(Steps) /\ Len(o) = 1 /\ o[1] = x
    OBVIOUS
<1> HIDE DEF o
<1>2. /\ p \in Seq(Steps) /\ n \in Nat /\ Len(p) = 1 + n
      /\ \A k \in 1..1 + n : p[k] = IF k <= 1 THEN o[k] ELSE q[k - 1]
  <2>1. p = o \o q
    BY DEF o, Starting
  <2>2. /\ o \o q \in Seq(Steps) /\ Len(o \o q) = Len(o) + Len(q) /\ n \in Nat
        /\ \A k \in 1..Len(o) + Len(q) : (o \o q)[k] = IF k <= Len(o) THEN o[k] ELSE q[k - Len(o)]
    BY <1>1, ConcatProperties, LenProperties
  <2> QED BY <1>1, <2>1, <2>2
<1>3. p # <<>> /\ p[1] = x
    BY <1>1, <1>2
<1>4. /\ Head(p) = p[1] /\ Tail(p) \in Seq(Steps) /\ Len(Tail(p)) = n
      /\ \A k \in 1..n : Tail(p)[k] = p[k + 1]
    BY <1>2, <1>3, HeadTailProperties
<1>5. \A k \in 1..n : Tail(p)[k] = q[k]
  <2> SUFFICES ASSUME NEW k \in 1..n PROVE Tail(p)[k] = q[k]
    OBVIOUS
  <2>1. k + 1 \in 1..1 + n /\ ~(k + 1 <= 1) /\ (k + 1) - 1 = k
    BY <1>2
  <2> QED BY <1>2, <1>4, <2>1
<1>6. Tail(p) = q
    BY <1>4, <1>5, SeqEqual
<1> QED BY <1>2, <1>3, <1>4, <1>6

Regroups(p, q, r, s) == ((p \o q) \o r) \o s = p \o (q \o (r \o s))

LEMMA JoinSteps ==
    ASSUME NEW p \in Seq(Steps), NEW q \in Seq(Steps), NEW r \in Seq(Steps), NEW s \in Seq(Steps)
    PROVE  Regroups(p, q, r, s)
<1> DEFINE x == q \o r
<1>1. (p \o q) \o r = p \o x
    BY ConcatAssociative
<1>2. x \o s = q \o (r \o s)
    BY ConcatAssociative
<1>3. x \in Seq(Steps)
    BY ConcatProperties
<1> HIDE DEF x
<1>4. (p \o x) \o s = p \o (x \o s)
    BY <1>3, ConcatAssociative
<1>5. ((p \o q) \o r) \o s = p \o (q \o (r \o s))
    BY <1>1, <1>2, <1>4
<1> QED BY <1>5 DEF Regroups

-----------------------------------------------------------------------------
(* The steps.                                                              *)

LEMMA OwnSame ==
    ASSUME OwnInv, option' = option, last' = last, stolen' = stolen,
           \A s \in Streams : stream'[s].handle = stream[s].handle /\ (stream'[s].open => stream[s].open),
           \A t \in Threads : Soon(todo'[t]) /\ (todo'[t] = todo[t] \/ Doing(t)'.do # "opened"),
           \A t \in Threads, s \in Streams : Handing(todo'[t], s) <=> Handing(todo[t], s)
    PROVE  OwnInv'
<1>1. Private' = Private
    BY SameMoves
<1>2. \A t \in Threads : Soon(todo[t])'
    BY DEF Soon
<1>3. stolen' # {} => Private'
    BY <1>1 DEF OwnInv
<1>4. \A t \in Threads : At(t, "opened")' => last' = On(t)'
  <2> SUFFICES ASSUME NEW t \in Threads, At(t, "opened")' PROVE last' = On(t)'
    OBVIOUS
  <2>1. todo'[t] = todo[t]
    BY DEF At
  <2>2. Doing(t)' = Doing(t)
    BY <2>1 DEF Doing
  <2> QED BY <2>2 DEF At, On, OwnInv
<1>5. \A t \in Threads, s \in Streams : Handing(todo[t], s)' <=> Handing(todo'[t], s)
    BY DEF Handing
<1>6. \A t \in Threads, s \in Streams : Handing(todo[t], s)' => last' = s \/ s \in stolen'
    BY <1>5 DEF OwnInv
<1>7. ASSUME NEW s \in Streams, stream'[s].open, s \notin stolen', \A t \in Threads : ~Handing(todo[t], s)'
      PROVE  stream'[s].handle = s
    BY <1>5, <1>7 DEF OwnInv
<1> QED BY <1>2, <1>3, <1>4, <1>6, <1>7 DEF OwnInv

(* A thread goes on with p and no other step than one that reads stream_id *)
(* was done.                                                               *)
LEMMA OwnGoesOn ==
    ASSUME LockInv, OwnInv, NEW t \in Threads, NEW p \in Seq(PlainSteps), Done(t, p), ~Idle(t),
           Doing(t).do # "handle", Doing(t).do = "unlock" => p = <<>>
    PROVE  /\ \A u \in Threads : Soon(todo'[u]) /\ (todo'[u] = todo[u] \/ Doing(u)'.do # "opened")
           /\ \A u \in Threads, s \in Streams : Handing(todo'[u], s) <=> Handing(todo[u], s)
<1> DEFINE q == Tail(todo[t])
<1>1. todo'[t] = p \o q /\ \A u \in Threads \ {t} : todo'[u] = todo[u]
    BY OwnDone
<1>2. \A u \in Threads : Soon(todo[u])
    BY DEF OwnInv
<1>3. todo[t] \in Seq(Steps) /\ todo[t] # <<>> /\ Doing(t) = Head(todo[t])
    BY <1>2, SoonSteps DEF Idle, Doing
<1>4. /\ q \in Seq(Steps) /\ Soon(q) /\ (Doing(t).do # "unlock" => q \in Seq(PlainSteps))
      /\ (q # <<>> => Head(q).do # "opened")
    BY <1>2, <1>3, SoonTail
<1>5. p \in Seq(Steps)
    BY PlainAre
<1>6. \A s \in Streams : Handing(todo[t], s) <=> Handing(q, s)
  <2> SUFFICES ASSUME NEW s \in Streams PROVE Handing(todo[t], s) <=> Handing(q, s)
    OBVIOUS
  <2>1. Head(todo[t]) # S("handle", s)
    BY <1>3 DEF S
  <2> QED BY <1>3, <2>1, HandingFirst
<1>7. \A s \in Streams : Handing(p \o q, s) <=> Handing(q, s)
    BY <1>4, <1>5, HandingJoin, HandingNone
<1> HIDE DEF q
<1>8. Soon(p \o q) /\ (p \o q # <<>> => Head(p \o q).do # "opened")
  <2>1. CASE Doing(t).do = "unlock"
    <3>1. p \o q = q
        BY <1>4, <2>1, ConcatEmptySeq
    <3> QED BY <1>4, <3>1
  <2>2. CASE Doing(t).do # "unlock"
    <3>1. p \o q \in Seq(PlainSteps)
        BY <1>4, <2>2, PlainJoin
    <3> QED BY <3>1, PlainParts DEF Soon
  <2> QED BY <2>1, <2>2
<1>9. Doing(t)'.do # "opened"
    BY <1>1, <1>8 DEF Doing, S
<1> QED BY <1>1, <1>2, <1>6, <1>7, <1>8, <1>9

LEMMA OwnQuiet ==
    ASSUME LockInv, TypeRest, OwnInv, NEW t \in Threads,
           Lock(t) \/ Unlock(t) \/ Call(t) \/ Look(t) \/ DefaultsDoNotFit(t) \/ Close(t)
           \/ Created(t) \/ SetState(t) \/ Refused(t) \/ SetValid(t)
    PROVE  OwnInv'
<1>1. /\ option' = option /\ last' = last /\ stolen' = stolen
      /\ \A s \in Streams : stream'[s].handle = stream[s].handle /\ (stream'[s].open => stream[s].open)
  <2>1. CASE Close(t)
    <3>1. PICK s0 : s0 = On(t)
        OBVIOUS
    <3>2. stream' = [stream EXCEPT ![s0].open = FALSE]
        BY <2>1, <3>1 DEF Close
    <3>3. \A s \in Streams : stream'[s].handle = stream[s].handle /\ (stream'[s].open => stream[s].open)
        BY <3>2 DEF TypeRest
    <3> QED BY <2>1, <3>3 DEF Close
  <2>2. CASE stream' = stream
    BY <2>2 DEF Lock, Unlock, Call, Look, DefaultsDoNotFit, Close, Created, SetState, Refused, SetValid
  <2> QED BY <2>1, <2>2 DEF Lock, Unlock, Call, Look, DefaultsDoNotFit, Created, SetState, Refused, SetValid
<1>2. /\ ~Idle(t) /\ Doing(t).do # "handle"
  <2>1. Doing(t).do \notin {"idle", "handle"}
    BY DEF Lock, Unlock, Call, Look, DefaultsDoNotFit, Close, Created, SetState, Refused, SetValid, At
  <2> QED BY <2>1 DEF Doing, Idle, S
<1>3. \E p \in Seq(PlainSteps) : Done(t, p) /\ (Doing(t).do = "unlock" => p = <<>>)
  <2>1. <<>> \in Seq(PlainSteps) /\ "in" \in Streams
    BY PlainSome DEF Streams
  <2>2. CASE Done(t, <<>>)
    BY <2>1, <2>2
  <2>3. CASE Look(t)
    <3>1. Doing(t).do # "unlock"
        BY <2>3 DEF Look, At
    <3>2. CASE At(t, "standby") /\ Done(t, Standby(On(t)))
      <4>1. On(t) \in Streams
        BY <3>2, OnStream DEF LockInv, Quiet
      <4> QED BY <3>1, <3>2, <4>1, PlainSection
    <3>3. CASE At(t, "route") /\ Done(t, IF stream[On(t)].open THEN SetRoute(On(t)) ELSE <<>>)
      <4>1. On(t) \in Streams
        BY <3>3, OnStream DEF LockInv, Touches
      <4> QED BY <2>1, <3>1, <3>3, <4>1, PlainSection
    <3>4. CASE Done(t, CloseInput) \/ Done(t, SuspendInput) \/ Done(t, OpenInput)
        BY <3>1, <3>4, PlainInput
    <3>5. CASE Done(t, IF valid THEN <<S("use", "in")>> ELSE <<>>)
      <4>1. <<S("use", "in")>> \in Seq(PlainSteps)
        BY <2>1, PlainDo, PlainSome
      <4> QED BY <2>1, <3>1, <3>5, <4>1
    <3> QED BY <2>2, <2>3, <3>2, <3>3, <3>4, <3>5 DEF Look
  <2>4. CASE Created(t)
    <3>1. <<S("route", "in"), S("suspending", "in"), S("suspended", "in")>> \in Seq(PlainSteps)
        BY <2>1, PlainDo, PlainSome
    <3> QED BY <2>1, <2>4, <3>1 DEF Created, At
  <2> QED BY <2>2, <2>3, <2>4
        DEF Lock, Unlock, Call, DefaultsDoNotFit, Close, SetState, Refused, SetValid
<1> QED BY <1>1, <1>2, <1>3, OwnGoesOn, OwnSame

(* Handlers start, and fail to open an output stream.                      *)
LEMMA OwnStarts ==
    ASSUME LockInv, OwnInv, NEW t \in Threads, NEW p \in Seq(PlainSteps), todo' = [todo EXCEPT ![t] = p],
           \A s \in Streams : ~Handing(todo[t], s),
           option' = option, last' = last, stolen' = stolen, stream' = stream
    PROVE  OwnInv'
<1>1. todo'[t] = p /\ \A u \in Threads \ {t} : todo'[u] = todo[u]
    BY DEF LockInv, Handling
<1>2. \A u \in Threads : Soon(todo[u])
    BY DEF OwnInv
<1>3. Soon(p) /\ \A s \in Streams : ~Handing(p, s)
    BY HandingNone DEF Soon
<1>4. Doing(t)'.do # "opened"
    BY <1>1, PlainParts DEF Doing, S
<1>5. \A u \in Threads : Soon(todo'[u]) /\ (todo'[u] = todo[u] \/ Doing(u)'.do # "opened")
    BY <1>1, <1>2, <1>3, <1>4
<1>6. \A u \in Threads, s \in Streams : Handing(todo'[u], s) <=> Handing(todo[u], s)
    BY <1>1, <1>3
<1> QED BY <1>5, <1>6, OwnSame

LEMMA OpeningParts ==
    ASSUME OwnInv, NEW t \in Threads, Doing(t).do \in {"open", "opened"}
    PROVE  /\ ~Idle(t) /\ Tail(todo[t]) \in Seq(PlainSteps)
           /\ \A s \in Streams : ~Handing(todo[t], s)
<1>1. Soon(todo[t])
    BY DEF OwnInv
<1>2. todo[t] # <<>> /\ todo[t] \in Seq(Steps) /\ Doing(t) = Head(todo[t])
    BY <1>1, SoonSteps DEF Doing, S
<1>3. Tail(todo[t]) \in Seq(PlainSteps)
    BY <1>1, <1>2, SoonTail
<1>4. ASSUME NEW s \in Streams PROVE ~Handing(todo[t], s)
  <2>1. Head(todo[t]) # S("handle", s)
    BY <1>2 DEF S
  <2> QED BY <1>2, <1>3, <2>1, HandingFirst, HandingNone
<1> QED BY <1>2, <1>3, <1>4 DEF Idle

LEMMA OwnFails ==
    ASSUME LockInv, OwnInv, NEW t \in Threads, OpenFails(t) PROVE OwnInv'
<1>1. /\ option' = option /\ last' = last /\ stolen' = stolen /\ stream' = stream
      /\ Doing(t).do = "opened"
    BY DEF OpenFails, At
<1>2. S("unlock", "hw") \in PlainSteps
    BY PlainLocks DEF Mutexes
<1>3. <<S("unlock", "hw")>> \in Seq(PlainSteps)
    BY <1>2, PlainSome
<1>4. ~Idle(t) /\ \A s \in Streams : ~Handing(todo[t], s)
    BY <1>1, OpeningParts
<1>5. CASE Done(t, <<S("unlock", "hw")>>)
  <2>1. /\ \A u \in Threads : Soon(todo'[u]) /\ (todo'[u] = todo[u] \/ Doing(u)'.do # "opened")
        /\ \A u \in Threads, s \in Streams : Handing(todo'[u], s) <=> Handing(todo[u], s)
    BY <1>1, <1>3, <1>4, <1>5, OwnGoesOn
  <2> QED BY <1>1, <2>1, OwnSame
<1>6. CASE todo' = [todo EXCEPT ![t] = <<S("unlock", "hw")>>]
  <2> DEFINE p == <<S("unlock", "hw")>>
  <2>1. p \in Seq(PlainSteps) /\ todo' = [todo EXCEPT ![t] = p]
    BY <1>3, <1>6
  <2> HIDE DEF p
  <2> QED BY <1>1, <1>4, <2>1, OwnStarts
<1> QED BY <1>5, <1>6 DEF OpenFails

LEMMA OwnSends ==
    ASSUME LockInv, OwnInv, NEW t \in Threads, Send(t) PROVE OwnInv'
<1>1. PICK m \in {"suspend", "resume", "unlink"} :
          /\ At(t, m) /\ Idle(On(t))
          /\ todo' = [todo EXCEPT ![t] = Tail(@),
                                  ![On(t)] = IF Is(m, run[On(t)]) THEN <<>> ELSE Told(m, On(t))]
    BY DEF Send
<1>2. On(t) \in Streams
  <2>1. PICK e : <<Has(t), Doing(t), e>> \in Moves(t)
    BY <1>1, AtStep DEF LockInv
  <2> QED BY <1>1, <2>1, MoveParts DEF At, On, Asks
<1>3. PICK s : s = On(t)
    OBVIOUS
<1> DEFINE p == IF Is(m, run[s]) THEN <<>> ELSE Told(m, s)
<1>4. p \in Seq(PlainSteps)
    BY <1>2, <1>3, PlainSome, PlainTold
<1>5. ~Idle(t) /\ Doing(t).do = m /\ s # t /\ s \in Threads /\ Idle(s)
  <2>1. ~Idle(t)
    BY <1>1 DEF At, Doing, Idle, S
  <2> QED BY <1>1, <1>2, <1>3, <2>1 DEF At, Threads
<1>6. todo' = [todo EXCEPT ![t] = Tail(@), ![s] = p]
    BY <1>1, <1>3
<1> HIDE DEF p
<1>7. todo'[t] = Tail(todo[t]) /\ todo'[s] = p /\ \A u \in Threads \ {t, s} : todo'[u] = todo[u]
    BY <1>5, <1>6 DEF LockInv, Handling
<1>8. todo[t] # <<>> /\ Doing(t) = Head(todo[t]) /\ Soon(todo[t]) /\ todo[t] \in Seq(Steps)
    BY <1>5, SoonSteps DEF Idle, Doing, OwnInv
<1>9. Soon(Tail(todo[t])) /\ (Tail(todo[t]) # <<>> => Head(Tail(todo[t])).do # "opened")
    BY <1>8, SoonTail
<1>10. Soon(p) /\ (p # <<>> => Head(p).do # "opened") /\ \A z \in Streams : ~Handing(p, z)
    BY <1>4, PlainParts, HandingNone DEF Soon
<1>11. Doing(t)'.do # "opened" /\ Doing(s)'.do # "opened"
    BY <1>7, <1>9, <1>10 DEF Doing, S
<1>12. \A u \in Threads : Soon(todo'[u]) /\ (todo'[u] = todo[u] \/ Doing(u)'.do # "opened")
    BY <1>7, <1>9, <1>10, <1>11 DEF OwnInv
<1>13. \A z \in Streams : Handing(Tail(todo[t]), z) <=> Handing(todo[t], z)
  <2> SUFFICES ASSUME NEW z \in Streams PROVE Handing(Tail(todo[t]), z) <=> Handing(todo[t], z)
    OBVIOUS
  <2>1. Head(todo[t]) # S("handle", z)
    BY <1>5, <1>8 DEF S
  <2> QED BY <1>8, <2>1, HandingFirst
<1>14. \A z \in Streams : ~Handing(todo[s], z)
  <2>1. todo[s] = <<>> /\ <<>> \in Seq(PlainSteps)
    BY <1>5, PlainSome DEF Idle
  <2> QED BY <2>1, HandingNone
<1>15. \A u \in Threads, z \in Streams : Handing(todo'[u], z) <=> Handing(todo[u], z)
    BY <1>7, <1>10, <1>13, <1>14
<1> QED BY <1>12, <1>15, OwnSame DEF Send

(* One thread opens a stream at a time.                                    *)
LEMMA OneOpens ==
    ASSUME LockInv, NEW t \in Threads, NEW u \in Threads,
           Doing(t).do \in {"open", "opened"}, Doing(u).do \in {"open", "opened"}
    PROVE  t = u
<1>1. ASSUME NEW v \in Threads, Doing(v).do \in {"open", "opened"} PROVE held[v]["hw"] > 0
  <2>1. At(v, Doing(v).do) /\ Doing(v).do # "idle"
    BY <1>1 DEF At
  <2>2. PICK e : <<Has(v), Doing(v), e>> \in Moves(v)
    BY <2>1, AtStep DEF LockInv
  <2>3. "hw" \in Has(v)
    BY <1>1, <2>2, MoveParts
  <2>4. "hw" \in Mutexes /\ Left(v, "hw") \in {0, 1} /\ held[v]["hw"] > Left(v, "hw")
    BY <2>3 DEF Has, Left
  <2>5. held[v]["hw"] \in {Left(v, "hw"), Left(v, "hw") + 1}
    BY <2>4 DEF LockInv, Counts
  <2> QED BY <2>4, <2>5
<1>2. held[t]["hw"] > 0 /\ held[u]["hw"] > 0 /\ "hw" \in Mutexes
    BY <1>1 DEF Mutexes
<1> QED BY <1>2 DEF LockInv, Exclusive

(* A thread of a sink or source opens a stream only if the source is to.   *)
LEMMA HandingPrivate ==
    ASSUME FlowInv, NEW t \in Streams, NEW s, Handing(todo[t], s) PROVE Private
<1>1. PICK b \in SUBSET Notes : Runs(IoMoves(t), todo[t], b, {})
    BY DEF FlowInv, Leads
<1>2. PICK k \in 1..Len(todo[t]) : todo[t][k] = S("handle", s)
    BY DEF Handing, Contains
<1>3. PICK d : \A j \in 1..Len(todo[t]) : <<d[j], todo[t][j], d[j + 1]>> \in IoMoves(t)
    BY <1>1 DEF Runs, Path
<1>4. <<d[k], todo[t][k], d[k + 1]>> \in IoMoves(t)
    BY <1>3
<1>5. Minds(t, d[k], todo[t][k], d[k + 1])
    BY <1>4, IoMoveIs
<1>6. todo[t][k].do = "handle"
    BY <1>2 DEF S
<1> QED BY <1>5, <1>6, MindsParts

(* A stream that is to be opened is closed, if its own thread leaves it be. *)
LEMMA OpensClosed ==
    ASSUME FlowInv, NEW t \in Threads, Doing(t).do \in {"open", "opened"}
    PROVE  /\ On(t) \in Streams /\ (Guarded(On(t)) => ~stream[On(t)].open)
           /\ t \in Streams => Private
<1>1. ~Idle(t)
    BY DEF Doing, Idle, S
<1>2. CASE t = "main"
  <2>1. PICK b, c : Sees(b, c)
    BY <1>1, <1>2, NextSeen
  <2>2. Tells(b, Doing("main"), c) /\ \A f \in b : Known(f)
    BY <2>1 DEF Sees
  <2>3. PICK r : r = Doing("main")
    OBVIOUS
  <2>4. r.on \in Streams /\ Closed(r.on) \in b
    BY <1>2, <2>2, <2>3, TellsParts
  <2>5. Guarded(r.on) => ~stream[r.on].open
    BY <2>2, <2>4 DEF Known, Closed
  <2>6. "main" \notin Streams
    BY LocksAssumption DEF Streams
  <2> QED BY <1>2, <2>3, <2>4, <2>5, <2>6 DEF On
<1>3. CASE t \in Streams
  <2>1. PICK b, c : Reads(t, b, c)
    BY <1>1, <1>3, NextMinded DEF FlowInv
  <2>2. Minds(t, b, Doing(t), c) /\ \A n \in b : Noted(t, n)
    BY <2>1 DEF Reads
  <2>3. On(t) = t /\ Private /\ "closed" \in b
    BY <2>2, MindsParts DEF On
  <2> QED BY <1>3, <2>2, <2>3 DEF Noted
<1> QED BY <1>2, <1>3 DEF Threads

LEMMA OwnBegins ==
    ASSUME LockInv, TypeRest, FlowInv, OwnInv, NEW t \in Threads, OpenBegins(t)
    PROVE  OwnInv'
<1>1. PICK s0 : s0 = On(t)
    OBVIOUS
<1>2. /\ last' = s0 /\ option' = option /\ stream' = stream /\ Doing(t).do = "open"
      /\ stolen' = (stolen \ {s0}) \cup
             {s \in Streams : \E u \in Threads \ {t} : Contains(todo[u], S("handle", s))}
      /\ Done(t, <<S("opened", s0)>>)
    BY <1>1 DEF OpenBegins, At
<1>3. /\ s0 \in Streams /\ (Guarded(s0) => ~stream[s0].open) /\ (t \in Streams => Private)
    BY <1>1, <1>2, OpensClosed
<1>4. /\ ~Idle(t) /\ Tail(todo[t]) \in Seq(PlainSteps) /\ \A s \in Streams : ~Handing(todo[t], s)
    BY <1>2, OpeningParts
<1> DEFINE x == S("opened", s0) q == Tail(todo[t]) p == <<x>> \o q
<1>5. todo'[t] = p /\ \A u \in Threads \ {t} : todo'[u] = todo[u]
    BY <1>2, OwnDone
<1>6. x \in Steps /\ x.do = "opened" /\ x.on = s0
    BY <1>3, StreamSteps DEF Touches
<1>7. q \in Seq(PlainSteps) /\ q \in Seq(Steps)
    BY <1>4, PlainAre
<1>8. \A s : ~(x = S("handle", s))
    BY <1>6 DEF S
<1> HIDE DEF x, q, p
<1>9. p \in Seq(Steps) /\ p # <<>> /\ Head(p) = x /\ Tail(p) = q
  <2>1. Starting(p, x, q)
    BY DEF p, Starting
  <2> QED BY <1>6, <1>7, <2>1, FirstOf
<1>10. Soon(p)
    BY <1>6, <1>7, <1>9 DEF Soon
<1>11. \A s \in Streams : ~Handing(p, s)
    BY <1>7, <1>8, <1>9, HandingFirst, HandingNone
<1>12. Doing(t)' = x
    BY <1>5, <1>9 DEF Doing
<1>13. \A u \in Threads : Soon(todo[u])'
    BY <1>5, <1>10 DEF OwnInv, Soon
<1>14. Private' = Private
    BY <1>2, SameMoves
<1>15. stolen' # {} => Private
  <2>1. CASE stolen # {}
    BY <2>1 DEF OwnInv
  <2>2. CASE \E s \in Streams : \E u \in Threads \ {t} : Contains(todo[u], S("handle", s))
    <3>1. PICK s \in Streams, u \in Threads \ {t} : Handing(todo[u], s)
        BY <2>2 DEF Handing
    <3>2. u \in Streams => Private
        BY <3>1, HandingPrivate
    <3> QED BY <1>3, <3>1, <3>2 DEF Threads
  <2> QED BY <1>2, <2>1, <2>2
<1>16. \A u \in Threads : At(u, "opened")' => last' = On(u)'
  <2> SUFFICES ASSUME NEW u \in Threads, At(u, "opened")' PROVE last' = On(u)'
    OBVIOUS
  <2>1. CASE u = t
    BY <1>2, <1>6, <1>12, <2>1 DEF On
  <2>2. CASE u # t
    <3>1. Doing(u)' = Doing(u)
        BY <1>5, <2>2 DEF Doing
    <3>2. Doing(u).do = "opened"
        BY <3>1 DEF At
    <3> QED BY <1>2, <2>2, <3>2, OneOpens
  <2> QED BY <2>1, <2>2
<1>17. \A u \in Threads, s \in Streams : Handing(todo[u], s)' => last' = s \/ s \in stolen'
  <2> SUFFICES ASSUME NEW u \in Threads, NEW s \in Streams, Handing(todo[u], s)' PROVE s \in stolen'
    OBVIOUS
  <2>1. Handing(todo'[u], s)
    BY DEF Handing
  <2>2. u # t
    BY <1>5, <1>11, <2>1
  <2>3. Contains(todo[u], S("handle", s))
    BY <1>5, <2>1, <2>2 DEF Handing
  <2> QED BY <1>2, <2>2, <2>3
<1>18. ASSUME NEW s \in Streams, stream'[s].open, s \notin stolen', \A u \in Threads : ~Handing(todo[u], s)'
       PROVE  stream'[s].handle = s
  <2>1. \A u \in Threads : ~Handing(todo[u], s)
    <3> SUFFICES ASSUME NEW u \in Threads PROVE ~Handing(todo[u], s)
        OBVIOUS
    <3>1. CASE u = t
        BY <1>4, <3>1
    <3>2. CASE u # t
        BY <1>5, <1>18, <3>2 DEF Handing
    <3> QED BY <3>1, <3>2
  <2>2. s \notin stolen
    <3>1. CASE s = s0
      <4>1. ~Guarded(s0)
        BY <1>2, <1>3, <1>18, <3>1
      <4> QED BY <4>1 DEF Guarded, OwnInv
    <3>2. CASE s # s0
        BY <1>2, <1>18, <3>2
    <3> QED BY <3>1, <3>2
  <2> QED BY <1>2, <1>18, <2>1, <2>2 DEF OwnInv
<1> QED BY <1>13, <1>14, <1>15, <1>16, <1>17, <1>18 DEF OwnInv

LEMMA OwnSucceeds ==
    ASSUME LockInv, TypeRest, OwnInv, NEW t \in Threads, OpenSucceeds(t)
    PROVE  OwnInv'
<1>1. PICK s0 : s0 = On(t)
    OBVIOUS
<1> DEFINE l == S("unlock", "hw") h == S("handle", s0)
           x == IF s0 = "in" THEN <<S("standby", "in"), S("route", "in")>> ELSE <<>>
           q == Tail(todo[t]) y == x \o q
<1>2. /\ last' = last /\ option' = option /\ stolen' = stolen /\ Doing(t).do = "opened"
      /\ stream' = [stream EXCEPT ![s0].open = TRUE]
      /\ Done(t, <<l, h>> \o x)
    BY <1>1 DEF OpenSucceeds, At
<1>3. s0 \in Streams /\ last = s0
  <2>1. At(t, "opened")
    BY <1>2 DEF At
  <2> QED BY <1>1, <2>1, OnStream DEF LockInv, Touches, OwnInv
<1>4. ~Idle(t) /\ q \in Seq(PlainSteps) /\ \A s \in Streams : ~Handing(todo[t], s)
    BY <1>2, OpeningParts
<1>5. /\ l \in Steps /\ l.do = "unlock" /\ h \in Steps /\ h.do = "handle"
      /\ \A s : (h = S("handle", s) <=> s = s0) /\ ~(l = S("handle", s))
  <2>1. "hw" \in Mutexes
    BY DEF Mutexes
  <2>2. l \in Steps /\ l.do = "unlock" /\ h \in Steps /\ h.do = "handle"
    BY <1>3, <2>1, LockSteps, StreamSteps DEF Quiet
  <2> QED BY <2>2 DEF S
<1>6. x \in Seq(PlainSteps)
    BY PlainSome, PlainDo DEF Streams
<1>7. y \in Seq(PlainSteps)
    BY <1>4, <1>6, PlainJoin
<1>8. y \in Seq(Steps) /\ x \in Seq(Steps) /\ q \in Seq(Steps)
    BY <1>4, <1>6, <1>7, PlainAre
<1>9. todo'[t] = (<<l, h>> \o x) \o q /\ \A u \in Threads \ {t} : todo'[u] = todo[u]
    BY <1>2, OwnDone
<1>10. (<<l, h>> \o x) \o q = <<l>> \o (<<h>> \o y)
  <2>1. <<l, h>> = <<l>> \o <<h>>
    BY InOrder
  <2>2. <<l>> \in Seq(Steps) /\ <<h>> \in Seq(Steps)
    BY <1>5
  <2> DEFINE a == <<l>> b == <<h>>
  <2> HIDE DEF a, b, l, h, x, q
  <2>3. a \in Seq(Steps) /\ b \in Seq(Steps) /\ x \in Seq(Steps) /\ q \in Seq(Steps)
    BY <1>8, <2>2 DEF a, b
  <2>4. Regroups(a, b, x, q)
    BY <2>3, JoinSteps
  <2>5. ((a \o b) \o x) \o q = a \o (b \o (x \o q))
    BY <2>4 DEF Regroups
  <2> QED BY <2>1, <2>5 DEF a, b
<1> DEFINE r == <<h>> \o y p == <<l>> \o r
<1>11. todo'[t] = p
    BY <1>9, <1>10
<1> HIDE DEF l, h, x, q, y, r, p
<1>12. r \in Seq(Steps) /\ r # <<>> /\ Head(r) = h /\ Tail(r) = y
  <2>1. Starting(r, h, y)
    BY DEF r, Starting
  <2> QED BY <1>5, <1>8, <2>1, FirstOf
<1>13. p \in Seq(Steps) /\ p # <<>> /\ Head(p) = l /\ Tail(p) = r
  <2>1. Starting(p, l, r)
    BY DEF p, Starting
  <2> QED BY <1>5, <1>12, <2>1, FirstOf
<1>14. Soon(p)
    BY <1>5, <1>7, <1>12, <1>13 DEF Soon
<1>15. \A s \in Streams : Handing(p, s) <=> s = s0
  <2> SUFFICES ASSUME NEW s \in Streams PROVE Handing(p, s) <=> s = s0
    OBVIOUS
  <2>1. Handing(p, s) <=> Handing(r, s)
    BY <1>5, <1>13, HandingFirst
  <2>2. Handing(r, s) <=> h = S("handle", s) \/ Handing(y, s)
    BY <1>12, HandingFirst
  <2>3. ~Handing(y, s)
    BY <1>7, HandingNone
  <2> QED BY <1>5, <2>1, <2>2, <2>3
<1>16. Doing(t)' = l
    BY <1>13, <1>11 DEF Doing
<1>17. /\ \A s \in Streams : stream'[s].handle = stream[s].handle
       /\ \A s \in Streams \ {s0} : stream'[s].open = stream[s].open
    BY <1>2 DEF TypeRest
<1>18. \A u \in Threads : Soon(todo[u])'
    BY <1>9, <1>11, <1>14 DEF OwnInv, Soon
<1>19. stolen' # {} => Private'
    BY <1>2, SameMoves DEF OwnInv
<1>20. \A u \in Threads : At(u, "opened")' => last' = On(u)'
  <2> SUFFICES ASSUME NEW u \in Threads, At(u, "opened")' PROVE last' = On(u)'
    OBVIOUS
  <2>1. u # t
    BY <1>5, <1>16 DEF At
  <2>2. Doing(u)' = Doing(u)
    BY <1>9, <2>1 DEF Doing
  <2> QED BY <1>2, <2>2 DEF At, On, OwnInv
<1>21. \A u \in Threads, s \in Streams : Handing(todo[u], s)' => last' = s \/ s \in stolen'
  <2> SUFFICES ASSUME NEW u \in Threads, NEW s \in Streams, Handing(todo[u], s)'
               PROVE  last = s \/ s \in stolen
    BY <1>2
  <2>1. Handing(todo'[u], s)
    BY DEF Handing
  <2>2. CASE u = t
    BY <1>3, <1>11, <1>15, <2>1, <2>2
  <2>3. CASE u # t
    BY <1>9, <2>1, <2>3 DEF OwnInv
  <2> QED BY <2>2, <2>3
<1>22. ASSUME NEW s \in Streams, stream'[s].open, s \notin stolen', \A u \in Threads : ~Handing(todo[u], s)'
       PROVE  stream'[s].handle = s
  <2>1. \A u \in Threads : ~Handing(todo'[u], s)
    BY <1>22 DEF Handing
  <2>2. s # s0
    BY <1>11, <1>15, <2>1
  <2>3. \A u \in Threads : ~Handing(todo[u], s)
    BY <1>4, <1>9, <2>1
  <2> QED BY <1>2, <1>17, <1>22, <2>2, <2>3 DEF OwnInv
<1> QED BY <1>18, <1>19, <1>20, <1>21, <1>22 DEF OwnInv

LEMMA OwnHandles ==
    ASSUME LockInv, TypeRest, OwnInv, NEW t \in Threads, Handle(t) PROVE OwnInv'
<1>1. PICK s0 : s0 = On(t)
    OBVIOUS
<1>2. /\ last' = last /\ option' = option /\ stolen' = stolen /\ Doing(t).do = "handle" /\ Doing(t).on = s0
      /\ stream' = [stream EXCEPT ![s0].handle = last] /\ Done(t, <<>>)
    BY <1>1 DEF Handle, At, On
<1>3. s0 \in Streams
  <2>1. At(t, "handle")
    BY <1>2 DEF At
  <2> QED BY <1>1, <2>1, OnStream DEF LockInv, Quiet
<1>4. todo[t] # <<>> /\ todo[t] \in Seq(Steps) /\ Doing(t) = Head(todo[t]) /\ Soon(todo[t])
    BY <1>2, SoonSteps DEF OwnInv, Doing, S
<1> DEFINE q == Tail(todo[t])
<1>5. q \in Seq(PlainSteps) /\ Soon(q)
    BY <1>2, <1>4, SoonTail
<1>6. q \in Seq(Steps)
    BY <1>5, PlainAre
<1>7. todo'[t] = q /\ \A u \in Threads \ {t} : todo'[u] = todo[u]
    BY <1>2, <1>6, OwnDone, ConcatEmptySeq
<1>8. \A s \in Streams : Handing(todo[t], s) <=> s = s0
  <2> SUFFICES ASSUME NEW s \in Streams PROVE Handing(todo[t], s) <=> s = s0
    OBVIOUS
  <2>1. ~Handing(q, s)
    BY <1>5, HandingNone
  <2>2. Head(todo[t]) = S("handle", s) <=> s = s0
  <3>1. Head(todo[t]) \in Steps
    BY <1>4, HeadTailProperties
  <3>2. Head(todo[t]) = [do |-> Head(todo[t]).do, on |-> Head(todo[t]).on]
    BY <3>1 DEF Steps, StepsOf
  <3>3. Head(todo[t]) = S("handle", s0)
    BY <1>2, <1>4, <3>2 DEF S
  <3> QED BY <3>3 DEF S
  <2> QED BY <1>4, <2>1, <2>2, HandingFirst
<1> HIDE DEF q
<1>9. \A s \in Streams : ~Handing(q, s)
    BY <1>5, HandingNone
<1>10. Doing(t)'.do # "opened"
    BY <1>5, <1>7, PlainParts DEF Doing, S
<1>11. /\ \A s \in Streams : stream'[s].open = stream[s].open
       /\ \A s \in Streams \ {s0} : stream'[s].handle = stream[s].handle
       /\ stream'[s0].handle = last
    BY <1>2, <1>3 DEF TypeRest
<1>12. \A u \in Threads : Soon(todo[u])'
    BY <1>5, <1>7 DEF OwnInv, Soon
<1>13. stolen' # {} => Private'
    BY <1>2, SameMoves DEF OwnInv
<1>14. \A u \in Threads : At(u, "opened")' => last' = On(u)'
  <2> SUFFICES ASSUME NEW u \in Threads, At(u, "opened")' PROVE last' = On(u)'
    OBVIOUS
  <2>1. u # t
    BY <1>10 DEF At
  <2>2. Doing(u)' = Doing(u)
    BY <1>7, <2>1 DEF Doing
  <2> QED BY <1>2, <2>2 DEF At, On, OwnInv
<1>15. \A u \in Threads, s \in Streams : Handing(todo[u], s)' => last' = s \/ s \in stolen'
  <2> SUFFICES ASSUME NEW u \in Threads, NEW s \in Streams, Handing(todo[u], s)'
               PROVE  last = s \/ s \in stolen
    BY <1>2
  <2>1. Handing(todo'[u], s)
    BY DEF Handing
  <2> QED BY <1>7, <1>9, <2>1 DEF OwnInv
<1>16. ASSUME NEW s \in Streams, stream'[s].open, s \notin stolen', \A u \in Threads : ~Handing(todo[u], s)'
       PROVE  stream'[s].handle = s
  <2>1. \A u \in Threads : ~Handing(todo'[u], s)
    BY <1>16 DEF Handing
  <2>2. CASE s = s0
    <3>1. Handing(todo[t], s0)
        BY <1>3, <1>8
    <3>2. last = s0 \/ s0 \in stolen
        BY <1>3, <3>1 DEF OwnInv
    <3> QED BY <1>2, <1>11, <1>16, <2>2, <3>2
  <2>3. CASE s # s0
    <3>1. \A u \in Threads : ~Handing(todo[u], s)
        BY <1>7, <1>8, <2>1, <2>3
    <3> QED BY <1>2, <1>11, <1>16, <2>3, <3>1 DEF OwnInv
  <2> QED BY <2>2, <2>3
<1> QED BY <1>12, <1>13, <1>14, <1>15, <1>16 DEF OwnInv

LEMMA OwnInvInit == Init => OwnInv
<1> SUFFICES ASSUME Init PROVE OwnInv
    OBVIOUS
<1>1. /\ \A t \in Threads : todo[t] = <<>>
      /\ stolen = {} /\ \A s \in Streams : ~stream[s].open
    BY DEF Init
<1>2. <<>> \in Seq(PlainSteps)
    BY PlainSome
<1>3. \A t \in Threads : Soon(todo[t]) /\ \A s \in Streams : ~Handing(todo[t], s)
    BY <1>1, <1>2, HandingNone DEF Soon
<1>4. \A t \in Threads : ~At(t, "opened")
    BY <1>1 DEF At, Doing, S
<1> QED BY <1>1, <1>3, <1>4 DEF OwnInv

LEMMA OwnInvStep == LockInv /\ TypeRest /\ FlowInv /\ OwnInv /\ [Next]_vars => OwnInv'
<1> SUFFICES ASSUME LockInv, TypeRest, FlowInv, OwnInv, [Next]_vars PROVE OwnInv'
    OBVIOUS
<1>1. ASSUME NEW t \in Threads, Step(t) PROVE OwnInv'
  <2>1. CASE OpenBegins(t)
    BY <2>1, OwnBegins
  <2>2. CASE OpenSucceeds(t)
    BY <2>2, OwnSucceeds
  <2>3. CASE OpenFails(t)
    BY <2>3, OwnFails
  <2>4. CASE Handle(t)
    BY <2>4, OwnHandles
  <2>5. CASE Send(t)
    BY <2>5, OwnSends
  <2> QED BY <1>1, <2>1, <2>2, <2>3, <2>4, <2>5, OwnQuiet DEF Step
<1>2. ASSUME NEW t \in Threads, NEW p \in Seq(PlainSteps), Starts(t, p) PROVE OwnInv'
  <2>1. \A s \in Streams : ~Handing(todo[t], s)
    BY <1>2, PlainSome, HandingNone DEF Starts, Idle
  <2> QED BY <1>2, <2>1, OwnStarts DEF Starts
<1>3. "main" \in Threads /\ "in" \in Threads /\ \A o \in Outputs : o \in Threads
    BY DEF Threads, Streams
<1>4. CASE MainHandler
    BY <1>2, <1>3, <1>4, PlainHandlers
<1>5. CASE Record \/ \E o \in Outputs : Render(o)
    BY <1>2, <1>3, <1>5, PlainRounds
<1>6. CASE UNCHANGED vars
  <2>1. option' = option /\ last' = last /\ stolen' = stolen /\ stream' = stream /\ todo' = todo
    BY <1>6 DEF vars
  <2> QED BY <2>1, OwnSame DEF OwnInv
<1> QED BY <1>1, <1>4, <1>5, <1>6 DEF Next

(* A stream is routed by the io_handle the HAL opened it with, however     *)
(* many streams are opened at a time; only if the source's thread opens    *)
(* the input stream on its own may it be that of another stream.           *)
THEOREM HandlesAreOwn == Spec => []HandleIsOwn
<1> DEFINE Inv == LockInv /\ TypeRest /\ FlowInv /\ OwnInv
<1>1. Init => Inv
  <2>1. Init => TypeRest
    BY DEF Init, TypeRest, Streams
  <2> QED BY <2>1, LockInvInit, FlowInvInit, OwnInvInit
<1>2. Inv /\ [Next]_vars => Inv'
    BY LockInvStep, TypeRestStep, FlowInvStep, OwnInvStep
<1>3. Inv => HandleIsOwn
  <2> SUFFICES ASSUME OwnInv PROVE HandleIsOwn
    OBVIOUS
  <2> QED BY DEF OwnInv, HandleIsOwn, Handing, Private
<1> QED BY <1>1, <1>2, <1>3, PTL DEF Spec

=============================================================================
