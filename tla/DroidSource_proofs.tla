------------------------- MODULE DroidSource_proofs -------------------------
(***************************************************************************)
(* Theorems of DroidSource, for any source-outputs, sample specs, devices  *)
(* and modes, and whatever the HAL supports from one moment to the next.   *)
(***************************************************************************)
EXTENDS DroidSource, SequenceTheorems, TLAPS

InputType == [hal : Specs \cup {Closed}, spec : Specs, req : Specs,
              source : AudioSources \cup {NoSource}, port : Ports,
              patch : Ports \cup {NoPort}]

(* What holds of a stream at every moment of a handler.                    *)
Sound(in) ==
    /\ in \in InputType
    /\ in.hal # Closed => in.req = in.hal /\ in.spec = in.hal
    /\ in.patch # NoPort => in.hal # Closed /\ in.patch = in.port

(* The inductive invariant.  That the last source-output is served needs   *)
(* that what will be asked for on the next opening is the same again.      *)
IInv ==
    /\ TypeOK
    /\ Sound(input)
    /\ CloseInput => ReadsOpenStream
    /\ granted => input.req = input.spec
    /\ SpecAgrees
    /\ ServesLast

-----------------------------------------------------------------------------
(* The stream.                                                             *)

LEMMA GrantedType ==
    ASSUME TypeOK, NEW s \in Specs, NEW r \in Granted(s)
    PROVE  r \in Specs \cup {Closed}
BY SourceAssumption DEF Granted, TypeOK

LEMMA OpenedSound ==
    ASSUME TypeOK, NEW in, Sound(in), NEW r \in Opened(in)
    PROVE  /\ Sound(r)
           /\ in.hal # Closed => r = in
           /\ r.hal = Closed => r = in
<1>1. CASE in.hal # Closed
    BY <1>1 DEF Opened
<1>2. CASE in.hal = Closed
  <2>1. PICK s \in Granted(in.req), q \in Patches(in.port) : r = OpenedAs(in, s, q)
      BY <1>2 DEF Opened
  <2>2. in.req \in Specs /\ in.port \in Ports
      BY DEF Sound, InputType
  <2>3. s \in Specs \cup {Closed}
      BY <2>2, GrantedType
  <2>4. q \in {in.port, NoPort}
      BY DEF Patches
  <2>5. CASE s = Closed
      BY <1>2, <2>1, <2>5 DEF OpenedAs
  <2>6. CASE s # Closed
    <3>1. r = [in EXCEPT !.hal = s, !.spec = s, !.req = s, !.patch = q]
        BY <2>1, <2>6 DEF OpenedAs
    <3> QED BY <1>2, <2>2, <2>3, <2>4, <2>6, <3>1 DEF Sound, InputType
  <2> QED BY <2>5, <2>6
<1> QED BY <1>1, <1>2

LEMMA ShutSound ==
    ASSUME NEW in, Sound(in)
    PROVE  Sound(Shut(in)) /\ Shut(in).hal = Closed
BY DEF Sound, InputType, Shut

LEMMA AudioSourceType ==
    ASSUME TypeOK, NEW p \in Ports, NEW a \in AudioSources \cup {NoSource}
    PROVE  AudioSource(p, a) \in AudioSources \cup {NoSource}
BY SourceAssumption DEF AudioSource, TypeOK

LEMMA ReconfiguredSound ==
    ASSUME TypeOK, NEW in, Sound(in), NEW s \in Specs,
           NEW a \in AudioSources \cup {NoSource}, NEW r \in Reconfigured(in, s, a)
    PROVE  Sound(r)
<1> DEFINE set == [in EXCEPT !.req = s, !.source = AudioSource(in.port, a)]
           asked == Shut(set)
           again == [asked EXCEPT !.req = Default]
<1>1. Sound(asked)
  <2>1. in.port \in Ports
      BY DEF Sound, InputType
  <2>2. set \in InputType
      BY <2>1, AudioSourceType DEF Sound, InputType
  <2> QED BY <2>2 DEF Sound, InputType, Shut
<1>2. Sound(again)
    BY <1>1, SourceAssumption DEF Sound, InputType, Shut
<1>3. r \in Opened(asked) \/ r \in Opened(again)
    BY DEF Reconfigured
<1> HIDE DEF asked, again
<1> QED BY <1>1, <1>2, <1>3, OpenedSound

LEMMA InputDeviceSound ==
    ASSUME TypeOK, NEW in, Sound(in), NEW p \in Ports, NEW r \in InputDevice(in, p)
    PROVE  /\ Sound(r)
           /\ r.hal = in.hal /\ r.spec = in.spec /\ r.req = in.req
<1> DEFINE set == [in EXCEPT !.port = p, !.source = AudioSource(p, in.source)]
<1>1. in.source \in AudioSources \cup {NoSource}
    BY DEF Sound, InputType
<1>2. set \in InputType /\ set.hal = in.hal /\ set.spec = in.spec /\ set.req = in.req
      /\ set.port = p /\ set.patch = in.patch
    BY <1>1, AudioSourceType DEF Sound, InputType
<1>3. CASE set # in /\ in.hal # Closed
  <2>1. PICK q \in Patches(p) : r = [set EXCEPT !.patch = q]
      BY <1>3 DEF InputDevice
  <2>2. q \in {p, NoPort}
      BY DEF Patches
  <2>3. r \in InputType /\ r.hal = in.hal /\ r.spec = in.spec /\ r.req = in.req
        /\ r.port = p /\ r.patch = q
      BY <1>2, <2>1, <2>2 DEF InputType
  <2> QED BY <1>3, <2>2, <2>3 DEF Sound
<1>4. CASE set = in
    BY <1>4 DEF InputDevice
<1>5. CASE in.hal = Closed
    BY <1>2, <1>5 DEF InputDevice, Sound
<1> QED BY <1>3, <1>4, <1>5

LEMMA ResumedSound ==
    ASSUME TypeOK, NEW in, Sound(in), NEW r \in Resumed(in)
    PROVE  /\ Sound(r)
           /\ in.hal # Closed => r = in
           /\ r = in \/ r.hal # Closed
<1>1. CASE CloseInput
    BY <1>1, OpenedSound DEF Resumed
<1>2. CASE ~CloseInput
    BY <1>2 DEF Resumed
<1> QED BY <1>1, <1>2

LEMMA SuspendedSound ==
    ASSUME NEW in, Sound(in)
    PROVE  Sound(Suspended(in)) /\ Suspended(in).spec = in.spec /\ Suspended(in).req = in.req
<1>1. CASE CloseInput
    BY <1>1, ShutSound DEF Suspended, Shut, Sound, InputType
<1>2. CASE ~CloseInput
    BY <1>2 DEF Suspended
<1> QED BY <1>1, <1>2

-----------------------------------------------------------------------------
(* The source.                                                             *)

(* What a handler leaves behind in the fields of the stream.               *)
Kept ==
    /\ Sound(input') /\ valid' \in BOOLEAN /\ sspec' \in Specs
    /\ granted' \in BOOLEAN /\ slipped' \in BOOLEAN
    /\ CloseInput => (~idle /\ valid' => input'.hal # Closed)
    /\ granted' => input'.req = input'.spec
    /\ ~slipped' => sspec' = input'.spec

LEMMA SourceReconfigureKeeps ==
    ASSUME IInv, NEW s \in Specs \cup {NoSpec}, NEW a \in AudioSources \cup {NoSource},
           NEW p \in Ports \cup {NoPort}, SourceReconfigure(s, a, p)
    PROVE  /\ Kept
           /\ granted' => input'.spec = IF s = NoSpec THEN input.spec ELSE s
           /\ granted' => s # NoSpec \/ granted
<1> DEFINE asked == IF s = NoSpec THEN input.spec ELSE s
           held == IF idle THEN input ELSE Suspended(input)
<1>1. TypeOK /\ Sound(input)
    BY DEF IInv
<1>2. asked \in Specs
    BY <1>1 DEF Sound, InputType
<1>3. Sound(held)
    BY <1>1, SuspendedSound
<1>4. PICK routed \in IF p = NoPort THEN {held} ELSE InputDevice(held, p) :
        \E in \in Reconfigured(routed, asked, a) :
          /\ sspec' = SourceSpec(in)
          /\ input' \in IF idle THEN {in} ELSE Resumed(in)
          /\ valid' = IF idle THEN valid ELSE Valid(input')
          /\ granted' = (input'.hal = asked /\ in.hal = asked /\ (s # NoSpec \/ granted))
          /\ slipped' = (input'.spec # in.spec)
    BY DEF SourceReconfigure
<1> HIDE DEF asked, held
<1>5. Sound(routed)
    BY <1>1, <1>3, <1>4, InputDeviceSound
<1>6. PICK in \in Reconfigured(routed, asked, a) :
          /\ sspec' = SourceSpec(in)
          /\ input' \in IF idle THEN {in} ELSE Resumed(in)
          /\ valid' = IF idle THEN valid ELSE Valid(input')
          /\ granted' = (input'.hal = asked /\ in.hal = asked /\ (s # NoSpec \/ granted))
          /\ slipped' = (input'.spec # in.spec)
    BY <1>4
<1>7. Sound(in)
    BY <1>1, <1>2, <1>5, ReconfiguredSound
<1>8. Sound(input') /\ (in.hal # Closed => input' = in)
    BY <1>1, <1>6, <1>7, ResumedSound
<1>9. sspec' \in Specs
    BY <1>6, <1>7 DEF SourceSpec, Sound, InputType
<1>10. granted' \in BOOLEAN /\ valid' \in BOOLEAN /\ slipped' \in BOOLEAN
    BY <1>1, <1>6, SourceAssumption DEF Valid, TypeOK
<1>11. CloseInput => (~idle /\ valid' => input'.hal # Closed)
    BY <1>6 DEF Valid
<1>12. ASSUME granted'
       PROVE  /\ input'.req = input'.spec
              /\ input'.spec = asked /\ (s # NoSpec \/ granted)
    BY <1>2, <1>6, <1>7, <1>8, <1>12, SourceAssumption DEF Sound
<1>13. ~slipped' => sspec' = input'.spec
    BY <1>6 DEF SourceSpec
<1> QED BY <1>8, <1>9, <1>10, <1>11, <1>12, <1>13 DEF Kept, asked

LEMMA UnchangedKeeps ==
    ASSUME IInv, UNCHANGED <<input, valid, sspec, granted, slipped>>
    PROVE  Kept
BY DEF IInv, TypeOK, Kept, ReadsOpenStream, SpecAgrees

LEMMA ServeKeeps ==
    ASSUME IInv, NEW o \in Outputs, Serve(o)
    PROVE  Kept /\ (granted' => input'.spec = SpecOf[o])
<1>1. SpecOf[o] \in Specs /\ SourceOf[o] \in AudioSources \cup {NoSource} /\ NoSpec \notin Specs
    BY SourceAssumption
<1>2. CASE Needed(o)
    BY <1>1, <1>2, SourceReconfigureKeeps DEF Serve
<1>3. CASE ~Needed(o)
    BY <1>3, UnchangedKeeps DEF Serve, Needed
<1> QED BY <1>2, <1>3

LEMMA UnsuspendKeeps ==
    ASSUME IInv, Unsuspend, sspec' = sspec
    PROVE  /\ Sound(input') /\ valid' \in BOOLEAN /\ granted' \in BOOLEAN /\ slipped' \in BOOLEAN
           /\ CloseInput => (valid' => input'.hal # Closed)
           /\ granted' => granted /\ input'.spec = input.spec /\ input'.req = input'.spec
           /\ ~slipped' => sspec' = input'.spec
<1>1. TypeOK /\ Sound(input)
    BY DEF IInv
<1>2. Sound(input') /\ (input.hal # Closed => input' = input) /\ (input' = input \/ input'.hal # Closed)
    BY <1>1, ResumedSound DEF Unsuspend
<1>3. granted' => granted /\ input'.spec = input.spec /\ input'.req = input'.spec
    BY <1>2 DEF Unsuspend, IInv, Sound
<1>4. valid' \in BOOLEAN /\ granted' \in BOOLEAN /\ slipped' \in BOOLEAN
    BY <1>1, SourceAssumption DEF Unsuspend, Valid, TypeOK
<1>5. CloseInput => (valid' => input'.hal # Closed)
    BY DEF Unsuspend, Valid
<1>6. ~slipped' => sspec' = input'.spec
    BY DEF Unsuspend, IInv, SpecAgrees
<1> QED BY <1>2, <1>3, <1>4, <1>5, <1>6

(* Removing one source-output from the list leaves a list, whose last one  *)
(* is the same unless that was removed.                                    *)
LEMMA RemoveAtFacts ==
    ASSUME NEW S, NEW s \in Seq(S), NEW k \in 1..Len(s)
    PROVE  /\ RemoveAt(s, k) \in Seq(S) /\ Len(RemoveAt(s, k)) = Len(s) - 1
           /\ k # Len(s) => RemoveAt(s, k) # <<>> /\ Last(RemoveAt(s, k)) = Last(s)
<1> DEFINE a == SubSeq(s, 1, k - 1)
           b == SubSeq(s, k + 1, Len(s))
<1>1. a \in Seq(S) /\ Len(a) = k - 1
    BY SubSeqProperties
<1>2. b \in Seq(S) /\ Len(b) = Len(s) - k
      /\ \A i \in 1..(Len(s) - k) : b[i] = s[k + i]
    BY SubSeqProperties
<1>3. RemoveAt(s, k) = a \o b
    BY DEF RemoveAt
<1> HIDE DEF a, b
<1>4. a \o b \in Seq(S) /\ Len(a \o b) = Len(s) - 1
    BY <1>1, <1>2, ConcatProperties
<1>5. ASSUME k # Len(s) PROVE (a \o b)[Len(s) - 1] = s[Len(s)]
  <2>1. Len(s) - 1 \in (Len(a) + 1)..(Len(a) + Len(b))
      BY <1>1, <1>2, <1>5
  <2>2. (a \o b)[Len(s) - 1] = b[Len(s) - k]
      BY <1>1, <1>2, <2>1, ConcatProperties
  <2> QED BY <1>2, <1>5, <2>2
<1> QED BY <1>3, <1>4, <1>5 DEF Last

-----------------------------------------------------------------------------
(* The audio source.                                                       *)

LEMMA OpenedSource ==
    ASSUME NEW in \in InputType, NEW r \in Opened(in) PROVE r.source = in.source
<1>1. CASE in.hal # Closed
    BY <1>1 DEF Opened
<1>2. CASE in.hal = Closed
  <2>1. PICK s \in Granted(in.req), q \in Patches(in.port) : r = OpenedAs(in, s, q)
      BY <1>2 DEF Opened
  <2> QED BY <2>1 DEF OpenedAs, InputType
<1> QED BY <1>1, <1>2

LEMMA ReconfiguredSource ==
    ASSUME TypeOK, NEW in, Sound(in), NEW s \in Specs, NEW a \in AudioSources,
           Override[mode] = NoSource, NEW r \in Reconfigured(in, s, a)
    PROVE  r.source = a
<1> DEFINE set == [in EXCEPT !.req = s, !.source = AudioSource(in.port, a)]
           asked == Shut(set)
           again == [asked EXCEPT !.req = Default]
<1>1. AudioSource(in.port, a) = a
    BY SourceAssumption DEF AudioSource
<1>2. set \in InputType /\ set.source = a
    BY <1>1 DEF Sound, InputType
<1>3. asked \in InputType /\ asked.source = a
    BY <1>2 DEF Shut, InputType
<1>4. again \in InputType /\ again.source = a
    BY <1>3, SourceAssumption DEF InputType
<1>5. r \in Opened(asked) \/ r \in Opened(again)
    BY DEF Reconfigured
<1> HIDE DEF asked, again
<1> QED BY <1>3, <1>4, <1>5, OpenedSource

LEMMA ServeSource ==
    ASSUME IInv, NEW o \in Outputs, Serve(o), SourceOf[o] # NoSource, Override[mode] = NoSource
    PROVE  input'.source = SourceOf[o]
<1>1. /\ SpecOf[o] \in Specs /\ SourceOf[o] \in AudioSources /\ SpecOf[o] # NoSpec
      /\ TypeOK /\ Sound(input)
    BY SourceAssumption DEF IInv
<1>2. CASE Needed(o)
  <2> DEFINE held == IF idle THEN input ELSE Suspended(input)
  <2>1. Sound(held)
    BY <1>1, SuspendedSound
  <2>2. SourceReconfigure(SpecOf[o], SourceOf[o], NoPort)
    BY <1>2 DEF Serve
  <2>3. \E in \in Reconfigured(held, SpecOf[o], SourceOf[o]) : input' \in IF idle THEN {in} ELSE Resumed(in)
    BY <1>1, <2>2 DEF SourceReconfigure
  <2> HIDE DEF held
  <2>4. PICK in \in Reconfigured(held, SpecOf[o], SourceOf[o]) :
            input' \in IF idle THEN {in} ELSE Resumed(in)
    BY <2>3
  <2>5. in.source = SourceOf[o] /\ Sound(in)
    BY <1>1, <2>1, ReconfiguredSource, ReconfiguredSound
  <2>6. in \in InputType /\ (input' = in \/ input' \in Opened(in))
    BY <2>4, <2>5 DEF Sound, Resumed
  <2> QED BY <2>5, <2>6, OpenedSource
<1>3. CASE ~Needed(o)
    BY <1>1, <1>3 DEF Serve, Needed
<1> QED BY <1>2, <1>3

-----------------------------------------------------------------------------
THEOREM SourceInvariant == Spec => []IInv
<1>1. Init => IInv
  <2> SUFFICES ASSUME Init PROVE IInv
      OBVIOUS
  <2>1. PICK s \in Granted(Default) \ {Closed}, p \in Ports :
         /\ input \in {[hal |-> IF CloseInput THEN Closed ELSE s, spec |-> s, req |-> s,
                        source |-> Mic, port |-> p, patch |-> q] :
                       q \in IF CloseInput THEN {NoPort} ELSE Patches(p)}
         /\ sspec = s
         /\ granted = (s = Default)
      BY DEF Init
  <2>2. s \in Specs
      BY SourceAssumption DEF Init, Granted
  <2>3. PICK q \in IF CloseInput THEN {NoPort} ELSE Patches(p) :
          input = [hal |-> IF CloseInput THEN Closed ELSE s, spec |-> s, req |-> s,
                   source |-> Mic, port |-> p, patch |-> q]
      BY <2>1
  <2>4. Sound(input) /\ input.spec = s /\ input.req = s
      BY <2>2, <2>3, SourceAssumption DEF Sound, InputType, Patches
  <2> QED BY <2>1, <2>2, <2>4, EmptySeq DEF Init, IInv, TypeOK, Sound, InputType, ReadsOpenStream, ServesLast, SpecAgrees
<1>2. IInv /\ [Next]_vars => IInv'
  <2> SUFFICES ASSUME IInv, [Next]_vars PROVE IInv'
      OBVIOUS
  <2>0. /\ able \subseteq Specs /\ mode \in Modes /\ idle \in BOOLEAN /\ outs \in Seq(Outputs)
        /\ valid \in BOOLEAN /\ sspec \in Specs /\ heard \in BOOLEAN /\ granted \in BOOLEAN
        /\ slipped \in BOOLEAN /\ awkward \in BOOLEAN /\ Sound(input)
      BY DEF IInv, TypeOK
  <2>1. ASSUME NEW o \in Outputs, NEW connects \in BOOLEAN, NewOutput(o, connects) PROVE IInv'
    <3>1. Kept /\ (granted' => input'.spec = SpecOf[o])
        BY <2>1, ServeKeeps DEF NewOutput
    <3>2. /\ UNCHANGED <<able, awkward, mode, idle>> /\ heard' = connects
          /\ outs' = IF connects THEN Append(outs, o) ELSE outs
        BY <2>1 DEF NewOutput
    <3>3. outs' \in Seq(Outputs) /\ (connects => Last(outs') = o)
        BY <2>0, <3>2, AppendProperties DEF Last
    <3> QED BY <2>0, <3>1, <3>2, <3>3 DEF Kept, IInv, TypeOK, Sound, InputType, ReadsOpenStream, ServesLast, SpecAgrees
  <2>2. ASSUME NEW o \in Outputs, ConnectUnnamed(o) PROVE IInv'
    <3>1. outs' \in Seq(Outputs)
        BY <2>0, <2>2, AppendProperties DEF ConnectUnnamed
    <3> QED BY <2>0, <2>2, <3>1 DEF ConnectUnnamed, IInv, TypeOK, Sound, InputType, ReadsOpenStream, ServesLast, SpecAgrees
  <2>3. CASE Unlink
    <3>1. outs' \in Seq(Outputs)
        BY <2>0, <2>3, RemoveAtFacts DEF Unlink
    <3>2. UNCHANGED <<able, awkward, mode, idle>> /\ heard' = TRUE /\ AfterChanges(outs')
        BY <2>3 DEF Unlink
    <3>3. CASE outs' = <<>>
      <4>1. Kept
          BY <3>2, <3>3, UnchangedKeeps DEF AfterChanges
      <4> QED BY <2>0, <3>1, <3>2, <3>3, <4>1 DEF Kept, IInv, TypeOK, Sound, InputType, ReadsOpenStream, ServesLast, SpecAgrees
    <3>4. CASE outs' # <<>>
      <4>1. LastOf(outs') \in Outputs
          BY <3>1, <3>4, EmptySeq DEF LastOf, Last
      <4>2. Kept /\ (granted' => input'.spec = SpecOf[Last(outs')])
          BY <3>2, <3>4, <4>1, ServeKeeps DEF AfterChanges, LastOf
      <4> QED BY <2>0, <3>1, <3>2, <4>2 DEF Kept, IInv, TypeOK, Sound, InputType, ReadsOpenStream, ServesLast, SpecAgrees
    <3> QED BY <3>3, <3>4
  <2>4. CASE MoveAway
    <3>1. PICK k \in 1..Len(outs) : outs' = RemoveAt(outs, k) /\ heard' = (heard /\ k # Len(outs))
        BY <2>4 DEF MoveAway
    <3>2. outs' \in Seq(Outputs)
          /\ (k # Len(outs) => Last(outs') = Last(outs))
        BY <2>0, <3>1, RemoveAtFacts
    <3>3. heard' => heard /\ k # Len(outs)
      <4>1. CASE heard = TRUE
          BY <3>1, <4>1
      <4>2. CASE heard = FALSE
          BY <3>1, <4>2
      <4> QED BY <2>0, <4>1, <4>2
    <3>4. outs # <<>>
      <4>1. 1 <= k /\ k <= Len(outs)
          BY <2>0, <3>1
      <4> QED BY <4>1
    <3>5. heard' => Last(outs') = Last(outs) /\ heard /\ outs # <<>>
        BY <3>2, <3>3, <3>4
    <3> QED BY <2>0, <2>4, <3>1, <3>2, <3>5 DEF MoveAway, IInv, TypeOK, Sound, InputType, ReadsOpenStream, ServesLast, SpecAgrees
  <2>5. ASSUME NEW p \in Ports, SetPort(p) PROVE IInv'
    <3>1. UNCHANGED <<able, awkward, mode, idle, outs, heard>>
        BY <2>5 DEF SetPort
    <3>2. CASE idle
      <4>1. input' \in InputDevice(input, p) /\ UNCHANGED <<valid, sspec, granted, slipped>>
          BY <2>5, <3>2 DEF SetPort
      <4>2. Sound(input') /\ input'.spec = input.spec /\ input'.req = input.req
          BY <2>0, <4>1, InputDeviceSound DEF IInv
      <4> QED BY <2>0, <3>1, <3>2, <4>1, <4>2 DEF IInv, TypeOK, Sound, InputType, ReadsOpenStream, ServesLast, SpecAgrees
    <3>3. CASE ~idle
      <4>1. SourceReconfigure(NoSpec, NoSource, p)
          BY <2>5, <3>3 DEF SetPort
      <4>2. Kept /\ (granted' => granted /\ input'.spec = input.spec)
          BY <4>1, SourceReconfigureKeeps
      <4> QED BY <2>0, <3>1, <3>3, <4>2 DEF Kept, IInv, TypeOK, Sound, InputType, ReadsOpenStream, ServesLast, SpecAgrees
    <3> QED BY <2>0, <3>2, <3>3
  <2>6. CASE Resume \/ ThreadRead
    <3>1. Unsuspend /\ UNCHANGED <<able, awkward, mode, outs, sspec, heard>> /\ idle' = FALSE
        BY <2>0, <2>6 DEF Resume, ThreadRead, Retries
    <3>2. /\ Sound(input') /\ valid' \in BOOLEAN /\ granted' \in BOOLEAN /\ slipped' \in BOOLEAN
          /\ CloseInput => (valid' => input'.hal # Closed)
          /\ granted' => granted /\ input'.spec = input.spec /\ input'.req = input'.spec
          /\ ~slipped' => sspec' = input'.spec
        BY <3>1, UnsuspendKeeps
    <3> QED BY <2>0, <3>1, <3>2 DEF IInv, TypeOK, Sound, InputType, ReadsOpenStream, ServesLast, SpecAgrees
  <2>7. CASE Suspend
    <3>1. Sound(input') /\ input'.spec = input.spec /\ input'.req = input.req
        BY <2>0, <2>7, SuspendedSound DEF Suspend
    <3> QED BY <2>0, <2>7, <3>1 DEF Suspend, IInv, TypeOK, Sound, InputType, ReadsOpenStream, ServesLast, SpecAgrees
  <2>8. ASSUME NEW m \in Modes, SetMode(m) PROVE IInv'
      BY <2>0, <2>8 DEF SetMode, IInv, TypeOK, Sound, InputType, ReadsOpenStream, ServesLast, SpecAgrees
  <2>9. ASSUME NEW a \in SUBSET Specs, NEW b \in BOOLEAN, HalChanges(a, b) PROVE IInv'
      BY <2>0, <2>9 DEF HalChanges, IInv, TypeOK, Sound, InputType, ReadsOpenStream, ServesLast, SpecAgrees
  <2>10. CASE UNCHANGED vars
      BY <2>0, <2>10 DEF vars, IInv, TypeOK, Sound, InputType, ReadsOpenStream, ServesLast, SpecAgrees
  <2> QED BY <2>1, <2>2, <2>3, <2>4, <2>5, <2>6, <2>7, <2>8, <2>9, <2>10 DEF Next
<1> QED BY <1>1, <1>2, PTL DEF Spec

(* Every variable keeps to its type.                                       *)
THEOREM TypeCorrect == Spec => []TypeOK
<1>1. IInv => TypeOK
    BY DEF IInv
<1> QED BY <1>1, SourceInvariant, PTL

(* With close_input, as by default, the IO thread never reads from a       *)
(* stream that is not open.                                                *)
THEOREM ReadsCorrect == ASSUME CloseInput PROVE Spec => []ReadsOpenStream
<1>1. IInv => ReadsOpenStream
    BY DEF IInv
<1> QED BY <1>1, SourceInvariant, PTL

(* The source serves the last source-output it was told of.                *)
THEOREM ServesLastCorrect == Spec => []ServesLast
<1>1. IInv => ServesLast
    BY DEF IInv
<1> QED BY <1>1, SourceInvariant, PTL

(* Patches are of open streams, from the active port.                      *)
THEOREM PatchCorrect == Spec => []PatchIsPort
<1>1. IInv => PatchIsPort
    BY DEF IInv, Sound, PatchIsPort
<1> QED BY <1>1, SourceInvariant, PTL

(* The source's sample spec is the stream's, whatever a reconfiguration    *)
(* ended with, unless a resume reopened the stream with another one.       *)
THEOREM SpecAgreesCorrect == Spec => []SpecAgrees
<1>1. IInv => SpecAgrees
    BY DEF IInv
<1> QED BY <1>1, SourceInvariant, PTL

(* Out of calls, a source-output that names the source gets the audio      *)
(* source it asks for, whatever the HAL grants of the rest.                *)
THEOREM AudioSourceCorrect == Spec => AudioSourceServed
<1> DEFINE Asks(o) == /\ outs' = Append(outs, o) /\ heard'
                      /\ SourceOf[o] # NoSource /\ Override[mode] = NoSource
<1>1. ASSUME IInv, Next, NEW o \in Outputs, Asks(o) PROVE input'.source = SourceOf[o]
  <2>1. outs \in Seq(Outputs) /\ Len(outs) \in Nat /\ Len(outs') = Len(outs) + 1
    BY <1>1, AppendProperties, LenProperties DEF IInv, TypeOK
  <2>2. outs' # outs
    BY <2>1
  <2>3. \A k \in 1..Len(outs) : outs' # RemoveAt(outs, k)
    BY <2>1, RemoveAtFacts
  <2>4. ASSUME NEW u \in Outputs, NEW connects \in BOOLEAN, NewOutput(u, connects)
        PROVE  input'.source = SourceOf[o]
    <3>1. Serve(u) /\ outs' = Append(outs, u)
        BY <2>2, <2>4 DEF NewOutput
    <3>2. Append(outs, u)[Len(outs) + 1] = u /\ Append(outs, o)[Len(outs) + 1] = o
        BY <2>1, AppendProperties
    <3>3. u = o
        BY <1>1, <3>1, <3>2
    <3> QED BY <1>1, <3>1, <3>3, ServeSource
  <2>5. ~\E u \in Outputs : ConnectUnnamed(u)
    BY <1>1 DEF ConnectUnnamed
  <2>6. ~Unlink /\ ~MoveAway
    BY <2>2, <2>3 DEF Unlink, MoveAway
  <2>7. \E u \in Outputs, connects \in BOOLEAN : NewOutput(u, connects)
    BY <1>1, <2>2, <2>5, <2>6 DEF Next, SetPort, Resume, Suspend, ThreadRead, SetMode, HalChanges
  <2> QED BY <2>4, <2>7
<1>2. IInv /\ [Next]_vars =>
          [\A o \in Outputs :
             outs' = Append(outs, o) /\ heard' /\ SourceOf[o] # NoSource /\ Override[mode] = NoSource
               => input'.source = SourceOf[o]]_vars
    BY <1>1
<1> QED BY <1>2, SourceInvariant, PTL DEF Spec, AudioSourceServed

=============================================================================
