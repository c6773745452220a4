---------------------------- MODULE DroidSource ----------------------------
(***************************************************************************)
(* A droid-source and its input stream.  PulseAudio hooks and port changes *)
(* reconfigure the stream from the main thread; its IO thread reopens it   *)
(* on resume, and again before every read after that failed.  The main     *)
(* thread suspends the source, and waits for the IO thread to have done    *)
(* so, before it touches the stream: a handler with the suspending and     *)
(* resuming it asks for is one action, an attempt of the IO thread to      *)
(* reopen the stream on its own is another.                                *)
(*                                                                         *)
(* A spec stands for a sample spec with its channel map.  Routes are audio *)
(* patches.                                                                *)
(***************************************************************************)
EXTENDS Naturals, Sequences, SequencesExt

CONSTANTS
    Outputs,        \* source-outputs
    SpecOf,         \* sample spec they ask for
    SourceOf,       \* droid.audio_source they ask for, NoSource for none
    Specs,
    Default,        \* default_sample_spec
    Closed,         \* no HAL stream
    NoSpec,
    AudioSources,
    NoSource,       \* AUDIO_SOURCE_DEFAULT
    Mic,            \* AUDIO_SOURCE_MIC
    Ports,          \* input device ports
    DefaultSource,  \* pa_input_device_default_audio_source(), NoSource for
                    \* a device without one
    NoPort,
    Modes,
    Override,       \* audio source a mode forces, NoSource for none
    Fill,           \* spec stream_config_fill() makes of another, by mode:
                    \* NoSpec if the mix port has no profile near it
    CloseInput,     \* DM_OPTION_CLOSE_INPUT
    MayFail         \* whether the HAL may refuse a patch

ASSUME SourceAssumption ==
    /\ SpecOf \in [Outputs -> Specs]
    /\ SourceOf \in [Outputs -> AudioSources \cup {NoSource}]
    /\ Default \in Specs /\ Closed \notin Specs /\ NoSpec \notin Specs
    /\ NoSource \notin AudioSources /\ Mic \in AudioSources
    /\ NoPort \notin Ports
    /\ DefaultSource \in [Ports -> AudioSources \cup {NoSource}]
    /\ Override \in [Modes -> AudioSources \cup {NoSource}]
    /\ Fill \in [Modes -> [Specs -> Specs \cup {NoSpec}]]
    /\ {CloseInput, MayFail} \subseteq BOOLEAN

VARIABLES
    able,       \* specs the HAL supports now
    awkward,    \* it answers others with some that PulseAudio has no name for
    mode,       \* hw_module->state.mode
    idle,       \* the source is suspended
    outs,       \* source->outputs
    input,      \* the stream:  hal      what the HAL records, or Closed
                \*              spec     sample_spec
                \*              req      req_sample_spec
                \*              source   audio_source
                \*              port     active_device_port
                \*              patch    device of its audio patch
    valid,      \* u->stream_valid
    sspec,      \* source->sample_spec
    heard,      \* history: the last source-output was looked at as it came,
                \* or after it
    granted,    \* history: the stream is what was last asked for
    slipped     \* history: the stream was reopened as something else than the
                \* source took it for

vars == <<able, awkward, mode, idle, outs, input, valid, sspec, heard, granted, slipped>>

TypeOK ==
    /\ able \subseteq Specs /\ awkward \in BOOLEAN /\ mode \in Modes /\ idle \in BOOLEAN
    /\ outs \in Seq(Outputs)
    /\ input \in [hal : Specs \cup {Closed}, spec : Specs, req : Specs,
                  source : AudioSources \cup {NoSource}, port : Ports, patch : Ports \cup {NoPort}]
    /\ valid \in BOOLEAN /\ sspec \in Specs
    /\ heard \in BOOLEAN /\ granted \in BOOLEAN /\ slipped \in BOOLEAN

-----------------------------------------------------------------------------
(* The input stream.                                                       *)

(* Whether the HAL opens the defaults when it refused what was asked for.  *)
DefaultOpens == ~awkward /\ Fill[mode][Default] \in able

(* What input_stream_open() ends with when s is asked for.  A spec that no *)
(* profile of the mix port is near never reaches the HAL.  One it does not *)
(* support it answers with another, that is taken if it can be converted   *)
(* and opened and is the end if it cannot be converted; a refusal without  *)
(* an answer makes it the defaults.  That defaults without a profile leave *)
(* hw_mutex locked is DroidLocks!DefaultsDoNotFit.                         *)
Granted(s) ==
    LET fit == Fill[mode][s]
    IN  IF fit = NoSpec THEN {Closed}
        ELSE IF fit \in able THEN {fit}
        ELSE able \cup (IF DefaultOpens THEN {} ELSE {Closed})

Patches(p) == IF MayFail THEN {p, NoPort} ELSE {p}

OpenedAs(in, s, q) ==
    IF s = Closed THEN in ELSE [in EXCEPT !.hal = s, !.spec = s, !.req = s, !.patch = q]

(* input_stream_open() *)
Opened(in) ==
    IF in.hal # Closed THEN {in}
    ELSE {OpenedAs(in, s, q) : s \in Granted(in.req), q \in Patches(in.port)}

(* Mutant of Shut: the patch is not released.                              *)
ShutPatched(in) == [in EXCEPT !.hal = Closed]

(* input_stream_close() *)
Shut(in) == [in EXCEPT !.hal = Closed, !.patch = NoPort]

(* pa_droid_stream_suspend() *)
Suspended(in) == IF CloseInput THEN Shut(in) ELSE in
Resumed(in) == IF CloseInput THEN Opened(in) ELSE {in}

(* Mutant of Valid: the result of resuming is not looked at.               *)
ValidAlways(in) == TRUE

(* unsuspend(): what it makes of the result of resuming.                   *)
Valid(in) == CloseInput => in.hal # Closed

(* droid_set_audio_source() *)
AudioSource(p, a) ==
    IF Override[mode] # NoSource THEN Override[mode]
    ELSE IF a = NoSource THEN DefaultSource[p] ELSE a

(* pa_droid_stream_reconfigure_input() *)
Reconfigured(in, s, a) ==
    LET asked == Shut([in EXCEPT !.req = s, !.source = AudioSource(in.port, a)])
    IN  {got \in Opened(asked) : got.hal # Closed} \cup
        (IF asked \in Opened(asked) THEN Opened([asked EXCEPT !.req = Default]) ELSE {})

(* pa_droid_hw_set_input_device() *)
InputDevice(in, p) ==
    LET set == [in EXCEPT !.port = p, !.source = AudioSource(p, in.source)]
    IN  IF set # in /\ in.hal # Closed
          THEN {[set EXCEPT !.patch = q] : q \in Patches(p)} ELSE {set}

(* Mutant of Needed: a change of audio source is no reason.                *)
NeededForSpec(o) == SpecOf[o] # input.spec

(* pa_droid_stream_reconfigure_input_needed() *)
Needed(o) ==
    \/ SpecOf[o] # input.spec
    \/ LET wanted == IF SourceOf[o] = NoSource THEN DefaultSource[input.port] ELSE SourceOf[o]
       IN  wanted \notin {NoSource, input.source}

-----------------------------------------------------------------------------
(* The source.                                                             *)

(* pa_droid_source_new(): opened with the defaults, put on the port of the *)
(* source, then suspended.                                                 *)
Init ==
    /\ able \in SUBSET Specs /\ awkward \in BOOLEAN
    /\ mode \in {m \in Modes : Override[m] = NoSource}
    /\ idle = TRUE /\ outs = <<>> /\ valid = TRUE
    /\ \E s \in Granted(Default) \ {Closed}, p \in Ports :
         /\ input \in {[hal |-> IF CloseInput THEN Closed ELSE s, spec |-> s, req |-> s,
                        source |-> Mic, port |-> p, patch |-> q] :
                       q \in IF CloseInput THEN {NoPort} ELSE Patches(p)}
         /\ sspec = s
         /\ granted = (s = Default)
    /\ heard = TRUE /\ slipped = FALSE

(* Mutant of SourceSpec: the source keeps the sample spec it had.          *)
SourceSpecKept(in) == sspec

(* The sample spec the source gets from its stream.                        *)
SourceSpec(in) == in.spec

(* source_reconfigure() to spec s, or the one it has, with audio source a, *)
(* on port p if there is one.                                              *)
SourceReconfigure(s, a, p) ==
    LET asked == IF s = NoSpec THEN input.spec ELSE s
        held  == IF idle THEN input ELSE Suspended(input)
    IN  \E routed \in IF p = NoPort THEN {held} ELSE InputDevice(held, p) :
        \E in \in Reconfigured(routed, asked, a) :
          /\ sspec' = SourceSpec(in)
          /\ input' \in IF idle THEN {in} ELSE Resumed(in)
          /\ valid' = IF idle THEN valid ELSE Valid(input')
          /\ granted' = (input'.hal = asked /\ in.hal = asked /\ (s # NoSpec \/ granted))
          /\ slipped' = (input'.spec # in.spec)

(* What a hook does about source-output o.                                 *)
Serve(o) ==
    IF Needed(o) THEN SourceReconfigure(SpecOf[o], SourceOf[o], NoPort)
    ELSE UNCHANGED <<input, valid, sspec, granted, slipped>>

(* source_output_new_hook_callback() for a source-output that names this   *)
(* source; that it connects is not certain yet.                            *)
NewOutput(o, connects) ==
    /\ \A k \in 1..Len(outs) : outs[k] # o
    /\ Serve(o)
    /\ outs' = IF connects THEN Append(outs, o) ELSE outs
    /\ heard' = connects
    /\ UNCHANGED <<able, awkward, mode, idle>>

(* One that leaves the source to the core is not for the hook, nor is one  *)
(* that is moved here.                                                     *)
ConnectUnnamed(o) ==
    /\ \A k \in 1..Len(outs) : outs[k] # o
    /\ outs' = Append(outs, o)
    /\ heard' = FALSE
    /\ UNCHANGED <<able, awkward, mode, idle, input, valid, sspec, granted, slipped>>

(* Mutant of LastOf: the first one is taken.                               *)
LastOfIsHead(s) == Head(s)

(* The last source-output put into the set, which keeps them in order.     *)
LastOf(s) == Last(s)

(* source_reconfigure_after_changes() *)
AfterChanges(s) ==
    IF s = <<>> THEN UNCHANGED <<input, valid, sspec, granted, slipped>> ELSE Serve(LastOf(s))

(* source_output_unlink_post_hook_callback(), for a source-output of this  *)
(* source or of any other.                                                 *)
Unlink ==
    /\ \/ outs' = outs
       \/ \E k \in 1..Len(outs) : outs' = RemoveAt(outs, k)
    /\ AfterChanges(outs')
    /\ heard' = TRUE
    /\ UNCHANGED <<able, awkward, mode, idle>>

(* A source-output is moved to another source: no hook of ours hears it.   *)
MoveAway ==
    /\ \E k \in 1..Len(outs) :
         /\ outs' = RemoveAt(outs, k)
         /\ heard' = (heard /\ k # Len(outs))
    /\ UNCHANGED <<able, awkward, mode, idle, input, valid, sspec, granted, slipped>>

(* source_set_port_cb(), a port with a device.                             *)
SetPort(p) ==
    /\ IF idle
         THEN input' \in InputDevice(input, p) /\ UNCHANGED <<valid, sspec, granted, slipped>>
         ELSE SourceReconfigure(NoSpec, NoSource, p)
    /\ UNCHANGED <<able, awkward, mode, idle, outs, heard>>

(* unsuspend() *)
Unsuspend ==
    /\ input' \in Resumed(input)
    /\ valid' = Valid(input')
    /\ granted' = (granted /\ (input' = input \/ input'.spec = input.req))
    /\ slipped' = (slipped \/ input'.spec # input.spec)

(* The core resumes the source, or suspends it.                            *)
Resume ==
    /\ idle
    /\ idle' = FALSE
    /\ Unsuspend
    /\ UNCHANGED <<able, awkward, mode, outs, sspec, heard>>

Suspend ==
    /\ ~idle
    /\ idle' = TRUE
    /\ input' = Suspended(input)
    /\ UNCHANGED <<able, awkward, mode, outs, valid, sspec, heard, granted, slipped>>

(* Mutant of Retries: silence is posted without another attempt.           *)
RetriesNever == FALSE

(* thread_read() tries to resume a stream that is not valid.               *)
Retries == ~idle /\ ~valid

ThreadRead ==
    /\ Retries
    /\ Unsuspend
    /\ UNCHANGED <<able, awkward, mode, idle, outs, sspec, heard>>

(* pa_droid_hw_set_mode() leaves input streams alone.                      *)
SetMode(m) ==
    /\ mode' = m
    /\ UNCHANGED <<able, awkward, idle, outs, input, valid, sspec, heard, granted, slipped>>

HalChanges(a, b) ==
    /\ able' = a /\ awkward' = b
    /\ UNCHANGED <<mode, idle, outs, input, valid, sspec, heard, granted, slipped>>

Next ==
    \/ \E o \in Outputs : \/ \E connects \in BOOLEAN : NewOutput(o, connects)
                          \/ ConnectUnnamed(o)
    \/ Unlink
    \/ MoveAway
    \/ \E p \in Ports : SetPort(p)
    \/ Resume
    \/ Suspend
    \/ ThreadRead
    \/ \E m \in Modes : SetMode(m)
    \/ \E a \in SUBSET Specs, b \in BOOLEAN : HalChanges(a, b)

(* The IO thread's timer wakes it as long as the source is open.           *)
Spec == Init /\ [][Next]_vars /\ WF_vars(ThreadRead)

-----------------------------------------------------------------------------
(* Properties.                                                             *)

(* The IO thread of an open source reads from a stream the HAL has open,   *)
(* or knows that it must not: after any failure to reconfigure, to go back *)
(* to the defaults, and to resume.                                         *)
ReadsOpenStream == ~idle /\ valid => input.hal # Closed

(* "Droid source is always reconfigured with the last source-output that   *)
(* connects to it" and, when that is gone, with the last that remains; as  *)
(* far as the hook was told of it and the HAL granted it.                  *)
ServesLast == heard /\ granted /\ outs # <<>> => input.spec = SpecOf[Last(outs)]

(* Out of calls a source-output that asks for an audio source gets it.     *)
AudioSourceServed ==
    [][\A o \in Outputs :
         outs' = Append(outs, o) /\ heard' /\ SourceOf[o] # NoSource /\ Override[mode] = NoSource
           => input'.source = SourceOf[o]]_vars

(* Only an open stream has a patch, and it is from the active port.        *)
PatchIsPort == input.patch # NoPort => input.hal # Closed /\ input.patch = input.port

(* The source converts for its outputs from the spec its stream has,       *)
(* whatever a reconfiguration ended with, until a resume reopens the       *)
(* stream with another one than before: that the source is not told.       *)
SpecAgrees == ~slipped => sspec = input.spec

(* An open source gets a stream again as soon as the HAL opens what is     *)
(* asked for, or the defaults where what is asked for reaches the HAL.     *)
CanRecord ==
    LET fit == Fill[mode][input.req]
    IN  fit \in able \/ (fit # NoSpec /\ DefaultOpens)
Recovers == (~idle /\ CanRecord) ~> (input.hal # Closed \/ idle \/ ~CanRecord)

=============================================================================
