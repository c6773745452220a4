------------------------------ MODULE DroidLocks ------------------------------
(***************************************************************************)
(* The threads of a hw module and its mutexes.  The main thread opens,     *)
(* closes and routes streams and talks to the HAL; every sink and the      *)
(* source has an IO thread, which plays or records, is sent messages by    *)
(* the main thread, which waits for the answer, and may open the input     *)
(* stream on its own.                                                      *)
(*                                                                         *)
(* A thread has the steps of its handler that are left; steps that look at *)
(* something first put those that follow from it in their place.  What the *)
(* handlers decide is in DroidSource and DroidSink; this is the order in   *)
(* which they lock, touch streams and talk to each other.  active_outputs  *)
(* is left out: nothing reads it.                                          *)
(***************************************************************************)
EXTENDS Integers, Sequences, FiniteSets, SequencesExt

CONSTANTS
    Outputs,    \* output streams; the IO threads of their sinks
    Primary,    \* the one with AUDIO_OUTPUT_FLAG_PRIMARY
    Options     \* options of the module, and what its HAL does: sets of
                \*   "legacy"       DM_OPTION_USE_LEGACY_STREAM_SET_PARAMETERS
                \*   "close_input"  DM_OPTION_CLOSE_INPUT
                \*   "unfillable"   the default specs fit no configuration
                \*   "refuses"      standby() may fail

Streams == Outputs \cup {"in"}
Threads == Streams \cup {"main"}
Mutexes == {"hw", "output", "input"}

ASSUME LocksAssumption ==
    /\ Primary \in Outputs /\ Outputs \cap {"in", "main"} = {}
    /\ \A o \in Options : o \subseteq {"legacy", "close_input", "unfillable", "refuses"}

VARIABLES
    option,
    todo,       \* steps left of the handler a thread is in
    held,       \* how often a thread has locked a mutex
    last,       \* the stream that stream_id was last counted up for
    stream,     \* whether it is open, and whose id is its io_handle
    run,        \* state of its sink or source: "none", "suspended", "running"
    valid,      \* stream_valid of the source
    leaked,     \* history: threads that left input_stream_open() locked
    stolen      \* history: streams opened as another thread opened one

vars == <<option, todo, held, last, stream, run, valid, leaked, stolen>>

S(do, on) == [do |-> do, on |-> on]
Doing(t) == IF todo[t] = <<>> THEN S("idle", t) ELSE Head(todo[t])
Idle(t) == todo[t] = <<>>

TypeOK ==
    /\ option \in Options
    /\ \A t \in Threads : \A k \in DOMAIN todo[t] : todo[t][k].on \in Threads \cup Mutexes
    /\ held \in [Threads -> [Mutexes -> 0..2]]
    /\ last \in Streams
    /\ stream \in [Streams -> [open : BOOLEAN, handle : Streams]]
    /\ run \in [Streams -> {"none", "suspended", "running"}]
    /\ valid \in BOOLEAN
    /\ leaked \subseteq Threads /\ stolen \subseteq Streams

-----------------------------------------------------------------------------
(* Handlers.                                                               *)

Under(m, p) == <<S("lock", m)>> \o p \o <<S("unlock", m)>>
MutexOf(s) == IF s = "in" THEN "input" ELSE "output"

(* output_stream_set_parameter(); patches need no mutex.                   *)
SetRoute(s) == IF "legacy" \in option THEN Under(MutexOf(s), <<S("use", s)>>) ELSE <<>>

(* stream_standby() and input_stream_close() *)
Standby(s) == IF stream[s].open THEN Under(MutexOf(s), <<S("use", s)>>) ELSE <<>>
CloseInput ==
    IF stream["in"].open THEN Under("input", <<S("use", "in"), S("close", "in")>>) ELSE <<>>

(* pa_droid_stream_suspend() of the input stream.                          *)
SuspendInput == IF "close_input" \in option THEN CloseInput ELSE Standby("in")

(* Mutant of OpenInput: without the mutex.                                 *)
OpenInputUnlocked == IF stream["in"].open THEN <<>> ELSE <<S("open", "in")>>

(* input_stream_open(), the first attempt of the loop.                     *)
OpenInput == IF stream["in"].open THEN <<>> ELSE <<S("lock", "hw"), S("open", "in")>>

(* pa_droid_stream_reconfigure_input(): if the stream is not open then, it *)
(* is tried with the default specs, but not when it is new.                *)
Reopen == <<S("closing", "in"), S("opening", "in"), S("opening", "in")>>

(* unsuspend() of the source.                                              *)
Resumed ==
    IF "close_input" \in option THEN <<S("opening", "in"), S("valid", "in")>> ELSE <<S("valid", "in")>>

(* What an IO thread does about a message: sink_set_state_in_io_thread_cb() *)
(* and source_set_state_in_io_thread_cb().                                 *)
SinkTold(m, t) ==
    CASE m = "suspend" -> <<S("standby", t), S("suspended", t)>>
      [] m = "resume" -> Under("hw", <<S("volume", t)>>) \o <<S("running", t)>>
      [] m = "unlink" -> <<S("standby", t), S("none", t)>>

SourceTold(m) ==
    CASE m = "suspend" -> <<S("suspending", "in"), S("suspended", "in")>>
      [] m = "resume" -> Resumed \o <<S("running", "in")>>
      [] m = "unlink" -> <<S("suspending", "in"), S("none", "in")>>

Told(m, t) == IF t = "in" THEN SourceTold(m) ELSE SinkTold(m, t)

Ask(m, t) == <<S(m, t), S("wait", t)>>

-----------------------------------------------------------------------------
(* Steps.                                                                  *)

Free(m, t) == \A u \in Threads \ {t} : held[u][m] = 0

(* A step of t is done, and p is to be done next.                          *)
Done(t, p) == todo' = [todo EXCEPT ![t] = p \o Tail(@)]
At(t, do) == Doing(t).do = do
On(t) == Doing(t).on

Lock(t) ==
    /\ At(t, "lock") /\ Free(On(t), t)
    /\ held' = [held EXCEPT ![t][On(t)] = @ + 1]
    /\ Done(t, <<>>)
    /\ UNCHANGED <<option, last, stream, run, valid, leaked, stolen>>

Unlock(t) ==
    /\ At(t, "unlock")
    /\ held' = [held EXCEPT ![t][On(t)] = @ - 1]
    /\ Done(t, <<>>)
    /\ UNCHANGED <<option, last, stream, run, valid, leaked, stolen>>

(* A call of the HAL, of the device or of a stream.                        *)
Call(t) ==
    /\ \E do \in {"use", "volume", "hal"} : At(t, do)
    /\ Done(t, <<>>)
    /\ UNCHANGED <<option, held, last, stream, run, valid, leaked, stolen>>

(* What is to be done depends on the state then.                           *)
Look(t) ==
    /\ \/ At(t, "standby") /\ Done(t, Standby(On(t)))
       \/ At(t, "closing") /\ Done(t, CloseInput)
       \/ At(t, "suspending") /\ Done(t, SuspendInput)
       \/ At(t, "opening") /\ (Done(t, OpenInput) \/ Done(t, <<>>))
       \/ At(t, "route") /\ Done(t, IF stream[On(t)].open THEN SetRoute(On(t)) ELSE <<>>)
       \/ At(t, "read") /\ Done(t, IF valid THEN <<S("use", "in")>> ELSE <<>>)
       \/ At(t, "wait") /\ Idle(On(t)) /\ Done(t, <<>>)
    /\ UNCHANGED <<option, held, last, stream, run, valid, leaked, stolen>>

(* ++stream_id and the call of open_output_stream() or open_input_stream() *)
(* begins.  What the HAL suggests instead, and the defaults, are tried     *)
(* with the mutex held all along: the attempts are one.                    *)
OpenBegins(t) ==
    /\ At(t, "open")
    /\ last' = On(t)
    /\ stolen' = (stolen \ {On(t)}) \cup
                 {s \in Streams : \E u \in Threads \ {t} : Contains(todo[u], S("handle", s))}
    /\ Done(t, <<S("opened", On(t))>>)
    /\ UNCHANGED <<option, held, stream, run, valid, leaked>>

(* The input stream is put in standby and routed.                          *)
OpenSucceeds(t) ==
    /\ At(t, "opened")
    /\ stream' = [stream EXCEPT ![On(t)].open = TRUE]
    /\ Done(t, <<S("unlock", "hw"), S("handle", On(t))>> \o
               IF On(t) = "in" THEN <<S("standby", "in"), S("route", "in")>> ELSE <<>>)
    /\ UNCHANGED <<option, held, last, run, valid, leaked, stolen>>

(* Mutant of OpenFails: the mutex is kept.                                 *)
OpenFailsLocked(t) ==
    /\ At(t, "opened")
    /\ IF On(t) = "in" THEN Done(t, <<>>) ELSE todo' = [todo EXCEPT ![t] = <<>>]
    /\ UNCHANGED <<option, held, last, stream, run, valid, leaked, stolen>>

(* A stream is given up, a new sink with its output stream.                *)
OpenFails(t) ==
    /\ At(t, "opened")
    /\ \/ On(t) = "in" /\ Done(t, <<S("unlock", "hw")>>)
       \/ On(t) # "in" /\ todo' = [todo EXCEPT ![t] = <<S("unlock", "hw")>>]
    /\ UNCHANGED <<option, held, last, stream, run, valid, leaked, stolen>>

(* stream_config_fill() fails with the defaults, "goto done"; once for     *)
(* each thread, which bounds how often it has locked.                      *)
DefaultsDoNotFit(t) ==
    /\ At(t, "opened") /\ On(t) = "in" /\ "unfillable" \in option /\ t \notin leaked
    /\ leaked' = leaked \cup {t}
    /\ Done(t, <<>>)
    /\ UNCHANGED <<option, held, last, stream, run, valid, stolen>>

(* io_handle = stream_id, of whatever stream was opened last.              *)
Handle(t) ==
    /\ At(t, "handle")
    /\ stream' = [stream EXCEPT ![On(t)].handle = last]
    /\ Done(t, <<>>)
    /\ UNCHANGED <<option, held, last, run, valid, leaked, stolen>>

Close(t) ==
    /\ At(t, "close")
    /\ stream' = [stream EXCEPT ![On(t)].open = FALSE]
    /\ Done(t, <<>>)
    /\ UNCHANGED <<option, held, last, run, valid, leaked, stolen>>

(* The end of pa_droid_source_new(), when there is a stream.               *)
Created(t) ==
    /\ At(t, "created")
    /\ Done(t, IF stream["in"].open THEN <<S("route", "in"), S("suspending", "in"), S("suspended", "in")>>
               ELSE <<>>)
    /\ valid' = TRUE
    /\ UNCHANGED <<option, held, last, stream, run, leaked, stolen>>

(* The state of a sink or source; one that was refused stays.              *)
SetState(t) ==
    /\ \E st \in {"none", "suspended", "running"} :
         /\ At(t, st)
         /\ run' = [run EXCEPT ![On(t)] = st]
    /\ Done(t, <<>>)
    /\ UNCHANGED <<option, held, last, stream, valid, leaked, stolen>>

Refused(t) ==
    /\ At(t, "suspended") /\ run[On(t)] = "running" /\ "refuses" \in option
    /\ On(t) = "in" => "close_input" \notin option
    /\ Done(t, <<>>)
    /\ UNCHANGED <<option, held, last, stream, run, valid, leaked, stolen>>

SetValid(t) ==
    /\ At(t, "valid")
    /\ valid' = ("close_input" \in option => stream["in"].open)
    /\ Done(t, <<>>)
    /\ UNCHANGED <<option, held, last, stream, run, leaked, stolen>>

(* A sink or source is already what a message is to make of it.            *)
Is(m, st) == (m = "suspend" /\ st # "running") \/ (m = "resume" /\ st = "running")

(* pa_asyncmsgq_send(): the IO thread takes the message between two rounds. *)
Send(t) ==
    /\ \E m \in {"suspend", "resume", "unlink"} :
         /\ At(t, m) /\ Idle(On(t))
         /\ todo' = [todo EXCEPT ![t] = Tail(@),
                                 ![On(t)] = IF Is(m, run[On(t)]) THEN <<>> ELSE Told(m, On(t))]
    /\ UNCHANGED <<option, held, last, stream, run, valid, leaked, stolen>>

Step(t) ==
    \/ Lock(t) \/ Unlock(t) \/ Call(t) \/ Look(t) \/ OpenBegins(t) \/ OpenSucceeds(t)
    \/ OpenFails(t) \/ DefaultsDoNotFit(t) \/ Handle(t) \/ Close(t)
    \/ Created(t) \/ SetState(t) \/ Refused(t) \/ SetValid(t) \/ Send(t)

-----------------------------------------------------------------------------
(* What starts a handler.                                                  *)

Starts(t, p) ==
    /\ Idle(t)
    /\ todo' = [todo EXCEPT ![t] = p]
    /\ UNCHANGED <<option, held, last, stream, run, valid, leaked, stolen>>

(* pa_droid_sink_new(): pa_droid_open_output_stream(), which routes the    *)
(* primary stream, then update_volumes().                                  *)
OpenOutput(o) ==
    /\ run[o] = "none" /\ ~stream[o].open
    /\ Starts("main", <<S("lock", "hw"), S("open", o), S("route", Primary)>> \o
                      Under("hw", <<S("volume", o)>>) \o <<S("running", o)>>)

(* Mutant of CloseOutput: the thread is not waited for.                    *)
CloseOutputAtOnce(o) ==
    /\ run[o] # "none"
    /\ Starts("main", <<S("unlink", o)>> \o Under("output", <<S("close", o)>>))

(* userdata_free() of the sink, pa_droid_stream_unref().                   *)
CloseOutput(o) ==
    /\ run[o] # "none"
    /\ Starts("main", Ask("unlink", o) \o Under("output", <<S("close", o)>>))

(* Mutant of SinkState: the volume is locked meanwhile.                    *)
SinkStateLocked(o, m) ==
    /\ run[o] # "none"
    /\ Starts("main", Under("hw", Ask(m, o)))

(* The core suspends or resumes a sink.                                    *)
SinkState(o, m) ==
    /\ run[o] # "none"
    /\ Starts("main", Ask(m, o))

(* do_routing() *)
Route(o) == stream[o].open /\ Starts("main", SetRoute(o))

(* pa_droid_source_new(): the input stream is opened with the defaults, or *)
(* there is no source, and suspended.                                      *)
NewSource ==
    /\ run["in"] = "none" /\ ~stream["in"].open
    /\ Starts("main", <<S("opening", "in"), S("created", "in")>>)

FreeSource ==
    /\ run["in"] # "none"
    /\ Starts("main", Ask("unlink", "in") \o <<S("closing", "in")>>)

SourceState(m) == run["in"] # "none" /\ Starts("main", Ask(m, "in"))

(* source_reconfigure(), with the route p of a new port or none.           *)
Reconfigure(p) ==
    /\ run["in"] # "none"
    /\ Starts("main", IF run["in"] = "running"
                         THEN Ask("suspend", "in") \o p \o Reopen \o Ask("resume", "in")
                         ELSE p \o Reopen)

(* Mode, parameters, voice volume and mic mute.                            *)
HalCall == Starts("main", Under("hw", <<S("hal", "hw")>>))

(* pa_droid_hw_set_mode(): a call starts with the speaker, if that is an   *)
(* option, and the earpiece.                                               *)
SetModeInCall(early) ==
    Starts("main", early \o Under("hw", <<S("hal", "hw"), S("route", Primary)>>))

MainHandler ==
    \/ \E o \in Outputs : \/ OpenOutput(o) \/ CloseOutput(o) \/ Route(o)
                          \/ \E m \in {"suspend", "resume"} : SinkState(o, m)
    \/ NewSource \/ FreeSource
    \/ \E m \in {"suspend", "resume"} : SourceState(m)
    \/ \E p \in {<<>>, <<S("route", "in")>>} : Reconfigure(p)
    \/ HalCall
    \/ \E p \in {<<>>, <<S("route", Primary)>>} : SetModeInCall(p)

(* A round of thread_func() of a sink, which applies its volume.           *)
Render(o) ==
    run[o] = "running" /\ Starts(o, Under("hw", <<S("volume", o)>>) \o <<S("use", o)>>)

(* Mutant of Record: every source opens its stream again.                  *)
RecordReopens ==
    /\ run["in"] = "running"
    /\ Starts("in", <<S("opening", "in"), S("valid", "in"), S("read", "in")>>)

(* thread_read() *)
Record ==
    /\ run["in"] = "running"
    /\ Starts("in", (IF valid THEN <<>> ELSE Resumed) \o <<S("read", "in")>>)

Init ==
    /\ option \in Options
    /\ todo = [t \in Threads |-> <<>>] /\ held = [t \in Threads |-> [m \in Mutexes |-> 0]]
    /\ last = "in" /\ stream = [s \in Streams |-> [open |-> FALSE, handle |-> s]]
    /\ run = [s \in Streams |-> "none"] /\ valid = TRUE
    /\ leaked = {} /\ stolen = {}

Next ==
    \/ \E t \in Threads : Step(t)
    \/ MainHandler
    \/ \E o \in Outputs : Render(o)
    \/ Record

(* Every thread goes on with its handler, and gets a mutex that is free    *)
(* again and again: those who hold one sleep between two rounds.            *)
Spec ==
    /\ Init /\ [][Next]_vars
    /\ \A t \in Threads : SF_vars(Step(t))

-----------------------------------------------------------------------------
(* Properties.                                                             *)

(* What hw_mutex is for: the HAL opens one stream at a time, and neither   *)
(* while it sets a mode, a parameter or a volume; though a thread that     *)
(* left input_stream_open() with the mutex has it all to itself.           *)
OneInHal ==
    \A t, u \in Threads :
        t # u /\ Doing(t).do \in {"opened", "hal", "volume"} =>
            Doing(u).do \notin {"opened", "hal", "volume"}

(* No handler ends with a mutex locked, nor unlocks one it does not have,  *)
(* but for stream_config_fill() failing with the defaults, after which the *)
(* thread has hw_mutex for good.                                           *)
LocksReleased ==
    \A t \in Threads :
        /\ t \notin leaked /\ Idle(t) => \A m \in Mutexes : held[t][m] = 0
        /\ t \in leaked => held[t]["hw"] > 0 /\ "unfillable" \in option

(* No stream is played, routed, recorded from or given a volume once the   *)
(* HAL has closed it, and no sink's thread outlives its stream; unless a   *)
(* source that could not be put in standby is reconfigured while it goes   *)
(* on reading, or could not be reopened, without DM_OPTION_CLOSE_INPUT.    *)
NoUseAfterClose ==
    \A t \in Threads :
        Doing(t).do \in {"use", "volume"} =>
            stream[On(t)].open \/ (On(t) = "in" /\ "close_input" \notin option)

(* The io_handle a stream is routed by is the one the HAL opened it with.  *)
(* It can be that of another stream only if the source's thread opens the  *)
(* input stream on its own, DM_OPTION_CLOSE_INPUT, between the main thread *)
(* unlocking hw_mutex and reading stream_id, or the other way round.       *)
HandleIsOwn ==
    \A s \in Streams :
        /\ s \in stolen => "close_input" \in option
        /\ stream[s].open /\ s \notin stolen /\ (\A t \in Threads : ~Contains(todo[t], S("handle", s)))
             => stream[s].handle = s

(* No thread waits for ever for a mutex or an answer, unless a thread left *)
(* with hw_mutex.                                                          *)
HandlersEnd == \A t \in Threads : ~Idle(t) ~> Idle(t) \/ leaked # {}

=============================================================================
