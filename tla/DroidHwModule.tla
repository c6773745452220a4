--------------------------- MODULE DroidHwModule ---------------------------
(***************************************************************************)
(* Lifetime of the hw modules: the object that owns an open HAL device, is *)
(* found by name in the shared object table of the core and is counted by  *)
(* reference.  Cards, sinks and sources are its users; every stream of a   *)
(* sink or source holds one more reference.  All of this runs in the main  *)
(* thread, each call to completion.                                        *)
(***************************************************************************)
EXTENDS Naturals, FiniteSets

CONSTANTS
    Ids,            \* module ids of the configuration
    PrimaryId,      \* PA_DROID_PRIMARY_DEVICE
    Cards,          \* loaded or loadable module-droid-card instances
    Sinks, Sources, \* droid sinks and droid sources
    CardOf,         \* the card a sink or source belongs to, NoCard when
                    \* it is loaded as module-droid-sink
    Id,             \* module id every user asks for
    NoCard,
    Instances,      \* pa_droid_hw_module objects, at most one per open
    NoHw,
    Options,        \* option_unload_*: "close", "no_close" or "exit"
    MaxLost         \* bound on the references lost by one object

Users == Cards \cup Sinks \cup Sources

ASSUME HwModuleAssumption ==
    /\ IsFiniteSet(Users) /\ Cards \cap (Sinks \cup Sources) = {}
    /\ PrimaryId \in Ids
    /\ CardOf \in [Sinks \cup Sources -> Cards \cup {NoCard}]
    /\ Id \in [Users -> Ids]
    /\ \A s \in Sinks \cup Sources : CardOf[s] \in Cards => Id[s] = Id[CardOf[s]]
    /\ \A s \in Sources : CardOf[s] # NoCard
    /\ NoHw \notin Instances /\ NoCard \notin Cards
    /\ {"close"} \subseteq Options /\ Options \subseteq {"close", "no_close", "exit"}
    /\ MaxLost \in Nat

VARIABLES
    hw,     \* u->hw_module of every user
    lib,    \* shared[id]: the shared object droid-hardware-module-<id>
            \* api: the shared object droid.handle.v1
            \* of every object: id, refs, how its options say to close,
            \* device (the HAL device is open), streams (outputs and inputs)
            \* status: of the daemon
    lost    \* history: references of streams that failed to open

vars == <<hw, lib, lost>>

Running == lib.status = "running"
Free == {i \in Instances : lib.refs[i] = 0 /\ ~lib.device[i]}

-----------------------------------------------------------------------------
TypeOK ==
    /\ hw \in [Users -> Instances \cup {NoHw}]
    /\ lost \in [Instances -> 0..MaxLost]
    /\ lib \in [shared : [Ids -> Instances \cup {NoHw}], api : Instances \cup {NoHw},
                id : [Instances -> Ids], refs : [Instances -> 0..(2 * Cardinality(Users) + MaxLost)],
                how : [Instances -> Options], device : [Instances -> BOOLEAN],
                streams : [Instances -> SUBSET (Sinks \cup Sources)],
                status : {"running", "aborted", "exited"}]

Init ==
    /\ hw = [u \in Users |-> NoHw]
    /\ lost = [i \in Instances |-> 0]
    /\ lib = [shared |-> [d \in Ids |-> NoHw], api |-> NoHw,
              id |-> [i \in Instances |-> PrimaryId], refs |-> [i \in Instances |-> 0],
              how |-> [i \in Instances |-> "close"], device |-> [i \in Instances |-> FALSE],
              streams |-> [i \in Instances |-> {}], status |-> "running"]

(* droid_hw_module_open() into object i: the device is opened, the object  *)
(* shared, with the functions for other modules if it is the primary one.  *)
Opened(l, d, i, o) ==
    [l EXCEPT !.shared[d] = i, !.api = IF d = PrimaryId THEN i ELSE @,
              !.id[i] = d, !.refs[i] = 1, !.how[i] = o, !.device[i] = TRUE]

(* Mutant of Got: the caller counts too what the lookup counted already.   *)
GotTwice(l, d, i, o) ==
    IF l.shared[d] # NoHw THEN [l EXCEPT !.refs[l.shared[d]] = @ + 2] ELSE Opened(l, d, i, o)

(* Mutant of Got: a module found open is used without a reference.         *)
GotUncounted(l, d, i, o) == IF l.shared[d] # NoHw THEN l ELSE Opened(l, d, i, o)

Referenced(l, i) == [l EXCEPT !.refs[i] = @ + 1]

(* pa_droid_hw_module_get2() and pa_droid_hw_module_get(): options count   *)
(* only when the module is not open yet.                                   *)
Got(l, d, i, o) ==
    IF l.shared[d] # NoHw THEN Referenced(l, l.shared[d]) ELSE Opened(l, d, i, o)

(* Mutant of Closed: the functions for other modules stay shared.          *)
ClosedApiKept(l, i) ==
    [l EXCEPT !.device[i] = l.how[i] = "no_close",
              !.status = IF l.how[i] = "exit" THEN "exited" ELSE @]

(* droid_hw_module_close(): exit() comes before the assertions that no     *)
(* stream is left.                                                         *)
Closed(l, i) ==
    [l EXCEPT !.api = IF l.id[i] = PrimaryId THEN NoHw ELSE @,
              !.device[i] = l.how[i] = "no_close",
              !.status = IF l.how[i] = "exit" THEN "exited"
                         ELSE IF l.streams[i] # {} THEN "aborted" ELSE @]

(* n calls of pa_droid_hw_module_unref() in a row, one of which may close. *)
Unrefs(l, i, n) ==
    IF l.refs[i] < n THEN [l EXCEPT !.status = "aborted"]
    ELSE LET less == [l EXCEPT !.refs[i] = @ - n]
         IN  IF less.refs[i] > 0 THEN less
             ELSE Closed([less EXCEPT !.shared[l.id[i]] = NoHw], i)

(* Mutant of Unref: no longer shared before the last reference is gone.    *)
UnrefEarly(l, i) ==
    IF l.refs[i] = 0 THEN [l EXCEPT !.status = "aborted"]
    ELSE LET less == [l EXCEPT !.refs[i] = @ - 1, !.shared[l.id[i]] = NoHw]
         IN  IF less.refs[i] > 0 THEN less ELSE Closed(less, i)

(* pa_droid_hw_module_unref() *)
Unref(l, i) == Unrefs(l, i, 1)

(* Mutant of StreamNew: the stream borrows the reference of its sink.      *)
StreamNewUncounted(l, i, s) == [l EXCEPT !.streams[i] = @ \cup {s}]

(* droid_stream_new(), and the stream put into outputs or inputs.          *)
StreamNew(l, i, s) == Referenced([l EXCEPT !.streams[i] = @ \cup {s}], i)

(* Mutant of StreamUnref: the reference of the stream is kept.             *)
StreamUnrefKept(l, i, s) == [l EXCEPT !.streams[i] = @ \ {s}]

(* pa_droid_stream_unref() *)
StreamUnref(l, i, s) == Unref([l EXCEPT !.streams[i] = @ \ {s}], i)

(* userdata_free() of a sink or source: its stream, then the hw module.    *)
Freed(l, s) == Unref(StreamUnref(l, hw[s], s), hw[s])

-----------------------------------------------------------------------------
(* Objects and options a user that asks for a module may get.              *)
Fresh(d) == IF lib.shared[d] = NoHw THEN Free \X Options
            ELSE {<<lib.shared[d], lib.how[lib.shared[d]]>>}

MayLoad(u) == Running /\ hw[u] = NoHw

(* pa__init() of module-droid-card up to the creation of the card.         *)
LoadCard(c) ==
    /\ MayLoad(c)
    /\ \E f \in Fresh(Id[c]) :
          /\ lib' = Got(lib, Id[c], f[1], f[2])
          /\ hw' = [hw EXCEPT ![c] = f[1]]
    /\ UNCHANGED lost

(* pa__init() of a card, or of a sink loaded alone, fails with the module  *)
(* open: it gives back what it took.                                       *)
LoadFails(u) ==
    /\ MayLoad(u)
    /\ \E f \in Fresh(Id[u]) : lib' = Unref(Got(lib, Id[u], f[1], f[2]), f[1])
    /\ UNCHANGED <<hw, lost>>

(* A card makes sinks and sources only while it is loaded.                 *)
CardAllows(s) == CardOf[s] \in Cards => hw[CardOf[s]] # NoHw

(* pa_droid_sink_new() and pa_droid_source_new() *)
New(s) ==
    /\ MayLoad(s) /\ CardAllows(s)
    /\ \E f \in Fresh(Id[s]) :
          /\ lib' = StreamNew(Got(lib, Id[s], f[1], f[2]), f[1], s)
          /\ hw' = [hw EXCEPT ![s] = f[1]]
    /\ UNCHANGED lost

(* pa_droid_open_output_stream() frees the stream it could not open, but   *)
(* not the stream's reference; pa_droid_sink_new() unrefs its own.  A      *)
(* source's stream that does not open is unreferenced: nothing changes.    *)
OutputFails(s) ==
    /\ MayLoad(s) /\ s \in Sinks /\ CardAllows(s)
    /\ \E f \in Fresh(Id[s]) :
          /\ lost[f[1]] < MaxLost
          /\ lib' = Unref(Referenced(Got(lib, Id[s], f[1], f[2]), f[1]), f[1])
          /\ lost' = [lost EXCEPT ![f[1]] = @ + 1]
    /\ UNCHANGED hw

(* pa_droid_sink_free() and pa_droid_source_free(), by a card that changes *)
(* profile or by unloading module-droid-sink.                              *)
FreeOne(s) ==
    /\ Running /\ hw[s] # NoHw
    /\ lib' = Freed(lib, s)
    /\ hw' = [hw EXCEPT ![s] = NoHw]
    /\ UNCHANGED lost

OfCard(c) == {s \in Sinks \cup Sources : CardOf[s] = c /\ hw[s] # NoHw}

(* userdata_free() of each sink or source of S, all of them users of i.    *)
AllFreed(l, i, S) ==
    Unrefs([l EXCEPT !.streams[i] = @ \ S], i, 2 * Cardinality(S))

(* pa__done() of module-droid-card: sinks, sources, then its own.          *)
Unloaded(c) == Unref(AllFreed(lib, hw[c], OfCard(c)), hw[c])

UnloadCard(c) ==
    /\ Running /\ hw[c] # NoHw
    /\ lib' = Unloaded(c)
    /\ hw' = [u \in Users |-> IF u \in OfCard(c) \cup {c} THEN NoHw ELSE hw[u]]
    /\ UNCHANGED lost

Next ==
    \/ \E c \in Cards : LoadCard(c) \/ UnloadCard(c)
    \/ \E u \in Cards \cup {s \in Sinks : CardOf[s] = NoCard} : LoadFails(u)
    \/ \E s \in Sinks \cup Sources : New(s) \/ OutputFails(s) \/ FreeOne(s)

Spec == Init /\ [][Next]_vars

-----------------------------------------------------------------------------
(* Properties.                                                             *)

(* Nobody uses a hw module that was closed, or another than the one shared *)
(* under its id: whatever order cards and sinks come and go in, the card   *)
(* that opened the module need not be the last to use it.                  *)
UsersShareModule ==
    Running => \A u \in Users : hw[u] # NoHw =>
        /\ lib.shared[Id[u]] = hw[u]
        /\ lib.device[hw[u]] /\ lib.refs[hw[u]] > 0

(* A HAL device is never open twice: a device still open is the one the    *)
(* next user of that id finds, unless its option said not to close it.     *)
OneDevicePerModule ==
    Running => \A i \in Instances :
        lib.device[i] => lib.shared[lib.id[i]] = i \/ lib.how[i] = "no_close"

(* What other PulseAudio modules call through droid.handle.v1 is the open  *)
(* primary module, and nothing when that is closed.                        *)
ApiIsPrimary == lib.api # NoHw => lib.device[lib.api] /\ lib.shared[PrimaryId] = lib.api

(* No assertion about references or about streams left at close fails.     *)
NeverAborts == lib.status # "aborted"

(* Unloading the last user, in whatever order and after whatever failures, *)
(* closes the HAL device unless its option says not to: no path keeps a    *)
(* reference.  A device is left open only by a stream that failed to open. *)
LastUserCloses ==
    Running /\ (\A u \in Users : hw[u] = NoHw) =>
        \A i \in Instances : lib.device[i] => lib.how[i] = "no_close" \/ lost[i] > 0

=============================================================================
