# A TLA+ development of pulseaudio-modules-droid

`pulseaudio-modules-droid` lets PulseAudio play and record through Android
audio HALs.  This directory holds TLA+ modules translated from its C sources
(paths below are relative to the repository), TLC configurations that check
them on small instances, and TLAPS proofs of the main safety properties for
every value of the constants.

## 1. Inventory

The code runs in the PulseAudio daemon.  Module functions, hooks, card and
port callbacks run in the **main thread**, each to completion; every sink and
source has an **IO thread** that renders or reads and handles messages the
main thread sends it and waits for.  Three mutexes (`hw_mutex`,
`output_mutex`, `input_mutex`) stand between those threads and the HAL.

| Part | Source | State it keeps | Operations | What makes it correct |
|---|---|---|---|---|
| card profiles | `droid/module-droid-card.c` | active and real profile, `virtual.enabled` flags, HAL mode, sinks and sources of mappings | `pa__init`, `pa__done`, `card_set_profile`, `enter_/leave_virtual_profile`, `park_profile`, event callbacks | no path through the profiles loses a sink, a mode or the voice volume control |
| hw module lifetime | `common/droid-util.c` 937-1184, 2038-2063 | refcount, shared objects, the HAL device, lists of streams | get, ref, unref, open, close, stream new and unref | nobody uses a closed device, nothing is opened twice or left open |
| output routing | `common/droid-util.c` 2065-2367, 2566-2609 | patch and active device port of every stream, BT_SCO | open, close, set route, set mode | audio is never split between devices, the SCO link follows the route |
| output streams, configuration | `common/droid-util.c` 1190-1606, 2400-2560 | `active_outputs` (read by nothing), buffer and format | open, suspend, write, get parameters | calls do not overlap, a stream has its own handle |
| input streams | `common/droid-util.c` 1608-2036, 2612-2750 | stream handle, device port, audio source, default and requested sample spec | open with fallbacks, close, reconfigure, set route | the last request that could be satisfied is what the HAL records |
| sink: extra routes and voice volume | `droid/droid-sink.c` 100-211, 498-860 | override port, stack of extra devices, voice control | sink-input hooks, port changes, voice control on and off | the route is the one the fields say unless the hw module made another, which any port then ends; a call has its volume |
| sink: IO thread and volume | `droid/droid-sink.c` 213-640 | render buffer, suspend cause, HAL volume | render, suspend, resume, `apply_volume` | no write to a suspended stream, volume right after a call |
| source | `droid/droid-source.c` | suspended, active port, sample spec | IO thread, source-output hooks, port change | reconfiguring never races the IO thread |
| locks | `common/droid-util.c` | `hw_mutex`, `output_mutex`, `input_mutex` | every open, close, suspend | no thread waits for ever, nothing guarded is read unguarded |
| stream configuration | `common/droid-util.c` 1190-1510 | none | `compatible_port`, `stream_config_fill` | the port and format found fit the mapping |
| profile sets, mappings, ports | `common/droid-util.c` 100-700 | profiles, mappings, ports | `auto_add_profiles`, `update_mapping`, `add_ports` | every mix port has one mapping with the ports of its routes, every port a device that can be found again |
| sink types | `common/droid-util.c` 744-811 | latency type of every sink | put and unlink hooks | one low-latency sink at most keeps the type |
| policy XML parser | `common/config-parser-xml.c` | element stack, current module, ports and include | expat callbacks, files and their includes | a callback finds the object it writes to, a bad file is refused and nothing else |
| configuration tree | `common/droid-config.c` | the parsed policy and its copies | generate, copy, find, free | the copy has the routes of what was read |
| list, tables | `sllist.c`, `conversion.c` | none | append, look up | |
| jack detection | `droid/droid-extcon.c`, `droid-extevdev.c` | switch states | udev and evdev events | ports show what is in the jack, unless a report was lost |
| USB devices | `droid/droid-extusbdev.c` | known USB cards, shared ports | udev enumeration and events | a port is available while a known card needs it, and with a card the HAL can use |
| loading modules | `droid/module-droid-sink.c`, `module-droid-source.c` | none | load, unload | see hw module lifetime |

**Interactions.**  A user changes the card's profile; the card parks the
primary sink (`pa_sink_set_port` to `output-parking`), sets the HAL mode,
opens and frees sinks and sources and turns voice control of the primary sink
on or off.  A port change or a stream with an extra route makes the sink call
`pa_droid_stream_set_route()`, which on the primary stream re-routes all
streams of the hw module.  Sinks, sources and cards share one hw module per
module id, found through PulseAudio's shared objects.  The policy files become
a configuration, each hw module copies it, and the card's profile, its mappings
and its ports are made of the copy.  Jack and USB detection set the availability
of those ports, whose hook tells the HAL of USB devices.

**What is hard here.**  Long sequences of legal profile changes; state kept in
two places (active port and route, override and stack, `bt_sco_enabled` and
the route, `am->sink` and the profile); HAL calls that may be refused between
two assignments; users that come and go in any order around a counted object;
in the IO threads, sample spec and stream handle changed by the main thread;
mutexes taken in callees and given back on some paths only; events of the
kernel that come between looking and listening; callbacks whose objects depend
on how elements were nested.
`PROJECT.json` lists these at their lines under `hazards`.

## 2. Modules

| Module | Models | State and actions |
|---|---|---|
| `DroidCard` | card profiles | one action per way through `card_set_profile()`: `EnterVirtualProfile`, `LeaveVirtualProfile`, `SwitchRealProfile`; `Load`, `Unload`, `SetPort`; `Abort` where an assertion is reached |
| `CardSession` | the promise: what is open and controlled as a function of the profile asked for | `SelectVirtual`, `SelectDefault`, `SelectOff`, `Close`; refined by `DroidCard` (`ImplementsSession`) |
| `DroidRouting` | output routing of one hw module | `Open`, `Close`, `SetRoute`, `SetMode` over the record `routing` (patches, ports, BT_SCO) |
| `DroidHwModule` | lifetime of hw modules | `lib` is what the code shares (objects, counters, devices, streams), transformed by one operator per C function (`Got`, `Unref`, `Closed`, `StreamNew`, ...); actions are the users' calls |
| `DroidSink` | extra routes and voice volume of the primary sink | `Put`, `Unlink`, `Move`, `ChangeVolume`, `SetPort`, `Park`, `StartVoice`, `StopVoice`, and `OpenOutput` for the rest of the hw module |
| `DroidSource` | a source and its input stream | `input` is the stream, transformed by one operator per function of `droid-util.c` (`Opened`, `Shut`, `Reconfigured`, `InputDevice`, ...); actions are the hooks, port changes, suspending and resuming, and `ThreadRead`, the IO thread's own attempts to reopen |
| `DroidLocks` | the threads of a hw module and its three mutexes | a thread has the steps left of its handler (`todo`); one action per kind of step (`Lock`, `Unlock`, `Ask`, `Close`, `OpenSucceeds`, `OpenFails`, ...) and one per handler that may start |
| `DroidConfig` | the configuration of a hw module | operators: `Generate` from what was read, `Dup` the copy, `FindMixPort`, `FindDevicePort` |
| `PolicyParser` | the XML callbacks | the known elements open (`path`), what is current (`at`), the document's own nesting (`open`); one action per element, for end tags, text, truncation and includes |
| `DroidProfileSet` | mappings and ports made of a configuration | `UpdateOutput`, `UpdateInput`, `NextRoute`, `AddCardPorts`, ...: one step per source of a route, then one per mapping |
| `PolicyProfiles` | parser, configuration and profile composed: from the files to the card's ports | `Load`, `MakeProfile`, and the actions of the two |
| `DroidPorts` | availability of ports and what the HAL is told | operators `Announced`, `NewPorts` |
| `DroidJack` | jack detection by switch or input device | `Plug` (the kernel), `SwitchEvent`, `InputSwitch`, `InputSyn`, queues that overflow |
| `DroidUsb` | USB cards | `PlugCard`, `UnplugCard`; `Scan`, `AddListed`, `Monitor`, `UsbAdded`, `UsbRemoved` |
| `DroidPlugs` | both composed with the loading and unloading of the card | `pa__init()` step by step (`LoadSwitch` ... `LoadMonitor`), `Unload`, `Dangle` |
| `*_proofs` | theorems | |
| `MC*` | instances for TLC | |

Names follow the C code.  A handler of the main thread is one action because
the main loop runs it to completion (`DroidLocks` is about what happens inside
of one, and takes it apart; so does `DroidPlugs` with `pa__init()`, during which
the kernel acts); what it calls is an operator of its own (`ParkAndSetMode`,
`DoRouting`, `Got`), and what the HAL or the core answers is an existential
choice (`Outcomes`, `Opened`, `Accepted`, `Fresh`).  Definitions named
"Mutant of X" are plausible bugs in X, kept to show which property notices
them; nothing else refers to them.

Abstractions: formats, buffer sizes and latencies do not appear.
`DroidCard` sees only the route the card's own calls cause, extra routes are
`DroidSink`'s.  `LateOutputs` are the outputs that come after the primary one
in the set of mappings: which do depends on a hash.  `DroidSink` models the
primary sink; its hooks are the core's, so streams of other sinks (`away`) reach
them too, as in the code.  Of the card it has what reaches its stream: parking
(`parked`), the routes `pa_droid_hw_set_mode()` makes of itself when a call
starts (`CallRoutes`, in `StartVoice`), and outputs that are opened at any time
(`OpenOutput`).
In `DroidSource` a spec stands for sample spec and channel map together, what
`stream_config_fill()` makes of one in a mode is the constant `Fill`, which has
nothing (`NoSpec`) for some, and what the HAL is able to open changes at any
time, as does whether it answers with configurations that cannot be converted
(`awkward`).  The main thread sends suspend and resume
to the IO thread and waits, so a reconfiguration with both is one action; only
between the handlers does the IO thread act alone.  `heard` and `granted` are
history variables: whether a hook was told of the last source-output (one that
names no source, or is moved to it, is not seen by
`source_output_new_hook_callback()`), and whether the HAL gave what was asked;
`slipped` is one, for a stream that was reopened as something else.
Options given when a hw module is open already are ignored there, so
`DroidHwModule` chooses them at opening.  In `DroidLocks` what a handler decides
is left to `DroidSource` and `DroidSink`: it has the order of locks, messages
and HAL calls, and chooses.  `PolicyParser` takes every document `Inside` allows,
with or without the elements in their place; ports are known by index in a
configuration, 0 is NULL, and `DroidProfileSet` knows the ports of a profile by
device type, as the code does.  In `DroidPlugs` a plug changes the kernel's
state at once and queues its report; `lost` and `missed` are history variables
for reports that never reach the reader.  `DroidHwModule` leaves out a source
loaded alone, which dereferences a NULL mapping (`droid-source.c:596`).

## 3. Runs

| Run | Question | Bounds |
|---|---|---|
| `card` | does any path through the profiles break the bookkeeping, and does the card implement `CardSession`? | the four virtual profiles `pa__init` adds, three outputs, one of them opened after the primary one, three ports, HAL modes and outputs that may fail |
| `card_abort` | can a profile change end the daemon? Yes: a virtual profile from off | same, no failures |
| `routing` | can refused patches, mode changes and streams that come and go split audio or leave BT_SCO wrong? | three streams, four devices one of which is SCO, every subset of streams refused |
| `hw_module` | can any order of users, failures and unload options use a closed device, open one twice, leave one open or reach an assertion? | two cards, four sinks (one alone, one of another module id), a source, three objects, two lost references |
| `sink` | do route, override, stack and voice volume agree after any mix of streams, calls, port changes, moves and other outputs? what is left of a route the sink did not make? | three client streams (two routes, one unknown device) and the virtual one, stack of 3, two volumes (symmetric) |
| `sink_extra` | does an extra route end with its stream? No: the override stays | same, starting on a device port |
| `source` | can hooks, ports, modes, suspending, a moody HAL and the IO thread leave the stream other than last asked, or read it closed? does recording come back? | two source-outputs (one asks for an audio source), three specs, two ports, two modes whose mix ports differ, any subset of specs supported, answers that can be converted or not |
| `source_null` | is a closed stream never read without `close_input`? It is, after a failed reconfiguration | same, no refused patches |
| `policy` | do the callbacks find their objects in any document, and does what they read become a profile whose mappings and ports can be used? | documents of up to 9 elements and texts with two includes, any nesting of the elements in `MCInside`; and 1.6 times 10^4 modules of up to two devices, mix ports and routes |
| `policy_include` | is no module open after an included file? One is, if the file fails inside it | same documents, 8 elements |
| `jacks` | do ports follow accessories and USB cards while detection is set up, runs and is freed? | three states of the jack, two USB cards one of which is to be ignored, three changes, queues of two reports |
| `locks` | can calls overlap, a lock be kept, a closed stream be used, a thread wait for ever? | the primary output and the source with their IO threads and the main thread, with legacy routing or patches as the option sets say |

Why the bounds are enough.  The profile machine has two levels (a profile and
its extension) and the four profiles cover both, a mode shared by two of them
and the two callbacks.  Three outputs are the primary one, one that is only
opened with it, and the VoIP one that comes and goes.  Routing treats all
non-primary streams alike: two of them are enough to differ from each other.
Two devices that are not the default and one that is SCO let a route differ
from the old, the new and the default one.  In `DroidHwModule` a third object
is in use when one is closing down with `no_close` and another was leaked;
`MaxLost` bounds only the references of streams that failed to open.
`MaxStack` bounds the streams with extra routes that are put at once, and two
entries of one device around one of another are the longest case
`RemoveExtra` distinguishes.  In `source` two outputs that want different
specs, neither of them the default, make every change of the last output a
reconfiguration; a third port or spec would be like one of those there.  The
second mode is that of internet calls: its mix port has one configuration, which
is neither the default nor what one of the outputs asks for, and none near what
that output asks for, so that a stream may be asked for what only the other mode
has.  In `sink` the volumes are only compared for being the same, so exchanging
them is a symmetry; the runs with it check no liveness.

In `policy` an unknown element, a repeated one and one in a wrong place are
each enough to leave the path of known elements apart from the document's;
nine elements hold a route with its ports, or a failure in an included file
inside a module.  What a mapping is made of depends on pairs of routes, ports
and devices.  In `jacks` a queue of two overflows and three changes let an
accessory come, go and come back; two cards of a kind share all there is to
share.  In `locks` a second output would add a thread that does what the first
does to other streams, under the same mutexes: its safety properties were looked
at with two outputs too (1.7 million states), for `HandlersEnd` that takes too
long.

Type invariants, `RealProfileKnown`, `VoiceControlInCall`, `SinksOfProfile`,
`StackHasOverride`, `VirtualInCall`, `ModeChangeParks`, `VoiceLevelFromPhone` and
`FreedIsSilent` were checked by TLC before they were proved (section 4) and are
in no run now; `hw_module` and `locks` still check their types, which are proved
as well.

Four of the runs are violations.  Each shows a disagreement between the code
and a line of the repository, quoted under `findings`.  Seen while modelling
and part of the models, but without a run of their own:

- opening any output sets the route of the primary stream to the default output
  device, although `droid-util.h:307` says that routing a non-primary stream
  does nothing if there is a primary one (`droid-util.c:1586`;
  `DroidCard!RouteOnOpen`): entering communication moves a call to the default
  device until the next port change, and a profile whose deep buffer output comes
  after the primary one starts with the port of its sink unrouted (`displaced`);
- BT_SCO is only set for a device port with the primary flag, and only mix ports
  are parsed with flags: with legacy routing it is never set
  (`droid-util.c:2295`; `DroidRouting!Routed`);
- the reference of an output stream that failed to open is never given back, and
  its hw module stays open when its last user is unloaded (`droid-util.c:1602`;
  `OutputFails`, and `LastUserCloses` excludes exactly these);
- a stream opened with defaults that fit no configuration leaves `hw_mutex`
  locked for good (`droid-util.c:1812`; `DroidLocks!DefaultsDoNotFit`; the
  properties exclude what follows);
- the `io_handle` of a stream is read from `stream_id` after `hw_mutex` was
  unlocked, or before it is locked, and with `close_input` may be that of a
  stream another thread opened (`droid-util.c:1576`; `HandleIsOwn`);
- `source_reconfigure()` does not look at whether suspending the source
  succeeded (`droid-source.c:404`; `NoUseAfterClose` excludes what that allows
  without `close_input`);
- a route to a port no element was read for, such as a device port left out for
  its unknown type, is dereferenced as NULL when the card makes its profile
  (`droid-util.c:260`; `DroidProfileSet!NullSink`, a part of
  `LostPortsOnly`);
- an element inside an unknown one of the same name ends it early
  (`config-parser-xml.c:576`): after that the parser's path is that of another
  document, and an end tag may find no element at all (`PolicyParser!NullCurrent`;
  `CrashIsAstray` in `ReadingEnds`);
- an end tag inside an element read clears the current port, and a default
  output device whose name comes in two pieces is two names
  (`config-parser-xml.c:590`; `ReadText`);
- what is plugged in between reading the switch, or listing USB cards, and
  listening is lost (`droid-extcon.c:240`, `droid-extusbdev.c:344`; `lost`,
  `missed`);
- after SYN_DROPPED switches are not read again (`droid-extevdev.c:134`;
  `Dropped`);
- a card marked PULSE_IGNORE is only ignored by the monitor, enumerated it is
  added, and its removal is ignored (`droid-extusbdev.c:171`; `KnownIsThere`
  excludes it);
- the udev monitor and its io event are never freed: a report after unloading
  reads freed memory (`droid-extusbdev.c:373`; `DroidPlugs!Dangle`);
- a card without jack input device aborts when the failed object is freed
  (`droid-extevdev.c:278`; `DroidPlugs!NoInput`);
- `init_profile()` asserts if the profile the core restores is a virtual one
  (`module-droid-card.c:417`; second disjunct of `DroidCard!Abort`);
- sources are never freed by a profile change, `input_mapping` of a profile is
  only ever assigned NULL (`module-droid-card.c:737`; `SwitchSinks`);
- a stream with an extra route ends the daemon while no device port is active
  (`droid-config.c:336`; `DroidSink!Abort`);
- a stream unlinked during a call stays on the stack of extra devices if no
  port changes during the call (`droid-sink.c:838`; `Unlink`);
- a voice control stream moved to the sink during a call is not heard of
  (`VoiceLevelSet` excludes exactly these);
- a stream that falls back to another spec on resume leaves the source with the
  old one, until it is reconfigured (`droid-util.c:1860`; `slipped` in `SpecAgrees`);
- a spec that no configuration of the mix port is near fails before the defaults
  are tried, so that a source whose mode changed may retry for ever
  (`droid-util.c:1762`), as it does when the HAL's answer cannot be converted
  (1799; `CanRecord` in `Recovers`);
- reconfiguring a suspended source opens its input stream, and it stays open
  until the next suspend, with `close_input` too (`droid-util.c:1938`;
  `SourceReconfigure`);
- a port change of an open source drops the audio source a source-output asked
  for (`droid-source.c:304`; `SetPort`);
- with legacy routing other streams do not follow the primary one
  (`Routed`, first branch).

**Fairness.**  `DroidSource` assumes weak fairness of `ThreadRead`: while the
source is open the loop of `thread_func()` sets a timer and is woken by it
whatever the main thread does, and a read is not skipped.  `Recovers` follows
from that alone: neither hooks nor the HAL have to do anything.  It promises a
stream while the HAL would open what is asked for, or would open the defaults
and what is asked for gets as far as the HAL (`CanRecord`); it cannot promise
more, because without a configuration near what is asked for, or after an answer
that cannot be converted, the code gives up before the defaults.

`DroidPlugs` assumes weak fairness of the steps of `pa__init()` and of the
callbacks of the main loop, which dispatches a descriptor as long as it is
readable; the kernel and the user need not do anything.  `Settles` says that
reports are then read and the ports show what is plugged in.

`DroidLocks` assumes strong fairness of each thread's steps, and of no handler
ever starting.  Strong, because a mutex is given to some waiter: a thread waits
again while others take turns, but the holders sleep between rounds (rendering
and reading wait for timers, the main thread for its poll), so that a waiter gets
it eventually.  `HandlersEnd` says that every handler ends under it.

Elsewhere a handler runs to completion when the user, a client or the core
calls it; no property says that it will, and no fairness is assumed.  Deadlock
is not checked where the daemon may exit or abort, a source stay as it is, the
kernel run out of its bounded events or the files come to an end; in `locks`
because a thread that left with `hw_mutex` does stop all others.

## 4. Proofs

`DroidCard_proofs`, `DroidRouting_proofs`, `DroidHwModule_proofs`,
`DroidSink_proofs`, `DroidSource_proofs`, `DroidLocks_proofs`,
`DroidPlugs_proofs` and `PolicyProfiles_proofs` prove, for every set of profiles,
ports, streams, users, threads, cards, devices and documents that satisfies the
assumptions of the module, the type invariant and safety properties, most of
them checked in the runs.

- **Card.**  No invariant but the type is inductive alone.  `RealProfileKnown`
  needs `EnabledIsLineage` and the reverse: profiles are disabled up a chain
  whose flags must be known, and the real profile is what leaving returns to.
  `SinksOfProfile` needs both and that a virtual profile is only entered with
  the primary sink open.  The inductive invariant is their conjunction.
  `PortCorrect` holds for any outputs that come after the primary one: opening
  one of those re-routes the primary stream at once (section 3), and the
  theorem says that this is all that parts port and route, and that it ends with
  the next port or mode, so that it never lasts into a virtual profile: one that is
  entered without parking comes from another, where nothing is displaced, and
  opens nothing.  `ModeChangeParks` is an action property that follows from the
  invariant: the primary sink was open before.
  `SessionImplemented` is the refinement: every step of `DroidCard` is one of
  `CardSession` under the mapping of `ImplementsSession`, or leaves what it
  promises as it is.
- **Routing.**  Theorems assume audio patches (`~Legacy`); with legacy routing
  they do not hold (section 3).  `RoutingSound` says that streams
  with a patch share the primary stream's device and have it as their port;
  no property is inductive without it, because closing the primary stream
  leaves the patches of the others.
- **Hw module.**  The heart is a counting invariant: the counter of every open
  device is the number of its users and of the references that were lost to it
  (`CountingInvariant`), with every user's object among the open ones and no two
  of them open for one module id.  That the last user closes the device
  (`LastUserCloses`), that nobody uses a closed one and that no assertion is
  reached follow from it; none of them is inductive without the count.  A card
  that is unloaded gives back one reference for every stream it has, one after
  the other; `Unrefs` states that without a fold, which the provers cannot
  instantiate, and `FreedOneByOne` that freeing one sink at a time comes to the
  same.  Cards are assumed to be finitely many, like sinks and sources, and to be
  neither of them.
- **Sink.**  `StackHasOverride`, `RouteIsChosen` and the type hold each other
  up: removing from the tail routes to the override, which is there only
  because the stack was not empty.  A route of a mode or of another output is
  told from the sink's own by `routedBy`; that the sink is parked as long as the
  last route is a mode's is what makes the second part of `RouteIsChosen` hold.
  `CallUsesPort` is an action property proved from the definitions,
  `VoiceLevelCorrect` and `VoiceLevelFromPhone` from the type alone.
- **Source.**  The lemmas say what opening, closing, reconfiguring and routing
  do to any stream: the patch, if there is one, is from the active port and the
  stream is open; a stream that is what was asked for has the spec asked for.
  The invariant adds to `SpecAgrees` and `ServesLast` that a stream that is what
  was last asked for will be asked for the same when it is next opened, without
  which a resume could break the second.  `SpecAgrees` holds whatever the HAL
  grants: source and stream part only when a resume reopens the stream as
  something else, which `slipped` notes;
  `ServesLast` holds because removing an output other than the last leaves the
  last (`RemoveAtFacts`).
  `ReadsCorrect` assumes `CloseInput`; without it the property fails, see
  `source_null`.  `AudioSourceCorrect` is an action property: each handler
  reconfigures, or only opens, the stream with the audio source of the
  source-output that came, whatever the HAL grants of the rest.
- **Locks.**  What is left to do of a handler is a sequence of steps that other
  threads may lengthen nowhere, but whose choices are many.  `LockInv` says of
  every step left which mutexes the thread has before it, and that nothing is
  left of a handler that ended with a mutex; it holds through every choice
  because what replaces a step leads from the same mutexes to the same ones.
  `HandlersUnlock`, mutual exclusion in the HAL (`HalIsLocked`) and the order of
  mutexes follow, and from the order `NoDeadlock`: some thread with something left
  to do can always take a step, the safety half of `HandlersEnd`.
  `FlowInv` adds what a thread may rely on between its steps: what the main
  thread was told by an IO thread stays true as long as no other thread can undo
  it.  With it `StreamsAreOpen` proves that no closed stream is given to the HAL
  where `NoUseAfterClose` says so.  `OwnInv` says that the id a thread will read
  is that of the stream it is to be read for unless it was counted up again,
  from which `HandlesAreOwn`.
- **Plugs.**  The USB invariant relates what the card knows, which port names
  which card, what is available and what the HAL was told; it is inductive over
  the steps of loading too, since detection is the only writer of these ports.
  That cards of one kind share their ports is what keeps a removal from leaving
  a port to a card that is gone; `KnownIsThere` needs in addition that every
  known card that is gone has a removal in the queue.  A card that stays when
  another of its kind goes loses its ports in the code (`robbed`); that this is
  the only way to lose them is part of `PortsFollowCards`.  `FreedIsSilent` follows
  from the stages alone.  The jack's invariant (`JackInv`) relates the kernel's
  state, what is queued, what was read of a report and what the ports show: with
  the queue empty and nothing lost they agree (`JackIsShown`), and at any time
  what is shown was so once (`ShownIsReal`).
- **Policy parser.**  For files of any length, with any elements in any place,
  and any number of includes: `ReadingEnds`, `CurrentIsRight` and
  `PathFollowsDocument`.  The inductive
  invariant says that the path goes down the table one level at a time, so that
  no element is on it twice; that the path is embedded, in order, in the open
  elements (a function is the witness), so that nothing of a document is left
  when all of them have ended; and, while no element went astray, how deep the
  parser was in each open element and which of them the table had no place for
  (another witness), so that the element that
  ends is popped exactly if it was pushed and the stack never runs empty.
  From these and what is current where, `CurrentIsOpen` needs one more: of the
  open elements with one tag something was made of one at most, and that is
  current.  That the path is the one `Walk` finds in the document is an
  induction over the open elements: the first one after which the two
  differ would be a minimum of a set of numbers, which the library's theorem on
  well-founded relations provides (`FirstOf`).
- **Policy profiles.**  For every module the parser may read, with any number of
  ports and routes: `LostPortsOnly`, `MappingsOfRoutes`, `PortsOfMappings` and
  `PlainModuleWorks`.  The parser's invariant is needed here too: a module that was
  read has lists of ports whose types are known (`ReadIs`), and that is all
  `Confs` is assumed to have.  `GenerateIs` and `CopiedIs` say what the
  configuration and its copy are: every name stands for the first port of that
  name, and the copy of such a port is itself, so copying changes no route though
  it compares ports by name and type.  The profile's invariant (`MapInv`) is about
  the pairs of a mix port and a device that the routes gone through so far have
  joined: there is one mapping for each mix port, it reaches what its mix port
  was joined with, each list has the mappings of its own pairs once, and each
  port stands for parking or for a type with a device of it.  A step adds the pair
  it works on, or none (`JoinedOne`); when the routes are done the pairs are all
  (`PairsAre`).  It holds because a mapping is found by the name of its mix port,
  and the ports that names stand for have unlike names (`FirstsSame`).  `Present`
  leaves NULL ports out of a list with a recursive function; that the function
  exists and what is on the list are inductions over its length (`UpTo`,
  `GoesOn`).  `ParkingAssumption` says that no device type has the name of a
  parking port.

**Where a property stops.**  Some hazards do happen in the code.  The models
have them, a history variable or an option marks the states they lead to, and the
property says that nothing else leads there:

| Happens | Marked by | Property |
|---|---|---|
| an output opened after the primary one moves its stream | `displaced`, `routedBy` | `PortTellsRoute`, `RouteIsChosen` |
| a failed output stream keeps its reference | `lost` | `LastUserCloses` |
| a resume that opens another spec | `slipped` | `SpecAgrees` |
| a configuration that does not fit, an answer that cannot be converted | `CanRecord` | `Recovers` |
| a voice control stream moved to the sink in a call | `moved` | `VoiceLevelSet` |
| `stream_id` counted up between opening and reading it | `stolen` | `HandleIsOwn` |
| defaults that do not fit leave `hw_mutex` locked | `leaked` | `LocksReleased`, `HandlersEnd` |
| a source that refuses to suspend, without `close_input` | `CloseInput` | `NoUseAfterClose` |
| a card of the same kind is removed | `robbed` | `PortsFollowCards` |
| plugs between looking and listening, queues that overflow | `missed`, `lost` | `KnownIsThere`, `JackShown`, `Settles` |

The proofs rest on the named ASSUMEs of the modules, which TLC evaluates in
the runs, and on nothing else.

**Only model-checked:** `Recovers`, `Settles` and `HandlersEnd`, as liveness is
out of the prover's reach.
The invariants of the `*_proofs` modules were given to TLC before they were
proved, as far as their definitions can be evaluated.

## 5. Not modelled, and the plan

In this order:

1. `DroidSystem`: card, routing and sink composed, for `PortTellsRoute` with
   extra routes and refused patches.
2. The volume given to the HAL around calls (`droid-sink.c:528`), mute of inputs,
   legacy parameters of input routes, the fm-radio loopback of the source.
3. `CompatiblePort`: the search of `stream_config_fill()` against a reference
   definition.

Left out for good: conversion tables and argument parsing (no state), the list
(a sequence), sink types (hints that nothing in the repository reads), freeing
of the configuration, build files.
