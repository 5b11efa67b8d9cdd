# Verification of copad

TLA+ models of the daemon of copad (`copadd`) and of what its peers see of it,
and of the terminal multiplexer comux, its sessions, server and clients: what is
modelled, what TLC checks on small instances, what TLAPS proves for all of them,
and what is left. Paths are relative to the repository.

    tlc -workers 2 -config SupervisorCalls.cfg MCServiceSupervisor
    tlc -workers 2 -config MuxFrames.cfg MCMuxServer
    tlapm ServiceSupervisorProofs.tla
    tlapm CronSchedulerProofs.tla
    tlapm MuxServerProofs.tla

## The system

copad is a terminal. A headless daemon, `copadd`, owns the event bus, the
triggers and the plugin services; GUIs (GTK, AppKit) and the command line talk
to it over one Unix socket in JSON lines. comux is a second, separate server
that owns terminal sessions.

| Component | State it keeps | Operations that change it | Talks to |
| --- | --- | --- | --- |
| Service supervisor (`copad-daemon/src/service_supervisor.rs`) | per service: state, `outgoing`, `child_pid`, `runtime_provides`, `pending_responses`, `pending_invocations`, forwarders, permits; the spawner's queue; `shutting_down` | `invoke_remote`, `dispatch_invocation`, `start_service`, `handle_exit`, restart after a backoff, `shutdown_all` | action registry (callers), event bus (forwarders), child processes |
| Trigger engine (`copad-core/src/trigger.rs`) | trigger list, `preflight_awaits`, `pending_awaits` | `set_triggers`, `dispatch`, `sweep_pending_awaits` | sinks, event bus |
| Trigger pump and config watcher (`copad-daemon/src/trigger_pump.rs`, `main.rs`) | the receivers of the needed patterns, behind one mutex | a pass (`drain_into`), `reconcile`, `apply_reloaded_triggers` | trigger engine, context service, cron |
| Event bus (`copad-core/src/event_bus.rs`) | subscribers, history | `publish`, `subscribe` | everything |
| Action registry and pool (`action_registry.rs`, `thread_pool.rs`) | actions, queue, workers | `try_dispatch`, a job's run or cancel | publishes completions |
| GUI registry (`copad-daemon/src/gui_registry.rs`) | clients, order, primary; per client the pending invokes, the writer's channel | `register`, `unregister`, `route`, `invoke`, `resolve`, `fail_all_pending`; heartbeat and forwarder threads | connection threads of `socket.rs`, GUIs |
| Daemon socket (`copad-daemon/src/socket.rs`) | one thread and one writer per connection | requests, `gui.register`, `_bus.publish`, `events.publish`, `event.subscribe` | all of the above |
| GUI client (`copad-linux/src/gui_client.rs`) | a run per connection, generation, pool | register, answer pings and invokes, hand trigger authority over and back | daemon socket |
| Cron scheduler (`copad-daemon/src/cron_scheduler.rs`) | the schedules in force and their next slots, generation, shutdown | reload, evaluation of what is due, dispatch, wait, shutdown | trigger engine, config watcher |
| Context service (`copad-core/src/context.rs`) | active panel, cwd per panel | apply an event | fed by the pump |
| comux state (`copad-mux/src/state.rs`, `model.rs`) | workspaces with their tabs, layouts, focus and zoom; terminal sizes; attached clients and who controls what; revisions; id counters | `apply` of one command at a time, which is refused or changes everything it has to | comux application |
| comux application (`tui.rs`) | the state, the program behind each terminal and the size it was told, the session on screen, the divider drag, the history of visited sessions | keys, pointer and control requests, shells that fail or exit, snapshot and restore | state, shells, server |
| comux server (`server.rs`, `client.rs`, `term.rs`) | attached clients with their baselines, replies and copies; the viewport; per connection two threads and a channel of one message | attach, replace, detach, resize, redraw, frames, replies, copies, heartbeat, shutdown | its clients, the panes' threads |
| comux agents, persistence, work graph (`copad-mux`) | agent status, what is saved, the task graph | reports of agents, compaction, saving | application |

The remaining parts, with the reason each is left out, are in `PROJECT.json`.
What makes the code hard is always the same: several threads, small locks held
one at a time, and channels between them. A thread reads under one lock and acts
under another; whoever gives up (a timeout, an exit, an unregister) has to leave
nothing behind for whoever comes late.

What each has to get right:

- supervisor: a call returns once, is delivered at most once, and a refusal is
  final; no call stays in a buffer nobody will drain; Running is one instance;
  nothing starts after shutdown; shutdown and calls end;
- triggers: no event runs an action twice, whatever the patterns; an await ends,
  once, and not by an event from outside; what is queued survives a reload;
- GUI registry: entries and waiting callers correspond; a primary whenever one
  is to be had; a hung GUI is dropped, and its callers are not left to their
  timeouts; a GUI's first line is its ack;
- cron: a due slot fires once, of the list that is in force; no reload and no
  shutdown is slept through;
- context: no entry for a panel that exited;
- bus: subscribers see one order; a full receiver drops and says so;
- comux state: one controller per workspace, and it is attached; every pane in
  one place, and ids never reused, after a restore either; the sizes recorded are
  those the layout gives; panes and dividers cover the viewport; an edit of
  something that was changed meanwhile is refused;
- comux application: every pane has its program and every program its pane,
  also when a shell does not start; programs know the size they are drawn at; a
  divider moves only while it is really held; a restart shows what was on screen;
- comux server: a client that does not read neither stops the loop nor leaves
  anyone with a wrong screen; what was answered is delivered, in order, once;
  no client that is gone pins the size of the others.

## Modules

| Module | What it is |
| --- | --- |
| `InvocationContract` | Abstract: what `invoke_remote` promises a caller. |
| `ServiceSupervisor` | One plugin service with its calls; implements the contract. |
| `MCServiceSupervisor` | Its instances for TLC. |
| `ServiceSupervisorProofs` | Theorems about it, and that it implements the contract. |
| `TriggerWorkflow` | Publishers, receivers, pump, engine, watcher and handlers, together. |
| `MCTriggerWorkflow` | Trigger lists and publications for TLC. |
| `Picking` | The part of a sequence that has a property. |
| `OperatorProofs` | Lemmas about the operators of `Picking` and `SplitTree`. |
| `TriggerWorkflowProofs` | Theorems about the triggers. |
| `GuiRegistry` | Connections, registry, heartbeats, forwarders, callers and GUIs, together. |
| `MCGuiRegistry` | Its instances for TLC. |
| `GuiRegistryProofs` | Theorems about it. |
| `CronScheduler` | The worker, the watcher's reload, shutdown and the clock. |
| `MCCronScheduler` | Three schedules and four lists for TLC. |
| `CronSchedulerProofs` | Theorem about it. |
| `SplitTree` | The layout of one tab: trees, rectangles, dividers. No variables. |
| `MuxState` | The commands of the comux state as operators. No variables. |
| `MuxActor` | One state, any command from any client at any time. |
| `MCMuxActor`, `MuxActorProofs` | Its instance for TLC, and theorems about it. |
| `MuxApp` | The handlers of the application over the same commands. |
| `MCMuxApp` | Its instance for TLC. |
| `MuxServer` | Loop, connections, writers, clients and panes' threads, together. |
| `MCMuxServer`, `MuxServerProofs`, `MuxDeliveryProofs` | Its instances for TLC, and theorems about it. |

`Picked(s, T)` of `Picking` is what `retain`, `filter` and `drain` leave of a vector. It
says the same as `SelectSeq`, of which the prover knows nothing.

In all of them one action is what a thread does between two points where another
can come in: a critical section, or a send, a receive, a spawn. A thread's
position is a `...Pc`, `pc`, `reader` or `beat` variable.

### ServiceSupervisor

The handle's fields keep their names in camel case. The instances of the service
are 1, 2, ... in the order they are launched; the handle's `outgoing` and
`child_pid` name the instance they belong to, 0 is `None`. Actions by thread:

- a caller (`Snapshot`, `Route`, `CallerSpawns`, `CallerReturns`): `invoke_remote`;
  `Route` is everything under the state lock;
- dispatching (`Admit`, `Reject`, `Register`, `SendInvoke`), on a caller's thread
  or the spawner's, and its waiter (`WaiterReplies`, `WaiterExits`);
- the spawner (`SpawnerReceives` to `Recheck`): `start_service` with both places
  where the buffer is drained;
- the wait thread of each instance (`ExitClears`, `ExitStopsForwarders`,
  `ExitTakesHandles`, `ExitDrains`): `handle_exit`, in its four lock sections;
- `SleeperWakes`, `EventActivates`, `Shutdown`;
- the child, which answers, is silent, or exits at any moment.

`ImplementsContract` maps a call's `pc` to new, open or closed and counts its
deliveries over all instances.

### TriggerWorkflow

A pattern is the set of kinds it matches, so `pattern_covers` is inclusion, which
holds because globs are nested or disjoint. A pass takes one receiver after
another (`Drain`), sorts (`CompletionsFirst`), and dispatches each event through
promotion, match and fire. The pump's sweep and the watcher's swap and clears are
outside the pump's lock and therefore actions of their own. `seen`, `awaited` and
`result` are history.

### GuiRegistry

A connection, its client id, its `GuiClient` and the GUI's `run()` share one
identity. `line` is what is queued on `writer_tx` and has not been read by the
GUI, socket buffer included; `inbox` the other direction. `entries[k]` and
`beatEntry` are `pending`, `closed` is `pending = None`. The registry's three
locks are always taken together, so `ReaderRegisters` and `Unregister` are one
step; `fail_all_pending` runs after they are released (`FailAll`, `HangsUp`).
`CallRoutes`, `CallInserts`, `CallSends` and the way out are apart: the caller
holds an `Arc` of a client that may be gone by the next step.

### CronScheduler

A schedule is the set of times it is due. `Reload` compiles a list before it
takes the lock (`Swap`); `Evaluate` is the section in which the worker copies what
is due and advances it; `Check` and `Dispatch` alternate over the batch; `Park` is
the second section, in which it decides to wait; `Wake` and `WakeSpuriously` end the
wait. Time passes between any two of these. `last` and `late` are history: what
each trigger fired last and of which generation, and which generations were over
when they still fired.

### SplitTree, MuxState, MuxActor

A layout is a function from paths to nodes, so that "the subtree at p", "the
leaf before this one" and "the branch that was grabbed" are set expressions. The
ratio of a branch is counted in 300ths, which holds the code's halves to sixths,
its 5% and 95% limits and the main share exactly.

A command is an operator from a state to whether it was accepted, the state
afterwards, and the terminals of the `Resized` event it returns. `MuxActor` applies
them in any order from any client or the control API, starting with a fresh or a
restored session; `MuxApp` chains several in a handler. Left out are names,
directories and the agent fields of a pane. Identifiers are pairs of a workspace
and a counter, or the counters themselves.

### MuxApp

`app` is the `App` struct. A handler is an operator from an `App` to an `App`; an
action `Do...` is a handler with the arguments keys, pointer or control API may
give it, followed by `TrackNav`, which the code runs after every event. Whether a
shell starts is an argument of the handlers that start one, and what they undo
when it does not is part of them. `DoReap` is a tick that finds up to `MaxExits`
shells gone, in any order. `DoRestart` is a crash followed by a start from the
snapshot, in which any set of shells may fail. `strayed` is history: the tab of the
divider that is held has been off screen since it was grabbed.

### MuxServer

`loop` is where the main loop is in its pass; `mux` what it keeps of each attached
client (`srv`: baseline, replies, copy, flags) and the viewport; `conn` the queues,
the channel of one message, the two threads and the socket of each connection;
`peer` the clients with the screen they show; `panes` what the panes' threads have
drawn and copied. `handled` and `executed` are history.

A pass takes one message, then the phases of the code in their order: clipboard,
expiry of silent clients, replies, copies, frames; a phase with nothing to do is
taken together with the one before. `FlushBeforeShutdown` to `Exit` are the end
of `kill-server`. A connection can end by end of file, by a shut socket, or in one
direction only, which the reader does not see. A screen is the status row, which
depends on every client's chord, and rows that all show what was drawn last; a
frame carries the rows that differ, so that a wrong baseline is a wrong row. `After` is
what a client will be once it has received all that is on its way, in the socket,
with the writer and in the channel; the properties of frames and replies compare
that with what the server believes or has handled.

## What is checked

| Run | Question | Bounds |
| --- | --- | --- |
| `SupervisorCalls` | Does `invoke_remote` keep its contract, do permits, entries and waiters balance, is no buffered call stranded? | 2 calls, 2 instances, one permit, a buffer of one, restart always |
| `SupervisorEvents` | Is Running one instance, does nothing start once the spawner is joined, is a death while Running followed by a start? | no calls, 2 instances, one request queued, restart always, activation by event, forwarders, shutdown |
| `SupervisorLiveness` | Do shutdown, calls and waiters end? | 1 call, 2 instances, restart onCrash, shutdown |
| `TriggerAwaits` | Awaits that look alike: does each end once, by one event, from inside, and after its completion? | 2 runs, 3 events published from outside the registry |
| `TriggerReload` | Two swaps between overlapping lists: nothing dispatched twice, nothing kept lost, awaits end. | 2 reloads, 1 run, 1 event |
| `GuiCalls` | Do calls and entries correspond, is a hung GUI unregistered, do the calls of a GUI that is gone return? | 1 connection, 2 calls, a channel of 2, 2 misses |
| `GuiElection` | Is there a primary whenever one can be? | 3 connections, 2 of them want to be primary, a channel of 1, 1 miss, no hanging |
| `CronFires` | Is what fires in force and new, is every due slot settled, does the worker end? | 3 triggers (dense, sparse, once), 4 lists, 2 reloads, 4 points in time, a grace of 1 |
| `MuxActor` | Leases, trees, sizes, tiles, revisions, frozen sizes, under every order of commands? | 2 clients, 2 workspaces, 2 panes alive, 3 tabs per workspace, 2 viewports (one too small for a split), 5 rearrangements, a fresh and a restored session |
| `MuxApp` | Have panes their programs, does the screen fit, does a drag move only what is held, does a restart keep the view? | 3 panes, 3 tabs, sessions 0 and 1, 2 exits per tick, 2 pointers, one screen with and without sidebar |
| `MuxFrames` | Is what the server believes a client shows true, and is nobody left with an old screen? | 2 clients of different size, one replacing the other; hanging, dying, a connection that fails one way, the self-heal; 2 inputs |
| `MuxCommands` | Do replies and copies keep their order, does a shutdown in time deliver them, does every command end? | 1 client, 2 panes that copy, queues of 1 and 2, 3 inputs |

The bounds are the smallest in which every action and every race happens: two
calls compete for one permit and one buffer slot; the second instance is what a
late exit of the first one, or a late call, can meet; two runs of one trigger
are what an event can confuse; two lists that share a pattern and differ in
another are what a reload can get wrong; two wanting GUIs next to one that does
not want are what a promotion chooses among. A channel of two lines is filled by
the calls or the events of the bound as 512 are filled by many. `MaxInstances`
and `MaxQueue` stop the launching of services, `MaxEvents`, `MaxRuns` and
`MaxReloads` publishing, dispatching and editing; `Hanging` names the GUIs that
may hang. In both trigger instances the awaits look for a reply of a kind and not
for one with the run's key, so that the comparison of keys is not exercised; an
instance with both is beyond five minutes.

For cron, one reload can fall between any two steps of the worker, and a second
one after it; four points in time let a slot be due, late within the grace, and
missed. A list of one finite schedule leaves the worker with nothing to come.

`MuxActor` bounds the panes alive, not the commands: splits, closes, breaks, moves
and restores follow one another without end, since `VIEW Shape` tells states apart
by their shape only. Identifiers and revisions grow for ever, but the commands
only compare them, so `ShapeOf` keeps how they compare (which tab is active,
focused, zoomed, whether revisions are equal) and not their values. `MuxApp`
uses the same view. Viewports of one column are the ones too small for a split and
its divider. A nudge in `MuxApp` is along an axis no divider has, so it goes
through the handler and changes nothing; `MuxActor` has the ones that move.
`Ratios` and `STEP` are large, so that a cell moves on a small screen.

`MaxInputs` of `MuxServer` is one budget for what clients say, panes draw and copy,
links and clients fail and the self-heal's clock, so every pair (`MuxFrames`) or
triple (`MuxCommands`) of them happens, interleaved with all threads in every way.
With one message in the channel, one held by the writer and one in the socket, two
inputs make a client miss a frame, and two commands make a reply wait.

Deadlock is checked for the triggers, whose threads never stop, for `MuxFrames`, and
for `MuxActor`, where some command is always to be had.
It is not for the supervisor, which may shut down; the GUIs, which may all be gone;
`CronFires`, whose worker ends; `MuxCommands`, whose server exits; and `MuxApp`, where
the last session may be gone.
Symmetry is used in runs without liveness only: over calls of one action, GUIs with
the same wishes, clients, and pointers.

### Fairness

Weak fairness of every daemon thread: the operating system schedules them and no
lock is held for ever. Timers that the code arms run out (`action_timeout`,
`init_timeout`, backoff, the heartbeat's timeout, an await's deadline). Strong
fairness only where a thread competes for the pump's mutex, and for a clock
that passes a deadline while the await is in the pools. Nothing is assumed of
children, handlers, publishers, users, and a hung GUI; of a GUI that does not
hang, that it reads its lines. `OrphansReturn` does not assume that the timeout
of a call ever comes, since the point is that the call does not need it.

`MuxServer`: every thread of the server and of the panes is scheduled, and
a client that is not suspended reads. Strong fairness of a client's messages: the
receive queue is first in, first out and each pass takes at least one, while in
the model the choice of the next connection is free. Strong fairness of
`PushFrames`: `FRAME_INTERVAL` passes, while `SkipFrame` may be chosen. `CommandsEnd`
needs nothing of a client that hangs. `CronScheduler`: the worker is scheduled, time
passes, and a reload that was begun is swapped in; nobody has to edit the file or
to shut down.

### Known limits of the code

Met while modelling. They are what the code does, and the properties above are
stated so as to be true beside them.

- A reply can be one pass ahead of the completion it followed, and is then not
  waited for any more: sorting (trigger_pump.rs:117) orders one pass, and the
  receivers of a pass are emptied one after another while others publish.
  `RepliesAfterCompletions` speaks of one pass.
- The first line a GUI reads can be an invoke instead of its register ack, since
  `register` makes it routable before the ack is queued. `EventsAfterAck` speaks of
  events, for which the code takes care.
- The exit of an instance clears what the handle holds by then, which can be the
  next instance's; two exits share one stop flag for the forwarders, and the join
  of one can wait for a forwarder the next start told to go on; calls buffered
  before the handshake are sent for actions the service did not claim.
  `RunningIsWired` holds since a cleared handle is never seen Running, and says
  nothing of a living instance that the exit of another has cleared.
  `RestartHappens` says that whichever exit takes the state Running starts the
  service again, late ones included. It exempts `JoinsForever`, the join just
  named, which lasts until a send of that forwarder fails, and it is stated for
  `always`: under `onCrash` a late clean exit takes the state, and the crash of the
  instance it belonged to is not recovered.
- Completions are matched to awaits by action name, oldest first, so that one may
  promote the await of another run. `AwaitEndsOnce` says that no await ends
  twice, not that the right one was promoted.
- A cron list that was read before a slot and swapped in after the old list fired
  it fires it again; `FiresForward` speaks of the dispatches of one list.
- With nothing to come, the worker does not compare generations before it waits
  (cron_scheduler.rs:214-223): a reload between evaluation and wait is noticed at
  the next notification only. `Stranded` names that case in `SlotsSettled`.

## What is proved

`ServiceSupervisorProofs`, for any sets of calls and actions, any activation and
restart policy, and any bounds, from the assumptions of `ServiceSupervisor`
(types of the constants, finite `Calls`, bounds that are positive):

- `TypeCorrect`: `TypeOK` always. Inductive with one more fact, that the spawner
  has launched an instance whenever its position says so (`StartHasChild`).
- `NoCallStranded`: `NoStrandedCall` always. It is not inductive: a caller buffers
  on Starting, and nothing in the property says that Starting is a start in
  progress. `BufferInv` adds that Starting is a position of the spawner, that a
  Running handle has a non-empty buffer only while its start drains it, and that
  the spawner's channel is open until shutdown. One lemma per kind of thread.
- `RunningWired`: `RunningIsWired` always. `WiredInv` follows the start: while the
  handle is still Starting, what `Launch`, `Wire` and `SendInitialized` stored is
  there, because every step that clears it also leaves Starting.
- `JoinIsFinal`: `NoStartAfterJoin`, an action property. Once `shutdown_all` is done the
  spawner has ended (`SpawnerGone`), and nothing but the spawner starts a child.
- `ContractKept`: `ImplementsContract`. Every step of a caller, a dispatch, a waiter, a
  child or the spawner maps to a step of the contract or to none. `CallsInv` says
  where a call can be: parked in the buffer once, and then neither dispatched nor
  answered; in one dispatch, which sends it to one instance at its end; and whoever
  returned before that gave up. Deliveries are cardinalities over the instances,
  of which at most one has the call.
- `WaitersAgree`: `WaitersAndEntries` always. `WaitersInv` adds that an entry lives as long as
  its waiter waits without an answer, and that the counter of permits is the number of
  calls that hold one plus those about to be refused (`PermitsCounted`), of which
  the former never exceed the limit. `Calls` is finite for that.

`TriggerWorkflowProofs`, for any publications, any number of events, runs and
reloads, and any set of trigger lists, from the assumptions of `TriggerWorkflow`: types,
and that two patterns of a list are nested or disjoint, which globs that end in
their only star are:

- `BoundaryHolds`: `TrustBoundary` always. `TrustInv` adds that what a pass is about to
  fire for an event from outside accepts such events.
- `NoEventTwice`: `DispatchedOnce`, an action property. `OnceInv` says that an event is
  at one place: of one receiver, of the batch, or among those dispatched. That
  receivers never overlap (`ReceiversApart`) rests on the covering patterns of a list
  being disjoint, and on a reload, between its two sections, owing receivers
  only what the new list needs (`Exclusion`: the watcher holds the pump's lock).
- `CompletionsBeforeReplies`: `RepliesAfterCompletions` always. A batch is sorted from the
  end of its draining on (`BatchSorted`).
- `AwaitsEndOnce`: `AwaitEndsOnce` always. An await is at one place of one of the pools,
  or was answered (`AwaitsApart`), and what answered it was dispatched before the
  event at hand (`AnsweredBySeen`); that this event is another one is `NoEventTwice`.

`GuiRegistryProofs`, for any connections, calls, capacity and number of misses,
from the assumptions of `GuiRegistry` (the sets of connections, `None` apart from
them and from the replies, `Conns` finite, bounds that are positive):

- `CallsAreEntries`: `EntriesAndWaiters` always. `CallInv` adds that a call holds a
  client from its routing to its return, and that nothing was sent to it before
  it has an entry: otherwise a reply could precede the insert and the call wait
  with an entry nobody removes.
- `EventsFollowAck`: `EventsAfterAck` always. The property speaks of the first
  line; `AckInv` speaks of all lines a GUI has not read: before each event there
  is an ack, and a forwarder, or a reader about to start one, has an ack in the
  channel unless the daemon hung up, after which no event is queued. It needs
  `CallInv` for the one fact that a caller sends to a connection. It says nothing
  of invokes, for which it is false.
- `PrimaryAlways`: `PrimaryChosen` always. `ElectInv` adds that a register is the first line
  of a connection, and that nobody is registered before it was read: otherwise
  a second register would list a connection twice in the order. The
  removal of a connection keeps the rest of the order as it was.

`CronSchedulerProofs`, for any triggers, slots, lists, grace, end of time and
number of reloads, from the assumption of `CronScheduler` (a list names no trigger
twice; slots are numbers):

- `NothingFiresTwice`: `FiresInForce` always. Neither half is inductive. `CronInv`
  adds where the last dispatch of a trigger lies: before the next slot of a
  schedule of the same generation (`ScheduleAhead`), before every entry left in the
  batch (`BatchAhead`), whose slots in turn lie before those of the schedules they
  were taken from (`BatchBefore`); and that nothing was ever recorded of a
  generation that is still to come (`Generations`). The evaluation needs a lemma
  that `Advance` returns a later slot, which rests on the well-foundedness of `<`.

`MuxActorProofs`, for any clients, workspaces, viewports, rearrangements, saved
sessions and bounds, from the assumptions of `MuxActor` (`Home` is a workspace,
`Api` and `NoOne` are no clients; viewports are pairs of naturals, zero included; ratios and the
step of a swap are integers; a saved session is a non-empty sequence whose shapes are
trees, of any ratios):

- `OneController`: `G1` always. `Leases` is the inductive form: the controller of a
  workspace is attached to it, and nobody is attached to a workspace that is gone.
  Most commands touch neither clients nor controllers; that each of them returns a
  state with the same ones (`Same`) is a lemma per command, composed from lemmas on
  the few operators that build a new state. Attach, detach and the removal of a
  workspace have a proof of their own.
- `RevisionsTell`: `RevTellsLayout`, an action property. It needs to know that an
  identifier always means the same tab: `Numbers` says that the tabs of a workspace
  are a sequence, no two with the same number, and that every number is below the
  counter new tabs take theirs from (a restored session moves the counter past
  its own). A lemma per command says that each tab it leaves behind is an old one,
  as it was or with a higher revision, or a new one with the counter's number
  (`Revised`); removing, inserting and replacing in a sequence have lemmas of their own.
- `TreesConsistent`: `TreeConsistency` always. `Consistent` says that the tabs of all
  workspaces are a forest: each layout is a tree, a tab's focused pane is in it, and no two
  leaves anywhere share a pane or a terminal; that the terminals of the state are those of
  the leaves; that both counters are above all of them; and that each workspace shows a
  tab of its own and is listed once. It needs `Numbers`. Every command is one of a few
  kinds: it trades leaves of one tab for new ones (`Trading`, `Retabbed`), replaces the list
  of tabs (`Relisted`), or touches no tab (`Reframes`); a lemma per command says which.
- `SizesFollow`: `SizesDerived` always, and `HiddenKeepSize`: `HiddenFrozen`, an action
  property. `Turned` is what any command leaves behind: a consistent state, in which
  no terminal changed its size and what is shown in a workspace is what was shown
  (`ShowsAs`), or in which one workspace with a higher revision was sized again
  by `Reflowed`, and nothing else was.
- `SoundRearranged`: a swap, a rotation, a spread or any preset of any tree is a tree of the
  same panes, each once. The lemmas it uses, on splitting, removing, refilling and
  rebuilding a tree, are those of `OperatorProofs`.
- `PanesTiled`: `PanesTile` always. `TileInv` adds to the above that each viewport is one that
  a client may have. A branch shares its rectangle out between its two children and its divider
  (`BranchCells`, from `CellsConserved`); so the tiles at and below a path make up its
  rectangle (`TileBelow`, `TilesCover`), and two tiles lie apart since one of the paths is
  above the other, or both fork somewhere (`LayoutTiles`).
- `CellsConserved`: the two children and the divider of a branch take up exactly its
  extent, for every extent and every ratio, the ones out of bounds included.

`MuxServerProofs` and, for the last two, `MuxDeliveryProofs`, for any clients of any
sizes, panes, inputs, room in the socket and limits of the reply queue, from
`ServerAssumption` (types; nobody attaches twice over one connection; limits and room
are positive):

- `ClipboardsInOrder`: `CopiesInOrder` always. A copy has a ticket when it is made. `CopyInv`
  orders the tickets on the way to a client and what is queued behind them
  (`OrderInv`), and says what keeps an older one from coming later: a ticket not
  relayed yet is newer than anything sent (`Fresh`), and a slot the pass has
  emptied holds nothing older than what it relayed (`Emptied`, `Later`).
- `NobodyIsLeftBehind`: `NobodyLeftBehind` always. `ScreenInv` is the viewport being the
  smallest attached client's (`Fits`), and of each attached client that it is owed a full
  frame, or has a baseline of that size which, in a loop with nothing to do, is the
  newest screen or due to become it (`OnScreen`). A step that draws nothing may blank
  a baseline but not forget a mark (`Redrawn`), and may change the status row only by
  marking everybody (`Calm`).
- `BaselinesHold`: `BaselineHeld` always. `FrameInv` is the property with one more conjunct,
  that a client owed a full frame has a blank baseline (`Blanked`). It is preserved
  because `After` of a longer line is `After` with one more message received, and of a shorter
  one the same client; that a client who is gone gets no more (`NewInv`, `PlaceInv`,
  `Ages`) tells connected clients from others in every step.
- `EveryReplyDelivered`: `RepliesDelivered` always. Before a client's attachment is handled
  nothing was said to it (`FirstInv`); what waits in its inbox is numbered above all that was
  handled or executed (`AskInv`), so that a "busy" one never ran. What a client has been
  answered once it has read everything on its way begins the list of what was handled for
  it, and with the replies still queued makes all of it, unless it overflowed or its writer
  ended (`ReplyInv`); an answer sent moves from the second to the first. For the end by
  kill-server: until the farewells no writer of an attached client ends but on a broken connection
  (`ByeInv`); between the two farewells the first is in the channel, in the writer's hand or
  written (`SecondInv`); so when a client's turn is over only farewells are left
  unwritten, and what reached its socket is every answer (`FarewellInv`).

Model-checked only are:

- the properties under fairness, since liveness and ENABLED are out of the
  prover's reach;
- what `MuxApp` says of its sessions, panes, screens, restarts and drags. Each of its handlers
  chains several commands of `MuxState`, and a restart is a fold over the sessions of a
  snapshot; the commands themselves are what the theorems about `MuxActor` speak of.

`OperatorProofs` holds the lemmas on operators that more than one component needs: on
`Picked`, and on the trees of `SplitTree`. `TriggerWorkflowProofs` and `MuxActorProofs` extend
it; `MuxServerProofs` has the few it needs of `Picked` again, since `MuxServer` uses names
of `SplitTree` for constants of its own.

Induction over data, as a theorem of the library, takes an operator as its
parameter and cannot be used. Where a proof needs it for one recursive function
(`After`, `Advance`, `EvenTrees`, `SlotsAlong`, `Rects`, a sequence's parts), it takes the least
element of the set of counterexamples instead, which is first-order; that the function exists
at all is shown in the same way, by functions on longer and longer parts of its domain.

## What is not modelled

Per component, in `PROJECT.json`. In the modelled parts: wording, JSON, ids,
durations as numbers, log lines; the requests and notifications a service sends;
conditions and interpolation of triggers and the gate of privileged actions;
bounded receivers and history of the bus; `event.subscribe`; the forwarder from
the GUI to the daemon. A GUI's execution of a call is not told from its answer.
The three locks of the registry are one. Cron expressions are sets of slots, those
that do not parse are dropped by the code and absent here, and what a trigger does
is not part of the scheduler's model.

Of comux: names, directories, colours, key bindings and the drawing itself; the
overlays, text selection and scroll-back of the application; worktrees, groups,
mailboxes and marks; the agents, with their status and compaction; when a snapshot
is written (a restart may come from any state, as if it had just been saved). Of
its server: the host's subscribers and delegated overlays, notices, bells and
titles, cursor and images, columns, and what a command does. A draw shows the same
on every row, so a delta that touches some rows only comes from the status row and
the resync.

## Plan

In this order; each with its abstract specification where one is worth having.

1. `TriggerAuthority`: the hand-over of triggers between a GUI and the daemon
   (`host_triggers`, forwarder before cut-over, the guard that gives authority
   back). Every GUI event is dispatched by at least one engine.
2. `ContextService` with the per-kind receivers of the pump: no entry of a dead
   panel survives.
3. comux persistence: when a snapshot is written, next to what `RestartKeepsView`
   says of one; then agent status and compaction.
4. `EventBus` and `ActionPool`: bounded receivers, history against delivery,
   queue and workers of the pool; then `TriggerWorkflow` over them.
5. Theorems about `MuxApp`, from the lemmas on commands that `MuxActorProofs` has:
   `PanesMatch` and `DragFaithful` first.
