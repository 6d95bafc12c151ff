# TLA+ models of the p2p chat

This directory models the chat of this repository: the `chat serve` process that
drives one gossip room at a time, the WebSocket bridge its browsers talk to, the
React hook that turns the bridge's frames into a view, the pages and the overlay a
user works with, the two-peer simulation page, and the room registry. TLC checks
the models on small instances; for every value of the constants TLAPS proves the
safety of all five components (the serve process, the bridge with the list a browser
shows, the page, the simulation and the registry), that the serve process implements an
abstract life of rooms, and that the registry implements an abstract directory.

## Inventory

| Part | Source | State it keeps | Operations | Talks to |
|---|---|---|---|---|
| Peer loop | `src/bin/chat.rs` | position in the loop, `cmd_rx`, ctrl-c watch | idle select, open, join, `run_room`, leave, shutdown | hub, gossip, `announce_room` |
| ChatHub | `src/chat.rs` | `history`, `welcome`, `outbound`, two broadcast channels | `start_room`, `end_room`, `push`, `set_welcome`, `snapshot` | shared by loop, tasks and bridge |
| Gossip tasks | `src/chat.rs` | outbound channel, `seen` nonces | send task, `recv_loop`, `run_gossip` | hub, iroh gossip |
| WebSocket bridge | `src/ws_bridge.rs` | one handler per browser with two receivers | accept, replay, forward, take commands and texts, drain | hub, `cmd_tx`, browsers |
| useChatSocket | `web/src/lib/useChatSocket.ts` | messages, room state, burst, seen nonces | connect, onmessage, open/join/leave/shutdown | bridge |
| announce_room | `src/bin/chat.rs` | one connection | connect, announce, hold | registry |
| Registry | `src/registry.rs` | map of rooms, `list_tx` | announce, prune, subscribe, snapshot, update | hosts, pages |
| useRoomDirectory | `web/src/lib/useRoomDirectory.ts` | list, reconnect delay | connect, list, close, retry | registry |
| Room page | `ChatRoom.tsx`, `ConnectingOverlay.tsx`, `MessageInput.tsx` | address parameters, overlay dismissed, form, 12 s timer | enter, leave, shut down, reconnect, open, join, retry, type | useChatSocket |
| Landing page | `Landing.tsx`, `ConnectForm.tsx`, `RoomDirectory.tsx` | form fields | open or join: go to a room page | useRoomDirectory |
| useSimulation | `web/src/lib/useSimulation.ts`, `SimulationDrawer.tsx` | phase, guards, running scenario | start, run, reset, run again, reconnect | two useChatSockets |
| MessageList | `web/src/components/MessageList.tsx` | none | order messages and pills | view of useChatSocket |
| CLI open / join | `src/bin/chat.rs` | one room | one room until ctrl-c | hub, gossip, bridge |
| Telemetry | `src/telemetry.rs`, `src/tracing_tasks.rs` | neighbor set | log lines to events | event channel |

What makes it hard, and what correctness means for each part:

- *Peer loop and gossip tasks.* Dropping the future of `run_gossip` detaches the
  two tasks it spawned instead of stopping them, so every later room shares the
  hub with the tasks of earlier ones. Correct: the hub's sender and welcome
  belong to the current session only, a host's guests always hear the close, a
  text never changes rooms, ctrl-c is never missed, tasks end.
- *Bridge.* Browsers connect between any two steps of a push, a welcome or an end
  of room, and channels drop their oldest value when a reader is slow. Correct:
  no message is missing or doubled, the burst is sorted, the view follows the
  room.
- *Pages.* Answers, timers, lost connections, other tabs and the user race, and a
  process has one room for all its browsers. Correct: the page says of the room
  what is true once it has read what was sent; the terminal "closed by the host"
  is said only then; a page that waits leads on.
- *Simulation page.* Effects, an asynchronous runner and a user's reset share a cancel
  flag and two guards. Correct: a scenario is played as written or stopped; "ready"
  means both peers are in one room; nothing waits for ever.
- *Registry.* Snapshot and updates race, hosts and the registry die. Correct: a
  page that caught up shows the registry's rooms; a room that is over goes away.

## Modules

### ChatServe: one serve process

`pc` is the place in the `'peer` loop: `top` (line 251), `idle` (254),
`subscribe` (280, 324), `room` (399), `closing` (422), `after` (343), `draining`
(354), then `exited`, or `crashed` when `subscribe` fails. A *session* numbers the
rooms of the process; an `Option` that holds a session's sender or event is that
number, with 0 for `None`. Each session keeps its outbound channel `chan`, its two
tasks `sendTask` and `recvTask`, the message `hold` between `push` and
`broadcast`, and the nonces `seen`. `held` is a bridge handler waiting in
`tx.send(body)` with the sender it cloned.

| Actions | Code |
|---|---|
| `SendCommand`, `TakeSender`, `SendBody`, `BridgeFails` | `handle_client` and `serve` as they feed the loop |
| `LoopTop`, `Idle...`, `Subscribed`, `SubscribeFails` | the `'peer` loop |
| `SpawnGossip`, `GossipEnds`, `RoomCtrlC`, `RoomCommand`, `RoomBridgeGone`, `CloseBroadcast` | `run_room` |
| `RoomLeft`, `RoomExits`, `Drained` | the end of a room and of the process |
| `SendTurn`, `Broadcast`, `SendEnds`, `SendCancelled` | the send task |
| `RecvChat`, `RecvClosed`, `RecvEnds` | `recv_loop` |

A step is what one task does between two await points or inside one lock. The
peer loop's calls on the hub are single steps here, since nothing in this module
reads the hub between them; WsBridge splits them. Gossip is external: it
delivers any message of the session's topic, late, out of order and repeatedly.

### ChatSocket, ChatClient, MessageList: the browser's side as functions

`ChatSocket` is the reducer of `useChatSocket` as operators on the view, without
state of its own. `ReadyAfter` and `ClosedAfter` say without recursion what room state
a view comes to after a sequence of frames, by the last frame that decides it; the
properties and proofs of bridge and page speak of frames under way through them.
`ChatClient` adds the connection, the action and ticket of the room
and the calls a component makes (`Starts` is `openRoom` and `joinRoom`, `CanSend`
the `readyState` check of all senders). `MessageList` computes what a view shows:
two streams merged from messages and peers' comings and goings around the "live"
divider. An item of a stream has its place in the list before the sort (`at`), and the
stable sort by time and by `nonceNum` is said by counting: an item comes after as many
others as are `Before` it. `Rounded` is the rounding of a double
with `Mantissa` digits, to the nearest and ties to even, so the loss of the low
bytes is in the model with a small radix and mantissa.

### WsBridge: from the hub to the screen

The room appears as its calls on the hub in
the loop's order (`StartRoom`, `StoreWelcome`, `SendWelcome`, `HostCloses`,
`EndWelcome`, `EndHistory`, `RoomLeft`), each lock a step, and a push is an append
and a later send. Tasks that outlive their room go on pushing, and report its close
(`LateClose`). A handler subscribes to both channels one after the other, replays,
then forwards from whichever receiver `select!` picks. A full broadcast channel
loses its oldest value (`Offer`); `lagged` records it for the properties. Message
numbers are ranks by (ts, nonce), so pushing them in any order is clock skew. The sort
of the snapshot is stated by what it returns: a sequence with the history's messages
whose numbers rise (`Sorted`).
Telemetry and neighbors' comings and goings share the event channel.

### RoomPage: one user, one process

`page`, `params`, `client`, `dismissed` and `overlay` are the state of the browser tab:
the address, the hook, `overlayDismissed`, and the overlay's form and timer. Every
handler of the hook is followed by `Render`, which does what React does next: the
effect of `ChatRoom` that takes the dismissal back in an idle room, mounting and
unmounting the overlay with its state, and the overlay's effects with their
dependencies. `Offers` is the set of controls on the screen that do something; a
user's action is guarded by its offer. `retried` (auxiliary) marks a "Try again" since
the timer's effect last ran.

| Actions | Code |
|---|---|
| `SubmitForm`, `JoinListed` (in `Visit`), `Reload`, `ToStart` | navigation; a page that goes closes its socket |
| `FillForm`, `FormOpen`, `FormJoin`, `Retry`, `EnterChat`, `ShutdownClicked` | `ConnectingOverlay` |
| `Say`, `Reconnect`, `ShutdownClicked` | `ChatRoom`, `MessageInput` |
| `Handshake`, `Replay`, `Receive`, `SocketCloses` | the WebSocket and its handlers |
| `TimerFires` | the 12 s timer |
| `TakeCommand`, `OtherTab`, `HostCloses`, `RoomEnds` | the serve process |
| `LateClose` | the receive task of a room left by command (`chat.rs:173`, `bin/chat.rs:399`) |
| `ProcessStops`, `ProcessStarts`, `ConnectionBreaks` | failures |

The process is a summary of ChatServe: up or not, a room and whether it hosts it. A
command is taken in one step, `shutdown` in a room and ctrl-c end the process with
its connections. A room closed by a host is told with `room_closed` and left with
`room_left` in a second step, unless a command, which `select!` may prefer, ends it
first; it may also end with its gossip stream. The receive task asks neither for the
process's role nor for the room it is in: `HostCloses` may close a room hosted here (two
rooms of one name share a topic), and each room that a command ends leaves a task behind
(`strays`) that may later tell the page of a close, in no room or in another. `misled`
(auxiliary) remembers that since the page's last replay and the start of the last room,
and a new process starts with neither.
There is one queue of frames to the page, so the reordering between
the two receivers is left to WsBridge, and no chat frames.

### Simulation: two peers driven by one hook

`sim` holds the phase, the two guards and the cancel flag, both clients and what
they sent; `runners` are the `execute()` calls still waiting in a timer. `Effects`
are the four effects of `useSimulation` in their order, each reading what was
rendered and acting on what the earlier ones left; their updates are rendered in
turn (`Render`, at most three rounds). `SCENARIOS` has the presets as sequences of
timers, and `said` records each timer of the running scenario that fired before a
cancel. Each peer has a process like RoomPage's, without what outlives a room and
without an end by the gossip stream; A opens and B joins by a ticket that
is the room's number; the end of a room A hosts reaches B when gossip likes, where
`room_closed` and `room_left` follow each other in one step. Handshake and replay are
one step: nothing else uses these two processes. Texts change no room.

### RoomRegistry, RoomDirectory: the directory and what it promises

A room stands for its `announce_room` and the one connection that makes. `open` is
the room, `annc` the task, `reg` the registry's handler. Lists carry a version, an
auxiliary count of updates. `RegistryStops` is ctrl-c as well as a crash: `main`
drops `run_registry` when ctrl-c wins its `select!`. Pages follow
`useRoomDirectory`.

`RoomDirectory` is what this is for, without connections, channels and tasks. A room is
listed once, and goes only when it is over or the registry stops. A linked page is owed
lists (`ahead`): they may come late, twice, in another order or not at all, but none of
an earlier link, and the last one is the current one. `ImplementsDirectory` maps the
registry to it: `linked` are the pages whose subscription took a list, and `Ahead` what
is on the wire, in the receiver, or still to be taken as a snapshot, at the start or
after a lag. A room is `gone` when its handler is, so what a
registry that was stopped forgot is not announced again.

## Runs

| Run | Instance | Shows |
|---|---|---|
| `serve_safety` | 2 sessions, 1 topic, 1 local and 1 remote text, channels of 1, history cap 2 | `TypeOK`, `HubFollowsLoop`, `AnnouncesOnlyItsRoom`, `CloseAnnounced`, `TextStaysInRoom`, `PushedOnce`, and the refinement `ImplementsLifecycle` |
| `serve_live` | 1 session, 2 local texts | `CtrlCStops`, `SendTaskEnds`, `AcceptedIsBroadcast` |
| `bridge_replay` | 1 room, 2 messages of one time, 1 neighbor event, channels of 1, 2 connections | `TypeOK`, `NoGap`, `KeptInOrder`, `NoDuplicate`, `HistoryInOrder`, `PillsShown` |
| `bridge_rooms` | 3 rooms, event channel of 3, 1 telemetry event, 2 connections | `ViewFollowsRoom` |
| `registry` | 2 rooms, 1 page, list channel of 1, 2 starts, 2 connections | `TypeOK`, `CaughtUp`, `OverIsGone`, and the refinement `ImplementsDirectory` |
| `page` | 2 rooms, 2 connections, 1 failure or late close, 1 command of another tab, buttons that wait for the last command to be taken | `TypeOK`, `OutlookIsLastFrame`, `PageFollowsRoom`, `ClosedByHost`, `HostControls`, `TimeoutIsPending`, `WaysOn` |
| `simulation` | the preset "cross-talk", 2 starts, 1 scenario, 1 failure, reload or reconnect | `TypeOK`, `SilentWhenIdle`, `RunsWhileRunning`, `PlaysTheScript`, `FirstReadyMeansBoth`, `FirstStartSettles` |

Two things they show that are not evident. The list sorts the replay again with a
key that keeps little of a 16-byte nonce: the double loses exactly the low bytes that
the modulo keeps, so the key is nearly always 0 and the stable sort leaves the
bridge's order alone; with exact arithmetic the order would be wrong
(`HistoryInOrder`). And `WaysOn` holds only with the two dead ends it names: after a
second silence behind "Try again", and when the connection is lost over the idle
form, the overlay covers every way out.

Runs that refute what a comment says:

| Run | Statement | What happens |
|---|---|---|
| `serve_leaks` | `FreshHistory` (`chat.rs:54`) | the receive task of a room that was left pushes into the history of no room or of the next |
| `bridge_stale` | `NoGap` with two rooms (`ws_bridge.rs:85`) | a `room_left` still queued wipes a message of the next room |
| `registry_unlisted` | `AliveIsListed` (`registry.rs:53`) | after a registry restart an open room is never listed again |
| `page_lost` | `RoomEndsOnPurpose` (`protocol.rs:70`) | reloading or reconnecting the page of a running room, or a start from another page, ends that room and starts none |
| `simulation_ready` | `ReadyMeansBoth` (`useSimulation.ts:9`) | a start right after a reset is ready with A's old ticket while A is in no room |

More differences between text and code need no run. The README's lifecycle
diagram (`README.md:287`) draws shutdown and ctrl-c as edges back to idle, while
both break the loop and end the process (`RoomExits`). The comment of `end_room`
(`chat.rs:53`) has in-flight sends discarded, while the detached send task
broadcasts what its channel holds: `AcceptedIsBroadcast` is what holds instead. A
handler that lags past a `room_ready` never tells its browser of the room
(`ws_bridge.rs:165`): `NoGap` and `ViewFollowsRoom` except it by name. A receive task
left over from an earlier room tells the browsers of the present one that it was closed
by the host (`chat.rs:175`), where `protocol.rs:127` says "Room was closed by the
host". `NoGap` and `ViewFollowsRoom` in WsBridge, `PageFollowsRoom` and `ClosedByHost`
in RoomPage except this by name too: only such a task sets `misled`, for the browsers of
the room it speaks into or the page it reaches, until that page's next replay or the
next room. `PeerModal.tsx:29` shows a peer that came
back with the time it left.

**Why the bounds are enough.** The hazards of the process are between one session
and the next, so two sessions show them; a third adds no new relation. One text
per side suffices because the properties speak of one text, and capacities of 1
make every channel full at once, which is where the handlers block and receivers
lag. Two messages are what an order, a duplicate or a gap needs; their nonces are
chosen so that by the low digits alone they sort the wrong way round, and the
neighbor comes at the time of both, the boundary of the split. In the bridge
three rooms let an event of the first still be queued in the third. Two starts
of the registry are a restart. On the page two connections are a reload or a
reconnect, and two rooms with one foreign command the smallest case in which the page
and another tab act on each other's room, and in which the first room's task tells of
its close in the second. A button finds the queue of commands empty (`MaxCmds` = 1);
the open or join of a new connection is queued behind what is there. A late close counts
as a failure, and one is enough to mislead a page: in the run a behaviour has either it
or a restart or broken connection, in the theorems any number of each. In the simulation two starts with a reset
between them and one scenario put an old runner, an old ticket and an old leave
next to a new start, and one failure may come at any of these moments; a second
failure only meets a page that is already in `error` or fresh. Two scenarios at once
need a reset and a start between them, after which nothing is promised of them: that
no two runners are about is shown by the proof, for any number of scenarios, and
is no question in a run with one.
`Max...` constants are the bounds and are named in the guards they limit.

**Fairness.** `ChatServe!Fairness` is weak fairness of the peer loop as a whole, of
each handler's pending send and of each send task: the tokio runtime polls every
ready task. No choice is assumed of a `select!`, and nothing of browsers, remote
peers or ctrl-c. `RoomRegistry!FairSpec` is the same for the tasks and for a page's
socket and reconnect timer; rooms open and end, and the registry starts and
stops, when they like. `RoomPage` assumes that the socket has some step
as long as it can, and the 12 s timer fires, and nothing of users, of the process or of failures: the timer has to
cover an answer that never comes. `Simulation` assumes timers, both sockets and
that a process takes the commands it is sent, and nothing of the user, of gossip or
of failures. `CHECK_DEADLOCK FALSE` stands where the behaviour may end:
the process exits, the bounds are used up, every room is over.

## Proofs

Eight modules hold the proofs. Constants satisfy the assumptions of the modules that
declare them: `ServeAssumption` (capacities at least 1, texts of local and remote
authors distinct), `SocketAssumption` and `ListAssumption` (a trace keeps something;
message numbers are ranks by time and nonce), `SortAssumption` (times and sort keys are
naturals: what a `u64` and a remainder are; it is assumed of `Key` since the prover knows
nothing of powers, and TLC evaluates it), `BridgeAssumption` (capacities at least 1,
telemetry has the types the protocol gives it), `RegistryAssumption`, `PageAssumption`
and `SimulationAssumption` (bounds are naturals, scenarios are presets). The bounds in
the guards are constants too, so the theorems hold for behaviours of any length.

| Theorem | States | Inductive invariant |
|---|---|---|
| `ChatServeProofs`: `TypeCorrect` | `TypeOK` | `TypeOK` |
| `HubCorrect`, `ListingCorrect`, `CloseCorrect` | `HubFollowsLoop`, `AnnouncesOnlyItsRoom`, `CloseAnnounced` | `LoopInv` |
| `TextCorrect` | `TextStaysInRoom` | `TextInv` |
| `LifecycleCorrect` | `ImplementsLifecycle` | `TypeOK` and `LoopInv` |
| `ChatServePushes`: `PushCorrect` | `PushedOnce` | `PushInv` |
| `WsBridgeProofs`: `TypeCorrect`, `RoomCorrect`, `GapCorrect` | `TypeOK`, `ViewFollowsRoom`, `NoGap` while `rooms <= 1` | `BridgeInv` |
| `KeptCorrect` | `KeptInOrder` | `OrderInv` under `BridgeInv` |
| `WsBridgeScreen`: `OnceCorrect`, `PillsCorrect` | `NoDuplicate`, `PillsShown` | `BridgeInv` |
| `ReplayCorrect` | `HistoryInOrder`, if `KeysAgree` | `BridgeInv` and `OrderInv` |
| `RoomPageProofs`: `TypeCorrect`, `PageCorrect`, `CloseCorrect`, `HostCorrect`, `TimeoutCorrect` | `TypeOK`, `PageFollowsRoom`, `ClosedByHost`, `HostControls`, `TimeoutIsPending` | `PageInv` |
| `OutlookCorrect` | `OutlookIsLastFrame` | `PageInv`, and induction over the frames |
| `SimulationProofs`: `TypeCorrect`, `SilenceCorrect`, `RunnerCorrect`, `ReadyCorrect` | `TypeOK`, `SilentWhenIdle`, `RunsWhileRunning`, `FirstReadyMeansBoth` | `SimInv` |
| `ScriptCorrect` | `PlaysTheScript` | `PlayInv` under `SimInv` |
| `RoomRegistryProofs`: `TypeCorrect`, `DirectoryCorrect` | `TypeOK`, `CaughtUp` | `TypeOK` and `DirectoryInv` |
| `RefinementCorrect` | `ImplementsDirectory` | `DirectoryInv` and `PromiseInv` |

`ChatClientProofs` has lemmas the page, the simulation and the bridge share: sequences
one element longer or shorter, what one more frame does to `ReadyAfter` and
`ClosedAfter`, and what each operation of the hook does to a client.

**The serve process.** `LoopInv` is the conjunction of the three properties with
`OnlyHostsClose` (only a host reaches `closing`), without which a guest's close could
not be excluded. The bridge and the tasks leave everything it speaks of alone
(`OthersKeepLoop`), and there is one step per action of the loop (`LoopKeepsLoop`).
`TextInv` follows a text on its way: the handler's `held`, the channel, the send task's
`hold` and what was sent hold only texts typed in that session; steps that only drop
texts share `ShrinkKeepsText`. `PushInv` adds to `PushedOnce` where a text that is not
pushed yet is (in one handler's hands or one place of one channel, `WaitsOnce`), and
what the tasks know of an entry that is pushed: its text waits nowhere any more, and a
running receiver has seen its nonce (`Accounted`). `TrimKeeps` is the lemma on the
history's cap.

**The life of rooms.** Initial states map to initial states, and under `TypeOK` and
`LoopInv` each of the loop's actions maps to an action of `RoomLifecycle` or leaves its
seven variables alone, as every step of the bridge and the tasks does. The invariant is
needed where the abstract step says more than the code's: that `listed` becomes just
this room (`AnnouncesOnlyItsRoom`), that `CloseBroadcast` is a host's (`OnlyHostsClose`).

**The bridge.** Between the hub and a view a room's event may be in the stored welcome,
on the wire or in a receiver, so `Told` says what the view will be once the replay
(`ReplayTells`) and then the events (`Outlook`) are read: ready in an open room, not
ready without one. `Burst1` has the burst's end come once, with the list of messages
empty before it and the burst empty after. `Has` says where a message of the history
can be (shown, on the wire, in the live receiver), and `Once` that in the first room no
event that ends it is followed by one that sets it up. `NoGap` is proved for the first
room only since it is false with two, as `bridge_stale` shows. `OrderInv` has the part of
the wire before the end of the burst continue the burst in rising order with no event
that resets the room in it (`Continues`), and all that is kept among the seen nonces.

**The screen.** No induction is needed over what a browser shows. `Before` orders the
items of a stream (`BeforeOrders`), so of two items the earlier has fewer before it
(`EarlierRises`): the count is an injection of the items into as many places, and by the
pigeonhole principle every place is taken (`PlacesAreTaken`). So each item stands at
exactly one place (`PlacedOnce`), and two places that follow each other hold items in
`Before`'s order (`TwoArranged`). With what the view keeps, `BridgeInv` gives once each
message and each pill the page has, on one side of the divider; `OrderInv` gives the order
of the replay. `KeysAgree`, that keys of messages of one time do not contradict their
nonces, is the hypothesis the last one needs: it holds of the run's values, and of nonces
of 85 significant bits or more, whose doubles are multiples of 2^32, so that all keys are 0.
A nonce of 128 bits that begins with 44 zeros keeps low bits in its key, and a replay with
such nonces may be shown out of order.

**The page.** `StraysHadRooms` bounds the tasks left behind by the rooms that are over.
A late close is the only step that can take a live page from `ready` while the process
stays in its room, and it sets `misled` (`LateCloseKeeps`); what is new on the wire after
that is decided by the next room or the next replay, which reset it (`StartKeeps`,
`ReplayKeeps`). `Connected` relates the two ends of the connection, but for a loss the
page has not noticed, and `Drawn` is what a render leaves behind. `AskedFor` is what
`HostControls` needs: a page that believes it hosts has its command under way, or it
hosts, or the room it is in is about to end. `OutlookCorrect` shows that the last
deciding frames, of which these properties speak, say what the page's handler comes to frame
by frame: `FoldLeft` is taken back to the recursive function it chooses (`ReadingExists`,
`FoldReads`), and the frames are counted with an induction over sets of numbers
(`SetInduction`, from the library's `WFMin`), which needs no predicate as a parameter.

**The simulation.** `Holds` is said of a hook, connections, frames and runners as
arguments, since a handler's update is followed by up to three rounds of rendering and
effects in one step: it is shown to survive the handler and each effect in turn. In the
first start at most one room comes of at most one command of A (`Started`), B is asked
for nothing until A's ticket is there (`WaitsForA`), and then is in A's room or has its
command under way (`Handed`). Later starts are excluded because `simulation_ready`
refutes the property for them. `PlayInv` says what is left to play: in the first start
what is said is a prefix of the script, and while it runs the one runner holds the rest.

**The registry.** `DirectoryInv` follows the newest list: the last in the receiver is the
current one; when the receiver is empty and nothing was missed, the last on the wire, or
else the one on the page. It is also what the refinement needs: when a page is shown
the last list ahead of it (`See` with nothing left), that list is the current one. Each
action maps to one of `RoomDirectory` or to none; the lemmas of a step say what it does to
`Ahead`, which an update extends by the new list for linked pages only, and a connection
that goes empties. `PromiseInv` has what `RoomDirectory` takes for granted: a listed room
has a handler and was opened, and a page without a link has nothing left of one.

Only model-checked is liveness under fairness, which is out of the prover's reach:
`CtrlCStops`, `SendTaskEnds`, `AcceptedIsBroadcast`, `OverIsGone`, `WaysOn` and
`FirstStartSettles`. Every invariant and refinement a passing run checks is proved, except
that `NoGap` is proved while `rooms <= 1` and `HistoryInOrder` under `KeysAgree`. What stays
an assumption is that the sort key is a natural; what it is, and that the runs' nonces
satisfy `KeysAgree`, TLC computes.

## Not modelled

- iroh, gossip membership and the encodings of frames and tickets: libraries. Gossip
  appears as arbitrary delivery.
- Delays: a timer may fire at any time. The 150 ms before a host leaves, in which its
  own frames can follow `RoomClosed`, needs the receiving peer.
- The shutdown of `serve()`: the Close frames, handlers blocked in a send, the 3 s and
  5 s limits, keepalive pings. To a page a shutdown is a connection that dies.
- The legacy `open` and `join` modes of the CLI and of the page, room names, ports.
- `listen.rs`, `connect.rs`, logging, log-line parsing and the components that
  only render (`NetworkTrace`, `PeerModal`, `TicketBanner`, `SimulationLayout`,
  `SimulationPeer`, `peerIdentity`): no state the properties could speak of.
- History at 500 entries in WsBridge: the cap is ChatServe's.
- One message pushed by two receive tasks of one topic, each with its own seen set
  (`chat.rs:151`), in WsBridge: it would be in the history twice, and the browser's
  nonces show it once. ChatServe has it: `PushedOnce` speaks of a session.
- Errors of a broadcast (`chat.rs:117`, `bin/chat.rs:424`): the code logs or ignores
  them, so `sent` in ChatServe means handed to gossip, not received by a peer.
- In Simulation: the end of a room by its gossip stream (`bin/chat.rs:400`), receive
  tasks that outlive a room, and a handler that lags past `room_joined`
  (`ws_bridge.rs:165`). RoomPage has the first two, WsBridge the last two.
- The Playwright harness.

## Plan

What is left, in order of importance:

1. The bridge's shutdown, against the promise of a clean Close (`ws_bridge.rs:28`).
2. Several peers composed over gossip; frames behind `RoomClosed`.
3. The abstract life of rooms as the process of RoomPage: that what the page's model
   assumes of the process is what ChatServe does.
