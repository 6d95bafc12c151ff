------------------------------ MODULE ChatServe ------------------------------
(***************************************************************************)
(* One `chat serve` process: the persistent peer loop of src/bin/chat.rs,  *)
(* the room it drives (run_room, run_gossip and the two tasks run_gossip   *)
(* spawns), the ChatHub of src/chat.rs that the room and the WebSocket     *)
(* bridge share.  announce_room, which a host spawns, is a component of its *)
(* own; here it is only started and told to stop.                          *)
(*                                                                         *)
(* A room session is a number: 1 for the first room the process opens or   *)
(* joins, 2 for the next, and so on.  An option holding the session's      *)
(* sender or welcome event is that number, 0 standing for None.            *)
(*                                                                         *)
(* Threads interleave at the code's await points and critical sections: a  *)
(* step of the model is what one task does between two of them.            *)
(***************************************************************************)
EXTENDS Integers, Sequences

CONSTANTS
  Topics,       \* gossip topics: blake3 of a room name
  LocalMsgs,    \* texts the local browsers type
  RemoteMsgs,   \* chat messages authored by remote peers
  TopicOf,      \* the topic a remote message was broadcast on
  Clients,      \* WebSocket connections of the bridge
  CmdCap,       \* capacity of the cmd_tx channel (4 in the code)
  OutCap,       \* capacity of a room's outbound channel (64 in the code)
  MaxHistory,   \* MAX_HISTORY (500 in the code)
  MaxSessions,  \* bound: rooms started in a behaviour
  NoTopic,      \* the topic of a command without one, and of a bad ticket
  NoMsg         \* no message

ASSUME ServeAssumption ==
  /\ CmdCap \in Nat \ {0}
  /\ OutCap \in Nat \ {0}
  /\ MaxHistory \in Nat \ {0}
  /\ MaxSessions \in Nat
  /\ TopicOf \in [RemoteMsgs -> Topics]
  /\ LocalMsgs \cap RemoteMsgs = {}
  /\ NoTopic \notin Topics
  /\ NoMsg \notin LocalMsgs \cup RemoteMsgs

Sessions == 1 .. MaxSessions
Msgs     == LocalMsgs \cup RemoteMsgs

RoomClosed == [frame |-> "room_closed", msg |-> NoMsg]
Chat(m)    == [frame |-> "chat", msg |-> m]

\* RoomCommand.  A join whose ticket does not parse carries NoTopic.
Commands ==
  [cmd : {"open", "join"}, topic : Topics]
    \cup [cmd : {"join", "leave", "shutdown"}, topic : {NoTopic}]

StartsRoom(c) == c.topic # NoTopic

VARIABLES
  pc,        \* where the peer loop is
  cur,       \* the current session, or the last one between rooms
  rooms,     \* the role and the topic of each session
  exit,      \* the RoomExit of the room being left
  cmdq,      \* the cmd_tx / cmd_rx channel
  bridgeUp,  \* the bridge task, which owns the cmd_tx senders, is alive
  ctrlc      \* ctrl-c has fired (a sticky watch channel)

VARIABLES
  history,   \* ChatHub.history; `by` (auxiliary) is the session that pushed
  welcome,   \* ChatHub.welcome
  outbound   \* ChatHub.outbound

VARIABLES
  chan,      \* the outbound channel of each session
  sendTask,  \* send_handle of each session
  hold,      \* the message a send task has pushed and not yet broadcast
  recvTask,  \* recv_handle of each session
  seen,      \* the nonces each recv_loop has seen
  held,      \* a body a bridge handler is sending, with its cloned sender
  typed      \* (auxiliary) the texts typed and the session each was typed in

VARIABLES
  sent,      \* the frames broadcast over gossip, and by which session
  lastEv,    \* the last room event put on event_tx
  announcing \* sessions with an announce_room whose room_sd_tx is silent

loopVars == <<pc, cur, rooms, exit, cmdq, bridgeUp, ctrlc>>
hubVars  == <<history, welcome, outbound>>
taskVars == <<chan, sendTask, hold, recvTask, seen>>
textVars == <<held, typed>>
outVars  == <<sent, lastEv, announcing>>
vars     == <<loopVars, hubVars, taskVars, textVars, outVars>>

NoHeld == [sess |-> 0, msg |-> NoMsg]
NoRoom == [host |-> FALSE, topic |-> NoTopic]

Running == pc \notin {"exited", "crashed"}

Init ==
  /\ pc = "top" /\ cur = 0 /\ exit = "none" /\ cmdq = <<>>
  /\ rooms = [s \in Sessions |-> NoRoom]
  /\ bridgeUp = TRUE /\ ctrlc = FALSE
  /\ history = <<>> /\ welcome = 0 /\ outbound = 0
  /\ chan = [s \in Sessions |-> <<>>]
  /\ sendTask = [s \in Sessions |-> "none"]
  /\ hold = [s \in Sessions |-> NoMsg]
  /\ recvTask = [s \in Sessions |-> "none"]
  /\ seen = [s \in Sessions |-> {}]
  /\ held = [c \in Clients |-> NoHeld] /\ typed = {}
  /\ sent = {} /\ lastEv = [type |-> "none", by |-> 0]
  /\ announcing = {}

-----------------------------------------------------------------------------
(* ChatHub::push: append under the history lock and drop the oldest entries *)
(* beyond MAX_HISTORY.  The live fan-out is the bridge's module.            *)

TrimForgotten(h) == h   \* fault: nothing is drained

Trim(h) ==
  IF Len(h) > MaxHistory THEN SubSeq(h, Len(h) - MaxHistory + 1, Len(h)) ELSE h

Push(s, m) == history' = Trim(Append(history, [by |-> s, msg |-> m]))

-----------------------------------------------------------------------------
(* The bridge's handle_client, as far as it feeds this process.             *)

\* A command parsed by the bridge is sent on cmd_tx; a full channel blocks
\* the handler, which is this action being disabled.
SendCommand(c) ==
  /\ Running /\ bridgeUp
  /\ Len(cmdq) < CmdCap
  /\ StartsRoom(c) => cur + Len(SelectSeq(cmdq, StartsRoom)) < MaxSessions
  /\ cmdq' = Append(cmdq, c)
  /\ UNCHANGED <<pc, cur, rooms, exit, bridgeUp, ctrlc>>
  /\ UNCHANGED <<hubVars, taskVars, textVars, outVars>>

\* hub.outbound_sender(): clone the live sender; no room, the text is dropped.
TakeSender(k, m) ==
  /\ Running /\ bridgeUp
  /\ held[k] = NoHeld /\ \A t \in typed : t.msg # m
  /\ typed' = typed \cup {[by |-> outbound, msg |-> m]}
  /\ held' = IF outbound = 0 THEN held
             ELSE [held EXCEPT ![k] = [sess |-> outbound, msg |-> m]]
  /\ UNCHANGED <<loopVars, hubVars, taskVars, outVars>>

\* Fault: the sender is looked up again when the text goes into the channel.
SendBodyLate(k) ==
  LET s == IF outbound = 0 THEN held[k].sess ELSE outbound IN
  /\ Running /\ held[k] # NoHeld /\ Len(chan[s]) < OutCap
  /\ chan' = [chan EXCEPT ![s] = Append(@, held[k].msg)]
  /\ held' = [held EXCEPT ![k] = NoHeld]
  /\ UNCHANGED <<loopVars, hubVars, sendTask, hold, recvTask, seen, typed, outVars>>

\* tx.send(body).await: waits for room in the channel, fails silently once
\* the receiver is gone, and gives the cloned sender back.
SendBody(k) ==
  LET s == held[k].sess IN
  /\ Running /\ held[k] # NoHeld
  /\ \/ /\ sendTask[s] = "done"
        /\ UNCHANGED chan
     \/ /\ sendTask[s] # "done" /\ Len(chan[s]) < OutCap
        /\ chan' = [chan EXCEPT ![s] = Append(@, held[k].msg)]
  /\ held' = [held EXCEPT ![k] = NoHeld]
  /\ UNCHANGED <<loopVars, hubVars, sendTask, hold, recvTask, seen, typed, outVars>>

\* serve() returns early on a bind or accept error; its client tasks and
\* their senders go with it.
BridgeFails ==
  /\ Running /\ bridgeUp
  /\ bridgeUp' = FALSE
  /\ held' = [k \in Clients |-> NoHeld]
  /\ UNCHANGED <<pc, cur, rooms, exit, cmdq, ctrlc>>
  /\ UNCHANGED <<hubVars, taskVars, typed, outVars>>

\* The ctrl-c watcher task sends once on the watch channel.
CtrlC ==
  /\ Running /\ ~ctrlc
  /\ ctrlc' = TRUE
  /\ UNCHANGED <<pc, cur, rooms, exit, cmdq, bridgeUp>>
  /\ UNCHANGED <<hubVars, taskVars, textVars, outVars>>

-----------------------------------------------------------------------------
(* The tasks of run_gossip.  They are spawned, so they go on when the future *)
(* that spawned them is dropped.                                             *)

\* One turn of send_handle: take a body, push it, and wait in broadcast.  An
\* aborted task still runs until it next yields.
SendTurn(s) ==
  /\ Running
  /\ sendTask[s] \in {"run", "aborted"}
  /\ hold[s] = NoMsg /\ chan[s] # <<>>
  /\ Push(s, Head(chan[s]))
  /\ hold' = [hold EXCEPT ![s] = Head(chan[s])]
  /\ chan' = [chan EXCEPT ![s] = Tail(@)]
  /\ UNCHANGED <<loopVars, welcome, outbound, sendTask, recvTask, seen, textVars, outVars>>

\* Fault: a broadcast error ends the task instead of being logged.
BroadcastEndsTask(s) ==
  /\ Running
  /\ sendTask[s] \in {"run", "aborted"} /\ hold[s] # NoMsg
  /\ sendTask' = [sendTask EXCEPT ![s] = "done"]
  /\ hold' = [hold EXCEPT ![s] = NoMsg]
  /\ UNCHANGED <<loopVars, hubVars, chan, recvTask, seen, textVars, outVars>>

\* "Sent" is handed to gossip: an error is logged, and the task goes on.
Broadcast(s) ==
  /\ Running
  /\ sendTask[s] \in {"run", "aborted"} /\ hold[s] # NoMsg
  /\ sent' = sent \cup {[by |-> s, frame |-> Chat(hold[s])]}
  /\ hold' = [hold EXCEPT ![s] = NoMsg]
  /\ UNCHANGED <<loopVars, hubVars, chan, sendTask, recvTask, seen, textVars, lastEv, announcing>>

\* outbound_rx.recv() returns None: drained, and no sender is left.
SendEnds(s) ==
  /\ Running
  /\ sendTask[s] = "run" /\ hold[s] = NoMsg /\ chan[s] = <<>>
  /\ outbound # s /\ \A k \in Clients : held[k].sess # s
  /\ sendTask' = [sendTask EXCEPT ![s] = "done"]
  /\ UNCHANGED <<loopVars, hubVars, chan, hold, recvTask, seen, textVars, outVars>>

\* The abort takes effect at an await: what the task held is dropped.
SendCancelled(s) ==
  /\ Running
  /\ sendTask[s] = "aborted"
  /\ sendTask' = [sendTask EXCEPT ![s] = "done"]
  /\ hold' = [hold EXCEPT ![s] = NoMsg]
  /\ chan' = [chan EXCEPT ![s] = <<>>]
  /\ UNCHANGED <<loopVars, hubVars, recvTask, seen, textVars, outVars>>

\* Fault: a message is pushed before its nonce is looked up.
RecvChatAgain(s, m) ==
  /\ Running
  /\ recvTask[s] = "run" /\ TopicOf[m] = rooms[s].topic
  /\ Push(s, m)
  /\ seen' = [seen EXCEPT ![s] = @ \cup {m}]
  /\ UNCHANGED <<loopVars, welcome, outbound, chan, sendTask, hold, recvTask, textVars, outVars>>

\* Event::Received(Chat).  Gossip may deliver late, out of order and again.
RecvChat(s, m) ==
  /\ Running
  /\ recvTask[s] = "run" /\ TopicOf[m] = rooms[s].topic
  /\ seen' = [seen EXCEPT ![s] = @ \cup {m}]
  /\ IF m \in seen[s] THEN UNCHANGED history ELSE Push(s, m)
  /\ UNCHANGED <<loopVars, welcome, outbound, chan, sendTask, hold, recvTask, textVars, outVars>>

\* recv_loop returns.
RecvReturns(s) ==
  /\ Running
  /\ recvTask[s] = "run"
  /\ recvTask' = [recvTask EXCEPT ![s] = "done"]
  /\ seen' = [seen EXCEPT ![s] = {}]
  /\ UNCHANGED <<loopVars, hubVars, chan, sendTask, hold, textVars, sent, announcing>>

\* Event::Received(RoomClosed).
RecvClosed(s) ==
  /\ RecvReturns(s)
  /\ lastEv' = [type |-> "room_closed", by |-> s]

\* The gossip stream ends or fails.
RecvEnds(s) == RecvReturns(s) /\ UNCHANGED lastEv

-----------------------------------------------------------------------------
(* The peer loop.                                                           *)

LoopTop ==
  /\ pc = "top"
  /\ pc' = IF ctrlc THEN "draining" ELSE "idle"
  /\ UNCHANGED <<cur, rooms, exit, cmdq, bridgeUp, ctrlc>>
  /\ UNCHANGED <<hubVars, taskVars, textVars, outVars>>

IdleCtrlC ==
  /\ pc = "idle" /\ ctrlc
  /\ pc' = "draining"
  /\ UNCHANGED <<cur, rooms, exit, cmdq, bridgeUp, ctrlc>>
  /\ UNCHANGED <<hubVars, taskVars, textVars, outVars>>

\* cmd_rx.recv() is None: the bridge is gone and the channel is drained.
IdleBridgeGone ==
  /\ pc = "idle" /\ ~bridgeUp /\ cmdq = <<>>
  /\ pc' = "draining"
  /\ UNCHANGED <<cur, rooms, exit, cmdq, bridgeUp, ctrlc>>
  /\ UNCHANGED <<hubVars, taskVars, textVars, outVars>>

\* A leave or shutdown with no room, or a ticket that does not parse.
IdleIgnores ==
  /\ pc = "idle" /\ cmdq # <<>> /\ ~StartsRoom(Head(cmdq))
  /\ cmdq' = Tail(cmdq)
  /\ pc' = "top"
  /\ UNCHANGED <<cur, rooms, exit, bridgeUp, ctrlc>>
  /\ UNCHANGED <<hubVars, taskVars, textVars, outVars>>

\* ChatHub::start_room: fresh history, no welcome, a fresh outbound channel.
StartRoom(s) ==
  /\ history' = <<>>
  /\ welcome' = 0
  /\ outbound' = s

IdleStarts ==
  /\ pc = "idle" /\ cmdq # <<>> /\ StartsRoom(Head(cmdq))
  /\ cur < MaxSessions   \* what SendCommand's bound leaves room for
  /\ cur' = cur + 1
  /\ rooms' = [rooms EXCEPT ![cur + 1] =
                 [host |-> Head(cmdq).cmd = "open", topic |-> Head(cmdq).topic]]
  /\ StartRoom(cur + 1)
  /\ cmdq' = Tail(cmdq)
  /\ pc' = "subscribe"
  /\ UNCHANGED <<exit, bridgeUp, ctrlc, taskVars, textVars, outVars>>

\* gossip.subscribe answered: set_welcome, and a host spawns announce_room.
Subscribed ==
  /\ pc = "subscribe"
  /\ welcome' = cur
  /\ lastEv' = [type |-> IF rooms[cur].host THEN "room_ready" ELSE "room_joined",
                by   |-> cur]
  /\ announcing' = IF rooms[cur].host THEN announcing \cup {cur} ELSE announcing
  /\ pc' = "room"
  /\ UNCHANGED <<cur, rooms, exit, cmdq, bridgeUp, ctrlc>>
  /\ UNCHANGED <<history, outbound, taskVars, textVars, sent>>

\* Every task and the process's memory go with the runtime.
ProcessEnds(last) ==
  /\ pc' = last
  /\ history' = <<>> /\ welcome' = 0 /\ outbound' = 0
  /\ recvTask' = [s \in Sessions |-> "done"]
  /\ sendTask' = [s \in Sessions |-> "done"]
  /\ seen' = [s \in Sessions |-> {}]
  /\ announcing' = {}
  /\ cmdq' = <<>>
  /\ chan' = [s \in Sessions |-> <<>>]
  /\ hold' = [s \in Sessions |-> NoMsg]
  /\ held' = [k \in Clients |-> NoHeld]
  /\ bridgeUp' = FALSE
  /\ UNCHANGED <<cur, rooms, exit, ctrlc, typed, sent, lastEv>>

\* gossip.subscribe failed: the `?` returns from main.
SubscribeFails == pc = "subscribe" /\ ProcessEnds("crashed")

\* run_room's select! polls run_gossip for the first time.
SpawnGossip ==
  /\ pc = "room" /\ recvTask[cur] = "none"
  /\ recvTask' = [recvTask EXCEPT ![cur] = "run"]
  /\ sendTask' = [sendTask EXCEPT ![cur] = "run"]
  /\ UNCHANGED <<loopVars, hubVars, chan, hold, seen, textVars, outVars>>

\* Fault: only a shutdown or a ctrl-c is announced to the guests.
LeaveSelectSilent(reason) ==
  /\ exit' = reason
  /\ pc' = IF rooms[cur].host /\ reason # "leave" THEN "closing" ELSE "after"
  /\ UNCHANGED <<cur, rooms, bridgeUp, ctrlc, hubVars, seen, textVars, outVars>>

\* The select! is over.  A host goes on to broadcast RoomClosed.
LeaveSelect(reason) ==
  /\ exit' = reason
  /\ pc' = IF rooms[cur].host THEN "closing" ELSE "after"
  /\ UNCHANGED <<cur, rooms, bridgeUp, ctrlc, hubVars, seen, textVars, outVars>>

\* run_gossip returned because recv_handle finished; it aborts send_handle.
\* (send_handle cannot finish first: the hub keeps its sender.)
GossipEnds ==
  /\ pc = "room" /\ recvTask[cur] = "done"
  /\ sendTask' = [sendTask EXCEPT ![cur] = "aborted"]
  /\ LeaveSelect("leave")
  /\ UNCHANGED <<cmdq, chan, hold, recvTask>>

\* Another branch won and run_gossip's future is dropped.  Polled before, its
\* JoinHandles detach the two tasks; never polled, the channels are dropped.
DropGossip ==
  IF recvTask[cur] = "none"
    THEN /\ recvTask' = [recvTask EXCEPT ![cur] = "done"]
         /\ sendTask' = [sendTask EXCEPT ![cur] = "done"]
         /\ chan' = [chan EXCEPT ![cur] = <<>>]
         /\ UNCHANGED hold
    ELSE UNCHANGED <<recvTask, sendTask, chan, hold>>

\* Fault: only a host's room watches ctrl-c.
RoomCtrlCHostOnly ==
  /\ pc = "room" /\ ctrlc /\ rooms[cur].host
  /\ DropGossip /\ LeaveSelect("ctrlc")
  /\ UNCHANGED cmdq

RoomCtrlC ==
  /\ pc = "room" /\ ctrlc
  /\ DropGossip /\ LeaveSelect("ctrlc")
  /\ UNCHANGED cmdq

\* Any command ends the room; only shutdown also ends the process.
RoomCommand ==
  /\ pc = "room" /\ cmdq # <<>>
  /\ cmdq' = Tail(cmdq)
  /\ DropGossip
  /\ LeaveSelect(IF Head(cmdq).cmd = "shutdown" THEN "shutdown" ELSE "leave")

RoomBridgeGone ==
  /\ pc = "room" /\ ~bridgeUp /\ cmdq = <<>>
  /\ DropGossip /\ LeaveSelect("leave")
  /\ UNCHANGED cmdq

\* Only a host gets here: RoomClosed is handed to gossip on the clone of the sender,
\* an error is ignored, and the loop sleeps 150 ms.
CloseBroadcast ==
  /\ pc = "closing"
  /\ sent' = sent \cup {[by |-> cur, frame |-> RoomClosed]}
  /\ pc' = "after"
  /\ UNCHANGED <<cur, rooms, exit, cmdq, bridgeUp, ctrlc>>
  /\ UNCHANGED <<hubVars, taskVars, textVars, lastEv, announcing>>

\* Fault: the sender stays in the hub between rooms.
EndRoomKeepsSender ==
  /\ welcome' = 0
  /\ history' = <<>>
  /\ UNCHANGED outbound

\* ChatHub::end_room.
EndRoom ==
  /\ outbound' = 0
  /\ welcome' = 0
  /\ history' = <<>>

\* RoomExit::Leave: deregister, clear the hub, tell the clients.
RoomLeft ==
  /\ pc = "after" /\ exit = "leave"
  /\ announcing' = announcing \ {cur}
  /\ EndRoom
  /\ lastEv' = [type |-> "room_left", by |-> cur]
  /\ pc' = "top" /\ exit' = "none"
  /\ UNCHANGED <<cur, rooms, cmdq, bridgeUp, ctrlc, taskVars, textVars, sent>>

\* Fault: a shutdown leaves deregistering to the end of the process.
RoomExitsListed ==
  /\ pc = "after" /\ exit # "leave"
  /\ pc' = "draining" /\ exit' = "none"
  /\ UNCHANGED <<cur, rooms, cmdq, bridgeUp, ctrlc>>
  /\ UNCHANGED <<hubVars, taskVars, textVars, outVars>>

\* RoomExit::Shutdown and CtrlC: deregister and break the loop.
RoomExits ==
  /\ pc = "after" /\ exit # "leave"
  /\ announcing' = announcing \ {cur}
  /\ pc' = "draining" /\ exit' = "none"
  /\ UNCHANGED <<cur, rooms, cmdq, bridgeUp, ctrlc>>
  /\ UNCHANGED <<hubVars, taskVars, textVars, sent, lastEv>>

\* The bridge has had its 5 s, the router is shut down and main returns.
Drained == pc = "draining" /\ ProcessEnds("exited")

-----------------------------------------------------------------------------

PeerLoop ==
  \/ LoopTop \/ IdleCtrlC \/ IdleBridgeGone \/ IdleIgnores \/ IdleStarts
  \/ Subscribed \/ SubscribeFails \/ SpawnGossip
  \/ GossipEnds \/ RoomCtrlC \/ RoomCommand \/ RoomBridgeGone
  \/ CloseBroadcast \/ RoomLeft \/ RoomExits \/ Drained

Bridge ==
  \/ \E c \in Commands : SendCommand(c)
  \/ \E k \in Clients, m \in LocalMsgs : TakeSender(k, m)
  \/ \E k \in Clients : SendBody(k)
  \/ BridgeFails

SendTask(s) == SendTurn(s) \/ Broadcast(s) \/ SendEnds(s) \/ SendCancelled(s)

RecvTask(s) ==
  RecvClosed(s) \/ RecvEnds(s) \/ \E m \in RemoteMsgs : RecvChat(s, m)

GossipTasks == \E s \in Sessions : SendTask(s) \/ RecvTask(s)

Next == PeerLoop \/ Bridge \/ GossipTasks \/ CtrlC

Spec == Init /\ [][Next]_vars

\* The tokio runtime polls every ready task; nothing is assumed of browsers,
\* of remote peers or of ctrl-c.
Fairness ==
  /\ WF_vars(PeerLoop)
  /\ \A k \in Clients : WF_vars(SendBody(k))
  /\ \A s \in Sessions : WF_vars(SendTask(s))

FairSpec == Spec /\ Fairness

-----------------------------------------------------------------------------
(* Properties.                                                              *)

PcStates == {"top", "idle", "subscribe", "room", "closing", "after",
             "draining", "exited", "crashed"}

\* Every variable keeps its type; the history never exceeds MAX_HISTORY and
\* the two channels never exceed their capacities.
TypeOK ==
  /\ pc \in PcStates /\ cur \in 0 .. MaxSessions
  /\ pc \in {"subscribe", "room", "closing", "after"} => cur \in Sessions
  /\ rooms \in [Sessions -> [host : BOOLEAN, topic : Topics \cup {NoTopic}]]
  /\ exit \in {"none", "leave", "shutdown", "ctrlc"}
  /\ cmdq \in Seq(Commands) /\ Len(cmdq) <= CmdCap
  /\ bridgeUp \in BOOLEAN /\ ctrlc \in BOOLEAN
  /\ history \in Seq([by : Sessions, msg : Msgs]) /\ Len(history) <= MaxHistory
  /\ welcome \in 0 .. MaxSessions /\ outbound \in 0 .. MaxSessions
  /\ chan \in [Sessions -> Seq(LocalMsgs)]
  /\ \A s \in Sessions : Len(chan[s]) <= OutCap
  /\ sendTask \in [Sessions -> {"none", "run", "aborted", "done"}]
  /\ hold \in [Sessions -> LocalMsgs \cup {NoMsg}]
  /\ recvTask \in [Sessions -> {"none", "run", "done"}]
  /\ seen \in [Sessions -> SUBSET RemoteMsgs]
  /\ held \in [Clients -> {NoHeld} \cup [sess : Sessions, msg : LocalMsgs]]
  /\ typed \subseteq [by : 0 .. MaxSessions, msg : LocalMsgs]
  /\ sent \subseteq [by : Sessions, frame : {RoomClosed} \cup {Chat(m) : m \in LocalMsgs}]
  /\ lastEv \in [type : {"none", "room_ready", "room_joined", "room_left", "room_closed"},
                 by : 0 .. MaxSessions]
  /\ announcing \subseteq Sessions

\* The hub offers a sender exactly while a session is being set up or runs,
\* and a welcome exactly while one runs, always of the current session: a
\* client that connects between rooms gets neither, and its texts go nowhere.
HubFollowsLoop ==
  /\ pc \in {"top", "idle"} => outbound = 0 /\ welcome = 0
  /\ pc = "subscribe" => outbound = cur /\ welcome = 0
  /\ pc \in {"room", "closing", "after"} => outbound = cur /\ welcome = cur

\* The room the process advertises is the one it hosts now: announce_room is
\* told to stop on every way out of the room, not only on a leave.
AnnouncesOnlyItsRoom ==
  \A s \in announcing :
    s = cur /\ rooms[s].host /\ pc \in {"room", "closing", "after"}

\* Session s got as far as a room and run_room has returned or is about to.
Left(s) ==
  \/ s < cur
  \/ s = cur /\ pc \notin {"subscribe", "room", "closing", "crashed"}

\* RoomClosed goes out for every session this process hosted, whichever way
\* it left the room, once run_room is through, and never for one it joined.
CloseAnnounced ==
  \A s \in Sessions :
    [by |-> s, frame |-> RoomClosed] \in sent <=> Left(s) /\ rooms[s].host

\* A text goes out only on the gossip topic of the room it was typed in,
\* however long its handler waits on the sender it cloned while the loop
\* leaves that room and starts another.
TextStaysInRoom ==
  \A f \in sent :
    f.frame # RoomClosed => [by |-> f.by, msg |-> f.frame.msg] \in typed

\* Gossip delivers a message again, and one receiver pushes it once.
PushedOnce ==
  \A i, j \in 1 .. Len(history) : history[i] = history[j] => i = j

Over(s) == s < cur \/ (s = cur /\ pc \in {"top", "idle", "draining", "exited", "crashed"})

\* A ctrl-c ends the process whatever the loop is doing when it comes, also
\* in the gap between the idle select and run_room.
CtrlCStops == ctrlc ~> ~Running

\* No send task outlives its session for ever: end_room drops the last
\* sender, except the clones handlers hold, and those are given back.
SendTaskEnds ==
  \A s \in Sessions : Over(s) ~> sendTask[s] \in {"none", "done"}

\* A text the channel accepted is broadcast, also when the room is left first,
\* unless the session's gossip stream never started or ended and took the send
\* task with it, or the process stopped.
AcceptedIsBroadcast ==
  \A s \in Sessions, m \in LocalMsgs :
    (\E i \in 1 .. Len(chan[s]) : chan[s][i] = m)
      ~> \/ [by |-> s, frame |-> Chat(m)] \in sent
         \/ recvTask[s] = "done" \/ ~Running
-----------------------------------------------------------------------------
(* The lifecycle of rooms this process implements.                          *)

\* The loop's places as phases: a host's room is open until RoomClosed is out.
PhaseOf ==
  [p \in PcStates |->
     CASE p \in {"top", "idle"}       -> "idle"
       [] p = "subscribe"             -> "setup"
       [] p \in {"room", "closing"}   -> "open"
       [] p = "after"                 -> "left"
       [] p = "draining"              -> "ending"
       [] p \in {"exited", "crashed"} -> "stopped"]

Lifecycle ==
  INSTANCE RoomLifecycle WITH
    phase <- PhaseOf[pc], session <- cur,
    host <- IF cur = 0 THEN FALSE ELSE rooms[cur].host,
    offered <- welcome, accepting <- outbound, listed <- announcing,
    told <- {s \in Sessions : [by |-> s, frame |-> RoomClosed] \in sent}

\* The process keeps what RoomLifecycle promises: every step of the loop, the
\* bridge and the tasks, of this room or of one long left, is a step of a room's
\* life or none.
ImplementsLifecycle == Lifecycle!Spec

-----------------------------------------------------------------------------
(* What the comments say of the process, and the runs refute.               *)

\* "clears history + welcome so the next client starts fresh" (end_room):
\* between rooms the history is empty, and a room's history is its own.
\* run_room drops run_gossip's future on a leave, which detaches the receive
\* task instead of stopping it, and that task goes on pushing.
FreshHistory ==
  /\ pc \in {"top", "idle"} => history = <<>>
  /\ pc \in {"room", "closing", "after"} =>
       \A i \in 1 .. Len(history) : history[i].by = cur
=============================================================================
