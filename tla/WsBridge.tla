------------------------------ MODULE WsBridge ------------------------------
(***************************************************************************)
(* The WebSocket bridge towards the browsers: handle_client of             *)
(* src/ws_bridge.rs (replay, then live), the ChatHub it reads and whose    *)
(* two broadcast channels it subscribes to, the view each browser builds   *)
(* from what it is sent (ChatSocket), and what its page shows of the view  *)
(* (MessageList).                                                          *)
(*                                                                         *)
(* The room and its two tasks appear as the calls they make on the hub, in *)
(* their order; ChatServe models when they make them.  Messages are        *)
(* numbered by (ts, nonce) and pushed in any order.                        *)
(***************************************************************************)
EXTENDS MessageList, FiniteSets

CONSTANTS
  Clients,   \* browsers
  MaxMsgs,   \* bound: messages pushed in a behaviour
  MaxRooms,  \* bound: rooms started in a behaviour
  MaxConns,  \* bound: connections a browser makes
  MaxNet,    \* bound: telemetry events in a behaviour
  NetEvents, \* the telemetry events that may occur
  LiveCap,   \* capacity of hub.tx (256 in the code)
  EventCap   \* capacity of event_tx (512 in the code)

\* The kinds of telemetry: the events of the protocol that say nothing of a room.
NetTypes ==
  {"peer_up", "peer_down", "msg_sent", "msg_recv", "net_report", "relay_pong",
   "stun_scheduled", "relay_connected", "path_selected", "conn_established"}

ASSUME BridgeAssumption ==
  /\ {MaxMsgs, MaxRooms, MaxConns, MaxNet} \subseteq Nat
  /\ NetEvents \subseteq [type : NetTypes, msg : {0}, ts : Nat, ticket : {0}]
  /\ {LiveCap, EventCap} \subseteq Nat \ {0}
  /\ DOMAIN Ts = 1 .. MaxMsgs /\ DOMAIN Nonce = 1 .. MaxMsgs

Msgs == 1 .. MaxMsgs

VARIABLES
  phase,    \* how far the current room is in its calls on the hub
  rooms,    \* rooms started so far; the last one is the current one
  welcome,  \* hub.welcome: 0, or the room whose event is stored
  history,  \* hub.history
  pushed,   \* messages pushed so far
  fanout,   \* messages in the history whose push is about to tx.send them
  detached, \* receive tasks that outlive their room, left by a command
  misled,   \* (auxiliary) the last room in which one of them reported a close
  net       \* bound: telemetry events so far

VARIABLES
  conn,     \* where each browser's handler is
  conns,    \* bound: connections made
  liveQ,    \* live_rx: what is still to be received from hub.tx
  eventQ,   \* event_rx: what is still to be received from event_tx
  lagged,   \* (auxiliary) a receiver lagged on this connection
  wire,     \* frames sent and not yet handled by the browser
  view      \* the browser's state

hubVars    == <<phase, rooms, welcome, history, pushed, fanout, detached,
                misled, net>>
clientVars == <<conn, conns, liveQ, eventQ, lagged, wire, view>>
vars       == <<hubVars, clientVars>>

Init ==
  /\ phase = "idle" /\ rooms = 0 /\ welcome = 0 /\ history = <<>>
  /\ pushed = {} /\ fanout = {} /\ detached = 0 /\ misled = 0 /\ net = 0
  /\ conn = [c \in Clients |-> "off"]
  /\ conns = [c \in Clients |-> 0]
  /\ liveQ = [c \in Clients |-> <<>>]
  /\ eventQ = [c \in Clients |-> <<>>]
  /\ lagged = [c \in Clients |-> FALSE]
  /\ wire = [c \in Clients |-> <<>>]
  /\ view = [c \in Clients |-> Connect]

-----------------------------------------------------------------------------
(* The two broadcast channels: a send reaches every receiver, and one that   *)
(* is full loses its oldest value.                                           *)

Full(q, cap) == Len(q) = cap

\* Fault: nothing makes room for a new value.
OfferUnbounded(q, x, cap) == Append(q, x)

Offer(q, x, cap) == Append(IF Full(q, cap) THEN Tail(q) ELSE q, x)

\* Fault: the handler subscribes to the messages once the replay is over.
HasLiveLate(c) == conn[c] = "live"

HasLive(c)   == conn[c] \notin {"off", "accepted"}
HasEvents(c) == conn[c] \notin {"off", "accepted", "half"}

SendLive(m) ==
  /\ liveQ' = [c \in Clients |->
                 IF HasLive(c) THEN Offer(liveQ[c], Message(m), LiveCap) ELSE liveQ[c]]
  /\ lagged' = [c \in Clients |->
                  lagged[c] \/ (HasLive(c) /\ Full(liveQ[c], LiveCap))]
  /\ UNCHANGED eventQ

SendEvent(e) ==
  /\ eventQ' = [c \in Clients |->
                  IF HasEvents(c) THEN Offer(eventQ[c], e, EventCap) ELSE eventQ[c]]
  /\ lagged' = [c \in Clients |->
                  lagged[c] \/ (HasEvents(c) /\ Full(eventQ[c], EventCap))]
  /\ UNCHANGED liveQ

Quiet == UNCHANGED <<liveQ, eventQ, lagged>>
SockVars == <<conn, conns, wire, view>>
TaskVars == <<detached, misled>>

-----------------------------------------------------------------------------
(* The room's calls on the hub, in the order the peer loop makes them.      *)

StartRoom ==
  /\ phase = "idle" /\ rooms < MaxRooms
  /\ phase' = "starting" /\ rooms' = rooms + 1
  /\ history' = <<>> /\ welcome' = 0
  /\ Quiet /\ UNCHANGED <<pushed, fanout, TaskVars, net, SockVars>>

\* set_welcome stores the event for browsers to come ...
StoreWelcome ==
  /\ phase = "starting"
  /\ phase' = "welcoming" /\ welcome' = rooms
  /\ Quiet /\ UNCHANGED <<rooms, history, pushed, fanout, TaskVars, net, SockVars>>

\* ... and sends it to the browsers that are there.
SendWelcome ==
  /\ phase = "welcoming"
  /\ phase' = "open"
  /\ SendEvent(Event("room_ready"))
  /\ UNCHANGED <<rooms, welcome, history, pushed, fanout, TaskVars, net, SockVars>>

\* recv_loop gets RoomClosed from the host and returns, which ends the room.
HostCloses ==
  /\ phase = "open"
  /\ phase' = "closing"
  /\ SendEvent(Event("room_closed"))
  /\ UNCHANGED <<rooms, welcome, history, pushed, fanout, TaskVars, net, SockVars>>

\* A receive task that outlives its room gets RoomClosed from that room's host.
LateClose ==
  /\ detached > 0
  /\ detached' = detached - 1
  /\ misled' = IF phase = "open" THEN rooms ELSE misled
  /\ SendEvent(Event("room_closed"))
  /\ UNCHANGED <<phase, rooms, welcome, history, pushed, fanout, net, SockVars>>

\* A room left by a command leaves its receive task behind.
TaskStays == detached' = IF phase = "open" THEN detached + 1 ELSE detached

\* Fault: the room's event stays in the hub after the room.
EndWelcomeKept ==
  /\ phase \in {"open", "closing"}
  /\ phase' = "ending" /\ TaskStays
  /\ Quiet /\ UNCHANGED <<rooms, welcome, history, pushed, fanout, misled, net, SockVars>>

\* end_room, one lock after the other.
EndWelcome ==
  /\ phase \in {"open", "closing"}
  /\ phase' = "ending" /\ welcome' = 0 /\ TaskStays
  /\ Quiet /\ UNCHANGED <<rooms, history, pushed, fanout, misled, net, SockVars>>

EndHistory ==
  /\ phase = "ending"
  /\ phase' = "ended" /\ history' = <<>>
  /\ Quiet /\ UNCHANGED <<rooms, welcome, pushed, fanout, TaskVars, net, SockVars>>

RoomLeft ==
  /\ phase = "ended"
  /\ phase' = "idle"
  /\ SendEvent(Event("room_left"))
  /\ UNCHANGED <<rooms, welcome, history, pushed, fanout, TaskVars, net, SockVars>>

\* ChatHub::push by a room's send or receive task, possibly one that outlives
\* its room (MaxMsgs is below MAX_HISTORY, so nothing is drained): append under the lock ...
\* A message comes to one task: two on one topic, each with its own seen set, would
\* push it twice, which a browser's nonces hide.
AppendHistory(m) ==
  /\ rooms > 0 /\ m \notin pushed
  /\ history' = Append(history, m)
  /\ pushed' = pushed \cup {m} /\ fanout' = fanout \cup {m}
  /\ Quiet /\ UNCHANGED <<phase, rooms, welcome, TaskVars, net, SockVars>>

\* ... then send.  The two tasks may send in another order than they append.
Fanout(m) ==
  /\ m \in fanout
  /\ fanout' = fanout \ {m}
  /\ SendLive(m)
  /\ UNCHANGED <<phase, rooms, welcome, history, pushed, TaskVars, net, SockVars>>

\* Neighbors come and go in a room, as its receive task reports; telemetry shares the
\* event channel.
Telemetry(e) ==
  /\ net < MaxNet
  /\ e.type \in {"peer_up", "peer_down"} => rooms > 0
  /\ net' = net + 1
  /\ SendEvent(e)
  /\ UNCHANGED <<phase, rooms, welcome, history, pushed, fanout, TaskVars, SockVars>>

-----------------------------------------------------------------------------
(* The browser and its handler.                                             *)

\* connect(): a first connection, a reload or the Reconnect button.
ClientConnects(c) ==
  /\ conn[c] = "off" /\ conns[c] < MaxConns
  /\ conns' = [conns EXCEPT ![c] = @ + 1]
  /\ conn' = [conn EXCEPT ![c] = "accepted"]
  /\ view' = [view EXCEPT ![c] = Connect]
  /\ UNCHANGED <<hubVars, liveQ, eventQ, lagged, wire>>

\* hub.tx.subscribe(), then hub.event_tx.subscribe(), before any reading.
SubscribeLive(c) ==
  /\ conn[c] = "accepted"
  /\ conn' = [conn EXCEPT ![c] = "half"]
  /\ Quiet /\ UNCHANGED <<hubVars, conns, wire, view>>

SubscribeEvents(c) ==
  /\ conn[c] = "half"
  /\ conn' = [conn EXCEPT ![c] = "subscribed"]
  /\ Quiet /\ UNCHANGED <<hubVars, conns, wire, view>>

ReplayWelcome(c) ==
  /\ conn[c] = "subscribed"
  /\ conn' = [conn EXCEPT ![c] = "welcomed"]
  /\ wire' = [wire EXCEPT ![c] =
                IF welcome = 0 THEN @ ELSE Append(@, Event("room_ready"))]
  /\ Quiet /\ UNCHANGED <<hubVars, conns, view>>

\* Fault: the snapshot is sent in the order its messages were pushed.
AsPushed(q, h) == q = h

\* The history h by (ts, nonce), the order of the messages' numbers; none is in it
\* twice.
Sorted(q, h) == ToSet(q) = ToSet(h) /\ \A i, j \in DOMAIN q : i < j => q[i] < q[j]

Burst(q) == [i \in 1 .. Len(q) |-> Message(q[i])]

\* The snapshot is taken once, so the sends of its messages are one step.
ReplayHistory(c) ==
  /\ conn[c] = "welcomed"
  /\ conn' = [conn EXCEPT ![c] = "replayed"]
  /\ \E q \in [1 .. Len(history) -> ToSet(history)] :
       /\ Sorted(q, history)
       /\ wire' = [wire EXCEPT ![c] = @ \o Burst(q)]
  /\ Quiet /\ UNCHANGED <<hubVars, conns, view>>

ReplayComplete(c) ==
  /\ conn[c] = "replayed"
  /\ conn' = [conn EXCEPT ![c] = "live"]
  /\ wire' = [wire EXCEPT ![c] = Append(@, Event("history_complete"))]
  /\ Quiet /\ UNCHANGED <<hubVars, conns, view>>

\* select! takes whichever receiver is ready; a Lagged one carries on.
ForwardLive(c) ==
  /\ conn[c] = "live" /\ liveQ[c] # <<>>
  /\ wire' = [wire EXCEPT ![c] = Append(@, Head(liveQ[c]))]
  /\ liveQ' = [liveQ EXCEPT ![c] = Tail(@)]
  /\ UNCHANGED <<hubVars, conn, conns, eventQ, lagged, view>>

ForwardEvent(c) ==
  /\ conn[c] = "live" /\ eventQ[c] # <<>>
  /\ wire' = [wire EXCEPT ![c] = Append(@, Head(eventQ[c]))]
  /\ eventQ' = [eventQ EXCEPT ![c] = Tail(@)]
  /\ UNCHANGED <<hubVars, conn, conns, liveQ, lagged, view>>

Receive(c) ==
  /\ wire[c] # <<>>
  /\ view' = [view EXCEPT ![c] = OnMessage(@, Head(wire[c]))]
  /\ wire' = [wire EXCEPT ![c] = Tail(@)]
  /\ UNCHANGED <<hubVars, conn, conns, liveQ, eventQ, lagged>>

\* The socket closes or fails: the handler returns and drops its receivers.
Disconnect(c) ==
  /\ conn[c] # "off"
  /\ conn' = [conn EXCEPT ![c] = "off"]
  /\ liveQ' = [liveQ EXCEPT ![c] = <<>>]
  /\ eventQ' = [eventQ EXCEPT ![c] = <<>>]
  /\ lagged' = [lagged EXCEPT ![c] = FALSE]
  /\ wire' = [wire EXCEPT ![c] = <<>>]
  /\ UNCHANGED <<hubVars, conns, view>>

Room ==
  \/ StartRoom \/ StoreWelcome \/ SendWelcome \/ HostCloses \/ LateClose
  \/ EndWelcome \/ EndHistory \/ RoomLeft
  \/ \E m \in Msgs : AppendHistory(m) \/ Fanout(m)
  \/ \E e \in NetEvents : Telemetry(e)

Handler(c) ==
  \/ SubscribeLive(c) \/ SubscribeEvents(c) \/ ReplayWelcome(c)
  \/ ReplayHistory(c) \/ ReplayComplete(c) \/ ForwardLive(c) \/ ForwardEvent(c)

Browser(c) == ClientConnects(c) \/ Receive(c) \/ Disconnect(c)

Next == Room \/ \E c \in Clients : Handler(c) \/ Browser(c)

Spec == Init /\ [][Next]_vars

-----------------------------------------------------------------------------
(* Properties.                                                              *)

EventTypes == {"room_ready", "room_left", "room_closed", "history_complete"}
Frames     == {Event(t) : t \in EventTypes} \cup NetEvents \cup {Message(m) : m \in Msgs}
Phases     == {"idle", "starting", "welcoming", "open", "closing", "ending", "ended"}

\* Types, and neither receiver holds more than its channel does.
TypeOK ==
  /\ phase \in Phases /\ rooms \in 0 .. MaxRooms /\ welcome \in {0, rooms}
  /\ ToSet(history) \subseteq pushed /\ fanout \subseteq pushed /\ pushed \subseteq Msgs
  /\ detached \in 0 .. rooms /\ misled \in 0 .. rooms
  /\ net \in 0 .. MaxNet /\ conns \in [Clients -> 0 .. MaxConns]
  /\ conn \in [Clients -> {"off", "accepted", "half", "subscribed", "welcomed",
                      "replayed", "live"}]
  /\ lagged \in [Clients -> BOOLEAN]
  /\ \A c \in Clients :
       /\ ToSet(liveQ[c]) \cup ToSet(eventQ[c]) \cup ToSet(wire[c]) \subseteq Frames
       /\ Len(liveQ[c]) <= LiveCap /\ Len(eventQ[c]) <= EventCap
       /\ ToSet(view[c].messages) \cup ToSet(view[c].historyBatch) \subseteq Msgs
       /\ ToSet(view[c].events) \subseteq NetEvents /\ Len(view[c].events) <= TraceCap
       /\ view[c].roomState \in RoomStates

\* All that was sent to a connected browser has reached it, and no receiver
\* lagged on the way.
Settled(c) ==
  conn[c] = "live" /\ liveQ[c] = <<>> /\ eventQ[c] = <<>> /\ wire[c] = <<>>

Shown(c) == ToSet(view[c].messages)

\* No message falls between the replay and the live stream: a browser that
\* is in the room shows all of its history, but what is about to be sent.
NoGap ==
  \A c \in Clients :
    Settled(c) /\ ~lagged[c] /\ view[c].roomState = "ready"
      => ToSet(history) \ fanout \subseteq Shown(c)

\* A browser keeps no message twice, however the replay and the live stream
\* overlap, and its first historyCount messages, the replayed ones, in the order
\* of (ts, nonce), whatever order they were pushed in.
KeptInOrder ==
  \A c \in Clients :
    LET kept  == view[c].messages
        count == view[c].historyCount
    IN /\ IsInjective(kept) /\ count <= Len(kept)
       /\ \A i, j \in 1 .. count : i < j => kept[i] < kept[j]

\* A message that is replayed and comes live as well is on the screen, once.
NoDuplicate ==
  \A c \in Clients :
    LET shown == Screen(view[c])
    IN \A m \in Shown(c) :
         \E i \in DOMAIN shown : \A j \in DOMAIN shown : shown[j].msg = m <=> j = i

\* The page shows the burst above the divider in (ts, nonce) order, whatever
\* order the messages were pushed in and although the list sorts them again by
\* a key that keeps little of the nonce.
HistoryInOrder ==
  \A c \in Clients :
    LET shown == HistoryStream(view[c])
    IN \A i, j \in DOMAIN shown :
         i < j /\ shown[i].kind = "message" /\ shown[j].kind = "message"
           => shown[i].msg < shown[j].msg

\* Splitting the peers' comings and goings at the time of the last replayed
\* message neither hides nor doubles one, wherever their times fall.
PillsShown ==
  \A c \in Clients :
    LET shown == Screen(view[c])
    IN \A k \in PeerEvents(view[c]) :
         \E i \in DOMAIN shown : \A j \in DOMAIN shown : shown[j] = Pill(view[c], k) <=> j = i

\* A browser that has caught up is in the room exactly if there is one,
\* however its connection fell between the hub's updates and their events.  (A
\* close reported by a receive task that outlived an earlier room misleads it
\* for the rest of the present one.)
ViewFollowsRoom ==
  \A c \in Clients :
    Settled(c) /\ ~lagged[c] =>
      /\ phase = "open" /\ misled # rooms => view[c].roomState = "ready"
      /\ phase = "idle" => view[c].roomState # "ready"
=============================================================================
