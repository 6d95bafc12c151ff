----------------------------- MODULE ChatSocket -----------------------------
(***************************************************************************)
(* The room state a browser keeps: what the useChatSocket hook of          *)
(* web/src/lib/useChatSocket.ts does with the frames that arrive, as       *)
(* functions of the view and of the frame.  A message is a number, its     *)
(* rank by (ts, nonce); it stands for its nonce too.                       *)
(***************************************************************************)
EXTENDS Naturals, Sequences

CONSTANT TraceCap   \* network events a view keeps (300 in the code)

ASSUME SocketAssumption == TraceCap \in Nat \ {0}

\* A frame: an event with its time, or a chat message.
EventAt(type, ts) == [type |-> type, msg |-> 0, ts |-> ts, ticket |-> 0]
Event(type)       == EventAt(type, 0)
RoomReady(ticket) == [Event("room_ready") EXCEPT !.ticket = ticket]
Message(m)        == [Event("chat") EXCEPT !.msg = m]

RoomStates == {"idle", "pending", "ready", "closed"}

\* connect() in serve mode: everything is reset with the new WebSocket.
Connect ==
  [messages |-> <<>>, historyCount |-> 0, roomState |-> "pending",
   historyBatch |-> <<>>, historyDone |-> FALSE, seenNonces |-> {}, events |-> <<>>]

\* resetRoom() leaves the history burst alone.
ResetRoom(v) ==
  [v EXCEPT !.messages = <<>>, !.historyCount = 0, !.seenNonces = {}, !.events = <<>>]

\* The history_complete sentinel turns the burst into the message list.
FlushHistory(v) ==
  [v EXCEPT !.messages = v.historyBatch, !.historyCount = Len(v.historyBatch),
            !.historyBatch = <<>>, !.historyDone = TRUE]

\* Fault: replayed and live copies of a message are both shown.
ShowMessageAgain(v, m) ==
  IF v.historyDone THEN [v EXCEPT !.messages = Append(@, m)]
  ELSE [v EXCEPT !.historyBatch = Append(@, m)]

\* A message is shown once per nonce, in the burst or after it.
ShowMessage(v, m) ==
  LET w == [v EXCEPT !.seenNonces = @ \cup {m}] IN
  IF m \in v.seenNonces THEN v
  ELSE IF v.historyDone THEN [w EXCEPT !.messages = Append(@, m)]
  ELSE [w EXCEPT !.historyBatch = Append(@, m)]

\* networkEvents keeps the newest.  The room events count as well, but a page
\* derives nothing from them: only the others are kept here.
Trace(v, f) ==
  LET n == Len(v.events) IN
  [v EXCEPT !.events = Append(IF n < TraceCap THEN @ ELSE SubSeq(@, n - TraceCap + 2, n), f)]

\* Fault: a room_left takes the notice of the host's close away.
OnRoomLeftAnyway(v) == [ResetRoom(v) EXCEPT !.roomState = "idle"]

\* Closed by the host is terminal for a room_left.
OnRoomLeft(v) ==
  IF v.roomState = "closed" THEN v ELSE [ResetRoom(v) EXCEPT !.roomState = "idle"]

\* ws.onmessage
OnMessage(v, f) ==
  CASE f.type = "history_complete" -> FlushHistory(v)
    [] f.type \in {"room_ready", "room_joined"} -> [v EXCEPT !.roomState = "ready"]
    [] f.type = "room_left"        -> OnRoomLeft(v)
    [] f.type = "room_closed"      -> [ResetRoom(v) EXCEPT !.roomState = "closed"]
    [] f.type = "chat"             -> ShowMessage(v, f.msg)
    [] OTHER                       -> Trace(v, f)

-----------------------------------------------------------------------------
(* What a page that is in a room state comes to once it has read frames w,  *)
(* said of the last frames that decide it.                                  *)

SetUpTypes == {"room_ready", "room_joined"}
EndTypes   == {"room_left", "room_closed"}

ReadyAfter(state, w) ==
  \/ \E i \in 1 .. Len(w) : /\ w[i].type \in SetUpTypes
                            /\ \A j \in i + 1 .. Len(w) : w[j].type \notin EndTypes
  \/ state = "ready" /\ \A j \in 1 .. Len(w) : w[j].type \notin EndTypes

ClosedAfter(state, w) ==
  \/ \E i \in 1 .. Len(w) : /\ w[i].type = "room_closed"
                            /\ \A j \in i + 1 .. Len(w) : w[j].type \notin SetUpTypes
  \/ state = "closed" /\ \A j \in 1 .. Len(w) : w[j].type \notin SetUpTypes
=============================================================================
