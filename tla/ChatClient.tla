----------------------------- MODULE ChatClient -----------------------------
(***************************************************************************)
(* The rest of the useChatSocket hook (web/src/lib/useChatSocket.ts) in    *)
(* serve mode: the connection, the action and ticket of the current room,  *)
(* and the calls a component makes on it.  A client is the hook's state,   *)
(* the view of ChatSocket included; ticket 0 is null.                      *)
(***************************************************************************)
EXTENDS ChatSocket

ConnectionStates == {"connecting", "connected", "disconnected"}
Actions          == {"none", "open", "join"}

\* connect(): the action is the one the page was opened with.
Connecting(action) ==
  [view |-> Connect, status |-> "connecting", closedReason |-> "none",
   action |-> action, ticket |-> 0]

\* ws.onopen
Opened(c) == [c EXCEPT !.status = "connected"]

\* Fault: the action of a room that was left stays.
ActionOnKept(c, f) == c.action

\* The action and the ticket belong to a room and go with it.
ActionOn(c, f) ==
  IF f.type = "room_closed" \/ (f.type = "room_left" /\ c.view.roomState # "closed")
  THEN "none" ELSE c.action

TicketOn(c, f) ==
  IF f.type = "room_ready" THEN f.ticket
  ELSE IF f.type = "room_closed" \/ (f.type = "room_left" /\ c.view.roomState # "closed")
  THEN 0 ELSE c.ticket

\* ws.onmessage
Deliver(c, f) ==
  [c EXCEPT !.view = OnMessage(@, f), !.action = ActionOn(c, f), !.ticket = TicketOn(c, f)]

\* ws.onerror and ws.onclose.  The reason is the host's only after a room_closed
\* or a shutdown.
Closed(c) ==
  [c EXCEPT !.status = "disconnected",
            !.closedReason = CASE c.view.roomState = "closed" -> "host"
                               [] c.view.roomState = "idle"   -> "none"
                               [] OTHER                       -> "unknown"]

\* readyState is OPEN: what is sent otherwise is dropped without a word.
CanSend(c) == c.status = "connected"

\* Fault: the room on the page is taken for granted until the answer.
StartsReady(c, action) ==
  IF ~CanSend(c) THEN c
  ELSE [c EXCEPT !.view = [ResetRoom(@) EXCEPT !.historyDone = TRUE, !.roomState = "ready"],
                 !.action = action, !.ticket = 0]

\* openRoom() and joinRoom(): no burst is expected on a connection that is open.
Starts(c, action) ==
  IF ~CanSend(c) THEN c
  ELSE [c EXCEPT !.view = [ResetRoom(@) EXCEPT !.historyDone = TRUE,
                             !.historyBatch = <<>>, !.roomState = "pending"],
                 !.action = action, !.ticket = 0]
=============================================================================
