------------------------------ MODULE RoomPage ------------------------------
(***************************************************************************)
(* One user's browser and the serve process it drives: the landing page    *)
(* (ConnectForm, RoomDirectory), the room page (ChatRoom) with its overlay *)
(* (ConnectingOverlay) and input (MessageInput) over the hook ChatClient.  *)
(*                                                                         *)
(* The serve process appears as ChatServe and WsBridge show it to a        *)
(* browser: a room or none, commands taken one at a time, the room's event *)
(* replayed on connect.  Events keep one order, and chat frames are left   *)
(* out: WsBridge has both.                                                 *)
(***************************************************************************)
EXTENDS ChatClient, SequencesExt

CONSTANTS
  MaxRooms,   \* bound: rooms the process starts
  MaxFaults,  \* bound: restarts of the process, broken connections, late closes
  MaxVisits,  \* bound: connections the browser makes
  MaxOther,   \* bound: commands from other tabs
  MaxCmds     \* bound: commands on their way at a time

ASSUME PageAssumption ==
  {MaxRooms, MaxFaults, MaxVisits, MaxOther, MaxCmds} \subseteq Nat

VARIABLES
  page,       \* "landing" or "room"
  params,     \* the action and ticket of the room page's address
  client,     \* the state of useChatSocket
  dismissed,  \* overlayDismissed: the user has entered the chat
  overlay     \* the state of ConnectingOverlay

VARIABLES
  server,     \* the serve process: up, its room, whether it hosts it, ending
  rooms,      \* rooms started so far
  strays,     \* receive tasks that outlive a room left by a command
  conn,       \* the page's handler: "off", "accepted", "live", or "dead"
  cmds,       \* what the page sent and the loop has not taken
  wire,       \* frames on their way to the page
  ended,      \* (auxiliary) in no room: why the last one ended
  misled,     \* (auxiliary) a stray has told the page of a close since the page's
              \* replay and the start of the last room
  count       \* the bounds' counters

pageVars == <<page, params, client, dismissed, overlay>>
netVars  == <<conn, cmds, wire>>
procVars == <<server, rooms, strays, ended, misled>>
vars     == <<pageVars, netVars, procVars, count>>

\* A ticket that names a room, and any other text; "none" is the empty one.
Tickets == {"none", "good", "bad"}
Pasted  == Tickets \ {"none"}

Command(cmd, ticket) == [cmd |-> cmd, ticket |-> ticket]

Count(what, max) ==
  /\ count[what] < max
  /\ count' = [count EXCEPT ![what] = @ + 1]

-----------------------------------------------------------------------------
(* The overlay: when it is shown, and what its effects do at each render.   *)

FreshOverlay ==
  [mode |-> "pick", ticket |-> "none", timedOut |-> FALSE, armed |-> FALSE,
   retried |-> FALSE]

\* showOverlay: the room is not set up yet, or the user has not entered it.
Shown(c, d) ==
  \/ c.view.roomState = "idle"
  \/ c.view.roomState \in {"pending", "ready"} /\ ~d

\* Fault: the timer's effect depends on the room state alone.
TimerRestartsOnRoom(old, new) == old.view.roomState # new.view.roomState

\* Fault: it depends on the connection alone.
TimerRestartsOnSocket(old, new) == old.status # new.status

\* The dependencies of the timer's effect.
TimerRestarts(old, new) ==
  old.view.roomState # new.view.roomState \/ old.status # new.status

\* Leaving idle resets the form; the 12 s timer runs while the room is pending
\* on an open connection.
Rendered(ov, mount, old, new) ==
  LET form == IF new.view.roomState # "idle" /\ (mount \/ old.view.roomState = "idle")
              THEN [ov EXCEPT !.mode = "pick", !.ticket = "none"] ELSE ov
  IN IF mount \/ TimerRestarts(old, new)
     THEN [form EXCEPT !.timedOut = FALSE, !.retried = FALSE,
                       !.armed = new.view.roomState = "pending" /\ new.status = "connected"]
     ELSE form

\* Fault: entering the chat once is entering every later room.
RenderEntered(c, ov) ==
  /\ client' = c /\ dismissed' = dismissed
  /\ overlay' = IF ~Shown(c, dismissed) THEN FreshOverlay
                ELSE IF Shown(client, dismissed) THEN Rendered(ov, FALSE, client, c)
                ELSE Rendered(FreshOverlay, TRUE, client, c)

\* The hook has the state c after a handler that left the overlay as ov; the
\* page renders it and runs the effects.
Render(c, ov) ==
  LET d == dismissed /\ c.view.roomState # "idle"
  IN /\ client' = c /\ dismissed' = d
     /\ overlay' = IF ~Shown(c, d) THEN FreshOverlay
                   ELSE IF Shown(client, dismissed) THEN Rendered(ov, FALSE, client, c)
                   ELSE Rendered(FreshOverlay, TRUE, client, c)

-----------------------------------------------------------------------------
(* What the user can do.  An offer is a control that is on the screen, not   *)
(* covered or disabled, and does something when it is used.                  *)

OverlayOffers ==
  LET state == client.view.roomState
      On(offers, cond) == IF cond THEN offers ELSE {}
  IN On({"openForm", "joinForm"}, state = "idle" /\ overlay.mode = "pick")
       \cup On({"formBack"}, state = "idle" /\ overlay.mode # "pick")
       \cup On({"formOpen"}, state = "idle" /\ overlay.mode = "open" /\ CanSend(client))
       \cup On({"paste"}, state = "idle" /\ overlay.mode = "join")
       \cup On({"formJoin"}, /\ state = "idle" /\ overlay.mode = "join"
                             /\ overlay.ticket # "none" /\ CanSend(client))
       \cup On({"toStart"}, state # "idle" /\ client.status = "disconnected")
       \cup On({"retry", "toStart"}, /\ overlay.timedOut /\ state = "pending"
                                     /\ client.status # "disconnected")
       \cup On({"enter"}, state = "ready")
       \cup On({"shutdown"}, state = "ready" /\ client.action = "open")

ChatOffers ==
  LET state == client.view.roomState
      On(offers, cond) == IF cond THEN offers ELSE {}
  IN {"toStart"}
       \cup On({"leave"}, dismissed /\ CanSend(client))
       \cup On({"shutdown"}, dismissed /\ client.action = "open")
       \cup On({"reconnect"}, /\ client.status = "disconnected" /\ state # "closed"
                              /\ client.closedReason # "host")
       \cup On({"text"}, client.status = "connected" /\ state # "closed")

Offers ==
  IF page = "landing" THEN {}
  ELSE IF Shown(client, dismissed) THEN OverlayOffers ELSE ChatOffers

\* A command or text on its way to the serve process, unless the connection is
\* gone and the page has not noticed.
Send(c) == cmds' = IF conn = "dead" THEN cmds ELSE Append(cmds, c)

\* The page's useEffect: a new WebSocket.
Mount(p) ==
  /\ Count("visits", MaxVisits)
  /\ page' = "room" /\ params' = p /\ client' = Connecting(p.action)
  /\ dismissed' = FALSE /\ overlay' = FreshOverlay
  /\ conn' = "off" /\ wire' = <<>>

\* ConnectForm's submit: the form wants some text as a ticket.
SubmitForm ==
  \/ Mount([action |-> "open", ticket |-> "none"])
  \/ \E t \in Pasted : Mount([action |-> "join", ticket |-> t])

\* "Join" on a row of the RoomDirectory, whose ticket its host announced.
JoinListed == Mount([action |-> "join", ticket |-> "good"])

Visit ==
  /\ page = "landing"
  /\ SubmitForm \/ JoinListed
  /\ UNCHANGED <<cmds, procVars>>

\* The browser's reload button is always there.
Reload ==
  /\ page = "room"
  /\ Mount(params)
  /\ UNCHANGED <<cmds, procVars>>

\* The page goes: its socket closes without a handler.
Unmount ==
  /\ page' = "landing" /\ client' = Connecting("none") /\ dismissed' = FALSE
  /\ overlay' = FreshOverlay /\ conn' = "off" /\ wire' = <<>>
  /\ params' = [action |-> "open", ticket |-> "none"]

ToStart ==
  /\ "toStart" \in Offers
  /\ Unmount
  /\ UNCHANGED <<cmds, procVars, count>>

\* shutdownRoom(), then to the start page at once.
ShutdownClicked ==
  /\ "shutdown" \in Offers
  /\ IF CanSend(client) THEN Send(Command("shutdown", "none")) ELSE UNCHANGED cmds
  /\ Unmount
  /\ UNCHANGED <<procVars, count>>

Reconnect ==
  /\ "reconnect" \in Offers
  /\ Count("visits", MaxVisits)
  /\ Render(Connecting(params.action), overlay)
  /\ conn' = "off" /\ wire' = <<>>
  /\ UNCHANGED <<page, params, cmds, procVars>>

EnterChat ==
  /\ "enter" \in Offers
  /\ dismissed' = TRUE /\ overlay' = FreshOverlay
  /\ UNCHANGED <<page, params, client, netVars, procVars, count>>

Fill(offer, mode, ticket) ==
  /\ offer \in Offers
  /\ overlay' = [overlay EXCEPT !.mode = mode, !.ticket = ticket]
  /\ UNCHANGED <<page, params, client, dismissed, netVars, procVars, count>>

FillForm ==
  \/ Fill("openForm", "open", overlay.ticket)
  \/ Fill("joinForm", "join", overlay.ticket)
  \/ Fill("formBack", "pick", overlay.ticket)
  \/ \E t \in Pasted : Fill("paste", "join", t)

Ask(action, ticket, ov) ==
  /\ Render(Starts(client, action), ov)
  /\ IF CanSend(client) THEN Send(Command(action, ticket)) ELSE UNCHANGED cmds
  /\ Len(cmds) < MaxCmds
  /\ UNCHANGED <<page, params, conn, wire, procVars, count>>

FormOpen == "formOpen" \in Offers /\ Ask("open", "none", overlay)
FormJoin == "formJoin" \in Offers /\ Ask("join", overlay.ticket, overlay)

\* "Try again" repeats the current action with what the form holds.
Retry ==
  /\ "retry" \in Offers
  /\ Ask(client.action, overlay.ticket,
         [overlay EXCEPT !.timedOut = FALSE, !.retried = TRUE])

\* Leave and a text that is sent change nothing on the page.
Say(offer, cmd) ==
  /\ offer \in Offers /\ Len(cmds) < MaxCmds
  /\ Send(Command(cmd, "none"))
  /\ UNCHANGED <<pageVars, conn, wire, procVars, count>>

User ==
  \/ Visit \/ Reload \/ ToStart \/ ShutdownClicked \/ Reconnect \/ EnterChat
  \/ FillForm \/ FormOpen \/ FormJoin \/ Retry \/ Say("leave", "leave") \/ Say("text", "text")

-----------------------------------------------------------------------------
(* The socket and the timer.                                                *)

\* The handshake, and ws.onopen: the page sends the action of its address.
Handshake ==
  /\ page = "room" /\ client.status = "connecting" /\ conn = "off" /\ server.up
  /\ conn' = "accepted"
  /\ Render(Opened(client), overlay)
  /\ Send(Command(params.action, params.ticket))
  /\ UNCHANGED <<page, params, wire, procVars, count>>

Greeting ==
  IF server.room = 0 THEN <<>>
  ELSE IF server.host THEN <<RoomReady(server.room)>> ELSE <<Event("room_joined")>>

\* The handler subscribes and replays.
Replay ==
  /\ conn = "accepted"
  /\ conn' = "live"
  /\ wire' = wire \o Append(Greeting, Event("history_complete"))
  /\ misled' = FALSE
  /\ UNCHANGED <<pageVars, cmds, server, rooms, strays, ended, count>>

Receive ==
  /\ page = "room" /\ client.status = "connected" /\ wire # <<>>
  /\ Render(Deliver(client, Head(wire)), overlay)
  /\ wire' = Tail(wire)
  /\ UNCHANGED <<page, params, conn, cmds, procVars, count>>

\* No process to connect to, or the connection is gone.
SocketCloses ==
  /\ page = "room" /\ client.status # "disconnected"
  /\ conn = "dead" \/ (conn = "off" /\ ~server.up)
  /\ Render(Closed(client), overlay)
  /\ conn' = "off" /\ wire' = <<>>
  /\ UNCHANGED <<page, params, cmds, procVars, count>>

TimerFires ==
  /\ overlay.armed
  /\ overlay' = [overlay EXCEPT !.timedOut = TRUE, !.armed = FALSE]
  /\ UNCHANGED <<page, params, client, dismissed, netVars, procVars, count>>

-----------------------------------------------------------------------------
(* The serve process.                                                       *)

Down == [up |-> FALSE, room |-> 0, host |-> FALSE, ending |-> FALSE]
Idle == [Down EXCEPT !.up = TRUE]

\* An event for the browsers; a handler that has not replayed yet has the state
\* it brings in its snapshot.
Tell(frames) == wire' = IF conn = "live" THEN wire \o frames ELSE wire

StartRoom(host) ==
  /\ rooms < MaxRooms
  /\ rooms' = rooms + 1
  /\ server' = [Idle EXCEPT !.room = rooms + 1, !.host = host]
  /\ Tell(IF host THEN <<RoomReady(rooms + 1)>> ELSE <<Event("room_joined")>>)
  /\ ended' = "none" /\ misled' = FALSE
  /\ UNCHANGED strays

\* A command that wins run_room's select! drops run_gossip, whose receive task goes
\* on; otherwise the task has returned or is aborted.
StraysAfter(why) == IF why \in {"leave", "start"} THEN strays + 1 ELSE strays

\* Fault: a process hears its own RoomClosed and reports it.
EndRoomHeard(why) ==
  /\ server' = Idle /\ ended' = why /\ strays' = StraysAfter(why)
  /\ Tell(<<Event("room_closed"), Event("room_left")>>)
  /\ UNCHANGED <<rooms, misled>>

EndRoom(why) ==
  /\ server' = Idle /\ ended' = why /\ strays' = StraysAfter(why)
  /\ Tell(<<Event("room_left")>>)
  /\ UNCHANGED <<rooms, misled>>

Ignore == UNCHANGED <<procVars, wire>>

\* Shutdown ends the process, with its tasks and connections; the next one starts anew.
Stop ==
  /\ server' = Down /\ strays' = 0
  /\ ended' = "none" /\ misled' = FALSE
  /\ UNCHANGED <<rooms, wire>>

\* Why a command ends the room: the select! may prefer it to the receive task that
\* has just returned with the host's close.
Reason(c) ==
  IF server.ending THEN "host" ELSE IF c.cmd = "leave" THEN "leave" ELSE "start"

\* A command in the idle loop, and in a room: there every command but a shutdown
\* ends the room, and a text is a message.
Execute(c) ==
  IF server.room = 0
  THEN CASE c.cmd = "open" -> StartRoom(TRUE)
         [] c.cmd = "join" /\ c.ticket = "good" -> StartRoom(FALSE)
         [] OTHER -> Ignore
  ELSE CASE c.cmd = "text" -> Ignore
         [] c.cmd = "shutdown" -> Stop
         [] OTHER -> EndRoom(Reason(c))

Stopped(c) == c.cmd = "shutdown" /\ server.room # 0

\* A handler reads nothing before its replay is over.
TakeCommand ==
  /\ server.up /\ cmds # <<>> /\ conn # "accepted"
  /\ Execute(Head(cmds))
  /\ cmds' = IF Stopped(Head(cmds)) THEN <<>> ELSE Tail(cmds)
  /\ conn' = IF Stopped(Head(cmds)) /\ conn # "off" THEN "dead" ELSE conn
  /\ UNCHANGED <<pageVars, count>>

\* Another tab, or another program, on the same process.
OtherTab ==
  /\ server.up
  /\ Count("other", MaxOther)
  /\ \E c \in {Command("open", "none"), Command("join", "good"), Command("leave", "none")} :
       Execute(c)
  /\ UNCHANGED <<pageVars, conn, cmds>>

\* The receive task of the room hears that a host closes it, and returns.  It asks
\* for no role: two hosts of rooms of one name share a topic.
HostCloses ==
  /\ server.room # 0 /\ ~server.ending
  /\ server' = [server EXCEPT !.ending = TRUE]
  /\ Tell(<<Event("room_closed")>>)
  /\ UNCHANGED <<pageVars, conn, cmds, rooms, strays, ended, misled, count>>

\* A receive task that outlived its room hears the close of that room, and reports it
\* in whatever room the process is by now, or in none.
LateClose ==
  /\ strays > 0
  /\ Count("faults", MaxFaults)
  /\ strays' = strays - 1
  /\ Tell(<<Event("room_closed")>>)
  /\ misled' = (misled \/ conn = "live")
  /\ UNCHANGED <<pageVars, conn, cmds, server, rooms, ended>>

\* run_gossip returns: the room ends as its host said, or with its gossip stream.
RoomEnds ==
  /\ server.room # 0
  /\ EndRoom(IF server.ending THEN "host" ELSE "gossip")
  /\ UNCHANGED <<pageVars, conn, cmds, count>>

\* Ctrl-c or a crash, and a new start.
ProcessStops ==
  /\ server.up
  /\ Stop
  /\ cmds' = <<>> /\ conn' = IF conn = "off" THEN "off" ELSE "dead"
  /\ UNCHANGED <<pageVars, count>>

ProcessStarts ==
  /\ ~server.up
  /\ Count("faults", MaxFaults)
  /\ server' = Idle
  /\ UNCHANGED <<pageVars, netVars, rooms, strays, ended, misled>>

\* A connection fails, with or without what was still to be read from it.
ConnectionBreaks ==
  /\ conn \in {"accepted", "live"}
  /\ Count("faults", MaxFaults)
  /\ conn' = "dead" /\ cmds' \in {cmds, <<>>}
  /\ UNCHANGED <<pageVars, wire, procVars>>

Process ==
  \/ TakeCommand \/ OtherTab \/ HostCloses \/ LateClose \/ RoomEnds
  \/ ProcessStops \/ ProcessStarts \/ ConnectionBreaks

Init ==
  /\ page = "landing" /\ params = [action |-> "open", ticket |-> "none"]
  /\ client = Connecting("none") /\ dismissed = FALSE /\ overlay = FreshOverlay
  /\ server = Idle /\ rooms = 0 /\ conn = "off" /\ cmds = <<>> /\ wire = <<>>
  /\ strays = 0 /\ ended = "none" /\ misled = FALSE /\ count = [w \in {"visits", "faults", "other"} |-> 0]

Socket == Handshake \/ Replay \/ Receive \/ SocketCloses

Next == User \/ Socket \/ TimerFires \/ Process

\* The page's socket and its timer go on; users, the process's loop and failures need
\* not.  One step of the socket enables the next, so one fairness serves all four.
Fairness == WF_vars(Socket) /\ WF_vars(TimerFires)

Spec == Init /\ [][Next]_vars
FairSpec == Spec /\ Fairness

-----------------------------------------------------------------------------
(* Properties.                                                              *)

RoomState == client.view.roomState

\* Types; a new room is never entered before it is set up; the overlay keeps no
\* state while it is not shown.
TypeOK ==
  /\ page \in {"landing", "room"}
  /\ params \in [action : {"open", "join"}, ticket : Tickets]
  /\ RoomState \in RoomStates /\ client.status \in ConnectionStates
  /\ client.action \in Actions /\ client.ticket \in 0 .. rooms
  /\ dismissed => RoomState # "idle"
  /\ ~Shown(client, dismissed) => overlay = FreshOverlay
  /\ conn \in {"off", "accepted", "live", "dead"} /\ rooms \in 0 .. MaxRooms
  /\ server.room \in {0, rooms} /\ (server.ending => server.room # 0)
  /\ strays \in 0 .. rooms /\ misled \in BOOLEAN

\* The room state the page comes to once it has read what is on the wire.
Outlook == FoldLeft(OnMessage, client.view, wire).roomState

\* The next two properties speak of the last frames that decide a room state.
\* Reading the wire frame by frame, as the page does, comes to the same.
OutlookIsLastFrame ==
  /\ Outlook = "ready" <=> ReadyAfter(RoomState, wire)
  /\ Outlook = "closed" <=> ClosedAfter(RoomState, wire)

\* Whatever the user, other tabs and the process do, what is on the wire leads a
\* connected page to "ready" exactly if the process is in a room and no task of an
\* earlier room has misled the page in it.
PageFollowsRoom ==
  conn = "live" /\ ~server.ending =>
    (ReadyAfter(RoomState, wire) <=> server.room # 0 /\ ~misled)

\* "This room was closed by the host" is true of the process's last room when a page
\* says it, and stays what it says although a room_left follows; but for a page
\* misled by a task of an earlier room.
ClosedByHost ==
  conn = "live" /\ ClosedAfter(RoomState, wire) =>
    server.ending \/ ended = "host" \/ misled

Settled == conn = "live" /\ wire = <<>> /\ cmds = <<>> /\ ~server.ending

\* Once all is said, the button that ends the whole process is offered only to
\* the process that hosts the room, not to one that another tab let join.
HostControls == Settled /\ "shutdown" \in Offers => server.host

\* The 12 s timer and its message are about a room that is pending on an open
\* connection: a late answer or a lost connection takes both away.
TimeoutIsPending ==
  overlay.armed \/ overlay.timedOut =>
    RoomState = "pending" /\ client.status = "connected"

\* The page covers itself and offers nothing that leads on.
Stuck ==
  /\ page = "room"
  /\ Offers \subseteq {"openForm", "joinForm", "formBack", "paste"}
  /\ ~(RoomState = "idle" /\ CanSend(client))

\* The two dead ends of the overlay: "Try again" does not start the timer again,
\* and the form of an idle page sends nothing once the connection is lost.
DeadEnd ==
  \/ RoomState = "pending" /\ overlay.retried
  \/ RoomState = "idle" /\ client.status = "disconnected"

\* A page that waits for the process does not wait for ever: an answer, the end
\* of the connection or the timer gives the user a way on, except in the two
\* dead ends.
WaysOn == Stuck ~> ~Stuck \/ DeadEnd

\* "Open a new room (host mode)", protocol.rs: a room ends because it is left or
\* shut down, because its host closes it, its gossip stream ends or the process stops.
RoomEndsOnPurpose == ended # "start"
=============================================================================
