----------------------------- MODULE Simulation -----------------------------
(***************************************************************************)
(* The simulation page: useSimulation.ts drives two useChatSocket clients, *)
(* A and B, each with a serve process of its own.  It opens a room on A,   *)
(* hands A's ticket to B and plays scenarios of timed messages.            *)
(*                                                                         *)
(* The processes are as in RoomPage; only the page commands them.  Texts   *)
(* change no room, so they are recorded and not sent on.                   *)
(***************************************************************************)
EXTENDS ChatClient, FiniteSets, SequencesExt

CONSTANTS
  Scenarios,   \* the scenarios to choose from (all of SCENARIOS in the code)
  MaxStarts,   \* bound: simulations started
  MaxRuns,     \* bound: scenarios started
  MaxTroubles  \* bound: process starts, connections that break, reloads, reconnects

Peers == {"A", "B"}

\* The presets, each the sequence of its timers: the peer that sends when one
\* fires, or "none" for a pause.  (The burst's last message has no delay and goes
\* out when the pause is over.)
SCENARIOS ==
  [id \in {"basic-chat", "ping-pong", "broadcast-burst", "cross-talk"} |->
     CASE id = "basic-chat"      -> <<"A", "B", "A", "B">>
       [] id = "ping-pong"       -> <<"A", "B", "A", "B", "A", "B", "A", "B">>
       [] id = "broadcast-burst" -> <<"A", "A", "A", "A", "A", "B">>
       [] id = "cross-talk"      -> <<"A", "B", "none", "A", "B">>]

ASSUME SimulationAssumption ==
  /\ Scenarios \subseteq DOMAIN SCENARIOS
  /\ {MaxStarts, MaxRuns, MaxTroubles} \subseteq Nat

VARIABLES
  sim,      \* the hook: phase, its refs, the two clients, what they sent
  runners,  \* execute() calls: their run and the timers they have left
  said,     \* (auxiliary) the timers that have fired for the active scenario
  script    \* activeScenario: that scenario's timers

VARIABLES
  server,   \* per peer: its process, up or not, and its room
  rooms,    \* rooms opened so far
  closed,   \* rooms whose host has announced their end
  conn,     \* per peer: its handler: "off", "live", or "dead"
  wire,     \* per peer: frames on their way to its client
  count     \* the bounds' counters

simVars  == <<sim, runners, said, script>>
roomVars == <<server, rooms, closed>>
vars     == <<simVars, roomVars, conn, wire, count>>

Phases == {"idle", "waiting-a", "waiting-b", "ready", "running", "done", "error"}

Count(what, max) ==
  /\ count[what] < max
  /\ count' = [count EXCEPT ![what] = @ + 1]

Trouble == Count("troubles", MaxTroubles)

-----------------------------------------------------------------------------
(* The effects of a render.  Each reads the state r that was rendered, and  *)
(* changes the state s the earlier ones left.                               *)

\* A command, unless the connection is gone and the page has not noticed.
Send(s, p, cmd, ticket) ==
  IF conn[p] = "dead" \/ ~CanSend(s.peer[p]) THEN s
  ELSE [s EXCEPT !.out[p] = Append(@, [cmd |-> cmd, ticket |-> ticket])]

Asks(s, p, cmd, ticket) ==
  [Send(s, p, cmd, ticket) EXCEPT !.peer[p] = Starts(@, cmd)]

\* waiting-a: open a room on A as soon as it is connected.
OpenOnA(r, s) ==
  IF r.phase = "waiting-a" /\ ~s.openSent /\ r.peer["A"].status = "connected"
  THEN Asks([s EXCEPT !.openSent = TRUE], "A", "open", 0) ELSE s

\* Fault: a ticket is handed on in any phase.
HandTicketEarly(r, s) ==
  IF r.peer["A"].ticket # 0 /\ ~s.joinSent
  THEN Asks([s EXCEPT !.joinSent = TRUE, !.phase = "waiting-b"],
            "B", "join", r.peer["A"].ticket) ELSE s

\* waiting-a to waiting-b: A has a ticket, hand it to B.
HandTicket(r, s) ==
  IF r.phase = "waiting-a" /\ r.peer["A"].ticket # 0 /\ ~s.joinSent
  THEN Asks([s EXCEPT !.joinSent = TRUE, !.phase = "waiting-b"],
            "B", "join", r.peer["A"].ticket) ELSE s

\* Fault: A's room is taken for B's.
ReachReadyOnA(r, s) ==
  IF r.phase = "waiting-b" /\ r.peer["A"].view.roomState = "ready"
  THEN [s EXCEPT !.phase = "ready"] ELSE s

\* waiting-b to ready: B is in the room.
ReachReady(r, s) ==
  IF r.phase = "waiting-b" /\ r.peer["B"].view.roomState = "ready"
  THEN [s EXCEPT !.phase = "ready"] ELSE s

Offline(r, p) == r.peer[p].status = "disconnected"

\* Fault: only a peer lost in a scenario is an error.
DetectLossLate(r, s) ==
  IF r.phase \in {"ready", "running"} /\ (Offline(r, "A") \/ Offline(r, "B"))
  THEN [s EXCEPT !.phase = "error", !.cancel = TRUE] ELSE s

\* Fault: the scenario goes on.
DetectLossOnly(r, s) ==
  IF \/ r.phase = "waiting-a" /\ Offline(r, "A")
     \/ r.phase = "waiting-b" /\ Offline(r, "B")
     \/ r.phase \in {"ready", "running"} /\ (Offline(r, "A") \/ Offline(r, "B"))
  THEN [s EXCEPT !.phase = "error"] ELSE s

\* A connection that is needed is lost.
DetectLoss(r, s) ==
  LET lost == r.phase \in {"ready", "running"} /\ (Offline(r, "A") \/ Offline(r, "B"))
  IN IF \/ r.phase = "waiting-a" /\ Offline(r, "A")
        \/ r.phase = "waiting-b" /\ Offline(r, "B")
        \/ lost
     THEN [s EXCEPT !.phase = "error", !.cancel = @ \/ lost] ELSE s

Effects(r) == DetectLoss(r, ReachReady(r, HandTicket(r, OpenOnA(r, r))))

\* Their updates are rendered in turn: waiting-b, ready and error at most.
Render(s) == \E s1 \in {Effects(s)} : \E s2 \in {Effects(s1)} : sim' = Effects(s2)

-----------------------------------------------------------------------------
(* The user, on SimulationDrawer.                                           *)

\* The buttons on the screen that are not disabled.
Offers ==
  LET On(offer, cond) == IF cond THEN {offer} ELSE {}
      idle == sim.phase = "idle"
  IN On("start", idle /\ \A p \in Peers : sim.peer[p].status = "connected")
       \cup On("reconnect", idle /\ \E p \in Peers : Offline(sim, p))
       \cup On("run", sim.phase = "ready")
       \cup On("runAgain", sim.phase = "done")
       \cup On("reset", ~idle)

Fresh ==
  [phase |-> "idle", openSent |-> FALSE, joinSent |-> FALSE, cancel |-> FALSE,
   peer |-> [p \in Peers |-> Connecting("open")],
   out |-> [p \in Peers |-> <<>>]]

StartSim ==
  /\ "start" \in Offers
  /\ Count("starts", MaxStarts)
  /\ Render([sim EXCEPT !.openSent = FALSE, !.joinSent = FALSE, !.cancel = FALSE,
                        !.phase = "waiting-a"])
  /\ script' = <<>> /\ said' = <<>>
  /\ UNCHANGED <<runners, roomVars, conn, wire>>

RunScenario ==
  /\ "run" \in Offers
  /\ Count("runs", MaxRuns)
  /\ Render([sim EXCEPT !.cancel = FALSE, !.phase = "running"])
  /\ \E id \in Scenarios :
       /\ script' = SCENARIOS[id]
       /\ runners' = runners \cup {[run |-> count.runs, left |-> SCENARIOS[id]]}
  /\ said' = <<>>
  /\ UNCHANGED <<roomVars, conn, wire>>

RunAgain ==
  /\ "runAgain" \in Offers
  /\ Render([sim EXCEPT !.phase = "ready"])
  /\ script' = <<>> /\ said' = <<>>
  /\ UNCHANGED <<runners, roomVars, conn, wire, count>>

Leaves(s, p) ==
  IF s.peer[p].view.roomState = "ready" THEN Send(s, p, "leave", 0) ELSE s

\* Fault: the scenario that runs is forgotten, not cancelled.
ResetForgets(s) ==
  [Leaves(Leaves(s, "A"), "B") EXCEPT
     !.openSent = FALSE, !.joinSent = FALSE, !.phase = "idle"]

\* reset() cancels, and leaves the rooms that are ready by now.
Reset(s) ==
  [Leaves(Leaves(s, "A"), "B") EXCEPT
     !.cancel = TRUE, !.openSent = FALSE, !.joinSent = FALSE, !.phase = "idle"]

ResetClicked ==
  /\ "reset" \in Offers
  /\ Render(Reset(sim))
  /\ script' = <<>> /\ said' = <<>>
  /\ UNCHANGED <<runners, roomVars, conn, wire, count>>

\* "Reconnect Peers": both, as soon as one is offline.
ReconnectPeers ==
  /\ "reconnect" \in Offers
  /\ Trouble
  /\ Render([sim EXCEPT !.peer = [p \in Peers |-> Connecting("open")]])
  /\ conn' = [p \in Peers |-> "off"] /\ wire' = [p \in Peers |-> <<>>]
  /\ UNCHANGED <<runners, said, script, roomVars>>

\* The page is loaded again: what was sent is on its way, timers are gone.
Reload ==
  /\ Trouble
  /\ sim' = [Fresh EXCEPT !.out = sim.out]
  /\ runners' = {} /\ script' = <<>> /\ said' = <<>>
  /\ conn' = [p \in Peers |-> "off"] /\ wire' = [p \in Peers |-> <<>>]
  /\ UNCHANGED roomVars

User == StartSim \/ RunScenario \/ RunAgain \/ ResetClicked \/ ReconnectPeers \/ Reload

\* Fault: the scenario ends with the timer before its last.
PlayedOutEarly(left) == Len(left) <= 2

\* A runner that has this timer left is through when it fires.
PlayedOut(left) == Tail(left) = <<>>

\* A timer of execute() fires.  Cancelled, it ends; else its peer sends, and the
\* last one ends the scenario, whichever is running.
TimerFires(e) ==
  LET last == PlayedOut(e.left)
  IN /\ IF sim.cancel \/ last
        THEN runners' = runners \ {e}
        ELSE runners' = (runners \ {e}) \cup {[e EXCEPT !.left = Tail(@)]}
     /\ said' = IF sim.cancel THEN said ELSE Append(said, Head(e.left))
     /\ Render(IF ~sim.cancel /\ last THEN [sim EXCEPT !.phase = "done"] ELSE sim)
     /\ UNCHANGED <<script, roomVars, conn, wire, count>>

-----------------------------------------------------------------------------
(* The sockets.                                                             *)

\* A opens rooms and B joins them.
RoomUp(p, room) == IF p = "A" THEN RoomReady(room) ELSE Event("room_joined")

\* The handshake and the replay.  The clients have no action of their own: a new
\* connection asks for nothing.
Handshake(p) ==
  /\ sim.peer[p].status = "connecting" /\ server[p].up
  /\ conn' = [conn EXCEPT ![p] = "live"]
  /\ wire' = [wire EXCEPT ![p] =
       (IF server[p].room = 0 THEN <<>> ELSE <<RoomUp(p, server[p].room)>>)
         \o <<Event("history_complete")>>]
  /\ Render([sim EXCEPT !.peer[p] = Opened(@)])
  /\ UNCHANGED <<runners, said, script, roomVars, count>>

Receive(p) ==
  /\ sim.peer[p].status = "connected" /\ wire[p] # <<>>
  /\ Render([sim EXCEPT !.peer[p] = Deliver(@, Head(wire[p]))])
  /\ wire' = [wire EXCEPT ![p] = Tail(@)]
  /\ UNCHANGED <<runners, said, script, roomVars, conn, count>>

SocketCloses(p) ==
  /\ ~Offline(sim, p)
  /\ conn[p] = "dead" \/ (conn[p] = "off" /\ ~server[p].up)
  /\ conn' = [conn EXCEPT ![p] = "off"] /\ wire' = [wire EXCEPT ![p] = <<>>]
  /\ Render([sim EXCEPT !.peer[p] = Closed(@)])
  /\ UNCHANGED <<runners, said, script, roomVars, count>>

-----------------------------------------------------------------------------
(* The serve processes.                                                     *)

Tell(p, frames) ==
  wire' = IF conn[p] = "live" THEN [wire EXCEPT ![p] = @ \o frames] ELSE wire

\* The room ends here; its host tells the others.
LeaveRoom(p) ==
  /\ server' = [server EXCEPT ![p].room = 0]
  /\ closed' = IF p = "A" THEN closed \cup {server[p].room} ELSE closed
  /\ Tell(p, <<Event("room_left")>>)
  /\ UNCHANGED rooms

\* A command: in a room, each of the three ends it.
TakeCommand(p) ==
  LET c == Head(sim.out[p]) IN
  /\ server[p].up /\ sim.out[p] # <<>>
  /\ sim' = [sim EXCEPT !.out[p] = Tail(@)]
  /\ \/ server[p].room # 0 /\ LeaveRoom(p)
     \/ /\ server[p].room = 0 /\ c.cmd = "open"
        /\ rooms' = rooms + 1 /\ server' = [server EXCEPT ![p].room = rooms + 1]
        /\ Tell(p, <<RoomUp(p, rooms + 1)>>)
        /\ UNCHANGED closed
     \/ /\ server[p].room = 0 /\ c.cmd = "join"
        /\ server' = [server EXCEPT ![p].room = c.ticket]
        /\ Tell(p, <<RoomUp(p, c.ticket)>>)
        /\ UNCHANGED <<rooms, closed>>
     \/ server[p].room = 0 /\ c.cmd = "leave" /\ UNCHANGED <<roomVars, wire>>
  /\ UNCHANGED <<runners, said, script, conn, count>>

\* B hears that A has closed their room.
HostCloses ==
  /\ server["B"].room \in closed
  /\ server' = [server EXCEPT !["B"].room = 0]
  /\ Tell("B", <<Event("room_closed"), Event("room_left")>>)
  /\ UNCHANGED <<simVars, rooms, closed, conn, count>>

ProcessStops(p) ==
  /\ server[p].up
  /\ server' = [server EXCEPT ![p] = [up |-> FALSE, room |-> 0]]
  /\ conn' = [conn EXCEPT ![p] = IF @ = "off" THEN "off" ELSE "dead"]
  /\ sim' = [sim EXCEPT !.out[p] = <<>>]
  /\ UNCHANGED <<runners, said, script, rooms, closed, wire, count>>

ProcessStarts(p) ==
  /\ ~server[p].up
  /\ Trouble
  /\ server' = [server EXCEPT ![p].up = TRUE]
  /\ UNCHANGED <<simVars, rooms, closed, conn, wire>>

ConnectionBreaks(p) ==
  /\ conn[p] = "live"
  /\ Trouble
  /\ conn' = [conn EXCEPT ![p] = "dead"]
  /\ sim' \in {sim, [sim EXCEPT !.out[p] = <<>>]}
  /\ UNCHANGED <<runners, said, script, roomVars, wire>>

Init ==
  /\ sim = Fresh /\ runners = {} /\ said = <<>> /\ script = <<>>
  /\ server = [p \in Peers |-> [up |-> TRUE, room |-> 0]] /\ rooms = 0 /\ closed = {}
  /\ conn = [p \in Peers |-> "off"] /\ wire = [p \in Peers |-> <<>>]
  /\ count = [w \in {"starts", "runs", "troubles"} |-> 0]

Socket(p)  == Handshake(p) \/ Receive(p) \/ SocketCloses(p)
Process(p) == TakeCommand(p) \/ ProcessStops(p) \/ ProcessStarts(p) \/ ConnectionBreaks(p)

Next ==
  \/ User
  \/ \E e \in runners : TimerFires(e)
  \/ \E p \in Peers : Socket(p) \/ Process(p)
  \/ HostCloses

\* Timers fire, and the event loops of browser and processes run on; users, and
\* the gossip between the two processes, need not.
Fairness ==
  /\ WF_vars(\E e \in runners : TimerFires(e))
  /\ \A p \in Peers : WF_vars(Socket(p)) /\ WF_vars(TakeCommand(p))

Spec == Init /\ [][Next]_vars
FairSpec == Spec /\ Fairness

-----------------------------------------------------------------------------
(* Properties.                                                              *)

\* Types; B is asked only after A.
TypeOK ==
  /\ sim.phase \in Phases
  /\ {sim.openSent, sim.joinSent, sim.cancel} \subseteq BOOLEAN
  /\ sim.joinSent => sim.openSent
  /\ \A p \in Peers : /\ sim.peer[p].status \in ConnectionStates
                      /\ sim.peer[p].ticket \in 0 .. rooms
                      /\ server[p].room \in 0 .. rooms
  /\ \A e \in runners : e.left # <<>> /\ e.run < count.runs

\* The processes held no rooms when this simulation was started, and no reset
\* went before it.
FirstStart == count.starts <= 1

\* An idle simulation says nothing: whatever was running is cancelled, in every
\* order of resets, losses of a peer and timers.
SilentWhenIdle == sim.phase = "idle" => sim.cancel \/ runners = {}

\* In the first simulation a scenario is executing exactly in the running phase, one
\* at a time, whatever is lost, reset or run again while its timers wait.
RunsWhileRunning ==
  FirstStart =>
    /\ sim.phase = "running" <=> runners # {} /\ ~sim.cancel
    /\ \A d, e \in runners : d = e

\* What it says and where it pauses is the scenario in order, and it is done when
\* all is said.
PlaysTheScript ==
  FirstStart => IsPrefix(said, script) /\ (sim.phase = "done" => said = script)

BothInRoom ==
  (\A p \in Peers : conn[p] = "live") =>
    server["A"].room # 0 /\ server["A"].room = server["B"].room

\* The first simulation is ready when both peers are in the one room, unless a
\* connection is lost and the page has not noticed.
FirstReadyMeansBoth == FirstStart /\ sim.phase \in {"ready", "running"} => BothInRoom

\* The first simulation waits for ever for nothing: it gets ready or fails, and a
\* scenario ends.
FirstStartSettles ==
  FirstStart /\ sim.phase \in {"waiting-a", "waiting-b", "running"}
    ~> sim.phase \notin {"waiting-a", "waiting-b", "running"}

\* "both peers in room, scenario can run", useSimulation.ts.
ReadyMeansBoth == sim.phase = "ready" => BothInRoom
=============================================================================
