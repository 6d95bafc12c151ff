--------------------------- MODULE RoomLifecycle ---------------------------
(***************************************************************************)
(* What a serve process promises about its rooms, to the browsers on its   *)
(* bridge, to the guests on gossip and to the registry, whatever tasks it  *)
(* takes.  Rooms come one after the other.  Each is set up, open, left,    *)
(* and over before the next is begun; guests are told before a hosted room *)
(* is over, and a room is listed, offered to new browsers and takes texts  *)
(* only in its own time.  ChatServe implements this.                       *)
(***************************************************************************)
EXTENDS Naturals

VARIABLES
  phase,      \* where the process is in a room's life
  session,    \* the number of the current or last room
  host,       \* whether the process hosts it
  offered,    \* the room a new browser is told of, or 0
  accepting,  \* the room that takes what a browser types, or 0
  listed,     \* the rooms the process lists in the registry
  told        \* the rooms whose guests were told of the end

vars == <<phase, session, host, offered, accepting, listed, told>>

Init ==
  /\ phase = "idle" /\ session = 0 /\ host = FALSE
  /\ offered = 0 /\ accepting = 0 /\ listed = {} /\ told = {}

\* A command starts a room: texts are taken before it is offered.
Begin ==
  /\ phase = "idle" /\ phase' = "setup"
  /\ session' = session + 1 /\ host' \in BOOLEAN
  /\ accepting' = session'
  /\ UNCHANGED <<offered, listed, told>>

Open ==
  /\ phase = "setup" /\ phase' = "open"
  /\ offered' = session
  /\ listed' = IF host THEN {session} ELSE {}
  /\ UNCHANGED <<session, host, accepting, told>>

\* The room is left, for whatever reason; a host has told its guests.
Leave ==
  /\ phase = "open" /\ phase' = "left"
  /\ told' = IF host THEN told \cup {session} ELSE told
  /\ UNCHANGED <<session, host, offered, accepting, listed>>

\* The process goes on without a room.
End ==
  /\ phase = "left" /\ phase' = "idle"
  /\ offered' = 0 /\ accepting' = 0 /\ listed' = {}
  /\ UNCHANGED <<session, host, told>>

\* The process is going to stop; the bridge keeps the last room until it has.
Finish ==
  /\ phase \in {"left", "idle"} /\ phase' = "ending"
  /\ listed' = {}
  /\ UNCHANGED <<session, host, offered, accepting, told>>

\* The end of the process: after its last room, or when a room fails to start.
Stop ==
  /\ phase \in {"ending", "setup"} /\ phase' = "stopped"
  /\ offered' = 0 /\ accepting' = 0 /\ listed' = {}
  /\ UNCHANGED <<session, host, told>>

Next == Begin \/ Open \/ Leave \/ End \/ Finish \/ Stop

Spec == Init /\ [][Next]_vars
=============================================================================
