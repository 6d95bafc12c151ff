---------------------------- MODULE RoomRegistry ----------------------------
(***************************************************************************)
(* The room registry of src/registry.rs with the processes around it: the  *)
(* announce_room task of each hosting process (src/bin/chat.rs), which     *)
(* keeps a connection open for as long as its room is, and the landing     *)
(* pages (web/src/lib/useRoomDirectory.ts), which subscribe to the list.   *)
(*                                                                         *)
(* A room stands for its announce_room task and for the one connection     *)
(* that task makes, which is the conn_id its entry is filed under.  Lists  *)
(* carry a version, counting the updates of the room map.                  *)
(***************************************************************************)
EXTENDS Naturals, SequencesExt

CONSTANTS
  Rooms,        \* rooms opened by hosting processes
  Pages,        \* landing pages
  ListCap,      \* capacity of list_tx (32 in the code)
  MaxStarts,    \* bound: times the registry is started
  MaxConns      \* bound: connections a page makes

ASSUME RegistryAssumption ==
  ListCap \in Nat \ {0} /\ MaxStarts \in Nat /\ MaxConns \in Nat

VARIABLES
  open,     \* each room: "no", "open", or "over" (room_sd_tx fired, or it died)
  annc,     \* announce_room: "none", "connecting", "announced", "done"
  up,       \* the registry is running
  starts,   \* bound: registry starts
  reg,      \* the registry's handler of a room: "none", "accepted", "listed", "gone"
  rooms,    \* the room map
  version   \* (auxiliary) updates of the map so far

VARIABLES
  page,     \* useRoomDirectory and its handler: "waiting", "connecting",
            \* "opened", "subscribed", "live", or "lost" (closed, not yet seen)
  conns,    \* bound: connections made
  listQ,    \* list_rx of the page's handler
  missed,   \* list_rx lagged, and the handler has not been told yet
  wire,     \* lists sent and not yet handled by the page
  shown     \* the page's list

regVars  == <<open, annc, up, starts, reg, rooms, version>>
pageVars == <<page, conns, listQ, missed, wire, shown>>
vars     == <<regVars, pageVars>>

NoList  == [ver |-> 0, list |-> {}]
Current == [ver |-> version, list |-> rooms]

Init ==
  /\ open = [r \in Rooms |-> "no"]
  /\ annc = [r \in Rooms |-> "none"]
  /\ up = FALSE /\ starts = 0
  /\ reg = [r \in Rooms |-> "none"]
  /\ rooms = {} /\ version = 0
  /\ page = [p \in Pages |-> "waiting"]
  /\ conns = [p \in Pages |-> 0]
  /\ listQ = [p \in Pages |-> <<>>]
  /\ missed = [p \in Pages |-> FALSE]
  /\ wire = [p \in Pages |-> <<>>]
  /\ shown = [p \in Pages |-> NoList]

-----------------------------------------------------------------------------
(* announce_room.                                                           *)

\* The peer loop spawns the task once the room is subscribed.
RoomOpens(r) ==
  /\ open[r] = "no"
  /\ open' = [open EXCEPT ![r] = "open"]
  /\ annc' = [annc EXCEPT ![r] = "connecting"]
  /\ UNCHANGED <<up, starts, reg, rooms, version, pageVars>>

RoomEnds(r) ==
  /\ open[r] = "open"
  /\ open' = [open EXCEPT ![r] = "over"]
  /\ UNCHANGED <<annc, up, starts, reg, rooms, version, pageVars>>

\* The hosting process dies with its room, and its connection closes.
HostDies(r) ==
  /\ open[r] = "open"
  /\ open' = [open EXCEPT ![r] = "over"]
  /\ annc' = [annc EXCEPT ![r] = "done"]
  /\ UNCHANGED <<up, starts, reg, rooms, version, pageVars>>

\* Connect and send the announcement.
AnnounceConnects(r) ==
  /\ annc[r] = "connecting" /\ up
  /\ annc' = [annc EXCEPT ![r] = "announced"]
  /\ reg' = [reg EXCEPT ![r] = "accepted"]
  /\ UNCHANGED <<open, up, starts, rooms, version, pageVars>>

\* The registry is not there, and the task returns.
AnnounceFails(r) ==
  /\ annc[r] = "connecting" /\ ~up
  /\ annc' = [annc EXCEPT ![r] = "done"]
  /\ UNCHANGED <<open, up, starts, reg, rooms, version, pageVars>>

\* The room is over, also if it ended while the task was connecting.
AnnounceStops(r) ==
  /\ annc[r] = "announced" /\ open[r] = "over"
  /\ annc' = [annc EXCEPT ![r] = "done"]
  /\ UNCHANGED <<open, up, starts, reg, rooms, version, pageVars>>

\* The connection is closed from the other side, and the task returns.
AnnounceDropped(r) ==
  /\ annc[r] = "announced" /\ reg[r] = "gone"
  /\ annc' = [annc EXCEPT ![r] = "done"]
  /\ UNCHANGED <<open, up, starts, reg, rooms, version, pageVars>>

-----------------------------------------------------------------------------
(* The registry.                                                            *)

RegistryStarts ==
  /\ ~up /\ starts < MaxStarts
  /\ up' = TRUE /\ starts' = starts + 1
  /\ UNCHANGED <<open, annc, reg, rooms, version, pageVars>>

\* Ctrl-c drops run_registry with all its handlers; a crash is no different.
RegistryStops ==
  /\ up
  /\ up' = FALSE
  /\ rooms' = {} /\ version' = version + 1
  /\ reg' = [r \in Rooms |-> IF reg[r] = "none" THEN "none" ELSE "gone"]
  /\ page' = [p \in Pages |-> IF page[p] \in {"opened", "subscribed", "live"}
                                THEN "lost" ELSE page[p]]
  /\ listQ' = [p \in Pages |-> <<>>]
  /\ missed' = [p \in Pages |-> FALSE]
  /\ UNCHANGED <<open, annc, starts, conns, wire, shown>>

HasList(p) == page[p] \in {"subscribed", "live"}

\* Fault: nothing makes room for a new list.
SendListUnbounded ==
  /\ version' = version + 1
  /\ listQ' = [p \in Pages |->
       IF HasList(p) THEN Append(listQ[p], [ver |-> version', list |-> rooms'])
       ELSE listQ[p]]
  /\ UNCHANGED missed

\* list_tx.send, under the lock of the map: a full receiver loses its oldest
\* list and is told so at its next recv.
SendList ==
  /\ version' = version + 1
  /\ listQ' = [p \in Pages |->
       IF ~HasList(p) THEN listQ[p]
       ELSE Append(IF Len(listQ[p]) = ListCap THEN Tail(listQ[p]) ELSE listQ[p],
                   [ver |-> version', list |-> rooms'])]
  /\ missed' = [p \in Pages |->
       missed[p] \/ (HasList(p) /\ Len(listQ[p]) = ListCap)]

\* The handler reads the announcement and files the room.
Insert(r) ==
  /\ up /\ reg[r] = "accepted"
  /\ reg' = [reg EXCEPT ![r] = "listed"]
  /\ rooms' = rooms \cup {r}
  /\ SendList
  /\ UNCHANGED <<open, annc, up, starts, page, conns, wire, shown>>

\* Fault: the room is pruned, and nobody is told.
PruneSilently(r) ==
  /\ up /\ reg[r] = "listed" /\ annc[r] = "done"
  /\ reg' = [reg EXCEPT ![r] = "gone"]
  /\ rooms' = rooms \ {r}
  /\ version' = version + 1
  /\ UNCHANGED <<open, annc, up, starts, pageVars>>

\* Fault: a connection that says nothing is taken for closed.
PruneQuiet(r) ==
  /\ up /\ reg[r] = "listed"
  /\ reg' = [reg EXCEPT ![r] = "gone"]
  /\ rooms' = rooms \ {r}
  /\ SendList
  /\ UNCHANGED <<open, annc, up, starts, page, conns, wire, shown>>

\* The connection is closed: prune the room.
Prune(r) ==
  /\ up /\ reg[r] = "listed" /\ annc[r] = "done"
  /\ reg' = [reg EXCEPT ![r] = "gone"]
  /\ rooms' = rooms \ {r}
  /\ SendList
  /\ UNCHANGED <<open, annc, up, starts, page, conns, wire, shown>>

\* The handler of a page reads its role and subscribes to the updates ...
Subscribe(p) ==
  /\ page[p] = "opened"
  /\ page' = [page EXCEPT ![p] = "subscribed"]
  /\ UNCHANGED <<regVars, conns, listQ, missed, wire, shown>>

\* ... then sends the current list ...
Snapshot(p) ==
  /\ page[p] = "subscribed"
  /\ page' = [page EXCEPT ![p] = "live"]
  /\ wire' = [wire EXCEPT ![p] = Append(@, Current)]
  /\ UNCHANGED <<regVars, conns, listQ, missed, shown>>

\* ... and every update; a lagged one is made up for by the current list.
Forward(p) ==
  /\ page[p] = "live" /\ ~missed[p] /\ listQ[p] # <<>>
  /\ wire' = [wire EXCEPT ![p] = Append(@, Head(listQ[p]))]
  /\ listQ' = [listQ EXCEPT ![p] = Tail(@)]
  /\ UNCHANGED <<regVars, page, conns, missed, shown>>

Resend(p) ==
  /\ page[p] = "live" /\ missed[p]
  /\ wire' = [wire EXCEPT ![p] = Append(@, Current)]
  /\ missed' = [missed EXCEPT ![p] = FALSE]
  /\ UNCHANGED <<regVars, page, conns, listQ, shown>>

-----------------------------------------------------------------------------
(* useRoomDirectory.                                                        *)

\* The first connect, or the reconnect timer.
PageConnects(p) ==
  /\ page[p] = "waiting" /\ conns[p] < MaxConns
  /\ page' = [page EXCEPT ![p] = "connecting"]
  /\ conns' = [conns EXCEPT ![p] = @ + 1]
  /\ UNCHANGED <<regVars, listQ, missed, wire, shown>>

PageOpened(p) ==
  /\ page[p] = "connecting" /\ up
  /\ page' = [page EXCEPT ![p] = "opened"]
  /\ UNCHANGED <<regVars, conns, listQ, missed, wire, shown>>

PageReceives(p) ==
  /\ wire[p] # <<>>
  /\ shown' = [shown EXCEPT ![p] = Head(wire[p])]
  /\ wire' = [wire EXCEPT ![p] = Tail(@)]
  /\ UNCHANGED <<regVars, page, conns, listQ, missed>>

\* Fault: the list stays on the page while the registry is away.
PageClosedKeepsList(p) ==
  /\ \/ page[p] = "lost"
     \/ page[p] = "connecting" /\ ~up
  /\ page' = [page EXCEPT ![p] = "waiting"]
  /\ wire' = [wire EXCEPT ![p] = <<>>]
  /\ UNCHANGED <<regVars, conns, listQ, missed, shown>>

\* onclose: no stale rooms while the registry is away.  A failed connect ends
\* here as well.
PageClosed(p) ==
  /\ \/ page[p] = "lost"
     \/ page[p] = "connecting" /\ ~up
  /\ page' = [page EXCEPT ![p] = "waiting"]
  /\ wire' = [wire EXCEPT ![p] = <<>>]
  /\ shown' = [shown EXCEPT ![p] = NoList]
  /\ UNCHANGED <<regVars, conns, listQ, missed>>

-----------------------------------------------------------------------------

Announcer(r) ==
  AnnounceConnects(r) \/ AnnounceFails(r) \/ AnnounceStops(r) \/ AnnounceDropped(r)

RoomHandler(r) == Insert(r) \/ Prune(r)

PageHandler(p) == Subscribe(p) \/ Snapshot(p) \/ Forward(p) \/ Resend(p)

Page(p) == PageOpened(p) \/ PageReceives(p) \/ PageClosed(p)

Next ==
  \/ RegistryStarts \/ RegistryStops
  \/ \E r \in Rooms :
       RoomOpens(r) \/ RoomEnds(r) \/ HostDies(r) \/ Announcer(r) \/ RoomHandler(r)
  \/ \E p \in Pages : PageHandler(p) \/ Page(p) \/ PageConnects(p)

Spec == Init /\ [][Next]_vars

\* Tasks that can go on are polled, a socket delivers what was sent and tells
\* of its end, and a page reconnects while the bound allows.
FairSpec ==
  /\ Spec
  /\ \A r \in Rooms : WF_vars(Announcer(r)) /\ WF_vars(RoomHandler(r))
  /\ \A p \in Pages : /\ WF_vars(PageHandler(p)) /\ WF_vars(Page(p))
                      /\ WF_vars(PageConnects(p))

-----------------------------------------------------------------------------
(* Properties.                                                              *)

Lists == [ver : Nat, list : SUBSET Rooms]

TypeOK ==
  /\ open \in [Rooms -> {"no", "open", "over"}]
  /\ annc \in [Rooms -> {"none", "connecting", "announced", "done"}]
  /\ up \in BOOLEAN /\ starts \in 0 .. MaxStarts
  /\ reg \in [Rooms -> {"none", "accepted", "listed", "gone"}]
  /\ rooms \subseteq Rooms /\ version \in Nat
  /\ page \in [Pages -> {"waiting", "connecting", "opened", "subscribed", "live", "lost"}]
  /\ conns \in [Pages -> 0 .. MaxConns]
  /\ listQ \in [Pages -> Seq(Lists)] /\ \A p \in Pages : Len(listQ[p]) <= ListCap
  /\ missed \in [Pages -> BOOLEAN]
  /\ wire \in [Pages -> Seq(Lists)]
  /\ shown \in [Pages -> Lists]

\* A page that has caught up shows the registry's rooms: no update falls
\* between the snapshot and the subscription, nor into a lag.
CaughtUp ==
  \A p \in Pages :
    page[p] = "live" /\ listQ[p] = <<>> /\ wire[p] = <<>> /\ ~missed[p]
      => shown[p].list = rooms

\* A room that is over leaves every page for good, also a page that missed
\* updates, and also when its host or the registry died.
OverIsGone ==
  \A r \in Rooms, p \in Pages :
    [](open[r] = "over" => <>[](r \notin shown[p].list))

\* "liveness = room alive" (run_registry): a room that was listed and stays
\* open is listed by a registry that stays up.  After a restart of the registry
\* it is not: announce_room returns with its first connection.
AliveIsListed ==
  \A r \in Rooms :
    [](r \in rooms /\ [](open[r] = "open") /\ <>[]up => <>[](r \in rooms))

\* The lists a page may still be shown: sent, to be sent, and the current one if
\* the handler owes a snapshot.
Ahead(p) ==
  {e.list : e \in ToSet(wire[p]) \cup ToSet(listQ[p])}
    \cup IF page[p] = "subscribed" \/ missed[p] THEN {rooms} ELSE {}

Directory == INSTANCE RoomDirectory WITH
  listed <- rooms,
  gone   <- {r \in Rooms : reg[r] = "gone"},
  linked <- {p \in Pages : HasList(p)},
  ahead  <- [p \in Pages |-> Ahead(p)],
  shown  <- [p \in Pages |-> shown[p].list]

\* The registry keeps the promises of RoomDirectory to hosts and pages: a listed
\* room stays until it is over and never comes back, and whatever a page is shown
\* on the way, of lists skipped, repeated or out of order, none is of an earlier
\* connection and the last one is the directory.
ImplementsDirectory == Directory!Spec
=============================================================================
