--------------------------- MODULE RoomDirectory ---------------------------
(***************************************************************************)
(* What the room registry promises to the hosts of rooms and to the        *)
(* landing pages, whatever connections, channels and tasks it takes.  A    *)
(* room is listed once, and goes only when it is over or the registry      *)
(* stops.  A linked page is owed lists: they may come late, twice, in      *)
(* another order or not at all, but never from an earlier link, and the    *)
(* last one to come is the current one.  RoomRegistry implements this.     *)
(***************************************************************************)
CONSTANTS Rooms, Pages

VARIABLES
  open,    \* each room: "no", "open" or "over"
  up,      \* the registry is running
  listed,  \* the rooms of its directory
  gone,    \* rooms that are not listed any more, or never will be
  linked,  \* the pages that are told of changes
  ahead,   \* the lists each page may still be shown
  shown    \* the list it shows

vars == <<open, up, listed, gone, linked, ahead, shown>>

Init ==
  /\ open = [r \in Rooms |-> "no"]
  /\ up = FALSE /\ listed = {} /\ gone = {} /\ linked = {}
  /\ ahead = [p \in Pages |-> {}] /\ shown = [p \in Pages |-> {}]

Open(r) ==
  /\ open[r] = "no" /\ open' = [open EXCEPT ![r] = "open"]
  /\ UNCHANGED <<up, listed, gone, linked, ahead, shown>>

End(r) ==
  /\ open[r] = "open" /\ open' = [open EXCEPT ![r] = "over"]
  /\ UNCHANGED <<up, listed, gone, linked, ahead, shown>>

\* The new directory is ahead of every linked page; earlier lists may be skipped.
Tell ==
  /\ ahead' \in [Pages -> SUBSET SUBSET Rooms]
  /\ \A p \in Pages :
       IF p \in linked THEN listed' \in ahead'[p] /\ ahead'[p] \subseteq ahead[p] \cup {listed'}
       ELSE ahead'[p] = ahead[p]

List(r) ==
  /\ up /\ open[r] # "no" /\ r \notin listed \cup gone
  /\ listed' = listed \cup {r}
  /\ Tell
  /\ UNCHANGED <<open, up, gone, linked, shown>>

Unlist(r) ==
  /\ up /\ open[r] = "over" /\ r \in listed
  /\ listed' = listed \ {r} /\ gone' = gone \cup {r}
  /\ Tell
  /\ UNCHANGED <<open, up, linked, shown>>

Start ==
  /\ ~up /\ up' = TRUE
  /\ UNCHANGED <<open, listed, gone, linked, ahead, shown>>

\* What was announced is forgotten, and is not announced again.  Lists on their
\* way may still come.
Stop ==
  /\ up /\ up' = FALSE
  /\ listed' = {} /\ linked' = {}
  /\ gone' \in SUBSET {r \in Rooms : open[r] # "no"} /\ gone \cup listed \subseteq gone'
  /\ ahead' \in [Pages -> SUBSET SUBSET Rooms]
  /\ \A p \in Pages : ahead'[p] \subseteq ahead[p]
  /\ UNCHANGED <<open, shown>>

\* A page is linked with nothing left of an earlier link.
Link(p) ==
  /\ up /\ p \notin linked /\ ahead[p] = {} /\ shown[p] = {}
  /\ linked' = linked \cup {p} /\ ahead' = [ahead EXCEPT ![p] = {listed}]
  /\ UNCHANGED <<open, up, listed, gone, shown>>

\* A list comes; the last one a linked page is shown is the current one.
See(p) ==
  \E list \in ahead[p], rest \in SUBSET ahead[p] :
    /\ p \in linked /\ rest = {} => list = listed
    /\ shown' = [shown EXCEPT ![p] = list] /\ ahead' = [ahead EXCEPT ![p] = rest]
    /\ UNCHANGED <<open, up, listed, gone, linked>>

\* A page that has lost its link shows nothing.
Clear(p) ==
  /\ p \notin linked
  /\ shown' = [shown EXCEPT ![p] = {}] /\ ahead' = [ahead EXCEPT ![p] = {}]
  /\ UNCHANGED <<open, up, listed, gone, linked>>

Next ==
  \/ Start \/ Stop
  \/ \E r \in Rooms : Open(r) \/ End(r) \/ List(r) \/ Unlist(r)
  \/ \E p \in Pages : Link(p) \/ See(p) \/ Clear(p)

Spec == Init /\ [][Next]_vars
=============================================================================
