------------------------- MODULE RoomRegistryProofs -------------------------
(***************************************************************************)
(* Safety of the room registry for every number of rooms and pages and     *)
(* every capacity of the list channel.                                     *)
(***************************************************************************)
EXTENDS RoomRegistry, TLAPS

\* The lists on their way to a page, and the newest of them.
LEMMA AppendLast ==
  ASSUME NEW S, NEW q \in Seq(S), NEW e \in S
  PROVE  /\ Append(q, e) \in Seq(S) /\ Append(q, e) # <<>>
         /\ Len(Append(q, e)) = Len(q) + 1
         /\ Append(q, e)[Len(Append(q, e))] = e
  OBVIOUS

LEMMA TailLast ==
  ASSUME NEW S, NEW q \in Seq(S), q # <<>>
  PROVE  /\ Head(q) \in S /\ Tail(q) \in Seq(S) /\ Len(Tail(q)) = Len(q) - 1
         /\ Tail(q) # <<>> => Tail(q)[Len(Tail(q))] = q[Len(q)]
         /\ Tail(q) = <<>> => Head(q) = q[Len(q)]
<1>1. /\ Head(q) \in S /\ Tail(q) \in Seq(S) /\ Len(Tail(q)) = Len(q) - 1
      /\ Len(q) \in Nat \ {0} /\ Head(q) = q[1]
  OBVIOUS
<1>2. Tail(q) # <<>> => Tail(q)[Len(Tail(q))] = q[Len(q)]
  <2>1. \A i \in 1 .. Len(q) - 1 : Tail(q)[i] = q[i + 1]
    OBVIOUS
  <2>2. Tail(q) # <<>> => Len(Tail(q)) \in 1 .. Len(q) - 1
    BY <1>1
  <2> QED
    BY <1>1, <2>1, <2>2
<1>3. Tail(q) = <<>> => Len(q) = 1
  BY <1>1
<1> QED
  BY <1>1, <1>2, <1>3

-----------------------------------------------------------------------------
(* Type correctness.                                                        *)

LEMMA InitType == Init => TypeOK
<1> SUFFICES ASSUME Init PROVE TypeOK
  OBVIOUS
<1>1. NoList \in Lists
  BY DEF NoList, Lists
<1>2. listQ \in [Pages -> Seq(Lists)] /\ wire \in [Pages -> Seq(Lists)]
  BY DEF Init
<1>3. \A p \in Pages : Len(listQ[p]) <= ListCap
  BY RegistryAssumption DEF Init
<1>4. /\ conns \in [Pages -> 0 .. MaxConns] /\ starts \in 0 .. MaxStarts
      /\ shown \in [Pages -> Lists]
  BY <1>1, RegistryAssumption DEF Init
<1> QED
  BY <1>2, <1>3, <1>4 DEF Init, TypeOK

\* A list that was sent has its type, and the channel keeps to its capacity.
LEMMA SendListType ==
  ASSUME TypeOK, SendList, rooms' \subseteq Rooms
  PROVE  /\ version' \in Nat /\ [ver |-> version', list |-> rooms'] \in Lists
         /\ listQ' \in [Pages -> Seq(Lists)]
         /\ \A p \in Pages : Len(listQ'[p]) <= ListCap
         /\ missed' \in [Pages -> BOOLEAN]
<1> DEFINE e == [ver |-> version', list |-> rooms']
           q(p) == IF ~HasList(p) THEN listQ[p]
                   ELSE Append(IF Len(listQ[p]) = ListCap THEN Tail(listQ[p]) ELSE listQ[p], e)
<1>1. version' \in Nat /\ e \in Lists
  BY DEF TypeOK, SendList, Lists
<1>2. listQ' = [p \in Pages |-> q(p)]
  BY DEF SendList
<1>3. ASSUME NEW p \in Pages PROVE q(p) \in Seq(Lists) /\ Len(q(p)) <= ListCap
  <2> HIDE DEF e
  <2>1. listQ[p] \in Seq(Lists) /\ Len(listQ[p]) <= ListCap /\ Len(listQ[p]) \in Nat
    BY DEF TypeOK
  <2>2. CASE Len(listQ[p]) = ListCap
    <3>1. Tail(listQ[p]) \in Seq(Lists) /\ Len(Tail(listQ[p])) = ListCap - 1
      BY <2>1, <2>2, TailLast, RegistryAssumption
    <3> QED
      BY <1>1, <2>1, <2>2, <3>1, AppendLast, RegistryAssumption
  <2>3. CASE Len(listQ[p]) # ListCap
    BY <1>1, <2>1, <2>3, AppendLast, RegistryAssumption
  <2> QED
    BY <2>2, <2>3
<1> HIDE DEF q
<1>4. missed' \in [Pages -> BOOLEAN]
  BY DEF TypeOK, SendList, HasList
<1> QED
  BY <1>1, <1>2, <1>3, <1>4

LEMMA RoomsType ==
  ASSUME TypeOK, NEW r \in Rooms,
         RoomOpens(r) \/ RoomEnds(r) \/ HostDies(r) \/ Announcer(r) \/ RoomHandler(r)
  PROVE  TypeOK'
<1> USE DEF pageVars
<1>1. CASE RoomOpens(r) \/ RoomEnds(r) \/ HostDies(r) \/ Announcer(r)
  BY <1>1 DEF TypeOK, RoomOpens, RoomEnds, HostDies, Announcer, AnnounceConnects,
              AnnounceFails, AnnounceStops, AnnounceDropped
<1>2. CASE RoomHandler(r)
  <2>1. SendList /\ rooms' \subseteq Rooms /\ reg' \in [Rooms -> {"none", "accepted", "listed", "gone"}]
    BY <1>2 DEF TypeOK, RoomHandler, Insert, Prune
  <2>2. UNCHANGED <<open, annc, up, starts, page, conns, wire, shown>>
    BY <1>2 DEF RoomHandler, Insert, Prune
  <2> QED
    BY <2>1, <2>2, SendListType DEF TypeOK
<1> QED
  BY <1>1, <1>2

LEMMA RegistryType ==
  ASSUME TypeOK, RegistryStarts \/ RegistryStops
  PROVE  TypeOK'
<1>1. CASE RegistryStarts
  BY <1>1, RegistryAssumption DEF TypeOK, RegistryStarts, pageVars
<1>2. CASE RegistryStops
  <2>1. /\ listQ' \in [Pages -> Seq(Lists)]
        /\ \A p \in Pages : Len(listQ'[p]) <= ListCap
    BY <1>2, RegistryAssumption DEF RegistryStops
  <2>2. /\ page' \in [Pages -> {"waiting", "connecting", "opened", "subscribed", "live", "lost"}]
        /\ reg' \in [Rooms -> {"none", "accepted", "listed", "gone"}]
        /\ missed' \in [Pages -> BOOLEAN]
    BY <1>2 DEF TypeOK, RegistryStops
  <2>3. up' = FALSE /\ UNCHANGED <<open, annc, starts, conns, wire, shown>>
    BY <1>2 DEF RegistryStops
  <2>4. rooms' \subseteq Rooms /\ version' \in Nat
    BY <1>2 DEF TypeOK, RegistryStops
  <2> QED
    BY <2>1, <2>2, <2>3, <2>4 DEF TypeOK
<1> QED
  BY <1>1, <1>2

LEMMA CurrentType == TypeOK => Current \in Lists
  BY DEF TypeOK, Current, Lists

LEMMA PagesType ==
  ASSUME TypeOK, NEW p \in Pages, PageHandler(p) \/ Page(p) \/ PageConnects(p)
  PROVE  TypeOK'
<1> USE DEF regVars
<1>0. listQ[p] \in Seq(Lists) /\ wire[p] \in Seq(Lists) /\ Current \in Lists
  BY CurrentType DEF TypeOK
<1>1. CASE Subscribe(p) \/ PageConnects(p) \/ PageOpened(p)
  <2>1. /\ page' \in [Pages -> {"waiting", "connecting", "opened", "subscribed", "live", "lost"}]
        /\ UNCHANGED <<regVars, listQ, missed, wire, shown>>
    BY <1>1 DEF TypeOK, Subscribe, PageConnects, PageOpened
  <2>2. conns' \in [Pages -> 0 .. MaxConns]
    <3>1. CASE conns' = conns
      BY <3>1 DEF TypeOK
    <3>2. CASE conns[p] < MaxConns /\ conns' = [conns EXCEPT ![p] = @ + 1]
      BY <3>2, RegistryAssumption DEF TypeOK
    <3> QED
      BY <1>1, <3>1, <3>2 DEF Subscribe, PageConnects, PageOpened
  <2> QED
    BY <2>1, <2>2 DEF TypeOK
<1>2. CASE Snapshot(p) \/ Resend(p)
  <2>1. Append(wire[p], Current) \in Seq(Lists)
    BY <1>0
  <2>2. wire' \in [Pages -> Seq(Lists)]
    BY <1>2, <2>1 DEF TypeOK, Snapshot, Resend
  <2> QED
    BY <1>2, <2>2 DEF TypeOK, Snapshot, Resend
<1>3. CASE Forward(p)
  <2>1. /\ Append(wire[p], Head(listQ[p])) \in Seq(Lists)
        /\ Tail(listQ[p]) \in Seq(Lists) /\ Len(Tail(listQ[p])) <= ListCap
    <3>1. Head(listQ[p]) \in Lists /\ Tail(listQ[p]) \in Seq(Lists)
          /\ Len(Tail(listQ[p])) = Len(listQ[p]) - 1
      BY <1>0, <1>3, TailLast DEF Forward
    <3>2. Len(listQ[p]) \in Nat /\ Len(listQ[p]) <= ListCap
      BY <1>0 DEF TypeOK
    <3> QED
      BY <1>0, <3>1, <3>2, RegistryAssumption
  <2>2. /\ wire' \in [Pages -> Seq(Lists)] /\ listQ' \in [Pages -> Seq(Lists)]
        /\ \A o \in Pages : Len(listQ'[o]) <= ListCap
    BY <1>3, <2>1 DEF TypeOK, Forward
  <2> QED
    BY <1>3, <2>2 DEF TypeOK, Forward
<1>4. CASE PageReceives(p)
  <2>1. Head(wire[p]) \in Lists /\ Tail(wire[p]) \in Seq(Lists)
    BY <1>0, <1>4, TailLast DEF PageReceives
  <2> QED
    BY <1>4, <2>1 DEF TypeOK, PageReceives
<1>5. CASE PageClosed(p)
  <2>1. NoList \in Lists
    BY DEF NoList, Lists
  <2>2. wire' \in [Pages -> Seq(Lists)]
    <3>1. <<>> \in Seq(Lists)
      OBVIOUS
    <3> QED
      BY <1>5, <3>1 DEF TypeOK, PageClosed
  <2>3. /\ shown' \in [Pages -> Lists]
        /\ page' \in [Pages -> {"waiting", "connecting", "opened", "subscribed", "live", "lost"}]
    BY <1>5, <2>1 DEF TypeOK, PageClosed
  <2> QED
    BY <1>5, <2>2, <2>3 DEF TypeOK, PageClosed
<1> QED
  BY <1>1, <1>2, <1>3, <1>4, <1>5 DEF PageHandler, Page

\* Every reachable state has its type, and no receiver of lists holds more than
\* the channel does.
THEOREM TypeCorrect == Spec => []TypeOK
<1>1. Init => TypeOK
  BY InitType
<1>2. TypeOK /\ [Next]_vars => TypeOK'
  <2> SUFFICES ASSUME TypeOK, [Next]_vars PROVE TypeOK'
    OBVIOUS
  <2>1. CASE Next
    BY <2>1, RoomsType, RegistryType, PagesType DEF Next
  <2>2. CASE UNCHANGED vars
    BY <2>2 DEF TypeOK, vars, regVars, pageVars
  <2> QED
    BY <2>1, <2>2
<1> QED
  BY <1>1, <1>2, PTL DEF Spec

-----------------------------------------------------------------------------
(* A page that has caught up shows the registry's rooms.  The invariant     *)
(* follows the newest list: while the handler has any left in its receiver, *)
(* the last of them is the current one; once it has none, the current one   *)
(* is the last on the wire or on the page.                                  *)

Latest(q) == q[Len(q)]

PageInv(p) ==
  /\ ~HasList(p) => listQ[p] = <<>>
  /\ listQ[p] # <<>> => Latest(listQ[p]) = Current
  /\ page[p] = "live" /\ listQ[p] = <<>> /\ ~missed[p] =>
       IF wire[p] = <<>> THEN shown[p] = Current ELSE Latest(wire[p]) = Current

DirectoryInv == \A p \in Pages : PageInv(p)

LEMMA InitDirectory == Init => DirectoryInv
  BY DEF Init, DirectoryInv, PageInv, HasList

\* A page whose variables stay, while the registry's map does, keeps its part.
LEMMA PageUntouched ==
  ASSUME NEW p \in Pages, PageInv(p), UNCHANGED <<rooms, version>>,
         UNCHANGED <<page[p], listQ[p], missed[p], wire[p], shown[p]>>
  PROVE  PageInv(p)'
  BY DEF PageInv, HasList, Current

\* Every page that has a receiver holds the new list as its newest.
LEMMA SendListKeeps ==
  ASSUME TypeOK, DirectoryInv, SendList, rooms' \subseteq Rooms,
         UNCHANGED <<page, wire, shown>>
  PROVE  DirectoryInv'
<1> SUFFICES ASSUME NEW p \in Pages PROVE PageInv(p)'
  BY DEF DirectoryInv
<1>0. PageInv(p)
  BY DEF DirectoryInv
<1> DEFINE e == [ver |-> version', list |-> rooms']
           rest == IF Len(listQ[p]) = ListCap THEN Tail(listQ[p]) ELSE listQ[p]
<1>1. CASE HasList(p)
  <2>1. listQ'[p] = Append(rest, e)
    BY <1>1 DEF SendList, TypeOK
  <2>2. rest \in Seq(Lists)
    <3>1. listQ[p] \in Seq(Lists)
      BY DEF TypeOK
    <3>2. Len(listQ[p]) = ListCap => listQ[p] # <<>>
      BY <3>1, RegistryAssumption
    <3> QED
      BY <3>1, <3>2, TailLast
  <2>3. e \in Lists
    BY SendListType
  <2>4. e = Current'
    BY DEF Current
  <2> HIDE DEF rest, e
  <2>5. listQ'[p] # <<>> /\ Latest(listQ'[p]) = Current'
    BY <2>1, <2>2, <2>3, <2>4, AppendLast DEF Latest
  <2> QED
    BY <1>1, <2>5 DEF PageInv, HasList, Latest
<1>2. CASE ~HasList(p)
  <2>1. listQ'[p] = listQ[p] /\ listQ[p] = <<>>
    BY <1>0, <1>2 DEF SendList, TypeOK, PageInv
  <2> QED
    BY <1>2, <2>1 DEF PageInv, HasList
<1> QED
  BY <1>1, <1>2

LEMMA RoomsKeepDirectory ==
  ASSUME TypeOK, DirectoryInv, NEW r \in Rooms,
         RoomOpens(r) \/ RoomEnds(r) \/ HostDies(r) \/ Announcer(r) \/ RoomHandler(r)
  PROVE  DirectoryInv'
<1>1. CASE RoomOpens(r) \/ RoomEnds(r) \/ HostDies(r) \/ Announcer(r)
  <2>1. UNCHANGED <<rooms, version, pageVars>>
    BY <1>1 DEF RoomOpens, RoomEnds, HostDies, Announcer, AnnounceConnects,
                AnnounceFails, AnnounceStops, AnnounceDropped
  <2> QED
    BY <2>1, PageUntouched DEF DirectoryInv, pageVars
<1>2. CASE RoomHandler(r)
  <2>1. SendList /\ rooms' \subseteq Rooms /\ UNCHANGED <<page, wire, shown>>
    BY <1>2 DEF TypeOK, RoomHandler, Insert, Prune
  <2> QED
    BY <2>1, SendListKeeps
<1> QED
  BY <1>1, <1>2

LEMMA RegistryKeepsDirectory ==
  ASSUME TypeOK, DirectoryInv, RegistryStarts \/ RegistryStops
  PROVE  DirectoryInv'
<1>1. CASE RegistryStarts
  BY <1>1, PageUntouched DEF RegistryStarts, DirectoryInv, pageVars
<1>2. CASE RegistryStops
  <2> SUFFICES ASSUME NEW p \in Pages PROVE PageInv(p)'
    BY DEF DirectoryInv
  <2>1. listQ'[p] = <<>> /\ page'[p] # "live"
    BY <1>2 DEF RegistryStops
  <2> QED
    BY <2>1 DEF PageInv
<1> QED
  BY <1>1, <1>2

LEMMA OtherPages ==
  ASSUME TypeOK, NEW p \in Pages, PageHandler(p) \/ Page(p) \/ PageConnects(p)
  PROVE  \A o \in Pages \ {p} :
           UNCHANGED <<page[o], listQ[o], missed[o], wire[o], shown[o]>>
  BY DEF TypeOK, PageHandler, Page, Subscribe, Snapshot, Forward, Resend, PageConnects,
         PageOpened, PageReceives, PageClosed

LEMMA PagesKeepDirectory ==
  ASSUME TypeOK, DirectoryInv,
         NEW p \in Pages, PageHandler(p) \/ Page(p) \/ PageConnects(p)
  PROVE  DirectoryInv'
<1> USE DEF regVars
<1>0. /\ listQ[p] \in Seq(Lists) /\ wire[p] \in Seq(Lists) /\ Current \in Lists
      /\ PageInv(p)
  BY CurrentType DEF TypeOK, DirectoryInv
<1>1. UNCHANGED <<rooms, version>>
  BY DEF PageHandler, Page, Subscribe, Snapshot, Forward, Resend, PageConnects,
         PageOpened, PageReceives, PageClosed
<1>2. Current' = Current
  BY <1>1 DEF Current
<1>3. SUFFICES PageInv(p)'
  BY <1>1, OtherPages, PageUntouched DEF DirectoryInv
<1>4. CASE Subscribe(p) \/ PageConnects(p) \/ PageOpened(p)
  BY <1>0, <1>2, <1>4
  DEF TypeOK, PageInv, HasList, Subscribe, PageConnects, PageOpened
<1>5. CASE Snapshot(p) \/ Resend(p)
  <2>1. wire'[p] = Append(wire[p], Current) /\ listQ'[p] = listQ[p] /\ page'[p] = "live"
    BY <1>5 DEF TypeOK, Snapshot, Resend
  <2>2. wire'[p] # <<>> /\ Latest(wire'[p]) = Current
    BY <1>0, <2>1, AppendLast DEF Latest
  <2> QED
    BY <1>0, <1>2, <2>1, <2>2 DEF PageInv, HasList, Latest
<1>6. CASE Forward(p)
  <2>1. /\ listQ[p] # <<>> /\ listQ'[p] = Tail(listQ[p]) /\ page'[p] = "live"
        /\ wire'[p] = Append(wire[p], Head(listQ[p]))
    BY <1>6 DEF TypeOK, Forward
  <2>2. Latest(listQ[p]) = Current
    BY <1>0, <2>1 DEF PageInv
  <2>3. listQ'[p] # <<>> => Latest(listQ'[p]) = Current
    BY <1>0, <2>1, <2>2, TailLast DEF Latest
  <2>4. Head(listQ[p]) \in Lists /\ (listQ'[p] = <<>> => Head(listQ[p]) = Current)
    BY <1>0, <2>1, <2>2, TailLast DEF Latest
  <2>5. wire'[p] # <<>> /\ (listQ'[p] = <<>> => Latest(wire'[p]) = Current)
    <3>1. PICK q, h : q = wire[p] /\ h = Head(listQ[p])
      OBVIOUS
    <3>2. q \in Seq(Lists) /\ h \in Lists
      BY <1>0, <2>4, <3>1
    <3>3. Append(q, h) # <<>> /\ Append(q, h)[Len(Append(q, h))] = h
      BY ONLY <3>2, AppendLast
    <3>4. wire'[p] = Append(q, h) /\ (listQ'[p] = <<>> => h = Current)
      BY <2>1, <2>4, <3>1
    <3> QED
      BY ONLY <3>3, <3>4 DEF Latest
  <2> QED
    BY <1>2, <2>1, <2>3, <2>5 DEF PageInv, HasList, Latest
<1>7. CASE PageReceives(p)
  <2>1. /\ wire[p] # <<>> /\ wire'[p] = Tail(wire[p]) /\ shown'[p] = Head(wire[p])
        /\ UNCHANGED <<page, listQ, missed>>
    BY <1>7 DEF TypeOK, PageReceives
  <2>2. /\ wire'[p] # <<>> => Latest(wire'[p]) = Latest(wire[p])
        /\ wire'[p] = <<>> => shown'[p] = Latest(wire[p])
    BY <1>0, <2>1, TailLast DEF Latest
  <2> QED
    BY <1>0, <1>2, <2>1, <2>2 DEF PageInv, HasList, Latest
<1>8. CASE PageClosed(p)
  <2>1. page'[p] = "waiting" /\ listQ' = listQ /\ ~HasList(p)
    BY <1>8 DEF TypeOK, PageClosed, HasList
  <2> QED
    BY <1>0, <2>1 DEF PageInv, HasList
<1> QED
  BY <1>4, <1>5, <1>6, <1>7, <1>8 DEF PageHandler, Page

LEMMA DirectoryInvariant == Spec => []DirectoryInv
<1>1. Init => DirectoryInv
  BY InitDirectory
<1>2. TypeOK /\ DirectoryInv /\ [Next]_vars => DirectoryInv'
  <2> SUFFICES ASSUME TypeOK, DirectoryInv, [Next]_vars PROVE DirectoryInv'
    OBVIOUS
  <2>1. CASE Next
    BY <2>1, RoomsKeepDirectory, RegistryKeepsDirectory, PagesKeepDirectory DEF Next
  <2>2. CASE UNCHANGED vars
    BY <2>2, PageUntouched DEF DirectoryInv, vars, regVars, pageVars
  <2> QED
    BY <2>1, <2>2
<1> QED
  BY <1>1, <1>2, TypeCorrect, PTL DEF Spec

\* No page that has caught up shows another list than the registry's, in whatever
\* order subscription, snapshot, updates and lags came, through restarts of the
\* registry, for every capacity of the channel.
THEOREM DirectoryCorrect == Spec => []CaughtUp
<1>1. DirectoryInv => CaughtUp
  BY DEF DirectoryInv, PageInv, CaughtUp, Current
<1> QED
  BY <1>1, DirectoryInvariant, PTL

-----------------------------------------------------------------------------
(* The registry keeps the promises of RoomDirectory.  Besides what the      *)
(* newest lists say, the argument needs how far a room and its connection   *)
(* are, and that a page without a link has nothing of one left.             *)

RoomInv(r) ==
  /\ open[r] = "no" => annc[r] = "none"
  /\ annc[r] \in {"none", "connecting"} => reg[r] = "none"
  /\ reg[r] \in {"accepted", "listed"} => annc[r] = "announced" \/ open[r] = "over"
  /\ reg[r] \in {"accepted", "listed"} => up
  /\ r \in rooms <=> reg[r] = "listed"

LinkInv(p) ==
  /\ page[p] \in {"waiting", "connecting", "opened"} => wire[p] = <<>> /\ shown[p] = NoList
  /\ ~HasList(p) => listQ[p] = <<>> /\ ~missed[p]
  /\ page[p] \in {"opened", "subscribed", "live"} => up

PromiseInv == (\A r \in Rooms : RoomInv(r)) /\ (\A p \in Pages : LinkInv(p))

LEMMA InitPromise == Init => PromiseInv
  BY DEF Init, PromiseInv, RoomInv, LinkInv, HasList

LEMMA RoomsKeepPromise ==
  ASSUME TypeOK, PromiseInv, NEW r \in Rooms,
         RoomOpens(r) \/ RoomEnds(r) \/ HostDies(r) \/ Announcer(r) \/ RoomHandler(r)
  PROVE  PromiseInv'
<1>1. ASSUME NEW o \in Rooms PROVE RoomInv(o)'
  <2>1. RoomInv(o) /\ RoomInv(r)
    BY DEF PromiseInv
  <2>2. CASE RoomOpens(r) \/ RoomEnds(r) \/ HostDies(r)
    BY <2>1, <2>2 DEF TypeOK, RoomInv, RoomOpens, RoomEnds, HostDies
  <2>3. CASE Announcer(r)
    BY <2>1, <2>3 DEF TypeOK, RoomInv, Announcer, AnnounceConnects, AnnounceFails,
                      AnnounceStops, AnnounceDropped
  <2>4. CASE RoomHandler(r)
    BY <2>1, <2>4 DEF TypeOK, RoomInv, RoomHandler, Insert, Prune
  <2> QED
    BY <2>2, <2>3, <2>4
<1>2. ASSUME NEW p \in Pages PROVE LinkInv(p)'
  <2>1. LinkInv(p)
    BY DEF PromiseInv
  <2>2. CASE RoomOpens(r) \/ RoomEnds(r) \/ HostDies(r) \/ Announcer(r)
    BY <2>1, <2>2 DEF LinkInv, HasList, pageVars, RoomOpens, RoomEnds, HostDies, Announcer,
                      AnnounceConnects, AnnounceFails, AnnounceStops, AnnounceDropped
  <2>3. CASE RoomHandler(r)
    <3>1. SendList /\ UNCHANGED <<up, page, wire, shown>>
      BY <2>3 DEF RoomHandler, Insert, Prune
    <3>2. ~HasList(p) => listQ'[p] = listQ[p] /\ (missed'[p] <=> missed[p])
      BY <3>1 DEF SendList, TypeOK
    <3> QED
      BY <2>1, <3>1, <3>2 DEF LinkInv, HasList
  <2> QED
    BY <2>2, <2>3
<1> QED
  BY <1>1, <1>2 DEF PromiseInv

LEMMA RegistryKeepsPromise ==
  ASSUME TypeOK, PromiseInv, RegistryStarts \/ RegistryStops
  PROVE  PromiseInv'
<1>1. CASE RegistryStarts
  BY <1>1 DEF TypeOK, PromiseInv, RoomInv, LinkInv, HasList, RegistryStarts, pageVars
<1>2. CASE RegistryStops
  <2>1. ASSUME NEW r \in Rooms PROVE RoomInv(r)'
    BY <1>2 DEF TypeOK, PromiseInv, RoomInv, RegistryStops
  <2>2. ASSUME NEW p \in Pages PROVE LinkInv(p)'
    BY <1>2 DEF TypeOK, PromiseInv, LinkInv, HasList, RegistryStops
  <2> QED
    BY <2>1, <2>2 DEF PromiseInv
<1> QED
  BY <1>1, <1>2

LEMMA PagesKeepPromise ==
  ASSUME TypeOK, PromiseInv, NEW p \in Pages, PageHandler(p) \/ Page(p) \/ PageConnects(p)
  PROVE  PromiseInv'
<1> USE DEF regVars
<1>1. \A r \in Rooms : RoomInv(r)'
  BY DEF PromiseInv, RoomInv, PageHandler, Page, Subscribe, Snapshot, Forward, Resend,
         PageConnects, PageOpened, PageReceives, PageClosed
<1>2. ASSUME NEW o \in Pages PROVE LinkInv(o)'
  <2>1. LinkInv(o) /\ LinkInv(p)
    BY DEF PromiseInv
  <2>2. CASE Subscribe(p) \/ PageConnects(p) \/ PageOpened(p)
    BY <2>1, <2>2 DEF TypeOK, LinkInv, HasList, Subscribe, PageConnects, PageOpened
  <2>3. CASE Snapshot(p) \/ Forward(p) \/ Resend(p)
    BY <2>1, <2>3 DEF TypeOK, LinkInv, HasList, Snapshot, Forward, Resend
  <2>4. CASE PageReceives(p) \/ PageClosed(p)
    BY <2>1, <2>4 DEF TypeOK, LinkInv, HasList, PageReceives, PageClosed
  <2> QED
    BY <2>2, <2>3, <2>4 DEF PageHandler, Page
<1> QED
  BY <1>1, <1>2 DEF PromiseInv

LEMMA PromiseInvariant == Spec => []PromiseInv
<1>1. Init => PromiseInv
  BY InitPromise
<1>2. TypeOK /\ PromiseInv /\ [Next]_vars => PromiseInv'
  <2> SUFFICES ASSUME TypeOK, PromiseInv, [Next]_vars PROVE PromiseInv'
    OBVIOUS
  <2>1. CASE Next
    BY <2>1, RoomsKeepPromise, RegistryKeepsPromise, PagesKeepPromise DEF Next
  <2>2. CASE UNCHANGED vars
    BY <2>2 DEF PromiseInv, RoomInv, LinkInv, HasList, vars, regVars, pageVars
  <2> QED
    BY <2>1, <2>2
<1> QED
  BY <1>1, <1>2, TypeCorrect, PTL DEF Spec

\* What a sequence of lists carries.
Carried(q) == {e.list : e \in ToSet(q)}

Owed(p) == IF page[p] = "subscribed" \/ missed[p] THEN {rooms} ELSE {}

LEMMA AheadSplit ==
  /\ \A p : Ahead(p) = Carried(wire[p]) \cup Carried(listQ[p]) \cup Owed(p)
  /\ \A p : Ahead(p)' = Carried(wire'[p]) \cup Carried(listQ'[p]) \cup Owed(p)'
  BY DEF Ahead, Carried, Owed

LEMMA CarriedAppend ==
  ASSUME NEW S, NEW q \in Seq(S), NEW e \in S
  PROVE  Carried(Append(q, e)) = Carried(q) \cup {e.list}
<1>1. /\ Len(q) \in Nat /\ DOMAIN q = 1 .. Len(q) /\ DOMAIN Append(q, e) = 1 .. Len(q) + 1
      /\ Append(q, e)[Len(q) + 1] = e
      /\ \A i \in 1 .. Len(q) : Append(q, e)[i] = q[i]
  OBVIOUS
<1>2. ToSet(Append(q, e)) = ToSet(q) \cup {e}
  <2>1. 1 .. Len(q) + 1 = (1 .. Len(q)) \cup {Len(q) + 1}
    BY <1>1
  <2> QED
    BY <1>1, <2>1 DEF ToSet
<1> QED
  BY <1>2 DEF Carried

LEMMA CarriedTail ==
  ASSUME NEW S, NEW q \in Seq(S), q # <<>>
  PROVE  Carried(q) = {Head(q).list} \cup Carried(Tail(q))
<1>1. /\ Len(q) \in Nat \ {0} /\ DOMAIN q = 1 .. Len(q) /\ Head(q) = q[1]
      /\ DOMAIN Tail(q) = 1 .. Len(q) - 1
      /\ \A i \in 1 .. Len(q) - 1 : Tail(q)[i] = q[i + 1]
  OBVIOUS
<1>2. ToSet(q) = {Head(q)} \cup ToSet(Tail(q))
  <2>1. ASSUME NEW x \in ToSet(q) PROVE x \in {Head(q)} \cup ToSet(Tail(q))
    <3>1. PICK i \in 1 .. Len(q) : x = q[i]
      BY <1>1, <2>1 DEF ToSet
    <3>2. CASE i = 1
      BY <1>1, <3>1, <3>2
    <3>3. CASE i # 1
      <4>1. i - 1 \in 1 .. Len(q) - 1 /\ Tail(q)[i - 1] = x
        BY <1>1, <3>1, <3>3
      <4> QED
        BY <1>1, <4>1 DEF ToSet
    <3> QED
      BY <3>2, <3>3
  <2>2. ASSUME NEW x \in {Head(q)} \cup ToSet(Tail(q)) PROVE x \in ToSet(q)
    BY <1>1, <2>2 DEF ToSet
  <2> QED
    BY <2>1, <2>2
<1> QED
  BY <1>2 DEF Carried

LEMMA CarriedNothing ==
  ASSUME NEW S, NEW q \in Seq(S)
  PROVE  Carried(q) = {} <=> q = <<>>
<1>1. CASE q = <<>>
  BY <1>1 DEF Carried, ToSet
<1>2. CASE q # <<>>
  BY <1>2, CarriedTail
<1> QED
  BY <1>1, <1>2

LEMMA CarriedType ==
  ASSUME NEW q \in Seq(Lists)
  PROVE  Carried(q) \subseteq SUBSET Rooms
<1>1. ToSet(q) \subseteq Lists
  BY DEF ToSet
<1> QED
  BY <1>1 DEF Carried, Lists

LEMMA AheadType ==
  ASSUME TypeOK, NEW p \in Pages
  PROVE  Ahead(p) \subseteq SUBSET Rooms
<1>1. wire[p] \in Seq(Lists) /\ listQ[p] \in Seq(Lists)
  BY DEF TypeOK
<1>2. Owed(p) \subseteq SUBSET Rooms
  BY DEF Owed, TypeOK
<1> QED
  BY <1>1, <1>2, AheadSplit, CarriedType

\* The lists ahead of a page that nothing happened to.
LEMMA AheadKept ==
  ASSUME NEW p, UNCHANGED <<wire[p], listQ[p], missed[p], page[p]>>, UNCHANGED rooms
  PROVE  Ahead(p)' = Ahead(p)
  BY AheadSplit DEF Owed

Gone   == {r \in Rooms : reg[r] = "gone"}
Linked == {p \in Pages : HasList(p)}
AheadOf == [p \in Pages |-> Ahead(p)]
ShownOf == [p \in Pages |-> shown[p].list]

LEMMA DirectoryStutters ==
  ASSUME UNCHANGED <<open, up, rooms, Gone, Linked, AheadOf, ShownOf>>
  PROVE  UNCHANGED Directory!vars
  BY DEF Directory!vars, Gone, Linked, AheadOf, ShownOf

LEMMA InitRefines == Init => Directory!Init
<1> SUFFICES ASSUME Init PROVE Directory!Init
  OBVIOUS
<1>1. Gone = {} /\ Linked = {}
  BY DEF Init, Gone, Linked, HasList
<1>2. \A p \in Pages : Ahead(p) = {} /\ shown[p].list = {}
  <2> TAKE p \in Pages
  <2>1. <<>> \in Seq(Lists)
    OBVIOUS
  <2>2. Carried(<<>>) = {}
    BY <2>1, CarriedNothing
  <2> QED
    BY <2>2, AheadSplit DEF Init, Owed, NoList
<1> QED
  BY <1>1, <1>2 DEF Init, Directory!Init, Gone, Linked

\* A page that is not told of a new list has what it had ahead; the others have
\* the new list, and of the earlier ones no more than they had.
LEMMA SendListTells ==
  ASSUME TypeOK, PromiseInv, SendList, rooms' \subseteq Rooms, UNCHANGED <<page, wire>>,
         NEW p \in Pages
  PROVE  IF HasList(p)
         THEN rooms' \in Ahead(p)' /\ Ahead(p)' \subseteq Ahead(p) \cup {rooms'}
         ELSE Ahead(p)' = Ahead(p)
<1> DEFINE e == [ver |-> version', list |-> rooms']
           rest == IF Len(listQ[p]) = ListCap THEN Tail(listQ[p]) ELSE listQ[p]
<1>0. listQ[p] \in Seq(Lists) /\ e \in Lists
  BY SendListType DEF TypeOK
<1>1. CASE HasList(p)
  <2>1. listQ'[p] = Append(rest, e)
    BY <1>1 DEF SendList, TypeOK
  <2>2. Len(listQ[p]) = ListCap => listQ[p] # <<>>
    BY <1>0, RegistryAssumption
  <2>3. rest \in Seq(Lists) /\ Carried(rest) \subseteq Carried(listQ[p])
    <3>1. CASE Len(listQ[p]) = ListCap
      <4>1. rest = Tail(listQ[p]) /\ listQ[p] # <<>>
        BY <2>2, <3>1
      <4> HIDE DEF rest, e
      <4>2. rest \in Seq(Lists)
        BY <1>0, <4>1, TailLast
      <4>3. Carried(listQ[p]) = {Head(listQ[p]).list} \cup Carried(rest)
        BY <1>0, <4>1, CarriedTail
      <4> QED
        BY <4>2, <4>3
    <3>2. CASE Len(listQ[p]) # ListCap
      BY <1>0, <3>2
    <3> QED
      BY <3>1, <3>2
  <2>4. e.list = rooms'
    OBVIOUS
  <2> HIDE DEF rest, e
  <2>5. Carried(listQ'[p]) = Carried(rest) \cup {rooms'}
    BY <1>0, <2>1, <2>3, <2>4, CarriedAppend
  <2>6. Owed(p)' \subseteq {rooms'}
    BY DEF Owed
  <2> QED
    BY <1>1, <2>3, <2>5, <2>6, AheadSplit
<1>2. CASE ~HasList(p)
  <2>1. /\ listQ'[p] = listQ[p] /\ ~missed[p] /\ ~missed'[p]
        /\ page[p] # "subscribed" /\ page'[p] = page[p]
    BY <1>2 DEF SendList, TypeOK, PromiseInv, LinkInv, HasList
  <2>2. Owed(p) = {} /\ Owed(p)' = {}
    BY <2>1 DEF Owed
  <2> QED
    BY <1>2, <2>1, <2>2, AheadSplit
<1> QED
  BY <1>1, <1>2

\* What the update of one room does to the promise.
LEMMA TellMaps ==
  ASSUME TypeOK, PromiseInv, SendList, rooms' \subseteq Rooms, UNCHANGED <<page, wire>>
  PROVE  /\ AheadOf' \in [Pages -> SUBSET SUBSET Rooms]
         /\ \A p \in Pages :
              IF p \in Linked
              THEN rooms' \in AheadOf'[p] /\ AheadOf'[p] \subseteq AheadOf[p] \cup {rooms'}
              ELSE AheadOf'[p] = AheadOf[p]
<1>1. \A p \in Pages : AheadOf[p] = Ahead(p) /\ AheadOf'[p] = Ahead(p)'
  BY DEF AheadOf
<1>2. \A p \in Pages : p \in Linked <=> HasList(p)
  BY DEF Linked
<1>3. \A p \in Pages : Ahead(p)' \subseteq SUBSET Rooms
  <2> TAKE p \in Pages
  <2>1. Ahead(p) \subseteq SUBSET Rooms
    BY AheadType
  <2> QED
    BY <2>1, SendListTells
<1>4. AheadOf' \in [Pages -> SUBSET SUBSET Rooms]
  BY <1>3 DEF AheadOf
<1> QED
  BY <1>1, <1>2, <1>4, SendListTells

LEMMA RoomsRefine ==
  ASSUME TypeOK, PromiseInv, NEW r \in Rooms,
         RoomOpens(r) \/ RoomEnds(r) \/ HostDies(r) \/ Announcer(r) \/ RoomHandler(r)
  PROVE  [Directory!Next]_(Directory!vars)
<1>0. RoomInv(r)
  BY DEF PromiseInv
<1>1. CASE RoomOpens(r) \/ RoomEnds(r) \/ HostDies(r) \/ Announcer(r)
  <2>1. UNCHANGED <<up, rooms, version, pageVars>>
    BY <1>1 DEF RoomOpens, RoomEnds, HostDies, Announcer, AnnounceConnects,
                AnnounceFails, AnnounceStops, AnnounceDropped
  <2>2. Gone' = Gone
    BY <1>0, <1>1 DEF TypeOK, Gone, RoomInv, RoomOpens, RoomEnds, HostDies, Announcer,
                      AnnounceConnects, AnnounceFails, AnnounceStops, AnnounceDropped
  <2>3. UNCHANGED <<Linked, ShownOf>>
    BY <2>1 DEF pageVars, Linked, HasList, ShownOf
  <2>4. AheadOf' = AheadOf
    <3>1. \A p \in Pages : Ahead(p)' = Ahead(p)
      BY <2>1, AheadKept DEF pageVars
    <3> QED
      BY <3>1 DEF AheadOf
  <2>5. CASE Announcer(r)
    <3>1. open' = open
      BY <2>5 DEF Announcer, AnnounceConnects, AnnounceFails, AnnounceStops, AnnounceDropped
    <3> QED
      BY <2>1, <2>2, <2>3, <2>4, <3>1, DirectoryStutters
  <2>6. CASE RoomOpens(r)
    <3>1. Directory!Open(r)
      BY <2>1, <2>2, <2>3, <2>4, <2>6
         DEF RoomOpens, Directory!Open, Gone, Linked, AheadOf, ShownOf
    <3> QED
      BY <3>1 DEF Directory!Next
  <2>7. CASE RoomEnds(r) \/ HostDies(r)
    <3>1. Directory!End(r)
      BY <2>1, <2>2, <2>3, <2>4, <2>7
         DEF RoomEnds, HostDies, Directory!End, Gone, Linked, AheadOf, ShownOf
    <3> QED
      BY <3>1 DEF Directory!Next
  <2> QED
    BY <1>1, <2>5, <2>6, <2>7
<1>2. CASE RoomHandler(r)
  <2>1. /\ SendList /\ up /\ rooms' \subseteq Rooms
        /\ UNCHANGED <<open, up, page, wire, shown>>
    BY <1>2 DEF TypeOK, RoomHandler, Insert, Prune
  <2>2. UNCHANGED <<Linked, ShownOf>>
    BY <2>1 DEF Linked, HasList, ShownOf
  <2>3. Directory!Tell
    BY <2>1, TellMaps DEF Directory!Tell, Linked, AheadOf
  <2>4. CASE Insert(r)
    <3>1. /\ open[r] # "no" /\ r \notin rooms \cup Gone
          /\ rooms' = rooms \cup {r}
      BY <1>0, <2>4 DEF Insert, RoomInv, Gone
    <3>2. Gone' = Gone
      BY <2>4 DEF TypeOK, Insert, Gone
    <3>3. Directory!List(r)
      BY <2>1, <2>2, <2>3, <3>1, <3>2 DEF Directory!List, Gone, Linked, ShownOf
    <3> QED
      BY <3>3 DEF Directory!Next
  <2>5. CASE Prune(r)
    <3>1. open[r] = "over" /\ r \in rooms /\ rooms' = rooms \ {r}
      BY <1>0, <2>5 DEF Prune, RoomInv
    <3>2. Gone' = Gone \cup {r}
      BY <2>5 DEF TypeOK, Prune, Gone
    <3>3. Directory!Unlist(r)
      BY <2>1, <2>2, <2>3, <3>1, <3>2 DEF Directory!Unlist, Gone, Linked, ShownOf
    <3> QED
      BY <3>3 DEF Directory!Next
  <2> QED
    BY <1>2, <2>4, <2>5 DEF RoomHandler
<1> QED
  BY <1>1, <1>2

LEMMA RegistryRefines ==
  ASSUME TypeOK, PromiseInv, RegistryStarts \/ RegistryStops
  PROVE  [Directory!Next]_(Directory!vars)
<1>1. CASE RegistryStarts
  <2>1. AheadOf' = AheadOf
    <3>1. \A p \in Pages : Ahead(p)' = Ahead(p)
      BY <1>1, AheadKept DEF RegistryStarts, pageVars
    <3> QED
      BY <3>1 DEF AheadOf
  <2>2. UNCHANGED <<Gone, Linked, ShownOf>>
    BY <1>1 DEF RegistryStarts, pageVars, Gone, Linked, HasList, ShownOf
  <2>3. Directory!Start
    BY <1>1, <2>1, <2>2
       DEF RegistryStarts, Directory!Start, Gone, Linked, AheadOf, ShownOf
  <2> QED
    BY <2>3 DEF Directory!Next
<1>2. CASE RegistryStops
  <2>1. \A p \in Pages : Ahead(p)' \subseteq Ahead(p) /\ Ahead(p) \subseteq SUBSET Rooms
    <3> TAKE p \in Pages
    <3>1. /\ wire'[p] = wire[p] /\ listQ'[p] = <<>> /\ ~missed'[p]
          /\ page'[p] # "subscribed"
      BY <1>2 DEF RegistryStops
    <3>2. Carried(<<>>) = {}
      <4>1. <<>> \in Seq(Lists)
        OBVIOUS
      <4> QED
        BY <4>1, CarriedNothing
    <3>3. Owed(p)' = {}
      BY <3>1 DEF Owed
    <3> QED
      BY <3>1, <3>2, <3>3, AheadSplit, AheadType
  <2>2. /\ AheadOf' \in [Pages -> SUBSET SUBSET Rooms]
        /\ \A p \in Pages : AheadOf'[p] \subseteq AheadOf[p]
    BY <2>1 DEF AheadOf
  <2>3. Linked' = {}
    BY <1>2 DEF RegistryStops, Linked, HasList
  <2>4. /\ Gone' \in SUBSET {r \in Rooms : open[r] # "no"}
        /\ Gone \cup rooms \subseteq Gone'
    <3>1. \A r \in Rooms : RoomInv(r) /\ open[r] \in {"no", "open", "over"}
      BY DEF PromiseInv, TypeOK
    <3>2. rooms \subseteq Rooms
      BY DEF TypeOK
    <3> QED
      BY <1>2, <3>1, <3>2 DEF RegistryStops, RoomInv, Gone
  <2>5. Directory!Stop
    BY <1>2, <2>2, <2>3, <2>4
       DEF RegistryStops, Directory!Stop, Gone, Linked, AheadOf
  <2> QED
    BY <2>5 DEF Directory!Next
<1> QED
  BY <1>1, <1>2

LEMMA PagesRefine ==
  ASSUME TypeOK, TypeOK', DirectoryInv', PromiseInv,
         NEW p \in Pages, PageHandler(p) \/ Page(p) \/ PageConnects(p)
  PROVE  [Directory!Next]_(Directory!vars)
<1> USE DEF regVars
<1>0. /\ wire[p] \in Seq(Lists) /\ listQ[p] \in Seq(Lists) /\ Current \in Lists
      /\ Current.list = rooms /\ LinkInv(p) /\ PageInv(p)'
  BY CurrentType DEF TypeOK, DirectoryInv, PromiseInv, Current
<1>1. /\ UNCHANGED <<open, up, rooms, Gone>>
      /\ \A o \in Pages \ {p} :
           UNCHANGED <<page[o], listQ[o], missed[o], wire[o], shown[o]>>
  <2>1. UNCHANGED <<open, up, rooms, reg>>
    BY DEF PageHandler, Page, Subscribe, Snapshot, Forward, Resend, PageConnects,
           PageOpened, PageReceives, PageClosed
  <2> QED
    BY <2>1, OtherPages DEF Gone
<1>2. \A o \in Pages \ {p} : /\ AheadOf'[o] = AheadOf[o] /\ ShownOf'[o] = ShownOf[o]
                             /\ o \in Linked' <=> o \in Linked
  BY <1>1, AheadKept DEF AheadOf, ShownOf, Linked, HasList
<1>3. /\ AheadOf' = [AheadOf EXCEPT ![p] = Ahead(p)']
      /\ ShownOf' = [ShownOf EXCEPT ![p] = shown'[p].list]
      /\ AheadOf[p] = Ahead(p) /\ ShownOf[p] = shown[p].list
  BY <1>2 DEF AheadOf, ShownOf
<1>4. ASSUME Ahead(p)' = Ahead(p), shown'[p] = shown[p], HasList(p)' <=> HasList(p)
      PROVE  UNCHANGED Directory!vars
  <2>1. AheadOf' = AheadOf /\ ShownOf' = ShownOf
    BY <1>3, <1>4 DEF AheadOf, ShownOf
  <2>2. Linked' = Linked
    BY <1>2, <1>4 DEF Linked
  <2> QED
    BY <1>1, <2>1, <2>2, DirectoryStutters
<1>5. CASE PageConnects(p) \/ PageOpened(p)
  <2>1. /\ page[p] # "subscribed" /\ page'[p] # "subscribed"
        /\ UNCHANGED <<wire, listQ, missed>>
    BY <1>5 DEF TypeOK, PageConnects, PageOpened
  <2>2. Owed(p)' = Owed(p)
    BY <1>1, <2>1 DEF Owed
  <2>3. Ahead(p)' = Ahead(p)
    BY <2>1, <2>2, AheadSplit
  <2> QED
    BY <1>4, <1>5, <2>3 DEF TypeOK, PageConnects, PageOpened, HasList
<1>6. CASE Subscribe(p)
  <2>1. /\ up /\ ~HasList(p) /\ shown[p].list = {}
        /\ wire[p] = <<>> /\ listQ[p] = <<>> /\ ~missed[p] /\ page[p] = "opened"
    BY <1>0, <1>6 DEF Subscribe, LinkInv, HasList, NoList
  <2>2. Carried(wire[p]) = {} /\ Carried(listQ[p]) = {}
    BY <1>0, <2>1, CarriedNothing
  <2>3. UNCHANGED <<wire, listQ, shown>> /\ page'[p] = "subscribed"
    BY <1>6 DEF Subscribe, TypeOK
  <2>4. Ahead(p) = {} /\ Ahead(p)' = {rooms}
    BY <1>1, <2>1, <2>2, <2>3, AheadSplit DEF Owed
  <2>5. Linked' = Linked \cup {p} /\ p \notin Linked
    BY <1>2, <2>1, <2>3 DEF Linked, HasList
  <2>6. ShownOf' = ShownOf
    BY <2>3 DEF ShownOf
  <2>7. Directory!Link(p)
    BY <1>1, <1>3, <2>1, <2>4, <2>5, <2>6
       DEF Directory!Link, Linked, AheadOf, ShownOf, Gone
  <2> QED
    BY <2>7 DEF Directory!Next
<1>7. CASE Snapshot(p) \/ Resend(p)
  <2>1. /\ wire'[p] = Append(wire[p], Current) /\ listQ'[p] = listQ[p]
        /\ page'[p] = "live" /\ shown' = shown /\ HasList(p)
        /\ Snapshot(p) => page[p] = "subscribed" /\ (missed'[p] <=> missed[p])
        /\ Resend(p) => missed[p] /\ ~missed'[p]
    BY <1>7 DEF TypeOK, Snapshot, Resend, HasList
  <2>2. Carried(wire'[p]) = Carried(wire[p]) \cup {rooms}
    BY <1>0, <2>1, CarriedAppend
  <2>3. Owed(p) = {rooms} /\ Owed(p)' \subseteq {rooms}
    BY <1>1, <1>7, <2>1 DEF Owed
  <2>4. Ahead(p)' = Ahead(p)
    BY <2>1, <2>2, <2>3, AheadSplit
  <2> QED
    BY <1>4, <2>1, <2>4 DEF HasList
<1>8. CASE Forward(p)
  <2>1. /\ listQ[p] # <<>> /\ listQ'[p] = Tail(listQ[p]) /\ page'[p] = page[p]
        /\ wire'[p] = Append(wire[p], Head(listQ[p])) /\ shown' = shown
        /\ missed'[p] <=> missed[p]
    BY <1>8 DEF TypeOK, Forward
  <2>2. Carried(listQ[p]) = {Head(listQ[p]).list} \cup Carried(listQ'[p])
    BY <1>0, <2>1, CarriedTail
  <2>3. Head(listQ[p]) \in Lists
    BY <1>0, <2>1, TailLast
  <2>4. Carried(wire'[p]) = Carried(wire[p]) \cup {Head(listQ[p]).list}
    BY <1>0, <2>1, <2>3, CarriedAppend
  <2>5. Owed(p)' = Owed(p)
    BY <1>1, <2>1 DEF Owed
  <2>6. Ahead(p)' = Ahead(p)
    BY <2>2, <2>4, <2>5, AheadSplit
  <2> QED
    BY <1>4, <2>1, <2>6 DEF HasList
<1>9. CASE PageReceives(p)
  <2>1. /\ wire[p] # <<>> /\ wire'[p] = Tail(wire[p]) /\ shown'[p] = Head(wire[p])
        /\ UNCHANGED <<page, listQ, missed>>
    BY <1>9 DEF TypeOK, PageReceives
  <2>2. Carried(wire[p]) = {shown'[p].list} \cup Carried(wire'[p])
    BY <1>0, <2>1, CarriedTail
  <2>3. Owed(p)' = Owed(p)
    BY <1>1, <2>1 DEF Owed
  <2>4. shown'[p].list \in Ahead(p) /\ Ahead(p)' \subseteq Ahead(p)
    BY <2>1, <2>2, <2>3, AheadSplit
  <2>5. Linked' = Linked
    BY <2>1 DEF Linked, HasList
  <2>6. ASSUME p \in Linked, Ahead(p)' = {} PROVE shown'[p].list = rooms
    <3>1. wire'[p] \in Seq(Lists)
      BY DEF TypeOK
    <3>2. Carried(wire'[p]) = {} /\ Carried(listQ[p]) = {} /\ Owed(p) = {}
      BY <2>1, <2>3, <2>6, AheadSplit
    <3>3. wire'[p] = <<>> /\ listQ'[p] = <<>>
      BY <1>0, <2>1, <3>1, <3>2, CarriedNothing
    <3>4. page[p] # "subscribed" /\ ~missed[p]
      BY <3>2 DEF Owed
    <3>5. page'[p] = "live" /\ ~missed'[p]
      BY <2>1, <2>6, <3>4 DEF Linked, HasList
    <3>6. shown'[p] = Current'
      BY <1>0, <3>3, <3>5 DEF PageInv
    <3> QED
      BY <1>1, <3>6 DEF Current
  <2>7. Directory!See(p)
    <3>1. AheadOf[p] = Ahead(p) /\ AheadOf' = [AheadOf EXCEPT ![p] = Ahead(p)']
      BY <1>3
    <3>2. ShownOf' = [ShownOf EXCEPT ![p] = shown'[p].list]
      BY <1>3
    <3> QED
      BY <1>1, <2>4, <2>5, <2>6, <3>1, <3>2
         DEF Directory!See, Linked, AheadOf, ShownOf, Gone
  <2> QED
    BY <2>7 DEF Directory!Next
<1>10. CASE PageClosed(p)
  <2>1. /\ ~HasList(p) /\ page'[p] = "waiting" /\ wire'[p] = <<>> /\ shown'[p] = NoList
        /\ listQ'[p] = listQ[p] /\ (missed'[p] <=> missed[p])
    BY <1>10 DEF TypeOK, PageClosed, HasList
  <2>2. listQ[p] = <<>> /\ ~missed[p]
    BY <1>0, <2>1 DEF LinkInv
  <2>3. Carried(wire'[p]) = {} /\ Carried(listQ'[p]) = {}
    <3>1. <<>> \in Seq(Lists)
      OBVIOUS
    <3> QED
      BY <2>1, <2>2, <3>1, CarriedNothing
  <2>4. Ahead(p)' = {} /\ shown'[p].list = {}
    BY <2>1, <2>2, <2>3, AheadSplit DEF Owed, NoList
  <2>5. Linked' = Linked /\ p \notin Linked
    BY <1>2, <2>1 DEF Linked, HasList
  <2>6. Directory!Clear(p)
    BY <1>1, <1>3, <2>4, <2>5 DEF Directory!Clear, Linked, AheadOf, ShownOf, Gone
  <2> QED
    BY <2>6 DEF Directory!Next
<1> QED
  BY <1>5, <1>6, <1>7, <1>8, <1>9, <1>10 DEF PageHandler, Page

\* The registry with its channels, handlers and restarts keeps the promises of
\* RoomDirectory to every host and every page.
THEOREM RefinementCorrect == Spec => ImplementsDirectory
<1>1. Init => Directory!Init
  BY InitRefines
<1>2. TypeOK /\ TypeOK' /\ DirectoryInv' /\ PromiseInv /\ [Next]_vars
        => [Directory!Next]_(Directory!vars)
  <2> SUFFICES ASSUME TypeOK, TypeOK', DirectoryInv', PromiseInv, [Next]_vars
               PROVE  [Directory!Next]_(Directory!vars)
    OBVIOUS
  <2>1. CASE Next
    BY <2>1, RoomsRefine, RegistryRefines, PagesRefine DEF Next
  <2>2. CASE UNCHANGED vars
    BY <2>2 DEF vars, regVars, pageVars, Directory!vars, Ahead, HasList
  <2> QED
    BY <2>1, <2>2
<1> QED
  BY <1>1, <1>2, TypeCorrect, DirectoryInvariant, PromiseInvariant, PTL
     DEF Spec, ImplementsDirectory, Directory!Spec
=============================================================================
