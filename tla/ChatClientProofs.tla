-------------------------- MODULE ChatClientProofs --------------------------
(***************************************************************************)
(* What frames do to the room state a page comes to, one more on the wire  *)
(* and one less because the page has read it; and what the operations of   *)
(* the hook do to a client, in the models without messages.                *)
(***************************************************************************)
EXTENDS ChatClient, TLAPS

\* The room state after one frame, as OnMessage leaves it.
RoomStateAfter(state, f) ==
  IF f.type \in SetUpTypes THEN "ready"
  ELSE IF f.type = "room_closed" THEN "closed"
  ELSE IF f.type = "room_left" /\ state # "closed" THEN "idle"
  ELSE state

LEMMA AppendedPlaces ==
  ASSUME NEW E, NEW w \in Seq(E), NEW f \in E
  PROVE  /\ Len(w) \in Nat /\ Len(Append(w, f)) = Len(w) + 1
         /\ Append(w, f)[Len(w) + 1] = f
         /\ \A i \in 1 .. Len(w) : Append(w, f)[i] = w[i]
         /\ Append(w, f) \in Seq(E)
  OBVIOUS

LEMMA OneIsAppended ==
  ASSUME NEW E, NEW w \in Seq(E), NEW f \in E
  PROVE  /\ w \o <<f>> = Append(w, f) /\ <<f>> = Append(<<>>, f)
         /\ <<f>> \in Seq(E) /\ <<>> \in Seq(E)
  OBVIOUS

LEMMA TailPlaces ==
  ASSUME NEW E, NEW w \in Seq(E), w # <<>>
  PROVE  /\ Len(w) \in Nat \ {0} /\ Len(Tail(w)) = Len(w) - 1
         /\ Head(w) = w[1] /\ Head(w) \in E
         /\ \A i \in 1 .. Len(w) - 1 : Tail(w)[i] = w[i + 1]
         /\ Tail(w) \in Seq(E)
  OBVIOUS

Among(q, S) == \E i \in 1 .. Len(q) : q[i] \in S

LEMMA AmongMore ==
  ASSUME NEW E, NEW q \in Seq(E), NEW x \in E, NEW S
  PROVE  Among(Append(q, x), S) <=> Among(q, S) \/ x \in S
<1> DEFINE r == Append(q, x)
<1>1. /\ Len(q) \in Nat /\ Len(r) = Len(q) + 1 /\ r[Len(q) + 1] = x
      /\ \A i \in 1 .. Len(q) : r[i] = q[i]
  BY AppendedPlaces
<1>2. /\ Len(q) + 1 \in 1 .. Len(r)
      /\ \A i \in 1 .. Len(q) : i \in 1 .. Len(r)
      /\ \A i \in 1 .. Len(r) : i = Len(q) + 1 \/ i \in 1 .. Len(q)
  BY <1>1
<1> HIDE DEF r
<1>3. Among(r, S) <=> Among(q, S) \/ x \in S
  BY <1>1, <1>2 DEF Among
<1> QED
  BY <1>3 DEF r

LEMMA AmongLess ==
  ASSUME NEW E, NEW q \in Seq(E), q # <<>>, NEW S
  PROVE  Among(q, S) <=> Head(q) \in S \/ Among(Tail(q), S)
<1> DEFINE r == Tail(q)
           x == Head(q)
<1>1. /\ Len(q) \in Nat \ {0} /\ Len(r) = Len(q) - 1 /\ x = q[1]
      /\ \A i \in 1 .. Len(q) - 1 : r[i] = q[i + 1]
  BY TailPlaces
<1>2. /\ 1 \in 1 .. Len(q)
      /\ \A i \in 1 .. Len(r) : i + 1 \in 1 .. Len(q) /\ r[i] = q[i + 1]
      /\ \A i \in 1 .. Len(q) : i = 1 \/ (i - 1 \in 1 .. Len(r) /\ r[i - 1] = q[i])
  BY <1>1
<1> HIDE DEF r, x
<1>3. Among(q, S) <=> x \in S \/ Among(r, S)
  BY <1>1, <1>2 DEF Among
<1> QED
  BY <1>3 DEF r, x

LEMMA NoneAmong ==
  ASSUME NEW S
  PROVE  ~Among(<<>>, S)
  BY DEF Among

\* A page with nothing to read is what it is.
LEMMA NothingToRead ==
  ASSUME NEW state
  PROVE  /\ ReadyAfter(state, <<>>) <=> state = "ready"
         /\ ClosedAfter(state, <<>>) <=> state = "closed"
  BY DEF ReadyAfter, ClosedAfter

\* A page that is ready in the end is not closed in the end.
LEMMA OneOutcome ==
  ASSUME NEW E, NEW w \in Seq(E), NEW state
  PROVE  ~(ReadyAfter(state, w) /\ ClosedAfter(state, w))
<1> SUFFICES ASSUME ReadyAfter(state, w), ClosedAfter(state, w) PROVE FALSE
  OBVIOUS
<1>1. Len(w) \in Nat
  OBVIOUS
<1>2. \A i \in 1 .. Len(w) : w[i].type \in SetUpTypes => w[i].type \notin EndTypes
  BY DEF SetUpTypes, EndTypes
<1>3. \A i \in 1 .. Len(w) : w[i].type = "room_closed" => w[i].type \in EndTypes
  BY DEF EndTypes
<1>4. \A i, j \in 1 .. Len(w) : i < j \/ j < i \/ i = j
  OBVIOUS
<1>5. \A i \in 1 .. Len(w) : \A j \in 1 .. Len(w) : i < j => j \in i + 1 .. Len(w)
  OBVIOUS
<1> HIDE DEF SetUpTypes, EndTypes
<1> QED
  BY <1>1, <1>2, <1>3, <1>4, <1>5 DEF ReadyAfter, ClosedAfter

\* The room states of which neither is ready lead to the same end, as far as
\* being ready goes.
LEMMA NotReadyAlike ==
  ASSUME NEW w, NEW s, NEW t
  PROVE  /\ s # "ready" /\ t # "ready" => (ReadyAfter(s, w) <=> ReadyAfter(t, w))
         /\ s # "closed" /\ t # "closed" => (ClosedAfter(s, w) <=> ClosedAfter(t, w))
  BY DEF ReadyAfter, ClosedAfter

LEMMA OneMoreFrame ==
  ASSUME NEW E, NEW w \in Seq(E), NEW f \in E, NEW state
  PROVE  /\ ReadyAfter(state, Append(w, f)) <=>
              f.type \in SetUpTypes \/ (f.type \notin EndTypes /\ ReadyAfter(state, w))
         /\ ClosedAfter(state, Append(w, f)) <=>
              f.type = "room_closed" \/ (f.type \notin SetUpTypes /\ ClosedAfter(state, w))
<1> DEFINE v == Append(w, f)
           n == Len(w)
<1>1. /\ n \in Nat /\ Len(v) = n + 1 /\ v[n + 1] = f
      /\ \A i \in 1 .. n : v[i] = w[i]
  BY AppendedPlaces
<1>2. \A i \in 1 .. n + 1 : i = n + 1 \/ (i \in 1 .. n /\ n + 1 \in i + 1 .. n + 1)
  BY <1>1
<1>3. \A i \in 1 .. n : \A j \in i + 1 .. n + 1 : j = n + 1 \/ (j \in 1 .. n /\ j \in i + 1 .. n)
  BY <1>1
<1>4. \A i \in 1 .. n : \A j \in i + 1 .. n : j \in i + 1 .. n + 1 /\ j \in 1 .. n
  BY <1>1
<1>5. /\ n + 1 + 1 .. n + 1 = {} /\ n + 1 \in 1 .. n + 1
      /\ \A i \in 1 .. n : i \in 1 .. n + 1
  BY <1>1
<1>6. ~(f.type \in SetUpTypes /\ f.type \in EndTypes)
      /\ (f.type = "room_closed" => f.type \in EndTypes)
  BY DEF SetUpTypes, EndTypes
<1> HIDE DEF v, n
<1>7. ReadyAfter(state, v) <=>
        f.type \in SetUpTypes \/ (f.type \notin EndTypes /\ ReadyAfter(state, w))
  <2>1. ASSUME ReadyAfter(state, v), f.type \notin SetUpTypes
        PROVE  f.type \notin EndTypes /\ ReadyAfter(state, w)
    BY <1>1, <1>2, <1>3, <1>4, <1>5, <2>1 DEF ReadyAfter, n
  <2>2. ASSUME f.type \in SetUpTypes PROVE ReadyAfter(state, v)
    BY <1>1, <1>5, <2>2 DEF ReadyAfter
  <2>3. ASSUME f.type \notin EndTypes, ReadyAfter(state, w) PROVE ReadyAfter(state, v)
    BY <1>1, <1>2, <1>3, <1>5, <2>3 DEF ReadyAfter, n
  <2> QED
    BY <2>1, <2>2, <2>3
<1>8. ClosedAfter(state, v) <=>
        f.type = "room_closed" \/ (f.type \notin SetUpTypes /\ ClosedAfter(state, w))
  <2>1. ASSUME ClosedAfter(state, v), f.type # "room_closed"
        PROVE  f.type \notin SetUpTypes /\ ClosedAfter(state, w)
    BY <1>1, <1>2, <1>3, <1>4, <1>5, <2>1 DEF ClosedAfter, n
  <2>2. ASSUME f.type = "room_closed" PROVE ClosedAfter(state, v)
    BY <1>1, <1>5, <2>2 DEF ClosedAfter
  <2>3. ASSUME f.type \notin SetUpTypes, ClosedAfter(state, w) PROVE ClosedAfter(state, v)
    BY <1>1, <1>2, <1>3, <1>5, <2>3 DEF ClosedAfter, n
  <2> QED
    BY <2>1, <2>2, <2>3
<1> QED
  BY <1>7, <1>8 DEF v

LEMMA OneFrameRead ==
  ASSUME NEW E, NEW w \in Seq(E), w # <<>>, NEW state
  PROVE  /\ ReadyAfter(RoomStateAfter(state, Head(w)), Tail(w)) <=> ReadyAfter(state, w)
         /\ ClosedAfter(RoomStateAfter(state, Head(w)), Tail(w)) <=> ClosedAfter(state, w)
<1> DEFINE v == Tail(w)
           n == Len(w)
           f == Head(w)
           next == RoomStateAfter(state, f)
<1>1. /\ n \in Nat \ {0} /\ Len(v) = n - 1 /\ f = w[1]
      /\ \A i \in 1 .. n - 1 : v[i] = w[i + 1]
  BY TailPlaces
<1>2. \A i \in 1 .. n : i = 1 \/ (i - 1 \in 1 .. n - 1 /\ v[i - 1] = w[i] /\ i - 1 + 1 = i)
  BY <1>1
<1>3. \A i \in 1 .. n - 1 : i + 1 \in 1 .. n /\ v[i] = w[i + 1]
  BY <1>1
<1>4. \A i \in 1 .. n - 1 : \A j \in i + 1 .. n - 1 :
        j + 1 \in i + 1 + 1 .. n /\ v[j] = w[j + 1]
  BY <1>1
<1>5. \A i \in 1 .. n : \A j \in i + 1 .. n :
        j - 1 \in 1 .. n - 1 /\ j - 1 \in i - 1 + 1 .. n - 1 /\ v[j - 1] = w[j]
  BY <1>1
<1>6. /\ (next = "ready" <=> f.type \in SetUpTypes
                             \/ (f.type \notin EndTypes /\ state = "ready"))
      /\ (next = "closed" <=> f.type = "room_closed"
                             \/ (f.type \notin SetUpTypes /\ state = "closed"))
  BY DEF RoomStateAfter, SetUpTypes, EndTypes
<1>7. 1 \in 1 .. n /\ \A j \in 1 .. n - 1 : j + 1 \in 1 + 1 .. n
  BY <1>1
<1> HIDE DEF v, n, f, next
<1>8. ReadyAfter(next, v) <=> ReadyAfter(state, w)
  <2>1. ASSUME ReadyAfter(next, v) PROVE ReadyAfter(state, w)
    <3>1. ASSUME NEW i \in 1 .. n - 1, v[i].type \in SetUpTypes,
                 \A j \in i + 1 .. n - 1 : v[j].type \notin EndTypes
          PROVE  ReadyAfter(state, w)
      <4>1. i + 1 \in 1 .. n /\ w[i + 1].type \in SetUpTypes
        BY <1>3, <3>1
      <4>2. \A j \in i + 1 + 1 .. n : w[j].type \notin EndTypes
        <5> TAKE j \in i + 1 + 1 .. n
        <5>1. j - 1 \in i + 1 .. n - 1 /\ v[j - 1] = w[j]
          BY <1>1, <1>5, <4>1
        <5> QED
          BY <3>1, <5>1
      <4> QED
        BY <4>1, <4>2 DEF ReadyAfter, n
    <3>2. ASSUME next = "ready", \A j \in 1 .. n - 1 : v[j].type \notin EndTypes
          PROVE  ReadyAfter(state, w)
      <4>1. \A j \in 1 + 1 .. n : w[j].type \notin EndTypes
        <5> TAKE j \in 1 + 1 .. n
        <5>1. j - 1 \in 1 .. n - 1 /\ v[j - 1] = w[j]
          BY <1>5, <1>7
        <5> QED
          BY <3>2, <5>1
      <4>2. CASE f.type \in SetUpTypes
        BY <1>1, <1>7, <4>1, <4>2 DEF ReadyAfter, n
      <4>3. CASE f.type \notin EndTypes /\ state = "ready"
        <5>1. \A j \in 1 .. n : w[j].type \notin EndTypes
          BY <1>1, <4>1, <4>3
        <5> QED
          BY <4>3, <5>1 DEF ReadyAfter, n
      <4> QED
        BY <1>6, <3>2, <4>2, <4>3
    <3> QED
      BY <1>1, <2>1, <3>1, <3>2 DEF ReadyAfter
  <2>2. ASSUME ReadyAfter(state, w) PROVE ReadyAfter(next, v)
    <3>1. ASSUME NEW i \in 1 .. n, w[i].type \in SetUpTypes,
                 \A j \in i + 1 .. n : w[j].type \notin EndTypes
          PROVE  ReadyAfter(next, v)
      <4>1. CASE i = 1
        BY <1>1, <1>3, <1>6, <1>7, <3>1, <4>1 DEF ReadyAfter
      <4>2. CASE i # 1
        <5>1. i - 1 \in 1 .. n - 1 /\ v[i - 1].type \in SetUpTypes
          BY <1>2, <3>1, <4>2
        <5>2. \A j \in i - 1 + 1 .. n - 1 : v[j].type \notin EndTypes
          <6> TAKE j \in i - 1 + 1 .. n - 1
          <6>1. j \in 1 .. n - 1 /\ j + 1 \in i + 1 .. n
            BY <1>1, <5>1
          <6> QED
            BY <1>3, <3>1, <6>1
        <5> QED
          BY <1>1, <5>1, <5>2 DEF ReadyAfter
      <4> QED
        BY <4>1, <4>2
    <3>2. ASSUME state = "ready", \A j \in 1 .. n : w[j].type \notin EndTypes
          PROVE  ReadyAfter(next, v)
      BY <1>1, <1>3, <1>6, <1>7, <3>2 DEF ReadyAfter
    <3> QED
      BY <2>2, <3>1, <3>2 DEF ReadyAfter, n
  <2> QED
    BY <2>1, <2>2
<1>9. ClosedAfter(next, v) <=> ClosedAfter(state, w)
  <2>1. ASSUME ClosedAfter(next, v) PROVE ClosedAfter(state, w)
    <3>1. ASSUME NEW i \in 1 .. n - 1, v[i].type = "room_closed",
                 \A j \in i + 1 .. n - 1 : v[j].type \notin SetUpTypes
          PROVE  ClosedAfter(state, w)
      <4>1. i + 1 \in 1 .. n /\ w[i + 1].type = "room_closed"
        BY <1>3, <3>1
      <4>2. \A j \in i + 1 + 1 .. n : w[j].type \notin SetUpTypes
        <5> TAKE j \in i + 1 + 1 .. n
        <5>1. j - 1 \in i + 1 .. n - 1 /\ v[j - 1] = w[j]
          BY <1>1, <1>5, <4>1
        <5> QED
          BY <3>1, <5>1
      <4> QED
        BY <4>1, <4>2 DEF ClosedAfter, n
    <3>2. ASSUME next = "closed", \A j \in 1 .. n - 1 : v[j].type \notin SetUpTypes
          PROVE  ClosedAfter(state, w)
      <4>1. \A j \in 1 + 1 .. n : w[j].type \notin SetUpTypes
        <5> TAKE j \in 1 + 1 .. n
        <5>1. j - 1 \in 1 .. n - 1 /\ v[j - 1] = w[j]
          BY <1>5, <1>7
        <5> QED
          BY <3>2, <5>1
      <4>2. CASE f.type = "room_closed"
        BY <1>1, <1>7, <4>1, <4>2 DEF ClosedAfter, n
      <4>3. CASE f.type \notin SetUpTypes /\ state = "closed"
        <5>1. \A j \in 1 .. n : w[j].type \notin SetUpTypes
          BY <1>1, <4>1, <4>3
        <5> QED
          BY <4>3, <5>1 DEF ClosedAfter, n
      <4> QED
        BY <1>6, <3>2, <4>2, <4>3
    <3> QED
      BY <1>1, <2>1, <3>1, <3>2 DEF ClosedAfter
  <2>2. ASSUME ClosedAfter(state, w) PROVE ClosedAfter(next, v)
    <3>1. ASSUME NEW i \in 1 .. n, w[i].type = "room_closed",
                 \A j \in i + 1 .. n : w[j].type \notin SetUpTypes
          PROVE  ClosedAfter(next, v)
      <4>1. CASE i = 1
        BY <1>1, <1>3, <1>6, <1>7, <3>1, <4>1 DEF ClosedAfter
      <4>2. CASE i # 1
        <5>1. i - 1 \in 1 .. n - 1 /\ v[i - 1].type = "room_closed"
          BY <1>2, <3>1, <4>2
        <5>2. \A j \in i - 1 + 1 .. n - 1 : v[j].type \notin SetUpTypes
          <6> TAKE j \in i - 1 + 1 .. n - 1
          <6>1. j \in 1 .. n - 1 /\ j + 1 \in i + 1 .. n
            BY <1>1, <5>1
          <6> QED
            BY <1>3, <3>1, <6>1
        <5> QED
          BY <1>1, <5>1, <5>2 DEF ClosedAfter
      <4> QED
        BY <4>1, <4>2
    <3>2. ASSUME state = "closed", \A j \in 1 .. n : w[j].type \notin SetUpTypes
          PROVE  ClosedAfter(next, v)
      BY <1>1, <1>3, <1>6, <1>7, <3>2 DEF ClosedAfter
    <3> QED
      BY <2>2, <3>1, <3>2 DEF ClosedAfter, n
  <2> QED
    BY <2>1, <2>2
<1> QED
  BY <1>8, <1>9 DEF v, f, next

-----------------------------------------------------------------------------
(* The types of clients and frames where the process's history and          *)
(* telemetry are left out: a view's lists stay empty.                       *)

FrameTypes  == SetUpTypes \cup EndTypes \cup {"history_complete"}
FramesOf(n) == [type : FrameTypes, msg : {0}, ts : {0}, ticket : 0 .. n]

Views ==
  [messages : {<<>>}, historyCount : {0}, roomState : RoomStates,
   historyBatch : {<<>>}, historyDone : BOOLEAN, seenNonces : {{}}, events : {<<>>}]

ClientsOf(n) ==
  [view : Views, status : ConnectionStates, closedReason : {"none", "host", "unknown"},
   action : Actions, ticket : 0 .. n]

LEMMA FramesAre ==
  ASSUME NEW n \in Nat
  PROVE  /\ Event("room_joined") \in FramesOf(n) /\ Event("room_left") \in FramesOf(n)
         /\ Event("room_closed") \in FramesOf(n) /\ Event("history_complete") \in FramesOf(n)
         /\ RoomReady(n) \in FramesOf(n)
         /\ Event("room_joined").type = "room_joined" /\ Event("room_left").type = "room_left"
         /\ Event("room_closed").type = "room_closed"
         /\ Event("history_complete").type = "history_complete"
         /\ RoomReady(n).type = "room_ready"
  BY DEF Event, EventAt, RoomReady, FramesOf, FrameTypes, SetUpTypes, EndTypes

LEMMA MoreRooms ==
  ASSUME NEW n \in Nat
  PROVE  /\ ClientsOf(n) \subseteq ClientsOf(n + 1)
         /\ Seq(FramesOf(n)) \subseteq Seq(FramesOf(n + 1))
<1>1. 0 .. n \subseteq 0 .. n + 1
  OBVIOUS
<1>2. FramesOf(n) \subseteq FramesOf(n + 1)
  BY <1>1 DEF FramesOf
<1>3. ClientsOf(n) \subseteq ClientsOf(n + 1)
  BY <1>1 DEF ClientsOf
<1> QED
  BY <1>2, <1>3

-----------------------------------------------------------------------------
(* What the hook's operations do to a client.                               *)

LEMMA ClientIs ==
  ASSUME NEW n \in Nat, NEW c \in ClientsOf(n)
  PROVE  /\ c.view \in Views /\ c.view.roomState \in RoomStates
         /\ c.status \in ConnectionStates /\ c.action \in Actions /\ c.ticket \in 0 .. n
  BY DEF ClientsOf, Views

LEMMA ConnectingIs ==
  ASSUME NEW n \in Nat, NEW a \in Actions
  PROVE  /\ Connecting(a) \in ClientsOf(n) /\ Connecting(a).view.roomState = "pending"
         /\ Connecting(a).status = "connecting" /\ Connecting(a).action = a
  BY DEF Connecting, Connect, ClientsOf, Views, RoomStates, ConnectionStates

LEMMA OpenedIs ==
  ASSUME NEW n \in Nat, NEW c \in ClientsOf(n)
  PROVE  /\ Opened(c) \in ClientsOf(n) /\ Opened(c).view = c.view
         /\ Opened(c).status = "connected" /\ Opened(c).action = c.action
  BY DEF Opened, ClientsOf, ConnectionStates

LEMMA ClosedIs ==
  ASSUME NEW n \in Nat, NEW c \in ClientsOf(n)
  PROVE  /\ Closed(c) \in ClientsOf(n) /\ Closed(c).view = c.view
         /\ Closed(c).status = "disconnected" /\ Closed(c).action = c.action
  BY DEF Closed, ClientsOf, ConnectionStates

LEMMA StartsIs ==
  ASSUME NEW n \in Nat, NEW c \in ClientsOf(n), NEW a \in Actions, CanSend(c)
  PROVE  /\ Starts(c, a) \in ClientsOf(n) /\ Starts(c, a).view.roomState = "pending"
         /\ Starts(c, a).status = "connected" /\ Starts(c, a).action = a
<1> DEFINE v == [ResetRoom(c.view) EXCEPT !.historyDone = TRUE,
                             !.historyBatch = <<>>, !.roomState = "pending"]
<1>1. c.view \in Views /\ c.status = "connected"
  BY DEF ClientsOf, CanSend
<1>2. v \in Views /\ v.roomState = "pending"
  BY <1>1 DEF ResetRoom, Views, RoomStates
<1>3. Starts(c, a) = [c EXCEPT !.view = v, !.action = a, !.ticket = 0]
  BY DEF Starts, ClientsOf
<1> DEFINE d == [c EXCEPT !.view = v, !.action = a, !.ticket = 0]
<1>4. 0 \in 0 .. n
  OBVIOUS
<1> HIDE DEF v
<1>5. /\ d \in ClientsOf(n) /\ d.view = v /\ d.status = c.status /\ d.action = a
  BY <1>2, <1>4 DEF ClientsOf
<1> HIDE DEF d
<1> QED
  BY <1>1, <1>2, <1>3, <1>5 DEF d

LEMMA OnMessageIs ==
  ASSUME NEW n \in Nat, NEW v \in Views, NEW f \in FramesOf(n)
  PROVE  /\ OnMessage(v, f) \in Views
         /\ OnMessage(v, f).roomState = RoomStateAfter(v.roomState, f)
<1>1. f.type \in FrameTypes
  BY DEF FramesOf
<1>2. CASE f.type = "history_complete"
  BY <1>2 DEF OnMessage, FlushHistory, RoomStateAfter, SetUpTypes, Views
<1>3. CASE f.type \in SetUpTypes
  BY <1>3 DEF OnMessage, RoomStateAfter, SetUpTypes, Views, RoomStates
<1>4. CASE f.type = "room_left"
  BY <1>4 DEF OnMessage, OnRoomLeft, ResetRoom, RoomStateAfter, SetUpTypes, Views, RoomStates
<1>5. CASE f.type = "room_closed"
  BY <1>5 DEF OnMessage, ResetRoom, RoomStateAfter, SetUpTypes, Views, RoomStates
<1> QED
  BY <1>1, <1>2, <1>3, <1>4, <1>5 DEF FrameTypes, EndTypes

LEMMA DeliverIs ==
  ASSUME NEW n \in Nat, NEW c \in ClientsOf(n), NEW f \in FramesOf(n)
  PROVE  /\ Deliver(c, f) \in ClientsOf(n) /\ Deliver(c, f).status = c.status
         /\ Deliver(c, f).view.roomState = RoomStateAfter(c.view.roomState, f)
         /\ Deliver(c, f).action = ActionOn(c, f)
<1> DEFINE v == OnMessage(c.view, f)
<1>1. v \in Views /\ v.roomState = RoomStateAfter(c.view.roomState, f)
  BY OnMessageIs DEF ClientsOf
<1>2. ActionOn(c, f) \in Actions /\ TicketOn(c, f) \in 0 .. n
  BY DEF ActionOn, TicketOn, ClientsOf, FramesOf, Actions
<1>3. Deliver(c, f) = [c EXCEPT !.view = v, !.action = ActionOn(c, f), !.ticket = TicketOn(c, f)]
  BY DEF Deliver, ClientsOf
<1> HIDE DEF v
<1> QED
  BY <1>1, <1>2, <1>3 DEF ClientsOf
=============================================================================
