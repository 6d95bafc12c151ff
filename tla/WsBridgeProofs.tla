--------------------------- MODULE WsBridgeProofs ---------------------------
(***************************************************************************)
(* A browser that has caught up knows whether it is in a room, one in the  *)
(* first room shows all of its messages, and none keeps a message twice or *)
(* the replay out of order, for all numbers of browsers, rooms, messages   *)
(* and connections and all capacities of the channels.                     *)
(***************************************************************************)
EXTENDS WsBridge, ChatClientProofs

-----------------------------------------------------------------------------
(* The inductive invariant.                                                 *)

Chats    == {Message(m) : m \in Msgs}
Notices  == {Event(t) : t \in {"room_ready", "room_left", "room_closed"}}
HubFrames == Notices \cup NetEvents

Screens ==
  [messages : Seq(Msgs), historyCount : Nat, roomState : RoomStates,
   historyBatch : Seq(Msgs), historyDone : BOOLEAN, seenNonces : SUBSET Msgs,
   events : Seq(NetEvents)]

HubType ==
  /\ phase \in Phases /\ rooms \in 0 .. MaxRooms
  /\ history \in Seq(Msgs) /\ ToSet(history) \subseteq pushed
  /\ fanout \subseteq pushed /\ pushed \subseteq Msgs
  /\ detached \in Nat /\ misled \in 0 .. rooms /\ net \in 0 .. MaxNet

\* The hub's welcome goes with the room's phase; a task outlives a room only.
HubState ==
  /\ welcome = IF phase \in {"welcoming", "open", "closing"} THEN rooms ELSE 0
  /\ phase # "idle" => rooms # 0
  /\ detached <= rooms
  /\ phase \in {"starting", "welcoming", "open"} => detached < rooms

ClientType ==
  /\ conn \in [Clients -> {"off", "accepted", "half", "subscribed", "welcomed",
                           "replayed", "live"}]
  /\ conns \in [Clients -> 0 .. MaxConns]
  /\ lagged \in [Clients -> BOOLEAN]
  /\ liveQ \in [Clients -> Seq(Chats)]
  /\ eventQ \in [Clients -> Seq(HubFrames)]
  /\ wire \in [Clients -> Seq(Frames)]
  /\ view \in [Clients -> Screens]

\* What a handler has not subscribed to is not there; what it has not sent, not read.
InStep(c) ==
  /\ ~HasLive(c) => liveQ[c] = <<>>
  /\ ~HasEvents(c) => eventQ[c] = <<>>
  /\ ~HasEvents(c) \/ conn[c] = "subscribed" => wire[c] = <<>>
  /\ conn[c] \in {"accepted", "half", "subscribed"} => view[c] = Connect

Bounded(c) ==
  /\ Len(liveQ[c]) <= LiveCap /\ Len(eventQ[c]) <= EventCap
  /\ Len(view[c].events) <= TraceCap

\* What the replay, and then the events, will have told the browser of the room.
ReplayTells(c) ==
  IF conn[c] = "subscribed" THEN welcome # 0 ELSE ReadyAfter(view[c].roomState, wire[c])

ReadyOf(b) == IF b THEN "ready" ELSE "pending"

Outlook(c) == ReadyAfter(ReadyOf(ReplayTells(c)), eventQ[c])

Told(c) ==
  HasEvents(c) /\ ~lagged[c] =>
    /\ phase = "idle" => ~Outlook(c)
    /\ phase = "open" /\ misled # rooms => Outlook(c)

\* The burst, its end, and the live messages.
Complete == {Event("history_complete")}

Shows(v) == ToSet(v.messages) \cup ToSet(v.historyBatch)

\* What has been seen since the last reset is shown, before or after the burst.
Fits(v) ==
  /\ v.seenNonces \subseteq Shows(v)
  /\ ~v.historyDone => v.messages = <<>>
  /\ v.historyDone => v.historyBatch = <<>>

OneIn(q, S) == \A i, j \in 1 .. Len(q) : q[i] \in S /\ q[j] \in S => i = j

Burst1(c) ==
  /\ Fits(view[c])
  /\ view[c].historyDone => ~Among(wire[c], Complete)
  /\ OneIn(wire[c], Complete)
  /\ conn[c] \notin {"off", "live"} => ~view[c].historyDone /\ ~Among(wire[c], Complete)
  /\ conn[c] = "live" => view[c].historyDone \/ Among(wire[c], Complete)

\* In the first room: after an end of the room there is no more of it.
SetUpFrames == {Event("room_ready")}
EndFrames   == {Event("room_left"), Event("room_closed")}

EndsLast(q) == \A i, j \in 1 .. Len(q) : q[i] \in EndFrames /\ i < j => q[j] \notin SetUpFrames

NotOver == rooms = 0 \/ phase \in {"starting", "welcoming", "open"}
Over(c) == view[c].roomState \in {"idle", "closed"}

Once(c) ==
  conn[c] # "off" /\ ~lagged[c] =>
    /\ EndsLast(wire[c]) /\ EndsLast(eventQ[c])
    /\ Over(c) => ~Among(wire[c], SetUpFrames)
    /\ Over(c) \/ Among(wire[c], EndFrames) => ~Among(eventQ[c], SetUpFrames)
    /\ NotOver =>
         ~Over(c) /\ ~Among(wire[c], EndFrames) /\ ~Among(eventQ[c], EndFrames)

Has(c, m) ==
  \/ m \in Shows(view[c])
  \/ Among(wire[c], {Message(m)})
  \/ Among(liveQ[c], {Message(m)})

HasAll(c) ==
  conn[c] \in {"replayed", "live"} /\ ~lagged[c] /\ ~Over(c) =>
    \A m \in ToSet(history) \ fanout : Has(c, m)

BridgeInv ==
  /\ HubType /\ HubState /\ ClientType
  /\ \A c \in Clients : InStep(c) /\ Bounded(c) /\ Told(c) /\ Burst1(c)
  /\ rooms <= 1 => \A c \in Clients : Once(c) /\ HasAll(c)

-----------------------------------------------------------------------------
(* Sequences of frames: one more, one less, and a burst of messages more.   *)

LEMMA ElementsOf ==
  ASSUME NEW E, NEW q \in Seq(E)
  PROVE  /\ ToSet(q) \subseteq E
         /\ \A x : x \in ToSet(q) <=> \E i \in 1 .. Len(q) : q[i] = x
         /\ ToSet(<<>>) = {}
  BY DEF ToSet

LEMMA ElementsMore ==
  ASSUME NEW E, NEW q \in Seq(E), NEW x \in E
  PROVE  ToSet(Append(q, x)) = ToSet(q) \cup {x}
<1> DEFINE r == Append(q, x)
<1>1. /\ Len(q) \in Nat /\ Len(r) = Len(q) + 1 /\ r[Len(q) + 1] = x /\ r \in Seq(E)
      /\ \A i \in 1 .. Len(q) : r[i] = q[i]
  BY AppendedPlaces
<1>2. /\ Len(q) + 1 \in 1 .. Len(r)
      /\ \A i \in 1 .. Len(q) : i \in 1 .. Len(r)
      /\ \A i \in 1 .. Len(r) : i = Len(q) + 1 \/ i \in 1 .. Len(q)
  BY <1>1
<1> HIDE DEF r
<1>3. \A y : y \in ToSet(r) <=> y \in ToSet(q) \/ y = x
  BY <1>1, <1>2, ElementsOf
<1>4. ToSet(r) = ToSet(q) \cup {x}
  BY <1>3
<1> QED
  BY <1>4 DEF r

LEMMA OneInMore ==
  ASSUME NEW E, NEW q \in Seq(E), NEW x \in E, NEW S,
         OneIn(q, S), x \in S => ~Among(q, S)
  PROVE  OneIn(Append(q, x), S)
<1> DEFINE r == Append(q, x)
<1>1. /\ Len(q) \in Nat /\ Len(r) = Len(q) + 1 /\ r[Len(q) + 1] = x
      /\ \A i \in 1 .. Len(q) : r[i] = q[i]
  BY AppendedPlaces
<1>2. \A i \in 1 .. Len(r) : i = Len(q) + 1 \/ i \in 1 .. Len(q)
  BY <1>1
<1> HIDE DEF r
<1>3. OneIn(r, S)
  BY <1>1, <1>2 DEF OneIn, Among
<1> QED
  BY <1>3 DEF r

LEMMA OneInLess ==
  ASSUME NEW E, NEW q \in Seq(E), q # <<>>, NEW S, OneIn(q, S)
  PROVE  OneIn(Tail(q), S) /\ (Head(q) \in S => ~Among(Tail(q), S))
<1> DEFINE r == Tail(q)
           x == Head(q)
<1>1. /\ Len(q) \in Nat \ {0} /\ Len(r) = Len(q) - 1 /\ x = q[1]
      /\ \A i \in 1 .. Len(q) - 1 : r[i] = q[i + 1]
  BY TailPlaces
<1>2. /\ 1 \in 1 .. Len(q)
      /\ \A i \in 1 .. Len(r) : i + 1 \in 1 .. Len(q) /\ r[i] = q[i + 1] /\ i + 1 # 1
      /\ \A i, j \in 1 .. Len(r) : i + 1 = j + 1 => i = j
  BY <1>1
<1> HIDE DEF r, x
<1>3. OneIn(r, S)
  BY <1>2 DEF OneIn
<1>4. x \in S => ~Among(r, S)
  BY <1>1, <1>2 DEF OneIn, Among
<1> QED
  BY <1>3, <1>4 DEF r, x

LEMMA EndsLastMore ==
  ASSUME NEW E, NEW q \in Seq(E), NEW x \in E,
         EndsLast(q), x \in SetUpFrames => ~Among(q, EndFrames)
  PROVE  EndsLast(Append(q, x))
<1> DEFINE r == Append(q, x)
<1>1. /\ Len(q) \in Nat /\ Len(r) = Len(q) + 1 /\ r[Len(q) + 1] = x
      /\ \A i \in 1 .. Len(q) : r[i] = q[i]
  BY AppendedPlaces
<1>2. /\ \A i \in 1 .. Len(r) : i = Len(q) + 1 \/ i \in 1 .. Len(q)
      /\ \A i \in 1 .. Len(r) : ~(Len(q) + 1 < i)
  BY <1>1
<1> HIDE DEF r
<1>3. EndsLast(r)
  BY <1>1, <1>2 DEF EndsLast, Among
<1> QED
  BY <1>3 DEF r

LEMMA EndsLastLess ==
  ASSUME NEW E, NEW q \in Seq(E), q # <<>>, EndsLast(q)
  PROVE  /\ EndsLast(Tail(q))
         /\ Head(q) \in EndFrames => ~Among(Tail(q), SetUpFrames)
<1> DEFINE r == Tail(q)
           x == Head(q)
<1>1. /\ Len(q) \in Nat \ {0} /\ Len(r) = Len(q) - 1 /\ x = q[1]
      /\ \A i \in 1 .. Len(q) - 1 : r[i] = q[i + 1]
  BY TailPlaces
<1>2. /\ 1 \in 1 .. Len(q)
      /\ \A i \in 1 .. Len(r) : i + 1 \in 1 .. Len(q) /\ r[i] = q[i + 1] /\ 1 < i + 1
      /\ \A i, j \in 1 .. Len(r) : i < j => i + 1 < j + 1
  BY <1>1
<1> HIDE DEF r, x
<1>3. EndsLast(r)
  BY <1>2 DEF EndsLast
<1>4. x \in EndFrames => ~Among(r, SetUpFrames)
  BY <1>1, <1>2 DEF EndsLast, Among
<1> QED
  BY <1>3, <1>4 DEF r, x

-----------------------------------------------------------------------------
(* Frames.                                                                  *)

LEMMA FrameIs ==
  ASSUME NEW f \in Frames
  PROVE  /\ f \in EndFrames <=> f.type \in EndTypes
         /\ f \in SetUpFrames <=> f.type \in SetUpTypes
         /\ f \in Complete <=> f.type = "history_complete"
         /\ f \in Chats <=> f.type = "chat"
         /\ f \in HubFrames <=> f.type \notin {"chat", "history_complete"}
         /\ f \in Chats => f.msg \in Msgs /\ f = Message(f.msg)
         /\ f \in NetEvents <=> f.type \in NetTypes
         /\ f.type \in EventTypes \cup NetTypes \cup {"chat"}
<1>1. CASE f \in NetEvents
  <2>1. f.type \in NetTypes
    BY <1>1, BridgeAssumption
  <2>2. /\ f.type \notin {"chat", "history_complete", "room_ready", "room_joined", "room_left",
                         "room_closed"}
    BY <2>1 DEF NetTypes
  <2>3. \A t \in EventTypes : Event(t).type = t
    BY DEF Event, EventAt
  <2>4. \A m \in Msgs : Message(m).type = "chat"
    BY DEF Message, Event, EventAt
  <2> QED
    BY <1>1, <2>1, <2>2, <2>3, <2>4
       DEF EndFrames, SetUpFrames, Complete, Chats, HubFrames, Notices, EndTypes, SetUpTypes,
           EventTypes
<1>2. CASE \E m \in Msgs : f = Message(m)
  <2>1. PICK m \in Msgs : f = Message(m)
    BY <1>2
  <2>2. f.type = "chat" /\ f.msg = m
    BY <2>1 DEF Message, Event, EventAt
  <2>3. \A e \in NetEvents : e.type \in NetTypes
    BY BridgeAssumption
  <2>4. \A t \in EventTypes : Event(t).type = t
    BY DEF Event, EventAt
  <2> QED
    BY <2>1, <2>2, <2>3, <2>4
       DEF EndFrames, SetUpFrames, Complete, Chats, HubFrames, Notices, EndTypes, SetUpTypes,
           EventTypes, NetTypes
<1>3. CASE \E t \in EventTypes : f = Event(t)
  <2>1. PICK t \in EventTypes : f = Event(t)
    BY <1>3
  <2>2. f.type = t
    BY <2>1 DEF Event, EventAt
  <2>3. \A e \in NetEvents : e.type \in NetTypes
    BY BridgeAssumption
  <2>4. \A u \in EventTypes : Event(u).type = u
    BY DEF Event, EventAt
  <2>5. \A m \in Msgs : Message(m).type = "chat"
    BY DEF Message, Event, EventAt
  <2> QED
    BY <2>1, <2>2, <2>3, <2>4, <2>5
       DEF EndFrames, SetUpFrames, Complete, Chats, HubFrames, Notices, EndTypes, SetUpTypes,
           EventTypes, NetTypes
<1> QED
  BY <1>1, <1>2, <1>3 DEF Frames

LEMMA KindsOfFrames ==
  /\ HubFrames \subseteq Frames /\ Chats \subseteq Frames
  /\ \A t \in EventTypes : Event(t) \in Frames /\ Event(t).type = t
  /\ \A m \in Msgs : Message(m) \in Chats /\ Message(m).type = "chat" /\ Message(m).msg = m
  /\ \A t \in {"room_ready", "room_left", "room_closed"} : Event(t) \in HubFrames
  /\ NetEvents \subseteq HubFrames
  /\ Seq(HubFrames) \subseteq Seq(Frames) /\ Seq(Chats) \subseteq Seq(Frames)
<1>1. HubFrames \subseteq Frames /\ Chats \subseteq Frames
  BY DEF HubFrames, Notices, Chats, Frames, EventTypes
<1>2. \A t \in EventTypes : Event(t) \in Frames /\ Event(t).type = t
  BY DEF Frames, Event, EventAt
<1>3. \A m \in Msgs : Message(m) \in Chats /\ Message(m).type = "chat" /\ Message(m).msg = m
  BY DEF Message, Event, EventAt, Chats
<1>4. \A t \in {"room_ready", "room_left", "room_closed"} : Event(t) \in HubFrames
  BY DEF HubFrames, Notices
<1>5. NetEvents \subseteq HubFrames
  BY DEF HubFrames
<1> QED
  BY <1>1, <1>2, <1>3, <1>4, <1>5

LEMMA ConcatPlaces ==
  ASSUME NEW E, NEW w \in Seq(E), NEW b \in Seq(E)
  PROVE  /\ w \o b \in Seq(E) /\ Len(w) \in Nat /\ Len(w \o b) = Len(w) + Len(b)
         /\ \A i \in 1 .. Len(w) : (w \o b)[i] = w[i]
         /\ \A i \in Len(w) + 1 .. Len(w) + Len(b) : (w \o b)[i] = b[i - Len(w)]
  OBVIOUS

\* A burst of messages changes nothing that room events or the end of the burst do.
LEMMA BurstMore ==
  ASSUME NEW w \in Seq(Frames), NEW n \in Nat, NEW q \in [1 .. n -> Msgs], NEW state, NEW S,
         NEW v, v = w \o Burst(q)
  PROVE  /\ v \in Seq(Frames)
         /\ S \cap Chats = {} => (Among(v, S) <=> Among(w, S))
         /\ EndsLast(w) => EndsLast(v)
         /\ ReadyAfter(state, v) <=> ReadyAfter(state, w)
         /\ Among(w, S) => Among(v, S)
         /\ \A i \in 1 .. n : Message(q[i]) \in S => Among(v, S)
<1> DEFINE b == Burst(q)
<1>1. b \in Seq(Chats) /\ Len(b) = n /\ \A i \in 1 .. n : b[i] = Message(q[i])
  <2>1. Len(q) = n
    OBVIOUS
  <2>2. \A i \in 1 .. n : Message(q[i]) \in Chats
    BY KindsOfFrames
  <2> QED
    BY <2>1, <2>2 DEF Burst
<1> HIDE DEF b
<1>2. b \in Seq(Frames) /\ v = w \o b
  BY <1>1, KindsOfFrames DEF b
<1>3. /\ v \in Seq(Frames) /\ Len(w) \in Nat /\ Len(v) = Len(w) + n
      /\ \A i \in 1 .. Len(w) : v[i] = w[i]
      /\ \A i \in Len(w) + 1 .. Len(w) + n : v[i] = b[i - Len(w)]
  BY ONLY w \in Seq(Frames), <1>1, <1>2, ConcatPlaces
<1>4. \A i \in 1 .. n : b[i] \in Chats
  BY <1>1
<1>5. \A i \in Len(w) + 1 .. Len(w) + n : v[i] \in Chats
  <2> TAKE i \in Len(w) + 1 .. Len(w) + n
  <2>1. i - Len(w) \in 1 .. n
    BY <1>3
  <2> QED
    BY <1>3, <1>4, <2>1
<1>6. /\ \A i \in 1 .. Len(v) : i \in 1 .. Len(w) \/ i \in Len(w) + 1 .. Len(w) + n
      /\ \A i \in 1 .. Len(w) : i \in 1 .. Len(v)
      /\ \A i \in 1 .. Len(w) : \A j \in i + 1 .. Len(w) : j \in i + 1 .. Len(v)
      /\ \A i \in 1 .. Len(v) : \A j \in i + 1 .. Len(v) :
           \/ j \in i + 1 .. Len(w) /\ j \in 1 .. Len(w)
           \/ j \in Len(w) + 1 .. Len(w) + n
  BY <1>3
<1>7. \A f \in Chats : f \notin EndFrames /\ f \notin SetUpFrames
                       /\ f.type \notin SetUpTypes /\ f.type \notin EndTypes
  <2> TAKE f \in Chats
  <2>1. f \in Frames
    BY KindsOfFrames
  <2>2. f.type = "chat"
    BY <2>1, FrameIs
  <2> QED
    BY <2>1, <2>2, FrameIs DEF SetUpTypes, EndTypes
<1>8. /\ S \cap Chats = {} => (Among(v, S) <=> Among(w, S))
      /\ Among(w, S) => Among(v, S)
  BY <1>3, <1>5, <1>6 DEF Among
<1>9. EndsLast(w) => EndsLast(v)
  BY <1>3, <1>5, <1>6, <1>7 DEF EndsLast
<1>10. ReadyAfter(state, v) <=> ReadyAfter(state, w)
  <2>1. \A i \in 1 .. Len(v) : v[i].type \in SetUpTypes \cup EndTypes => i \in 1 .. Len(w)
    BY <1>5, <1>6, <1>7
  <2>2. ASSUME ReadyAfter(state, v) PROVE ReadyAfter(state, w)
    BY <1>3, <1>6, <2>1, <2>2 DEF ReadyAfter
  <2>3. ASSUME ReadyAfter(state, w) PROVE ReadyAfter(state, v)
    <3>1. ASSUME NEW i \in 1 .. Len(w), w[i].type \in SetUpTypes,
                 \A j \in i + 1 .. Len(w) : w[j].type \notin EndTypes
          PROVE  ReadyAfter(state, v)
      <4>1. \A j \in i + 1 .. Len(v) : v[j].type \notin EndTypes
        BY <1>3, <1>5, <1>6, <1>7, <3>1
      <4> QED
        BY <1>3, <1>6, <3>1, <4>1 DEF ReadyAfter
    <3>2. ASSUME state = "ready", \A j \in 1 .. Len(w) : w[j].type \notin EndTypes
          PROVE  ReadyAfter(state, v)
      <4>1. \A j \in 1 .. Len(v) : v[j].type \notin EndTypes
        BY <1>3, <2>1, <3>2
      <4> QED
        BY <3>2, <4>1 DEF ReadyAfter
    <3> QED
      BY <2>3, <3>1, <3>2 DEF ReadyAfter
  <2> QED
    BY <2>2, <2>3
<1>11. \A i \in 1 .. n : Message(q[i]) \in S => Among(v, S)
  <2> SUFFICES ASSUME NEW i \in 1 .. n, Message(q[i]) \in S PROVE Among(v, S)
    OBVIOUS
  <2>1. /\ Len(w) + i \in Len(w) + 1 .. Len(w) + n /\ Len(w) + i \in 1 .. Len(v)
        /\ Len(w) + i - Len(w) = i
    BY <1>3
  <2>2. v[Len(w) + i] = Message(q[i])
    BY ONLY <1>1, <1>3, <2>1, i \in 1 .. n
  <2> QED
    BY <2>1, <2>2 DEF Among
<1> QED
  BY <1>3, <1>8, <1>9, <1>10, <1>11

-----------------------------------------------------------------------------
(* What a browser does with a frame.                                        *)

\* The view v2 after the frame f, for the view v before it.
After(v, f, v2) ==
  /\ v2 \in Screens /\ Fits(v2)
  /\ v2.roomState = RoomStateAfter(v.roomState, f)
  /\ Len(v2.events) <= TraceCap
  /\ v2.historyDone <=> v.historyDone \/ f \in Complete
  /\ f \notin EndFrames => Shows(v) \subseteq Shows(v2)
  /\ \A m \in Msgs : f = Message(m) => m \in Shows(v2)

LEMMA ScreenIs ==
  ASSUME NEW v \in Screens
  PROVE  /\ v.messages \in Seq(Msgs) /\ v.historyCount \in Nat /\ v.roomState \in RoomStates
         /\ v.historyBatch \in Seq(Msgs) /\ v.historyDone \in BOOLEAN
         /\ v.seenNonces \in SUBSET Msgs /\ v.events \in Seq(NetEvents)
         /\ <<>> \in Seq(Msgs) /\ <<>> \in Seq(NetEvents) /\ {} \in SUBSET Msgs
         /\ ToSet(<<>>) = {} /\ Len(<<>>) = 0
<1>1. <<>> \in Seq(Msgs) /\ <<>> \in Seq(NetEvents) /\ ToSet(<<>>) = {} /\ Len(<<>>) = 0
  BY DEF ToSet
<1> QED
  BY <1>1 DEF Screens

LEMMA ConnectFits ==
  /\ Connect \in Screens /\ Fits(Connect) /\ Len(Connect.events) <= TraceCap
  /\ Connect.roomState = "pending" /\ ~Connect.historyDone
<1>1. <<>> \in Seq(Msgs) /\ <<>> \in Seq(NetEvents) /\ {} \in SUBSET Msgs /\ Len(<<>>) = 0
      /\ FALSE \in BOOLEAN /\ "pending" \in RoomStates /\ 0 \in Nat
  BY DEF RoomStates
<1>2. Connect \in Screens
  BY <1>1 DEF Connect, Screens
<1>3. Len(Connect.events) <= TraceCap
  BY <1>1, SocketAssumption DEF Connect
<1> QED
  BY <1>2, <1>3 DEF Connect, Fits

LEMMA FlushIs ==
  ASSUME NEW v \in Screens, Fits(v), ~v.historyDone, NEW f \in Complete, NEW v2,
         v2 = FlushHistory(v), Len(v.events) <= TraceCap
  PROVE  After(v, f, v2)
<1>1. f \in Frames /\ f.type = "history_complete"
  BY KindsOfFrames DEF Complete, EventTypes
<1>2. f \notin Chats /\ f \notin EndFrames
  BY <1>1, FrameIs DEF EndTypes
<1>3. RoomStateAfter(v.roomState, f) = v.roomState
  BY <1>1 DEF RoomStateAfter, SetUpTypes
<1>4. Len(v.historyBatch) \in Nat
  BY ScreenIs
<1>5. /\ v2 \in Screens /\ v2.messages = v.historyBatch /\ v2.historyBatch = <<>>
      /\ v2.historyDone /\ v2.roomState = v.roomState /\ v2.events = v.events
      /\ v2.seenNonces = v.seenNonces
  BY <1>4, ScreenIs DEF FlushHistory, Screens
<1>6. Shows(v2) = Shows(v)
  BY <1>5, ScreenIs DEF Shows, Fits
<1>7. Fits(v2)
  BY <1>5, <1>6 DEF Fits
<1>8. \A m \in Msgs : f # Message(m)
  BY <1>2, KindsOfFrames
<1> QED
  BY <1>2, <1>3, <1>5, <1>6, <1>7, <1>8 DEF After

LEMMA ShowIs ==
  ASSUME NEW v \in Screens, Fits(v), NEW m \in Msgs, NEW v2,
         v2 = ShowMessage(v, m), Len(v.events) <= TraceCap
  PROVE  After(v, Message(m), v2)
<1>1. /\ Message(m) \in Frames /\ Message(m).type = "chat" /\ Message(m).msg = m
      /\ \A k \in Msgs : Message(k).msg = k
  BY KindsOfFrames
<1>2. Message(m) \notin EndFrames /\ Message(m) \notin Complete
  BY <1>1, FrameIs DEF EndTypes
<1>3. RoomStateAfter(v.roomState, Message(m)) = v.roomState
  BY <1>1 DEF RoomStateAfter, SetUpTypes
<1>4. \A k \in Msgs : Message(m) = Message(k) => k = m
  BY <1>1
<1> DEFINE more == Append(v.messages, m)
           batch == Append(v.historyBatch, m)
           seen == v.seenNonces \cup {m}
<1>5. /\ more \in Seq(Msgs) /\ batch \in Seq(Msgs) /\ seen \in SUBSET Msgs
      /\ ToSet(more) = ToSet(v.messages) \cup {m}
      /\ ToSet(batch) = ToSet(v.historyBatch) \cup {m}
  BY ScreenIs, ElementsMore, AppendedPlaces
<1>6. CASE m \in v.seenNonces
  <2>1. v2 = v
    BY <1>6 DEF ShowMessage
  <2>2. m \in Shows(v2)
    BY <1>6, <2>1 DEF Fits
  <2>3. v2.historyDone <=> v.historyDone \/ Message(m) \in Complete
    BY <1>2, <2>1
  <2> QED
    BY <1>3, <1>4, <2>1, <2>2, <2>3 DEF After
<1>7. CASE m \notin v.seenNonces /\ v.historyDone
  <2> HIDE DEF more, batch, seen
  <2>1. v2 = [[v EXCEPT !.seenNonces = seen] EXCEPT !.messages = more]
    BY <1>7 DEF ShowMessage, more, seen, Screens
  <2>2. /\ v2 \in Screens /\ v2.messages = more /\ v2.historyBatch = v.historyBatch
        /\ v2.historyDone = v.historyDone /\ v2.roomState = v.roomState
        /\ v2.events = v.events /\ v2.seenNonces = seen
    BY <1>5, <2>1 DEF Screens
  <2>3. Shows(v2) = Shows(v) \cup {m}
    BY <1>5, <2>2 DEF Shows
  <2>4. Fits(v2)
    BY <1>7, <2>2, <2>3 DEF Fits, seen
  <2>5. v2.historyDone <=> v.historyDone \/ Message(m) \in Complete
    BY <1>2, <2>2
  <2> QED
    BY <1>3, <1>4, <2>2, <2>3, <2>4, <2>5 DEF After
<1>8. CASE m \notin v.seenNonces /\ ~v.historyDone
  <2> HIDE DEF more, batch, seen
  <2>1. v2 = [[v EXCEPT !.seenNonces = seen] EXCEPT !.historyBatch = batch]
    BY <1>8 DEF ShowMessage, batch, seen, Screens
  <2>2. /\ v2 \in Screens /\ v2.messages = v.messages /\ v2.historyBatch = batch
        /\ v2.historyDone = v.historyDone /\ v2.roomState = v.roomState
        /\ v2.events = v.events /\ v2.seenNonces = seen
    BY <1>5, <2>1 DEF Screens
  <2>3. Shows(v2) = Shows(v) \cup {m}
    BY <1>5, <2>2 DEF Shows
  <2>4. Fits(v2)
    BY <1>8, <2>2, <2>3 DEF Fits, seen
  <2>5. v2.historyDone <=> v.historyDone \/ Message(m) \in Complete
    BY <1>2, <2>2
  <2> QED
    BY <1>3, <1>4, <2>2, <2>3, <2>4, <2>5 DEF After
<1> QED
  BY <1>6, <1>7, <1>8

LEMMA TraceIs ==
  ASSUME NEW v \in Screens, Fits(v), NEW f \in NetEvents, NEW v2,
         v2 = Trace(v, f), Len(v.events) <= TraceCap
  PROVE  After(v, f, v2)
<1> DEFINE n == Len(v.events)
           kept == IF n < TraceCap THEN v.events ELSE SubSeq(v.events, n - TraceCap + 2, n)
           events == Append(kept, f)
<1>1. f \in Frames /\ f.type \in NetTypes
  BY KindsOfFrames, FrameIs
<1>2. f \notin Chats /\ f \notin EndFrames /\ f \notin Complete
  BY <1>1, FrameIs DEF EndTypes, NetTypes
<1>3. RoomStateAfter(v.roomState, f) = v.roomState
  BY <1>1 DEF RoomStateAfter, SetUpTypes, NetTypes
<1>4. kept \in Seq(NetEvents) /\ Len(kept) + 1 <= TraceCap
  <2>1. v.events \in Seq(NetEvents) /\ n \in Nat /\ TraceCap \in Nat \ {0} /\ n <= TraceCap
    BY ScreenIs, SocketAssumption
  <2>2. CASE n < TraceCap
    BY <2>1, <2>2
  <2>3. CASE n = TraceCap
    <3>1. kept = SubSeq(v.events, 2, n)
      BY <2>1, <2>3
    <3>2. kept \in Seq(NetEvents) /\ Len(kept) = n - 1
      BY <2>1, <2>3, <3>1
    <3> QED
      BY <2>1, <2>3, <3>2
  <2> QED
    BY <2>1, <2>2, <2>3
<1> HIDE DEF kept
<1>5. events \in Seq(NetEvents) /\ Len(events) <= TraceCap
  BY <1>4, SocketAssumption, AppendedPlaces
<1>6. v2 = [v EXCEPT !.events = events]
  BY DEF Trace, kept, Screens
<1> HIDE DEF events
<1>7. /\ v2 \in Screens /\ v2.messages = v.messages /\ v2.historyBatch = v.historyBatch
      /\ v2.historyDone = v.historyDone /\ v2.roomState = v.roomState
      /\ v2.events = events /\ v2.seenNonces = v.seenNonces
  BY <1>5, <1>6 DEF Screens
<1>8. Shows(v2) = Shows(v) /\ Fits(v2)
  BY <1>7 DEF Shows, Fits
<1>9. \A m \in Msgs : f # Message(m)
  BY <1>2, KindsOfFrames
<1>10. v2.historyDone <=> v.historyDone \/ f \in Complete
  BY <1>2, <1>7
<1> QED
  BY <1>3, <1>5, <1>7, <1>8, <1>9, <1>10 DEF After

LEMMA ReadyIs ==
  ASSUME NEW v \in Screens, Fits(v), NEW f \in SetUpFrames, NEW v2,
         v2 = [v EXCEPT !.roomState = "ready"], Len(v.events) <= TraceCap
  PROVE  After(v, f, v2)
<1>1. f \in Frames /\ f.type = "room_ready"
  BY KindsOfFrames DEF SetUpFrames, EventTypes
<1>2. f \notin Chats /\ f \notin EndFrames /\ f \notin Complete
  BY <1>1, FrameIs DEF EndTypes
<1>3. RoomStateAfter(v.roomState, f) = "ready"
  BY <1>1 DEF RoomStateAfter, SetUpTypes
<1>4. /\ v2 \in Screens /\ v2.messages = v.messages /\ v2.historyBatch = v.historyBatch
      /\ v2.historyDone = v.historyDone /\ v2.roomState = "ready"
      /\ v2.events = v.events /\ v2.seenNonces = v.seenNonces
  BY DEF Screens, RoomStates
<1>5. Shows(v2) = Shows(v) /\ Fits(v2)
  BY <1>4 DEF Shows, Fits
<1>6. \A m \in Msgs : f # Message(m)
  BY <1>2, KindsOfFrames
<1>7. v2.historyDone <=> v.historyDone \/ f \in Complete
  BY <1>2, <1>4
<1> QED
  BY <1>3, <1>4, <1>5, <1>6, <1>7 DEF After

LEMMA ResetIs ==
  ASSUME NEW v \in Screens, Fits(v), NEW f \in EndFrames, NEW s \in RoomStates, NEW v2,
         v2 = [ResetRoom(v) EXCEPT !.roomState = s], s = RoomStateAfter(v.roomState, f)
  PROVE  After(v, f, v2)
<1>1. f \in Frames /\ f.type \in EndTypes
  BY KindsOfFrames DEF EndFrames, EventTypes, EndTypes
<1>2. f \notin Chats /\ f \notin Complete
  BY <1>1, FrameIs DEF EndTypes
<1>3. /\ v2 \in Screens /\ v2.messages = <<>> /\ v2.historyBatch = v.historyBatch
      /\ v2.historyDone = v.historyDone /\ v2.roomState = s
      /\ v2.events = <<>> /\ v2.seenNonces = {}
  BY ScreenIs DEF Screens, ResetRoom
<1>4. Fits(v2)
  BY <1>3 DEF Fits
<1>5. Len(v2.events) <= TraceCap
  <2>1. Len(v2.events) = 0
    BY <1>3, ScreenIs
  <2> QED
    BY <2>1, SocketAssumption
<1>6. \A m \in Msgs : f # Message(m)
  BY <1>2, KindsOfFrames
<1>7. v2.historyDone <=> v.historyDone \/ f \in Complete
  BY <1>2, <1>3
<1> QED
  BY <1>3, <1>4, <1>5, <1>6, <1>7 DEF After

LEMMA OnMessageKeeps ==
  ASSUME NEW v \in Screens, Fits(v), Len(v.events) <= TraceCap, NEW f \in Frames,
         f \in Complete => ~v.historyDone, NEW v2, v2 = OnMessage(v, f)
  PROVE  After(v, f, v2)
<1>1. f.type \in EventTypes \cup NetTypes \cup {"chat"}
  BY FrameIs
<1>2. CASE f.type = "history_complete"
  <2>1. f \in Complete /\ v2 = FlushHistory(v)
    BY <1>2, FrameIs DEF OnMessage
  <2> QED
    BY <2>1, FlushIs
<1>3. CASE f.type = "room_ready"
  <2>1. f \in SetUpFrames
    BY <1>3, FrameIs DEF SetUpTypes
  <2>2. v2 = [v EXCEPT !.roomState = "ready"]
    BY <1>3 DEF OnMessage
  <2> QED
    BY <2>1, <2>2, ReadyIs
<1>4. CASE f.type = "room_left" /\ v.roomState # "closed"
  <2>1. f \in EndFrames
    BY <1>4, FrameIs DEF EndTypes
  <2>2. v2 = [ResetRoom(v) EXCEPT !.roomState = "idle"]
    BY <1>4 DEF OnMessage, OnRoomLeft
  <2>3. "idle" \in RoomStates /\ "idle" = RoomStateAfter(v.roomState, f)
    BY <1>4 DEF RoomStateAfter, SetUpTypes, RoomStates
  <2> QED
    BY <2>1, <2>2, <2>3, ResetIs
<1>5. CASE f.type = "room_left" /\ v.roomState = "closed"
  <2>1. f \in EndFrames /\ f \notin Chats /\ f \notin Complete
    BY <1>5, FrameIs DEF EndTypes
  <2>2. v2 = v
    BY <1>5 DEF OnMessage, OnRoomLeft
  <2>3. v.roomState = RoomStateAfter(v.roomState, f)
    BY <1>5 DEF RoomStateAfter, SetUpTypes
  <2>4. \A m \in Msgs : f # Message(m)
    BY <2>1, KindsOfFrames
  <2>5. v2.historyDone <=> v.historyDone \/ f \in Complete
    BY <2>1, <2>2
  <2> QED
    BY <2>1, <2>2, <2>3, <2>4, <2>5 DEF After
<1>6. CASE f.type = "room_closed"
  <2>1. f \in EndFrames
    BY <1>6, FrameIs DEF EndTypes
  <2>2. v2 = [ResetRoom(v) EXCEPT !.roomState = "closed"]
    BY <1>6 DEF OnMessage
  <2>3. "closed" \in RoomStates /\ "closed" = RoomStateAfter(v.roomState, f)
    BY <1>6 DEF RoomStateAfter, SetUpTypes, RoomStates
  <2> QED
    BY <2>1, <2>2, <2>3, ResetIs
<1>7. CASE f.type = "chat"
  <2>1. f.msg \in Msgs /\ f = Message(f.msg)
    BY <1>7, FrameIs
  <2>2. v2 = ShowMessage(v, f.msg)
    BY <1>7 DEF OnMessage
  <2>3. PICK m \in Msgs : m = f.msg
    BY <2>1
  <2>4. After(v, Message(m), v2)
    BY ONLY <2>2, <2>3, v \in Screens, Fits(v), Len(v.events) <= TraceCap, ShowIs
  <2> QED
    BY <2>1, <2>3, <2>4
<1>8. CASE f.type \in NetTypes
  <2>1. f \in NetEvents
    BY <1>8, FrameIs
  <2>2. v2 = Trace(v, f)
    BY <1>8 DEF OnMessage, NetTypes
  <2> QED
    BY <2>1, <2>2, TraceIs
<1> QED
  BY <1>1, <1>2, <1>3, <1>4, <1>5, <1>6, <1>7, <1>8 DEF EventTypes

-----------------------------------------------------------------------------
(* What stays when others act.                                              *)

SameClient(c) ==
  /\ conn'[c] = conn[c] /\ liveQ'[c] = liveQ[c] /\ eventQ'[c] = eventQ[c]
  /\ lagged'[c] = lagged[c] /\ wire'[c] = wire[c] /\ view'[c] = view[c]

LEMMA ClientStays ==
  ASSUME NEW c \in Clients, SameClient(c)
  PROVE  /\ InStep(c) => InStep(c)'
         /\ Bounded(c) => Bounded(c)'
         /\ Burst1(c) => Burst1(c)'
         /\ UNCHANGED <<welcome, phase, misled, rooms>> /\ Told(c) => Told(c)'
         /\ UNCHANGED <<phase, rooms>> /\ Once(c) => Once(c)'
         /\ UNCHANGED <<history, fanout>> /\ HasAll(c) => HasAll(c)'
<1>1. InStep(c) => InStep(c)'
  BY DEF SameClient, InStep, HasLive, HasEvents
<1>2. Bounded(c) => Bounded(c)'
  BY DEF SameClient, Bounded
<1>3. Burst1(c) => Burst1(c)'
  BY DEF SameClient, Burst1
<1>4. UNCHANGED <<welcome, phase, misled, rooms>> /\ Told(c) => Told(c)'
  BY DEF SameClient, Told, HasEvents, Outlook, ReplayTells
<1>5. UNCHANGED <<phase, rooms>> /\ Once(c) => Once(c)'
  BY DEF SameClient, Once, Over, NotOver
<1>6. UNCHANGED <<history, fanout>> /\ HasAll(c) => HasAll(c)'
  BY DEF SameClient, HasAll, Over, Has
<1> QED
  BY <1>1, <1>2, <1>3, <1>4, <1>5, <1>6

\* An action of one client, its handler or its browser.
LEMMA OneClientActs ==
  ASSUME BridgeInv, NEW c \in Clients, UNCHANGED hubVars, ClientType',
         \A d \in Clients : d # c => SameClient(d),
         InStep(c)', Bounded(c)', Told(c)', Burst1(c)',
         rooms <= 1 => Once(c)' /\ HasAll(c)'
  PROVE  BridgeInv'
<1>1. UNCHANGED <<phase, rooms, welcome, history, pushed, fanout, detached, misled, net>>
  BY DEF hubVars
<1>2. HubType' /\ HubState'
  BY <1>1 DEF BridgeInv, HubType, HubState
<1>3. ASSUME NEW d \in Clients
      PROVE  InStep(d)' /\ Bounded(d)' /\ Told(d)' /\ Burst1(d)'
  BY <1>1, <1>3, ClientStays DEF BridgeInv
<1>4. ASSUME rooms <= 1, NEW d \in Clients PROVE Once(d)' /\ HasAll(d)'
  BY <1>1, <1>4, ClientStays DEF BridgeInv
<1> QED
  BY <1>1, <1>2, <1>3, <1>4 DEF BridgeInv

\* A change of the room alone.
LEMMA HubActs ==
  ASSUME BridgeInv, HubType', HubState', Quiet, UNCHANGED SockVars,
         \A c \in Clients : Told(c)',
         rooms' <= 1 => \A c \in Clients : Once(c)' /\ HasAll(c)'
  PROVE  BridgeInv'
<1>1. UNCHANGED <<conn, conns, liveQ, eventQ, lagged, wire, view>>
  BY DEF Quiet, SockVars
<1>2. ClientType'
  BY <1>1 DEF BridgeInv, ClientType
<1>3. \A c \in Clients : SameClient(c)
  BY <1>1 DEF SameClient
<1>4. \A c \in Clients : InStep(c)' /\ Bounded(c)' /\ Burst1(c)'
  BY <1>3, ClientStays DEF BridgeInv
<1> QED
  BY <1>2, <1>4 DEF BridgeInv

-----------------------------------------------------------------------------
(* A send on one of the hub's channels.                                     *)

LEMMA OfferIs ==
  ASSUME NEW E, NEW q \in Seq(E), NEW x \in E, NEW cap \in Nat \ {0}, Len(q) <= cap
  PROVE  /\ Offer(q, x, cap) \in Seq(E) /\ Len(Offer(q, x, cap)) <= cap
         /\ ~Full(q, cap) => Offer(q, x, cap) = Append(q, x)
<1>1. CASE Full(q, cap)
  <2>1. q # <<>> /\ Offer(q, x, cap) = Append(Tail(q), x)
    BY <1>1 DEF Full, Offer
  <2>2. Tail(q) \in Seq(E) /\ Len(Tail(q)) = cap - 1
    BY <1>1, <2>1, TailPlaces DEF Full
  <2> QED
    BY <1>1, <2>1, <2>2, AppendedPlaces
<1>2. CASE ~Full(q, cap)
  <2>1. Offer(q, x, cap) = Append(q, x)
    BY <1>2 DEF Offer
  <2>2. Len(q) + 1 <= cap
    BY <1>2, AppendedPlaces DEF Full
  <2> QED
    BY <2>1, <2>2, AppendedPlaces
<1> QED
  BY <1>1, <1>2

\* What a sent event does to each client.
Gets(c, e) ==
  /\ conn'[c] = conn[c] /\ liveQ'[c] = liveQ[c] /\ wire'[c] = wire[c] /\ view'[c] = view[c]
  /\ ~lagged'[c] => ~lagged[c]
  /\ ~lagged'[c] /\ HasEvents(c) => eventQ'[c] = Append(eventQ[c], e)
  /\ ~HasEvents(c) => eventQ'[c] = eventQ[c]

LEMMA EventSent ==
  ASSUME BridgeInv, NEW e \in HubFrames, SendEvent(e), UNCHANGED SockVars
  PROVE  ClientType' /\ \A c \in Clients : Bounded(c)' /\ Gets(c, e)
<1>1. ClientType /\ \A c \in Clients : Bounded(c)
  BY DEF BridgeInv
<1>2. UNCHANGED <<conn, conns, liveQ, wire, view>>
  BY DEF SendEvent, SockVars
<1>3. EventCap \in Nat \ {0}
  BY BridgeAssumption
<1>4. ASSUME NEW c \in Clients
      PROVE  /\ Offer(eventQ[c], e, EventCap) \in Seq(HubFrames)
             /\ Len(Offer(eventQ[c], e, EventCap)) <= EventCap
             /\ ~Full(eventQ[c], EventCap) => Offer(eventQ[c], e, EventCap) = Append(eventQ[c], e)
  <2>1. eventQ[c] \in Seq(HubFrames) /\ Len(eventQ[c]) <= EventCap
    BY <1>1 DEF ClientType, Bounded
  <2> QED
    BY <1>3, <2>1, OfferIs
<1>5. eventQ' \in [Clients -> Seq(HubFrames)]
  BY <1>1, <1>4 DEF SendEvent, ClientType
<1>6. lagged' \in [Clients -> BOOLEAN]
  BY <1>1 DEF SendEvent, ClientType
<1>7. ClientType'
  BY <1>1, <1>2, <1>5, <1>6 DEF ClientType
<1>8. ASSUME NEW c \in Clients PROVE Bounded(c)' /\ Gets(c, e)
  <2>1. /\ eventQ'[c] = IF HasEvents(c) THEN Offer(eventQ[c], e, EventCap) ELSE eventQ[c]
        /\ lagged'[c] <=> lagged[c] \/ (HasEvents(c) /\ Full(eventQ[c], EventCap))
    BY DEF SendEvent
  <2>2. Bounded(c)'
    BY <1>1, <1>2, <1>4, <2>1 DEF Bounded
  <2>3. Gets(c, e)
    BY <1>2, <1>4, <2>1 DEF Gets
  <2> QED
    BY <2>2, <2>3
<1> QED
  BY <1>7, <1>8

LEMMA GetsKeeps ==
  ASSUME BridgeInv, NEW e \in HubFrames, NEW c \in Clients, Gets(c, e)
  PROVE  /\ InStep(c)' /\ Burst1(c)'
         /\ UNCHANGED <<history, fanout>> /\ HasAll(c) => HasAll(c)'
         /\ HasEvents(c)' <=> HasEvents(c)
         /\ ~lagged'[c] => ~lagged[c]
         /\ UNCHANGED welcome /\ HasEvents(c) /\ ~lagged'[c] =>
              (Outlook(c)' <=> e.type \in SetUpTypes \/ (e.type \notin EndTypes /\ Outlook(c)))
<1>1. InStep(c)' /\ Burst1(c)'
  <2>1. InStep(c) /\ Burst1(c)
    BY DEF BridgeInv
  <2>2. InStep(c)'
    BY <2>1 DEF Gets, InStep, HasLive, HasEvents
  <2>3. Burst1(c)'
    BY <2>1 DEF Gets, Burst1
  <2> QED
    BY <2>2, <2>3
<1>2. UNCHANGED <<history, fanout>> /\ HasAll(c) => HasAll(c)'
  BY DEF Gets, HasAll, Over, Has
<1>3. (HasEvents(c)' <=> HasEvents(c)) /\ (~lagged'[c] => ~lagged[c])
  BY DEF Gets, HasEvents
<1>4. ASSUME UNCHANGED welcome, HasEvents(c), ~lagged'[c]
      PROVE  Outlook(c)' <=> e.type \in SetUpTypes \/ (e.type \notin EndTypes /\ Outlook(c))
  <2>1. ReplayTells(c)' <=> ReplayTells(c)
    BY <1>4 DEF Gets, ReplayTells
  <2>2. eventQ'[c] = Append(eventQ[c], e) /\ eventQ[c] \in Seq(HubFrames)
    BY <1>4 DEF Gets, BridgeInv, ClientType
  <2>3. ReadyOf(ReplayTells(c)') = ReadyOf(ReplayTells(c))
    BY <2>1 DEF ReadyOf
  <2>4. Outlook(c)' <=> ReadyAfter(ReadyOf(ReplayTells(c)), Append(eventQ[c], e))
    BY <2>2, <2>3 DEF Outlook
  <2>5. ReadyAfter(ReadyOf(ReplayTells(c)), Append(eventQ[c], e)) <=>
          e.type \in SetUpTypes \/ (e.type \notin EndTypes /\ Outlook(c))
    BY <2>2, OneMoreFrame DEF Outlook
  <2> QED
    BY <2>4, <2>5
<1> QED
  BY <1>1, <1>2, <1>3, <1>4

LEMMA GetsOnce ==
  ASSUME BridgeInv, NEW e \in HubFrames, NEW c \in Clients, Gets(c, e), Once(c),
         e \in SetUpFrames => NotOver, e \in EndFrames => ~NotOver', NotOver' => NotOver
  PROVE  Once(c)'
<1> SUFFICES ASSUME conn[c] # "off", ~lagged[c], ~lagged'[c] PROVE Once(c)'
  BY DEF Once, Gets
<1>1. /\ EndsLast(wire[c]) /\ EndsLast(eventQ[c])
      /\ Over(c) => ~Among(wire[c], SetUpFrames)
      /\ Over(c) \/ Among(wire[c], EndFrames) => ~Among(eventQ[c], SetUpFrames)
      /\ NotOver => ~Over(c) /\ ~Among(wire[c], EndFrames) /\ ~Among(eventQ[c], EndFrames)
  BY DEF Once
<1>2. Over(c)' <=> Over(c)
  BY DEF Gets, Over
<1>3. wire'[c] = wire[c] /\ conn'[c] = conn[c]
  BY DEF Gets
<1>4. CASE ~HasEvents(c)
  <2>1. eventQ'[c] = eventQ[c]
    BY <1>4 DEF Gets
  <2> QED
    BY <1>1, <1>2, <1>3, <2>1 DEF Once
<1>5. CASE HasEvents(c)
  <2>1. eventQ'[c] = Append(eventQ[c], e) /\ eventQ[c] \in Seq(HubFrames)
    BY <1>5 DEF Gets, BridgeInv, ClientType
  <2>2. \A S : Among(eventQ'[c], S) <=> Among(eventQ[c], S) \/ e \in S
    BY <2>1, AmongMore
  <2>3. EndsLast(eventQ'[c])
    BY <1>1, <2>1, EndsLastMore
  <2>4. Over(c)' \/ Among(wire'[c], EndFrames) => ~Among(eventQ'[c], SetUpFrames)
    BY <1>1, <1>2, <1>3, <2>2
  <2>5. NotOver' => ~Among(eventQ'[c], EndFrames)
    BY <1>1, <2>2
  <2> QED
    BY <1>1, <1>2, <1>3, <2>3, <2>4, <2>5 DEF Once
<1> QED
  BY <1>4, <1>5

LEMMA HubSends ==
  ASSUME BridgeInv, NEW e \in HubFrames, SendEvent(e), UNCHANGED SockVars,
         UNCHANGED <<rooms, history, fanout>>, HubType', HubState',
         \A c \in Clients : Told(c)',
         rooms <= 1 => /\ e \in SetUpFrames => NotOver
                       /\ e \in EndFrames => ~NotOver'
                       /\ NotOver' => NotOver
  PROVE  BridgeInv'
<1>1. ClientType' /\ \A c \in Clients : Bounded(c)' /\ Gets(c, e)
  BY EventSent
<1>2. \A c \in Clients : InStep(c)' /\ Burst1(c)'
  BY <1>1, GetsKeeps
<1>3. ASSUME rooms <= 1, NEW c \in Clients PROVE Once(c)' /\ HasAll(c)'
  <2>1. Once(c) /\ HasAll(c)
    BY <1>3 DEF BridgeInv
  <2> QED
    BY <1>1, <1>3, <2>1, GetsKeeps, GetsOnce
<1> QED
  BY <1>1, <1>2, <1>3 DEF BridgeInv

-----------------------------------------------------------------------------
(* The room's calls.                                                        *)

LEMMA HubIs ==
  ASSUME BridgeInv
  PROVE  /\ HubType /\ HubState /\ rooms \in Nat /\ detached \in Nat /\ misled \in Nat
         /\ <<>> \in Seq(Msgs) /\ ToSet(<<>>) = {} /\ MaxRooms \in Nat /\ MaxNet \in Nat
<1>1. <<>> \in Seq(Msgs) /\ ToSet(<<>>) = {}
  BY DEF ToSet
<1>2. MaxRooms \in Nat /\ MaxNet \in Nat
  BY BridgeAssumption
<1> QED
  BY <1>1, <1>2 DEF BridgeInv, HubType

LEMMA StartRoomKeeps ==
  ASSUME BridgeInv, StartRoom
  PROVE  BridgeInv'
<1>1. /\ phase = "idle" /\ rooms < MaxRooms /\ phase' = "starting" /\ rooms' = rooms + 1
      /\ history' = <<>> /\ welcome' = 0 /\ Quiet /\ UNCHANGED SockVars
      /\ UNCHANGED <<pushed, fanout, detached, misled, net>>
  BY DEF StartRoom, TaskVars
<1>2. HubType'
  BY <1>1, HubIs DEF HubType, Phases
<1>3. HubState'
  BY <1>1, HubIs DEF HubState
<1>4. \A c \in Clients : Told(c)'
  BY <1>1 DEF Told
<1>5. ASSUME rooms' <= 1, NEW c \in Clients PROVE Once(c)' /\ HasAll(c)'
  <2>1. rooms = 0
    BY <1>1, <1>5, HubIs
  <2>2. Once(c) /\ NotOver
    BY <2>1 DEF BridgeInv, NotOver
  <2>3. UNCHANGED <<conn, conns, liveQ, eventQ, lagged, wire, view>>
    BY <1>1 DEF Quiet, SockVars
  <2>4. Once(c)'
    BY <2>2, <2>3 DEF Once, Over
  <2>5. HasAll(c)'
    BY <1>1, HubIs DEF HasAll
  <2> QED
    BY <2>4, <2>5
<1> QED
  BY <1>1, <1>2, <1>3, <1>4, <1>5, HubActs

\* The steps of the room that tell nobody anything.
LEMMA SilentRoom ==
  ASSUME BridgeInv, NEW c \in Clients, Quiet, UNCHANGED SockVars, UNCHANGED rooms,
         phase' \notin {"idle", "open"}, NotOver' => NotOver, fanout' = fanout,
         history' \in {history, <<>>}
  PROVE  Told(c)' /\ (rooms' <= 1 => Once(c)' /\ HasAll(c)')
<1>1. Told(c)'
  BY DEF Told
<1>2. UNCHANGED <<conn, conns, liveQ, eventQ, lagged, wire, view>>
  BY DEF Quiet, SockVars
<1>3. ASSUME rooms' <= 1 PROVE Once(c)' /\ HasAll(c)'
  <2>1. Once(c) /\ HasAll(c)
    BY <1>3 DEF BridgeInv
  <2>2. Once(c)'
    BY <1>2, <2>1 DEF Once, Over
  <2>3. CASE history' = history
    BY <1>2, <2>1, <2>2, <2>3 DEF HasAll, Over, Has
  <2>4. CASE history' = <<>>
    <3>1. ToSet(history') = {}
      BY <2>4, HubIs
    <3> QED
      BY <2>2, <3>1 DEF HasAll
  <2> QED
    BY <2>3, <2>4
<1> QED
  BY <1>1, <1>3

LEMMA StoreWelcomeKeeps ==
  ASSUME BridgeInv, StoreWelcome
  PROVE  BridgeInv'
<1>1. /\ phase = "starting" /\ phase' = "welcoming" /\ welcome' = rooms
      /\ Quiet /\ UNCHANGED SockVars
      /\ UNCHANGED <<rooms, history, pushed, fanout, detached, misled, net>>
  BY DEF StoreWelcome, TaskVars
<1>2. HubType'
  BY <1>1, HubIs DEF HubType, Phases
<1>3. HubState'
  BY <1>1, HubIs DEF HubState
<1>4. NotOver' => NotOver
  BY <1>1 DEF NotOver
<1> QED
  BY <1>1, <1>2, <1>3, <1>4, SilentRoom, HubActs

LEMMA EndWelcomeKeeps ==
  ASSUME BridgeInv, EndWelcome
  PROVE  BridgeInv'
<1>1. /\ phase \in {"open", "closing"} /\ phase' = "ending" /\ welcome' = 0
      /\ detached' = IF phase = "open" THEN detached + 1 ELSE detached
      /\ Quiet /\ UNCHANGED SockVars
      /\ UNCHANGED <<rooms, history, pushed, fanout, misled, net>>
  BY DEF EndWelcome, TaskStays
<1>2. HubType'
  BY <1>1, HubIs DEF HubType, Phases
<1>3. HubState'
  BY <1>1, HubIs DEF HubState
<1>4. NotOver' => NotOver
  BY <1>1 DEF NotOver
<1> QED
  BY <1>1, <1>2, <1>3, <1>4, SilentRoom, HubActs

LEMMA EndHistoryKeeps ==
  ASSUME BridgeInv, EndHistory
  PROVE  BridgeInv'
<1>1. /\ phase = "ending" /\ phase' = "ended" /\ history' = <<>>
      /\ Quiet /\ UNCHANGED SockVars
      /\ UNCHANGED <<rooms, welcome, pushed, fanout, detached, misled, net>>
  BY DEF EndHistory, TaskVars
<1>2. HubType'
  BY <1>1, HubIs DEF HubType, Phases
<1>3. HubState'
  BY <1>1, HubIs DEF HubState
<1>4. NotOver' => NotOver
  BY <1>1 DEF NotOver
<1> QED
  BY <1>1, <1>2, <1>3, <1>4, SilentRoom, HubActs

LEMMA SendWelcomeKeeps ==
  ASSUME BridgeInv, SendWelcome
  PROVE  BridgeInv'
<1> DEFINE e == Event("room_ready")
<1>1. /\ phase = "welcoming" /\ phase' = "open" /\ SendEvent(e) /\ UNCHANGED SockVars
      /\ UNCHANGED <<rooms, welcome, history, pushed, fanout, detached, misled, net>>
  BY DEF SendWelcome, TaskVars
<1>2. e \in HubFrames /\ e.type = "room_ready" /\ e.type \in SetUpTypes
  BY KindsOfFrames DEF EventTypes, SetUpTypes
<1>3. e \notin EndFrames
  BY <1>2, KindsOfFrames, FrameIs DEF EndTypes
<1> HIDE DEF e
<1>4. HubType'
  BY <1>1, HubIs DEF HubType, Phases
<1>5. HubState'
  BY <1>1, HubIs DEF HubState
<1>6. ASSUME NEW c \in Clients PROVE Told(c)'
  <2>1. Gets(c, e)
    BY <1>1, <1>2, EventSent
  <2>2. HasEvents(c)' /\ ~lagged'[c] => Outlook(c)'
    BY <1>1, <1>2, <2>1, GetsKeeps
  <2> QED
    BY <1>1, <2>2 DEF Told
<1>7. NotOver
  BY <1>1 DEF NotOver
<1> QED
  BY <1>1, <1>2, <1>3, <1>4, <1>5, <1>6, <1>7, HubSends

LEMMA HostClosesKeeps ==
  ASSUME BridgeInv, HostCloses
  PROVE  BridgeInv'
<1> DEFINE e == Event("room_closed")
<1>1. /\ phase = "open" /\ phase' = "closing" /\ SendEvent(e) /\ UNCHANGED SockVars
      /\ UNCHANGED <<rooms, welcome, history, pushed, fanout, detached, misled, net>>
  BY DEF HostCloses, TaskVars
<1>2. e \in HubFrames /\ e.type = "room_closed" /\ e \in Frames
  BY KindsOfFrames DEF EventTypes
<1>3. e \notin SetUpFrames
  BY <1>2, FrameIs DEF SetUpTypes
<1> HIDE DEF e
<1>4. HubType'
  BY <1>1, HubIs DEF HubType, Phases
<1>5. HubState'
  BY <1>1, HubIs DEF HubState
<1>6. \A c \in Clients : Told(c)'
  BY <1>1 DEF Told
<1>7. ~NotOver'
  BY <1>1, HubIs DEF NotOver, HubState
<1> QED
  BY <1>1, <1>2, <1>3, <1>4, <1>5, <1>6, <1>7, HubSends

LEMMA LateCloseKeeps ==
  ASSUME BridgeInv, LateClose
  PROVE  BridgeInv'
<1> DEFINE e == Event("room_closed")
<1>1. /\ detached > 0 /\ detached' = detached - 1
      /\ misled' = IF phase = "open" THEN rooms ELSE misled
      /\ SendEvent(e) /\ UNCHANGED SockVars
      /\ UNCHANGED <<phase, rooms, welcome, history, pushed, fanout, net>>
  BY DEF LateClose
<1>2. e \in HubFrames /\ e.type = "room_closed" /\ e \in Frames
  BY KindsOfFrames DEF EventTypes
<1>3. e \notin SetUpFrames /\ e.type \in EndTypes /\ e.type \notin SetUpTypes
  BY <1>2, FrameIs DEF SetUpTypes, EndTypes
<1> HIDE DEF e
<1>4. HubType'
  BY <1>1, HubIs DEF HubType
<1>5. HubState'
  BY <1>1, HubIs DEF HubState
<1>6. ASSUME NEW c \in Clients PROVE Told(c)'
  <2>1. Gets(c, e)
    BY <1>1, <1>2, EventSent
  <2>2. HasEvents(c)' /\ ~lagged'[c] => ~Outlook(c)'
    BY <1>1, <1>2, <1>3, <2>1, GetsKeeps
  <2>3. phase' = "open" => misled' = rooms'
    BY <1>1
  <2> QED
    BY <2>2, <2>3 DEF Told
<1>7. rooms <= 1 => ~NotOver
  BY <1>1, HubIs DEF NotOver, HubState
<1>8. NotOver' <=> NotOver
  BY <1>1 DEF NotOver
<1> QED
  BY <1>1, <1>2, <1>3, <1>4, <1>5, <1>6, <1>7, <1>8, HubSends

LEMMA RoomLeftKeeps ==
  ASSUME BridgeInv, RoomLeft
  PROVE  BridgeInv'
<1> DEFINE e == Event("room_left")
<1>1. /\ phase = "ended" /\ phase' = "idle" /\ SendEvent(e) /\ UNCHANGED SockVars
      /\ UNCHANGED <<rooms, welcome, history, pushed, fanout, detached, misled, net>>
  BY DEF RoomLeft, TaskVars
<1>2. e \in HubFrames /\ e.type = "room_left" /\ e \in Frames
  BY KindsOfFrames DEF EventTypes
<1>3. e \notin SetUpFrames /\ e.type \in EndTypes /\ e.type \notin SetUpTypes
  BY <1>2, FrameIs DEF SetUpTypes, EndTypes
<1> HIDE DEF e
<1>4. HubType'
  BY <1>1, HubIs DEF HubType, Phases
<1>5. HubState'
  BY <1>1, HubIs DEF HubState
<1>6. ASSUME NEW c \in Clients PROVE Told(c)'
  <2>1. Gets(c, e)
    BY <1>1, <1>2, EventSent
  <2>2. HasEvents(c)' /\ ~lagged'[c] => ~Outlook(c)'
    BY <1>1, <1>2, <1>3, <2>1, GetsKeeps
  <2> QED
    BY <1>1, <2>2 DEF Told
<1>7. ~NotOver'
  BY <1>1, HubIs DEF NotOver, HubState
<1> QED
  BY <1>1, <1>2, <1>3, <1>4, <1>5, <1>6, <1>7, HubSends

LEMMA TelemetryKeeps ==
  ASSUME BridgeInv, NEW e \in NetEvents, Telemetry(e)
  PROVE  BridgeInv'
<1>1. /\ net < MaxNet /\ net' = net + 1 /\ SendEvent(e) /\ UNCHANGED SockVars
      /\ UNCHANGED <<phase, rooms, welcome, history, pushed, fanout, detached, misled>>
  BY DEF Telemetry, TaskVars
<1>2. e \in HubFrames /\ e \in Frames /\ e.type \in NetTypes
  BY KindsOfFrames, FrameIs
<1>3. e.type \notin SetUpTypes /\ e.type \notin EndTypes
  BY <1>2 DEF NetTypes, SetUpTypes, EndTypes
<1>4. e \notin SetUpFrames /\ e \notin EndFrames
  BY <1>2, <1>3, FrameIs
<1>5. HubType'
  BY <1>1, HubIs DEF HubType
<1>6. HubState'
  BY <1>1, HubIs DEF HubState
<1>7. ASSUME NEW c \in Clients PROVE Told(c)'
  <2>1. Gets(c, e)
    BY <1>1, <1>2, EventSent
  <2>2. /\ HasEvents(c)' <=> HasEvents(c)
        /\ ~lagged'[c] => ~lagged[c]
        /\ HasEvents(c) /\ ~lagged'[c] => (Outlook(c)' <=> Outlook(c))
    BY <1>1, <1>2, <1>3, <2>1, GetsKeeps
  <2>3. Told(c)
    BY DEF BridgeInv
  <2> QED
    BY <1>1, <2>2, <2>3 DEF Told
<1>8. NotOver' <=> NotOver
  BY <1>1 DEF NotOver
<1> QED
  BY <1>1, <1>2, <1>4, <1>5, <1>6, <1>7, <1>8, HubSends

LEMMA AppendHistoryKeeps ==
  ASSUME BridgeInv, NEW m \in Msgs, AppendHistory(m)
  PROVE  BridgeInv'
<1>1. /\ history' = Append(history, m) /\ pushed' = pushed \cup {m}
      /\ fanout' = fanout \cup {m} /\ Quiet /\ UNCHANGED SockVars
      /\ UNCHANGED <<phase, rooms, welcome, detached, misled, net>>
  BY DEF AppendHistory, TaskVars
<1>2. /\ history \in Seq(Msgs) /\ history' \in Seq(Msgs)
      /\ ToSet(history') = ToSet(history) \cup {m}
  BY <1>1, HubIs, ElementsMore, AppendedPlaces DEF HubType
<1>3. HubType'
  BY <1>1, <1>2, HubIs DEF HubType
<1>4. HubState'
  BY <1>1, HubIs DEF HubState
<1>5. UNCHANGED <<conn, conns, liveQ, eventQ, lagged, wire, view>>
  BY <1>1 DEF Quiet, SockVars
<1>6. \A c \in Clients : SameClient(c)
  BY <1>5 DEF SameClient
<1>7. \A c \in Clients : Told(c)'
  BY <1>1, <1>6, ClientStays DEF BridgeInv
<1>8. ASSUME rooms' <= 1, NEW c \in Clients PROVE Once(c)' /\ HasAll(c)'
  <2>1. Once(c) /\ HasAll(c)
    BY <1>1, <1>8 DEF BridgeInv
  <2>2. Once(c)'
    BY <1>1, <1>6, <2>1, ClientStays
  <2>3. ToSet(history') \ fanout' \subseteq ToSet(history) \ fanout
    BY <1>1, <1>2
  <2>4. HasAll(c)'
    BY <1>5, <2>1, <2>3 DEF HasAll, Over, Has
  <2> QED
    BY <2>2, <2>4
<1> QED
  BY <1>1, <1>3, <1>4, <1>7, <1>8, HubActs

LEMMA FanoutKeeps ==
  ASSUME BridgeInv, NEW m \in Msgs, Fanout(m)
  PROVE  BridgeInv'
<1> DEFINE x == Message(m)
<1>1. /\ m \in fanout /\ fanout' = fanout \ {m} /\ SendLive(m) /\ UNCHANGED SockVars
      /\ UNCHANGED <<phase, rooms, welcome, history, pushed, detached, misled, net>>
  BY DEF Fanout, TaskVars
<1>2. ClientType /\ \A c \in Clients : InStep(c) /\ Bounded(c) /\ Told(c) /\ Burst1(c)
  BY DEF BridgeInv
<1>3. UNCHANGED <<conn, conns, eventQ, wire, view>>
  BY <1>1 DEF SendLive, SockVars
<1>4. x \in Chats /\ LiveCap \in Nat \ {0}
  BY KindsOfFrames, BridgeAssumption
<1> HIDE DEF x
<1>5. ASSUME NEW c \in Clients
      PROVE  /\ liveQ[c] \in Seq(Chats)
             /\ Offer(liveQ[c], x, LiveCap) \in Seq(Chats)
             /\ Len(Offer(liveQ[c], x, LiveCap)) <= LiveCap
             /\ ~Full(liveQ[c], LiveCap) => Offer(liveQ[c], x, LiveCap) = Append(liveQ[c], x)
  <2>1. liveQ[c] \in Seq(Chats) /\ Len(liveQ[c]) <= LiveCap
    BY <1>2 DEF ClientType, Bounded
  <2> QED
    BY <1>4, <2>1, OfferIs
<1>6. ASSUME NEW c \in Clients
      PROVE  /\ liveQ'[c] = IF HasLive(c) THEN Offer(liveQ[c], x, LiveCap) ELSE liveQ[c]
             /\ lagged'[c] <=> lagged[c] \/ (HasLive(c) /\ Full(liveQ[c], LiveCap))
  BY <1>1 DEF SendLive, x
<1>7. ClientType'
  <2>1. liveQ' \in [Clients -> Seq(Chats)]
    BY <1>1, <1>2, <1>5 DEF SendLive, ClientType, x
  <2>2. lagged' \in [Clients -> BOOLEAN]
    BY <1>1 DEF SendLive
  <2> QED
    BY <1>2, <1>3, <2>1, <2>2 DEF ClientType
<1>8. HubType' /\ HubState'
  BY <1>1, HubIs DEF HubType, HubState
<1>9. ASSUME NEW c \in Clients PROVE InStep(c)' /\ Bounded(c)' /\ Told(c)' /\ Burst1(c)'
  <2>1. ~lagged'[c] => ~lagged[c]
    BY <1>6
  <2>2. InStep(c)'
    BY <1>2, <1>3, <1>6 DEF InStep, HasLive, HasEvents
  <2>3. Bounded(c)'
    BY <1>2, <1>3, <1>5, <1>6 DEF Bounded
  <2>4. Told(c)'
    BY <1>1, <1>2, <1>3, <2>1 DEF Told, HasEvents, Outlook, ReplayTells
  <2>5. Burst1(c)'
    BY <1>2, <1>3 DEF Burst1
  <2> QED
    BY <2>2, <2>3, <2>4, <2>5
<1>10. ASSUME rooms <= 1, NEW c \in Clients PROVE Once(c)' /\ HasAll(c)'
  <2>1. Once(c) /\ HasAll(c)
    BY <1>10 DEF BridgeInv
  <2>2. ~lagged'[c] => ~lagged[c]
    BY <1>6
  <2>3. Once(c)'
    BY <1>1, <1>3, <2>1, <2>2 DEF Once, Over, NotOver
  <2>4. ASSUME conn'[c] \in {"replayed", "live"}, ~lagged'[c], ~Over(c)',
               NEW k \in ToSet(history') \ fanout'
        PROVE  Has(c, k)'
    <3>1. HasLive(c) /\ ~lagged[c] /\ ~Over(c) /\ conn[c] \in {"replayed", "live"}
      BY <1>3, <2>2, <2>4 DEF HasLive, Over
    <3>2. liveQ'[c] = Append(liveQ[c], x) /\ liveQ[c] \in Seq(Chats)
      BY <1>5, <1>6, <2>4, <3>1
    <3>3. \A S : Among(liveQ'[c], S) <=> Among(liveQ[c], S) \/ x \in S
      BY <1>4, <3>2, AmongMore
    <3>4. CASE k = m
      <4>1. Among(liveQ'[c], {Message(k)})
        BY <3>3, <3>4 DEF x
      <4> QED
        BY <4>1 DEF Has
    <3>5. CASE k # m
      <4>1. Has(c, k)
        BY <1>1, <2>1, <2>4, <3>1, <3>5 DEF HasAll
      <4> QED
        BY <1>3, <3>3, <4>1 DEF Has
    <3> QED
      BY <3>4, <3>5
  <2>5. HasAll(c)'
    BY <2>4 DEF HasAll
  <2> QED
    BY <2>3, <2>5
<1> QED
  BY <1>1, <1>7, <1>8, <1>9, <1>10 DEF BridgeInv

-----------------------------------------------------------------------------
(* The handler and the browser.                                             *)

ClientStates == {"off", "accepted", "half", "subscribed", "welcomed", "replayed", "live"}

LEMMA ClientIsTyped ==
  ASSUME BridgeInv, NEW c \in Clients
  PROVE  /\ ClientType /\ conn[c] \in ClientStates /\ conns[c] \in 0 .. MaxConns
         /\ lagged[c] \in BOOLEAN
         /\ liveQ[c] \in Seq(Chats) /\ eventQ[c] \in Seq(HubFrames) /\ wire[c] \in Seq(Frames)
         /\ view[c] \in Screens /\ view[c].roomState \in RoomStates
         /\ InStep(c) /\ Bounded(c) /\ Told(c) /\ Burst1(c)
         /\ rooms <= 1 => Once(c) /\ HasAll(c)
         /\ MaxConns \in Nat
<1>1. ClientType /\ InStep(c) /\ Bounded(c) /\ Told(c) /\ Burst1(c)
      /\ (rooms <= 1 => Once(c) /\ HasAll(c))
  BY DEF BridgeInv
<1>2. view[c] \in Screens /\ MaxConns \in Nat
  BY <1>1, BridgeAssumption DEF ClientType
<1>3. view[c].roomState \in RoomStates
  BY <1>2, ScreenIs
<1> QED
  BY <1>1, <1>2, <1>3 DEF ClientType, ClientStates

LEMMA HubStays ==
  ASSUME UNCHANGED hubVars
  PROVE  /\ UNCHANGED <<phase, rooms, welcome, history, pushed, fanout, detached, misled, net>>
         /\ NotOver' <=> NotOver
  BY DEF hubVars, NotOver

LEMMA ConnectsKeeps ==
  ASSUME BridgeInv, NEW c \in Clients, ClientConnects(c)
  PROVE  BridgeInv'
<1>1. /\ conn[c] = "off" /\ conns[c] < MaxConns /\ conns' = [conns EXCEPT ![c] = @ + 1]
      /\ conn' = [conn EXCEPT ![c] = "accepted"] /\ view' = [view EXCEPT ![c] = Connect]
      /\ UNCHANGED <<hubVars, liveQ, eventQ, lagged, wire>>
  BY DEF ClientConnects
<1>2. ClientType /\ conns[c] + 1 \in 0 .. MaxConns
  BY <1>1, ClientIsTyped
<1>3. ClientType'
  BY <1>1, <1>2, ConnectFits DEF ClientType
<1>4. \A d \in Clients : d # c => SameClient(d)
  BY <1>1, <1>2 DEF SameClient, ClientType
<1>5. conn'[c] = "accepted" /\ view'[c] = Connect
  BY <1>1, <1>2 DEF ClientType
<1>6. liveQ'[c] = <<>> /\ eventQ'[c] = <<>> /\ wire'[c] = <<>>
  BY <1>1, ClientIsTyped DEF InStep, HasLive, HasEvents
<1>7. InStep(c)'
  BY <1>5, <1>6 DEF InStep
<1>8. Bounded(c)'
  BY <1>1, <1>5, ClientIsTyped, ConnectFits DEF Bounded
<1>9. Told(c)'
  BY <1>5 DEF Told, HasEvents
<1>10. OneIn(wire'[c], Complete) /\ \A S : ~Among(wire'[c], S)
  BY <1>6, NoneAmong DEF OneIn
<1>11. Burst1(c)'
  BY <1>5, <1>10, ConnectFits DEF Burst1
<1>12. Once(c)'
  <2>1. EndsLast(wire'[c]) /\ EndsLast(eventQ'[c]) /\ \A S : ~Among(eventQ'[c], S)
    BY <1>6, NoneAmong DEF EndsLast
  <2>2. ~Over(c)'
    BY <1>5, ConnectFits DEF Over
  <2> QED
    BY <1>10, <2>1, <2>2 DEF Once
<1>13. HasAll(c)'
  BY <1>5 DEF HasAll
<1> QED
  BY <1>1, <1>3, <1>4, <1>7, <1>8, <1>9, <1>11, <1>12, <1>13, OneClientActs

LEMMA SubscribesKeeps ==
  ASSUME BridgeInv, NEW c \in Clients, SubscribeLive(c) \/ SubscribeEvents(c)
  PROVE  BridgeInv'
<1>1. /\ \/ conn[c] = "accepted" /\ conn' = [conn EXCEPT ![c] = "half"]
         \/ conn[c] = "half" /\ conn' = [conn EXCEPT ![c] = "subscribed"]
      /\ UNCHANGED <<hubVars, conns, wire, view, liveQ, eventQ, lagged>>
  BY DEF SubscribeLive, SubscribeEvents, Quiet
<1>2. ClientType
  BY ClientIsTyped
<1>3. ClientType'
  BY <1>1, <1>2 DEF ClientType
<1>4. \A d \in Clients : d # c => SameClient(d)
  BY <1>1, <1>2 DEF SameClient, ClientType
<1>5. \/ conn[c] = "accepted" /\ conn'[c] = "half"
      \/ conn[c] = "half" /\ conn'[c] = "subscribed"
  BY <1>1, <1>2 DEF ClientType
<1>6. eventQ'[c] = <<>> /\ wire'[c] = <<>> /\ view'[c] = Connect
  BY <1>1, <1>5, ClientIsTyped DEF InStep, HasEvents
<1>7. InStep(c)'
  BY <1>1, <1>5, <1>6, ClientIsTyped DEF InStep, HasLive
<1>8. Bounded(c)'
  BY <1>1, ClientIsTyped DEF Bounded
<1>9. Told(c)'
  <2>1. CASE conn'[c] = "half"
    BY <2>1 DEF Told, HasEvents
  <2>2. CASE conn'[c] = "subscribed"
    <3>1. ReplayTells(c)' <=> welcome # 0
      BY <1>1, <2>2, HubStays DEF ReplayTells
    <3>2. Outlook(c)' <=> ReadyOf(ReplayTells(c)') = "ready"
      BY <1>6, NothingToRead DEF Outlook
    <3>3. Outlook(c)' <=> welcome # 0
      BY <3>1, <3>2 DEF ReadyOf
    <3>4. (phase = "idle" => welcome = 0) /\ (phase = "open" => welcome # 0)
      BY HubIs DEF HubState
    <3> QED
      BY <1>1, <3>3, <3>4, HubStays DEF Told
  <2> QED
    BY <1>5, <2>1, <2>2
<1>10. Burst1(c)'
  BY <1>1, <1>5, ClientIsTyped DEF Burst1
<1>11. rooms <= 1 => Once(c)'
  BY <1>1, <1>5, HubStays, ClientIsTyped DEF Once, Over
<1>12. HasAll(c)'
  BY <1>5 DEF HasAll
<1> QED
  BY <1>1, <1>3, <1>4, <1>7, <1>8, <1>9, <1>10, <1>11, <1>12, OneClientActs

LEMMA DisconnectKeeps ==
  ASSUME BridgeInv, NEW c \in Clients, Disconnect(c)
  PROVE  BridgeInv'
<1>1. /\ conn' = [conn EXCEPT ![c] = "off"] /\ liveQ' = [liveQ EXCEPT ![c] = <<>>]
      /\ eventQ' = [eventQ EXCEPT ![c] = <<>>] /\ lagged' = [lagged EXCEPT ![c] = FALSE]
      /\ wire' = [wire EXCEPT ![c] = <<>>] /\ UNCHANGED <<hubVars, conns, view>>
  BY DEF Disconnect
<1>2. ClientType
  BY ClientIsTyped
<1>3. <<>> \in Seq(Chats) /\ <<>> \in Seq(HubFrames) /\ <<>> \in Seq(Frames) /\ Len(<<>>) = 0
  OBVIOUS
<1>4. ClientType'
  BY <1>1, <1>2, <1>3 DEF ClientType
<1>5. \A d \in Clients : d # c => SameClient(d)
  BY <1>1, <1>2 DEF SameClient, ClientType
<1>6. conn'[c] = "off" /\ liveQ'[c] = <<>> /\ eventQ'[c] = <<>> /\ wire'[c] = <<>>
  BY <1>1, <1>2 DEF ClientType
<1>7. InStep(c)'
  BY <1>6 DEF InStep
<1>8. Bounded(c)'
  <2>1. LiveCap \in Nat /\ EventCap \in Nat
    BY BridgeAssumption
  <2>2. Len(liveQ'[c]) = 0 /\ Len(eventQ'[c]) = 0
    BY <1>3, <1>6
  <2>3. Len(view'[c].events) <= TraceCap
    BY <1>1, ClientIsTyped DEF Bounded
  <2> QED
    BY <2>1, <2>2, <2>3 DEF Bounded
<1>9. Told(c)' /\ Once(c)' /\ HasAll(c)'
  BY <1>6 DEF Told, HasEvents, Once, HasAll
<1>10. Burst1(c)'
  <2>1. OneIn(wire'[c], Complete) /\ \A S : ~Among(wire'[c], S)
    BY <1>6, NoneAmong DEF OneIn
  <2> QED
    BY <1>1, <1>6, <2>1, ClientIsTyped DEF Burst1
<1> QED
  BY <1>1, <1>4, <1>5, <1>7, <1>8, <1>9, <1>10, OneClientActs

LEMMA WireMore ==
  ASSUME NEW w \in Seq(Frames), NEW f \in Frames, NEW v, v = Append(w, f), NEW state
  PROVE  /\ v \in Seq(Frames)
         /\ \A S : Among(v, S) <=> Among(w, S) \/ f \in S
         /\ EndsLast(w) /\ (f \in SetUpFrames => ~Among(w, EndFrames)) => EndsLast(v)
         /\ OneIn(w, Complete) /\ (f \in Complete => ~Among(w, Complete)) => OneIn(v, Complete)
         /\ ReadyAfter(state, v) <=>
              f.type \in SetUpTypes \/ (f.type \notin EndTypes /\ ReadyAfter(state, w))
<1>1. Append(w, f) \in Seq(Frames)
  BY AppendedPlaces
<1>2. \A S : Among(Append(w, f), S) <=> Among(w, S) \/ f \in S
  BY AmongMore
<1>3. EndsLast(w) /\ (f \in SetUpFrames => ~Among(w, EndFrames)) => EndsLast(Append(w, f))
  BY EndsLastMore
<1>4. OneIn(w, Complete) /\ (f \in Complete => ~Among(w, Complete))
        => OneIn(Append(w, f), Complete)
  BY OneInMore
<1>5. ReadyAfter(state, Append(w, f)) <=>
        f.type \in SetUpTypes \/ (f.type \notin EndTypes /\ ReadyAfter(state, w))
  BY OneMoreFrame
<1> QED
  BY <1>1, <1>2, <1>3, <1>4, <1>5

\* The outlook depends on what the replay tells and on the events to come only.
LEMMA SameOutlook ==
  ASSUME NEW c \in Clients, HasEvents(c), lagged'[c] = lagged[c],
         UNCHANGED <<phase, misled, rooms>>,
         Outlook(c)' <=> Outlook(c), Told(c)
  PROVE  Told(c)'
  BY DEF Told

LEMMA ReplayWelcomeKeeps ==
  ASSUME BridgeInv, NEW c \in Clients, ReplayWelcome(c)
  PROVE  BridgeInv'
<1> DEFINE f == Event("room_ready")
<1>1. /\ conn[c] = "subscribed" /\ conn' = [conn EXCEPT ![c] = "welcomed"]
      /\ wire' = [wire EXCEPT ![c] = IF welcome = 0 THEN @ ELSE Append(@, f)]
      /\ UNCHANGED <<hubVars, conns, view, liveQ, eventQ, lagged>>
  BY DEF ReplayWelcome, Quiet
<1>2. ClientType /\ wire[c] = <<>> /\ view[c] = Connect /\ wire[c] \in Seq(Frames)
  BY <1>1, ClientIsTyped DEF InStep
<1>3. f \in Frames /\ f.type = "room_ready"
  BY KindsOfFrames DEF EventTypes
<1>4. /\ f \in SetUpFrames /\ f \notin EndFrames /\ f \notin Complete
      /\ f.type \in SetUpTypes /\ f.type \notin EndTypes
  BY <1>3, FrameIs DEF EndTypes, SetUpTypes
<1> HIDE DEF f
<1>5. conn'[c] = "welcomed" /\ view'[c] = Connect
      /\ wire'[c] = IF welcome = 0 THEN wire[c] ELSE Append(wire[c], f)
  BY <1>1, <1>2 DEF ClientType
<1>6. /\ wire'[c] \in Seq(Frames) /\ EndsLast(wire'[c]) /\ OneIn(wire'[c], Complete)
      /\ ~Among(wire'[c], EndFrames) /\ ~Among(wire'[c], Complete)
      /\ ReadyAfter("pending", wire'[c]) <=> welcome # 0
  <2>1. \A S : ~Among(wire[c], S)
    BY <1>2, NoneAmong
  <2>2. EndsLast(wire[c]) /\ OneIn(wire[c], Complete) /\ ~ReadyAfter("pending", wire[c])
    BY <1>2, NothingToRead DEF EndsLast, OneIn
  <2>3. CASE welcome = 0
    BY <1>2, <1>5, <2>1, <2>2, <2>3
  <2>4. CASE welcome # 0
    <3>1. PICK w, v : w = wire[c] /\ v = wire'[c]
      OBVIOUS
    <3>2. w \in Seq(Frames) /\ v = Append(w, f)
      BY <1>2, <1>5, <2>4, <3>1
    <3>3. (\A S : ~Among(w, S)) /\ EndsLast(w) /\ OneIn(w, Complete)
      BY <2>1, <2>2, <3>1
    <3>4. /\ v \in Seq(Frames) /\ EndsLast(v) /\ OneIn(v, Complete)
          /\ ~Among(v, EndFrames) /\ ~Among(v, Complete) /\ ReadyAfter("pending", v)
      BY ONLY <1>3, <1>4, <3>2, <3>3, WireMore
    <3> QED
      BY <2>4, <3>1, <3>4
  <2> QED
    BY <2>3, <2>4
<1>7. ClientType'
  <2>1. wire' \in [Clients -> Seq(Frames)]
    BY <1>1, <1>2, <1>5, <1>6 DEF ClientType
  <2> QED
    BY <1>1, <1>2, <2>1 DEF ClientType
<1>8. \A d \in Clients : d # c => SameClient(d)
  BY <1>1, <1>2 DEF SameClient, ClientType
<1>9. InStep(c)'
  BY <1>5 DEF InStep, HasLive, HasEvents
<1>10. Bounded(c)'
  BY <1>1, ClientIsTyped DEF Bounded
<1>11. Told(c)'
  <2>1. ReplayTells(c)' <=> ReplayTells(c)
    BY <1>1, <1>5, <1>6, ConnectFits DEF ReplayTells
  <2>2. ReadyOf(ReplayTells(c)') = ReadyOf(ReplayTells(c))
    BY <2>1 DEF ReadyOf
  <2>3. Outlook(c)' <=> Outlook(c)
    BY <1>1, <2>2 DEF Outlook
  <2>4. HasEvents(c) /\ HasEvents(c)'
    BY <1>1, <1>5 DEF HasEvents
  <2> QED
    BY <1>1, <2>3, <2>4, SameOutlook, HubStays, ClientIsTyped
<1>12. Burst1(c)'
  BY <1>5, <1>6, ConnectFits DEF Burst1
<1>13. rooms <= 1 => Once(c)'
  <2>1. ~Over(c)' /\ ~Over(c) /\ ~Among(wire[c], EndFrames)
    BY <1>2, <1>5, ConnectFits, NoneAmong DEF Over
  <2> QED
    BY <1>1, <1>6, <2>1, ClientIsTyped, HubStays DEF Once
<1>14. HasAll(c)'
  BY <1>5 DEF HasAll
<1> QED
  BY <1>1, <1>7, <1>8, <1>9, <1>10, <1>11, <1>12, <1>13, <1>14, OneClientActs

LEMMA ReplayHistoryKeeps ==
  ASSUME BridgeInv, NEW c \in Clients, ReplayHistory(c)
  PROVE  BridgeInv'
<1>1. PICK q \in [1 .. Len(history) -> ToSet(history)] :
        /\ Sorted(q, history)
        /\ wire' = [wire EXCEPT ![c] = @ \o Burst(q)]
  BY DEF ReplayHistory
<1>2. /\ conn[c] = "welcomed" /\ conn' = [conn EXCEPT ![c] = "replayed"]
      /\ UNCHANGED <<hubVars, conns, view, liveQ, eventQ, lagged>>
  BY DEF ReplayHistory, Quiet
<1>3. ClientType
  BY ClientIsTyped
<1>4. PICK n \in Nat : n = Len(history)
  BY HubIs DEF HubType
<1>5. q \in [1 .. n -> Msgs] /\ ToSet(history) = {q[i] : i \in 1 .. n}
  <2>1. ToSet(history) \subseteq Msgs
    BY HubIs, ElementsOf DEF HubType
  <2>2. q \in [1 .. n -> Msgs]
    BY <1>4, <2>1
  <2>3. ToSet(q) = {q[i] : i \in 1 .. n}
    BY <2>2 DEF ToSet
  <2> QED
    BY <1>1, <2>2, <2>3 DEF Sorted
<1>6. PICK w, v, state : /\ w = wire[c] /\ v = wire'[c] /\ state = view[c].roomState
                           /\ w \in Seq(Frames)
  BY ClientIsTyped
<1>7. v = w \o Burst(q) /\ w \in Seq(Frames)
  BY <1>1, <1>3, <1>6 DEF ClientType
<1>8. /\ v \in Seq(Frames)
      /\ \A S : S \cap Chats = {} => (Among(v, S) <=> Among(w, S))
      /\ EndsLast(w) => EndsLast(v)
      /\ ReadyAfter(state, v) <=> ReadyAfter(state, w)
      /\ \A S : \A i \in 1 .. n : Message(q[i]) \in S => Among(v, S)
  BY ONLY <1>5, <1>7, BurstMore
<1>9. ClientType'
  <2>1. wire' = [wire EXCEPT ![c] = v]
    BY <1>1, <1>3, <1>6, <1>7 DEF ClientType
  <2>2. wire' \in [Clients -> Seq(Frames)]
    BY <1>3, <1>8, <2>1 DEF ClientType
  <2> QED
    BY <1>2, <1>3, <2>2 DEF ClientType
<1>10. \A d \in Clients : d # c => SameClient(d)
  BY <1>1, <1>2, <1>3 DEF SameClient, ClientType
<1>11. conn'[c] = "replayed" /\ view'[c] = view[c]
  BY <1>2, <1>3 DEF ClientType
<1>12. /\ Among(v, EndFrames) <=> Among(w, EndFrames)
       /\ Among(v, SetUpFrames) <=> Among(w, SetUpFrames)
       /\ Among(v, Complete) <=> Among(w, Complete)
  <2>1. \A f \in Chats : f \in Frames /\ f.type = "chat"
    BY KindsOfFrames, FrameIs
  <2>2. EndFrames \cap Chats = {} /\ SetUpFrames \cap Chats = {} /\ Complete \cap Chats = {}
    BY <2>1, FrameIs DEF EndTypes, SetUpTypes
  <2> QED
    BY <1>8, <2>2
<1>13. InStep(c)'
  BY <1>11 DEF InStep, HasLive, HasEvents
<1>14. Bounded(c)'
  BY <1>2, ClientIsTyped DEF Bounded
<1>15. Told(c)'
  <2>1. ReplayTells(c)' <=> ReplayTells(c)
    BY <1>2, <1>6, <1>8, <1>11 DEF ReplayTells
  <2>2. ReadyOf(ReplayTells(c)') = ReadyOf(ReplayTells(c))
    BY <2>1 DEF ReadyOf
  <2>3. Outlook(c)' <=> Outlook(c)
    BY <1>2, <2>2 DEF Outlook
  <2>4. HasEvents(c)
    BY <1>2 DEF HasEvents
  <2> QED
    BY <1>2, <2>3, <2>4, SameOutlook, HubStays, ClientIsTyped
<1>16. Burst1(c)'
  <2>1. Fits(view[c]) /\ ~view[c].historyDone /\ ~Among(w, Complete)
    BY <1>2, <1>6, ClientIsTyped DEF Burst1
  <2>2. ~Among(wire'[c], Complete)
    BY <1>6, <1>12, <2>1
  <2>3. OneIn(wire'[c], Complete)
    BY <2>2 DEF OneIn, Among
  <2> QED
    BY <1>11, <2>1, <2>2, <2>3 DEF Burst1
<1>17. rooms <= 1 => Once(c)'
  BY <1>2, <1>6, <1>8, <1>11, <1>12, ClientIsTyped, HubStays DEF Once, Over
<1>18. HasAll(c)'
  <2>1. ASSUME NEW m \in ToSet(history) PROVE Among(wire'[c], {Message(m)})
    BY <1>5, <1>6, <1>8, <2>1
  <2> QED
    BY <1>2, <2>1, HubStays DEF HasAll, Has
<1> QED
  BY <1>2, <1>9, <1>10, <1>13, <1>14, <1>15, <1>16, <1>17, <1>18, OneClientActs

\* One frame more on the wire.
LEMMA FrameSent ==
  ASSUME BridgeInv, NEW c \in Clients, NEW f \in Frames,
         wire' = [wire EXCEPT ![c] = Append(@, f)], UNCHANGED view
  PROVE  /\ wire' \in [Clients -> Seq(Frames)] /\ view'[c] = view[c]
         /\ \A d \in Clients : d # c => wire'[d] = wire[d]
         /\ \A S : Among(wire'[c], S) <=> Among(wire[c], S) \/ f \in S
         /\ EndsLast(wire[c]) /\ (f \in SetUpFrames => ~Among(wire[c], EndFrames))
              => EndsLast(wire'[c])
         /\ OneIn(wire[c], Complete) /\ (f \in Complete => ~Among(wire[c], Complete))
              => OneIn(wire'[c], Complete)
         /\ ReadyAfter(view'[c].roomState, wire'[c]) <=>
              \/ f.type \in SetUpTypes
              \/ f.type \notin EndTypes /\ ReadyAfter(view[c].roomState, wire[c])
<1>1. wire \in [Clients -> Seq(Frames)]
  BY ClientIsTyped DEF ClientType
<1>2. PICK w, v, state : /\ w = wire[c] /\ v = wire'[c] /\ state = view[c].roomState
                           /\ w \in Seq(Frames)
  BY <1>1
<1>3. v = Append(w, f) /\ w \in Seq(Frames) /\ view'[c] = view[c]
  BY <1>1, <1>2
<1>4. /\ v \in Seq(Frames)
      /\ \A S : Among(v, S) <=> Among(w, S) \/ f \in S
      /\ EndsLast(w) /\ (f \in SetUpFrames => ~Among(w, EndFrames)) => EndsLast(v)
      /\ OneIn(w, Complete) /\ (f \in Complete => ~Among(w, Complete)) => OneIn(v, Complete)
      /\ ReadyAfter(state, v) <=>
           f.type \in SetUpTypes \/ (f.type \notin EndTypes /\ ReadyAfter(state, w))
  BY ONLY f \in Frames, <1>3, WireMore
<1>5. wire' \in [Clients -> Seq(Frames)] /\ \A d \in Clients : d # c => wire'[d] = wire[d]
  <2>1. wire' = [wire EXCEPT ![c] = v]
    BY <1>1, <1>2, <1>3
  <2> QED
    BY <1>1, <1>4, <2>1
<1> QED
  BY <1>2, <1>3, <1>4, <1>5

LEMMA ReplayCompleteKeeps ==
  ASSUME BridgeInv, NEW c \in Clients, ReplayComplete(c)
  PROVE  BridgeInv'
<1> DEFINE f == Event("history_complete")
<1>1. /\ conn[c] = "replayed" /\ conn' = [conn EXCEPT ![c] = "live"]
      /\ wire' = [wire EXCEPT ![c] = Append(@, f)]
      /\ UNCHANGED <<hubVars, conns, view, liveQ, eventQ, lagged>>
  BY DEF ReplayComplete, Quiet
<1>2. f \in Frames /\ f.type = "history_complete" /\ f \in Complete
  BY KindsOfFrames DEF EventTypes, Complete
<1>3. /\ f \notin SetUpFrames /\ f \notin EndFrames
      /\ f.type \notin SetUpTypes /\ f.type \notin EndTypes
  BY <1>2, FrameIs DEF EndTypes, SetUpTypes
<1> HIDE DEF f
<1>4. ClientType /\ InStep(c) /\ Bounded(c) /\ Told(c) /\ Burst1(c)
      /\ (rooms <= 1 => Once(c) /\ HasAll(c))
  BY ClientIsTyped
<1>5. /\ wire' \in [Clients -> Seq(Frames)] /\ view'[c] = view[c]
      /\ \A d \in Clients : d # c => wire'[d] = wire[d]
      /\ \A S : Among(wire'[c], S) <=> Among(wire[c], S) \/ f \in S
      /\ EndsLast(wire[c]) => EndsLast(wire'[c])
      /\ OneIn(wire[c], Complete) /\ ~Among(wire[c], Complete) => OneIn(wire'[c], Complete)
      /\ ReadyAfter(view'[c].roomState, wire'[c]) <=> ReadyAfter(view[c].roomState, wire[c])
  BY <1>1, <1>2, <1>3, FrameSent
<1>6. ClientType'
  BY <1>1, <1>4, <1>5 DEF ClientType
<1>7. \A d \in Clients : d # c => SameClient(d)
  BY <1>1, <1>4, <1>5 DEF SameClient, ClientType
<1>8. conn'[c] = "live"
  BY <1>1, <1>4 DEF ClientType
<1>9. InStep(c)'
  BY <1>8 DEF InStep, HasLive, HasEvents
<1>10. Bounded(c)'
  BY <1>1, <1>4 DEF Bounded
<1>11. Told(c)'
  <2>1. ReplayTells(c)' <=> ReplayTells(c)
    BY <1>1, <1>5, <1>8 DEF ReplayTells
  <2>2. ReadyOf(ReplayTells(c)') = ReadyOf(ReplayTells(c))
    BY <2>1 DEF ReadyOf
  <2>3. Outlook(c)' <=> Outlook(c)
    BY <1>1, <2>2 DEF Outlook
  <2>4. HasEvents(c)
    BY <1>1 DEF HasEvents
  <2> QED
    BY <1>1, <1>4, <2>3, <2>4, SameOutlook, HubStays
<1>12. Burst1(c)'
  BY <1>1, <1>2, <1>4, <1>5, <1>8 DEF Burst1
<1>13. rooms <= 1 => Once(c)'
  BY <1>1, <1>3, <1>4, <1>5, HubStays DEF Once, Over
<1>14. rooms <= 1 => HasAll(c)'
  BY <1>1, <1>4, <1>5, HubStays DEF HasAll, Has, Over
<1> QED
  BY <1>1, <1>6, <1>7, <1>9, <1>10, <1>11, <1>12, <1>13, <1>14, OneClientActs

LEMMA ForwardLiveKeeps ==
  ASSUME BridgeInv, NEW c \in Clients, ForwardLive(c)
  PROVE  BridgeInv'
<1> DEFINE f == Head(liveQ[c])
<1>1. /\ conn[c] = "live" /\ liveQ[c] # <<>>
      /\ wire' = [wire EXCEPT ![c] = Append(@, f)]
      /\ liveQ' = [liveQ EXCEPT ![c] = Tail(@)]
      /\ UNCHANGED <<hubVars, conn, conns, eventQ, lagged, view>>
  BY DEF ForwardLive
<1>2. ClientType /\ InStep(c) /\ Bounded(c) /\ Told(c) /\ Burst1(c)
      /\ (rooms <= 1 => Once(c) /\ HasAll(c))
  BY ClientIsTyped
<1>3. liveQ[c] \in Seq(Chats) /\ f \in Chats /\ Tail(liveQ[c]) \in Seq(Chats)
      /\ Len(Tail(liveQ[c])) <= LiveCap
  <2>1. liveQ[c] \in Seq(Chats)
    BY ClientIsTyped
  <2>2. /\ f \in Chats /\ Tail(liveQ[c]) \in Seq(Chats)
        /\ Len(liveQ[c]) \in Nat /\ Len(Tail(liveQ[c])) = Len(liveQ[c]) - 1
    BY <1>1, <2>1, TailPlaces
  <2>3. LiveCap \in Nat /\ Len(liveQ[c]) <= LiveCap
    BY <1>2, BridgeAssumption DEF Bounded
  <2> QED
    BY <2>1, <2>2, <2>3
<1>4. \A S : Among(liveQ[c], S) <=> f \in S \/ Among(Tail(liveQ[c]), S)
  BY <1>1, <1>3, AmongLess
<1>5. f \in Frames /\ f.type = "chat"
  BY <1>3, KindsOfFrames, FrameIs
<1>6. /\ f \notin SetUpFrames /\ f \notin EndFrames /\ f \notin Complete
      /\ f.type \notin SetUpTypes /\ f.type \notin EndTypes
  BY <1>5, FrameIs DEF EndTypes, SetUpTypes
<1> HIDE DEF f
<1>7. /\ wire' \in [Clients -> Seq(Frames)] /\ view'[c] = view[c]
      /\ \A d \in Clients : d # c => wire'[d] = wire[d]
      /\ \A S : Among(wire'[c], S) <=> Among(wire[c], S) \/ f \in S
      /\ EndsLast(wire[c]) => EndsLast(wire'[c])
      /\ OneIn(wire[c], Complete) => OneIn(wire'[c], Complete)
      /\ ReadyAfter(view'[c].roomState, wire'[c]) <=> ReadyAfter(view[c].roomState, wire[c])
  BY <1>1, <1>5, <1>6, FrameSent
<1>8. liveQ'[c] = Tail(liveQ[c]) /\ conn'[c] = "live"
  BY <1>1, <1>2 DEF ClientType
<1>9. ClientType'
  <2>1. liveQ' \in [Clients -> Seq(Chats)]
    BY <1>1, <1>2, <1>3 DEF ClientType
  <2> QED
    BY <1>1, <1>2, <1>7, <2>1 DEF ClientType
<1>10. \A d \in Clients : d # c => SameClient(d)
  BY <1>1, <1>2, <1>7 DEF SameClient, ClientType
<1>11. InStep(c)'
  BY <1>8 DEF InStep, HasLive, HasEvents
<1>12. Bounded(c)'
  BY <1>1, <1>2, <1>3, <1>8 DEF Bounded
<1>13. Told(c)'
  <2>1. ReplayTells(c)' <=> ReplayTells(c)
    BY <1>1, <1>7, <1>8 DEF ReplayTells
  <2>2. ReadyOf(ReplayTells(c)') = ReadyOf(ReplayTells(c))
    BY <2>1 DEF ReadyOf
  <2>3. Outlook(c)' <=> Outlook(c)
    BY <1>1, <2>2 DEF Outlook
  <2>4. HasEvents(c)
    BY <1>1 DEF HasEvents
  <2> QED
    BY <1>1, <1>2, <2>3, <2>4, SameOutlook, HubStays
<1>14. Burst1(c)'
  BY <1>1, <1>2, <1>6, <1>7, <1>8 DEF Burst1
<1>15. rooms <= 1 => Once(c)'
  BY <1>1, <1>2, <1>6, <1>7, HubStays DEF Once, Over
<1>16. rooms <= 1 => HasAll(c)'
  BY <1>1, <1>2, <1>4, <1>7, <1>8, HubStays DEF HasAll, Has, Over
<1> QED
  BY <1>1, <1>9, <1>10, <1>11, <1>12, <1>13, <1>14, <1>15, <1>16, OneClientActs

\* An event that moves from the receiver to the wire leaves the outlook as it is.
LEMMA OutlookMoves ==
  ASSUME NEW w \in Seq(Frames), NEW q \in Seq(HubFrames), q # <<>>, NEW state,
         NEW f \in Frames, f = Head(q), NEW t, t = Tail(q), NEW v, v = Append(w, f)
  PROVE  ReadyAfter(ReadyOf(ReadyAfter(state, v)), t)
           <=> ReadyAfter(ReadyOf(ReadyAfter(state, w)), q)
<1> DEFINE now  == ReadyOf(ReadyAfter(state, w))
           next == ReadyOf(ReadyAfter(state, v))
<1>1. ReadyAfter(RoomStateAfter(now, f), t) <=> ReadyAfter(now, q)
  <2>1. /\ ReadyAfter(RoomStateAfter(now, Head(q)), Tail(q)) <=> ReadyAfter(now, q)
    BY OneFrameRead
  <2> QED
    BY <2>1
<1>2. ReadyAfter(state, v) <=>
        f.type \in SetUpTypes \/ (f.type \notin EndTypes /\ ReadyAfter(state, w))
  BY WireMore
<1>3. (now = "ready" <=> ReadyAfter(state, w)) /\ (next = "ready" <=> ReadyAfter(state, v))
  BY DEF ReadyOf
<1>4. RoomStateAfter(now, f) = "ready" <=>
        f.type \in SetUpTypes \/ (f.type \notin EndTypes /\ now = "ready")
  BY DEF RoomStateAfter, SetUpTypes, EndTypes
<1>5. RoomStateAfter(now, f) = "ready" <=> next = "ready"
  BY <1>2, <1>3, <1>4
<1> HIDE DEF now, next
<1>6. ReadyAfter(RoomStateAfter(now, f), t) <=> ReadyAfter(next, t)
  BY <1>5, NotReadyAlike
<1>7. ReadyAfter(next, t) <=> ReadyAfter(now, q)
  BY <1>1, <1>6
<1> QED
  BY <1>7 DEF now, next

LEMMA ForwardEventKeeps ==
  ASSUME BridgeInv, NEW c \in Clients, ForwardEvent(c)
  PROVE  BridgeInv'
<1> DEFINE f == Head(eventQ[c])
<1>1. /\ conn[c] = "live" /\ eventQ[c] # <<>>
      /\ wire' = [wire EXCEPT ![c] = Append(@, f)]
      /\ eventQ' = [eventQ EXCEPT ![c] = Tail(@)]
      /\ UNCHANGED <<hubVars, conn, conns, liveQ, lagged, view>>
  BY DEF ForwardEvent
<1>2. ClientType /\ InStep(c) /\ Bounded(c) /\ Told(c) /\ Burst1(c)
      /\ (rooms <= 1 => Once(c) /\ HasAll(c))
  BY ClientIsTyped
<1>3. eventQ[c] \in Seq(HubFrames) /\ f \in HubFrames /\ Tail(eventQ[c]) \in Seq(HubFrames)
      /\ Len(Tail(eventQ[c])) <= EventCap
  <2>1. eventQ[c] \in Seq(HubFrames)
    BY ClientIsTyped
  <2>2. /\ f \in HubFrames /\ Tail(eventQ[c]) \in Seq(HubFrames)
        /\ Len(eventQ[c]) \in Nat /\ Len(Tail(eventQ[c])) = Len(eventQ[c]) - 1
    BY <1>1, <2>1, TailPlaces
  <2>3. EventCap \in Nat /\ Len(eventQ[c]) <= EventCap
    BY <1>2, BridgeAssumption DEF Bounded
  <2> QED
    BY <2>1, <2>2, <2>3
<1>4. \A S : Among(eventQ[c], S) <=> f \in S \/ Among(Tail(eventQ[c]), S)
  BY <1>1, <1>3, AmongLess
<1>5. f \in Frames /\ f.type \notin {"chat", "history_complete"} /\ f \notin Complete
  BY <1>3, KindsOfFrames, FrameIs
<1>6. EndsLast(eventQ[c]) => /\ EndsLast(Tail(eventQ[c]))
                             /\ f \in EndFrames => ~Among(Tail(eventQ[c]), SetUpFrames)
  BY <1>1, <1>3, EndsLastLess
<1>7. wire[c] \in Seq(Frames) /\ wire'[c] = Append(wire[c], f)
      /\ eventQ'[c] = Tail(eventQ[c])
  BY <1>1, <1>2 DEF ClientType
<1>8. Outlook(c)' <=> Outlook(c)
  <2>1. PICK w, q, v, t, s : /\ w = wire[c] /\ q = eventQ[c] /\ v = wire'[c] /\ t = eventQ'[c]
                             /\ s = view[c].roomState
    OBVIOUS
  <2>2. PICK g : g = f
    OBVIOUS
  <2>3. /\ w \in Seq(Frames) /\ q \in Seq(HubFrames) /\ q # <<>> /\ g \in Frames
        /\ g = Head(q) /\ t = Tail(q) /\ v = Append(w, g)
    BY <1>1, <1>3, <1>5, <1>7, <2>1, <2>2
  <2>4. ReadyAfter(ReadyOf(ReadyAfter(s, v)), t) <=> ReadyAfter(ReadyOf(ReadyAfter(s, w)), q)
    BY ONLY <2>3, OutlookMoves
  <2>5. conn'[c] = "live" /\ view'[c] = view[c]
    BY <1>1
  <2> QED
    BY <1>1, <2>1, <2>4, <2>5 DEF Outlook, ReplayTells
<1> HIDE DEF f
<1>9. /\ wire' \in [Clients -> Seq(Frames)] /\ view'[c] = view[c]
      /\ \A d \in Clients : d # c => wire'[d] = wire[d]
      /\ \A S : Among(wire'[c], S) <=> Among(wire[c], S) \/ f \in S
      /\ EndsLast(wire[c]) /\ (f \in SetUpFrames => ~Among(wire[c], EndFrames))
           => EndsLast(wire'[c])
      /\ OneIn(wire[c], Complete) => OneIn(wire'[c], Complete)
  BY <1>1, <1>5, FrameSent
<1>10. ClientType'
  <2>1. eventQ' \in [Clients -> Seq(HubFrames)]
    BY <1>1, <1>2, <1>3 DEF ClientType
  <2> QED
    BY <1>1, <1>2, <1>9, <2>1 DEF ClientType
<1>11. \A d \in Clients : d # c => SameClient(d)
  BY <1>1, <1>2, <1>9 DEF SameClient, ClientType
<1>12. InStep(c)'
  BY <1>1 DEF InStep, HasLive, HasEvents
<1>13. Bounded(c)'
  BY <1>1, <1>2, <1>3, <1>7 DEF Bounded
<1>14. Told(c)'
  <2>1. HasEvents(c)
    BY <1>1 DEF HasEvents
  <2> QED
    BY <1>1, <1>2, <1>8, <2>1, SameOutlook, HubStays
<1>15. Burst1(c)'
  BY <1>1, <1>2, <1>5, <1>9 DEF Burst1
<1>16. rooms <= 1 => Once(c)'
  <2> SUFFICES ASSUME rooms <= 1, conn[c] # "off", ~lagged[c] PROVE Once(c)'
    BY <1>1 DEF Once
  <2>1. /\ EndsLast(wire[c]) /\ EndsLast(eventQ[c])
        /\ Over(c) => ~Among(wire[c], SetUpFrames)
        /\ Over(c) \/ Among(wire[c], EndFrames) => ~Among(eventQ[c], SetUpFrames)
        /\ NotOver => ~Over(c) /\ ~Among(wire[c], EndFrames) /\ ~Among(eventQ[c], EndFrames)
    BY <1>2 DEF Once
  <2>2. (Over(c)' <=> Over(c)) /\ (NotOver' <=> NotOver)
    BY <1>1, HubStays DEF Over
  <2>3. EndsLast(wire'[c]) /\ EndsLast(eventQ'[c])
    BY <1>4, <1>6, <1>7, <1>9, <2>1
  <2>4. Over(c)' => ~Among(wire'[c], SetUpFrames)
    BY <1>4, <1>9, <2>1, <2>2
  <2>5. Over(c)' \/ Among(wire'[c], EndFrames) => ~Among(eventQ'[c], SetUpFrames)
    BY <1>4, <1>6, <1>7, <1>9, <2>1, <2>2
  <2>6. NotOver' => ~Over(c)' /\ ~Among(wire'[c], EndFrames) /\ ~Among(eventQ'[c], EndFrames)
    BY <1>4, <1>7, <1>9, <2>1, <2>2
  <2> QED
    BY <2>3, <2>4, <2>5, <2>6 DEF Once
<1>17. rooms <= 1 => HasAll(c)'
  BY <1>1, <1>2, <1>9, HubStays DEF HasAll, Has, Over
<1> QED
  BY <1>1, <1>10, <1>11, <1>12, <1>13, <1>14, <1>15, <1>16, <1>17, OneClientActs

LEMMA ReceiveKeeps ==
  ASSUME BridgeInv, NEW c \in Clients, Receive(c)
  PROVE  BridgeInv'
<1> DEFINE f == Head(wire[c])
<1>1. /\ wire[c] # <<>> /\ view' = [view EXCEPT ![c] = OnMessage(@, f)]
      /\ wire' = [wire EXCEPT ![c] = Tail(@)]
      /\ UNCHANGED <<hubVars, conn, conns, liveQ, eventQ, lagged>>
  BY DEF Receive
<1>2. ClientType /\ InStep(c) /\ Bounded(c) /\ Told(c) /\ Burst1(c)
      /\ (rooms <= 1 => Once(c) /\ HasAll(c))
  BY ClientIsTyped
<1>3. wire[c] \in Seq(Frames) /\ f \in Frames /\ Tail(wire[c]) \in Seq(Frames)
  BY <1>1, ClientIsTyped, TailPlaces
<1>4. \A S : Among(wire[c], S) <=> f \in S \/ Among(Tail(wire[c]), S)
  BY <1>1, <1>3, AmongLess
<1>5. wire'[c] = Tail(wire[c])
  BY <1>1, <1>2 DEF ClientType
<1>6. conn[c] \in {"welcomed", "replayed", "live"} /\ conn'[c] = conn[c]
  BY <1>1, <1>2, ClientIsTyped DEF InStep, HasEvents, ClientStates
<1>7. EndsLast(wire[c]) => /\ EndsLast(wire'[c])
                           /\ f \in EndFrames => ~Among(wire'[c], SetUpFrames)
  BY <1>1, <1>3, <1>5, EndsLastLess
<1>8. OneIn(wire'[c], Complete) /\ (f \in Complete => ~Among(wire'[c], Complete))
  BY <1>1, <1>2, <1>3, <1>5, OneInLess DEF Burst1
<1>9. /\ f \in EndFrames <=> f.type \in EndTypes
      /\ f \in SetUpFrames <=> f.type \in SetUpTypes
  BY <1>3, FrameIs
<1>10. After(view[c], f, view'[c])
  <2>1. PICK v, v2, g : v = view[c] /\ v2 = view'[c] /\ g = f
    OBVIOUS
  <2>2. v \in Screens /\ Fits(v) /\ Len(v.events) <= TraceCap
    BY <1>2, <2>1, ClientIsTyped DEF Burst1, Bounded
  <2>3. g \in Complete => ~v.historyDone
    BY <1>2, <1>4, <2>1 DEF Burst1
  <2>4. v2 = OnMessage(v, g)
    BY <1>1, <1>2, <2>1 DEF ClientType
  <2>5. g \in Frames
    BY <1>3, <2>1
  <2>6. After(v, g, v2)
    BY ONLY <2>2, <2>3, <2>4, <2>5, OnMessageKeeps
  <2> QED
    BY <2>1, <2>6
<1>11. ReadyAfter(view'[c].roomState, wire'[c]) <=> ReadyAfter(view[c].roomState, wire[c])
  <2>1. PICK w, s : w = wire[c] /\ s = view[c].roomState
    OBVIOUS
  <2>2. w \in Seq(Frames) /\ w # <<>>
    BY <1>1, <1>3, <2>1
  <2>3. ReadyAfter(RoomStateAfter(s, Head(w)), Tail(w)) <=> ReadyAfter(s, w)
    BY ONLY <2>2, OneFrameRead
  <2>4. view'[c].roomState = RoomStateAfter(view[c].roomState, f)
    BY <1>10 DEF After
  <2> QED
    BY <1>5, <2>1, <2>3, <2>4
<1> HIDE DEF f
<1>12. ClientType'
  <2>1. view'[c] \in Screens
    BY <1>10 DEF After
  <2>2. view' = [view EXCEPT ![c] = view'[c]]
    BY <1>1, <1>2 DEF ClientType
  <2>3. view' \in [Clients -> Screens]
    BY <1>2, <2>1, <2>2 DEF ClientType
  <2>4. wire' \in [Clients -> Seq(Frames)]
    BY <1>1, <1>2, <1>3 DEF ClientType
  <2> QED
    BY <1>1, <1>2, <2>3, <2>4 DEF ClientType
<1>13. \A d \in Clients : d # c => SameClient(d)
  BY <1>1, <1>2 DEF SameClient, ClientType
<1>14. InStep(c)'
  BY <1>1, <1>6 DEF InStep, HasLive, HasEvents
<1>15. Bounded(c)'
  BY <1>1, <1>2, <1>10 DEF Bounded, After
<1>16. Told(c)'
  <2>1. ReplayTells(c)' <=> ReplayTells(c)
    BY <1>1, <1>6, <1>11 DEF ReplayTells
  <2>2. ReadyOf(ReplayTells(c)') = ReadyOf(ReplayTells(c))
    BY <2>1 DEF ReadyOf
  <2>3. Outlook(c)' <=> Outlook(c)
    BY <1>1, <2>2 DEF Outlook
  <2>4. HasEvents(c)
    BY <1>6 DEF HasEvents
  <2> QED
    BY <1>1, <1>2, <2>3, <2>4, SameOutlook, HubStays
<1>17. Burst1(c)'
  <2>1. Fits(view'[c]) /\ (view'[c].historyDone <=> view[c].historyDone \/ f \in Complete)
    BY <1>10 DEF After
  <2>2. view'[c].historyDone => ~Among(wire'[c], Complete)
    BY <1>2, <1>4, <1>5, <1>8, <2>1 DEF Burst1
  <2>3. conn[c] # "live" => ~view'[c].historyDone /\ ~Among(wire'[c], Complete)
    BY <1>2, <1>4, <1>5, <1>6, <2>1 DEF Burst1
  <2>4. conn[c] = "live" => view'[c].historyDone \/ Among(wire'[c], Complete)
    BY <1>2, <1>4, <1>5, <2>1 DEF Burst1
  <2> QED
    BY <1>6, <1>8, <2>1, <2>2, <2>3, <2>4 DEF Burst1
<1>18. Over(c)' => Over(c) \/ f \in EndFrames
  BY <1>9, <1>10 DEF After, Over, RoomStateAfter, EndTypes
<1>19. Over(c) /\ f \notin SetUpFrames => Over(c)'
  BY <1>9, <1>10 DEF After, Over, RoomStateAfter, EndTypes
<1>20. f \in EndFrames => Over(c)'
  BY <1>9, <1>10 DEF After, Over, RoomStateAfter, EndTypes, SetUpTypes
<1>21. ASSUME rooms <= 1, ~lagged[c]
       PROVE  /\ EndsLast(wire[c]) /\ EndsLast(eventQ[c])
              /\ Over(c) => ~Among(wire[c], SetUpFrames)
              /\ Over(c) \/ Among(wire[c], EndFrames) => ~Among(eventQ[c], SetUpFrames)
              /\ NotOver => ~Over(c) /\ ~Among(wire[c], EndFrames) /\ ~Among(eventQ[c], EndFrames)
  BY <1>2, <1>6, <1>21 DEF Once
<1>22. rooms <= 1 => Once(c)'
  <2> SUFFICES ASSUME rooms <= 1, ~lagged[c] PROVE Once(c)'
    BY <1>1 DEF Once
  <2>1. EndsLast(wire'[c]) /\ EndsLast(eventQ'[c])
    BY <1>1, <1>7, <1>21
  <2>2. Over(c)' => ~Among(wire'[c], SetUpFrames)
    BY <1>4, <1>5, <1>7, <1>18, <1>21
  <2>3. Over(c)' \/ Among(wire'[c], EndFrames) => ~Among(eventQ'[c], SetUpFrames)
    BY <1>1, <1>4, <1>5, <1>18, <1>21
  <2>4. NotOver' => ~Over(c)' /\ ~Among(wire'[c], EndFrames) /\ ~Among(eventQ'[c], EndFrames)
    BY <1>1, <1>4, <1>5, <1>18, <1>21, HubStays
  <2> QED
    BY <2>1, <2>2, <2>3, <2>4 DEF Once
<1>23. rooms <= 1 => HasAll(c)'
  <2> SUFFICES ASSUME rooms <= 1, conn[c] \in {"replayed", "live"}, ~lagged[c], ~Over(c)',
                      NEW m \in ToSet(history) \ fanout
               PROVE  Has(c, m)'
    BY <1>1, HubStays DEF HasAll
  <2>1. f \notin EndFrames /\ ~Over(c)
    BY <1>4, <1>19, <1>20, <1>21
  <2>2. Has(c, m) /\ m \in Msgs
    <3>1. ToSet(history) \subseteq Msgs
      BY HubIs, ElementsOf DEF HubType
    <3> QED
      BY <1>2, <2>1, <3>1 DEF HasAll
  <2>3. Shows(view[c]) \subseteq Shows(view'[c]) /\ (f = Message(m) => m \in Shows(view'[c]))
    BY <1>10, <2>1, <2>2 DEF After
  <2> QED
    BY <1>1, <1>4, <1>5, <2>2, <2>3 DEF Has
<1> QED
  BY <1>1, <1>12, <1>13, <1>14, <1>15, <1>16, <1>17, <1>22, <1>23, OneClientActs

-----------------------------------------------------------------------------
(* The theorems.                                                            *)

LEMMA InitBridge == Init => BridgeInv
<1> SUFFICES ASSUME Init PROVE BridgeInv
  OBVIOUS
<1>1. /\ phase = "idle" /\ rooms = 0 /\ welcome = 0 /\ history = <<>>
      /\ pushed = {} /\ fanout = {} /\ detached = 0 /\ misled = 0 /\ net = 0
  BY DEF Init
<1>2. /\ conn = [c \in Clients |-> "off"] /\ conns = [c \in Clients |-> 0]
      /\ liveQ = [c \in Clients |-> <<>>] /\ eventQ = [c \in Clients |-> <<>>]
      /\ lagged = [c \in Clients |-> FALSE] /\ wire = [c \in Clients |-> <<>>]
      /\ view = [c \in Clients |-> Connect]
  BY DEF Init
<1>3. MaxRooms \in Nat /\ MaxNet \in Nat /\ MaxConns \in Nat /\ LiveCap \in Nat /\ EventCap \in Nat
  BY BridgeAssumption
<1>4. /\ <<>> \in Seq(Msgs) /\ <<>> \in Seq(Chats) /\ <<>> \in Seq(HubFrames)
      /\ <<>> \in Seq(Frames) /\ ToSet(<<>>) = {} /\ Len(<<>>) = 0
  BY DEF ToSet
<1>5. HubType
  BY <1>1, <1>3, <1>4 DEF HubType, Phases
<1>6. HubState
  BY <1>1 DEF HubState
<1>7. ClientType
  BY <1>2, <1>3, <1>4, ConnectFits DEF ClientType
<1>8. ASSUME NEW c \in Clients
      PROVE  InStep(c) /\ Bounded(c) /\ Told(c) /\ Burst1(c) /\ Once(c) /\ HasAll(c)
  <2>1. /\ conn[c] = "off" /\ liveQ[c] = <<>> /\ eventQ[c] = <<>> /\ wire[c] = <<>>
        /\ view[c] = Connect
    BY <1>2
  <2>2. InStep(c)
    BY <2>1 DEF InStep
  <2>3. Bounded(c)
    BY <1>3, <1>4, <2>1, ConnectFits DEF Bounded
  <2>4. Told(c) /\ Once(c) /\ HasAll(c)
    BY <2>1 DEF Told, HasEvents, Once, HasAll
  <2>5. OneIn(wire[c], Complete) /\ \A S : ~Among(wire[c], S)
    BY <2>1, NoneAmong DEF OneIn
  <2>6. Burst1(c)
    BY <2>1, <2>5, ConnectFits DEF Burst1
  <2> QED
    BY <2>2, <2>3, <2>4, <2>6
<1> QED
  BY <1>5, <1>6, <1>7, <1>8 DEF BridgeInv

LEMMA StutterKeeps ==
  ASSUME BridgeInv, UNCHANGED vars
  PROVE  BridgeInv'
<1>1. UNCHANGED hubVars /\ UNCHANGED <<conn, conns, liveQ, eventQ, lagged, wire, view>>
  BY DEF vars, clientVars
<1>2. UNCHANGED <<phase, rooms, welcome, history, pushed, fanout, detached, misled, net>>
  BY <1>1, HubStays
<1>3. HubType' /\ HubState'
  BY <1>2 DEF BridgeInv, HubType, HubState
<1>4. Quiet /\ UNCHANGED SockVars
  BY <1>1 DEF Quiet, SockVars
<1>5. ASSUME NEW c \in Clients PROVE Told(c)' /\ (rooms' <= 1 => Once(c)' /\ HasAll(c)')
  <2>1. SameClient(c)
    BY <1>1 DEF SameClient
  <2> QED
    BY <1>2, <2>1, ClientStays DEF BridgeInv
<1> QED
  BY <1>3, <1>4, <1>5, HubActs

LEMMA BridgeStep == BridgeInv /\ [Next]_vars => BridgeInv'
<1> SUFFICES ASSUME BridgeInv, [Next]_vars PROVE BridgeInv'
  OBVIOUS
<1>1. CASE Room
  <2>1. CASE StartRoom
    BY <2>1, StartRoomKeeps
  <2>2. CASE StoreWelcome
    BY <2>2, StoreWelcomeKeeps
  <2>3. CASE SendWelcome
    BY <2>3, SendWelcomeKeeps
  <2>4. CASE HostCloses
    BY <2>4, HostClosesKeeps
  <2>5. CASE LateClose
    BY <2>5, LateCloseKeeps
  <2>6. CASE EndWelcome
    BY <2>6, EndWelcomeKeeps
  <2>7. CASE EndHistory
    BY <2>7, EndHistoryKeeps
  <2>8. CASE RoomLeft
    BY <2>8, RoomLeftKeeps
  <2>9. CASE \E m \in Msgs : AppendHistory(m) \/ Fanout(m)
    BY <2>9, AppendHistoryKeeps, FanoutKeeps
  <2>10. CASE \E e \in NetEvents : Telemetry(e)
    BY <2>10, TelemetryKeeps
  <2> QED
    BY <1>1, <2>1, <2>2, <2>3, <2>4, <2>5, <2>6, <2>7, <2>8, <2>9, <2>10 DEF Room
<1>2. ASSUME NEW c \in Clients, Handler(c) PROVE BridgeInv'
  <2>1. CASE SubscribeLive(c) \/ SubscribeEvents(c)
    BY <2>1, SubscribesKeeps
  <2>2. CASE ReplayWelcome(c)
    BY <2>2, ReplayWelcomeKeeps
  <2>3. CASE ReplayHistory(c)
    BY <2>3, ReplayHistoryKeeps
  <2>4. CASE ReplayComplete(c)
    BY <2>4, ReplayCompleteKeeps
  <2>5. CASE ForwardLive(c)
    BY <2>5, ForwardLiveKeeps
  <2>6. CASE ForwardEvent(c)
    BY <2>6, ForwardEventKeeps
  <2> QED
    BY <1>2, <2>1, <2>2, <2>3, <2>4, <2>5, <2>6 DEF Handler
<1>3. ASSUME NEW c \in Clients, Browser(c) PROVE BridgeInv'
  BY <1>3, ConnectsKeeps, ReceiveKeeps, DisconnectKeeps DEF Browser
<1>4. CASE UNCHANGED vars
  BY <1>4, StutterKeeps
<1> QED
  BY <1>1, <1>2, <1>3, <1>4 DEF Next

\* What the replay and the events will have told every browser is the room it is
\* in, and in the first room every message reaches it.
THEOREM BridgeInvariant == Spec => []BridgeInv
  BY InitBridge, BridgeStep, PTL DEF Spec

\* Whatever browsers, handlers and the room do, frames, queues and views keep
\* their types, and neither receiver holds more than its channel does.
THEOREM TypeCorrect == Spec => []TypeOK
<1>1. BridgeInv => TypeOK
  <2> SUFFICES ASSUME BridgeInv PROVE TypeOK
    OBVIOUS
  <2>1. /\ phase \in Phases /\ rooms \in 0 .. MaxRooms /\ welcome \in {0, rooms}
        /\ ToSet(history) \subseteq pushed /\ fanout \subseteq pushed /\ pushed \subseteq Msgs
        /\ misled \in 0 .. rooms /\ net \in 0 .. MaxNet
    BY HubIs DEF HubType, HubState
  <2>2. detached \in 0 .. rooms
    BY HubIs DEF HubState
  <2>3. /\ conns \in [Clients -> 0 .. MaxConns] /\ lagged \in [Clients -> BOOLEAN]
        /\ conn \in [Clients -> {"off", "accepted", "half", "subscribed", "welcomed",
                                 "replayed", "live"}]
    BY DEF BridgeInv, ClientType
  <2>4. ASSUME NEW c \in Clients
        PROVE  /\ ToSet(liveQ[c]) \cup ToSet(eventQ[c]) \cup ToSet(wire[c]) \subseteq Frames
               /\ Len(liveQ[c]) <= LiveCap /\ Len(eventQ[c]) <= EventCap
               /\ ToSet(view[c].messages) \cup ToSet(view[c].historyBatch) \subseteq Msgs
               /\ ToSet(view[c].events) \subseteq NetEvents /\ Len(view[c].events) <= TraceCap
               /\ view[c].roomState \in RoomStates
    <3>1. /\ liveQ[c] \in Seq(Frames) /\ eventQ[c] \in Seq(Frames) /\ wire[c] \in Seq(Frames)
      BY ClientIsTyped, KindsOfFrames
    <3>2. /\ ToSet(liveQ[c]) \subseteq Frames /\ ToSet(eventQ[c]) \subseteq Frames
          /\ ToSet(wire[c]) \subseteq Frames
      BY <3>1, ElementsOf
    <3>3. view[c] \in Screens
      BY ClientIsTyped
    <3>4. /\ view[c].messages \in Seq(Msgs) /\ view[c].historyBatch \in Seq(Msgs)
          /\ view[c].events \in Seq(NetEvents)
      BY <3>3, ScreenIs
    <3>5. /\ ToSet(view[c].messages) \subseteq Msgs /\ ToSet(view[c].historyBatch) \subseteq Msgs
          /\ ToSet(view[c].events) \subseteq NetEvents
      BY <3>4, ElementsOf
    <3> QED
      BY <3>2, <3>5, ClientIsTyped DEF Bounded
  <2> QED
    BY <2>1, <2>2, <2>3, <2>4 DEF TypeOK
<1> QED
  BY <1>1, BridgeInvariant, PTL

\* However a connection falls between the hub's updates and their events, a
\* browser that has been sent everything is in the room exactly if there is one.
THEOREM RoomCorrect == Spec => []ViewFollowsRoom
<1>1. BridgeInv => ViewFollowsRoom
  <2> SUFFICES ASSUME BridgeInv, NEW c \in Clients, Settled(c), ~lagged[c]
               PROVE  /\ phase = "open" /\ misled # rooms => view[c].roomState = "ready"
                      /\ phase = "idle" => view[c].roomState # "ready"
    BY DEF ViewFollowsRoom
  <2>1. HasEvents(c) /\ Told(c)
    BY ClientIsTyped DEF Settled, HasEvents
  <2>2. ReplayTells(c) <=> view[c].roomState = "ready"
    BY NothingToRead DEF Settled, ReplayTells
  <2>3. Outlook(c) <=> ReadyOf(ReplayTells(c)) = "ready"
    BY NothingToRead DEF Settled, Outlook
  <2>4. Outlook(c) <=> view[c].roomState = "ready"
    BY <2>2, <2>3 DEF ReadyOf
  <2> QED
    BY <2>1, <2>4 DEF Told
<1> QED
  BY <1>1, BridgeInvariant, PTL

\* In the first room of a process no message falls between a browser's replay
\* and its live stream.  (Later rooms have what bridge_stale shows.)
THEOREM GapCorrect == Spec => [](rooms <= 1 => NoGap)
<1>1. BridgeInv => (rooms <= 1 => NoGap)
  <2> SUFFICES ASSUME BridgeInv, rooms <= 1, NEW c \in Clients, Settled(c), ~lagged[c],
                      view[c].roomState = "ready", NEW m \in ToSet(history) \ fanout
               PROVE  m \in Shown(c)
    BY DEF NoGap
  <2>1. ~Over(c) /\ conn[c] = "live" /\ liveQ[c] = <<>> /\ wire[c] = <<>>
    BY DEF Over, Settled
  <2>2. Has(c, m) /\ Burst1(c)
    BY <2>1, ClientIsTyped DEF HasAll
  <2>3. m \in Shows(view[c]) /\ view[c].historyDone
    BY <2>1, <2>2, NoneAmong DEF Has, Burst1
  <2>4. view[c].historyBatch = <<>>
    BY <2>2, <2>3 DEF Burst1, Fits
  <2>5. ToSet(<<>>) = {}
    BY DEF ToSet
  <2> QED
    BY <2>3, <2>4, <2>5 DEF Shows, Shown
<1> QED
  BY <1>1, BridgeInvariant, PTL

-----------------------------------------------------------------------------
(* What a browser keeps of the replay and of the live messages.             *)

Distinct(q) == \A i, j \in 1 .. Len(q) : q[i] = q[j] => i = j

Rising(q, n) == \A i, j \in 1 .. n : i < j => q[i] < q[j]

\* A view has each message once, and the replayed ones, its first, in order.
Kept(v) ==
  /\ Distinct(v.messages) /\ Distinct(v.historyBatch)
  /\ Shows(v) \subseteq v.seenNonces
  /\ v.historyCount <= Len(v.messages) /\ Rising(v.messages, v.historyCount)

\* Frame i of the wire is part of the replay, whose end is not before it.
Replayed(w, i) == \A j \in 1 .. i : w[j] \notin Complete

\* The replay continues the burst b in order, and nothing resets the room in it.
Continues(b, w) ==
  /\ Rising(b, Len(b))
  /\ \A i \in 1 .. Len(w) : Replayed(w, i) => w[i] \notin EndFrames
  /\ \A i, j \in 1 .. Len(w) :
       w[i] \in Chats /\ w[j] \in Chats /\ i < j /\ Replayed(w, j) => w[i].msg < w[j].msg
  /\ \A k \in 1 .. Len(b) : \A i \in 1 .. Len(w) :
       w[i] \in Chats /\ Replayed(w, i) => b[k] < w[i].msg

InOrder(c) ==
  /\ Kept(view[c])
  /\ ~view[c].historyDone => Continues(view[c].historyBatch, wire[c])
  /\ conn[c] = "welcomed" => view[c].historyBatch = <<>> /\ ~Among(wire[c], Chats)

OrderInv == \A c \in Clients : InOrder(c)

LEMMA DistinctMore ==
  ASSUME NEW q \in Seq(Msgs), NEW m \in Msgs, Distinct(q), m \notin ToSet(q)
  PROVE  Distinct(Append(q, m))
<1> DEFINE r == Append(q, m)
<1>1. /\ Len(q) \in Nat /\ Len(r) = Len(q) + 1 /\ r[Len(q) + 1] = m
      /\ \A i \in 1 .. Len(q) : r[i] = q[i]
  BY AppendedPlaces
<1>2. \A i \in 1 .. Len(r) : i = Len(q) + 1 \/ i \in 1 .. Len(q)
  BY <1>1
<1>3. \A i \in 1 .. Len(q) : q[i] # m
  BY ElementsOf
<1> HIDE DEF r
<1>4. Distinct(r)
  BY <1>1, <1>2, <1>3 DEF Distinct
<1> QED
  BY <1>4 DEF r

LEMMA RisingMore ==
  ASSUME NEW q \in Seq(Msgs), NEW m \in Msgs
  PROVE  /\ \A n \in 0 .. Len(q) : Rising(q, n) => Rising(Append(q, m), n)
         /\ Rising(q, Len(q)) /\ (\A k \in 1 .. Len(q) : q[k] < m)
              => Rising(Append(q, m), Len(Append(q, m)))
<1> DEFINE r == Append(q, m)
<1>1. /\ Len(q) \in Nat /\ Len(r) = Len(q) + 1 /\ r[Len(q) + 1] = m
      /\ \A i \in 1 .. Len(q) : r[i] = q[i]
  BY AppendedPlaces
<1>2. /\ \A i \in 1 .. Len(r) : i = Len(q) + 1 \/ i \in 1 .. Len(q)
      /\ \A i \in 1 .. Len(r) : ~(Len(q) + 1 < i)
      /\ \A n \in 0 .. Len(q) : \A i \in 1 .. n : i \in 1 .. Len(q)
  BY <1>1
<1> HIDE DEF r
<1>3. \A n \in 0 .. Len(q) : Rising(q, n) => Rising(r, n)
  BY <1>1, <1>2 DEF Rising
<1>4. Rising(q, Len(q)) /\ (\A k \in 1 .. Len(q) : q[k] < m) => Rising(r, Len(r))
  BY <1>1, <1>2 DEF Rising
<1> QED
  BY <1>3, <1>4 DEF r

\* A frame more that is not of the replay, or no message and no end of a room.
LEMMA ContinuesMore ==
  ASSUME NEW b, NEW w \in Seq(Frames), NEW f \in Frames, Continues(b, w),
         f \in Complete \/ Among(w, Complete) \/ (f \notin Chats /\ f \notin EndFrames)
  PROVE  Continues(b, Append(w, f))
<1> DEFINE r == Append(w, f)
<1>1. /\ Len(w) \in Nat /\ Len(r) = Len(w) + 1 /\ r[Len(w) + 1] = f
      /\ \A i \in 1 .. Len(w) : r[i] = w[i]
  BY AppendedPlaces
<1>2. /\ \A i \in 1 .. Len(r) : i = Len(w) + 1 \/ i \in 1 .. Len(w)
      /\ \A i \in 1 .. Len(w) : i \in 1 .. Len(w) + 1
      /\ \A i \in 1 .. Len(r) : ~(Len(w) + 1 < i)
      /\ \A i \in 1 .. Len(w) : \A j \in 1 .. i : j \in 1 .. Len(w)
      /\ Len(w) + 1 \in 1 .. Len(w) + 1
  BY <1>1
<1> HIDE DEF r
<1>3. \A i \in 1 .. Len(w) : Replayed(r, i) => Replayed(w, i)
  BY <1>1, <1>2 DEF Replayed
<1>4. Replayed(r, Len(w) + 1) => f \notin Chats /\ f \notin EndFrames
  BY <1>1, <1>2 DEF Replayed, Among
<1>5. \A i \in 1 .. Len(r) : Replayed(r, i) => r[i] \notin EndFrames
  BY <1>1, <1>2, <1>3, <1>4 DEF Continues
<1>6. \A i, j \in 1 .. Len(r) :
        r[i] \in Chats /\ r[j] \in Chats /\ i < j /\ Replayed(r, j) => r[i].msg < r[j].msg
  BY <1>1, <1>2, <1>3, <1>4 DEF Continues
<1>7. \A k \in 1 .. Len(b) : \A i \in 1 .. Len(r) :
        r[i] \in Chats /\ Replayed(r, i) => b[k] < r[i].msg
  BY <1>1, <1>2, <1>3, <1>4 DEF Continues
<1>8. Continues(b, r)
  BY <1>5, <1>6, <1>7 DEF Continues
<1> QED
  BY <1>8 DEF r

\* The browser reads a frame of the replay.
LEMMA ContinuesLess ==
  ASSUME NEW b \in Seq(Msgs), NEW w \in Seq(Frames), w # <<>>, Continues(b, w),
         NEW f \in Frames, f = Head(w), f \notin Complete
  PROVE  /\ f \notin EndFrames /\ Continues(b, Tail(w))
         /\ f \in Chats => Continues(Append(b, f.msg), Tail(w))
<1> DEFINE r == Tail(w)
<1>1. /\ Len(w) \in Nat \ {0} /\ Len(r) = Len(w) - 1 /\ f = w[1]
      /\ \A i \in 1 .. Len(w) - 1 : r[i] = w[i + 1]
  BY TailPlaces
<1>2. /\ 1 \in 1 .. Len(w)
      /\ \A i \in 1 .. Len(r) : i + 1 \in 1 .. Len(w) /\ r[i] = w[i + 1] /\ 1 < i + 1
      /\ \A i, j \in 1 .. Len(r) : i < j => i + 1 < j + 1
  BY <1>1
<1>3. Replayed(w, 1)
  <2>1. \A j \in 1 .. 1 : j = 1
    OBVIOUS
  <2> QED
    BY <1>1, <2>1 DEF Replayed
<1>4. ASSUME NEW i \in 1 .. Len(r), Replayed(r, i) PROVE Replayed(w, i + 1)
  <2>1. \A j \in 1 .. i + 1 : j = 1 \/ (j - 1 \in 1 .. i /\ j - 1 \in 1 .. Len(r) /\ w[j] = r[j - 1])
    BY <1>1, <1>4
  <2> HIDE DEF r
  <2> QED
    BY <1>1, <1>4, <2>1 DEF Replayed
<1> HIDE DEF r
<1>5. f \notin EndFrames
  BY <1>1, <1>2, <1>3 DEF Continues
<1>6. /\ \A i \in 1 .. Len(r) : Replayed(r, i) => r[i] \notin EndFrames
      /\ \A i, j \in 1 .. Len(r) :
           r[i] \in Chats /\ r[j] \in Chats /\ i < j /\ Replayed(r, j) => r[i].msg < r[j].msg
      /\ \A k \in 1 .. Len(b) : \A i \in 1 .. Len(r) :
           r[i] \in Chats /\ Replayed(r, i) => b[k] < r[i].msg
  BY <1>2, <1>4 DEF Continues
<1>7. Continues(b, r)
  BY <1>6 DEF Continues
<1>8. ASSUME f \in Chats PROVE Continues(Append(b, f.msg), r)
  <2>1. f.msg \in Msgs /\ \A k \in 1 .. Len(b) : b[k] < f.msg
    BY <1>1, <1>2, <1>3, <1>8, FrameIs DEF Continues
  <2>2. PICK m \in Msgs : m = f.msg
    BY <2>1
  <2>3. PICK a : a = Append(b, m)
    OBVIOUS
  <2>4. Rising(a, Len(a))
    <3>1. \A k \in 1 .. Len(b) : b[k] < m
      BY <2>1, <2>2
    <3>2. Rising(b, Len(b))
      BY DEF Continues
    <3> QED
      BY ONLY b \in Seq(Msgs), m \in Msgs, <2>3, <3>1, <3>2, RisingMore
  <2>5. /\ Len(b) \in Nat /\ Len(a) = Len(b) + 1 /\ a[Len(b) + 1] = m
        /\ \A i \in 1 .. Len(b) : a[i] = b[i]
    BY ONLY b \in Seq(Msgs), m \in Msgs, <2>3, AppendedPlaces
  <2>6. \A k \in 1 .. Len(a) : k = Len(b) + 1 \/ k \in 1 .. Len(b)
    BY <2>5
  <2>7. \A i \in 1 .. Len(r) : r[i] \in Chats /\ Replayed(r, i) => m < r[i].msg
    BY <1>1, <1>2, <1>4, <1>8, <2>2 DEF Continues
  <2>8. \A k \in 1 .. Len(a) : \A i \in 1 .. Len(r) :
          r[i] \in Chats /\ Replayed(r, i) => a[k] < r[i].msg
    BY <1>6, <2>5, <2>6, <2>7
  <2>9. Continues(a, r)
    BY <1>6, <2>4, <2>8 DEF Continues
  <2> QED
    BY <2>2, <2>3, <2>9
<1> QED
  BY <1>5, <1>7, <1>8 DEF r

\* What a frame does to what a browser keeps.
Keeps(v, f, v2) ==
  /\ Kept(v2)
  /\ ~v2.historyDone => \/ v2.historyBatch = v.historyBatch
                        \/ f \in Chats /\ v2.historyBatch = Append(v.historyBatch, f.msg)

LEMMA NothingKept ==
  ASSUME NEW v, v.messages = <<>>, v.historyBatch = <<>>, v.historyCount = 0
  PROVE  Kept(v)
<1>1. Len(<<>>) = 0 /\ ToSet(<<>>) = {}
  BY DEF ToSet
<1> QED
  BY <1>1 DEF Kept, Distinct, Rising, Shows

LEMMA ShowKeeps ==
  ASSUME NEW v \in Screens, Fits(v), Kept(v), NEW m \in Msgs, NEW v2, v2 = ShowMessage(v, m)
  PROVE  /\ Kept(v2)
         /\ ~v2.historyDone => v2.historyBatch \in {v.historyBatch, Append(v.historyBatch, m)}
<1> DEFINE more == Append(v.messages, m)
           batch == Append(v.historyBatch, m)
           seen == v.seenNonces \cup {m}
<1>1. /\ v.messages \in Seq(Msgs) /\ v.historyBatch \in Seq(Msgs) /\ v.historyCount \in Nat
  BY ScreenIs
<1>2. /\ more \in Seq(Msgs) /\ batch \in Seq(Msgs) /\ seen \in SUBSET Msgs
      /\ ToSet(more) = ToSet(v.messages) \cup {m}
      /\ ToSet(batch) = ToSet(v.historyBatch) \cup {m}
      /\ Len(more) = Len(v.messages) + 1 /\ Len(v.messages) \in Nat
  BY <1>1, ScreenIs, ElementsMore, AppendedPlaces
<1>3. CASE m \in v.seenNonces
  BY <1>3 DEF ShowMessage
<1>4. CASE m \notin v.seenNonces
  <2>1. m \notin ToSet(v.messages) /\ m \notin ToSet(v.historyBatch)
    BY <1>4 DEF Kept, Shows
  <2>2. Distinct(more) /\ Distinct(batch)
    BY <1>1, <2>1, DistinctMore DEF Kept
  <2>3. v.historyCount <= Len(more) /\ Rising(more, v.historyCount)
    <3>1. v.historyCount \in 0 .. Len(v.messages)
      BY <1>1, <1>2 DEF Kept
    <3>2. Rising(more, v.historyCount)
      BY <1>1, <3>1, RisingMore DEF Kept
    <3> QED
      BY <1>2, <3>1, <3>2
  <2> HIDE DEF more, batch, seen
  <2>4. CASE v.historyDone
    <3>1. v2 = [[v EXCEPT !.seenNonces = seen] EXCEPT !.messages = more]
      BY <1>4, <2>4 DEF ShowMessage, more, seen, Screens
    <3>2. /\ v2.messages = more /\ v2.historyBatch = v.historyBatch /\ v2.seenNonces = seen
          /\ v2.historyCount = v.historyCount /\ v2.historyDone
      BY <1>2, <2>4, <3>1 DEF Screens
    <3>3. Shows(v2) \subseteq v2.seenNonces
      BY <1>2, <3>2 DEF Shows, Kept, seen
    <3> QED
      BY <2>2, <2>3, <3>2, <3>3 DEF Kept
  <2>5. CASE ~v.historyDone
    <3>1. v2 = [[v EXCEPT !.seenNonces = seen] EXCEPT !.historyBatch = batch]
      BY <1>4, <2>5 DEF ShowMessage, batch, seen, Screens
    <3>2. /\ v2.messages = v.messages /\ v2.historyBatch = batch /\ v2.seenNonces = seen
          /\ v2.historyCount = v.historyCount
      BY <1>2, <3>1 DEF Screens
    <3>3. Shows(v2) \subseteq v2.seenNonces
      BY <1>2, <3>2 DEF Shows, Kept, seen
    <3>4. Kept(v2)
      BY <2>2, <3>2, <3>3 DEF Kept
    <3> QED
      BY <3>2, <3>4 DEF batch
  <2> QED
    BY <2>4, <2>5
<1> QED
  BY <1>3, <1>4

LEMMA KeepsOnMessage ==
  ASSUME NEW v \in Screens, Fits(v), Kept(v), NEW f \in Frames,
         f \in Complete => ~v.historyDone /\ Rising(v.historyBatch, Len(v.historyBatch)),
         f \in EndFrames => v.historyDone,
         NEW v2, v2 = OnMessage(v, f)
  PROVE  Keeps(v, f, v2)
<1>1. f.type \in EventTypes \cup NetTypes \cup {"chat"}
  BY FrameIs
<1>2. CASE f.type = "history_complete"
  <2>1. v2 = FlushHistory(v) /\ f \in Complete
    BY <1>2, FrameIs DEF OnMessage
  <2>2. /\ v2.messages = v.historyBatch /\ v2.historyBatch = <<>> /\ v2.historyDone
        /\ v2.historyCount = Len(v.historyBatch) /\ v2.seenNonces = v.seenNonces
    BY <2>1 DEF FlushHistory, Screens
  <2>3. Len(v.historyBatch) \in Nat /\ Len(<<>>) = 0 /\ ToSet(<<>>) = {}
    BY ScreenIs
  <2>4. Shows(v2) \subseteq v2.seenNonces
    BY <2>2, <2>3 DEF Shows, Kept
  <2>5. Distinct(v2.historyBatch) /\ Distinct(v2.messages)
    BY <2>2, <2>3 DEF Distinct, Kept
  <2>6. v2.historyCount <= Len(v2.messages) /\ Rising(v2.messages, v2.historyCount)
    BY <2>1, <2>2, <2>3
  <2> QED
    BY <2>2, <2>4, <2>5, <2>6 DEF Keeps, Kept
<1>3. CASE f.type = "room_ready"
  <2>1. v2 = [v EXCEPT !.roomState = "ready"]
    BY <1>3 DEF OnMessage
  <2>2. /\ v2.messages = v.messages /\ v2.historyBatch = v.historyBatch
        /\ v2.historyCount = v.historyCount /\ v2.seenNonces = v.seenNonces
    BY <2>1 DEF Screens
  <2> QED
    BY <2>2 DEF Keeps, Kept, Shows
<1>4. CASE f.type \in {"room_left", "room_closed"}
  <2>1. v.historyDone /\ v.historyBatch = <<>>
    BY <1>4, FrameIs DEF EndTypes, Fits
  <2>2. v2 = v \/ \E s : v2 = [ResetRoom(v) EXCEPT !.roomState = s]
    BY <1>4 DEF OnMessage, OnRoomLeft
  <2>3. CASE v2 = v
    BY <2>3 DEF Keeps
  <2>4. CASE \E s : v2 = [ResetRoom(v) EXCEPT !.roomState = s]
    <3>1. /\ v2.messages = <<>> /\ v2.historyBatch = v.historyBatch /\ v2.historyCount = 0
      BY <2>4 DEF ResetRoom, Screens
    <3>2. Kept(v2)
      BY <2>1, <3>1, NothingKept
    <3> QED
      BY <3>1, <3>2 DEF Keeps
  <2> QED
    BY <2>2, <2>3, <2>4
<1>5. CASE f.type = "chat"
  <2>1. f \in Chats /\ f.msg \in Msgs
    BY <1>5, FrameIs
  <2>2. v2 = ShowMessage(v, f.msg)
    BY <1>5 DEF OnMessage
  <2>3. PICK m \in Msgs : m = f.msg
    BY <2>1
  <2>4. v2 = ShowMessage(v, m)
    BY <2>2, <2>3
  <2>5. /\ Kept(v2)
        /\ ~v2.historyDone => v2.historyBatch \in {v.historyBatch, Append(v.historyBatch, m)}
    BY ONLY <2>4, v \in Screens, Fits(v), Kept(v), m \in Msgs, ShowKeeps
  <2> QED
    BY <2>1, <2>3, <2>5 DEF Keeps
<1>6. CASE f.type \in NetTypes
  <2>1. v2 = Trace(v, f)
    BY <1>6 DEF OnMessage, NetTypes
  <2>2. PICK e : v2 = [v EXCEPT !.events = e]
    BY <2>1 DEF Trace
  <2>3. /\ v2.messages = v.messages /\ v2.historyBatch = v.historyBatch
        /\ v2.historyCount = v.historyCount /\ v2.seenNonces = v.seenNonces
    BY <2>2 DEF Screens
  <2> QED
    BY <2>3 DEF Keeps, Kept, Shows
<1> QED
  BY <1>1, <1>2, <1>3, <1>4, <1>5, <1>6 DEF EventTypes

\* The replay after the room's event, in order as the handler sorted it.
LEMMA BurstContinues ==
  ASSUME NEW w \in Seq(Frames), Continues(<<>>, w), ~Among(w, Complete), ~Among(w, Chats),
         NEW n \in Nat, NEW q \in [1 .. n -> Msgs], \A i, j \in 1 .. n : i < j => q[i] < q[j],
         NEW v, v = w \o Burst(q)
  PROVE  Continues(<<>>, v)
<1> DEFINE b == Burst(q)
<1>1. b \in Seq(Chats) /\ Len(b) = n /\ \A i \in 1 .. n : b[i] = Message(q[i])
  <2>1. Len(q) = n
    OBVIOUS
  <2>2. \A i \in 1 .. n : Message(q[i]) \in Chats
    BY KindsOfFrames
  <2> QED
    BY <2>1, <2>2 DEF Burst
<1> HIDE DEF b
<1>2. b \in Seq(Frames) /\ v = w \o b
  BY <1>1, KindsOfFrames DEF b
<1>3. /\ v \in Seq(Frames) /\ Len(w) \in Nat /\ Len(v) = Len(w) + n
      /\ \A i \in 1 .. Len(w) : v[i] = w[i]
      /\ \A i \in Len(w) + 1 .. Len(w) + n : v[i] = b[i - Len(w)]
  BY ONLY w \in Seq(Frames), <1>1, <1>2, ConcatPlaces
<1>4. \A i \in 1 .. Len(w) : v[i] \notin Chats /\ v[i] \notin EndFrames
  <2> TAKE i \in 1 .. Len(w)
  <2>1. \A j \in 1 .. i : j \in 1 .. Len(w)
    BY <1>3
  <2>2. Replayed(w, i)
    BY <2>1 DEF Replayed, Among
  <2>3. w[i] \notin Chats /\ w[i] \notin EndFrames
    BY <2>2 DEF Continues, Among
  <2> QED
    BY <1>3, <2>3
<1>5. \A i \in Len(w) + 1 .. Len(w) + n : i - Len(w) \in 1 .. n
  BY <1>3
<1>6. \A i \in Len(w) + 1 .. Len(w) + n :
        v[i] = Message(q[i - Len(w)]) /\ v[i] \in Chats /\ v[i].msg = q[i - Len(w)]
  <2> TAKE i \in Len(w) + 1 .. Len(w) + n
  <2>1. PICK k \in 1 .. n : k = i - Len(w)
    BY <1>5
  <2>2. v[i] = b[k] /\ b[k] = Message(q[k]) /\ q[k] \in Msgs
    BY <1>1, <1>3, <2>1
  <2>3. v[i] \in Chats /\ v[i].msg = q[k]
    BY <2>2, KindsOfFrames
  <2> QED
    BY <2>1, <2>2, <2>3
<1>7. /\ \A i \in 1 .. Len(v) : i \in 1 .. Len(w) \/ i \in Len(w) + 1 .. Len(w) + n
      /\ \A i, j \in Len(w) + 1 .. Len(w) + n : i < j => i - Len(w) < j - Len(w)
  BY <1>3
<1>8. \A f \in Chats : f \notin EndFrames
  BY KindsOfFrames, FrameIs DEF EndTypes
<1>9. \A i \in 1 .. Len(v) : v[i] \notin EndFrames
  BY <1>4, <1>6, <1>7, <1>8
<1>10. ASSUME NEW i \in 1 .. Len(v), NEW j \in 1 .. Len(v),
              v[i] \in Chats, v[j] \in Chats, i < j
       PROVE  v[i].msg < v[j].msg
  <2>1. i \in Len(w) + 1 .. Len(w) + n /\ j \in Len(w) + 1 .. Len(w) + n
    BY <1>4, <1>7, <1>10
  <2>2. PICK k \in 1 .. n, l \in 1 .. n : k = i - Len(w) /\ l = j - Len(w)
    BY <1>5, <2>1
  <2>3. k < l
    BY <1>7, <1>10, <2>1, <2>2
  <2>4. v[i].msg = q[k] /\ v[j].msg = q[l]
    BY <1>6, <2>1, <2>2
  <2> QED
    BY <2>3, <2>4
<1>11. Len(<<>>) = 0 /\ \A k : k \notin 1 .. 0
  OBVIOUS
<1> QED
  BY <1>9, <1>10, <1>11 DEF Continues, Rising

-----------------------------------------------------------------------------
(* One step of one client.                                                  *)

LEMMA InOrderStays ==
  ASSUME NEW c \in Clients, InOrder(c), view'[c] = view[c], wire'[c] = wire[c],
         conn'[c] = "welcomed" => conn[c] = "welcomed"
  PROVE  InOrder(c)'
BY DEF InOrder

LEMMA NothingSent ==
  ASSUME NEW b, Rising(b, Len(b))
  PROVE  Continues(b, <<>>)
<1>1. Len(<<>>) = 0 /\ \A k : k \notin 1 .. 0
  OBVIOUS
<1> QED
  BY <1>1 DEF Continues

LEMMA ConnectInOrder ==
  Kept(Connect) /\ Connect.historyBatch = <<>> /\ Continues(<<>>, <<>>)
<1>1. Connect.messages = <<>> /\ Connect.historyBatch = <<>> /\ Connect.historyCount = 0
  BY DEF Connect
<1>2. Rising(<<>>, Len(<<>>))
  <2>1. Len(<<>>) = 0 /\ \A k : k \notin 1 .. 0
    OBVIOUS
  <2> QED
    BY <2>1 DEF Rising
<1> QED
  BY <1>1, <1>2, NothingKept, NothingSent

LEMMA FrameInOrder ==
  ASSUME BridgeInv, NEW c \in Clients, InOrder(c), NEW f \in Frames,
         wire'[c] = Append(wire[c], f), view'[c] = view[c], conn'[c] # "welcomed",
         ~view[c].historyDone =>
           f \in Complete \/ Among(wire[c], Complete) \/ (f \notin Chats /\ f \notin EndFrames)
  PROVE  InOrder(c)'
<1>1. ASSUME ~view[c].historyDone
      PROVE  Continues(view[c].historyBatch, Append(wire[c], f))
  <2>1. PICK w, b : w = wire[c] /\ b = view[c].historyBatch /\ w \in Seq(Frames)
    BY ClientIsTyped
  <2>2. Continues(b, w)
    BY <1>1, <2>1 DEF InOrder
  <2>3. f \in Complete \/ Among(w, Complete) \/ (f \notin Chats /\ f \notin EndFrames)
    BY <1>1, <2>1
  <2>4. w \in Seq(Frames)
    BY <2>1
  <2>5. Continues(b, Append(w, f))
    BY ONLY <2>2, <2>3, <2>4, f \in Frames, ContinuesMore
  <2> QED
    BY <2>1, <2>5
<1> QED
  BY <1>1 DEF InOrder

LEMMA ConnectsInOrder ==
  ASSUME BridgeInv, NEW c \in Clients, ClientConnects(c)
  PROVE  InOrder(c)'
<1>1. /\ conn[c] = "off" /\ conn' = [conn EXCEPT ![c] = "accepted"]
      /\ view' = [view EXCEPT ![c] = Connect] /\ UNCHANGED wire
  BY DEF ClientConnects
<1>2. conn'[c] = "accepted" /\ view'[c] = Connect
  BY <1>1, ClientIsTyped DEF ClientType
<1>3. wire'[c] = <<>>
  BY <1>1, ClientIsTyped DEF InStep, HasEvents
<1>4. Kept(view'[c]) /\ view'[c].historyBatch = <<>> /\ Continues(<<>>, <<>>)
  BY <1>2, ConnectInOrder
<1> QED
  BY <1>2, <1>3, <1>4 DEF InOrder

LEMMA WelcomeInOrder ==
  ASSUME BridgeInv, NEW c \in Clients, ReplayWelcome(c)
  PROVE  InOrder(c)'
<1> DEFINE f == Event("room_ready")
<1>1. /\ conn[c] = "subscribed" /\ view'[c] = view[c]
      /\ wire' = [wire EXCEPT ![c] = IF welcome = 0 THEN @ ELSE Append(@, f)]
  BY DEF ReplayWelcome
<1>2. wire[c] = <<>> /\ view'[c] = Connect /\ wire'[c] \in {<<>>, Append(<<>>, f)}
  <2>1. wire[c] = <<>> /\ view[c] = Connect
    BY <1>1, ClientIsTyped DEF InStep
  <2>2. wire'[c] \in {wire[c], Append(wire[c], f)}
    BY <1>1, ClientIsTyped DEF ClientType
  <2> QED
    BY <1>1, <2>1, <2>2
<1>3. f \in Frames /\ f.type = "room_ready"
  BY KindsOfFrames DEF EventTypes
<1>4. f \notin Chats /\ f \notin EndFrames
  BY <1>3, FrameIs DEF EndTypes
<1> HIDE DEF f
<1>5. <<>> \in Seq(Frames)
  OBVIOUS
<1>6. Continues(<<>>, <<>>)
  BY ConnectInOrder
<1>7. Continues(<<>>, Append(<<>>, f)) /\ ~Among(Append(<<>>, f), Chats) /\ ~Among(<<>>, Chats)
  <2>1. Continues(<<>>, Append(<<>>, f))
    BY <1>3, <1>4, <1>5, <1>6, ContinuesMore
  <2> QED
    BY <1>3, <1>4, <1>5, <2>1, NoneAmong, AmongMore
<1>8. /\ Kept(view'[c]) /\ view'[c].historyBatch = <<>>
      /\ Continues(<<>>, wire'[c]) /\ ~Among(wire'[c], Chats)
  BY <1>2, <1>6, <1>7, ConnectInOrder
<1> QED
  BY <1>8 DEF InOrder

LEMMA HistoryReplayInOrder ==
  ASSUME BridgeInv, NEW c \in Clients, InOrder(c), ReplayHistory(c)
  PROVE  InOrder(c)'
<1>1. PICK q \in [1 .. Len(history) -> ToSet(history)] :
        /\ Sorted(q, history)
        /\ wire' = [wire EXCEPT ![c] = @ \o Burst(q)]
  BY DEF ReplayHistory
<1>2. conn[c] = "welcomed" /\ conn' = [conn EXCEPT ![c] = "replayed"] /\ UNCHANGED view
  BY DEF ReplayHistory
<1>3. conn'[c] = "replayed" /\ view'[c] = view[c] /\ ClientType
  BY <1>2, ClientIsTyped DEF ClientType
<1>4. PICK n \in Nat : n = Len(history)
  BY HubIs DEF HubType
<1>5. q \in [1 .. n -> Msgs]
  <2>1. ToSet(history) \subseteq Msgs
    BY HubIs, ElementsOf DEF HubType
  <2> QED
    BY <1>4, <2>1
<1>6. \A i, j \in 1 .. n : i < j => q[i] < q[j]
  BY <1>1, <1>5 DEF Sorted
<1>7. PICK w, v : w = wire[c] /\ v = wire'[c] /\ w \in Seq(Frames)
  BY ClientIsTyped
<1>8. v = w \o Burst(q) /\ w \in Seq(Frames)
  BY <1>1, <1>3, <1>7 DEF ClientType
<1>9. /\ view[c].historyBatch = <<>> /\ Continues(<<>>, w)
      /\ ~Among(w, Complete) /\ ~Among(w, Chats)
  <2>1. ~view[c].historyDone /\ ~Among(w, Complete)
    BY <1>2, <1>7, ClientIsTyped DEF Burst1
  <2> QED
    BY <1>2, <1>7, <2>1 DEF InOrder
<1>10. /\ Continues(<<>>, w) /\ ~Among(w, Complete) /\ ~Among(w, Chats)
  BY <1>9
<1>11. Continues(<<>>, v)
  BY ONLY <1>5, <1>6, <1>8, <1>10, n \in Nat, BurstContinues
<1>12. Continues(<<>>, wire'[c])
  BY <1>7, <1>11
<1> QED
  BY <1>3, <1>9, <1>12 DEF InOrder

LEMMA SendsInOrder ==
  ASSUME BridgeInv, NEW c \in Clients, InOrder(c),
         ReplayComplete(c) \/ ForwardLive(c) \/ ForwardEvent(c)
  PROVE  InOrder(c)'
<1>1. CASE ReplayComplete(c)
  <2> DEFINE f == Event("history_complete")
  <2>1. /\ conn' = [conn EXCEPT ![c] = "live"] /\ wire' = [wire EXCEPT ![c] = Append(@, f)]
        /\ UNCHANGED view
    BY <1>1 DEF ReplayComplete
  <2>2. f \in Frames /\ f \in Complete
    BY KindsOfFrames DEF EventTypes, Complete
  <2> HIDE DEF f
  <2>3. wire'[c] = Append(wire[c], f) /\ view'[c] = view[c] /\ conn'[c] = "live"
    BY <2>1, ClientIsTyped DEF ClientType
  <2> QED
    BY <2>2, <2>3, FrameInOrder
<1>2. ASSUME NEW f \in Frames, conn[c] = "live", wire' = [wire EXCEPT ![c] = Append(@, f)],
             UNCHANGED <<conn, view>>
      PROVE  InOrder(c)'
  <2>1. wire'[c] = Append(wire[c], f) /\ view'[c] = view[c] /\ conn'[c] = "live"
    BY <1>2, ClientIsTyped DEF ClientType
  <2>2. ~view[c].historyDone => Among(wire[c], Complete)
    BY <1>2, ClientIsTyped DEF Burst1
  <2> QED
    BY <2>1, <2>2, FrameInOrder
<1>3. CASE ForwardLive(c)
  <2>1. /\ conn[c] = "live" /\ liveQ[c] # <<>> /\ UNCHANGED <<conn, view>>
        /\ wire' = [wire EXCEPT ![c] = Append(@, Head(liveQ[c]))]
    BY <1>3 DEF ForwardLive
  <2>2. Head(liveQ[c]) \in Chats
    BY <2>1, ClientIsTyped, TailPlaces
  <2>3. Head(liveQ[c]) \in Frames
    BY <2>2, KindsOfFrames
  <2> QED
    BY <1>2, <2>1, <2>3
<1>4. CASE ForwardEvent(c)
  <2>1. /\ conn[c] = "live" /\ eventQ[c] # <<>> /\ UNCHANGED <<conn, view>>
        /\ wire' = [wire EXCEPT ![c] = Append(@, Head(eventQ[c]))]
    BY <1>4 DEF ForwardEvent
  <2>2. Head(eventQ[c]) \in HubFrames
    BY <2>1, ClientIsTyped, TailPlaces
  <2>3. Head(eventQ[c]) \in Frames
    BY <2>2, KindsOfFrames
  <2> QED
    BY <1>2, <2>1, <2>3
<1> QED
  BY <1>1, <1>3, <1>4

LEMMA ReceiveInOrder ==
  ASSUME BridgeInv, NEW c \in Clients, InOrder(c), Receive(c)
  PROVE  InOrder(c)'
<1>1. PICK w, f, v, v2, b : /\ w = wire[c] /\ f = Head(wire[c]) /\ v = view[c]
                            /\ v2 = view'[c] /\ b = view[c].historyBatch
  OBVIOUS
<1>2. /\ w # <<>> /\ v2 = OnMessage(v, f) /\ wire'[c] = Tail(w) /\ conn'[c] = conn[c]
      /\ f = Head(w)
  BY <1>1, ClientIsTyped DEF Receive, ClientType
<1>3. w \in Seq(Frames) /\ v \in Screens /\ Fits(v)
  BY <1>1, ClientIsTyped DEF Burst1
<1>4. f \in Frames /\ Tail(w) \in Seq(Frames) /\ \A S : Among(w, S) <=> f \in S \/ Among(Tail(w), S)
  <2>1. f \in Frames /\ Tail(w) \in Seq(Frames)
    BY <1>2, <1>3, TailPlaces
  <2>2. \A S : Among(w, S) <=> f \in S \/ Among(Tail(w), S)
    BY <1>2, <1>3, AmongLess
  <2> QED
    BY <2>1, <2>2
<1>5. /\ Kept(v) /\ (~v.historyDone => Continues(b, w)) /\ b = v.historyBatch
      /\ conn[c] = "welcomed" => b = <<>> /\ ~Among(w, Chats)
  BY <1>1 DEF InOrder
<1>6. b \in Seq(Msgs)
  BY <1>3, <1>5, ScreenIs
<1>7. v.historyDone => ~Among(w, Complete)
  BY <1>1, ClientIsTyped DEF Burst1
<1>8. f \in Complete => ~v.historyDone
  BY <1>4, <1>7
<1>9. OneIn(w, Complete)
  BY <1>1, ClientIsTyped DEF Burst1
<1>10. conn[c] = "welcomed" => ~v.historyDone /\ ~Among(w, Complete)
  BY <1>1, ClientIsTyped DEF Burst1
<1>11. /\ v2.historyDone <=> v.historyDone \/ f \in Complete
  <2>1. Len(v.events) <= TraceCap
    BY <1>1, ClientIsTyped DEF Bounded
  <2>2. After(v, f, v2)
    BY ONLY <1>2, <1>3, <1>4, <1>8, <2>1, OnMessageKeeps
  <2> QED
    BY <2>2 DEF After
<1>12. ASSUME ~v.historyDone, f \notin Complete
       PROVE  f \notin EndFrames /\ Continues(b, Tail(w))
              /\ (f \in Chats => Continues(Append(b, f.msg), Tail(w)))
  BY ONLY <1>2, <1>3, <1>4, <1>5, <1>6, <1>12, ContinuesLess
<1>13. f \in Complete => f \notin EndFrames
  <2>1. f \in Complete => f.type = "history_complete"
    BY <1>4, FrameIs
  <2> QED
    BY <1>4, <2>1, FrameIs DEF EndTypes
<1>14. Keeps(v, f, v2)
  <2>1. f \in Complete => Rising(v.historyBatch, Len(v.historyBatch))
    BY <1>5, <1>8 DEF Continues
  <2>2. f \in EndFrames => v.historyDone
    BY <1>12, <1>13
  <2> QED
    BY ONLY <1>2, <1>3, <1>4, <1>5, <1>8, <2>1, <2>2, KeepsOnMessage
<1>15. ~v2.historyDone => Continues(v2.historyBatch, Tail(w))
  BY <1>5, <1>11, <1>12, <1>14 DEF Keeps
<1>16. conn[c] = "welcomed" => v2.historyBatch = <<>> /\ ~Among(Tail(w), Chats)
  <2> SUFFICES ASSUME conn[c] = "welcomed"
               PROVE  v2.historyBatch = <<>> /\ ~Among(Tail(w), Chats)
    OBVIOUS
  <2>1. f \notin Chats /\ f \notin Complete /\ ~v2.historyDone /\ ~Among(Tail(w), Chats)
    BY <1>4, <1>5, <1>10, <1>11
  <2> QED
    BY <1>5, <1>14, <2>1 DEF Keeps
<1> QED
  <2>1. Kept(v2)
    BY <1>14 DEF Keeps
  <2>2. v2 = view'[c] /\ wire'[c] = Tail(w) /\ conn'[c] = conn[c]
    BY <1>1, <1>2
  <2> QED
    BY <1>15, <1>16, <2>1, <2>2 DEF InOrder

LEMMA DisconnectInOrder ==
  ASSUME BridgeInv, NEW c \in Clients, InOrder(c), Disconnect(c)
  PROVE  InOrder(c)'
<1>1. conn'[c] = "off" /\ wire'[c] = <<>> /\ view'[c] = view[c]
  BY ClientIsTyped DEF Disconnect, ClientType
<1>2. ~view[c].historyDone => Continues(view[c].historyBatch, <<>>)
  BY NothingSent DEF InOrder, Continues
<1> QED
  BY <1>1, <1>2 DEF InOrder

-----------------------------------------------------------------------------
(* Every step.                                                              *)

LEMMA OthersInOrder ==
  ASSUME BridgeInv, OrderInv, NEW c \in Clients, Handler(c) \/ Browser(c), NEW d \in Clients, d # c
  PROVE  InOrder(d)'
<1>1. /\ conn \in [Clients -> ClientStates] /\ wire \in [Clients -> Seq(Frames)]
      /\ view \in [Clients -> Screens]
  BY ClientIsTyped DEF ClientType, ClientStates
<1>2. conn'[d] = conn[d]
  BY <1>1 DEF Handler, Browser, SubscribeLive, SubscribeEvents, ReplayWelcome, ReplayHistory,
              ReplayComplete, ForwardLive, ForwardEvent, ClientConnects, Receive, Disconnect
<1>3. wire'[d] = wire[d]
  BY <1>1 DEF Handler, Browser, SubscribeLive, SubscribeEvents, ReplayWelcome, ReplayHistory,
              ReplayComplete, ForwardLive, ForwardEvent, ClientConnects, Receive, Disconnect
<1>4. view'[d] = view[d]
  BY <1>1 DEF Handler, Browser, SubscribeLive, SubscribeEvents, ReplayWelcome, ReplayHistory,
              ReplayComplete, ForwardLive, ForwardEvent, ClientConnects, Receive, Disconnect
<1> QED
  BY <1>2, <1>3, <1>4, InOrderStays DEF OrderInv

LEMMA OrderStep == BridgeInv /\ OrderInv /\ [Next]_vars => OrderInv'
<1> SUFFICES ASSUME BridgeInv, OrderInv, [Next]_vars, NEW d \in Clients PROVE InOrder(d)'
  BY DEF OrderInv
<1>1. InOrder(d)
  BY DEF OrderInv
<1>2. CASE UNCHANGED <<conn, wire, view>>
  BY <1>1, <1>2, InOrderStays
<1>3. CASE Room
  BY <1>2, <1>3
     DEF Room, StartRoom, StoreWelcome, SendWelcome, HostCloses, LateClose, EndWelcome,
         EndHistory, RoomLeft, AppendHistory, Fanout, Telemetry, SockVars
<1>4. ASSUME NEW c \in Clients, Handler(c) \/ Browser(c), c # d PROVE InOrder(d)'
  BY <1>4, OthersInOrder
<1>5. CASE Handler(d)
  <2>1. CASE SubscribeLive(d) \/ SubscribeEvents(d)
    <3>1. wire'[d] = wire[d] /\ view'[d] = view[d]
      BY <2>1 DEF SubscribeLive, SubscribeEvents
    <3>2. conn'[d] # "welcomed"
      BY <2>1, ClientIsTyped DEF SubscribeLive, SubscribeEvents, ClientType
    <3> QED
      BY <1>1, <3>1, <3>2, InOrderStays
  <2> QED
    BY <1>1, <1>5, <2>1, WelcomeInOrder, HistoryReplayInOrder, SendsInOrder DEF Handler
<1>6. CASE Browser(d)
  BY <1>1, <1>6, ConnectsInOrder, ReceiveInOrder, DisconnectInOrder DEF Browser
<1>7. CASE UNCHANGED vars
  BY <1>2, <1>7 DEF vars, clientVars
<1> QED
  BY <1>3, <1>4, <1>5, <1>6, <1>7 DEF Next

\* What is kept is in order, and what is on the wire continues it.
THEOREM OrderInvariant == Spec => []OrderInv
<1>1. Init => OrderInv
  <2> SUFFICES ASSUME Init, NEW c \in Clients PROVE InOrder(c)
    BY DEF OrderInv
  <2>1. conn[c] = "off" /\ wire[c] = <<>> /\ view[c] = Connect
    BY DEF Init
  <2> QED
    BY <2>1, ConnectInOrder DEF InOrder
<1> QED
  BY <1>1, BridgeInvariant, OrderStep, PTL DEF Spec

\* A message replayed and then sent live is kept once, and the replay stays in
\* order, whatever is pushed, lagged, reconnected or reset meanwhile.
THEOREM KeptCorrect == Spec => []KeptInOrder
<1>1. BridgeInv /\ OrderInv => KeptInOrder
  <2> SUFFICES ASSUME BridgeInv, OrderInv, NEW c \in Clients
               PROVE  /\ IsInjective(view[c].messages)
                      /\ view[c].historyCount <= Len(view[c].messages)
                      /\ Rising(view[c].messages, view[c].historyCount)
    BY DEF KeptInOrder, Rising
  <2>1. /\ Distinct(view[c].messages) /\ view[c].historyCount <= Len(view[c].messages)
        /\ Rising(view[c].messages, view[c].historyCount)
    BY DEF OrderInv, InOrder, Kept
  <2>2. PICK q : q = view[c].messages /\ q \in Seq(Msgs)
    BY ClientIsTyped, ScreenIs
  <2>3. IsInjective(q)
    BY <2>1, <2>2 DEF IsInjective, Distinct
  <2> QED
    BY <2>1, <2>2, <2>3
<1> QED
  BY <1>1, BridgeInvariant, OrderInvariant, PTL
=============================================================================
