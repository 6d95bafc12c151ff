--------------------------- MODULE ChatServeProofs ---------------------------
(***************************************************************************)
(* Safety of the serve process, and that it implements RoomLifecycle, for  *)
(* every number of sessions, clients and texts, and every capacity.        *)
(***************************************************************************)
EXTENDS ChatServe, TLAPS

\* Trimming keeps a history a history, of MAX_HISTORY entries at most.
LEMMA TrimType ==
  ASSUME NEW E, NEW h \in Seq(E)
  PROVE  Trim(h) \in Seq(E) /\ Len(Trim(h)) <= MaxHistory
<1>1. CASE Len(h) <= MaxHistory
  BY <1>1, ServeAssumption DEF Trim
<1>2. CASE Len(h) > MaxHistory
  <2> DEFINE a == Len(h) - MaxHistory + 1
  <2>1. a \in 1 .. Len(h) /\ Len(h) \in Nat /\ Len(h) - a + 1 = MaxHistory
    BY <1>2, ServeAssumption
  <2>2. \A i \in a .. Len(h) : h[i] \in E
    BY <2>1
  <2>3. SubSeq(h, a, Len(h)) \in Seq(E) /\ Len(SubSeq(h, a, Len(h))) = MaxHistory
    BY <2>1, <2>2, ServeAssumption
  <2> QED
    BY <1>2, <2>3, ServeAssumption DEF Trim
<1> QED
  BY <1>1, <1>2, ServeAssumption

-----------------------------------------------------------------------------
(* Type correctness: by cases on the actions.                              *)

LEMMA InitType == Init => TypeOK
<1> SUFFICES ASSUME Init PROVE TypeOK
  OBVIOUS
<1>1. rooms \in [Sessions -> [host : BOOLEAN, topic : Topics \cup {NoTopic}]]
  BY DEF Init, NoRoom
<1>2. history \in Seq([by : Sessions, msg : Msgs]) /\ Len(history) <= MaxHistory
  BY ServeAssumption DEF Init
<1>3. cmdq \in Seq(Commands) /\ Len(cmdq) <= CmdCap
  BY ServeAssumption DEF Init
<1>4. chan \in [Sessions -> Seq(LocalMsgs)] /\ \A s \in Sessions : Len(chan[s]) <= OutCap
  BY ServeAssumption DEF Init
<1>5. lastEv \in [type : {"none", "room_ready", "room_joined", "room_left", "room_closed"},
                  by : 0 .. MaxSessions]
  BY ServeAssumption DEF Init
<1> QED
  BY <1>1, <1>2, <1>3, <1>4, <1>5, ServeAssumption DEF Init, TypeOK, PcStates

\* What Push leaves in the history is a history.
LEMMA PushType ==
  ASSUME TypeOK, NEW s \in Sessions, NEW m \in Msgs, Push(s, m)
  PROVE  history' \in Seq([by : Sessions, msg : Msgs]) /\ Len(history') <= MaxHistory
<1> DEFINE E == [by : Sessions, msg : Msgs]
           h == Append(history, [by |-> s, msg |-> m])
<1>1. h \in Seq(E)
  BY DEF TypeOK
<1> HIDE DEF h, E
<1>2. Trim(h) \in Seq(E) /\ Len(Trim(h)) <= MaxHistory
  BY <1>1, TrimType
<1> QED
  BY <1>2 DEF Push, h, E

LEMMA BridgeType == TypeOK /\ (Bridge \/ CtrlC) => TypeOK'
<1> SUFFICES ASSUME TypeOK, Bridge \/ CtrlC PROVE TypeOK'
  OBVIOUS
<1> USE ServeAssumption
<1> USE DEF TypeOK, loopVars, hubVars, taskVars, textVars, outVars
<1>1. ASSUME NEW c \in Commands, SendCommand(c) PROVE TypeOK'
  <2>1. cmdq' \in Seq(Commands) /\ Len(cmdq') <= CmdCap
    BY <1>1 DEF SendCommand
  <2> QED
    BY <1>1, <2>1 DEF SendCommand
<1>2. ASSUME NEW k \in Clients, NEW m \in LocalMsgs, TakeSender(k, m) PROVE TypeOK'
  <2>1. typed' \subseteq [by : 0 .. MaxSessions, msg : LocalMsgs]
    BY <1>2 DEF TakeSender
  <2>2. outbound = 0 \/ outbound \in Sessions
    BY DEF Sessions
  <2>3. held' \in [Clients -> {NoHeld} \cup [sess : Sessions, msg : LocalMsgs]]
    BY <1>2, <2>2 DEF TakeSender
  <2> QED
    BY <1>2, <2>1, <2>3 DEF TakeSender
<1>3. ASSUME NEW k \in Clients, SendBody(k) PROVE TypeOK'
  <2>1. held[k] \in [sess : Sessions, msg : LocalMsgs]
    <3>1. held[k] \in {NoHeld} \cup [sess : Sessions, msg : LocalMsgs]
      OBVIOUS
    <3>2. held[k] # NoHeld
      BY <1>3 DEF SendBody
    <3> QED
      BY <3>1, <3>2
  <2>2. chan' \in [Sessions -> Seq(LocalMsgs)] /\ \A s \in Sessions : Len(chan'[s]) <= OutCap
    <3> DEFINE t == held[k].sess
               q == Append(chan[t], held[k].msg)
    <3>1. CASE chan' = chan
      BY <3>1
    <3>2. CASE Len(chan[t]) < OutCap /\ chan' = [chan EXCEPT ![t] = q]
      <4>1. t \in Sessions /\ held[k].msg \in LocalMsgs
        BY <2>1
      <4>2. q \in Seq(LocalMsgs) /\ Len(q) = Len(chan[t]) + 1
        BY <4>1
      <4>3. Len(q) <= OutCap
        BY <3>2, <4>1, <4>2
      <4> QED
        BY <3>2, <4>1, <4>2, <4>3
    <3> QED
      BY <1>3, <3>1, <3>2 DEF SendBody
  <2>3. held' \in [Clients -> {NoHeld} \cup [sess : Sessions, msg : LocalMsgs]]
    BY <1>3 DEF SendBody
  <2> QED
    BY <1>3, <2>2, <2>3 DEF SendBody
<1>4. CASE BridgeFails
  BY <1>4 DEF BridgeFails
<1>5. CASE CtrlC
  BY <1>5 DEF CtrlC
<1> QED
  BY <1>1, <1>2, <1>3, <1>4, <1>5 DEF Bridge

LEMMA TasksType == TypeOK /\ GossipTasks => TypeOK'
<1> SUFFICES ASSUME TypeOK, NEW s \in Sessions, SendTask(s) \/ RecvTask(s)
             PROVE TypeOK'
  BY DEF GossipTasks
<1> USE ServeAssumption
<1>1. CASE SendTurn(s)
  <2>1. Head(chan[s]) \in LocalMsgs /\ chan[s] \in Seq(LocalMsgs) /\ chan[s] # <<>>
    BY <1>1 DEF SendTurn, TypeOK
  <2>2. history' \in Seq([by : Sessions, msg : Msgs]) /\ Len(history') <= MaxHistory
    BY <1>1, <2>1, PushType DEF SendTurn, Msgs
  <2>3. chan' \in [Sessions -> Seq(LocalMsgs)] /\ \A t \in Sessions : Len(chan'[t]) <= OutCap
    BY <1>1, <2>1 DEF SendTurn, TypeOK
  <2> QED
    BY <1>1, <2>1, <2>2, <2>3 DEF SendTurn, TypeOK, loopVars, textVars, outVars
<1>2. CASE Broadcast(s)
  <2>1. sent' \subseteq [by : Sessions, frame : {RoomClosed} \cup {Chat(m) : m \in LocalMsgs}]
    <3>1. hold[s] \in LocalMsgs
      BY <1>2 DEF Broadcast, TypeOK
    <3>2. [by |-> s, frame |-> Chat(hold[s])]
            \in [by : Sessions, frame : {RoomClosed} \cup {Chat(m) : m \in LocalMsgs}]
      BY <3>1
    <3> QED
      BY <1>2, <3>2 DEF Broadcast, TypeOK
  <2> QED
    BY <1>2, <2>1 DEF Broadcast, TypeOK, loopVars, hubVars, textVars
<1>3. CASE SendEnds(s)
  BY <1>3 DEF SendEnds, TypeOK, loopVars, hubVars, textVars, outVars
<1>4. CASE SendCancelled(s)
  BY <1>4 DEF SendCancelled, TypeOK, loopVars, hubVars, textVars, outVars
<1>5. ASSUME NEW m \in RemoteMsgs, RecvChat(s, m) PROVE TypeOK'
  <2>1. history' \in Seq([by : Sessions, msg : Msgs]) /\ Len(history') <= MaxHistory
    BY <1>5, PushType DEF RecvChat, Msgs, TypeOK
  <2> QED
    BY <1>5, <2>1 DEF RecvChat, TypeOK, loopVars, textVars, outVars
<1>6. CASE RecvClosed(s)
  <2>1. s \in 0 .. MaxSessions
    BY DEF Sessions
  <2> QED
    BY <1>6, <2>1 DEF RecvClosed, RecvReturns, TypeOK, loopVars, hubVars, textVars
<1>7. CASE RecvEnds(s)
  BY <1>7 DEF RecvEnds, RecvReturns, TypeOK, loopVars, hubVars, textVars
<1> QED
  BY <1>1, <1>2, <1>3, <1>4, <1>5, <1>6, <1>7 DEF SendTask, RecvTask

LEMMA LoopType == TypeOK /\ PeerLoop => TypeOK'
<1> SUFFICES ASSUME TypeOK, PeerLoop PROVE TypeOK'
  OBVIOUS
<1> USE ServeAssumption
<1> USE DEF TypeOK, PcStates, loopVars, hubVars, taskVars, textVars, outVars
\* The current session, once there is one, is a session.
<1> DEFINE Taken == cmdq' \in Seq(Commands) /\ Len(cmdq') <= CmdCap
<1>0. ASSUME cmdq # <<>>, cmdq' = Tail(cmdq) PROVE Taken /\ Head(cmdq) \in Commands
  BY <1>0
<1>1. CASE LoopTop \/ IdleCtrlC \/ IdleBridgeGone
  BY <1>1 DEF LoopTop, IdleCtrlC, IdleBridgeGone
<1>2. CASE IdleIgnores
  BY <1>0, <1>2 DEF IdleIgnores
<1>3. CASE IdleStarts
  <2>1. cur + 1 \in Sessions
    BY <1>3 DEF IdleStarts, Sessions
  <2>2. Head(cmdq).topic \in Topics \cup {NoTopic}
    BY <1>0, <1>3 DEF IdleStarts, Commands
  <2>3. rooms' \in [Sessions -> [host : BOOLEAN, topic : Topics \cup {NoTopic}]]
    BY <1>3, <2>1, <2>2 DEF IdleStarts
  <2>4. cur' \in 0 .. MaxSessions /\ cur' \in Sessions
    BY <1>3, <2>1 DEF IdleStarts, Sessions
  <2>5. /\ history' \in Seq([by : Sessions, msg : Msgs]) /\ Len(history') <= MaxHistory
        /\ welcome' \in 0 .. MaxSessions /\ outbound' \in 0 .. MaxSessions
    BY <1>3, <2>1 DEF IdleStarts, StartRoom, Sessions
  <2>6. Taken
    BY <1>0, <1>3 DEF IdleStarts
  <2> QED
    BY <1>3, <2>3, <2>4, <2>5, <2>6 DEF IdleStarts
<1>4. CASE Subscribed
  BY <1>4 DEF Subscribed
<1>5. ASSUME NEW last \in {"exited", "crashed"}, ProcessEnds(last) PROVE TypeOK'
  <2>1. chan' \in [Sessions -> Seq(LocalMsgs)] /\ \A s \in Sessions : Len(chan'[s]) <= OutCap
    BY <1>5 DEF ProcessEnds
  <2>2. history' \in Seq([by : Sessions, msg : Msgs]) /\ Len(history') <= MaxHistory
    BY <1>5 DEF ProcessEnds
  <2>3. cmdq' \in Seq(Commands) /\ Len(cmdq') <= CmdCap
    BY <1>5 DEF ProcessEnds
  <2>4. hold' \in [Sessions -> LocalMsgs \cup {NoMsg}]
    BY <1>5 DEF ProcessEnds
  <2>5. held' \in [Clients -> {NoHeld} \cup [sess : Sessions, msg : LocalMsgs]]
    BY <1>5 DEF ProcessEnds
  <2>6. /\ recvTask' \in [Sessions -> {"none", "run", "done"}]
        /\ sendTask' \in [Sessions -> {"none", "run", "aborted", "done"}]
        /\ seen' \in [Sessions -> SUBSET RemoteMsgs]
    BY <1>5 DEF ProcessEnds
  <2>7. welcome' \in 0 .. MaxSessions /\ outbound' \in 0 .. MaxSessions
    BY <1>5 DEF ProcessEnds
  <2> QED
    BY <1>5, <2>1, <2>2, <2>3, <2>4, <2>5, <2>6, <2>7 DEF ProcessEnds
<1>6. CASE SubscribeFails \/ Drained
  BY <1>5, <1>6 DEF SubscribeFails, Drained
<1>7. CASE SpawnGossip
  BY <1>7 DEF SpawnGossip
<1>8. CASE GossipEnds
  BY <1>8 DEF GossipEnds, LeaveSelect
<1>9. ASSUME DropGossip
      PROVE  /\ recvTask' \in [Sessions -> {"none", "run", "done"}]
             /\ sendTask' \in [Sessions -> {"none", "run", "aborted", "done"}]
             /\ chan' \in [Sessions -> Seq(LocalMsgs)]
             /\ \A s \in Sessions : Len(chan'[s]) <= OutCap
             /\ hold' \in [Sessions -> LocalMsgs \cup {NoMsg}]
  <2>1. CASE recvTask[cur] = "none"
    <3> DEFINE e == <<>>
    <3>1. chan' = [chan EXCEPT ![cur] = e]
      BY <1>9, <2>1 DEF DropGossip
    <3>2. e \in Seq(LocalMsgs) /\ Len(e) <= OutCap
      OBVIOUS
    <3> HIDE DEF e
    <3>3. /\ chan' \in [Sessions -> Seq(LocalMsgs)]
          /\ \A s \in Sessions : Len(chan'[s]) <= OutCap
      BY <3>1, <3>2
    <3> QED
      BY <1>9, <2>1, <3>3 DEF DropGossip
  <2>2. CASE recvTask[cur] # "none"
    BY <1>9, <2>2 DEF DropGossip
  <2> QED
    BY <2>1, <2>2
<1>10. CASE RoomCtrlC \/ RoomBridgeGone
  BY <1>9, <1>10 DEF RoomCtrlC, RoomBridgeGone, LeaveSelect
<1>11. CASE RoomCommand
  BY <1>0, <1>9, <1>11 DEF RoomCommand, LeaveSelect
<1>12. CASE CloseBroadcast
  BY <1>12 DEF CloseBroadcast
<1>13. CASE RoomLeft
  BY <1>13 DEF RoomLeft, EndRoom
<1>14. CASE RoomExits
  BY <1>14 DEF RoomExits
<1> QED
  BY <1>1, <1>2, <1>3, <1>4, <1>6, <1>7, <1>8, <1>10, <1>11, <1>12, <1>13, <1>14 DEF PeerLoop

\* Every reachable state has its type, the history and both channels within
\* their capacities.
THEOREM TypeCorrect == Spec => []TypeOK
<1>1. Init => TypeOK
  BY InitType
<1>2. TypeOK /\ [Next]_vars => TypeOK'
  <2> SUFFICES ASSUME TypeOK, [Next]_vars PROVE TypeOK'
    OBVIOUS
  <2>1. CASE Next
    BY <2>1, BridgeType, TasksType, LoopType DEF Next
  <2>2. CASE UNCHANGED vars
    BY <2>2 DEF TypeOK, vars, loopVars, hubVars, taskVars, textVars, outVars
  <2> QED
    BY <2>1, <2>2
<1> QED
  BY <1>1, <1>2, PTL DEF Spec

-----------------------------------------------------------------------------
(* What the loop promises of the hub, the registry and the guests is        *)
(* inductive once RoomClosed is known to be left to hosts.                  *)

OnlyHostsClose == pc = "closing" => rooms[cur].host

LoopInv ==
  HubFollowsLoop /\ AnnouncesOnlyItsRoom /\ CloseAnnounced /\ OnlyHostsClose

LEMMA ChatIsNotClose == \A m : Chat(m) # RoomClosed
  BY DEF Chat, RoomClosed

LEMMA InitLoop == Init => LoopInv
  BY ServeAssumption
  DEF Init, LoopInv, HubFollowsLoop, AnnouncesOnlyItsRoom, CloseAnnounced, Left,
      OnlyHostsClose, Sessions

\* The bridge and the gossip tasks leave alone what the loop promises about.
LEMMA OthersKeepLoop ==
  ASSUME TypeOK, LoopInv, Bridge \/ CtrlC \/ GossipTasks
  PROVE  LoopInv'
<1> USE DEF loopVars, hubVars, taskVars, textVars, outVars
<1> DEFINE
      Same ==
        /\ UNCHANGED <<pc, cur, rooms, welcome, outbound, announcing>>
        /\ \A s \in Sessions : [by |-> s, frame |-> RoomClosed] \in sent'
                               <=> [by |-> s, frame |-> RoomClosed] \in sent
<1>1. Same
  <2>1. ASSUME NEW c \in Commands, SendCommand(c) PROVE Same
    BY <2>1 DEF SendCommand
  <2>2. ASSUME NEW k \in Clients, NEW m \in LocalMsgs, TakeSender(k, m) PROVE Same
    BY <2>2 DEF TakeSender
  <2>3. ASSUME NEW k \in Clients, SendBody(k) PROVE Same
    BY <2>3 DEF SendBody
  <2>4. CASE BridgeFails \/ CtrlC
    BY <2>4 DEF BridgeFails, CtrlC
  <2>5. ASSUME NEW t \in Sessions, SendTask(t) PROVE Same
    <3>1. CASE Broadcast(t)
      BY <3>1, ChatIsNotClose DEF Broadcast
    <3>2. CASE SendTurn(t) \/ SendEnds(t) \/ SendCancelled(t)
      BY <3>2 DEF SendTurn, SendEnds, SendCancelled
    <3> QED
      BY <2>5, <3>1, <3>2 DEF SendTask
  <2>6. ASSUME NEW t \in Sessions, RecvTask(t) PROVE Same
    BY <2>6 DEF RecvTask, RecvClosed, RecvEnds, RecvReturns, RecvChat
  <2> QED
    BY <2>1, <2>2, <2>3, <2>4, <2>5, <2>6 DEF Bridge, GossipTasks
<1> QED
  BY <1>1 DEF LoopInv, HubFollowsLoop, AnnouncesOnlyItsRoom, CloseAnnounced, Left,
              OnlyHostsClose

LEMMA LoopKeepsLoop ==
  ASSUME TypeOK, LoopInv, PeerLoop
  PROVE  LoopInv'
<1> USE ServeAssumption
<1> USE DEF LoopInv, HubFollowsLoop, AnnouncesOnlyItsRoom, CloseAnnounced, Left,
            OnlyHostsClose, loopVars, hubVars, taskVars, textVars, outVars, Sessions
<1>0. cur \in Int /\ (pc \in {"subscribe", "room", "closing", "after"} => cur \in Sessions)
  BY DEF TypeOK
<1>1. CASE LoopTop \/ IdleCtrlC \/ IdleBridgeGone \/ IdleIgnores
  BY <1>0, <1>1 DEF LoopTop, IdleCtrlC, IdleBridgeGone, IdleIgnores
<1>2. CASE IdleStarts
  <2>1. rooms \in [Sessions -> [host : BOOLEAN, topic : Topics \cup {NoTopic}]]
    BY DEF TypeOK
  <2>2. pc = "idle" /\ pc' = "subscribe" /\ cur' = cur + 1
    BY <1>2 DEF IdleStarts
  <2>3. \A s \in Sessions : s <= cur => rooms'[s] = rooms[s]
    BY <1>0, <1>2, <2>1 DEF IdleStarts
  <2>4. HubFollowsLoop'
    BY <1>2 DEF IdleStarts, StartRoom
  <2>5. AnnouncesOnlyItsRoom'
    BY <1>2, <2>2 DEF IdleStarts
  <2>6. CloseAnnounced'
    <3>1. sent' = sent
      BY <1>2 DEF IdleStarts
    <3>2. \A s \in Sessions : Left(s)' <=> Left(s)
      BY <1>0, <2>2
    <3>3. \A s \in Sessions : Left(s) => rooms'[s] = rooms[s]
      BY <1>0, <2>3
    <3> QED
      BY <3>1, <3>2, <3>3
  <2> QED
    BY <2>2, <2>4, <2>5, <2>6
<1>3. CASE Subscribed
  <2>1. pc = "subscribe" /\ pc' = "room" /\ UNCHANGED <<cur, rooms, sent, outbound>>
    BY <1>3 DEF Subscribed
  <2>2. HubFollowsLoop' /\ AnnouncesOnlyItsRoom'
    BY <1>0, <1>3, <2>1 DEF Subscribed
  <2> QED
    BY <1>0, <2>1, <2>2
<1>4. CASE SubscribeFails \/ Drained
  BY <1>0, <1>4 DEF SubscribeFails, Drained, ProcessEnds
<1>5. CASE SpawnGossip
  BY <1>0, <1>5 DEF SpawnGossip
<1>6. CASE GossipEnds \/ RoomCtrlC \/ RoomCommand \/ RoomBridgeGone
  <2>1. /\ pc = "room" /\ pc' = IF rooms[cur].host THEN "closing" ELSE "after"
        /\ UNCHANGED <<cur, rooms, sent, welcome, outbound, announcing>>
    BY <1>6 DEF GossipEnds, RoomCtrlC, RoomCommand, RoomBridgeGone, LeaveSelect
  <2>2. CASE rooms[cur].host
    BY <1>0, <2>1, <2>2
  <2>3. CASE ~rooms[cur].host
    BY <1>0, <2>1, <2>3
  <2> QED
    BY <2>2, <2>3
<1>7. CASE CloseBroadcast
  <2>1. /\ pc = "closing" /\ pc' = "after" /\ rooms[cur].host
        /\ sent' = sent \cup {[by |-> cur, frame |-> RoomClosed]}
        /\ UNCHANGED <<cur, rooms, welcome, outbound, announcing>>
    BY <1>7 DEF CloseBroadcast
  <2>2. CloseAnnounced'
    <3> TAKE s \in Sessions
    <3>1. CASE s = cur
      BY <1>0, <2>1, <3>1
    <3>2. CASE s # cur
      <4>1. [by |-> s, frame |-> RoomClosed] # [by |-> cur, frame |-> RoomClosed]
        BY <3>2
      <4> QED
        BY <1>0, <2>1, <3>2, <4>1
    <3> QED
      BY <3>1, <3>2
  <2> QED
    BY <2>1, <2>2
<1>8. CASE RoomLeft \/ RoomExits
  BY <1>0, <1>8 DEF RoomLeft, RoomExits, EndRoom
<1> QED
  BY <1>1, <1>2, <1>3, <1>4, <1>5, <1>6, <1>7, <1>8 DEF PeerLoop

\* The loop's invariant: the three properties and what makes them inductive.
THEOREM LoopInvariant == Spec => []LoopInv
<1>1. Init => LoopInv
  BY InitLoop
<1>2. TypeOK /\ LoopInv /\ [Next]_vars => LoopInv'
  <2> SUFFICES ASSUME TypeOK, LoopInv, [Next]_vars PROVE LoopInv'
    OBVIOUS
  <2>1. CASE Next
    BY <2>1, OthersKeepLoop, LoopKeepsLoop DEF Next
  <2>2. CASE UNCHANGED vars
    BY <2>2 DEF vars, loopVars, hubVars, outVars, LoopInv, HubFollowsLoop,
                AnnouncesOnlyItsRoom, CloseAnnounced, Left, OnlyHostsClose
  <2> QED
    BY <2>1, <2>2
<1> QED
  BY <1>1, <1>2, TypeCorrect, PTL DEF Spec

\* The hub offers the sender and the welcome of the loop's room, in its time.
THEOREM HubCorrect == Spec => []HubFollowsLoop
<1>1. LoopInv => HubFollowsLoop
  BY DEF LoopInv
<1> QED
  BY <1>1, LoopInvariant, PTL

\* The registry is told of no room but the one the loop hosts now.
THEOREM ListingCorrect == Spec => []AnnouncesOnlyItsRoom
<1>1. LoopInv => AnnouncesOnlyItsRoom
  BY DEF LoopInv
<1> QED
  BY <1>1, LoopInvariant, PTL

\* Every hosted room left, however it was left, was announced as closed.
THEOREM CloseCorrect == Spec => []CloseAnnounced
<1>1. LoopInv => CloseAnnounced
  BY DEF LoopInv
<1> QED
  BY <1>1, LoopInvariant, PTL

-----------------------------------------------------------------------------
(* A text keeps to its room: wherever it waits between the WebSocket and the *)
(* gossip topic, it was typed in the session that holds it.                  *)

Owned(s) == {m \in LocalMsgs : [by |-> s, msg |-> m] \in typed}

TextInv ==
  /\ \A k \in Clients : held[k] # NoHeld => held[k].msg \in Owned(held[k].sess)
  /\ \A s \in Sessions : chan[s] \in Seq(Owned(s))
  /\ \A s \in Sessions : hold[s] \in Owned(s) \cup {NoMsg}
  /\ TextStaysInRoom

LEMMA SeqMonotone ==
  ASSUME NEW S, NEW T, S \subseteq T, NEW q \in Seq(S)
  PROVE  q \in Seq(T)
  OBVIOUS

LEMMA InitText == Init => TextInv
  BY DEF Init, TextInv, TextStaysInRoom, NoHeld

LEMMA BridgeKeepsText ==
  ASSUME TypeOK, TextInv, Bridge \/ CtrlC
  PROVE  TextInv'
<1> USE DEF loopVars, hubVars, taskVars, textVars, outVars
<1>1. ASSUME NEW c \in Commands, SendCommand(c) PROVE TextInv'
  BY <1>1 DEF SendCommand, TextInv, Owned, TextStaysInRoom
<1>2. ASSUME NEW k \in Clients, NEW m \in LocalMsgs, TakeSender(k, m) PROVE TextInv'
  <2>1. /\ typed' = typed \cup {[by |-> outbound, msg |-> m]}
        /\ UNCHANGED <<chan, hold, sent>>
    BY <1>2 DEF TakeSender
  <2>2. \A s : Owned(s) \subseteq Owned(s)'
    BY <2>1 DEF Owned
  <2>3. \A j \in Clients : held'[j] # NoHeld => (held[j].msg \in Owned(held[j].sess))'
    <3> SUFFICES ASSUME NEW j \in Clients, held'[j] # NoHeld
                 PROVE  (held[j].msg \in Owned(held[j].sess))'
      OBVIOUS
    <3>1. CASE held'[j] = held[j]
      BY <2>2, <3>1 DEF TextInv
    <3>2. CASE held'[j] = [sess |-> outbound, msg |-> m]
      BY <2>1, <3>2 DEF Owned
    <3> QED
      BY <1>2, <3>1, <3>2 DEF TakeSender, TypeOK
  <2>4. \A s \in Sessions : (chan[s] \in Seq(Owned(s)))'
    BY <2>1, <2>2, SeqMonotone DEF TextInv
  <2>5. \A s \in Sessions : (hold[s] \in Owned(s) \cup {NoMsg})'
    BY <2>1, <2>2 DEF TextInv
  <2>6. TextStaysInRoom'
    BY <2>1 DEF TextInv, TextStaysInRoom
  <2> QED
    BY <2>3, <2>4, <2>5, <2>6 DEF TextInv
<1>3. ASSUME NEW k \in Clients, SendBody(k) PROVE TextInv'
  <2> DEFINE t == held[k].sess
             q == Append(chan[t], held[k].msg)
  <2>1. /\ held[k] # NoHeld /\ held' = [held EXCEPT ![k] = NoHeld]
        /\ UNCHANGED <<typed, hold, sent>>
        /\ chan' = chan \/ chan' = [chan EXCEPT ![t] = q]
    BY <1>3 DEF SendBody
  <2>2. t \in Sessions /\ held[k].msg \in Owned(t)
    <3>1. held[k] \in {NoHeld} \cup [sess : Sessions, msg : LocalMsgs]
      BY DEF TypeOK
    <3> QED
      BY <2>1, <3>1 DEF TextInv
  <2>3. q \in Seq(Owned(t))
    BY <2>2 DEF TextInv
  <2>4. \A s \in Sessions : chan'[s] \in Seq(Owned(s))
    <3> HIDE DEF q, t
    <3> TAKE s \in Sessions
    <3>1. chan'[s] = chan[s] \/ (s = t /\ chan'[s] = q)
      BY <2>1 DEF TypeOK
    <3> QED
      BY <2>3, <3>1 DEF TextInv
  <2>5. \A j \in Clients : held'[j] = NoHeld \/ held'[j] = held[j]
    BY <2>1 DEF TypeOK
  <2>6. \A s : Owned(s)' = Owned(s)
    BY <2>1 DEF Owned
  <2> HIDE DEF q, t
  <2> QED
    BY <2>1, <2>4, <2>5, <2>6 DEF TextInv, TextStaysInRoom
<1>4. CASE BridgeFails
  BY <1>4 DEF BridgeFails, TextInv, Owned, TextStaysInRoom
<1>5. CASE CtrlC
  BY <1>5 DEF CtrlC, TextInv, Owned, TextStaysInRoom
<1> QED
  BY <1>1, <1>2, <1>3, <1>4, <1>5 DEF Bridge

\* What a step that only empties channels and drops senders does to the texts.
Shrinks ==
  /\ typed' = typed
  /\ \A k \in Clients : held'[k] = held[k] \/ held'[k] = NoHeld
  /\ \A t \in Sessions : hold'[t] = hold[t] \/ hold'[t] = NoMsg
  /\ \A t \in Sessions : chan'[t] = chan[t] \/ chan'[t] = <<>>
  /\ \A f \in sent' : f \in sent \/ f.frame = RoomClosed

LEMMA ShrinkKeepsText ==
  ASSUME TextInv, Shrinks
  PROVE  TextInv'
<1>1. \A t : Owned(t)' = Owned(t)
  BY DEF Shrinks, Owned
<1>2. \A t \in Sessions : (chan[t] \in Seq(Owned(t)))'
  <2> TAKE t \in Sessions
  <2>1. <<>> \in Seq(Owned(t))
    OBVIOUS
  <2>2. chan[t] \in Seq(Owned(t))
    BY DEF TextInv
  <2>3. chan'[t] \in Seq(Owned(t))
    BY <2>1, <2>2 DEF Shrinks
  <2> QED
    BY <2>3, <1>1
<1>3. \A k \in Clients : (held[k] # NoHeld => held[k].msg \in Owned(held[k].sess))'
  BY <1>1 DEF TextInv, Shrinks
<1>4. \A t \in Sessions : (hold[t] \in Owned(t) \cup {NoMsg})'
  <2> TAKE t \in Sessions
  <2>1. hold[t] \in Owned(t) \cup {NoMsg}
    BY DEF TextInv
  <2>2. hold'[t] = hold[t] \/ hold'[t] = NoMsg
    BY DEF Shrinks
  <2> QED
    BY <1>1, <2>1, <2>2
<1>5. TextStaysInRoom'
  BY DEF TextInv, Shrinks, TextStaysInRoom
<1> QED
  BY <1>2, <1>3, <1>4, <1>5 DEF TextInv

LEMMA TasksKeepText ==
  ASSUME TypeOK, TextInv, GossipTasks
  PROVE  TextInv'
<1> USE DEF loopVars, hubVars, taskVars, textVars, outVars
<1>1. PICK s \in Sessions : SendTask(s) \/ RecvTask(s)
  BY DEF GossipTasks
<1>2. CASE SendTurn(s)
  <2>1. /\ UNCHANGED <<held, typed, sent>> /\ chan[s] # <<>>
        /\ hold' = [hold EXCEPT ![s] = Head(chan[s])]
        /\ chan' = [chan EXCEPT ![s] = Tail(@)]
    BY <1>2 DEF SendTurn
  <2>2. chan[s] \in Seq(Owned(s))
    BY DEF TextInv
  <2>3. Head(chan[s]) \in Owned(s) /\ Tail(chan[s]) \in Seq(Owned(s))
    BY <2>1, <2>2
  <2>4. \A t : Owned(t)' = Owned(t)
    BY <2>1 DEF Owned
  <2>5. \A t \in Sessions : (chan[t] \in Seq(Owned(t)))'
    <3> TAKE t \in Sessions
    <3>1. chan'[t] = chan[t] \/ (t = s /\ chan'[t] = Tail(chan[s]))
      BY <2>1 DEF TypeOK
    <3> QED
      BY <2>3, <2>4, <3>1 DEF TextInv
  <2>6. \A t \in Sessions : (hold[t] \in Owned(t) \cup {NoMsg})'
    BY <2>1, <2>3, <2>4 DEF TextInv, TypeOK
  <2> QED
    BY <2>1, <2>4, <2>5, <2>6 DEF TextInv, TextStaysInRoom
<1>3. CASE Broadcast(s)
  <2>1. /\ UNCHANGED <<held, typed, chan>>
        /\ hold' = [hold EXCEPT ![s] = NoMsg] /\ hold[s] # NoMsg
        /\ sent' = sent \cup {[by |-> s, frame |-> Chat(hold[s])]}
    BY <1>3 DEF Broadcast
  <2>2. \A t : Owned(t)' = Owned(t)
    BY <2>1 DEF Owned
  <2>3. [by |-> s, msg |-> hold[s]] \in typed
    BY <2>1 DEF TextInv, Owned
  <2>4. TextStaysInRoom'
    BY <2>1, <2>3 DEF TextInv, TextStaysInRoom, Chat
  <2>5. \A t \in Sessions : hold'[t] = hold[t] \/ hold'[t] = NoMsg
    BY <2>1 DEF TypeOK
  <2> QED
    BY <2>1, <2>2, <2>4, <2>5 DEF TextInv
<1>4. CASE SendEnds(s)
  BY <1>4 DEF SendEnds, TextInv, Owned, TextStaysInRoom
<1>5. CASE SendCancelled(s)
  <2>1. Shrinks
    BY <1>5 DEF SendCancelled, TypeOK, Shrinks
  <2> QED
    BY <2>1, ShrinkKeepsText
<1>6. CASE RecvTask(s)
  BY <1>6 DEF RecvTask, RecvClosed, RecvEnds, RecvReturns, RecvChat, TextInv, Owned,
              TextStaysInRoom
<1> QED
  BY <1>1, <1>2, <1>3, <1>4, <1>5, <1>6 DEF SendTask

\* The loop types nothing: it can only empty a channel or drop a sender.
LEMMA LoopKeepsText ==
  ASSUME TypeOK, TextInv, PeerLoop
  PROVE  TextInv'
<1> USE DEF loopVars, hubVars, taskVars, textVars, outVars
<1>1. CASE \/ LoopTop \/ IdleCtrlC \/ IdleBridgeGone \/ IdleIgnores \/ IdleStarts
           \/ Subscribed \/ SpawnGossip \/ GossipEnds \/ RoomLeft \/ RoomExits
  <2>1. UNCHANGED <<typed, held, hold, chan, sent>>
    BY <1>1 DEF LoopTop, IdleCtrlC, IdleBridgeGone, IdleIgnores, IdleStarts, Subscribed,
                SpawnGossip, GossipEnds, LeaveSelect, RoomLeft, RoomExits
  <2> QED
    BY <2>1 DEF TextInv, Owned, TextStaysInRoom
<1>2. CASE SubscribeFails \/ Drained
  <2>1. Shrinks
    BY <1>2 DEF SubscribeFails, Drained, ProcessEnds, Shrinks
  <2> QED
    BY <2>1, ShrinkKeepsText
<1>3. CASE RoomCtrlC \/ RoomCommand \/ RoomBridgeGone
  <2>1. DropGossip /\ UNCHANGED <<typed, held, sent>>
    BY <1>3 DEF RoomCtrlC, RoomCommand, RoomBridgeGone, LeaveSelect
  <2>2. \/ UNCHANGED <<hold, chan>>
        \/ hold' = hold /\ chan' = [chan EXCEPT ![cur] = <<>>]
    BY <2>1 DEF DropGossip
  <2>3. Shrinks
    BY <2>1, <2>2 DEF TypeOK, Shrinks
  <2> QED
    BY <2>3, ShrinkKeepsText
<1>4. CASE CloseBroadcast
  <2>1. Shrinks
    BY <1>4 DEF CloseBroadcast, Shrinks
  <2> QED
    BY <2>1, ShrinkKeepsText
<1> QED
  BY <1>1, <1>2, <1>3, <1>4 DEF PeerLoop

\* Wherever a text waits, it was typed in the session that holds it.
THEOREM TextInvariant == Spec => []TextInv
<1>1. Init => TextInv
  BY InitText
<1>2. TypeOK /\ TextInv /\ [Next]_vars => TextInv'
  <2> SUFFICES ASSUME TypeOK, TextInv, [Next]_vars PROVE TextInv'
    OBVIOUS
  <2>1. CASE Next
    BY <2>1, BridgeKeepsText, TasksKeepText, LoopKeepsText DEF Next
  <2>2. CASE UNCHANGED vars
    BY <2>2 DEF vars, taskVars, textVars, outVars, TextInv, Owned, TextStaysInRoom
  <2> QED
    BY <2>1, <2>2
<1> QED
  BY <1>1, <1>2, TypeCorrect, PTL DEF Spec

\* A text goes out only on the topic of the room it was typed in, for any
\* number of clients, rooms and texts, and any capacity of the channels.
THEOREM TextCorrect == Spec => []TextStaysInRoom
<1>1. TextInv => TextStaysInRoom
  BY DEF TextInv
<1> QED
  BY <1>1, TextInvariant, PTL

-----------------------------------------------------------------------------
(* The serve process implements RoomLifecycle: each of its steps is a step  *)
(* of a room's life or leaves all that others rely on alone.                *)


Host == IF cur = 0 THEN FALSE ELSE rooms[cur].host
Told == {s \in Sessions : [by |-> s, frame |-> RoomClosed] \in sent}

LEMMA PhaseValues ==
  /\ PhaseOf["top"] = "idle" /\ PhaseOf["idle"] = "idle"
  /\ PhaseOf["subscribe"] = "setup"
  /\ PhaseOf["room"] = "open" /\ PhaseOf["closing"] = "open"
  /\ PhaseOf["after"] = "left" /\ PhaseOf["draining"] = "ending"
  /\ PhaseOf["exited"] = "stopped" /\ PhaseOf["crashed"] = "stopped"
BY DEF PhaseOf, PcStates

LEMMA InitImplements == Init => Lifecycle!Init
BY PhaseValues DEF Init, Lifecycle!Init

\* What a step that is none of a room's life leaves alone.
LEMMA Stutters ==
  ASSUME UNCHANGED <<PhaseOf[pc], cur, rooms, welcome, outbound, announcing, Told>>
  PROVE  UNCHANGED Lifecycle!vars
BY DEF Lifecycle!vars, Told

\* A frame that is a text tells no guest of an end.
LEMMA TextsTellNothing ==
  ASSUME NEW s, NEW m, sent' = sent \cup {[by |-> s, frame |-> Chat(m)]}
  PROVE  UNCHANGED Told
BY ChatIsNotClose DEF Told

LEMMA OthersStutter ==
  ASSUME Bridge \/ CtrlC \/ GossipTasks
  PROVE  UNCHANGED Lifecycle!vars
<1> USE DEF loopVars, hubVars, taskVars, textVars, outVars
<1>1. UNCHANGED <<pc, cur, rooms, welcome, outbound, announcing>>
  BY DEF Bridge, SendCommand, TakeSender, SendBody, BridgeFails, CtrlC, GossipTasks,
         SendTask, SendTurn, Broadcast, SendEnds, SendCancelled,
         RecvTask, RecvClosed, RecvEnds, RecvReturns, RecvChat
<1>2. UNCHANGED Told
  <2>1. CASE UNCHANGED sent
    BY <2>1 DEF Told
  <2>2. ASSUME NEW s \in Sessions, Broadcast(s) PROVE UNCHANGED Told
    BY <2>2, TextsTellNothing DEF Broadcast
  <2> QED
    BY <2>1, <2>2
       DEF Bridge, SendCommand, TakeSender, SendBody, BridgeFails, CtrlC, GossipTasks,
           SendTask, SendTurn, SendEnds, SendCancelled,
           RecvTask, RecvClosed, RecvEnds, RecvReturns, RecvChat
<1> QED
  BY <1>1, <1>2, Stutters

LEMMA LoopImplements ==
  ASSUME TypeOK, LoopInv, PeerLoop
  PROVE  [Lifecycle!Next]_(Lifecycle!vars)
<1> USE PhaseValues DEF loopVars, hubVars, taskVars, textVars, outVars
<1>0. /\ pc \in PcStates /\ cur \in 0 .. MaxSessions /\ MaxSessions \in Nat
      /\ pc \in {"subscribe", "room", "closing", "after"} => cur \in Sessions /\ cur # 0
      /\ rooms \in [Sessions -> [host : BOOLEAN, topic : Topics \cup {NoTopic}]]
      /\ announcing \subseteq Sessions
  BY ServeAssumption DEF TypeOK, Sessions
<1>1. CASE LoopTop \/ IdleCtrlC \/ IdleBridgeGone
  <2>1. /\ pc \in {"top", "idle"} /\ pc' \in {"idle", "draining"}
        /\ UNCHANGED <<cur, rooms, welcome, outbound, announcing, sent>>
    BY <1>1 DEF LoopTop, IdleCtrlC, IdleBridgeGone
  <2>2. announcing = {}
    BY <1>0, <2>1 DEF LoopInv, AnnouncesOnlyItsRoom
  <2>3. CASE pc' = "idle"
    BY <2>1, <2>3, Stutters DEF Told
  <2>4. CASE pc' = "draining"
    BY <2>1, <2>2, <2>4 DEF Lifecycle!Next, Lifecycle!Finish
  <2> QED
    BY <2>1, <2>3, <2>4
<1>2. CASE IdleIgnores
  BY <1>2, Stutters DEF IdleIgnores, Told
<1>3. CASE IdleStarts
  <2>1. /\ pc = "idle" /\ pc' = "subscribe" /\ cur' = cur + 1
        /\ cur + 1 \in Sessions /\ cur' # 0
        /\ rooms' = [rooms EXCEPT ![cur + 1] =
                       [host |-> Head(cmdq).cmd = "open", topic |-> Head(cmdq).topic]]
        /\ outbound' = cur + 1 /\ welcome' = 0
        /\ UNCHANGED <<announcing, sent>>
    BY <1>0, <1>3 DEF IdleStarts, StartRoom, Sessions
  <2>2. welcome = 0
    BY <2>1 DEF LoopInv, HubFollowsLoop
  <2>3. rooms'[cur'].host \in BOOLEAN
    BY <1>0, <2>1
  <2> QED
    BY <2>1, <2>2, <2>3 DEF Lifecycle!Next, Lifecycle!Begin
<1>4. CASE Subscribed
  <2>1. announcing = {}
    BY <1>0, <1>4 DEF Subscribed, LoopInv, AnnouncesOnlyItsRoom
  <2> QED
    BY <1>0, <1>4, <2>1 DEF Subscribed, Lifecycle!Next, Lifecycle!Open
<1>5. CASE SubscribeFails \/ Drained
  BY <1>5 DEF SubscribeFails, Drained, ProcessEnds, Lifecycle!Next, Lifecycle!Stop
<1>6. CASE SpawnGossip
  BY <1>6, Stutters DEF SpawnGossip, Told
<1>7. CASE GossipEnds \/ RoomCtrlC \/ RoomCommand \/ RoomBridgeGone
  <2>1. /\ pc = "room" /\ pc' = IF rooms[cur].host THEN "closing" ELSE "after"
        /\ UNCHANGED <<cur, rooms, sent, welcome, outbound, announcing>>
    BY <1>7 DEF GossipEnds, RoomCtrlC, RoomCommand, RoomBridgeGone, LeaveSelect
  <2>2. CASE rooms[cur].host
    BY <2>1, <2>2, Stutters DEF Told
  <2>3. CASE ~rooms[cur].host
    BY <1>0, <2>1, <2>3 DEF Lifecycle!Next, Lifecycle!Leave
  <2> QED
    BY <2>2, <2>3
<1>8. CASE CloseBroadcast
  <2>1. /\ pc = "closing" /\ pc' = "after" /\ rooms[cur].host /\ cur \in Sessions /\ cur # 0
        /\ sent' = sent \cup {[by |-> cur, frame |-> RoomClosed]}
        /\ UNCHANGED <<cur, rooms, welcome, outbound, announcing>>
    BY <1>0, <1>8 DEF CloseBroadcast, LoopInv, OnlyHostsClose
  <2>2. Told' = Told \cup {cur}
    <3>1. \A s \in Sessions : s # cur =>
            [by |-> s, frame |-> RoomClosed] # [by |-> cur, frame |-> RoomClosed]
      OBVIOUS
    <3> QED
      BY <2>1, <3>1 DEF Told
  <2> QED
    BY <2>1, <2>2 DEF Told, Lifecycle!Next, Lifecycle!Leave
<1>9. CASE RoomLeft \/ RoomExits
  <2>1. announcing \ {cur} = {}
    BY <1>0, <1>9 DEF RoomLeft, RoomExits, LoopInv, AnnouncesOnlyItsRoom
  <2>2. CASE RoomLeft
    BY <2>1, <2>2 DEF RoomLeft, EndRoom, Lifecycle!Next, Lifecycle!End
  <2>3. CASE RoomExits
    BY <2>1, <2>3 DEF RoomExits, Lifecycle!Next, Lifecycle!Finish
  <2> QED
    BY <1>9, <2>2, <2>3
<1> QED
  BY <1>1, <1>2, <1>3, <1>4, <1>5, <1>6, <1>7, <1>8, <1>9 DEF PeerLoop

\* A serve process keeps the promises of RoomLifecycle: rooms one by one, listed,
\* offered and fed in their own time, and guests told before a hosted room is over.
THEOREM LifecycleCorrect == Spec => ImplementsLifecycle
<1>1. Init => Lifecycle!Init
  BY InitImplements
<1>2. TypeOK /\ LoopInv /\ [Next]_vars => [Lifecycle!Next]_(Lifecycle!vars)
  <2> SUFFICES ASSUME TypeOK, LoopInv, [Next]_vars
               PROVE  [Lifecycle!Next]_(Lifecycle!vars)
    OBVIOUS
  <2>1. CASE PeerLoop
    BY <2>1, LoopImplements
  <2>2. CASE Bridge \/ CtrlC \/ GossipTasks
    BY <2>2, OthersStutter
  <2>3. CASE UNCHANGED vars
    BY <2>3, Stutters DEF vars, loopVars, hubVars, outVars, Told
  <2> QED
    BY <2>1, <2>2, <2>3 DEF Next
<1>3. Spec => []LoopInv
  BY LoopInvariant
<1> QED
  BY <1>1, <1>2, <1>3, TypeCorrect, PTL DEF Spec, ImplementsLifecycle, Lifecycle!Spec
=============================================================================
