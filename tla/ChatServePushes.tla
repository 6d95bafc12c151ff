-------------------------- MODULE ChatServePushes --------------------------
(***************************************************************************)
(* The history of the serve process holds no entry twice, for every number *)
(* of sessions, clients and messages and every capacity, however often and *)
(* in whatever order gossip delivers.                                      *)
(***************************************************************************)
EXTENDS ChatServeProofs

Places(q) == 1 .. Len(q)
Entries   == [by : Sessions, msg : Msgs]

LEMMA ElementOfSeq ==
  ASSUME NEW E, NEW q \in Seq(E), NEW i \in Places(q)
  PROVE  q[i] \in E
  BY DEF Places

LEMMA EntryType ==
  ASSUME TypeOK, NEW i \in Places(history)
  PROVE  history[i] \in Entries /\ history[i].by \in Sessions /\ history[i].msg \in Msgs
<1>1. history \in Seq(Entries)
  BY DEF TypeOK, Entries
<1>2. history[i] \in Entries
  BY <1>1, ElementOfSeq
<1> QED
  BY <1>2 DEF Entries

\* Dropping the oldest entries keeps the others apart and adds none.
LEMMA TrimKeeps ==
  ASSUME NEW E, NEW h \in Seq(E)
  PROVE  /\ \A i \in Places(Trim(h)) : \E j \in Places(h) : Trim(h)[i] = h[j]
         /\ (\A i, j \in Places(h) : h[i] = h[j] => i = j)
              => \A i, j \in Places(Trim(h)) : Trim(h)[i] = Trim(h)[j] => i = j
<1> USE DEF Places
<1>1. CASE Len(h) <= MaxHistory
  BY <1>1, ServeAssumption DEF Trim
<1>2. CASE Len(h) > MaxHistory
  <2> DEFINE a == Len(h) - MaxHistory
             t == SubSeq(h, a + 1, Len(h))
  <2>1. a \in Nat /\ Len(h) \in Nat /\ Len(h) - a = MaxHistory /\ MaxHistory \in Nat
    BY <1>2, ServeAssumption
  <2>2. Len(t) = MaxHistory /\ \A i \in 1 .. MaxHistory : t[i] = h[a + i]
    BY <2>1
  <2>3. \A i \in 1 .. MaxHistory : a + i \in 1 .. Len(h)
    BY <2>1
  <2>4. Trim(h) = t
    BY <1>2, <2>1 DEF Trim
  <2> HIDE DEF a, t
  <2> QED
    BY <2>1, <2>2, <2>3, <2>4
<1> QED
  BY <1>1, <1>2, ServeAssumption

\* A push adds one entry, and keeps the history free of repetitions if that
\* entry was not in it.
LEMMA PushKeeps ==
  ASSUME TypeOK, NEW s \in Sessions, NEW m \in Msgs, Push(s, m)
  PROVE  /\ \A i \in Places(history') :
              history'[i] = [by |-> s, msg |-> m] \/ \E j \in Places(history) : history'[i] = history[j]
         /\ PushedOnce /\ (\A j \in Places(history) : history[j] # [by |-> s, msg |-> m])
              => PushedOnce'
<1> DEFINE e == [by |-> s, msg |-> m]
           h == Append(history, e)
<1>1. history \in Seq([by : Sessions, msg : Msgs]) /\ e \in [by : Sessions, msg : Msgs]
  BY DEF TypeOK
<1>2. /\ h \in Seq([by : Sessions, msg : Msgs])
      /\ Len(h) = Len(history) + 1 /\ Len(history) \in Nat
      /\ h[Len(h)] = e /\ \A j \in Places(history) : h[j] = history[j]
  BY <1>1 DEF Places
<1>3. history' = Trim(h)
  BY DEF Push
<1> HIDE DEF e, h
<1>4. \A i \in Places(h) : i = Len(h) \/ i \in Places(history)
  BY <1>2 DEF Places
<1>5. \A i \in Places(history') : history'[i] = e \/ \E j \in Places(history) : history'[i] = history[j]
  BY <1>2, <1>3, <1>4, TrimKeeps
<1>6. ASSUME PushedOnce, \A j \in Places(history) : history[j] # e PROVE PushedOnce'
  <2>1. \A i, j \in Places(h) : h[i] = h[j] => i = j
    BY <1>2, <1>4, <1>6 DEF PushedOnce, Places
  <2>2. \A i, j \in Places(Trim(h)) : Trim(h)[i] = Trim(h)[j] => i = j
    BY <1>2, <2>1, TrimKeeps
  <2> QED
    BY <1>3, <2>2 DEF PushedOnce, Places
<1> QED
  BY <1>5, <1>6 DEF e

-----------------------------------------------------------------------------
(* The invariant.  A local text is typed once, and is then in one place: in *)
(* a handler's hands, in a channel, or pushed.  A remote message is in the  *)
(* history of its session only if that session's receiver has seen it, as   *)
(* long as the receiver runs; it runs once.                                 *)

TypedOnce == \A t, u \in typed : t.msg = u.msg => t = u

WaitsOnce ==
  /\ \A j, k \in Clients : held[j] # NoHeld /\ held[j].msg = held[k].msg => j = k
  /\ \A s \in Sessions : \A i, j \in Places(chan[s]) : chan[s][i] = chan[s][j] => i = j
  /\ \A k \in Clients, s \in Sessions : \A i \in Places(chan[s]) : chan[s][i] # held[k].msg

\* What the tasks know of an entry that is in the history.
Accounted(e) ==
  /\ e.msg \in LocalMsgs =>
       /\ e \in typed
       /\ \A k \in Clients : held[k].msg # e.msg
       /\ \A s \in Sessions : \A i \in Places(chan[s]) : chan[s][i] # e.msg
  /\ e.msg \in RemoteMsgs =>
       /\ recvTask[e.by] # "none"
       /\ recvTask[e.by] = "run" => e.msg \in seen[e.by]

PushInv ==
  TypedOnce /\ WaitsOnce /\ (\A i \in Places(history) : Accounted(history[i])) /\ PushedOnce

LEMMA InitPush == Init => PushInv
<1> SUFFICES ASSUME Init PROVE PushInv
  OBVIOUS
<1>1. TypedOnce /\ PushedOnce /\ Places(history) = {}
  BY DEF Init, TypedOnce, PushedOnce, Places
<1>2. WaitsOnce
  BY DEF Init, WaitsOnce, NoHeld, Places
<1> QED
  BY <1>1, <1>2 DEF PushInv

\* Steps that only take texts away, clear the history or end a receiver.
Settles ==
  /\ typed' = typed /\ history' \in {history, <<>>}
  /\ \A k \in Clients : held'[k] \in {held[k], NoHeld}
  /\ \A s \in Sessions : chan'[s] \in {chan[s], <<>>}
  /\ \A s \in Sessions : recvTask[s] # "none" =>
       /\ recvTask'[s] # "none"
       /\ recvTask'[s] = "run" => recvTask[s] = "run" /\ seen'[s] = seen[s]

\* A place that is left is one less to collide with; no text is "no message".
LEMMA SettleKeepsPush ==
  ASSUME TypeOK, TextInv, PushInv, Settles
  PROVE  PushInv'
<1>1. TypedOnce'
  BY DEF PushInv, TypedOnce, Settles
<1>2. \A s \in Sessions : chan'[s] = chan[s] \/ Places(chan'[s]) = {}
  BY DEF Settles, Places
<1>3. \A k \in Clients : held'[k] = held[k] \/ (held'[k] = NoHeld /\ held'[k].msg = NoMsg)
  BY DEF Settles, NoHeld
<1>4. \A s \in Sessions : \A i \in Places(chan[s]) : chan[s][i] \in LocalMsgs
  BY DEF TypeOK, Places
<1>5. \A k \in Clients : held[k] # NoHeld => held[k].msg \in LocalMsgs
  BY DEF TextInv, Owned
<1>6. NoMsg \notin LocalMsgs
  BY ServeAssumption
<1>7. WaitsOnce'
  <2>1. \A j, k \in Clients : held'[j] # NoHeld /\ held'[j].msg = held'[k].msg => j = k
    BY <1>3, <1>5, <1>6 DEF PushInv, WaitsOnce
  <2>2. \A s \in Sessions : \A i, j \in Places(chan'[s]) : chan'[s][i] = chan'[s][j] => i = j
    BY <1>2 DEF PushInv, WaitsOnce
  <2>3. \A k \in Clients, s \in Sessions : \A i \in Places(chan'[s]) : chan'[s][i] # held'[k].msg
    BY <1>2, <1>3, <1>4, <1>6 DEF PushInv, WaitsOnce
  <2> QED
    BY <2>1, <2>2, <2>3 DEF WaitsOnce, Places
<1>8. CASE history' = <<>>
  <2>1. Places(history)' = {} /\ PushedOnce'
    BY <1>8 DEF Places, PushedOnce
  <2> QED
    BY <1>1, <1>7, <2>1 DEF PushInv
<1>9. CASE history' = history
  <2>1. PushedOnce' /\ Places(history)' = Places(history)
    BY <1>9 DEF PushInv, PushedOnce, Places
  <2>2. ASSUME NEW i \in Places(history) PROVE Accounted(history[i])'
    <3>1. Accounted(history[i]) /\ history[i].by \in Sessions
      BY <2>2, EntryType DEF PushInv
    <3>2. history[i].msg \in LocalMsgs => \A k \in Clients : held'[k].msg # history[i].msg
      BY <1>3, <1>6, <3>1 DEF Accounted
    <3>3. history[i].msg \in LocalMsgs =>
            \A s \in Sessions : \A j \in Places(chan'[s]) : chan'[s][j] # history[i].msg
      BY <1>2, <3>1 DEF Accounted
    <3> QED
      BY <1>9, <3>1, <3>2, <3>3 DEF Accounted, Settles, Places
  <2> QED
    BY <1>1, <1>7, <2>1, <2>2 DEF PushInv
<1> QED
  BY <1>8, <1>9 DEF Settles

-----------------------------------------------------------------------------
(* The four steps that are more than that.                                 *)

\* The texts under way and those in the history have been typed.
LEMMA UnderWayIsTyped ==
  ASSUME TypeOK, TextInv, PushInv, NEW m \in LocalMsgs, \A t \in typed : t.msg # m
  PROVE  /\ \A k \in Clients : held[k].msg # m
         /\ \A s \in Sessions : \A i \in Places(chan[s]) : chan[s][i] # m
         /\ \A i \in Places(history) : history[i].msg # m
<1>1. \A k \in Clients : held[k].msg # m
  <2> TAKE k \in Clients
  <2>1. CASE held[k] = NoHeld
    BY <2>1, ServeAssumption DEF NoHeld
  <2>2. CASE held[k] # NoHeld
    BY <2>2 DEF TextInv, Owned
  <2> QED
    BY <2>1, <2>2
<1>2. ASSUME NEW s \in Sessions, NEW i \in Places(chan[s]) PROVE chan[s][i] # m
  <2>1. chan[s] \in Seq(Owned(s)) /\ i \in 1 .. Len(chan[s])
    BY DEF TextInv, Places
  <2>2. chan[s][i] \in Owned(s)
    BY <2>1
  <2> QED
    BY <2>2 DEF Owned
<1>3. \A i \in Places(history) : history[i].msg # m
  BY DEF PushInv, Accounted
<1> QED
  BY <1>1, <1>2, <1>3

LEMMA TakeSenderKeepsPush ==
  ASSUME TypeOK, TextInv, PushInv, NEW c \in Clients, NEW m \in LocalMsgs, TakeSender(c, m)
  PROVE  PushInv'
<1> USE DEF loopVars, hubVars, taskVars, outVars
<1>1. /\ typed' = typed \cup {[by |-> outbound, msg |-> m]}
      /\ \A k \in Clients : held'[k] = held[k]
                            \/ (k = c /\ held[c] = NoHeld /\ held'[c] = [sess |-> outbound, msg |-> m])
      /\ \A t \in typed : t.msg # m
      /\ UNCHANGED <<chan, history, recvTask, seen>>
  BY DEF TakeSender, TypeOK
<1>2. /\ \A k \in Clients : held[k].msg # m
      /\ \A s \in Sessions : \A i \in Places(chan[s]) : chan[s][i] # m
      /\ \A i \in Places(history) : history[i].msg # m
  BY <1>1, UnderWayIsTyped
<1>3. TypedOnce'
  BY <1>1 DEF PushInv, TypedOnce
<1>4. \A k \in Clients : held'[k].msg = held[k].msg \/ (k = c /\ held'[k].msg = m)
  BY <1>1
<1>5. WaitsOnce'
  <2>1. \A j, k \in Clients : held'[j] # NoHeld /\ held'[j].msg = held'[k].msg => j = k
    BY <1>1, <1>2, <1>4 DEF PushInv, WaitsOnce
  <2> QED
    BY <1>1, <1>2, <1>4, <2>1 DEF PushInv, WaitsOnce, Places
<1>6. \A i \in Places(history) : Accounted(history[i])'
  BY <1>1, <1>2, <1>4 DEF PushInv, Accounted, Places
<1>7. PushedOnce'
  BY <1>1 DEF PushInv, PushedOnce
<1> QED
  BY <1>1, <1>3, <1>5, <1>6, <1>7 DEF PushInv, Places

LEMMA SendBodyKeepsPush ==
  ASSUME TypeOK, TextInv, PushInv, NEW c \in Clients, SendBody(c)
  PROVE  PushInv'
<1> USE DEF loopVars, hubVars, outVars
<1> DEFINE s == held[c].sess
           m == held[c].msg
           q == Append(chan[s], m)
<1>1. /\ held[c] # NoHeld /\ held' = [held EXCEPT ![c] = NoHeld]
      /\ chan' = chan \/ chan' = [chan EXCEPT ![s] = q]
      /\ UNCHANGED <<typed, history, recvTask, seen>>
  BY DEF SendBody
<1>2. s \in Sessions /\ m \in LocalMsgs
  <2>1. held[c] \in {NoHeld} \cup [sess : Sessions, msg : LocalMsgs]
    BY DEF TypeOK
  <2> QED
    BY <1>1, <2>1
<1>3. /\ chan[s] \in Seq(LocalMsgs) /\ q \in Seq(LocalMsgs)
      /\ Len(chan[s]) \in Nat /\ Len(q) = Len(chan[s]) + 1
      /\ q[Len(q)] = m /\ \A i \in Places(chan[s]) : q[i] = chan[s][i]
      /\ \A i \in Places(q) : i = Len(q) \/ i \in Places(chan[s])
  BY <1>2 DEF TypeOK, Places
<1>4. /\ \A k \in Clients \ {c} : held'[k] = held[k] /\ held[k].msg # m
      /\ held'[c] = NoHeld /\ NoHeld.msg = NoMsg /\ NoMsg \notin LocalMsgs
  BY <1>1, ServeAssumption DEF TypeOK, PushInv, WaitsOnce, NoHeld
<1>5. /\ \A t \in Sessions : \A i \in Places(chan[t]) : chan[t][i] # m /\ chan[t][i] \in LocalMsgs
      /\ \A i \in Places(history) : history[i].msg # m
  BY <1>2 DEF PushInv, WaitsOnce, TypeOK, Accounted, Places
<1>6. \A t \in Sessions : chan'[t] = chan[t] \/ (t = s /\ chan'[t] = q)
  BY <1>1 DEF TypeOK
<1> HIDE DEF s, m, q
<1>7. \A t \in Sessions : \A i \in Places(chan'[t]) :
        chan'[t][i] = m \/ (i \in Places(chan[t]) /\ chan'[t][i] = chan[t][i])
  BY <1>3, <1>6
<1>8. WaitsOnce'
  <2>1. \A j, k \in Clients : held'[j] # NoHeld /\ held'[j].msg = held'[k].msg => j = k
    <3>1. \A j \in Clients : held[j] # NoHeld => held[j].msg \in LocalMsgs
      BY DEF TextInv, Owned
    <3> QED
      BY <1>4, <3>1 DEF PushInv, WaitsOnce
  <2>2. ASSUME NEW t \in Sessions, NEW i \in Places(chan'[t]), NEW j \in Places(chan'[t]),
               chan'[t][i] = chan'[t][j]
        PROVE  i = j
    <3>1. CASE chan'[t] = chan[t]
      BY <2>2, <3>1 DEF PushInv, WaitsOnce
    <3>2. CASE t = s /\ chan'[t] = q
      BY <1>3, <1>5, <2>2, <3>2 DEF PushInv, WaitsOnce
    <3> QED
      BY <1>6, <3>1, <3>2
  <2>3. ASSUME NEW k \in Clients, NEW t \in Sessions, NEW i \in Places(chan'[t])
        PROVE  chan'[t][i] # held'[k].msg
    BY <1>2, <1>4, <1>5, <1>7 DEF PushInv, WaitsOnce
  <2> QED
    BY <2>1, <2>2, <2>3 DEF WaitsOnce, Places
<1>9. \A i \in Places(history) : Accounted(history[i])'
  <2> TAKE i \in Places(history)
  <2>1. Accounted(history[i]) /\ history[i].msg # m
    BY <1>5 DEF PushInv
  <2>2. history[i].msg \in LocalMsgs =>
          /\ \A k \in Clients : held'[k].msg # history[i].msg
          /\ \A t \in Sessions : \A j \in Places(chan'[t]) : chan'[t][j] # history[i].msg
    BY <1>4, <1>7, <2>1 DEF Accounted
  <2> QED
    BY <1>1, <2>1, <2>2 DEF Accounted, Places
<1>10. TypedOnce' /\ PushedOnce'
  BY <1>1 DEF PushInv, TypedOnce, PushedOnce
<1> QED
  BY <1>1, <1>8, <1>9, <1>10 DEF PushInv, Places

LEMMA SendTurnKeepsPush ==
  ASSUME TypeOK, TextInv, PushInv, NEW s \in Sessions, SendTurn(s)
  PROVE  PushInv'
<1> USE DEF loopVars, textVars, outVars
<1>0. PICK m : m = Head(chan[s])
  OBVIOUS
<1> DEFINE rest == Tail(chan[s])
           e == [by |-> s, msg |-> m]
<1>1. /\ chan[s] # <<>> /\ Push(s, m) /\ chan' = [chan EXCEPT ![s] = rest]
      /\ UNCHANGED <<held, typed, recvTask, seen>>
  BY <1>0 DEF SendTurn
<1>2. /\ chan[s] \in Seq(Owned(s)) /\ Len(chan[s]) \in Nat \ {0}
      /\ m \in Owned(s) /\ m = chan[s][1] /\ 1 \in Places(chan[s])
      /\ Len(rest) = Len(chan[s]) - 1
      /\ \A i \in Places(rest) : i + 1 \in Places(chan[s]) /\ rest[i] = chan[s][i + 1]
  BY <1>0, <1>1 DEF TextInv, Places
<1>3. m \in LocalMsgs /\ m \in Msgs /\ m \notin RemoteMsgs /\ e \in typed
  BY <1>2, ServeAssumption DEF Owned, Msgs
<1> HIDE DEF rest
<1>4. \A t \in Sessions : chan'[t] = chan[t] \/ (t = s /\ chan'[t] = rest)
  BY <1>1 DEF TypeOK
<1>5. \A t \in Sessions : \A i \in Places(chan'[t]) :
        \E j \in Places(chan[t]) : chan'[t][i] = chan[t][j]
  BY <1>2, <1>4
\* No other channel holds the text, since it was typed in this session.
<1>6. \A t \in Sessions : \A i \in Places(chan'[t]) : chan'[t][i] # m
  <2> TAKE t \in Sessions
  <2> TAKE i \in Places(chan'[t])
  <2>1. CASE t = s /\ chan'[t] = rest
    <3>1. i + 1 # 1 /\ rest[i] = chan[s][i + 1] /\ i + 1 \in Places(chan[s])
      BY <1>2, <2>1 DEF Places
    <3> QED
      BY <1>2, <2>1, <3>1 DEF PushInv, WaitsOnce
  <2>2. CASE t # s
    <3>1. chan[t] \in Seq(Owned(t)) /\ chan'[t] = chan[t]
      BY <1>4, <2>2 DEF TextInv
    <3>2. chan'[t][i] \in Owned(t)
      BY <3>1 DEF Places
    <3> QED
      BY <1>3, <2>2, <3>2 DEF PushInv, TypedOnce, Owned
  <2>3. CASE t = s /\ chan'[t] = chan[t]
    <3>1. rest = chan[s]
      BY <1>1, <2>3 DEF TypeOK
    <3> QED
      BY <1>2, <3>1
  <2> QED
    BY <1>4, <2>1, <2>2, <2>3
<1>7. \A j \in Places(history) : history[j].msg # m
  BY <1>2, <1>3 DEF PushInv, Accounted
<1>8. WaitsOnce'
  <2>1. \A t \in Sessions : \A i, j \in Places(chan'[t]) : chan'[t][i] = chan'[t][j] => i = j
    <3> TAKE t \in Sessions
    <3> TAKE i, j \in Places(chan'[t])
    <3>1. CASE chan'[t] = chan[t]
      BY <3>1 DEF PushInv, WaitsOnce
    <3>2. CASE t = s /\ chan'[t] = rest
      <4>0. i \in Places(rest) /\ j \in Places(rest)
        BY <3>2
      <4>1. /\ i + 1 \in Places(chan[s]) /\ j + 1 \in Places(chan[s])
            /\ rest[i] = chan[s][i + 1] /\ rest[j] = chan[s][j + 1]
        BY <1>2, <4>0
      <4>3. i \in Nat /\ j \in Nat
        BY <4>0 DEF Places
      <4>2. rest[i] = rest[j] => i + 1 = j + 1
        BY <4>1 DEF PushInv, WaitsOnce
      <4> QED
        BY <3>2, <4>1, <4>2, <4>3
    <3> QED
      BY <1>4, <3>1, <3>2
  <2>2. \A k \in Clients, t \in Sessions : \A i \in Places(chan'[t]) : chan'[t][i] # held[k].msg
    BY <1>5 DEF PushInv, WaitsOnce
  <2> QED
    BY <1>1, <2>1, <2>2 DEF PushInv, WaitsOnce, Places
<1>9. /\ \A i \in Places(history') : history'[i] = e \/ \E j \in Places(history) : history'[i] = history[j]
      /\ PushedOnce'
  <2>1. \A j \in Places(history) : history[j] # e
    BY <1>7
  <2> QED
    BY <1>1, <1>3, <2>1, PushKeeps DEF PushInv
<1>10. Accounted(e)'
  <2>1. \A k \in Clients : held[k].msg # m
    BY <1>2 DEF PushInv, WaitsOnce
  <2> QED
    BY <1>1, <1>3, <1>6, <2>1 DEF Accounted, Places
<1>11. ASSUME NEW x \in Entries, Accounted(x) PROVE Accounted(x)'
  <2>1. \A t \in Sessions : \A i \in Places(chan'[t]) : x.msg \in LocalMsgs => chan'[t][i] # x.msg
    BY <1>5, <1>11 DEF Accounted
  <2> QED
    BY <1>1, <1>11, <2>1 DEF Accounted, Places
<1>12. (\A i \in Places(history) : Accounted(history[i]))'
  <2> HIDE DEF e
  <2> SUFFICES ASSUME NEW i \in Places(history') PROVE Accounted(history[i])'
    BY DEF Places
  <2>1. CASE history'[i] = e
    BY <1>10, <2>1 DEF Accounted
  <2>2. ASSUME NEW j \in Places(history), history'[i] = history[j] PROVE Accounted(history[i])'
    <3>1. PICK x \in Entries : x = history[j]
      BY EntryType
    <3>2. Accounted(x)
      BY <3>1 DEF PushInv, Accounted
    <3>3. Accounted(x)'
      BY <1>11, <3>2
    <3> QED
      BY <2>2, <3>1, <3>3 DEF Accounted
  <2> QED
    BY <1>9, <2>1, <2>2
<1>13. TypedOnce'
  BY <1>1 DEF PushInv, TypedOnce
<1> QED
  BY <1>8, <1>9, <1>12, <1>13 DEF PushInv, Places

LEMMA RecvChatKeepsPush ==
  ASSUME TypeOK, TextInv, PushInv, NEW s \in Sessions, NEW m \in RemoteMsgs, RecvChat(s, m)
  PROVE  PushInv'
<1> USE DEF loopVars, textVars, outVars
<1> DEFINE e == [by |-> s, msg |-> m]
<1>1. /\ recvTask[s] = "run" /\ seen' = [seen EXCEPT ![s] = @ \cup {m}]
      /\ IF m \in seen[s] THEN UNCHANGED history ELSE Push(s, m)
      /\ UNCHANGED <<held, typed, chan, recvTask>>
  BY DEF RecvChat
<1>2. TypedOnce' /\ WaitsOnce'
  BY <1>1 DEF PushInv, TypedOnce, WaitsOnce, Places
<1>3. \A t \in Sessions : seen[t] \subseteq seen'[t]
  BY <1>1 DEF TypeOK
<1>4. ASSUME NEW x \in Entries, Accounted(x) PROVE Accounted(x)'
  <2>1. x.by \in Sessions
    BY DEF Entries
  <2> QED
    BY <1>1, <1>3, <1>4, <2>1 DEF Accounted, Places
<1>0. ASSUME NEW i, NEW j \in Places(history), history'[i] = history[j]
      PROVE  Accounted(history[i])'
  <2>1. PICK x \in Entries : x = history[j]
    BY EntryType
  <2>2. Accounted(x)
    BY <2>1 DEF PushInv, Accounted
  <2>3. Accounted(x)'
    BY <1>4, <2>2
  <2> QED
    BY <1>0, <2>1, <2>3 DEF Accounted
<1>5. CASE m \in seen[s]
  <2>1. history' = history
    BY <1>1, <1>5
  <2>2. \A i \in Places(history) : Accounted(history[i])'
    BY <1>0, <2>1
  <2> QED
    BY <1>2, <2>1, <2>2 DEF PushInv, PushedOnce, Places
<1>6. CASE m \notin seen[s]
  <2>1. Push(s, m) /\ m \in Msgs /\ m \notin LocalMsgs
    BY <1>1, <1>6, ServeAssumption DEF Msgs
  <2>2. \A j \in Places(history) : history[j] # e
    BY <1>1, <1>6 DEF PushInv, Accounted
  <2>3. /\ \A i \in Places(history') : history'[i] = e \/ \E j \in Places(history) : history'[i] = history[j]
        /\ PushedOnce'
    BY <2>1, <2>2, PushKeeps DEF PushInv
  <2>4. Accounted(e)'
    BY <1>1, <2>1 DEF Accounted, TypeOK
  <2>5. (\A i \in Places(history) : Accounted(history[i]))'
    <3> HIDE DEF e
    <3> SUFFICES ASSUME NEW i \in Places(history') PROVE Accounted(history[i])'
      BY DEF Places
    <3>1. CASE history'[i] = e
      BY <2>4, <3>1 DEF Accounted
    <3> QED
      BY <1>0, <2>3, <3>1
  <2> QED
    BY <1>2, <2>3, <2>5 DEF PushInv, Places
<1> QED
  BY <1>5, <1>6

-----------------------------------------------------------------------------
(* All other steps settle.                                                 *)

LEMMA OthersSettle ==
  ASSUME TypeOK, Next
  PROVE  \/ Settles
         \/ \E k \in Clients, m \in LocalMsgs : TakeSender(k, m)
         \/ \E k \in Clients : SendBody(k)
         \/ \E s \in Sessions : SendTurn(s)
         \/ \E s \in Sessions, m \in RemoteMsgs : RecvChat(s, m)
<1> USE DEF loopVars, hubVars, taskVars, textVars, outVars
<1>1. ASSUME NEW c \in Commands, SendCommand(c) PROVE Settles
  BY <1>1 DEF SendCommand, Settles
<1>2. CASE BridgeFails \/ CtrlC
  BY <1>2 DEF BridgeFails, CtrlC, Settles
<1>3. ASSUME NEW s \in Sessions, Broadcast(s) \/ SendEnds(s) \/ SendCancelled(s)
      PROVE  Settles
  BY <1>3 DEF Broadcast, SendEnds, SendCancelled, Settles, TypeOK
<1>4. ASSUME NEW s \in Sessions, RecvClosed(s) \/ RecvEnds(s) PROVE Settles
  BY <1>4 DEF RecvClosed, RecvEnds, RecvReturns, Settles, TypeOK
<1>5. CASE PeerLoop
  <2>1. CASE LoopTop \/ IdleCtrlC \/ IdleBridgeGone \/ IdleIgnores \/ IdleStarts
             \/ Subscribed \/ CloseBroadcast \/ RoomLeft \/ RoomExits
    BY <2>1 DEF LoopTop, IdleCtrlC, IdleBridgeGone, IdleIgnores, IdleStarts, StartRoom,
                Subscribed, CloseBroadcast, RoomLeft, EndRoom, RoomExits, Settles
  <2>2. CASE SubscribeFails \/ Drained
    BY <2>2 DEF SubscribeFails, Drained, ProcessEnds, Settles
  <2>3. CASE SpawnGossip
    BY <2>3 DEF SpawnGossip, Settles, TypeOK
  <2>4. CASE GossipEnds
    BY <2>4 DEF GossipEnds, LeaveSelect, Settles
  <2>5. CASE RoomCtrlC \/ RoomCommand \/ RoomBridgeGone
    BY <2>5 DEF RoomCtrlC, RoomCommand, RoomBridgeGone, LeaveSelect, DropGossip, Settles, TypeOK
  <2> QED
    BY <1>5, <2>1, <2>2, <2>3, <2>4, <2>5 DEF PeerLoop
<1> QED
  BY <1>1, <1>2, <1>3, <1>4, <1>5 DEF Next, Bridge, GossipTasks, SendTask, RecvTask

\* Gossip may deliver what it likes, and as often: no message is in the history
\* twice as pushed by one session, for any number of sessions, clients and
\* messages and any capacity of the channels and the history.
THEOREM PushCorrect == Spec => []PushedOnce
<1>1. Init => PushInv
  BY InitPush
<1>2. TypeOK /\ TextInv /\ PushInv /\ [Next]_vars => PushInv'
  <2> SUFFICES ASSUME TypeOK, TextInv, PushInv, [Next]_vars PROVE PushInv'
    OBVIOUS
  <2>1. CASE Next
    BY <2>1, OthersSettle, SettleKeepsPush, TakeSenderKeepsPush, SendBodyKeepsPush,
       SendTurnKeepsPush, RecvChatKeepsPush
  <2>2. CASE UNCHANGED vars
    <3>1. Settles
      BY <2>2 DEF vars, hubVars, taskVars, textVars, Settles
    <3> QED
      BY <3>1, SettleKeepsPush
  <2> QED
    BY <2>1, <2>2
<1>3. PushInv => PushedOnce
  BY DEF PushInv
<1> QED
  BY <1>1, <1>2, <1>3, TypeCorrect, TextInvariant, PTL DEF Spec
=============================================================================
