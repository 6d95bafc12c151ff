-------------------------- MODULE SimulationProofs --------------------------
(***************************************************************************)
(* The simulation page keeps its promises about the first start, and is    *)
(* silent while idle, for every choice of scenarios and every number of    *)
(* starts, runs, reconnects, reloads and failures.                         *)
(***************************************************************************)
EXTENDS Simulation, ChatClientProofs

-----------------------------------------------------------------------------
(* Types.                                                                   *)

Timers      == Peers \cup {"none"}
CommandsTo(n) == [cmd : {"open", "join", "leave"}, ticket : 0 .. n]

Sims(n) ==
  [phase : Phases, openSent : BOOLEAN, joinSent : BOOLEAN, cancel : BOOLEAN,
   peer : [Peers -> ClientsOf(n)], out : [Peers -> Seq(CommandsTo(n))]]

Runners(n) == [run : 0 .. n, left : Seq(Timers) \ {<<>>}]

ProcessType ==
  /\ rooms \in Nat /\ closed \subseteq 1 .. rooms
  /\ server \in [Peers -> [up : BOOLEAN, room : 0 .. rooms]]
  /\ conn \in [Peers -> {"off", "live", "dead"}]
  /\ wire \in [Peers -> Seq(FramesOf(rooms))]
  /\ count \in [{"starts", "runs", "troubles"} -> Nat]

RunnerType ==
  \A e \in runners : e.run \in Nat /\ e.run < count.runs /\ e.left \in Seq(Timers) /\ e.left # <<>>
                     /\ e = [run |-> e.run, left |-> e.left]

LEMMA ScenarioTimers ==
  \A id \in Scenarios : SCENARIOS[id] \in Seq(Timers) /\ SCENARIOS[id] # <<>>
<1> SUFFICES ASSUME NEW id \in Scenarios
             PROVE  SCENARIOS[id] \in Seq(Timers) /\ SCENARIOS[id] # <<>>
  OBVIOUS
<1>1. id \in {"basic-chat", "ping-pong", "broadcast-burst", "cross-talk"}
  BY SimulationAssumption DEF SCENARIOS
<1>2. "A" \in Timers /\ "B" \in Timers /\ "none" \in Timers
  BY DEF Timers, Peers
<1> HIDE DEF Timers
<1>3. CASE id = "basic-chat"
  BY <1>2, <1>3 DEF SCENARIOS
<1>4. CASE id = "ping-pong"
  BY <1>2, <1>4 DEF SCENARIOS
<1>5. CASE id = "broadcast-burst"
  BY <1>2, <1>5 DEF SCENARIOS
<1>6. CASE id = "cross-talk"
  BY <1>2, <1>6 DEF SCENARIOS
<1> QED
  BY <1>1, <1>3, <1>4, <1>5, <1>6

LEMMA MoreSims ==
  ASSUME NEW n \in Nat
  PROVE  Sims(n) \subseteq Sims(n + 1)
<1>1. ClientsOf(n) \subseteq ClientsOf(n + 1)
  BY MoreRooms
<1>2. CommandsTo(n) \subseteq CommandsTo(n + 1)
  <2>1. 0 .. n \subseteq 0 .. n + 1
    OBVIOUS
  <2> QED
    BY <2>1 DEF CommandsTo
<1>3. Seq(CommandsTo(n)) \subseteq Seq(CommandsTo(n + 1))
  BY <1>2
<1> QED
  BY <1>1, <1>3 DEF Sims

-----------------------------------------------------------------------------
(* The effects of a render, one by one.                                     *)

\* Parts of the hook's state, by names the provers need not look into.
Client(s, p)  == s.peer[p]
Status(s, p)  == s.peer[p].status
RoomOn(s, p)  == s.peer[p].view.roomState
Out(s, p)     == s.out[p]
Adds(o, c, t) == Append(o, [cmd |-> c, ticket |-> t])

LEMMA SendIs ==
  ASSUME NEW n \in Nat, NEW s \in Sims(n), NEW p \in Peers,
         NEW cmd \in {"open", "join", "leave"}, NEW t \in 0 .. n, NEW b, b = Send(s, p, cmd, t)
  PROVE  /\ b \in Sims(n)
         /\ b.phase = s.phase /\ b.openSent = s.openSent /\ b.joinSent = s.joinSent
         /\ b.cancel = s.cancel /\ b.peer = s.peer
         /\ \A q \in Peers : q # p => Out(b, q) = Out(s, q)
         /\ conn[p] = "dead" \/ ~CanSend(Client(s, p)) => b = s
         /\ conn[p] # "dead" /\ CanSend(Client(s, p)) => Out(b, p) = Adds(Out(s, p), cmd, t)
<1> DEFINE c == [cmd |-> cmd, ticket |-> t]
           q == Append(s.out[p], c)
           o == [s.out EXCEPT ![p] = q]
           e == [s EXCEPT !.out = o]
<1>1. s.out \in [Peers -> Seq(CommandsTo(n))]
  BY DEF Sims
<1>2. c \in CommandsTo(n)
  BY DEF CommandsTo
<1> HIDE DEF c
<1>3. q \in Seq(CommandsTo(n))
  BY <1>1, <1>2
<1> HIDE DEF q
<1>4. o \in [Peers -> Seq(CommandsTo(n))] /\ o[p] = q
      /\ \A r \in Peers : r # p => o[r] = s.out[r]
  BY <1>1, <1>3
<1>5. [s EXCEPT !.out[p] = q] = e
  BY <1>1
<1> HIDE DEF o
<1>6. /\ e \in Sims(n) /\ e.out = o /\ e.phase = s.phase /\ e.openSent = s.openSent
      /\ e.joinSent = s.joinSent /\ e.cancel = s.cancel /\ e.peer = s.peer
  BY <1>4 DEF Sims
<1> HIDE DEF e
<1>7. CASE conn[p] = "dead" \/ ~CanSend(Client(s, p))
  <2>1. b = s
    BY <1>7 DEF Send, Client
  <2> QED
    BY <1>7, <2>1
<1>8. CASE ~(conn[p] = "dead" \/ ~CanSend(Client(s, p)))
  <2>1. b = e
    BY <1>5, <1>8 DEF Send, Client, q, c
  <2>2. Out(b, p) = q /\ \A r \in Peers : r # p => Out(b, r) = Out(s, r)
    BY <1>4, <1>6, <2>1 DEF Out
  <2>3. q = Adds(Out(s, p), cmd, t)
    BY DEF Adds, Out, q, c
  <2> QED
    BY <1>6, <1>8, <2>1, <2>2, <2>3
<1> QED
  BY <1>7, <1>8

LEMMA AsksIs ==
  ASSUME NEW n \in Nat, NEW s \in Sims(n), NEW p \in Peers,
         NEW cmd \in {"open", "join"}, NEW t \in 0 .. n, NEW a, a = Asks(s, p, cmd, t)
  PROVE  /\ a \in Sims(n)
         /\ a.phase = s.phase /\ a.openSent = s.openSent /\ a.joinSent = s.joinSent
         /\ a.cancel = s.cancel
         /\ \A q \in Peers : q # p => Out(a, q) = Out(s, q) /\ Client(a, q) = Client(s, q)
         /\ Status(a, p) = Status(s, p)
         /\ CanSend(Client(s, p)) => RoomOn(a, p) = "pending"
         /\ conn[p] = "dead" \/ ~CanSend(Client(s, p)) => Out(a, p) = Out(s, p)
         /\ conn[p] # "dead" /\ CanSend(Client(s, p)) => Out(a, p) = Adds(Out(s, p), cmd, t)
<1> DEFINE b == Send(s, p, cmd, t)
           c == Starts(s.peer[p], cmd)
           f == [s.peer EXCEPT ![p] = c]
           e == [b EXCEPT !.peer = f]
<1>1. /\ b \in Sims(n)
      /\ b.phase = s.phase /\ b.openSent = s.openSent /\ b.joinSent = s.joinSent
      /\ b.cancel = s.cancel /\ b.peer = s.peer
      /\ \A q \in Peers : q # p => Out(b, q) = Out(s, q)
      /\ conn[p] = "dead" \/ ~CanSend(Client(s, p)) => b = s
      /\ conn[p] # "dead" /\ CanSend(Client(s, p)) => Out(b, p) = Adds(Out(s, p), cmd, t)
  <2>1. cmd \in {"open", "join", "leave"}
    OBVIOUS
  <2> QED
    BY <2>1, SendIs
<1>2. s.peer \in [Peers -> ClientsOf(n)] /\ s.peer[p] \in ClientsOf(n)
  BY DEF Sims
<1>3. /\ c \in ClientsOf(n) /\ c.status = s.peer[p].status
      /\ CanSend(s.peer[p]) => c.view.roomState = "pending"
  <2>1. CASE CanSend(s.peer[p])
    <3>1. cmd \in Actions
      BY DEF Actions
    <3> QED
      BY <1>2, <2>1, <3>1, StartsIs DEF CanSend
  <2>2. CASE ~CanSend(s.peer[p])
    BY <1>2, <2>2 DEF Starts
  <2> QED
    BY <2>1, <2>2
<1>4. a = [b EXCEPT !.peer[p] = c]
  BY <1>1 DEF Asks
<1> HIDE DEF b, c
<1>5. /\ f \in [Peers -> ClientsOf(n)] /\ f[p] = c
      /\ \A q \in Peers : q # p => f[q] = s.peer[q]
  BY <1>2, <1>3
<1>6. [b EXCEPT !.peer[p] = c] = e
  BY <1>1 DEF Sims
<1> HIDE DEF f
<1>7. /\ e \in Sims(n) /\ e.peer = f /\ e.out = b.out
      /\ e.phase = b.phase /\ e.openSent = b.openSent /\ e.joinSent = b.joinSent
      /\ e.cancel = b.cancel
  BY <1>1, <1>5 DEF Sims
<1> HIDE DEF e
<1>8. a = e /\ \A q \in Peers : Out(a, q) = Out(b, q)
  BY <1>4, <1>6, <1>7 DEF Out
<1>9. /\ \A q \in Peers : q # p => Client(a, q) = Client(s, q)
      /\ Status(a, p) = Status(s, p)
      /\ CanSend(Client(s, p)) => RoomOn(a, p) = "pending"
  BY <1>3, <1>5, <1>7, <1>8 DEF Client, Status, RoomOn
<1> QED
  BY <1>1, <1>7, <1>8, <1>9

\* A peer that is lost: an error, and nothing else.
LEMMA LossIs ==
  ASSUME NEW n \in Nat, NEW s \in Sims(n), NEW r, NEW d, d = DetectLoss(r, s)
  PROVE  \/ d = s
         \/ /\ d \in Sims(n) /\ d.phase = "error" /\ d.openSent = s.openSent
            /\ d.joinSent = s.joinSent /\ d.peer = s.peer /\ d.out = s.out
            /\ s.cancel => d.cancel
            /\ r.phase \in {"ready", "running"} => d.cancel
            /\ r.phase \in {"waiting-a", "waiting-b", "ready", "running"}
<1> DEFINE lost == r.phase \in {"ready", "running"} /\ (Offline(r, "A") \/ Offline(r, "B"))
           hit == \/ r.phase = "waiting-a" /\ Offline(r, "A")
                  \/ r.phase = "waiting-b" /\ Offline(r, "B")
                  \/ lost
           c == s.cancel \/ lost
           e == [s EXCEPT !.phase = "error", !.cancel = c]
<1>1. d = IF hit THEN e ELSE s
  BY DEF DetectLoss
<1>2. c \in BOOLEAN /\ (s.cancel => c) /\ (lost => c)
  BY DEF Sims
<1>3. hit => /\ r.phase \in {"ready", "running"} => lost
             /\ r.phase \in {"waiting-a", "waiting-b", "ready", "running"}
  OBVIOUS
<1> HIDE DEF lost, hit, c
<1>4. /\ e \in Sims(n) /\ e.phase = "error" /\ e.openSent = s.openSent
      /\ e.joinSent = s.joinSent /\ e.peer = s.peer /\ e.out = s.out /\ e.cancel = c
  BY <1>2 DEF Sims, Phases
<1> HIDE DEF e
<1> QED
  BY <1>1, <1>2, <1>3, <1>4

\* The two questions the effects ask.
LEMMA AsksToOpen ==
  ASSUME NEW n \in Nat, NEW q \in Sims(n), NEW a, a = Asks(q, "A", "open", 0)
  PROVE  /\ a \in Sims(n)
         /\ a.phase = q.phase /\ a.openSent = q.openSent /\ a.joinSent = q.joinSent
         /\ a.cancel = q.cancel
         /\ Out(a, "B") = Out(q, "B") /\ Client(a, "B") = Client(q, "B")
         /\ Status(a, "A") = Status(q, "A")
         /\ conn["A"] = "dead" => Out(a, "A") = Out(q, "A")
         /\ conn["A"] # "dead" /\ CanSend(Client(q, "A")) =>
              Out(a, "A") = Adds(Out(q, "A"), "open", 0)
<1>1. "A" \in Peers /\ "B" \in Peers /\ 0 \in 0 .. n
  BY DEF Peers
<1>2. /\ a \in Sims(n)
      /\ a.phase = q.phase /\ a.openSent = q.openSent /\ a.joinSent = q.joinSent
      /\ a.cancel = q.cancel
  BY <1>1, AsksIs
<1>3. \A p \in Peers : p # "A" => Out(a, p) = Out(q, p) /\ Client(a, p) = Client(q, p)
  BY <1>1, AsksIs
<1>4. Status(a, "A") = Status(q, "A")
  BY <1>1, AsksIs
<1>5. conn["A"] = "dead" => Out(a, "A") = Out(q, "A")
  BY <1>1, AsksIs
<1>6. conn["A"] # "dead" /\ CanSend(Client(q, "A")) =>
        Out(a, "A") = Adds(Out(q, "A"), "open", 0)
  BY <1>1, AsksIs
<1> QED
  BY <1>1, <1>2, <1>3, <1>4, <1>5, <1>6

LEMMA AsksToJoin ==
  ASSUME NEW n \in Nat, NEW q \in Sims(n), NEW t \in 0 .. n, NEW a, a = Asks(q, "B", "join", t)
  PROVE  /\ a \in Sims(n)
         /\ a.phase = q.phase /\ a.openSent = q.openSent /\ a.joinSent = q.joinSent
         /\ a.cancel = q.cancel
         /\ Out(a, "A") = Out(q, "A") /\ Client(a, "A") = Client(q, "A")
         /\ Status(a, "B") = Status(q, "B")
         /\ CanSend(Client(q, "B")) => RoomOn(a, "B") = "pending"
         /\ conn["B"] = "dead" \/ ~CanSend(Client(q, "B")) => Out(a, "B") = Out(q, "B")
         /\ conn["B"] # "dead" /\ CanSend(Client(q, "B")) =>
              Out(a, "B") = Adds(Out(q, "B"), "join", t)
<1>1. "A" \in Peers /\ "B" \in Peers
  BY DEF Peers
<1>2. /\ a \in Sims(n)
      /\ a.phase = q.phase /\ a.openSent = q.openSent /\ a.joinSent = q.joinSent
      /\ a.cancel = q.cancel
  BY <1>1, AsksIs
<1>3. \A p \in Peers : p # "B" => Out(a, p) = Out(q, p) /\ Client(a, p) = Client(q, p)
  BY <1>1, AsksIs
<1>4. Status(a, "B") = Status(q, "B")
  BY <1>1, AsksIs
<1>5. CanSend(Client(q, "B")) => RoomOn(a, "B") = "pending"
  BY <1>1, AsksIs
<1>6. conn["B"] = "dead" \/ ~CanSend(Client(q, "B")) => Out(a, "B") = Out(q, "B")
  BY <1>1, AsksIs
<1>7. conn["B"] # "dead" /\ CanSend(Client(q, "B")) =>
        Out(a, "B") = Adds(Out(q, "B"), "join", t)
  BY <1>1, AsksIs
<1> QED
  BY <1>1, <1>2, <1>3, <1>4, <1>5, <1>6, <1>7

LEMMA OpenOnAIs ==
  ASSUME NEW n \in Nat, NEW r \in Sims(n), NEW s, s = OpenOnA(r, r)
  PROVE  /\ s \in Sims(n) /\ s.phase = r.phase /\ s.joinSent = r.joinSent
         /\ s.cancel = r.cancel
         /\ Client(s, "B") = Client(r, "B") /\ Out(s, "B") = Out(r, "B")
         /\ Status(s, "A") = Status(r, "A")
         /\ ~(r.phase = "waiting-a" /\ ~r.openSent /\ Status(r, "A") = "connected") => s = r
         /\ r.phase = "waiting-a" /\ ~r.openSent /\ Status(r, "A") = "connected" =>
              /\ s.openSent
              /\ conn["A"] # "dead" => Out(s, "A") = Adds(Out(r, "A"), "open", 0)
              /\ conn["A"] = "dead" => Out(s, "A") = Out(r, "A")
<1> DEFINE asks == r.phase = "waiting-a" /\ ~r.openSent /\ Status(r, "A") = "connected"
           q == [r EXCEPT !.openSent = TRUE]
<1>1. s = IF asks THEN Asks(q, "A", "open", 0) ELSE r
  BY DEF OpenOnA, Status
<1>2. /\ q \in Sims(n) /\ q.phase = r.phase /\ q.joinSent = r.joinSent /\ q.openSent
      /\ q.cancel = r.cancel
      /\ q.peer = r.peer /\ q.out = r.out
  BY DEF Sims
<1>3. \A p \in Peers : /\ Out(q, p) = Out(r, p) /\ Client(q, p) = Client(r, p)
                      /\ Status(q, p) = Status(r, p)
  BY <1>2 DEF Out, Client, Status
<1> HIDE DEF q
<1>4. "A" \in Peers /\ "B" \in Peers
  BY DEF Peers
<1>5. CASE asks
  <2>1. s = Asks(q, "A", "open", 0)
    BY <1>1, <1>5
  <2>2. /\ s \in Sims(n)
        /\ s.phase = q.phase /\ s.openSent = q.openSent /\ s.joinSent = q.joinSent
        /\ s.cancel = q.cancel
        /\ Out(s, "B") = Out(q, "B") /\ Client(s, "B") = Client(q, "B")
        /\ Status(s, "A") = Status(q, "A")
        /\ conn["A"] = "dead" => Out(s, "A") = Out(q, "A")
        /\ conn["A"] # "dead" /\ CanSend(Client(q, "A")) =>
             Out(s, "A") = Adds(Out(q, "A"), "open", 0)
    BY <1>2, <2>1, AsksToOpen
  <2>3. CanSend(Client(q, "A"))
    BY <1>3, <1>4, <1>5 DEF CanSend, Client, Status
  <2> QED
    BY <1>2, <1>3, <1>4, <1>5, <2>2, <2>3
<1>6. CASE ~asks
  <2>1. s = r
    BY <1>1, <1>6
  <2> QED
    BY <1>6, <2>1
<1> QED
  BY <1>5, <1>6

LEMMA HandTicketIs ==
  ASSUME NEW n \in Nat, NEW s \in Sims(n), NEW r, NEW t \in 0 .. n, t = r.peer["A"].ticket,
         NEW h, h = HandTicket(r, s)
  PROVE  /\ h \in Sims(n) /\ h.openSent = s.openSent /\ h.cancel = s.cancel
         /\ Client(h, "A") = Client(s, "A") /\ Out(h, "A") = Out(s, "A")
         /\ Status(h, "B") = Status(s, "B")
         /\ ~(r.phase = "waiting-a" /\ t # 0 /\ ~s.joinSent) => h = s
         /\ r.phase = "waiting-a" /\ t # 0 /\ ~s.joinSent =>
              /\ h.phase = "waiting-b" /\ h.joinSent
              /\ CanSend(Client(s, "B")) => RoomOn(h, "B") = "pending"
              /\ conn["B"] # "dead" /\ CanSend(Client(s, "B")) =>
                   Out(h, "B") = Adds(Out(s, "B"), "join", t)
              /\ conn["B"] = "dead" \/ ~CanSend(Client(s, "B")) => Out(h, "B") = Out(s, "B")
<1> DEFINE hands == r.phase = "waiting-a" /\ t # 0 /\ ~s.joinSent
           q == [s EXCEPT !.joinSent = TRUE, !.phase = "waiting-b"]
<1>1. h = IF hands THEN Asks(q, "B", "join", t) ELSE s
  BY DEF HandTicket
<1>2. /\ q \in Sims(n) /\ q.phase = "waiting-b" /\ q.joinSent /\ q.openSent = s.openSent
      /\ q.cancel = s.cancel /\ q.peer = s.peer /\ q.out = s.out
  BY DEF Sims, Phases
<1>3. \A p \in Peers : /\ Out(q, p) = Out(s, p) /\ Client(q, p) = Client(s, p)
                      /\ Status(q, p) = Status(s, p)
  BY <1>2 DEF Out, Client, Status
<1> HIDE DEF q
<1>4. "A" \in Peers /\ "B" \in Peers
  BY DEF Peers
<1>5. CASE hands
  <2>0. q \in Sims(n)
    BY <1>2
  <2>1. h = Asks(q, "B", "join", t)
    BY <1>1, <1>5
  <2>2. /\ h \in Sims(n)
        /\ h.phase = q.phase /\ h.openSent = q.openSent /\ h.joinSent = q.joinSent
        /\ h.cancel = q.cancel
        /\ Out(h, "A") = Out(q, "A") /\ Client(h, "A") = Client(q, "A")
        /\ Status(h, "B") = Status(q, "B")
        /\ CanSend(Client(q, "B")) => RoomOn(h, "B") = "pending"
        /\ conn["B"] = "dead" \/ ~CanSend(Client(q, "B")) => Out(h, "B") = Out(q, "B")
        /\ conn["B"] # "dead" /\ CanSend(Client(q, "B")) =>
             Out(h, "B") = Adds(Out(q, "B"), "join", t)
    BY ONLY n \in Nat, t \in 0 .. n, <2>0, <2>1, AsksToJoin
  <2>3. /\ Out(q, "A") = Out(s, "A") /\ Client(q, "A") = Client(s, "A")
        /\ Out(q, "B") = Out(s, "B") /\ Client(q, "B") = Client(s, "B")
        /\ Status(q, "B") = Status(s, "B")
    BY <1>3, <1>4
  <2> HIDE DEF hands
  <2>4. hands => r.phase = "waiting-a" /\ t # 0 /\ ~s.joinSent
    BY DEF hands
  <2> QED
    BY <1>2, <1>5, <2>2, <2>3, <2>4
<1>6. CASE ~hands
  <2>1. h = s
    BY <1>1, <1>6
  <2> QED
    BY <1>6, <2>1
<1> QED
  BY <1>5, <1>6

LEMMA ReachReadyIs ==
  ASSUME NEW n \in Nat, NEW s \in Sims(n), NEW r, NEW d, d = ReachReady(r, s)
  PROVE  /\ d \in Sims(n) /\ d.openSent = s.openSent /\ d.joinSent = s.joinSent
         /\ d.cancel = s.cancel /\ d.peer = s.peer /\ d.out = s.out
         /\ r.phase = "waiting-b" /\ RoomOn(r, "B") = "ready" => d.phase = "ready"
         /\ ~(r.phase = "waiting-b" /\ RoomOn(r, "B") = "ready") => d = s
<1> DEFINE q == [s EXCEPT !.phase = "ready"]
           reached == r.phase = "waiting-b" /\ RoomOn(r, "B") = "ready"
<1>1. d = IF reached THEN q ELSE s
  BY DEF ReachReady, RoomOn
<1>2. /\ q \in Sims(n) /\ q.phase = "ready" /\ q.openSent = s.openSent
      /\ q.joinSent = s.joinSent /\ q.cancel = s.cancel /\ q.peer = s.peer /\ q.out = s.out
  BY DEF Sims, Phases
<1> HIDE DEF q, reached
<1> QED
  BY <1>1, <1>2 DEF reached
-----------------------------------------------------------------------------
(* The inductive invariant, said of what a render starts from and ends in:  *)
(* the hook s, connections c, frames w and runners R, in the k-th start.    *)

Agreed(s, c) == \A p \in Peers : Status(s, p) = "connected" <=> c[p] # "off"

\* B is asked only after A, and A as soon as it is waited for.
Guarded(s) ==
  /\ s.joinSent => s.openSent
  /\ s.phase = "waiting-a" => s.openSent \/ Status(s, "A") = "connected"

Silent(s, R) == s.phase = "idle" => s.cancel \/ R = {}

OneRun(s, R) ==
  /\ \A d, e \in R : d = e
  /\ s.phase \in {"waiting-a", "waiting-b", "ready", "done"} => R = {}
  /\ s.phase = "running" => R # {} /\ ~s.cancel
  /\ s.phase \in {"idle", "error"} => R = {} \/ s.cancel

SetUps == [type : SetUpTypes, msg : {0}, ts : {0}, ticket : Nat]

\* A peer that is in a room, or will be when it has read what was sent.
EntersRoom(s, w, p) == RoomOn(s, p) = "ready" \/ Among(w[p], SetUps)

\* Before the first start no room was ever opened.
Untouched(s, w, R) ==
  /\ s.phase = "idle" /\ R = {} /\ rooms = 0
  /\ \A p \in Peers : Out(s, p) = <<>> /\ ~EntersRoom(s, w, p)

HasRoom(c, p) == c[p] = "live" => server[p].room = 1

\* Of the first start comes at most one room, for one command of A's.
Started(s) ==
  /\ closed = {} /\ rooms <= 1
  /\ \A p \in Peers : Status(s, p) # "connecting"
  /\ Out(s, "A") \in {<<>>, Adds(<<>>, "open", 0)}
  /\ rooms = 1 => Out(s, "A") = <<>> /\ s.openSent
  /\ ~s.openSent => Out(s, "A") = <<>>

\* Until A's ticket is there B was asked for nothing.
WaitsForA(s, c, w) ==
  /\ ~s.joinSent /\ Out(s, "B") = <<>> /\ server["B"].room = 0 /\ ~EntersRoom(s, w, "B")
  /\ s.openSent /\ Out(s, "A") = <<>> => HasRoom(c, "A")

\* After that B is in the room, or its command is still under way.
Handed(s, c, w) ==
  /\ rooms = 1 /\ HasRoom(c, "A")
  /\ Out(s, "B") \in {<<>>, Adds(<<>>, "join", 1)}
  /\ Out(s, "B") # <<>> => server["B"].room = 0
  /\ \/ HasRoom(c, "B")
     \/ s.phase = "waiting-b" /\ Out(s, "B") # <<>> /\ ~EntersRoom(s, w, "B")

AfterA == {"waiting-b", "ready", "running", "done"}

First(s, c, w, R) ==
  /\ OneRun(s, R)
  /\ s.phase \in AfterA \cup {"waiting-a"} => Started(s)
  /\ s.phase = "waiting-a" => WaitsForA(s, c, w)
  /\ s.phase \in AfterA => Handed(s, c, w)

Holds(s, c, w, R, k) ==
  /\ s \in Sims(rooms) /\ Agreed(s, c) /\ Guarded(s) /\ Silent(s, R)
  /\ k = 0 => Untouched(s, w, R)
  /\ k <= 1 => First(s, c, w, R)

SimInv ==
  /\ ProcessType /\ RunnerType
  /\ Holds(sim, conn, wire, runners, count.starts)
  /\ sim.phase = "waiting-a" => sim.openSent
  /\ \A p \in Peers : conn[p] = "off" => wire[p] = <<>>

\* The names of a client's parts.
LEMMA SameClient ==
  ASSUME NEW s, NEW t, NEW p, Client(s, p) = Client(t, p)
  PROVE  Status(s, p) = Status(t, p) /\ RoomOn(s, p) = RoomOn(t, p)
BY DEF Client, Status, RoomOn

LEMMA SameParts ==
  ASSUME NEW s, NEW t, s.peer = t.peer, s.out = t.out, NEW p
  PROVE  /\ Client(s, p) = Client(t, p) /\ Status(s, p) = Status(t, p)
         /\ RoomOn(s, p) = RoomOn(t, p) /\ Out(s, p) = Out(t, p)
BY DEF Client, Status, RoomOn, Out

LEMMA TwoPeers ==
  /\ "A" \in Peers /\ "B" \in Peers
  /\ \A p \in Peers : p = "A" \/ p = "B"
BY DEF Peers

LEMMA ClientTypes ==
  ASSUME NEW n \in Nat, NEW s \in Sims(n), NEW p \in Peers
  PROVE  /\ Client(s, p) \in ClientsOf(n) /\ Status(s, p) \in ConnectionStates
         /\ RoomOn(s, p) \in RoomStates /\ Out(s, p) \in Seq(CommandsTo(n))
         /\ s.peer[p].ticket \in 0 .. n
         /\ CanSend(Client(s, p)) <=> Status(s, p) = "connected"
<1>1. s.peer[p] \in ClientsOf(n) /\ s.out[p] \in Seq(CommandsTo(n))
  BY DEF Sims
<1> QED
  BY <1>1, ClientIs DEF Client, Status, RoomOn, Out, CanSend

LEMMA AddsIs ==
  ASSUME NEW n \in Nat, NEW o \in Seq(CommandsTo(n)), NEW cmd \in {"open", "join", "leave"},
         NEW t \in 0 .. n
  PROVE  /\ Adds(o, cmd, t) # <<>> /\ Adds(o, cmd, t) \in Seq(CommandsTo(n))
         /\ o = <<>> => Head(Adds(o, cmd, t)) = [cmd |-> cmd, ticket |-> t]
                        /\ Tail(Adds(o, cmd, t)) = <<>>
<1> DEFINE c == [cmd |-> cmd, ticket |-> t]
<1>1. c \in CommandsTo(n)
  BY DEF CommandsTo
<1> HIDE DEF c
<1>2. /\ Append(o, c) # <<>> /\ Append(o, c) \in Seq(CommandsTo(n))
      /\ o = <<>> => Head(Append(o, c)) = c /\ Tail(Append(o, c)) = <<>>
  BY <1>1
<1> QED
  BY <1>2 DEF Adds, c

\* What the render of the hook's effects may do at most.
LEMMA EffectsAre ==
  ASSUME NEW n \in Nat, NEW r \in Sims(n), Guarded(r), NEW t, t = Effects(r)
  PROVE  /\ t \in Sims(n) /\ Guarded(t)
         /\ \A p \in Peers : Status(t, p) = Status(r, p)
         /\ t.phase = "waiting-a" => t.openSent
         /\ r.phase \notin {"waiting-a", "waiting-b", "ready", "running"} => t = r
         /\ r.phase \in {"ready", "running"} => t = r \/ (t.phase = "error" /\ t.cancel)
         /\ r.phase = "waiting-b" =>
              \/ t = r \/ t.phase = "error"
              \/ /\ t.phase = "ready" /\ RoomOn(r, "B") = "ready"
                 /\ t.openSent = r.openSent /\ t.peer = r.peer /\ t.out = r.out
         /\ r.phase = "waiting-a" =>
              \/ t.phase = "error"
              \/ t = HandTicket(r, OpenOnA(r, r))
<1>1. PICK s1 : s1 = OpenOnA(r, r)
  OBVIOUS
<1>2. PICK s2 : s2 = HandTicket(r, s1)
  OBVIOUS
<1>3. PICK s3 : s3 = ReachReady(r, s2)
  OBVIOUS
<1>4. t = DetectLoss(r, s3)
  BY <1>1, <1>2, <1>3 DEF Effects
<1>5. r.peer["A"].ticket \in 0 .. n
  BY ClientTypes, TwoPeers
<1>6. /\ s1 \in Sims(n) /\ s1.phase = r.phase /\ s1.joinSent = r.joinSent
      /\ Client(s1, "B") = Client(r, "B") /\ Status(s1, "A") = Status(r, "A")
      /\ ~(r.phase = "waiting-a" /\ ~r.openSent /\ Status(r, "A") = "connected") => s1 = r
      /\ r.phase = "waiting-a" /\ ~r.openSent /\ Status(r, "A") = "connected" => s1.openSent
  BY ONLY n \in Nat, r \in Sims(n), <1>1, OpenOnAIs
<1>7. PICK k \in 0 .. n : k = r.peer["A"].ticket
  BY <1>5
<1>8. /\ s2 \in Sims(n) /\ s2.openSent = s1.openSent
      /\ Client(s2, "A") = Client(s1, "A") /\ Status(s2, "B") = Status(s1, "B")
      /\ ~(r.phase = "waiting-a" /\ k # 0 /\ ~s1.joinSent) => s2 = s1
      /\ r.phase = "waiting-a" /\ k # 0 /\ ~s1.joinSent => s2.phase = "waiting-b" /\ s2.joinSent
  BY ONLY n \in Nat, <1>2, <1>6, <1>7, HandTicketIs
<1>9. /\ s3 \in Sims(n) /\ s3.openSent = s2.openSent /\ s3.joinSent = s2.joinSent
      /\ s3.peer = s2.peer /\ s3.out = s2.out
      /\ r.phase = "waiting-b" /\ RoomOn(r, "B") = "ready" => s3.phase = "ready"
      /\ ~(r.phase = "waiting-b" /\ RoomOn(r, "B") = "ready") => s3 = s2
  BY ONLY n \in Nat, <1>3, <1>8, ReachReadyIs
<1>10. \/ t = s3
       \/ /\ t \in Sims(n) /\ t.phase = "error" /\ t.openSent = s3.openSent
          /\ t.joinSent = s3.joinSent /\ t.peer = s3.peer /\ t.out = s3.out
          /\ r.phase \in {"ready", "running"} => t.cancel
          /\ r.phase \in {"waiting-a", "waiting-b", "ready", "running"}
  BY ONLY n \in Nat, <1>4, <1>9, LossIs
<1>11. t \in Sims(n) /\ t.openSent = s3.openSent /\ t.joinSent = s3.joinSent
       /\ t.peer = s3.peer
  BY <1>9, <1>10
<1>12. r.phase = "waiting-a" => s1.openSent
  BY <1>6 DEF Guarded
<1>13. (s3.joinSent => s3.openSent) /\ (s3.phase = "waiting-a" => s3.openSent)
  <2>1. s1.joinSent => s1.openSent
    BY <1>6 DEF Guarded
  <2>2. s2.joinSent => s2.openSent
    BY <1>8, <1>12, <2>1
  <2>3. s3.phase = "waiting-a" => r.phase = "waiting-a"
    BY <1>6, <1>8, <1>9
  <2> QED
    BY <1>8, <1>9, <1>12, <2>2, <2>3
<1>14. (t.joinSent => t.openSent) /\ (t.phase = "waiting-a" => t.openSent)
  BY <1>10, <1>11, <1>13
<1>15. \A p \in Peers : Status(t, p) = Status(r, p)
  <2>1. Status(s2, "A") = Status(r, "A") /\ Status(s2, "B") = Status(r, "B")
    BY <1>6, <1>8, SameClient
  <2>2. \A p \in Peers : Status(t, p) = Status(s2, p)
    BY <1>9, <1>11 DEF Status
  <2> QED
    BY <2>1, <2>2, TwoPeers
<1>16. Guarded(t)
  BY <1>14 DEF Guarded
<1>17. r.phase # "waiting-a" => s1 = r /\ s2 = r
  BY <1>6, <1>8
<1>18. CASE r.phase \notin {"waiting-a", "waiting-b", "ready", "running"}
  BY <1>9, <1>10, <1>11, <1>14, <1>15, <1>16, <1>17, <1>18
<1>19. CASE r.phase \in {"ready", "running"}
  <2>1. s3 = r
    BY <1>9, <1>17, <1>19
  <2>2. t = r \/ (t.phase = "error" /\ t.cancel)
    <3>1. CASE t = s3
      BY <2>1, <3>1
    <3>2. CASE t # s3
      BY <1>10, <1>19, <3>2
    <3> QED
      BY <3>1, <3>2
  <2> QED
    BY <1>11, <1>14, <1>15, <1>16, <1>19, <2>2
<1>20. CASE r.phase = "waiting-b"
  <2>1. CASE t = s3
    <3>1. \/ s3 = r
          \/ /\ s3.phase = "ready" /\ RoomOn(r, "B") = "ready"
             /\ s3.openSent = r.openSent /\ s3.peer = r.peer /\ s3.out = r.out
      BY <1>9, <1>17, <1>20
    <3> QED
      BY <1>11, <1>14, <1>15, <1>16, <1>20, <2>1, <3>1
  <2>2. CASE t # s3
    BY <1>10, <1>11, <1>14, <1>15, <1>16, <1>20, <2>2
  <2> QED
    BY <2>1, <2>2
<1>21. CASE r.phase = "waiting-a"
  BY <1>1, <1>2, <1>9, <1>10, <1>11, <1>14, <1>15, <1>16, <1>21
<1> QED
  BY <1>18, <1>19, <1>20, <1>21

\* The part of First that two states with the same clients and commands share.
LEMMA StartedAlike ==
  ASSUME NEW s, NEW t, t.openSent = s.openSent, Out(t, "A") = Out(s, "A"),
         \A p \in Peers : Status(t, p) = Status(s, p), Started(s)
  PROVE  Started(t)
BY DEF Started

\* In an error nothing is promised of the room, and what ran is cancelled.
LEMMA ErrorIsFirst ==
  ASSUME NEW t, t.phase = "error", NEW R, \A d, e \in R : d = e, R = {} \/ t.cancel,
         NEW c, NEW w
  PROVE  First(t, c, w, R)
BY DEF First, OneRun, AfterA

LEMMA WaitingKeepsFirst ==
  ASSUME rooms \in Nat, NEW r \in Sims(rooms), r.phase = "waiting-a", Guarded(r),
         NEW c, NEW w, NEW R, Agreed(r, c), First(r, c, w, R),
         \A p \in Peers : c[p] = "live" => conn[p] # "dead",
         NEW t, t = HandTicket(r, OpenOnA(r, r))
  PROVE  First(t, c, w, R)
<1>1. PICK s : s = OpenOnA(r, r)
  OBVIOUS
<1>2. t = HandTicket(r, s)
  BY <1>1
<1>3. PICK k \in 0 .. rooms : k = r.peer["A"].ticket
  BY ClientTypes, TwoPeers
<1>4. /\ s \in Sims(rooms) /\ s.phase = r.phase /\ s.joinSent = r.joinSent
      /\ Client(s, "B") = Client(r, "B") /\ Out(s, "B") = Out(r, "B")
      /\ Status(s, "A") = Status(r, "A")
      /\ ~(r.phase = "waiting-a" /\ ~r.openSent /\ Status(r, "A") = "connected") => s = r
      /\ r.phase = "waiting-a" /\ ~r.openSent /\ Status(r, "A") = "connected" =>
           /\ s.openSent
           /\ conn["A"] # "dead" => Out(s, "A") = Adds(Out(r, "A"), "open", 0)
           /\ conn["A"] = "dead" => Out(s, "A") = Out(r, "A")
  BY ONLY rooms \in Nat, r \in Sims(rooms), <1>1, OpenOnAIs
<1>5. /\ t \in Sims(rooms) /\ t.openSent = s.openSent
      /\ Client(t, "A") = Client(s, "A") /\ Out(t, "A") = Out(s, "A")
      /\ Status(t, "B") = Status(s, "B")
      /\ ~(r.phase = "waiting-a" /\ k # 0 /\ ~s.joinSent) => t = s
      /\ r.phase = "waiting-a" /\ k # 0 /\ ~s.joinSent =>
           /\ t.phase = "waiting-b" /\ t.joinSent
           /\ CanSend(Client(s, "B")) => RoomOn(t, "B") = "pending"
           /\ conn["B"] # "dead" /\ CanSend(Client(s, "B")) =>
                Out(t, "B") = Adds(Out(s, "B"), "join", k)
           /\ conn["B"] = "dead" \/ ~CanSend(Client(s, "B")) => Out(t, "B") = Out(s, "B")
  BY ONLY rooms \in Nat, <1>2, <1>3, <1>4, HandTicketIs
<1>6. R = {} /\ Started(r) /\ WaitsForA(r, c, w)
  BY DEF First, OneRun
<1>7. \A q \in {s, t} : \A p \in Peers : Status(q, p) = Status(r, p)
  BY <1>4, <1>5, SameClient, TwoPeers
<1>8. rooms = 0 \/ rooms = 1
  BY <1>6 DEF Started
<1>9. CASE ~r.openSent
  <2>1. Out(r, "A") = <<>> /\ rooms = 0
    BY <1>6, <1>8, <1>9 DEF Started
  <2>2. k = 0 /\ Status(r, "A") = "connected"
    BY <1>3, <1>9, <2>1 DEF Guarded
  <2>3. t = s /\ s.openSent /\ ~s.joinSent
    BY <1>4, <1>5, <1>6, <1>9, <2>2 DEF WaitsForA
  <2>4. Out(s, "A") = <<>> => conn["A"] = "dead"
    <3>1. Adds(<<>>, "open", 0) # <<>>
      BY DEF Adds
    <3> QED
      BY <1>4, <1>9, <2>1, <2>2, <3>1
  <2>5. Out(s, "A") \in {<<>>, Adds(<<>>, "open", 0)}
    BY <1>4, <1>9, <2>1, <2>2
  <2>6. Started(s)
    BY <1>6, <1>7, <2>1, <2>3, <2>5 DEF Started
  <2>7. RoomOn(s, "B") = RoomOn(r, "B")
    BY <1>4, SameClient
  <2>8. Out(s, "A") = <<>> => HasRoom(c, "A")
    BY <2>4, TwoPeers DEF HasRoom
  <2>9. WaitsForA(s, c, w)
    BY <1>4, <1>6, <2>3, <2>7, <2>8 DEF WaitsForA, EntersRoom
  <2> QED
    BY <1>4, <1>6, <2>3, <2>6, <2>9 DEF First, OneRun, AfterA
<1>10. CASE r.openSent /\ k = 0
  <2>1. t = r
    BY <1>4, <1>5, <1>10
  <2> QED
    BY <2>1
<1>11. CASE r.openSent /\ k # 0
  <2>1. s = r /\ ~r.joinSent
    BY <1>4, <1>6, <1>11 DEF WaitsForA
  <2>2. rooms = 1 /\ k = 1
    BY <1>3, <1>8, <1>11
  <2>3. t.phase = "waiting-b"
    BY <1>5, <1>11, <2>1
  <2>4. Started(t)
    BY <1>5, <1>6, <1>7, <2>1, StartedAlike
  <2>5. HasRoom(c, "A")
    BY <1>6, <1>11, <2>2 DEF WaitsForA, Started
  <2>6. Out(r, "B") = <<>> /\ server["B"].room = 0 /\ ~EntersRoom(r, w, "B")
    BY <1>6 DEF WaitsForA
  <2>7. CASE conn["B"] # "dead" /\ CanSend(Client(r, "B"))
    <3>1. Out(t, "B") = Adds(<<>>, "join", 1) /\ RoomOn(t, "B") = "pending"
      BY <1>5, <1>11, <2>1, <2>2, <2>6, <2>7
    <3>2. Adds(<<>>, "join", 1) # <<>>
      BY DEF Adds
    <3>3. ~EntersRoom(t, w, "B")
      BY <2>6, <3>1 DEF EntersRoom
    <3>4. Handed(t, c, w)
      BY <2>2, <2>3, <2>5, <2>6, <3>1, <3>2, <3>3 DEF Handed
    <3> QED
      BY <1>6, <2>3, <2>4, <3>4 DEF First, OneRun, AfterA
  <2>8. CASE ~(conn["B"] # "dead" /\ CanSend(Client(r, "B")))
    <3>1. Out(t, "B") = <<>>
      BY <1>5, <1>11, <2>1, <2>6, <2>8
    <3>2. CanSend(Client(r, "B")) <=> Status(r, "B") = "connected"
      BY ClientTypes, TwoPeers
    <3>3. c["B"] # "live"
      BY <2>8, <3>2, TwoPeers DEF Agreed
    <3>4. Handed(t, c, w)
      BY <2>2, <2>3, <2>5, <3>1, <3>3 DEF Handed, HasRoom
    <3> QED
      BY <1>6, <2>3, <2>4, <3>4 DEF First, OneRun, AfterA
  <2> QED
    BY <2>7, <2>8
<1> QED
  BY <1>9, <1>10, <1>11

LEMMA EffectsKeepFirst ==
  ASSUME rooms \in Nat, NEW r \in Sims(rooms), Guarded(r),
         NEW c, NEW w, NEW R, Agreed(r, c), First(r, c, w, R),
         \A p \in Peers : c[p] = "live" => conn[p] # "dead",
         NEW t, t = Effects(r)
  PROVE  First(t, c, w, R)
<1>1. /\ r.phase \notin {"waiting-a", "waiting-b", "ready", "running"} => t = r
      /\ r.phase \in {"ready", "running"} => t = r \/ (t.phase = "error" /\ t.cancel)
      /\ r.phase = "waiting-b" =>
           \/ t = r \/ t.phase = "error"
           \/ /\ t.phase = "ready" /\ RoomOn(r, "B") = "ready"
              /\ t.openSent = r.openSent /\ t.peer = r.peer /\ t.out = r.out
      /\ r.phase = "waiting-a" => t.phase = "error" \/ t = HandTicket(r, OpenOnA(r, r))
  BY EffectsAre
<1>2. \A d, e \in R : d = e
  BY DEF First, OneRun
<1>3. CASE t = r
  BY <1>3
<1>4. CASE t.phase = "error" /\ (R = {} \/ t.cancel)
  BY <1>2, <1>4, ErrorIsFirst
<1>5. CASE r.phase \in {"ready", "running"}
  BY <1>1, <1>3, <1>4, <1>5
<1>6. CASE r.phase = "waiting-b"
  <2>1. R = {}
    BY <1>6 DEF First, OneRun
  <2>2. ASSUME t.phase = "ready", RoomOn(r, "B") = "ready", t.openSent = r.openSent,
               t.peer = r.peer, t.out = r.out
        PROVE  First(t, c, w, R)
    <3>1. Started(r) /\ Handed(r, c, w)
      BY <1>6 DEF First, AfterA
    <3>2. \A p \in Peers : Status(t, p) = Status(r, p) /\ Out(t, p) = Out(r, p)
      BY <2>2, SameParts
    <3>3. Started(t)
      BY <2>2, <3>1, <3>2, StartedAlike, TwoPeers
    <3>4. HasRoom(c, "B")
      BY <2>2, <3>1 DEF Handed, EntersRoom
    <3>5. Handed(t, c, w)
      BY <3>1, <3>2, <3>4, TwoPeers DEF Handed
    <3> QED
      BY <2>1, <2>2, <3>3, <3>5 DEF First, OneRun, AfterA
  <2> QED
    BY <1>1, <1>3, <1>4, <1>6, <2>1, <2>2
<1>7. CASE r.phase = "waiting-a"
  <2>1. R = {}
    BY <1>7 DEF First, OneRun
  <2>2. CASE t = HandTicket(r, OpenOnA(r, r))
    BY ONLY <1>7, <2>2, WaitingKeepsFirst, rooms \in Nat, r \in Sims(rooms), Guarded(r),
         Agreed(r, c), First(r, c, w, R), \A p \in Peers : c[p] = "live" => conn[p] # "dead"
  <2> QED
    BY <1>1, <1>4, <1>7, <2>1, <2>2
<1> QED
  BY <1>1, <1>3, <1>5, <1>6, <1>7

\* One round of effects, and the render with all its rounds.
LEMMA EffectsKeep ==
  ASSUME rooms \in Nat, NEW c, NEW w, NEW R, NEW k \in Nat, NEW r, Holds(r, c, w, R, k),
         \A p \in Peers : c[p] = "live" => conn[p] # "dead",
         NEW t, t = Effects(r)
  PROVE  Holds(t, c, w, R, k) /\ (t.phase = "waiting-a" => t.openSent)
<1>1. r \in Sims(rooms) /\ Guarded(r) /\ Agreed(r, c) /\ Silent(r, R)
  BY DEF Holds
<1>2. /\ t \in Sims(rooms) /\ Guarded(t)
      /\ \A p \in Peers : Status(t, p) = Status(r, p)
      /\ t.phase = "waiting-a" => t.openSent
      /\ r.phase \notin {"waiting-a", "waiting-b", "ready", "running"} => t = r
      /\ r.phase \in {"ready", "running"} => t = r \/ (t.phase = "error" /\ t.cancel)
      /\ r.phase = "waiting-b" => \/ t = r \/ t.phase = "error" \/ t.phase = "ready"
      /\ r.phase = "waiting-a" => t.phase = "error" \/ t = HandTicket(r, OpenOnA(r, r))
  BY ONLY rooms \in Nat, t = Effects(r), <1>1, EffectsAre
<1>3. Agreed(t, c)
  BY <1>1, <1>2 DEF Agreed
<1>4. t.phase = "idle" => t = r
  <2>1. HandTicket(r, OpenOnA(r, r)).phase # "idle" \/ r.phase # "waiting-a"
    <3>1. PICK s : s = OpenOnA(r, r)
      OBVIOUS
    <3>2. PICK n \in 0 .. rooms : n = r.peer["A"].ticket
      BY <1>1, ClientTypes, TwoPeers
    <3>3. s \in Sims(rooms) /\ s.phase = r.phase
      BY ONLY rooms \in Nat, <1>1, <3>1, OpenOnAIs
    <3>4. PICK h : h = HandTicket(r, s)
      OBVIOUS
    <3>5. h = s \/ h.phase = "waiting-b"
      BY ONLY rooms \in Nat, <3>2, <3>3, <3>4, HandTicketIs
    <3> QED
      BY <3>1, <3>3, <3>4, <3>5
  <2> QED
    BY <1>2, <2>1
<1>5. Silent(t, R)
  BY <1>1, <1>4 DEF Silent
<1>6. k = 0 => Untouched(t, w, R)
  <2>1. ASSUME k = 0 PROVE t = r /\ Untouched(r, w, R)
    BY <1>2, <2>1 DEF Holds, Untouched
  <2> QED
    BY <2>1
<1>7. k <= 1 => First(t, c, w, R)
  <2>1. ASSUME k <= 1 PROVE First(t, c, w, R)
    <3>1. First(r, c, w, R)
      BY <2>1 DEF Holds
    <3> QED
      BY ONLY <1>1, <3>1, EffectsKeepFirst, rooms \in Nat, t = Effects(r),
              \A p \in Peers : c[p] = "live" => conn[p] # "dead"
  <2> QED
    BY <2>1
<1> QED
  BY <1>2, <1>3, <1>5, <1>6, <1>7 DEF Holds

LEMMA RenderKeeps ==
  ASSUME rooms \in Nat, NEW c, NEW w, NEW R, NEW k \in Nat, NEW s, Holds(s, c, w, R, k),
         \A p \in Peers : c[p] = "live" => conn[p] # "dead",
         Render(s)
  PROVE  Holds(sim', c, w, R, k) /\ (sim'.phase = "waiting-a" => sim'.openSent)
<1>1. PICK s1 : s1 = Effects(s)
  OBVIOUS
<1>2. PICK s2 : s2 = Effects(s1)
  OBVIOUS
<1>3. PICK s3 : s3 = Effects(s2)
  OBVIOUS
<1>4. sim' = s3
  BY <1>1, <1>2, <1>3 DEF Render
<1>5. Holds(s1, c, w, R, k)
  BY <1>1, EffectsKeep
<1>6. Holds(s2, c, w, R, k)
  BY <1>2, <1>5, EffectsKeep
<1>7. Holds(s3, c, w, R, k) /\ (s3.phase = "waiting-a" => s3.openSent)
  BY <1>3, <1>6, EffectsKeep
<1> QED
  BY <1>4, <1>7

-----------------------------------------------------------------------------
(* The actions.                                                             *)

LEMMA WithClient ==
  ASSUME NEW n \in Nat, NEW s \in Sims(n), NEW p \in Peers, NEW c \in ClientsOf(n),
         NEW t, t = [s EXCEPT !.peer[p] = c]
  PROVE  /\ t \in Sims(n) /\ t.phase = s.phase /\ t.openSent = s.openSent
         /\ t.joinSent = s.joinSent /\ t.cancel = s.cancel
         /\ Client(t, p) = c
         /\ \A q \in Peers : q # p => Client(t, q) = Client(s, q)
         /\ \A q \in Peers : Out(t, q) = Out(s, q)
<1> DEFINE f == [s.peer EXCEPT ![p] = c]
           e == [s EXCEPT !.peer = f]
<1>1. s.peer \in [Peers -> ClientsOf(n)]
  BY DEF Sims
<1>2. f \in [Peers -> ClientsOf(n)] /\ f[p] = c /\ \A q \in Peers : q # p => f[q] = s.peer[q]
  BY <1>1
<1>3. t = e
  OBVIOUS
<1> HIDE DEF f
<1>4. /\ e \in Sims(n) /\ e.phase = s.phase /\ e.openSent = s.openSent
      /\ e.joinSent = s.joinSent /\ e.cancel = s.cancel /\ e.peer = f /\ e.out = s.out
  BY <1>2 DEF Sims
<1> HIDE DEF e
<1>5. /\ t \in Sims(n) /\ t.phase = s.phase /\ t.openSent = s.openSent
      /\ t.joinSent = s.joinSent /\ t.cancel = s.cancel /\ t.peer = f /\ t.out = s.out
  BY ONLY <1>3, <1>4
<1>6. /\ Client(t, p) = c
      /\ \A q \in Peers : q # p => Client(t, q) = Client(s, q)
      /\ \A q \in Peers : Out(t, q) = Out(s, q)
  BY ONLY <1>2, <1>5, p \in Peers DEF Client, Out
<1> QED
  BY ONLY <1>5, <1>6

LEMMA WithOut ==
  ASSUME NEW n \in Nat, NEW s \in Sims(n), NEW p \in Peers, NEW o \in Seq(CommandsTo(n)),
         NEW t, t = [s EXCEPT !.out[p] = o]
  PROVE  /\ t \in Sims(n) /\ t.phase = s.phase /\ t.openSent = s.openSent
         /\ t.joinSent = s.joinSent /\ t.cancel = s.cancel
         /\ Out(t, p) = o
         /\ \A q \in Peers : q # p => Out(t, q) = Out(s, q)
         /\ \A q \in Peers : Client(t, q) = Client(s, q)
<1> DEFINE f == [s.out EXCEPT ![p] = o]
           e == [s EXCEPT !.out = f]
<1>1. s.out \in [Peers -> Seq(CommandsTo(n))]
  BY DEF Sims
<1>2. /\ f \in [Peers -> Seq(CommandsTo(n))] /\ f[p] = o
      /\ \A q \in Peers : q # p => f[q] = s.out[q]
  BY <1>1
<1>3. t = e
  OBVIOUS
<1> HIDE DEF f
<1>4. /\ e \in Sims(n) /\ e.phase = s.phase /\ e.openSent = s.openSent
      /\ e.joinSent = s.joinSent /\ e.cancel = s.cancel /\ e.peer = s.peer /\ e.out = f
  BY <1>2 DEF Sims
<1> HIDE DEF e
<1>5. /\ t \in Sims(n) /\ t.phase = s.phase /\ t.openSent = s.openSent
      /\ t.joinSent = s.joinSent /\ t.cancel = s.cancel /\ t.peer = s.peer /\ t.out = f
  BY ONLY <1>3, <1>4
<1>6. /\ Out(t, p) = o
      /\ \A q \in Peers : q # p => Out(t, q) = Out(s, q)
      /\ \A q \in Peers : Client(t, q) = Client(s, q)
  BY ONLY <1>2, <1>5, p \in Peers DEF Client, Out
<1> QED
  BY ONLY <1>5, <1>6

\* What the invariant says in a state, by parts.
LEMMA HoldsNow ==
  ASSUME SimInv
  PROVE  /\ rooms \in Nat /\ count.starts \in Nat /\ sim \in Sims(rooms)
         /\ Holds(sim, conn, wire, runners, count.starts)
         /\ Agreed(sim, conn) /\ Guarded(sim) /\ Silent(sim, runners)
         /\ sim.phase = "waiting-a" => sim.openSent
         /\ count.starts = 0 => Untouched(sim, wire, runners)
         /\ count.starts <= 1 => First(sim, conn, wire, runners)
         /\ \A p \in Peers : server[p].room \in 0 .. rooms
         /\ \A p \in Peers : conn[p] \in {"off", "live", "dead"}
         /\ \A p \in Peers : wire[p] \in Seq(FramesOf(rooms))
BY DEF SimInv, ProcessType, Holds

\* An action that ends in a render and changes no room.
LEMMA RenderedHolds ==
  ASSUME rooms \in Nat, UNCHANGED roomVars, NEW s, NEW c, NEW w, NEW R, NEW k \in Nat,
         c = conn', w = wire', R = runners', k = count'.starts,
         Holds(s, c, w, R, k), \A p \in Peers : c[p] = "live" => conn[p] # "dead", Render(s)
  PROVE  /\ Holds(sim, conn, wire, runners, count.starts)'
         /\ (sim.phase = "waiting-a" => sim.openSent)'
<1>1. Holds(sim', c, w, R, k) /\ (sim'.phase = "waiting-a" => sim'.openSent)
  BY RenderKeeps
<1>2. rooms' = rooms /\ server' = server /\ closed' = closed
  BY DEF roomVars
<1>3. k = 0 => Untouched(sim, wire, runners)'
  BY <1>1, <1>2 DEF Holds, Untouched
<1>4. k <= 1 => First(sim, conn, wire, runners)'
  BY <1>1, <1>2 DEF Holds, First, Started, WaitsForA, Handed, HasRoom
<1>5. /\ (sim \in Sims(rooms))' /\ Agreed(sim, conn)' /\ Guarded(sim)' /\ Silent(sim, runners)'
  BY <1>1, <1>2 DEF Holds
<1> QED
  BY <1>1, <1>3, <1>4, <1>5 DEF Holds

LEMMA OffersAre ==
  /\ "start" \in Offers => sim.phase = "idle" /\ \A p \in Peers : Status(sim, p) = "connected"
  /\ "reconnect" \in Offers => sim.phase = "idle"
  /\ "run" \in Offers => sim.phase = "ready"
  /\ "runAgain" \in Offers => sim.phase = "done"
  /\ "reset" \in Offers => sim.phase # "idle"
BY DEF Offers, Status

\* No counter but its own changes.
LEMMA CountIs ==
  ASSUME ProcessType, NEW what \in {"starts", "runs", "troubles"}, NEW max, Count(what, max)
  PROVE  /\ count' \in [{"starts", "runs", "troubles"} -> Nat]
         /\ count'[what] = count[what] + 1
         /\ \A o \in {"starts", "runs", "troubles"} : o # what => count'[o] = count[o]
BY DEF ProcessType, Count

WireOff == \A p \in Peers : conn[p] = "off" => wire[p] = <<>>

LEMMA SocketsAlone ==
  ASSUME ProcessType, WireOff, UNCHANGED <<roomVars, conn, wire>>,
         count' \in [{"starts", "runs", "troubles"} -> Nat]
  PROVE  ProcessType' /\ WireOff'
BY DEF ProcessType, WireOff, roomVars

LEMMA RunnersAlone ==
  ASSUME RunnerType, UNCHANGED runners, count'.runs = count.runs
  PROVE  RunnerType'
BY DEF RunnerType

LEMMA Parts ==
  /\ SimInv <=> /\ ProcessType /\ RunnerType /\ Holds(sim, conn, wire, runners, count.starts)
                /\ sim.phase = "waiting-a" => sim.openSent
                /\ WireOff
  /\ SimInv' <=> /\ ProcessType' /\ RunnerType'
                 /\ Holds(sim, conn, wire, runners, count.starts)'
                 /\ (sim.phase = "waiting-a" => sim.openSent)'
                 /\ WireOff'
BY DEF SimInv, WireOff

LEMMA NotDead ==
  ASSUME NEW c, c = conn
  PROVE  \A p \in Peers : c[p] = "live" => conn[p] # "dead"
OBVIOUS

LEMMA StartSimKeeps ==
  ASSUME SimInv, StartSim
  PROVE  SimInv'
<1> DEFINE s == [sim EXCEPT !.openSent = FALSE, !.joinSent = FALSE, !.cancel = FALSE,
                            !.phase = "waiting-a"]
<1>1. /\ "start" \in Offers /\ Count("starts", MaxStarts) /\ Render(s)
      /\ UNCHANGED <<runners, roomVars, conn, wire>>
  BY DEF StartSim
<1>2. sim.phase = "idle" /\ \A p \in Peers : Status(sim, p) = "connected"
  BY <1>1, OffersAre
<1>3. /\ rooms \in Nat /\ count.starts \in Nat /\ sim \in Sims(rooms)
      /\ Agreed(sim, conn)
      /\ count.starts = 0 => Untouched(sim, wire, runners)
      /\ server["B"].room \in 0 .. rooms
  BY HoldsNow, TwoPeers
<1>4. /\ count' \in [{"starts", "runs", "troubles"} -> Nat]
      /\ count'.starts = count.starts + 1 /\ count'.runs = count.runs
  <2>1. ProcessType
    BY DEF SimInv
  <2> QED
    BY <1>1, <2>1, CountIs
<1>5. /\ s \in Sims(rooms) /\ ~s.openSent /\ ~s.joinSent /\ ~s.cancel /\ s.phase = "waiting-a"
      /\ s.peer = sim.peer /\ s.out = sim.out
  BY <1>3 DEF Sims, Phases
<1> HIDE DEF s
<1>6. PICK k \in Nat : k = count'.starts /\ k # 0 /\ (k <= 1 => count.starts = 0)
  BY <1>3, <1>4
<1>7. PICK c : c = conn
  OBVIOUS
<1>8. \A p \in Peers : /\ Status(s, p) = Status(sim, p) /\ Out(s, p) = Out(sim, p)
                       /\ RoomOn(s, p) = RoomOn(sim, p)
  BY <1>5, SameParts
<1>9. ASSUME count.starts = 0 PROVE First(s, c, wire, runners)
  <2>1. /\ runners = {} /\ rooms = 0
        /\ \A p \in Peers : Out(sim, p) = <<>> /\ ~EntersRoom(sim, wire, p)
    BY <1>3, <1>9 DEF Untouched
  <2>2. closed = {}
    <3>1. closed \subseteq 1 .. 0
      BY <2>1 DEF SimInv, ProcessType
    <3> QED
      BY <3>1
  <2>3. Started(s)
    BY <1>2, <1>5, <1>8, <2>1, <2>2, TwoPeers DEF Started
  <2>4. server["B"].room = 0
    BY <1>3, <2>1
  <2>5. WaitsForA(s, c, wire)
    BY <1>5, <1>8, <2>1, <2>4, TwoPeers DEF WaitsForA, EntersRoom
  <2> QED
    BY <1>5, <2>1, <2>3, <2>5 DEF First, OneRun, AfterA
<1>10. Agreed(s, c)
  BY <1>3, <1>7, <1>8 DEF Agreed
<1>11. Guarded(s) /\ Silent(s, runners)
  BY <1>2, <1>5, <1>8, TwoPeers DEF Guarded, Silent
<1>12. Holds(s, c, wire, runners, k)
  BY <1>5, <1>6, <1>9, <1>10, <1>11 DEF Holds
<1>13. PICK w, R : w = wire /\ R = runners
  OBVIOUS
<1>14. c = conn' /\ w = wire' /\ R = runners' /\ UNCHANGED roomVars
  BY <1>1, <1>7, <1>13
<1>15. Holds(s, c, w, R, k)
  BY <1>12, <1>13
<1>16. /\ Holds(sim, conn, wire, runners, count.starts)'
       /\ (sim.phase = "waiting-a" => sim.openSent)'
  <2>1. \A p \in Peers : c[p] = "live" => conn[p] # "dead"
    BY ONLY <1>7, NotDead
  <2> QED
    BY ONLY <1>1, <1>3, <1>6, <1>14, <1>15, <2>1, RenderedHolds
<1>17. ProcessType' /\ WireOff' /\ RunnerType'
  BY <1>1, <1>4, SocketsAlone, RunnersAlone, Parts
<1> QED
  BY ONLY <1>16, <1>17, Parts

\* So much is enough for an action that ends in a render.
LEMMA RenderedKeeps ==
  ASSUME rooms \in Nat, UNCHANGED roomVars, NEW s, NEW c, NEW w, NEW R, NEW k \in Nat,
         c = conn', w = wire', R = runners', k = count'.starts,
         s \in Sims(rooms), Agreed(s, c), Guarded(s), Silent(s, R),
         k = 0 => Untouched(s, w, R), k <= 1 => First(s, c, w, R),
         \A p \in Peers : c[p] = "live" => conn[p] # "dead", Render(s),
         ProcessType', WireOff', RunnerType'
  PROVE  SimInv'
<1>1. Holds(s, c, w, R, k)
  BY DEF Holds
<1>2. /\ Holds(sim, conn, wire, runners, count.starts)'
      /\ (sim.phase = "waiting-a" => sim.openSent)'
  BY <1>1, RenderedHolds
<1> QED
  BY ONLY <1>2, Parts, ProcessType', WireOff', RunnerType'

LEMMA SamePeers ==
  ASSUME NEW s, NEW t, t.peer = s.peer, NEW c, Agreed(s, c)
  PROVE  Agreed(t, c)
BY DEF Agreed, Status

\* Once both are asked, only the phase moves on.
LEMMA Rephased ==
  ASSUME NEW s, NEW t, t.peer = s.peer, t.out = s.out, t.openSent = s.openSent,
         s.phase \in {"ready", "running", "done"}, t.phase \in {"ready", "running", "done"},
         NEW c, NEW w, NEW R, First(s, c, w, R), NEW Q, OneRun(t, Q)
  PROVE  First(t, c, w, Q)
<1>1. Started(s) /\ Handed(s, c, w)
  BY DEF First, AfterA
<1>2. \A p \in Peers : Status(t, p) = Status(s, p) /\ Out(t, p) = Out(s, p)
  BY SameParts
<1>3. Started(t)
  BY <1>1, <1>2, StartedAlike, TwoPeers
<1>4. Handed(t, c, w)
  BY <1>1, <1>2, TwoPeers DEF Handed
<1> QED
  BY <1>3, <1>4 DEF First

LEMMA RunAgainKeeps ==
  ASSUME SimInv, RunAgain
  PROVE  SimInv'
<1> DEFINE s == [sim EXCEPT !.phase = "ready"]
<1>1. /\ "runAgain" \in Offers /\ Render(s)
      /\ UNCHANGED <<runners, roomVars, conn, wire, count>>
  BY DEF RunAgain
<1>2. sim.phase = "done"
  BY <1>1, OffersAre
<1>3. /\ rooms \in Nat /\ count.starts \in Nat /\ sim \in Sims(rooms)
      /\ Agreed(sim, conn) /\ Guarded(sim)
      /\ count.starts = 0 => Untouched(sim, wire, runners)
      /\ count.starts <= 1 => First(sim, conn, wire, runners)
  BY HoldsNow
<1>4. /\ s \in Sims(rooms) /\ s.openSent = sim.openSent /\ s.joinSent = sim.joinSent
      /\ s.phase = "ready" /\ s.peer = sim.peer /\ s.out = sim.out
  BY <1>3 DEF Sims, Phases
<1> HIDE DEF s
<1>5. PICK c, w, R, k : c = conn /\ w = wire /\ R = runners /\ k = count.starts
  OBVIOUS
<1>6. c = conn' /\ w = wire' /\ R = runners' /\ k = count'.starts /\ k \in Nat
      /\ UNCHANGED roomVars
  BY <1>1, <1>3, <1>5
<1>7. Agreed(s, c) /\ Guarded(s) /\ Silent(s, R)
  BY <1>3, <1>4, <1>5, SamePeers DEF Guarded, Silent
<1>8. k = 0 => Untouched(s, w, R)
  BY <1>2, <1>3, <1>5 DEF Untouched
<1>9. k <= 1 => First(s, c, w, R)
  <2>1. ASSUME k <= 1 PROVE First(s, c, w, R)
    <3>1. First(sim, c, w, R)
      BY <1>3, <1>5, <2>1
    <3>2. OneRun(s, R)
      BY <1>2, <1>4, <3>1 DEF First, OneRun
    <3> QED
      BY <1>2, <1>4, <3>1, <3>2, Rephased
  <2> QED
    BY <2>1
<1>10. \A p \in Peers : c[p] = "live" => conn[p] # "dead"
  BY ONLY <1>5, NotDead
<1>11. ProcessType' /\ WireOff' /\ RunnerType'
  <2>1. count' \in [{"starts", "runs", "troubles"} -> Nat] /\ count'.runs = count.runs
    BY <1>1, Parts DEF ProcessType
  <2> QED
    BY <1>1, <2>1, SocketsAlone, RunnersAlone, Parts
<1> QED
  BY ONLY <1>1, <1>3, <1>4, <1>6, <1>7, <1>8, <1>9, <1>10, <1>11, RenderedKeeps

LEMMA RunScenarioKeeps ==
  ASSUME SimInv, RunScenario
  PROVE  SimInv'
<1> DEFINE s == [sim EXCEPT !.cancel = FALSE, !.phase = "running"]
<1>1. PICK id \in Scenarios :
        /\ "run" \in Offers /\ Count("runs", MaxRuns) /\ Render(s)
        /\ runners' = runners \cup {[run |-> count.runs, left |-> SCENARIOS[id]]}
        /\ UNCHANGED <<roomVars, conn, wire>>
  BY DEF RunScenario
<1>2. sim.phase = "ready"
  BY <1>1, OffersAre
<1>3. /\ rooms \in Nat /\ count.starts \in Nat /\ sim \in Sims(rooms)
      /\ Agreed(sim, conn) /\ Guarded(sim)
      /\ count.starts = 0 => Untouched(sim, wire, runners)
      /\ count.starts <= 1 => First(sim, conn, wire, runners)
  BY HoldsNow
<1>4. /\ s \in Sims(rooms) /\ s.openSent = sim.openSent /\ s.joinSent = sim.joinSent
      /\ s.phase = "running" /\ s.peer = sim.peer /\ s.out = sim.out /\ ~s.cancel
  BY <1>3 DEF Sims, Phases
<1> HIDE DEF s
<1>5. /\ count' \in [{"starts", "runs", "troubles"} -> Nat]
      /\ count'.starts = count.starts /\ count'.runs = count.runs + 1
      /\ count.runs \in Nat
  <2>1. ProcessType
    BY Parts
  <2>2. count.runs \in Nat
    BY <2>1 DEF ProcessType
  <2> QED
    BY <1>1, <2>1, <2>2, CountIs
<1>6. PICK l : l = SCENARIOS[id]
  OBVIOUS
<1>7. l \in Seq(Timers) /\ l # <<>>
  BY <1>6, ScenarioTimers
<1>8. PICK e : e = [run |-> count.runs, left |-> l]
  OBVIOUS
<1>9. runners' = runners \cup {e} /\ e.run = count.runs /\ e.left = l
  BY <1>1, <1>6, <1>8
<1>10. PICK c, w, R, k : c = conn /\ w = wire /\ R = runners' /\ k = count.starts
  OBVIOUS
<1>11. c = conn' /\ w = wire' /\ R = runners' /\ k = count'.starts /\ k \in Nat
       /\ UNCHANGED roomVars
  BY <1>1, <1>3, <1>5, <1>10
<1>12. Agreed(s, c) /\ Guarded(s) /\ Silent(s, R)
  BY <1>3, <1>4, <1>10, SamePeers DEF Guarded, Silent
<1>13. k = 0 => Untouched(s, w, R)
  BY <1>2, <1>3, <1>10 DEF Untouched
<1>14. k <= 1 => First(s, c, w, R)
  <2>1. ASSUME k <= 1 PROVE First(s, c, w, R)
    <3>1. First(sim, c, w, runners)
      BY <1>3, <1>10, <2>1
    <3>2. R = {e}
      BY <1>2, <1>9, <1>10, <3>1 DEF First, OneRun
    <3>3. OneRun(s, R)
      BY <1>4, <3>2 DEF OneRun
    <3> QED
      BY <1>2, <1>4, <3>1, <3>3, Rephased
  <2> QED
    BY <2>1
<1>15. \A p \in Peers : c[p] = "live" => conn[p] # "dead"
  BY ONLY <1>10, NotDead
<1>16. ProcessType' /\ WireOff'
  BY <1>1, <1>5, SocketsAlone, Parts
<1>17. RunnerType'
  <2>1. RunnerType
    BY Parts
  <2>2. \A d \in runners : d.run < count'.runs
    BY <1>5, <2>1 DEF RunnerType
  <2>3. e.run < count'.runs
    BY <1>5, <1>9
  <2>4. e = [run |-> e.run, left |-> e.left]
    BY <1>8
  <2> QED
    BY <1>5, <1>7, <1>9, <2>1, <2>2, <2>3, <2>4 DEF RunnerType
<1> QED
  BY ONLY <1>1, <1>3, <1>4, <1>11, <1>12, <1>13, <1>14, <1>15, <1>16, <1>17, RenderedKeeps

LEMMA LeavesIs ==
  ASSUME NEW n \in Nat, NEW s \in Sims(n), NEW p \in Peers, NEW l, l = Leaves(s, p)
  PROVE  l \in Sims(n) /\ l.peer = s.peer
<1>1. PICK b : b = Send(s, p, "leave", 0)
  OBVIOUS
<1>2. b \in Sims(n) /\ b.peer = s.peer
  <2>1. "leave" \in {"open", "join", "leave"} /\ 0 \in 0 .. n
    OBVIOUS
  <2> QED
    BY <1>1, <2>1, SendIs
<1> QED
  BY <1>1, <1>2 DEF Leaves

LEMMA ResetIs ==
  ASSUME NEW n \in Nat, NEW s \in Sims(n), NEW t, t = Reset(s)
  PROVE  /\ t \in Sims(n) /\ t.peer = s.peer
         /\ t.phase = "idle" /\ ~t.openSent /\ ~t.joinSent /\ t.cancel
<1>1. PICK a : a = Leaves(s, "A")
  OBVIOUS
<1>2. PICK b : b = Leaves(a, "B")
  OBVIOUS
<1>3. a \in Sims(n) /\ a.peer = s.peer
  BY <1>1, LeavesIs, TwoPeers
<1>4. b \in Sims(n) /\ b.peer = s.peer
  BY ONLY n \in Nat, <1>2, <1>3, LeavesIs, TwoPeers
<1>5. t = [b EXCEPT !.cancel = TRUE, !.openSent = FALSE, !.joinSent = FALSE, !.phase = "idle"]
  BY <1>1, <1>2 DEF Reset
<1> QED
  BY ONLY <1>4, <1>5 DEF Sims, Phases

LEMMA ResetKeeps ==
  ASSUME SimInv, ResetClicked
  PROVE  SimInv'
<1>1. /\ "reset" \in Offers /\ Render(Reset(sim))
      /\ UNCHANGED <<runners, roomVars, conn, wire, count>>
  BY DEF ResetClicked
<1>2. sim.phase # "idle"
  BY <1>1, OffersAre
<1>3. /\ rooms \in Nat /\ count.starts \in Nat /\ sim \in Sims(rooms)
      /\ Agreed(sim, conn) /\ Guarded(sim)
      /\ count.starts = 0 => Untouched(sim, wire, runners)
      /\ count.starts <= 1 => First(sim, conn, wire, runners)
  BY HoldsNow
<1>4. PICK s : s = Reset(sim)
  OBVIOUS
<1>5. /\ s \in Sims(rooms) /\ s.peer = sim.peer
      /\ s.phase = "idle" /\ ~s.openSent /\ ~s.joinSent /\ s.cancel
  BY <1>3, <1>4, ResetIs
<1>6. PICK c, w, R, k : c = conn /\ w = wire /\ R = runners /\ k = count.starts
  OBVIOUS
<1>7. c = conn' /\ w = wire' /\ R = runners' /\ k = count'.starts /\ k \in Nat
      /\ UNCHANGED roomVars
  BY <1>1, <1>3, <1>6
<1>8. Agreed(s, c) /\ Guarded(s) /\ Silent(s, R)
  BY <1>3, <1>5, <1>6, SamePeers DEF Guarded, Silent
<1>9. k = 0 => Untouched(s, w, R)
  BY <1>2, <1>3, <1>6 DEF Untouched
<1>10. k <= 1 => First(s, c, w, R)
  <2>1. ASSUME k <= 1 PROVE First(s, c, w, R)
    <3>1. \A d, e \in R : d = e
      BY <1>3, <1>6, <2>1 DEF First, OneRun
    <3> QED
      BY <1>5, <3>1 DEF First, OneRun, AfterA
  <2> QED
    BY <2>1
<1>11. \A p \in Peers : c[p] = "live" => conn[p] # "dead"
  BY ONLY <1>6, NotDead
<1>12. ProcessType' /\ WireOff' /\ RunnerType'
  <2>1. count' \in [{"starts", "runs", "troubles"} -> Nat] /\ count'.runs = count.runs
    BY <1>1, Parts DEF ProcessType
  <2> QED
    BY <1>1, <2>1, SocketsAlone, RunnersAlone, Parts
<1>13. Render(s)
  BY <1>1, <1>4
<1> QED
  BY ONLY <1>3, <1>5, <1>7, <1>8, <1>9, <1>10, <1>11, <1>12, <1>13, RenderedKeeps

\* A page that connects anew, idle: no connection is on, and nothing is to read.
LEMMA NewClients ==
  ASSUME NEW n \in Nat, NEW f, f = [p \in Peers |-> Connecting("open")]
  PROVE  /\ f \in [Peers -> ClientsOf(n)]
         /\ \A p \in Peers : f[p].status = "connecting" /\ f[p].view.roomState = "pending"
<1>1. "open" \in Actions
  BY DEF Actions
<1> QED
  BY <1>1, ConnectingIs

LEMMA ProcessesAlone ==
  ASSUME ProcessType, UNCHANGED roomVars,
         conn' = [p \in Peers |-> "off"], wire' = [p \in Peers |-> <<>>],
         count' \in [{"starts", "runs", "troubles"} -> Nat]
  PROVE  ProcessType' /\ WireOff'
<1>1. <<>> \in Seq(FramesOf(rooms))
  OBVIOUS
<1> QED
  BY <1>1 DEF ProcessType, WireOff, roomVars

LEMMA ReconnectKeeps ==
  ASSUME SimInv, ReconnectPeers
  PROVE  SimInv'
<1> DEFINE f == [p \in Peers |-> Connecting("open")]
           s == [sim EXCEPT !.peer = f]
<1>1. /\ "reconnect" \in Offers /\ Count("troubles", MaxTroubles) /\ Render(s)
      /\ conn' = [p \in Peers |-> "off"] /\ wire' = [p \in Peers |-> <<>>]
      /\ UNCHANGED <<runners, roomVars>>
  BY DEF ReconnectPeers, Trouble
<1>2. sim.phase = "idle"
  BY <1>1, OffersAre
<1>3. /\ rooms \in Nat /\ count.starts \in Nat /\ sim \in Sims(rooms)
      /\ Guarded(sim) /\ Silent(sim, runners)
      /\ count.starts = 0 => Untouched(sim, wire, runners)
      /\ count.starts <= 1 => First(sim, conn, wire, runners)
  BY HoldsNow
<1>4. /\ f \in [Peers -> ClientsOf(rooms)]
      /\ \A p \in Peers : f[p].status = "connecting" /\ f[p].view.roomState = "pending"
  BY <1>3, NewClients
<1> HIDE DEF f
<1>5. /\ s \in Sims(rooms) /\ s.openSent = sim.openSent /\ s.joinSent = sim.joinSent
      /\ s.phase = sim.phase /\ s.cancel = sim.cancel /\ s.peer = f /\ s.out = sim.out
  BY <1>3, <1>4 DEF Sims
<1> HIDE DEF s
<1>6. \A p \in Peers : /\ Status(s, p) = "connecting" /\ RoomOn(s, p) = "pending"
                       /\ Out(s, p) = Out(sim, p)
  BY <1>4, <1>5 DEF Status, RoomOn, Out
<1>7. PICK c, w, R, k : /\ c = [p \in Peers |-> "off"] /\ w = [p \in Peers |-> <<>>]
                        /\ R = runners /\ k = count.starts
  OBVIOUS
<1>8. /\ count' \in [{"starts", "runs", "troubles"} -> Nat]
      /\ count'.starts = count.starts /\ count'.runs = count.runs
  BY <1>1, CountIs, Parts
<1>9. c = conn' /\ w = wire' /\ R = runners' /\ k = count'.starts /\ k \in Nat
      /\ UNCHANGED roomVars
  BY <1>1, <1>3, <1>7, <1>8
<1>10. (s.joinSent => s.openSent) /\ (s.cancel \/ R = {})
  BY <1>2, <1>3, <1>5, <1>7 DEF Guarded, Silent
<1>11. Agreed(s, c) /\ Guarded(s) /\ Silent(s, R)
       /\ \A p \in Peers : c[p] = "live" => conn[p] # "dead"
  <2>1. Agreed(s, c) /\ \A p \in Peers : c[p] = "live" => conn[p] # "dead"
    BY <1>6, <1>7 DEF Agreed
  <2>2. Guarded(s) /\ Silent(s, R)
    BY <1>2, <1>5, <1>10 DEF Guarded, Silent
  <2> QED
    BY <2>1, <2>2
<1>12. k = 0 => Untouched(s, w, R)
  <2>1. \A p \in Peers : ~EntersRoom(s, w, p)
    BY <1>6, <1>7, NoneAmong DEF EntersRoom
  <2> QED
    BY <1>2, <1>3, <1>5, <1>6, <1>7, <2>1 DEF Untouched
<1>13. k <= 1 => First(s, c, w, R)
  <2>1. ASSUME k <= 1 PROVE First(s, c, w, R)
    <3>1. \A d, e \in R : d = e
      BY <1>3, <1>7, <2>1 DEF First, OneRun
    <3> QED
      BY <1>2, <1>5, <1>10, <3>1 DEF First, OneRun, AfterA
  <2> QED
    BY <2>1
<1>14. ProcessType' /\ WireOff' /\ RunnerType'
  BY <1>1, <1>8, ProcessesAlone, RunnersAlone, Parts
<1> QED
  BY ONLY <1>1, <1>3, <1>5, <1>9, <1>11, <1>12, <1>13, <1>14, RenderedKeeps

LEMMA ReloadKeeps ==
  ASSUME SimInv, Reload
  PROVE  SimInv'
<1> DEFINE f == [p \in Peers |-> Connecting("open")]
<1>1. /\ Count("troubles", MaxTroubles) /\ sim' = [Fresh EXCEPT !.out = sim.out]
      /\ runners' = {}
      /\ conn' = [p \in Peers |-> "off"] /\ wire' = [p \in Peers |-> <<>>]
      /\ UNCHANGED roomVars
  BY DEF Reload, Trouble
<1>2. /\ rooms \in Nat /\ count.starts \in Nat /\ sim \in Sims(rooms)
      /\ count.starts = 0 => Untouched(sim, wire, runners)
  BY HoldsNow
<1>3. /\ f \in [Peers -> ClientsOf(rooms)]
      /\ \A p \in Peers : f[p].status = "connecting" /\ f[p].view.roomState = "pending"
  BY <1>2, NewClients
<1>4. sim' = [phase |-> "idle", openSent |-> FALSE, joinSent |-> FALSE, cancel |-> FALSE,
              peer |-> f, out |-> sim.out]
  BY <1>1 DEF Fresh
<1> HIDE DEF f
<1>5. PICK s : s = sim'
  OBVIOUS
<1>6. /\ s \in Sims(rooms) /\ ~s.openSent /\ ~s.joinSent /\ s.phase = "idle" /\ ~s.cancel
      /\ s.peer = f /\ s.out = sim.out
  BY <1>2, <1>3, <1>4, <1>5 DEF Sims, Phases
<1>7. \A p \in Peers : /\ Status(s, p) = "connecting" /\ RoomOn(s, p) = "pending"
                       /\ Out(s, p) = Out(sim, p)
  BY <1>3, <1>6 DEF Status, RoomOn, Out
<1>8. PICK c, w, R, k : /\ c = [p \in Peers |-> "off"] /\ w = [p \in Peers |-> <<>>]
                        /\ R = {} /\ k = count.starts
  OBVIOUS
<1>9. /\ count' \in [{"starts", "runs", "troubles"} -> Nat]
      /\ count'.starts = count.starts /\ count'.runs = count.runs
  BY <1>1, CountIs, Parts
<1>10. Agreed(s, c)
  BY <1>7, <1>8 DEF Agreed
<1>11. Guarded(s) /\ Silent(s, R)
  BY <1>6, <1>8 DEF Guarded, Silent
<1>12. k = 0 => Untouched(s, w, R)
  <2>1. \A p \in Peers : ~EntersRoom(s, w, p)
    BY <1>7, <1>8, NoneAmong DEF EntersRoom
  <2> QED
    BY <1>2, <1>6, <1>7, <1>8, <2>1 DEF Untouched
<1>13. First(s, c, w, R)
  BY <1>6, <1>8 DEF First, OneRun, AfterA
<1>14. Holds(s, c, w, R, k)
  BY <1>6, <1>10, <1>11, <1>12, <1>13 DEF Holds
<1>15. ProcessType' /\ WireOff'
  BY <1>1, <1>9, ProcessesAlone, Parts
<1>16. RunnerType'
  BY <1>1 DEF RunnerType
<1>17. rooms' = rooms /\ server' = server /\ closed' = closed
  BY <1>1 DEF roomVars
<1>18. c = conn' /\ w = wire' /\ R = runners' /\ k = count'.starts
  BY <1>1, <1>8, <1>9
<1>19. Holds(sim, conn, wire, runners, count.starts)'
  <2>1. /\ (sim \in Sims(rooms))' /\ Agreed(sim, conn)' /\ Guarded(sim)'
        /\ Silent(sim, runners)'
    BY <1>5, <1>6, <1>10, <1>11, <1>17, <1>18
  <2>2. (count.starts = 0 => Untouched(sim, wire, runners))'
    BY <1>5, <1>12, <1>17, <1>18 DEF Untouched
  <2>3. First(sim, conn, wire, runners)'
    BY <1>5, <1>6, <1>8, <1>18 DEF First, OneRun, AfterA
  <2> QED
    BY <2>1, <2>2, <2>3 DEF Holds
<1>20. (sim.phase = "waiting-a" => sim.openSent)'
  BY <1>5, <1>6
<1> QED
  BY ONLY <1>15, <1>16, <1>19, <1>20, Parts

\* What is left of a runner when a timer of its fires.
LEMMA TimerOff ==
  ASSUME RunnerType, NEW e \in runners, NEW d, d = [e EXCEPT !.left = Tail(@)],
         ~PlayedOut(e.left)
  PROVE  /\ d.run = e.run /\ d.left \in Seq(Timers) /\ d.left # <<>>
         /\ d = [run |-> d.run, left |-> d.left]
<1>1. e.left \in Seq(Timers) /\ e.left # <<>> /\ e = [run |-> e.run, left |-> e.left]
  BY DEF RunnerType
<1>2. PICK l : l = Tail(e.left)
  OBVIOUS
<1>3. l \in Seq(Timers) /\ l # <<>>
  BY <1>1, <1>2 DEF PlayedOut
<1>4. d = [run |-> e.run, left |-> l]
  BY <1>1, <1>2
<1>5. d.run = e.run /\ d.left = l
  BY ONLY <1>4
<1> QED
  BY ONLY <1>3, <1>4, <1>5

LEMMA TimerKeeps ==
  ASSUME SimInv, NEW e \in runners, TimerFires(e)
  PROVE  SimInv'
<1> DEFINE d == [e EXCEPT !.left = Tail(@)]
           last == PlayedOut(e.left)
           s == IF ~sim.cancel /\ last THEN [sim EXCEPT !.phase = "done"] ELSE sim
<1>1. /\ runners' = IF sim.cancel \/ last THEN runners \ {e} ELSE (runners \ {e}) \cup {d}
      /\ Render(s) /\ UNCHANGED <<roomVars, conn, wire, count>>
  <2>1. /\ IF sim.cancel \/ last THEN runners' = runners \ {e}
           ELSE runners' = (runners \ {e}) \cup {d}
        /\ Render(s) /\ UNCHANGED <<roomVars, conn, wire, count>>
    BY DEF TimerFires
  <2> HIDE DEF s, d, last
  <2> QED
    BY <2>1
<1>2. /\ rooms \in Nat /\ count.starts \in Nat /\ sim \in Sims(rooms)
      /\ Agreed(sim, conn) /\ Guarded(sim) /\ Silent(sim, runners)
      /\ count.starts = 0 => Untouched(sim, wire, runners)
      /\ count.starts <= 1 => First(sim, conn, wire, runners)
  BY HoldsNow
<1>3. ~last => /\ d.run = e.run /\ d.left \in Seq(Timers) /\ d.left # <<>>
               /\ d = [run |-> d.run, left |-> d.left]
  BY TimerOff, Parts
<1>4. /\ s \in Sims(rooms) /\ s.openSent = sim.openSent /\ s.joinSent = sim.joinSent
      /\ s.peer = sim.peer /\ s.out = sim.out /\ s.cancel = sim.cancel
      /\ ~sim.cancel /\ last => s.phase = "done"
      /\ sim.cancel \/ ~last => s = sim
  <2>1. CASE ~sim.cancel /\ last
    BY <1>2, <2>1 DEF Sims, Phases
  <2>2. CASE ~(~sim.cancel /\ last)
    BY <1>2, <2>2
  <2> QED
    BY <2>1, <2>2
<1> HIDE DEF s, d, last
<1>5. PICK c, w, R, k : c = conn /\ w = wire /\ R = runners' /\ k = count.starts
  OBVIOUS
<1>6. c = conn' /\ w = wire' /\ R = runners' /\ k = count'.starts /\ k \in Nat
      /\ UNCHANGED roomVars
  BY <1>1, <1>2, <1>5
<1>7. Agreed(s, c) /\ Guarded(s)
  <2>1. s.phase = "waiting-a" => s = sim
    BY <1>4
  <2>2. Agreed(s, c)
    BY <1>2, <1>4, <1>5, SamePeers
  <2>3. Guarded(s)
    BY <1>2, <1>4, <2>1 DEF Guarded
  <2> QED
    BY <2>2, <2>3
<1>8. Silent(s, R)
  <2>1. ASSUME s.phase = "idle" PROVE s.cancel \/ R = {}
    BY <1>2, <1>4, <2>1 DEF Silent
  <2> QED
    BY <2>1 DEF Silent
<1>9. k = 0 => Untouched(s, w, R)
  BY <1>2, <1>5 DEF Untouched
<1>10. k <= 1 => First(s, c, w, R)
  <2>1. ASSUME k <= 1 PROVE First(s, c, w, R)
    <3>1. First(sim, c, w, runners)
      BY <1>2, <1>5, <2>1
    <3>2. runners = {e} /\ (sim.phase = "running" => ~sim.cancel)
          /\ (~sim.cancel => sim.phase = "running")
      <4>1. sim.phase \in Phases
        BY <1>2 DEF Sims
      <4> QED
        BY <3>1, <4>1 DEF First, OneRun, Phases
    <3>3. CASE sim.cancel
      <4>1. R = {} /\ s = sim /\ sim.phase # "running"
        BY <1>1, <1>4, <1>5, <3>2, <3>3
      <4>2. OneRun(sim, {})
        BY <4>1 DEF OneRun
      <4> QED
        BY <3>1, <4>1, <4>2 DEF First
    <3>4. CASE ~sim.cancel /\ last
      <4>1. R = {} /\ s.phase = "done" /\ sim.phase = "running"
        BY <1>1, <1>4, <1>5, <3>2, <3>4
      <4>2. OneRun(s, R)
        BY <4>1 DEF OneRun
      <4> QED
        BY <1>4, <3>1, <4>1, <4>2, Rephased
    <3>5. CASE ~sim.cancel /\ ~last
      <4>1. R = {d} /\ s = sim /\ sim.phase = "running"
        BY <1>1, <1>4, <1>5, <3>2, <3>5
      <4>2. OneRun(s, R)
        BY <3>5, <4>1 DEF OneRun
      <4> QED
        BY <1>4, <3>1, <4>1, <4>2, Rephased
    <3> QED
      BY <3>3, <3>4, <3>5
  <2> QED
    BY <2>1
<1>11. \A p \in Peers : c[p] = "live" => conn[p] # "dead"
  BY ONLY <1>5, NotDead
<1>12. ProcessType' /\ WireOff'
  <2>1. count' \in [{"starts", "runs", "troubles"} -> Nat]
    BY <1>1, Parts DEF ProcessType
  <2> QED
    BY <1>1, <2>1, SocketsAlone, Parts
<1>13. RunnerType'
  <2>1. RunnerType /\ count' = count
    BY <1>1, Parts
  <2>2. ~last => d.run \in Nat /\ d.run < count.runs
    BY <1>3, <2>1 DEF RunnerType
  <2>3. \A x \in runners' : x \in runners \/ (x = d /\ ~last)
    BY <1>1
  <2> QED
    BY <1>3, <2>1, <2>2, <2>3 DEF RunnerType
<1> QED
  BY ONLY <1>1, <1>2, <1>4, <1>6, <1>7, <1>8, <1>9, <1>10, <1>11, <1>12, <1>13, RenderedKeeps

-----------------------------------------------------------------------------
(* The sockets: what is lost, of connections, commands and frames, promises *)
(* no less of the first start.                                              *)

LEMMA SameRooms ==
  ASSUME UNCHANGED roomVars, NEW t, NEW c, NEW w, NEW R
  PROVE  /\ First(t, c, w, R)' <=> First(t, c, w, R)
         /\ Untouched(t, w, R)' <=> Untouched(t, w, R)
<1>1. rooms' = rooms /\ server' = server /\ closed' = closed
  BY DEF roomVars
<1> QED
  BY <1>1 DEF First, Untouched, Started, WaitsForA, Handed, HasRoom

Fewer(s, t, c, d, w, v) ==
  /\ t.phase = s.phase /\ t.openSent = s.openSent /\ t.joinSent = s.joinSent
  /\ s.cancel <=> t.cancel
  /\ \A p \in Peers :
       /\ Out(t, p) = Out(s, p) \/ (Out(t, p) = <<>> /\ d[p] # "live")
       /\ Status(t, p) = "connecting" => Status(s, p) = "connecting"
       /\ d[p] = "live" => c[p] = "live"
       /\ EntersRoom(t, v, p) => EntersRoom(s, w, p)

LEMMA FewerIsFirst ==
  ASSUME NEW s, NEW t, NEW c, NEW d, NEW w, NEW v, NEW R, Fewer(s, t, c, d, w, v),
         First(s, c, w, R), rooms' = rooms, closed' = closed,
         \A p \in Peers : \/ server'[p].room = server[p].room
                          \/ server'[p].room = 0 /\ d[p] # "live"
  PROVE  First(t, d, v, R)'
<1>1. OneRun(t, R)
  BY DEF First, OneRun, Fewer
<1>2. Started(s) => Started(t)'
  BY TwoPeers DEF Started, Fewer
<1>3. \A p \in Peers : HasRoom(c, p) => HasRoom(d, p)'
  BY DEF HasRoom, Fewer
<1>4. WaitsForA(s, c, w) => WaitsForA(t, d, v)'
  <2>1. SUFFICES ASSUME WaitsForA(s, c, w) PROVE WaitsForA(t, d, v)'
    OBVIOUS
  <2>2. ~t.joinSent /\ Out(t, "B") = <<>> /\ server'["B"].room = 0 /\ ~EntersRoom(t, v, "B")
    BY <2>1, TwoPeers DEF WaitsForA, Fewer
  <2>3. t.openSent /\ Out(t, "A") = <<>> => HasRoom(d, "A")'
    <3>1. CASE Out(t, "A") = Out(s, "A")
      BY <1>3, <2>1, <3>1, TwoPeers DEF WaitsForA, Fewer
    <3>2. CASE d["A"] # "live"
      BY <3>2 DEF HasRoom
    <3> QED
      BY <3>1, <3>2, TwoPeers DEF Fewer
  <2> QED
    BY <2>2, <2>3 DEF WaitsForA
<1>5. Handed(s, c, w) => Handed(t, d, v)'
  <2>1. SUFFICES ASSUME Handed(s, c, w) PROVE Handed(t, d, v)'
    OBVIOUS
  <2>2. rooms' = 1 /\ HasRoom(d, "A")'
    BY <1>3, <2>1, TwoPeers DEF Handed
  <2>3. /\ Out(t, "B") \in {<<>>, Adds(<<>>, "join", 1)}
        /\ Out(t, "B") # <<>> => server'["B"].room = 0
    BY <2>1, TwoPeers DEF Handed, Fewer
  <2>4. \/ HasRoom(d, "B")'
        \/ t.phase = "waiting-b" /\ Out(t, "B") # <<>> /\ ~EntersRoom(t, v, "B")
    <3>1. CASE HasRoom(c, "B")
      BY <1>3, <3>1, TwoPeers
    <3>2. CASE ~HasRoom(c, "B") /\ Out(t, "B") = Out(s, "B")
      BY <2>1, <3>2, TwoPeers DEF Handed, Fewer
    <3>3. CASE d["B"] # "live"
      BY <3>3 DEF HasRoom
    <3> QED
      BY <3>1, <3>2, <3>3, TwoPeers DEF Fewer
  <2> QED
    BY <2>2, <2>3, <2>4 DEF Handed
<1>6. t.phase = s.phase
  BY DEF Fewer
<1> QED
  BY <1>1, <1>2, <1>4, <1>5, <1>6 DEF First

LEMMA FewerIsUntouched ==
  ASSUME NEW s, NEW t, NEW c, NEW d, NEW w, NEW v, NEW R, Fewer(s, t, c, d, w, v),
         Untouched(s, w, R), rooms' = rooms
  PROVE  Untouched(t, v, R)'
BY DEF Untouched, Fewer

\* An action of a socket: it ends in a render, and starts nothing.
LEMMA SocketKeeps ==
  ASSUME SimInv, NEW s, s \in Sims(rooms), NEW d, d = conn', NEW v, v = wire',
         Fewer(sim, s, conn, d, wire, v), Agreed(s, d),
         UNCHANGED <<runners, roomVars, count>>, Render(s),
         \A p \in Peers : d[p] = "live" => conn[p] # "dead",
         ProcessType', WireOff'
  PROVE  SimInv'
<1>1. /\ rooms \in Nat /\ count.starts \in Nat /\ sim \in Sims(rooms)
      /\ Guarded(sim) /\ Silent(sim, runners)
      /\ sim.phase = "waiting-a" => sim.openSent
      /\ count.starts = 0 => Untouched(sim, wire, runners)
      /\ count.starts <= 1 => First(sim, conn, wire, runners)
  BY HoldsNow
<1>2. PICK c, w, R, k, r : /\ c = conn /\ w = wire /\ R = runners /\ k = count.starts
                           /\ r = sim
  OBVIOUS
<1>3. R = runners' /\ k = count'.starts /\ k \in Nat /\ UNCHANGED roomVars
  BY <1>1, <1>2
<1>4. /\ s.phase = sim.phase /\ s.openSent = sim.openSent /\ s.joinSent = sim.joinSent
      /\ sim.cancel <=> s.cancel
  BY DEF Fewer
<1>5. Guarded(s)
  BY <1>1, <1>4 DEF Guarded
<1>6. Silent(s, R)
  BY <1>1, <1>2, <1>4 DEF Silent
<1>7. Fewer(r, s, c, d, w, v)
  BY <1>2
<1>8. rooms' = rooms /\ closed' = closed /\ server' = server
  BY DEF roomVars
<1>9. k = 0 => Untouched(s, v, R)
  <2>1. ASSUME k = 0 PROVE Untouched(r, w, R)
    BY <1>1, <1>2, <2>1
  <2>2. k = 0 => Untouched(s, v, R)'
    BY ONLY <1>7, <1>8, <2>1, FewerIsUntouched
  <2> QED
    BY <2>2, SameRooms
<1>10. k <= 1 => First(s, d, v, R)
  <2>1. ASSUME k <= 1 PROVE First(r, c, w, R)
    BY <1>1, <1>2, <2>1
  <2>2. k <= 1 => First(s, d, v, R)'
    BY ONLY <1>7, <1>8, <2>1, FewerIsFirst
  <2> QED
    BY <2>2, SameRooms
<1>11. RunnerType'
  <2>1. RunnerType /\ count'.runs = count.runs
    BY Parts
  <2> QED
    BY <2>1, RunnersAlone
<1> QED
  BY ONLY <1>1, <1>3, <1>5, <1>6, <1>9, <1>10, <1>11, RenderedKeeps, ProcessType', WireOff',
     s \in Sims(rooms), d = conn', v = wire', Agreed(s, d), Render(s),
     \A p \in Peers : d[p] = "live" => conn[p] # "dead"

\* The names of the parts of a hook in which one client has changed.
LEMMA OneClientIs ==
  ASSUME NEW n \in Nat, NEW r \in Sims(n), NEW p \in Peers, NEW x \in ClientsOf(n),
         NEW s, s = [r EXCEPT !.peer[p] = x]
  PROVE  /\ s \in Sims(n) /\ s.phase = r.phase /\ s.openSent = r.openSent
         /\ s.joinSent = r.joinSent /\ s.cancel = r.cancel
         /\ \A q \in Peers : Out(s, q) = Out(r, q)
         /\ Status(s, p) = x.status /\ RoomOn(s, p) = x.view.roomState
         /\ \A q \in Peers : q # p => Status(s, q) = Status(r, q) /\ RoomOn(s, q) = RoomOn(r, q)
<1>1. /\ s \in Sims(n) /\ s.phase = r.phase /\ s.openSent = r.openSent
      /\ s.joinSent = r.joinSent /\ s.cancel = r.cancel
      /\ \A q \in Peers : Out(s, q) = Out(r, q)
      /\ Client(s, p) = x
      /\ \A q \in Peers : q # p => Client(s, q) = Client(r, q)
  BY WithClient
<1>2. Status(s, p) = x.status /\ RoomOn(s, p) = x.view.roomState
  BY ONLY <1>1 DEF Client, Status, RoomOn
<1>3. \A q \in Peers : q # p => Status(s, q) = Status(r, q) /\ RoomOn(s, q) = RoomOn(r, q)
  BY ONLY <1>1, SameClient
<1> QED
  BY ONLY <1>1, <1>2, <1>3

\* What is read is a frame that was under way.
LEMMA ReadIsFewer ==
  ASSUME NEW n \in Nat, NEW w \in Seq(FramesOf(n)), w # <<>>, NEW state
  PROVE  RoomStateAfter(state, Head(w)) = "ready" \/ Among(Tail(w), SetUps) =>
           state = "ready" \/ Among(w, SetUps)
<1>1. Head(w) \in FramesOf(n)
  BY TailPlaces
<1>2. RoomStateAfter(state, Head(w)) = "ready" => state = "ready" \/ Head(w) \in SetUps
  BY <1>1 DEF RoomStateAfter, SetUps, FramesOf
<1>3. Among(w, SetUps) <=> Head(w) \in SetUps \/ Among(Tail(w), SetUps)
  BY AmongLess
<1> QED
  BY <1>2, <1>3

LEMMA ReceiveKeeps ==
  ASSUME SimInv, NEW p \in Peers, Receive(p)
  PROVE  SimInv'
<1>1. /\ sim.peer[p].status = "connected" /\ wire[p] # <<>>
      /\ Render([sim EXCEPT !.peer[p] = Deliver(@, Head(wire[p]))])
      /\ wire' = [wire EXCEPT ![p] = Tail(@)]
      /\ UNCHANGED <<runners, roomVars, conn, count>>
  BY DEF Receive
<1>2. /\ rooms \in Nat /\ sim \in Sims(rooms) /\ Agreed(sim, conn)
      /\ wire[p] \in Seq(FramesOf(rooms))
  BY HoldsNow
<1>3. PICK f : f = Head(wire[p])
  OBVIOUS
<1>4. PICK b : b = sim.peer[p]
  OBVIOUS
<1>5. PICK x : x = Deliver(b, f)
  OBVIOUS
<1>6. PICK s : s = [sim EXCEPT !.peer[p] = x]
  OBVIOUS
<1>7. f \in FramesOf(rooms) /\ b \in ClientsOf(rooms)
  <2>1. f \in FramesOf(rooms)
    BY <1>1, <1>2, <1>3, TailPlaces
  <2>2. b \in ClientsOf(rooms)
    BY <1>2, <1>4, ClientTypes DEF Client
  <2> QED
    BY <2>1, <2>2
<1>8. /\ x \in ClientsOf(rooms) /\ x.status = b.status
      /\ x.view.roomState = RoomStateAfter(b.view.roomState, f)
  BY ONLY <1>2, <1>5, <1>7, DeliverIs
<1>9. s = [sim EXCEPT !.peer[p] = Deliver(@, Head(wire[p]))]
  BY <1>2, <1>3, <1>4, <1>5, <1>6 DEF Sims
<1>10. /\ s \in Sims(rooms) /\ s.phase = sim.phase /\ s.openSent = sim.openSent
       /\ s.joinSent = sim.joinSent /\ s.cancel = sim.cancel
       /\ \A q \in Peers : Out(s, q) = Out(sim, q)
       /\ Status(s, p) = x.status /\ RoomOn(s, p) = x.view.roomState
       /\ \A q \in Peers :
            q # p => Status(s, q) = Status(sim, q) /\ RoomOn(s, q) = RoomOn(sim, q)
  BY ONLY <1>2, <1>6, <1>8, p \in Peers, OneClientIs
<1>11. Status(sim, p) = b.status /\ RoomOn(sim, p) = b.view.roomState
  BY ONLY <1>4 DEF Status, RoomOn
<1>12. \A q \in Peers : Status(s, q) = Status(sim, q)
  BY ONLY <1>8, <1>10, <1>11
<1>13. PICK d, v : d = conn' /\ v = wire'
  OBVIOUS
<1>14. /\ d = conn /\ v[p] = Tail(wire[p]) /\ v[p] \in Seq(FramesOf(rooms))
       /\ \A q \in Peers : q # p => v[q] = wire[q]
       /\ v \in [Peers -> Seq(FramesOf(rooms))]
  <2>1. wire \in [Peers -> Seq(FramesOf(rooms))]
    BY Parts DEF ProcessType
  <2>2. Tail(wire[p]) \in Seq(FramesOf(rooms))
    BY <1>1, <1>2, TailPlaces
  <2> QED
    BY <1>1, <1>13, <2>1, <2>2
<1>15. \A q \in Peers : EntersRoom(s, v, q) => EntersRoom(sim, wire, q)
  <2>1. EntersRoom(s, v, p) => EntersRoom(sim, wire, p)
    <3>1. RoomStateAfter(b.view.roomState, f) = "ready" \/ Among(v[p], SetUps) =>
            b.view.roomState = "ready" \/ Among(wire[p], SetUps)
      BY <1>1, <1>2, <1>3, <1>14, ReadIsFewer
    <3> QED
      BY ONLY <1>8, <1>10, <1>11, <3>1 DEF EntersRoom
  <2>2. \A q \in Peers : q # p => (EntersRoom(s, v, q) => EntersRoom(sim, wire, q))
    BY ONLY <1>10, <1>14 DEF EntersRoom
  <2> QED
    BY <2>1, <2>2
<1>16. Fewer(sim, s, conn, d, wire, v)
  BY ONLY <1>10, <1>12, <1>14, <1>15 DEF Fewer
<1>17. Agreed(s, d)
  BY ONLY <1>2, <1>12, <1>14 DEF Agreed
<1>18. ProcessType' /\ WireOff'
  <2>1. ProcessType /\ WireOff
    BY Parts
  <2>2. ProcessType'
    BY <1>1, <1>13, <1>14, <2>1 DEF ProcessType, roomVars
  <2>3. conn[p] # "off"
    BY <2>1, <1>1 DEF WireOff
  <2>4. WireOff'
    BY <1>1, <1>13, <1>14, <2>1, <2>3 DEF WireOff
  <2> QED
    BY <2>2, <2>4
<1>19. Render(s)
  BY <1>1, <1>9
<1>20. \A q \in Peers : d[q] = "live" => conn[q] # "dead"
  BY ONLY <1>14, NotDead
<1>21. UNCHANGED <<runners, roomVars, count>>
  BY <1>1
<1> QED
  BY ONLY <1>10, <1>13, <1>16, <1>17, <1>18, <1>19, <1>20, <1>21, SocketKeeps, SimInv

LEMMA SocketClosesKeeps ==
  ASSUME SimInv, NEW p \in Peers, SocketCloses(p)
  PROVE  SimInv'
<1>1. /\ conn' = [conn EXCEPT ![p] = "off"] /\ wire' = [wire EXCEPT ![p] = <<>>]
      /\ Render([sim EXCEPT !.peer[p] = Closed(@)])
      /\ UNCHANGED <<runners, roomVars, count>>
  BY DEF SocketCloses
<1>2. rooms \in Nat /\ sim \in Sims(rooms) /\ Agreed(sim, conn)
  BY HoldsNow
<1>3. PICK b : b = sim.peer[p]
  OBVIOUS
<1>4. PICK x : x = Closed(b)
  OBVIOUS
<1>5. PICK s : s = [sim EXCEPT !.peer[p] = x]
  OBVIOUS
<1>6. b \in ClientsOf(rooms)
  BY <1>2, <1>3, ClientTypes DEF Client
<1>7. x \in ClientsOf(rooms) /\ x.status = "disconnected" /\ x.view = b.view
  BY ONLY <1>2, <1>4, <1>6, ClosedIs
<1>8. s = [sim EXCEPT !.peer[p] = Closed(@)]
  BY <1>2, <1>3, <1>4, <1>5 DEF Sims
<1>9. /\ s \in Sims(rooms) /\ s.phase = sim.phase /\ s.openSent = sim.openSent
      /\ s.joinSent = sim.joinSent /\ s.cancel = sim.cancel
      /\ \A q \in Peers : Out(s, q) = Out(sim, q)
      /\ Status(s, p) = x.status /\ RoomOn(s, p) = x.view.roomState
      /\ \A q \in Peers :
           q # p => Status(s, q) = Status(sim, q) /\ RoomOn(s, q) = RoomOn(sim, q)
  BY ONLY <1>2, <1>5, <1>7, p \in Peers, OneClientIs
<1>10. RoomOn(sim, p) = b.view.roomState
  BY ONLY <1>3 DEF RoomOn
<1>11. PICK d, v : d = conn' /\ v = wire'
  OBVIOUS
<1>12. /\ d \in [Peers -> {"off", "live", "dead"}] /\ d[p] = "off"
       /\ v \in [Peers -> Seq(FramesOf(rooms))] /\ v[p] = <<>>
       /\ \A q \in Peers : q # p => d[q] = conn[q] /\ v[q] = wire[q]
  <2>1. /\ wire \in [Peers -> Seq(FramesOf(rooms))]
        /\ conn \in [Peers -> {"off", "live", "dead"}]
    BY Parts DEF ProcessType
  <2>2. <<>> \in Seq(FramesOf(rooms))
    OBVIOUS
  <2> QED
    BY <1>1, <1>11, <2>1, <2>2
<1>13. \A q \in Peers : EntersRoom(s, v, q) => EntersRoom(sim, wire, q)
  BY ONLY <1>7, <1>9, <1>10, <1>12, NoneAmong DEF EntersRoom
<1>14. Fewer(sim, s, conn, d, wire, v)
  BY ONLY <1>7, <1>9, <1>12, <1>13 DEF Fewer
<1>15. Agreed(s, d)
  BY ONLY <1>2, <1>7, <1>9, <1>12 DEF Agreed
<1>16. ProcessType' /\ WireOff'
  <2>1. ProcessType /\ WireOff
    BY Parts
  <2>2. ProcessType'
    BY <1>1, <1>11, <1>12, <2>1 DEF ProcessType, roomVars
  <2>3. WireOff'
    BY <1>11, <1>12, <2>1 DEF WireOff
  <2> QED
    BY <2>2, <2>3
<1>17. Render(s)
  BY <1>1, <1>8
<1>18. \A q \in Peers : d[q] = "live" => conn[q] # "dead"
  BY ONLY <1>12
<1>19. UNCHANGED <<runners, roomVars, count>>
  BY <1>1
<1> QED
  BY ONLY <1>9, <1>11, <1>14, <1>15, <1>16, <1>17, <1>18, <1>19, SocketKeeps, SimInv

\* What a process tells a browser when it connects, and of a room it enters.
LEMMA RoomUpIs ==
  ASSUME NEW n \in Nat, NEW p \in Peers, NEW room \in 0 .. n
  PROVE  RoomUp(p, room) \in FramesOf(n)
BY DEF RoomUp, FramesOf, FrameTypes, SetUpTypes, Event, EventAt, RoomReady

LEMMA GreetingIs ==
  ASSUME NEW n \in Nat, NEW p \in Peers, NEW room \in 0 .. n,
         NEW g, g = (IF room = 0 THEN <<>> ELSE <<RoomUp(p, room)>>)
                      \o <<Event("history_complete")>>
  PROVE  g \in Seq(FramesOf(n)) /\ (room = 0 => ~Among(g, SetUps))
<1>1. PICK h : h = Event("history_complete")
  OBVIOUS
<1>2. h \in FramesOf(n) /\ h \notin SetUps
  BY <1>1, FramesAre DEF SetUps, SetUpTypes
<1>3. PICK u : u = RoomUp(p, room)
  OBVIOUS
<1>4. u \in FramesOf(n)
  BY <1>3, RoomUpIs
<1>5. <<>> \in Seq(FramesOf(n)) /\ <<u>> \in Seq(FramesOf(n)) /\ <<h>> \in Seq(FramesOf(n))
  BY ONLY <1>2, <1>4
<1>6. PICK l \in Seq(FramesOf(n)) : /\ l = IF room = 0 THEN <<>> ELSE <<u>>
                                    /\ room = 0 => l = <<>>
  BY <1>5
<1>7. g = l \o <<h>>
  BY ONLY <1>1, <1>3, <1>6, g = (IF room = 0 THEN <<>> ELSE <<RoomUp(p, room)>>)
                      \o <<Event("history_complete")>>
<1>8. g = Append(l, h) /\ g \in Seq(FramesOf(n))
  BY ONLY <1>2, <1>6, <1>7, OneIsAppended, AppendedPlaces
<1>9. Among(g, SetUps) <=> Among(l, SetUps) \/ h \in SetUps
  BY ONLY <1>2, <1>6, <1>8, AmongMore
<1>10. room = 0 => ~Among(l, SetUps)
  BY ONLY <1>6, NoneAmong
<1> QED
  BY <1>2, <1>8, <1>9, <1>10

LEMMA HandshakeKeeps ==
  ASSUME SimInv, NEW p \in Peers, Handshake(p)
  PROVE  SimInv'
<1>1. /\ sim.peer[p].status = "connecting"
      /\ conn' = [conn EXCEPT ![p] = "live"]
      /\ wire' = [wire EXCEPT ![p] =
           (IF server[p].room = 0 THEN <<>> ELSE <<RoomUp(p, server[p].room)>>)
             \o <<Event("history_complete")>>]
      /\ Render([sim EXCEPT !.peer[p] = Opened(@)])
      /\ UNCHANGED <<runners, roomVars, count>>
  BY DEF Handshake
<1>2. /\ rooms \in Nat /\ count.starts \in Nat /\ sim \in Sims(rooms)
      /\ Agreed(sim, conn) /\ Guarded(sim) /\ Silent(sim, runners)
      /\ sim.phase = "waiting-a" => sim.openSent
      /\ count.starts = 0 => Untouched(sim, wire, runners)
      /\ count.starts <= 1 => First(sim, conn, wire, runners)
      /\ server[p].room \in 0 .. rooms
      /\ conn[p] \in {"off", "live", "dead"}
  BY HoldsNow
<1>3. PICK b : b = sim.peer[p]
  OBVIOUS
<1>4. PICK x : x = Opened(b)
  OBVIOUS
<1>5. PICK s : s = [sim EXCEPT !.peer[p] = x]
  OBVIOUS
<1>6. b \in ClientsOf(rooms)
  BY <1>2, <1>3, ClientTypes DEF Client
<1>7. x \in ClientsOf(rooms) /\ x.status = "connected" /\ x.view = b.view
  BY ONLY <1>2, <1>4, <1>6, OpenedIs
<1>8. s = [sim EXCEPT !.peer[p] = Opened(@)]
  BY <1>2, <1>3, <1>4, <1>5 DEF Sims
<1>9. /\ s \in Sims(rooms) /\ s.phase = sim.phase /\ s.openSent = sim.openSent
      /\ s.joinSent = sim.joinSent /\ s.cancel = sim.cancel
      /\ \A q \in Peers : Out(s, q) = Out(sim, q)
      /\ Status(s, p) = x.status /\ RoomOn(s, p) = x.view.roomState
      /\ \A q \in Peers :
           q # p => Status(s, q) = Status(sim, q) /\ RoomOn(s, q) = RoomOn(sim, q)
  BY ONLY <1>2, <1>5, <1>7, p \in Peers, OneClientIs
<1>10. RoomOn(sim, p) = b.view.roomState /\ Status(sim, p) = "connecting"
  BY <1>1, <1>3 DEF RoomOn, Status
<1>11. PICK room : room = server[p].room
  OBVIOUS
<1>12. PICK g : g = (IF room = 0 THEN <<>> ELSE <<RoomUp(p, room)>>)
                      \o <<Event("history_complete")>>
  OBVIOUS
<1>13. room \in 0 .. rooms /\ g \in Seq(FramesOf(rooms)) /\ (room = 0 => ~Among(g, SetUps))
  <2>1. room \in 0 .. rooms
    BY <1>2, <1>11
  <2> QED
    BY ONLY <1>2, <1>12, <2>1, p \in Peers, GreetingIs
<1>14. PICK d, v, R, k : d = conn' /\ v = wire' /\ R = runners /\ k = count.starts
  OBVIOUS
<1>15. /\ d \in [Peers -> {"off", "live", "dead"}] /\ d[p] = "live"
       /\ v \in [Peers -> Seq(FramesOf(rooms))] /\ v[p] = g
       /\ \A q \in Peers : q # p => d[q] = conn[q] /\ v[q] = wire[q]
  <2>1. /\ wire \in [Peers -> Seq(FramesOf(rooms))]
        /\ conn \in [Peers -> {"off", "live", "dead"}]
    BY Parts DEF ProcessType
  <2>2. wire' = [wire EXCEPT ![p] = g]
    BY <1>1, <1>11, <1>12
  <2> QED
    BY <1>1, <1>13, <1>14, <2>1, <2>2
<1>16. Agreed(s, d)
  BY ONLY <1>2, <1>7, <1>9, <1>15 DEF Agreed
<1>17. conn[p] = "off"
  BY <1>2, <1>10 DEF Agreed
<1>18. \A q \in Peers : d[q] = "live" => conn[q] # "dead"
  BY ONLY <1>15, <1>17
<1>19. Guarded(s) /\ Silent(s, R)
  BY ONLY <1>2, <1>9, <1>14 DEF Guarded, Silent
<1>20. k = 0 => Untouched(s, v, R)
  <2>1. SUFFICES ASSUME k = 0 PROVE Untouched(s, v, R)
    OBVIOUS
  <2>2. Untouched(sim, wire, R)
    BY <1>2, <1>14, <2>1
  <2>3. room = 0
    BY <1>2, <1>13, <2>2 DEF Untouched
  <2>4. ~EntersRoom(s, v, p)
    BY ONLY <1>7, <1>9, <1>10, <1>13, <1>15, <2>2, <2>3, p \in Peers DEF EntersRoom, Untouched
  <2>5. \A q \in Peers : q # p => ~EntersRoom(s, v, q)
    BY ONLY <1>9, <1>15, <2>2 DEF EntersRoom, Untouched
  <2> QED
    BY ONLY <1>9, <2>2, <2>4, <2>5 DEF Untouched
<1>21. k <= 1 => First(s, d, v, R)
  <2>1. SUFFICES ASSUME k <= 1 PROVE First(s, d, v, R)
    OBVIOUS
  <2>2. First(sim, conn, wire, R)
    BY <1>2, <1>14, <2>1
  <2>3. sim.phase \notin AfterA \cup {"waiting-a"}
    BY <1>10, <2>2 DEF First, Started
  <2>4. OneRun(s, R)
    BY ONLY <1>9, <2>2 DEF First, OneRun
  <2> QED
    BY ONLY <1>9, <2>3, <2>4 DEF First, AfterA
<1>22. ProcessType' /\ WireOff'
  <2>1. ProcessType /\ WireOff
    BY Parts
  <2>2. ProcessType'
    BY <1>1, <1>14, <1>15, <2>1 DEF ProcessType, roomVars
  <2>3. WireOff'
    BY <1>14, <1>15, <2>1 DEF WireOff
  <2> QED
    BY <2>2, <2>3
<1>23. RunnerType'
  <2>1. RunnerType /\ count'.runs = count.runs
    BY <1>1, Parts
  <2> QED
    BY <1>1, <2>1, RunnersAlone
<1>24. Render(s)
  BY <1>1, <1>8
<1>25. d = conn' /\ v = wire' /\ R = runners' /\ k = count'.starts /\ k \in Nat
       /\ UNCHANGED roomVars
  BY <1>1, <1>2, <1>14
<1> QED
  BY ONLY <1>2, <1>9, <1>16, <1>18, <1>19, <1>20, <1>21, <1>22, <1>23, <1>24, <1>25,
     RenderedKeeps

-----------------------------------------------------------------------------
(* The serve processes.                                                     *)

\* A process that stops or starts and a connection that breaks.
LEMMA LossKeeps ==
  ASSUME SimInv, NEW t, t = sim', t \in Sims(rooms), t.peer = sim.peer,
         NEW d, d = conn', NEW v, v = wire',
         Fewer(sim, t, conn, d, wire, v), Agreed(t, d),
         UNCHANGED <<runners, rooms, closed>>,
         count'.starts = count.starts, count'.runs = count.runs,
         \A p \in Peers : \/ server'[p].room = server[p].room
                          \/ server'[p].room = 0 /\ d[p] # "live",
         ProcessType', WireOff'
  PROVE  SimInv'
<1>1. /\ rooms \in Nat /\ count.starts \in Nat
      /\ Guarded(sim) /\ Silent(sim, runners)
      /\ sim.phase = "waiting-a" => sim.openSent
      /\ count.starts = 0 => Untouched(sim, wire, runners)
      /\ count.starts <= 1 => First(sim, conn, wire, runners)
  BY HoldsNow
<1>2. PICK c, w, R, k, r : /\ c = conn /\ w = wire /\ R = runners /\ k = count.starts
                           /\ r = sim
  OBVIOUS
<1>3. R = runners' /\ k = count'.starts /\ k \in Nat
  BY <1>1, <1>2
<1>4. /\ t.phase = sim.phase /\ t.openSent = sim.openSent /\ t.joinSent = sim.joinSent
      /\ sim.cancel <=> t.cancel
  BY DEF Fewer
<1>5. Guarded(t)
  BY <1>1, <1>4 DEF Guarded
<1>6. Silent(t, R)
  BY <1>1, <1>2, <1>4 DEF Silent
<1>7. Fewer(r, t, c, d, w, v)
  BY <1>2
<1>8. rooms' = rooms /\ closed' = closed
  OBVIOUS
<1>9. k = 0 => Untouched(t, v, R)'
  <2>1. ASSUME k = 0 PROVE Untouched(r, w, R)
    BY <1>1, <1>2, <2>1
  <2> QED
    BY ONLY <1>7, <1>8, <2>1, FewerIsUntouched
<1>10. k <= 1 => First(t, d, v, R)'
  <2>1. ASSUME k <= 1 PROVE First(r, c, w, R)
    BY <1>1, <1>2, <2>1
  <2>2. \A p \in Peers : \/ server'[p].room = server[p].room
                         \/ server'[p].room = 0 /\ d[p] # "live"
    OBVIOUS
  <2> QED
    BY ONLY <1>7, <1>8, <2>1, <2>2, FewerIsFirst
<1>11. (sim \in Sims(rooms))' /\ Agreed(sim, conn)' /\ Guarded(sim)' /\ Silent(sim, runners)'
  BY <1>3, <1>5, <1>6, <1>8
<1>12. (count.starts = 0 => Untouched(sim, wire, runners))'
  BY <1>3, <1>9
<1>13. (count.starts <= 1 => First(sim, conn, wire, runners))'
  BY <1>3, <1>10
<1>14. Holds(sim, conn, wire, runners, count.starts)'
  BY ONLY <1>11, <1>12, <1>13 DEF Holds
<1>15. (sim.phase = "waiting-a" => sim.openSent)'
  BY <1>1, <1>4
<1>16. RunnerType'
  <2>1. RunnerType
    BY Parts
  <2> QED
    BY <2>1, RunnersAlone
<1> QED
  BY ONLY <1>14, <1>15, <1>16, Parts, ProcessType', WireOff'

LEMMA ProcessStartsKeeps ==
  ASSUME SimInv, NEW p \in Peers, ProcessStarts(p)
  PROVE  SimInv'
<1>1. /\ Count("troubles", MaxTroubles)
      /\ server' = [server EXCEPT ![p].up = TRUE]
      /\ sim' = sim /\ UNCHANGED <<runners, rooms, closed, conn, wire>>
  BY DEF ProcessStarts, Trouble, simVars
<1>2. ProcessType /\ WireOff
  BY Parts
<1>3. /\ count' \in [{"starts", "runs", "troubles"} -> Nat]
      /\ count'.starts = count.starts /\ count'.runs = count.runs
  BY <1>1, <1>2, CountIs
<1>4. PICK t, d, v : t = sim' /\ d = conn' /\ v = wire'
  OBVIOUS
<1>5. rooms \in Nat /\ sim \in Sims(rooms) /\ Agreed(sim, conn)
  BY HoldsNow
<1>6. t = sim /\ d = conn /\ v = wire
  BY <1>1, <1>4
<1>7. Fewer(sim, t, conn, d, wire, v)
  BY ONLY <1>6 DEF Fewer
<1>8. /\ server' \in [Peers -> [up : BOOLEAN, room : 0 .. rooms]]
      /\ \A q \in Peers : server'[q].room = server[q].room
  BY <1>1, <1>2 DEF ProcessType
<1>9. ProcessType' /\ WireOff'
  BY <1>1, <1>2, <1>3, <1>8 DEF ProcessType, WireOff
<1> QED
  BY ONLY <1>1, <1>3, <1>4, <1>5, <1>6, <1>7, <1>8, <1>9, LossKeeps, SimInv

\* The commands of one peer, lost with its connection.
Lost(r, p) == {r, [r EXCEPT !.out[p] = <<>>]}

LEMMA CommandsLost ==
  ASSUME NEW n \in Nat, NEW r \in Sims(n), NEW p \in Peers, NEW t,
         t \in Lost(r, p)
  PROVE  /\ t \in Sims(n) /\ t.phase = r.phase /\ t.openSent = r.openSent
         /\ t.joinSent = r.joinSent /\ t.cancel = r.cancel /\ t.peer = r.peer
         /\ Out(t, p) = Out(r, p) \/ Out(t, p) = <<>>
         /\ \A q \in Peers : q # p => Out(t, q) = Out(r, q)
         /\ \A q \in Peers : Status(t, q) = Status(r, q) /\ RoomOn(t, q) = RoomOn(r, q)
<1> DEFINE f == [r.out EXCEPT ![p] = <<>>]
           e == [r EXCEPT !.out = f]
<1>1. r.out \in [Peers -> Seq(CommandsTo(n))] /\ <<>> \in Seq(CommandsTo(n))
  BY DEF Sims
<1>2. /\ f \in [Peers -> Seq(CommandsTo(n))] /\ f[p] = <<>>
      /\ \A q \in Peers : q # p => f[q] = r.out[q]
  BY <1>1
<1>3. t = r \/ t = e
  BY DEF Lost
<1> HIDE DEF f
<1>4. /\ e \in Sims(n) /\ e.phase = r.phase /\ e.openSent = r.openSent
      /\ e.joinSent = r.joinSent /\ e.cancel = r.cancel /\ e.peer = r.peer /\ e.out = f
  BY <1>2 DEF Sims
<1> HIDE DEF e
<1>5. CASE t = r
  BY <1>5
<1>6. CASE t = e
  <2>1. \A q \in Peers : Status(t, q) = Status(r, q) /\ RoomOn(t, q) = RoomOn(r, q)
    BY <1>4, <1>6 DEF Status, RoomOn
  <2>2. Out(t, p) = <<>> /\ \A q \in Peers : q # p => Out(t, q) = Out(r, q)
    BY <1>2, <1>4, <1>6 DEF Out
  <2> QED
    BY <1>4, <1>6, <2>1, <2>2
<1> QED
  BY <1>3, <1>5, <1>6

\* Of a peer whose connection is gone nothing more than its frames is left.
LEMMA LostIsFewer ==
  ASSUME NEW n \in Nat, NEW r \in Sims(n), NEW p \in Peers, NEW t,
         t \in Lost(r, p), NEW c, NEW d, NEW w, NEW v, v = w,
         Agreed(r, c), d[p] = "off" <=> c[p] = "off", d[p] # "live",
         \A q \in Peers : q # p => d[q] = c[q]
  PROVE  Fewer(r, t, c, d, w, v) /\ Agreed(t, d)
<1>1. /\ t \in Sims(n) /\ t.phase = r.phase /\ t.openSent = r.openSent
      /\ t.joinSent = r.joinSent /\ t.cancel = r.cancel /\ t.peer = r.peer
      /\ Out(t, p) = Out(r, p) \/ Out(t, p) = <<>>
      /\ \A q \in Peers : q # p => Out(t, q) = Out(r, q)
      /\ \A q \in Peers : Status(t, q) = Status(r, q) /\ RoomOn(t, q) = RoomOn(r, q)
  BY CommandsLost
<1>2. \A q \in Peers : EntersRoom(t, v, q) => EntersRoom(r, w, q)
  BY <1>1 DEF EntersRoom
<1>3. \A q \in Peers : /\ Out(t, q) = Out(r, q) \/ (Out(t, q) = <<>> /\ d[q] # "live")
                       /\ d[q] = "live" => c[q] = "live"
  BY <1>1
<1>4. Fewer(r, t, c, d, w, v)
  BY ONLY <1>1, <1>2, <1>3 DEF Fewer
<1>5. Agreed(t, d)
  BY <1>1 DEF Agreed
<1> QED
  BY ONLY <1>4, <1>5

LEMMA ConnectionBreaksKeeps ==
  ASSUME SimInv, NEW p \in Peers, ConnectionBreaks(p)
  PROVE  SimInv'
<1>1. /\ conn[p] = "live" /\ Count("troubles", MaxTroubles)
      /\ conn' = [conn EXCEPT ![p] = "dead"]
      /\ sim' \in {sim, [sim EXCEPT !.out[p] = <<>>]}
      /\ UNCHANGED <<runners, rooms, closed, wire>> /\ server' = server
  BY DEF ConnectionBreaks, Trouble, roomVars
<1>2. ProcessType /\ WireOff
  BY Parts
<1>3. /\ count' \in [{"starts", "runs", "troubles"} -> Nat]
      /\ count'.starts = count.starts /\ count'.runs = count.runs
  BY <1>1, <1>2, CountIs
<1>4. PICK t, d, v, c : t = sim' /\ d = conn' /\ v = wire' /\ c = conn
  OBVIOUS
<1>5. rooms \in Nat /\ sim \in Sims(rooms) /\ Agreed(sim, conn)
  BY HoldsNow
<1>6. t \in Lost(sim, p) /\ v = wire
  BY <1>1, <1>4 DEF Lost
<1>7. t \in Sims(rooms) /\ t.peer = sim.peer
  BY ONLY <1>5, <1>6, p \in Peers, CommandsLost
<1>8. /\ d \in [Peers -> {"off", "live", "dead"}] /\ d[p] = "dead"
      /\ \A q \in Peers : q # p => d[q] = conn[q]
  BY <1>1, <1>2, <1>4 DEF ProcessType
<1>9. Fewer(sim, t, conn, d, wire, v) /\ Agreed(t, d)
  <2>1. (d[p] = "off" <=> conn[p] = "off") /\ d[p] # "live"
    BY <1>1, <1>8
  <2> QED
    BY ONLY <1>5, <1>6, <1>8, <2>1, p \in Peers, LostIsFewer
<1>10. ProcessType' /\ WireOff'
  <2>1. ProcessType'
    BY <1>1, <1>2, <1>3, <1>4, <1>8 DEF ProcessType
  <2>2. WireOff'
    BY <1>1, <1>2, <1>4, <1>8 DEF WireOff
  <2> QED
    BY <2>1, <2>2
<1>11. \A q \in Peers : server'[q].room = server[q].room
  BY <1>1
<1> QED
  BY ONLY <1>1, <1>3, <1>4, <1>7, <1>9, <1>10, <1>11, LossKeeps, SimInv

LEMMA ProcessStopsKeeps ==
  ASSUME SimInv, NEW p \in Peers, ProcessStops(p)
  PROVE  SimInv'
<1>1. /\ server' = [server EXCEPT ![p] = [up |-> FALSE, room |-> 0]]
      /\ conn' = [conn EXCEPT ![p] = IF @ = "off" THEN "off" ELSE "dead"]
      /\ sim' = [sim EXCEPT !.out[p] = <<>>]
      /\ UNCHANGED <<runners, rooms, closed, wire, count>>
  BY DEF ProcessStops
<1>2. ProcessType /\ WireOff
  BY Parts
<1>3. PICK t, d, v : t = sim' /\ d = conn' /\ v = wire'
  OBVIOUS
<1>4. rooms \in Nat /\ sim \in Sims(rooms) /\ Agreed(sim, conn)
  BY HoldsNow
<1>5. t \in Lost(sim, p) /\ v = wire
  BY <1>1, <1>3 DEF Lost
<1>6. t \in Sims(rooms) /\ t.peer = sim.peer
  BY ONLY <1>4, <1>5, p \in Peers, CommandsLost
<1>7. /\ d \in [Peers -> {"off", "live", "dead"}]
      /\ d[p] # "live" /\ (d[p] = "off" <=> conn[p] = "off")
      /\ \A q \in Peers : q # p => d[q] = conn[q]
  BY <1>1, <1>2, <1>3 DEF ProcessType
<1>8. Fewer(sim, t, conn, d, wire, v) /\ Agreed(t, d)
  <2>1. PICK c, w, r : c = conn /\ w = wire /\ r = sim
    OBVIOUS
  <2>2. /\ r \in Sims(rooms) /\ t \in Lost(r, p) /\ v = w
        /\ Agreed(r, c)
    BY <1>4, <1>5, <2>1
  <2>3. d[p] = "off" <=> c[p] = "off"
    BY <1>7, <2>1
  <2>4. \A q \in Peers : q # p => d[q] = c[q]
    BY <1>7, <2>1
  <2>5. rooms \in Nat
    BY <1>4
  <2>6. d \in [Peers -> {"off", "live", "dead"}]
    BY <1>7
  <2>7. d[p] # "live"
    BY <1>7
  <2>8. Fewer(r, t, c, d, w, v) /\ Agreed(t, d)
    BY ONLY p \in Peers, <2>2, <2>3, <2>4, <2>5, <2>6, <2>7, LostIsFewer
  <2> QED
    BY <2>1, <2>8
<1>9. /\ server' \in [Peers -> [up : BOOLEAN, room : 0 .. rooms]]
      /\ server'[p].room = 0 /\ \A q \in Peers : q # p => server'[q] = server[q]
  <2>1. 0 \in 0 .. rooms
    BY <1>4
  <2> QED
    BY <1>1, <1>2, <2>1 DEF ProcessType
<1>10. ProcessType' /\ WireOff'
  <2>1. ProcessType'
    BY <1>1, <1>2, <1>3, <1>7, <1>9 DEF ProcessType
  <2>2. WireOff'
    BY <1>1, <1>2, <1>3, <1>7 DEF WireOff
  <2> QED
    BY <2>1, <2>2
<1>11. \A q \in Peers : \/ server'[q].room = server[q].room
                        \/ server'[q].room = 0 /\ d[q] # "live"
  BY <1>7, <1>9
<1>12. count'.starts = count.starts /\ count'.runs = count.runs
  BY <1>1
<1>13. UNCHANGED <<runners, rooms, closed>>
  BY <1>1
<1> QED
  BY ONLY <1>13, <1>3, <1>6, <1>8, <1>10, <1>11, <1>12, LossKeeps, SimInv

LEMMA TellIs ==
  ASSUME NEW n \in Nat, wire \in [Peers -> Seq(FramesOf(n))], NEW p \in Peers,
         NEW frames \in Seq(FramesOf(n)), Tell(p, frames)
  PROVE  /\ wire' \in [Peers -> Seq(FramesOf(n))]
         /\ \A q \in Peers : q # p => wire'[q] = wire[q]
         /\ conn[p] # "live" => wire'[p] = wire[p]
<1>1. CASE conn[p] # "live"
  BY <1>1 DEF Tell
<1>2. CASE conn[p] = "live"
  <2>1. wire[p] \o frames \in Seq(FramesOf(n))
    OBVIOUS
  <2>2. wire' = [wire EXCEPT ![p] = wire[p] \o frames]
    BY <1>2 DEF Tell
  <2> QED
    BY <1>2, <2>1, <2>2
<1> QED
  BY <1>1, <1>2

LEMMA TellKeepsOff ==
  ASSUME WireOff, UNCHANGED conn, NEW p \in Peers,
         \A q \in Peers : q # p => wire'[q] = wire[q],
         conn[p] # "live" => wire'[p] = wire[p]
  PROVE  WireOff'
BY DEF WireOff

LEMMA HostClosesKeeps ==
  ASSUME SimInv, HostCloses
  PROVE  SimInv'
<1>1. /\ server["B"].room \in closed
      /\ server' = [server EXCEPT !["B"].room = 0]
      /\ Tell("B", <<Event("room_closed"), Event("room_left")>>)
      /\ UNCHANGED <<sim, runners, rooms, closed, conn, count>>
  BY DEF HostCloses, simVars
<1>2. ProcessType /\ WireOff /\ RunnerType
  BY Parts
<1>3. /\ rooms \in Nat /\ count.starts \in Nat /\ sim \in Sims(rooms)
      /\ Agreed(sim, conn) /\ Guarded(sim) /\ Silent(sim, runners)
      /\ sim.phase = "waiting-a" => sim.openSent
      /\ count.starts = 0 => Untouched(sim, wire, runners)
      /\ count.starts <= 1 => First(sim, conn, wire, runners)
  BY HoldsNow
<1>4. PICK f, g : f = Event("room_closed") /\ g = Event("room_left")
  OBVIOUS
<1>5. f \in FramesOf(rooms) /\ g \in FramesOf(rooms)
  BY <1>3, <1>4, FramesAre
<1>6. PICK frames \in Seq(FramesOf(rooms)) : frames = <<f, g>>
  <2>1. <<f, g>> \in Seq(FramesOf(rooms))
    BY ONLY <1>5
  <2> QED
    BY <2>1
<1>7. Tell("B", frames)
  BY <1>1, <1>4, <1>6
<1>8. /\ wire' \in [Peers -> Seq(FramesOf(rooms))]
      /\ \A q \in Peers : q # "B" => wire'[q] = wire[q]
      /\ conn["B"] # "live" => wire'["B"] = wire["B"]
  BY <1>2, <1>3, <1>7, TellIs, TwoPeers DEF ProcessType
<1>9. server' \in [Peers -> [up : BOOLEAN, room : 0 .. rooms]]
  <2>1. 0 \in 0 .. rooms
    BY <1>3
  <2> QED
    BY <1>1, <1>2, <2>1, TwoPeers DEF ProcessType
<1>10. ProcessType' /\ WireOff'
  <2>1. ProcessType'
    BY <1>1, <1>2, <1>8, <1>9 DEF ProcessType
  <2>2. WireOff'
    BY <1>1, <1>2, <1>8, TellKeepsOff, TwoPeers
  <2> QED
    BY <2>1, <2>2
<1>11. closed # {} /\ rooms # 0
  BY <1>1, <1>2 DEF ProcessType
<1>12. count.starts # 0
  BY <1>3, <1>11 DEF Untouched
<1>13. count.starts <= 1 => OneRun(sim, runners) /\ sim.phase \notin AfterA \cup {"waiting-a"}
  BY <1>3, <1>11 DEF First, Started
<1>14. Holds(sim, conn, wire, runners, count.starts)'
  <2>1. /\ (sim \in Sims(rooms))' /\ Agreed(sim, conn)' /\ Guarded(sim)'
        /\ Silent(sim, runners)'
    <3>1. sim' = sim /\ conn' = conn /\ runners' = runners /\ rooms' = rooms
      BY <1>1
    <3>2. (sim \in Sims(rooms))'
      BY <1>3, <3>1
    <3>3. Agreed(sim, conn)' /\ Guarded(sim)' /\ Silent(sim, runners)'
      BY <1>3, <3>1 DEF Agreed, Guarded, Silent
    <3> QED
      BY <3>2, <3>3
  <2>2. (count.starts = 0 => Untouched(sim, wire, runners))'
    BY <1>1, <1>12
  <2>3. (count.starts <= 1 => First(sim, conn, wire, runners))'
    BY <1>1, <1>13 DEF First, AfterA, OneRun
  <2> QED
    BY ONLY <2>1, <2>2, <2>3 DEF Holds
<1>15. (sim.phase = "waiting-a" => sim.openSent)'
  BY <1>1, <1>3
<1>16. RunnerType'
  BY <1>1, <1>2, RunnersAlone
<1> QED
  BY ONLY <1>10, <1>14, <1>15, <1>16, Parts

\* A command is taken: the hook is as it was without it.
LEMMA TakenIs ==
  ASSUME NEW n \in Nat, NEW r \in Sims(n), NEW p \in Peers, r.out[p] # <<>>,
         NEW t, t = [r EXCEPT !.out[p] = Tail(@)]
  PROVE  /\ t \in Sims(n) /\ t.phase = r.phase /\ t.openSent = r.openSent
         /\ t.joinSent = r.joinSent /\ t.cancel = r.cancel /\ t.peer = r.peer
         /\ Out(r, p) # <<>> /\ Out(t, p) = Tail(Out(r, p))
         /\ Head(r.out[p]) = Head(Out(r, p)) /\ Head(Out(r, p)) \in CommandsTo(n)
         /\ \A q \in Peers : q # p => Out(t, q) = Out(r, q)
         /\ \A q \in Peers : Status(t, q) = Status(r, q) /\ RoomOn(t, q) = RoomOn(r, q)
<1>1. r.out \in [Peers -> Seq(CommandsTo(n))]
  BY DEF Sims
<1>2. PICK o : o = Tail(r.out[p])
  OBVIOUS
<1>3. o \in Seq(CommandsTo(n)) /\ Head(r.out[p]) \in CommandsTo(n)
  BY <1>1, <1>2
<1>4. t = [r EXCEPT !.out[p] = o]
  BY <1>1, <1>2
<1>5. /\ t \in Sims(n) /\ t.phase = r.phase /\ t.openSent = r.openSent
      /\ t.joinSent = r.joinSent /\ t.cancel = r.cancel
      /\ Out(t, p) = o
      /\ \A q \in Peers : q # p => Out(t, q) = Out(r, q)
      /\ \A q \in Peers : Client(t, q) = Client(r, q)
  BY ONLY <1>3, <1>4, n \in Nat, r \in Sims(n), p \in Peers, WithOut
<1>6. t.peer = r.peer
  BY <1>4 DEF Sims
<1>7. Out(r, p) = r.out[p]
  BY DEF Out
<1>8. \A q \in Peers : Status(t, q) = Status(r, q) /\ RoomOn(t, q) = RoomOn(r, q)
  BY ONLY <1>5, SameClient
<1>9. Out(r, p) # <<>>
  BY <1>7
<1> QED
  BY ONLY <1>2, <1>3, <1>5, <1>6, <1>7, <1>8, <1>9

\* What a command does to the processes, in a room and in none.
LEMMA CommandIs ==
  ASSUME ProcessType, sim \in Sims(rooms), NEW p \in Peers, TakeCommand(p)
  PROVE  /\ sim' \in Sims(rooms')
         /\ ProcessType'
         /\ \A q \in Peers : q # p => wire'[q] = wire[q] /\ server'[q] = server[q]
         /\ conn[p] # "live" => wire'[p] = wire[p]
         /\ server[p].room = 0 /\ Head(sim.out[p]).cmd = "open" =>
              rooms' = rooms + 1 /\ closed' = closed /\ server'[p].room = rooms + 1
         /\ server[p].room = 0 /\ Head(sim.out[p]).cmd = "join" =>
              /\ rooms' = rooms /\ closed' = closed
              /\ server'[p].room = Head(sim.out[p]).ticket
<1> DEFINE Other == \A q \in Peers : q # p => wire'[q] = wire[q] /\ server'[q] = server[q]
           Silence == conn[p] # "live" => wire'[p] = wire[p]
           Opens == server[p].room = 0 /\ Head(sim.out[p]).cmd = "open" =>
                      rooms' = rooms + 1 /\ closed' = closed /\ server'[p].room = rooms + 1
           Joins == server[p].room = 0 /\ Head(sim.out[p]).cmd = "join" =>
                      /\ rooms' = rooms /\ closed' = closed
                      /\ server'[p].room = Head(sim.out[p]).ticket
<1>1. PICK c : c = Head(sim.out[p])
  OBVIOUS
<1>2. /\ sim.out[p] # <<>> /\ sim' = [sim EXCEPT !.out[p] = Tail(@)]
      /\ UNCHANGED <<conn, count>>
      /\ \/ server[p].room # 0 /\ LeaveRoom(p)
         \/ /\ server[p].room = 0 /\ c.cmd = "open"
            /\ rooms' = rooms + 1 /\ server' = [server EXCEPT ![p].room = rooms + 1]
            /\ Tell(p, <<RoomUp(p, rooms + 1)>>)
            /\ UNCHANGED closed
         \/ /\ server[p].room = 0 /\ c.cmd = "join"
            /\ server' = [server EXCEPT ![p].room = c.ticket]
            /\ Tell(p, <<RoomUp(p, c.ticket)>>)
            /\ UNCHANGED <<rooms, closed>>
         \/ server[p].room = 0 /\ c.cmd = "leave" /\ UNCHANGED <<roomVars, wire>>
  BY <1>1 DEF TakeCommand
<1>3. /\ rooms \in Nat /\ closed \subseteq 1 .. rooms
      /\ server \in [Peers -> [up : BOOLEAN, room : 0 .. rooms]]
      /\ conn \in [Peers -> {"off", "live", "dead"}]
      /\ wire \in [Peers -> Seq(FramesOf(rooms))]
      /\ count \in [{"starts", "runs", "troubles"} -> Nat]
  BY DEF ProcessType
<1>4. PICK t : t = sim'
  OBVIOUS
<1>5. t \in Sims(rooms) /\ Head(sim.out[p]) \in CommandsTo(rooms)
  <2>1. t = [sim EXCEPT !.out[p] = Tail(@)]
    BY <1>2, <1>4
  <2>2. t \in Sims(rooms) /\ Head(sim.out[p]) = Head(Out(sim, p))
        /\ Head(Out(sim, p)) \in CommandsTo(rooms)
    BY <1>2, <1>3, <2>1, TakenIs
  <2> QED
    BY <2>2
<1>6. c.cmd \in {"open", "join", "leave"} /\ c.ticket \in 0 .. rooms
  BY <1>1, <1>5 DEF CommandsTo
<1>7. ASSUME server[p].room # 0, LeaveRoom(p)
      PROVE  t \in Sims(rooms') /\ ProcessType' /\ Other /\ Silence
  <2>1. PICK frames : frames = <<Event("room_left")>>
    OBVIOUS
  <2>2. Tell(p, frames) /\ rooms' = rooms
        /\ server' = [server EXCEPT ![p].room = 0]
        /\ closed' = IF p = "A" THEN closed \cup {server[p].room} ELSE closed
    BY <1>7, <2>1 DEF LeaveRoom
  <2>3. frames \in Seq(FramesOf(rooms))
    BY <1>3, <2>1, FramesAre
  <2>4. /\ wire' \in [Peers -> Seq(FramesOf(rooms))]
        /\ \A q \in Peers : q # p => wire'[q] = wire[q]
        /\ conn[p] # "live" => wire'[p] = wire[p]
    BY ONLY <1>3, <2>2, <2>3, p \in Peers, TellIs
  <2>5. 0 \in 0 .. rooms /\ server[p].room \in 1 .. rooms
    BY <1>3, <1>7
  <2>6. /\ server' \in [Peers -> [up : BOOLEAN, room : 0 .. rooms]]
        /\ \A q \in Peers : q # p => server'[q] = server[q]
    BY <1>3, <2>2, <2>5
  <2>7. closed' \subseteq 1 .. rooms
    BY <1>3, <2>2, <2>5
  <2> QED
    BY <1>2, <1>3, <1>5, <2>2, <2>4, <2>6, <2>7 DEF ProcessType
<1>8. ASSUME server[p].room = 0, c.cmd = "open",
             rooms' = rooms + 1, server' = [server EXCEPT ![p].room = rooms + 1],
             Tell(p, <<RoomUp(p, rooms + 1)>>), closed' = closed
      PROVE  /\ t \in Sims(rooms') /\ ProcessType' /\ Other /\ Silence
             /\ server'[p].room = rooms + 1
  <2>1. PICK n \in Nat : n = rooms + 1
    BY <1>3
  <2>2. PICK frames : frames = <<RoomUp(p, n)>>
    OBVIOUS
  <2>3. n \in 0 .. n /\ RoomUp(p, n) \in FramesOf(n)
    <3>1. n \in 0 .. n
      BY <2>1
    <3> QED
      BY <3>1, RoomUpIs
  <2>4. frames \in Seq(FramesOf(n))
    BY ONLY <2>2, <2>3
  <2>5. wire \in [Peers -> Seq(FramesOf(n))]
    <3>1. Seq(FramesOf(rooms)) \subseteq Seq(FramesOf(n))
      BY <1>3, <2>1, MoreRooms
    <3> QED
      BY <1>3, <3>1
  <2>6. Tell(p, frames)
    BY <1>8, <2>1, <2>2
  <2>7. /\ wire' \in [Peers -> Seq(FramesOf(n))]
        /\ \A q \in Peers : q # p => wire'[q] = wire[q]
        /\ conn[p] # "live" => wire'[p] = wire[p]
    BY ONLY <2>1, <2>4, <2>5, <2>6, p \in Peers, TellIs
  <2>8. 0 .. rooms \subseteq 0 .. n /\ n \in 0 .. n /\ 1 .. rooms \subseteq 1 .. n
    BY <1>3, <2>1
  <2>9. /\ server' \in [Peers -> [up : BOOLEAN, room : 0 .. n]]
        /\ server'[p].room = n
        /\ \A q \in Peers : q # p => server'[q] = server[q]
    <3>1. server \in [Peers -> [up : BOOLEAN, room : 0 .. n]]
      BY <1>3, <2>8
    <3>2. server' = [server EXCEPT ![p].room = n]
      BY <1>8, <2>1
    <3> QED
      BY <2>8, <3>1, <3>2
  <2>10. t \in Sims(n)
    BY <1>3, <1>5, <2>1, MoreSims
  <2>11. closed' \subseteq 1 .. n /\ rooms' = n
    BY <1>3, <1>8, <2>1, <2>8
  <2>12. ProcessType'
    BY <1>2, <1>3, <2>1, <2>7, <2>9, <2>11 DEF ProcessType
  <2> QED
    BY <2>1, <2>7, <2>9, <2>10, <2>11, <2>12
<1>9. ASSUME server[p].room = 0, c.cmd = "join",
             server' = [server EXCEPT ![p].room = c.ticket],
             Tell(p, <<RoomUp(p, c.ticket)>>), rooms' = rooms, closed' = closed
      PROVE  /\ t \in Sims(rooms') /\ ProcessType' /\ Other /\ Silence
             /\ server'[p].room = c.ticket
  <2>1. PICK n \in 0 .. rooms : n = c.ticket
    BY <1>6
  <2>2. PICK frames : frames = <<RoomUp(p, n)>>
    OBVIOUS
  <2>3. RoomUp(p, n) \in FramesOf(rooms)
    BY <1>3, RoomUpIs
  <2>4. frames \in Seq(FramesOf(rooms))
    BY ONLY <2>2, <2>3
  <2>5. Tell(p, frames)
    BY <1>9, <2>1, <2>2
  <2>6. /\ wire' \in [Peers -> Seq(FramesOf(rooms))]
        /\ \A q \in Peers : q # p => wire'[q] = wire[q]
        /\ conn[p] # "live" => wire'[p] = wire[p]
    BY ONLY <1>3, <2>4, <2>5, p \in Peers, TellIs
  <2>7. /\ server' \in [Peers -> [up : BOOLEAN, room : 0 .. rooms]]
        /\ server'[p].room = n
        /\ \A q \in Peers : q # p => server'[q] = server[q]
    BY <1>3, <1>9, <2>1
  <2>8. ProcessType'
    BY <1>2, <1>3, <1>9, <2>6, <2>7 DEF ProcessType
  <2> QED
    BY <1>5, <1>9, <2>1, <2>6, <2>7, <2>8
<1>10. ASSUME server[p].room = 0, c.cmd = "leave", UNCHANGED <<roomVars, wire>>
       PROVE  t \in Sims(rooms') /\ ProcessType' /\ Other /\ Silence
  BY <1>2, <1>3, <1>5, <1>10 DEF ProcessType, roomVars
<1>11. Opens /\ Joins
  BY <1>1, <1>2, <1>8, <1>9
<1>12. t \in Sims(rooms') /\ ProcessType' /\ Other /\ Silence
  BY <1>2, <1>7, <1>8, <1>9, <1>10
<1> QED
  BY <1>4, <1>11, <1>12

\* In the first start a command opens A's room, or takes B into it.
LEMMA CommandKeepsFirst ==
  ASSUME SimInv, NEW p \in Peers, TakeCommand(p), NEW R, R = runners, count.starts <= 1
  PROVE  First(sim, conn, wire, R)'
<1>1. /\ sim.out[p] # <<>> /\ sim' = [sim EXCEPT !.out[p] = Tail(@)]
      /\ UNCHANGED <<runners, conn, count>>
  BY DEF TakeCommand
<1>2. /\ rooms \in Nat /\ sim \in Sims(rooms)
      /\ First(sim, conn, wire, R)
      /\ \A q \in Peers : server[q].room \in 0 .. rooms
  BY HoldsNow
<1>3. PICK r, t, c, w : r = sim /\ t = sim' /\ c = conn /\ w = wire
  OBVIOUS
<1>4. PICK o : o = Out(r, p)
  OBVIOUS
<1>5. /\ t \in Sims(rooms) /\ t.phase = r.phase /\ t.openSent = r.openSent
      /\ t.joinSent = r.joinSent /\ t.cancel = r.cancel /\ t.peer = r.peer
      /\ o # <<>> /\ Out(t, p) = Tail(o) /\ Head(r.out[p]) = Head(o)
      /\ \A q \in Peers : q # p => Out(t, q) = Out(r, q)
      /\ \A q \in Peers : Status(t, q) = Status(r, q) /\ RoomOn(t, q) = RoomOn(r, q)
  <2>1. r \in Sims(rooms) /\ r.out[p] # <<>> /\ t = [r EXCEPT !.out[p] = Tail(@)]
    BY <1>1, <1>2, <1>3
  <2> QED
    BY ONLY <1>2, <1>4, <2>1, p \in Peers, TakenIs
<1>6. /\ \A q \in Peers : q # p => wire'[q] = wire[q] /\ server'[q] = server[q]
      /\ server[p].room = 0 /\ Head(o).cmd = "open" =>
           rooms' = rooms + 1 /\ closed' = closed /\ server'[p].room = rooms + 1
      /\ server[p].room = 0 /\ Head(o).cmd = "join" =>
           rooms' = rooms /\ closed' = closed /\ server'[p].room = Head(o).ticket
  <2>1. Head(sim.out[p]) = Head(o)
    BY <1>3, <1>5
  <2>2. ProcessType
    BY Parts
  <2>3. /\ \A q \in Peers : q # p => wire'[q] = wire[q] /\ server'[q] = server[q]
        /\ server[p].room = 0 /\ Head(sim.out[p]).cmd = "open" =>
             rooms' = rooms + 1 /\ closed' = closed /\ server'[p].room = rooms + 1
        /\ server[p].room = 0 /\ Head(sim.out[p]).cmd = "join" =>
             /\ rooms' = rooms /\ closed' = closed
             /\ server'[p].room = Head(sim.out[p]).ticket
    BY <1>2, <2>2, CommandIs
  <2> QED
    BY ONLY <2>1, <2>3
<1>7. PICK v : v = wire'
  OBVIOUS
<1>8. First(r, c, w, R) /\ OneRun(r, R)
  BY <1>2, <1>3 DEF First
<1>9. OneRun(t, R)
  BY ONLY <1>5, <1>8 DEF OneRun
<1>10. CASE r.phase \notin AfterA \cup {"waiting-a"}
  BY <1>3, <1>5, <1>9, <1>10 DEF First, AfterA
<1>11. CASE r.phase \in AfterA \cup {"waiting-a"} /\ p = "A"
  <2>1. Started(r)
    BY <1>8, <1>11 DEF First
  <2>2. o = Adds(<<>>, "open", 0) /\ rooms = 0 /\ closed = {} /\ r.openSent
    BY <1>2, <1>4, <1>5, <1>11, <2>1 DEF Started
  <2>3. r.phase = "waiting-a" /\ WaitsForA(r, c, w)
    BY <1>8, <1>11, <2>2 DEF First, Handed
  <2>4. Head(o) = [cmd |-> "open", ticket |-> 0] /\ Tail(o) = <<>>
    <3>1. <<>> \in Seq(CommandsTo(0)) /\ "open" \in {"open", "join", "leave"} /\ 0 \in 0 .. 0
      OBVIOUS
    <3>2. o = Adds(<<>>, "open", 0)
      BY <2>2
    <3> QED
      BY ONLY <3>1, <3>2, AddsIs
  <2>5. server[p].room = 0
    BY <1>2, <2>2
  <2>6. rooms' = 1 /\ closed' = {} /\ server'["A"].room = 1
    <3>1. Head(o).cmd = "open"
      BY ONLY <2>4
    <3> QED
      BY ONLY <1>6, <1>11, <2>2, <2>5, <3>1
  <2>7. Out(t, "A") = <<>> /\ t.openSent
    BY <1>5, <1>11, <2>2, <2>4
  <2>8. \A q \in Peers : Status(t, q) # "connecting"
    BY ONLY <1>5, <2>1 DEF Started
  <2>9. Started(t)'
    BY <2>6, <2>7, <2>8 DEF Started
  <2>10. Out(t, "B") = Out(r, "B") /\ v["B"] = w["B"] /\ server'["B"] = server["B"]
    BY <1>3, <1>5, <1>6, <1>7, <1>11, TwoPeers
  <2>11. ~EntersRoom(t, v, "B") /\ Out(t, "B") = <<>> /\ ~t.joinSent
    BY <1>5, <2>3, <2>10, TwoPeers DEF WaitsForA, EntersRoom
  <2>12. server'["B"].room = 0
    BY <2>3, <2>10 DEF WaitsForA
  <2>13. HasRoom(c, "A")'
    BY <2>6 DEF HasRoom
  <2>14. WaitsForA(t, c, v)'
    BY <2>11, <2>12, <2>13 DEF WaitsForA
  <2>15. First(t, c, v, R)'
    BY <1>5, <1>9, <2>3, <2>9, <2>14 DEF First, AfterA
  <2> QED
    BY <1>1, <1>3, <1>7, <2>15
<1>12. CASE r.phase \in AfterA \cup {"waiting-a"} /\ p = "B"
  <2>1. Started(r)
    BY <1>8, <1>12 DEF First
  <2>2. r.phase # "waiting-a"
    BY <1>4, <1>5, <1>8, <1>12 DEF First, WaitsForA
  <2>3. Handed(r, c, w)
    BY <1>8, <1>12, <2>2 DEF First
  <2>4. rooms = 1 /\ HasRoom(c, "A") /\ o = Adds(<<>>, "join", 1) /\ server["B"].room = 0
    BY <1>4, <1>5, <1>12, <2>3 DEF Handed
  <2>5. Head(o) = [cmd |-> "join", ticket |-> 1] /\ Tail(o) = <<>>
    <3>1. PICK n \in Nat : n = 1
      OBVIOUS
    <3>2. <<>> \in Seq(CommandsTo(n)) /\ "join" \in {"open", "join", "leave"} /\ n \in 0 .. n
      OBVIOUS
    <3>3. o = Adds(<<>>, "join", n)
      BY <2>4, <3>1
    <3>4. Head(o) = [cmd |-> "join", ticket |-> n] /\ Tail(o) = <<>>
      BY ONLY <3>2, <3>3, AddsIs
    <3> QED
      BY ONLY <3>1, <3>4
  <2>6. rooms' = 1 /\ closed' = closed /\ server'["B"].room = 1
    <3>1. Head(o).cmd = "join" /\ Head(o).ticket = 1
      BY ONLY <2>5
    <3> QED
      BY ONLY <1>6, <1>12, <2>4, <3>1
  <2>7. Out(t, "A") = Out(r, "A") /\ Out(t, "B") = <<>> /\ server'["A"] = server["A"]
    BY <1>5, <1>6, <1>12, <2>5, TwoPeers
  <2>8. Started(t)'
    BY <1>5, <2>1, <2>4, <2>6, <2>7 DEF Started
  <2>9. HasRoom(c, "A")' /\ HasRoom(c, "B")'
    BY <2>4, <2>6, <2>7 DEF HasRoom
  <2>10. Handed(t, c, v)'
    BY <2>6, <2>7, <2>9 DEF Handed
  <2>11. First(t, c, v, R)'
    BY <1>5, <1>9, <2>2, <2>8, <2>10 DEF First
  <2> QED
    BY <1>1, <1>3, <1>7, <2>11
<1> QED
  BY <1>10, <1>11, <1>12, TwoPeers

LEMMA TakeCommandKeeps ==
  ASSUME SimInv, NEW p \in Peers, TakeCommand(p)
  PROVE  SimInv'
<1>1. /\ sim.out[p] # <<>> /\ sim' = [sim EXCEPT !.out[p] = Tail(@)]
      /\ UNCHANGED <<runners, conn, count>>
  BY DEF TakeCommand
<1>2. ProcessType /\ WireOff /\ RunnerType
  BY Parts
<1>3. /\ rooms \in Nat /\ count.starts \in Nat /\ sim \in Sims(rooms)
      /\ Agreed(sim, conn) /\ Guarded(sim) /\ Silent(sim, runners)
      /\ sim.phase = "waiting-a" => sim.openSent
      /\ count.starts = 0 => Untouched(sim, wire, runners)
  BY HoldsNow
<1>4. /\ sim' \in Sims(rooms') /\ ProcessType'
      /\ \A q \in Peers : q # p => wire'[q] = wire[q] /\ server'[q] = server[q]
      /\ conn[p] # "live" => wire'[p] = wire[p]
  BY <1>2, <1>3, CommandIs
<1>5. PICK t : t = sim'
  OBVIOUS
<1>6. /\ t.phase = sim.phase /\ t.openSent = sim.openSent
      /\ t.joinSent = sim.joinSent /\ t.cancel = sim.cancel /\ t.peer = sim.peer
      /\ Out(sim, p) # <<>>
  <2>1. t = [sim EXCEPT !.out[p] = Tail(@)]
    BY <1>1, <1>5
  <2> QED
    BY ONLY <1>1, <1>3, <2>1, p \in Peers, TakenIs
<1>7. PICK c : c = conn
  OBVIOUS
<1>8. Agreed(t, c) /\ Guarded(t)
  BY <1>3, <1>6, <1>7, SamePeers DEF Guarded, Status
<1>9. Silent(t, runners)
  BY <1>3, <1>6 DEF Silent
<1>10. count.starts # 0
  BY <1>3, <1>6 DEF Untouched
<1>11. PICK R : R = runners
  OBVIOUS
<1>12. count.starts <= 1 => First(sim, conn, wire, R)'
  BY <1>11, CommandKeepsFirst
<1>13. Holds(sim, conn, wire, runners, count.starts)'
  <2>1. (sim \in Sims(rooms))' /\ Agreed(sim, conn)' /\ Guarded(sim)' /\ Silent(sim, runners)'
    <3>1. conn' = c /\ runners' = runners
      BY <1>1, <1>7
    <3> QED
      BY <1>4, <1>5, <1>8, <1>9, <3>1
  <2>2. (count.starts = 0 => Untouched(sim, wire, runners))'
    BY <1>1, <1>10
  <2>3. (count.starts <= 1 => First(sim, conn, wire, runners))'
    BY <1>1, <1>11, <1>12
  <2> QED
    BY ONLY <2>1, <2>2, <2>3 DEF Holds
<1>14. (sim.phase = "waiting-a" => sim.openSent)'
  BY <1>3, <1>5, <1>6
<1>15. RunnerType'
  BY <1>1, <1>2, RunnersAlone
<1>16. WireOff'
  BY <1>1, <1>2, <1>4, TellKeepsOff
<1> QED
  BY ONLY <1>4, <1>13, <1>14, <1>15, <1>16, Parts

-----------------------------------------------------------------------------
(* The invariant, and what it says of the properties.                       *)

LEMMA InitHolds ==
  ASSUME Init
  PROVE  SimInv
<1> DEFINE f == [p \in Peers |-> Connecting("open")]
<1>1. /\ runners = {} /\ server = [p \in Peers |-> [up |-> TRUE, room |-> 0]]
      /\ rooms = 0 /\ closed = {}
      /\ conn = [p \in Peers |-> "off"] /\ wire = [p \in Peers |-> <<>>]
      /\ count = [w \in {"starts", "runs", "troubles"} |-> 0]
      /\ sim = [phase |-> "idle", openSent |-> FALSE, joinSent |-> FALSE, cancel |-> FALSE,
                peer |-> f, out |-> [p \in Peers |-> <<>>]]
  BY DEF Init, Fresh
<1>2. /\ f \in [Peers -> ClientsOf(0)]
      /\ \A p \in Peers : f[p].status = "connecting" /\ f[p].view.roomState = "pending"
  BY NewClients
<1> HIDE DEF f
<1>3. <<>> \in Seq(CommandsTo(0)) /\ <<>> \in Seq(FramesOf(0)) /\ 0 \in 0 .. 0
  OBVIOUS
<1>4. /\ sim \in Sims(0) /\ sim.phase = "idle" /\ ~sim.joinSent
      /\ sim.peer = f /\ sim.out = [p \in Peers |-> <<>>]
  <2>1. [p \in Peers |-> <<>>] \in [Peers -> Seq(CommandsTo(0))]
    BY <1>3
  <2> QED
    BY <1>1, <1>2, <2>1 DEF Sims, Phases
<1>5. \A p \in Peers : Status(sim, p) = "connecting" /\ RoomOn(sim, p) = "pending"
                       /\ Out(sim, p) = <<>>
  BY <1>2, <1>4 DEF Status, RoomOn, Out
<1>6. ProcessType
  <2>1. /\ rooms \in Nat /\ closed \subseteq 1 .. rooms
        /\ conn \in [Peers -> {"off", "live", "dead"}]
        /\ count \in [{"starts", "runs", "troubles"} -> Nat]
    BY <1>1
  <2>2. server \in [Peers -> [up : BOOLEAN, room : 0 .. rooms]]
    BY <1>1, <1>3
  <2>3. wire \in [Peers -> Seq(FramesOf(rooms))]
    BY <1>1, <1>3
  <2> QED
    BY <2>1, <2>2, <2>3 DEF ProcessType
<1>7. Agreed(sim, conn) /\ Guarded(sim) /\ Silent(sim, runners)
  BY <1>1, <1>4, <1>5 DEF Agreed, Guarded, Silent
<1>8. Untouched(sim, wire, runners)
  BY <1>1, <1>4, <1>5, NoneAmong DEF Untouched, EntersRoom
<1>9. First(sim, conn, wire, runners)
  BY <1>1, <1>4 DEF First, OneRun, AfterA
<1>10. Holds(sim, conn, wire, runners, count.starts)
  BY <1>1, <1>4, <1>7, <1>8, <1>9 DEF Holds
<1>11. RunnerType /\ WireOff
  BY <1>1 DEF RunnerType, WireOff
<1> QED
  BY <1>4, <1>6, <1>10, <1>11, Parts

LEMMA StepKeeps ==
  ASSUME SimInv, [Next]_vars
  PROVE  SimInv'
<1>1. CASE StartSim
  BY <1>1, StartSimKeeps
<1>2. CASE RunScenario
  BY <1>2, RunScenarioKeeps
<1>3. CASE RunAgain
  BY <1>3, RunAgainKeeps
<1>4. CASE ResetClicked
  BY <1>4, ResetKeeps
<1>5. CASE ReconnectPeers
  BY <1>5, ReconnectKeeps
<1>6. CASE Reload
  BY <1>6, ReloadKeeps
<1>7. ASSUME NEW e \in runners, TimerFires(e) PROVE SimInv'
  BY <1>7, TimerKeeps
<1>8. ASSUME NEW p \in Peers, Socket(p) PROVE SimInv'
  BY <1>8, HandshakeKeeps, ReceiveKeeps, SocketClosesKeeps DEF Socket
<1>9. ASSUME NEW p \in Peers, Process(p) PROVE SimInv'
  BY <1>9, TakeCommandKeeps, ProcessStopsKeeps, ProcessStartsKeeps, ConnectionBreaksKeeps
     DEF Process
<1>10. CASE HostCloses
  BY <1>10, HostClosesKeeps
<1>11. CASE UNCHANGED vars
  <2>1. /\ sim' = sim /\ runners' = runners /\ conn' = conn /\ wire' = wire /\ count' = count
        /\ server' = server /\ rooms' = rooms /\ closed' = closed
    BY <1>11 DEF vars, simVars, roomVars
  <2> QED
    BY <2>1 DEF SimInv, ProcessType, RunnerType, Holds, Agreed, Guarded, Silent, Untouched,
       First, Started, WaitsForA, Handed, HasRoom
<1> QED
  BY <1>1, <1>2, <1>3, <1>4, <1>5, <1>6, <1>7, <1>8, <1>9, <1>10, <1>11 DEF Next, User

THEOREM SimulationInvariant == Spec => []SimInv
<1>1. Init => SimInv
  BY InitHolds
<1>2. SimInv /\ [Next]_vars => SimInv'
  BY StepKeeps
<1> QED
  BY <1>1, <1>2, PTL DEF Spec

LEMMA TypesFollow == SimInv => TypeOK
<1> SUFFICES ASSUME SimInv PROVE TypeOK
  OBVIOUS
<1>1. /\ rooms \in Nat /\ sim \in Sims(rooms) /\ Guarded(sim)
      /\ \A p \in Peers : server[p].room \in 0 .. rooms
  BY HoldsNow
<1>2. sim.phase \in Phases /\ {sim.openSent, sim.joinSent, sim.cancel} \subseteq BOOLEAN
  BY <1>1 DEF Sims
<1>3. \A p \in Peers : Status(sim, p) \in ConnectionStates /\ sim.peer[p].ticket \in 0 .. rooms
  BY <1>1, ClientTypes
<1>4. \A e \in runners : e.left # <<>> /\ e.run < count.runs
  BY Parts DEF RunnerType
<1> QED
  BY <1>1, <1>2, <1>3, <1>4 DEF TypeOK, Guarded, Status

\* The hook's state and the rooms have their types, B is asked only after A, and what
\* runs has timers left.
THEOREM TypeCorrect == Spec => []TypeOK
BY SimulationInvariant, TypesFollow, PTL

\* Idle, the page says nothing: every runner ends at its next timer.
THEOREM SilenceCorrect == Spec => []SilentWhenIdle
<1>1. SimInv => SilentWhenIdle
  BY HoldsNow DEF Silent, SilentWhenIdle
<1> QED
  BY <1>1, SimulationInvariant, PTL

\* In the first simulation the phase is "running" exactly while a scenario is
\* executing, and no two are.
THEOREM RunnerCorrect == Spec => []RunsWhileRunning
<1>1. SimInv => RunsWhileRunning
  <2>1. SUFFICES ASSUME SimInv, FirstStart
                 PROVE  /\ sim.phase = "running" <=> runners # {} /\ ~sim.cancel
                        /\ \A d, e \in runners : d = e
    BY DEF RunsWhileRunning
  <2>2. sim \in Sims(rooms) /\ OneRun(sim, runners)
    BY <2>1, HoldsNow DEF First, FirstStart
  <2>3. sim.phase \in Phases
    BY <2>2 DEF Sims
  <2>4. sim.phase = "running" => runners # {} /\ ~sim.cancel
    BY <2>2 DEF OneRun
  <2>5. sim.phase # "running" => runners = {} \/ sim.cancel
    BY <2>2, <2>3 DEF OneRun, Phases
  <2> QED
    BY <2>2, <2>4, <2>5 DEF OneRun
<1> QED
  BY <1>1, SimulationInvariant, PTL

\* The first simulation is ready, and runs, with both peers in the one room.
THEOREM ReadyCorrect == Spec => []FirstReadyMeansBoth
<1>1. SimInv => FirstReadyMeansBoth
  <2>1. SUFFICES ASSUME SimInv, FirstStart, sim.phase \in {"ready", "running"},
                        \A p \in Peers : conn[p] = "live"
                 PROVE  server["A"].room # 0 /\ server["A"].room = server["B"].room
    BY DEF FirstReadyMeansBoth, BothInRoom
  <2>2. Handed(sim, conn, wire)
    BY <2>1, HoldsNow DEF First, FirstStart, AfterA
  <2> QED
    BY <2>1, <2>2, TwoPeers DEF Handed, HasRoom
<1> QED
  BY <1>1, SimulationInvariant, PTL

-----------------------------------------------------------------------------
(* What is played is the script: the timers that have fired and those that  *)
(* are left make it up while it runs, and running ends with none left.      *)

LEMMA PlayedOn ==
  ASSUME NEW S, NEW a \in Seq(S), NEW b \in Seq(S), b # <<>>
  PROVE  /\ Append(a, Head(b)) \in Seq(S)
         /\ Append(a, Head(b)) \o Tail(b) = a \o b
         /\ Tail(b) = <<>> => Append(a, Head(b)) = a \o b
<1>1. PICK n \in Nat : n = Len(a)
  OBVIOUS
<1>2. PICK m \in Nat : m = Len(b) /\ m # 0
  OBVIOUS
<1>3. PICK c, d, x, y : c = Append(a, Head(b)) /\ d = Tail(b) /\ x = c \o d /\ y = a \o b
  OBVIOUS
<1>4. c \in Seq(S) /\ d \in Seq(S) /\ y \in Seq(S)
  BY <1>3
<1>5. x \in Seq(S)
  BY <1>3, <1>4
<1>6. Len(c) = n + 1 /\ c[n + 1] = b[1] /\ \A i \in 1 .. n : c[i] = a[i]
  BY <1>1, <1>3
<1>7. Len(d) = m - 1 /\ \A i \in 1 .. m - 1 : d[i] = b[i + 1]
  BY <1>2, <1>3
<1>8. Len(x) = n + m /\ Len(y) = n + m
  BY <1>1, <1>2, <1>3, <1>4, <1>6, <1>7
<1>9. /\ \A i \in 1 .. n + 1 : x[i] = c[i]
      /\ \A i \in n + 2 .. n + m : x[i] = d[i - (n + 1)]
  <2>1. x = c \o d /\ Len(c) = n + 1 /\ Len(d) = m - 1
    BY <1>3, <1>6, <1>7
  <2>2. \A i \in 1 .. n + 1 : x[i] = c[i]
    BY ONLY n \in Nat, m \in Nat, <1>4, <2>1
  <2>3. \A i \in n + 2 .. n + m : x[i] = d[i - (n + 1)]
    BY ONLY n \in Nat, m \in Nat, <1>4, <2>1
  <2> QED
    BY ONLY <2>2, <2>3
<1>10. /\ \A i \in 1 .. n : y[i] = a[i]
       /\ \A i \in n + 1 .. n + m : y[i] = b[i - n]
  BY <1>1, <1>2, <1>3
<1>11. ASSUME NEW i \in 1 .. n + m PROVE x[i] = y[i]
  <2>1. CASE i <= n
    BY <1>6, <1>9, <1>10, <2>1
  <2>2. CASE i = n + 1
    BY <1>6, <1>9, <1>10, <2>2
  <2>3. CASE i > n + 1
    <3>1. i \in n + 2 .. n + m /\ i - (n + 1) \in 1 .. m - 1 /\ i - n \in 1 .. m
          /\ (i - (n + 1)) + 1 = i - n
      BY <1>2, <2>3
    <3> QED
      BY <1>7, <1>9, <1>10, <3>1
  <2> QED
    BY <2>1, <2>2, <2>3
<1>12. x = y
  BY ONLY n \in Nat, m \in Nat, <1>4, <1>5, <1>8, <1>11
<1>13. d = <<>> => c \o d = c
  BY ONLY <1>4
<1> QED
  BY <1>3, <1>4, <1>12, <1>13

LEMMA PlayedIsPrefix ==
  ASSUME NEW S, NEW a \in Seq(S), NEW b \in Seq(S)
  PROVE  IsPrefix(a, a \o b)
<1>1. PICK n \in Nat : n = Len(a)
  OBVIOUS
<1>2. PICK y : y = a \o b
  OBVIOUS
<1>3. Len(y) >= n /\ \A i \in 1 .. n : y[i] = a[i]
  BY <1>1, <1>2
<1>4. SubSeq(y, 1, n) = SubSeq(a, 1, n)
  BY <1>1, <1>3
<1> QED
  BY <1>1, <1>2, <1>3, <1>4 DEF IsPrefix

LEMMA WholeIsPrefix ==
  ASSUME NEW S, NEW a \in Seq(S)
  PROVE  IsPrefix(a, a)
BY DEF IsPrefix

\* A render starts no scenario and ends none.
NewPhases == {"waiting-b", "ready", "error"}

LEMMA EffectsPhase ==
  ASSUME NEW r, "phase" \in DOMAIN r, NEW t, t = Effects(r)
  PROVE  "phase" \in DOMAIN t /\ (t.phase = r.phase \/ t.phase \in NewPhases)
<1>1. ASSUME NEW s, "phase" \in DOMAIN s, NEW p, NEW c, NEW k
      PROVE  "phase" \in DOMAIN Asks(s, p, c, k) /\ Asks(s, p, c, k).phase = s.phase
  <2>1. PICK d : d = Send(s, p, c, k)
    OBVIOUS
  <2>2. "phase" \in DOMAIN d /\ d.phase = s.phase
    BY <1>1, <2>1 DEF Send
  <2>3. PICK e : e = [d.peer EXCEPT ![p] = Starts(d.peer[p], c)]
    OBVIOUS
  <2>4. Asks(s, p, c, k) = [d EXCEPT !.peer = e]
    BY <2>1, <2>3 DEF Asks
  <2> QED
    BY ONLY <2>2, <2>4
<1>2. PICK s1 : s1 = OpenOnA(r, r)
  OBVIOUS
<1>3. PICK s2 : s2 = HandTicket(r, s1)
  OBVIOUS
<1>4. PICK s3 : s3 = ReachReady(r, s2)
  OBVIOUS
<1>5. "phase" \in DOMAIN s1 /\ s1.phase = r.phase
  BY <1>1, <1>2 DEF OpenOnA
<1>6. "phase" \in DOMAIN s2 /\ (s2.phase = s1.phase \/ s2.phase = "waiting-b")
  <2>1. PICK u, k : /\ u = [s1 EXCEPT !.joinSent = TRUE, !.phase = "waiting-b"]
                    /\ k = r.peer["A"].ticket
    OBVIOUS
  <2>2. "phase" \in DOMAIN u /\ u.phase = "waiting-b"
    BY <1>5, <2>1
  <2>3. s2 = s1 \/ s2 = Asks(u, "B", "join", k)
    BY <1>3, <2>1 DEF HandTicket
  <2> QED
    BY <1>1, <1>5, <2>2, <2>3
<1>7. "phase" \in DOMAIN s3 /\ (s3.phase = s2.phase \/ s3.phase = "ready")
  BY <1>4, <1>6 DEF ReachReady
<1>8. t = DetectLoss(r, s3)
  BY <1>2, <1>3, <1>4 DEF Effects
<1>9. "phase" \in DOMAIN t /\ (t.phase = s3.phase \/ t.phase = "error")
  BY <1>7, <1>8 DEF DetectLoss
<1> QED
  BY <1>5, <1>6, <1>7, <1>9 DEF NewPhases

LEMMA RenderPhase ==
  ASSUME NEW s, "phase" \in DOMAIN s, Render(s)
  PROVE  sim'.phase = s.phase \/ sim'.phase \in NewPhases
<1>1. PICK s1 : s1 = Effects(s)
  OBVIOUS
<1>2. PICK s2 : s2 = Effects(s1)
  OBVIOUS
<1>3. PICK s3 : s3 = Effects(s2)
  OBVIOUS
<1>4. "phase" \in DOMAIN s1 /\ (s1.phase = s.phase \/ s1.phase \in NewPhases)
  BY <1>1, EffectsPhase
<1>5. "phase" \in DOMAIN s2 /\ (s2.phase = s.phase \/ s2.phase \in NewPhases)
  BY <1>2, <1>4, EffectsPhase
<1>6. s3.phase = s.phase \/ s3.phase \in NewPhases
  BY <1>3, <1>5, EffectsPhase
<1> QED
  BY <1>1, <1>2, <1>3, <1>6 DEF Render

PlayInv ==
  /\ said \in Seq(Timers) /\ script \in Seq(Timers)
  /\ FirstStart =>
       /\ IsPrefix(said, script)
       /\ sim.phase = "done" => said = script
       /\ sim.phase = "running" => \A e \in runners : said \o e.left = script

\* An action that ends in a render of a state in the old phase, and leaves what is
\* played alone.
LEMMA PlayedAlike ==
  ASSUME PlayInv, NEW s, "phase" \in DOMAIN s, s.phase = sim.phase, Render(s),
         UNCHANGED <<said, script, runners>>, count'.starts = count.starts
  PROVE  PlayInv'
<1>1. sim'.phase = sim.phase \/ sim'.phase \in NewPhases
  BY RenderPhase
<1>2. sim'.phase \in {"running", "done"} => sim'.phase = sim.phase
  BY <1>1 DEF NewPhases
<1> QED
  BY <1>2 DEF PlayInv, FirstStart

\* An action after which nothing is played.
LEMMA PlayedAfresh ==
  ASSUME NEW s, "phase" \in DOMAIN s, Render(s), s.phase \notin {"running", "done"},
         said' = <<>>, script' = <<>>
  PROVE  PlayInv'
<1>1. sim'.phase \notin {"running", "done"}
  BY RenderPhase DEF NewPhases
<1>2. <<>> \in Seq(Timers)
  OBVIOUS
<1>3. IsPrefix(<<>>, <<>>)
  BY <1>2, WholeIsPrefix
<1> QED
  BY <1>1, <1>2, <1>3 DEF PlayInv

LEMMA PhaseOfSim == SimInv => "phase" \in DOMAIN sim
<1>1. SimInv => sim \in Sims(rooms)
  BY HoldsNow
<1> QED
  BY <1>1 DEF Sims

\* In the first simulation the one runner is that of the running scenario.
LEMMA FirstRunner ==
  ASSUME SimInv, FirstStart
  PROVE  /\ \A d, e \in runners : d = e
         /\ sim.phase \in {"ready", "done"} => runners = {}
         /\ sim.phase = "running" => ~sim.cancel
         /\ runners # {} /\ ~sim.cancel => sim.phase = "running"
<1>1. OneRun(sim, runners) /\ sim.phase \in Phases
  BY HoldsNow DEF First, FirstStart, Sims
<1> QED
  BY <1>1 DEF OneRun, Phases

LEMMA ScenarioIsPlayed ==
  ASSUME SimInv, RunScenario
  PROVE  PlayInv'
<1> DEFINE s == [sim EXCEPT !.cancel = FALSE, !.phase = "running"]
<1>1. PICK id \in Scenarios :
        /\ "run" \in Offers /\ Count("runs", MaxRuns) /\ Render(s)
        /\ runners' = runners \cup {[run |-> count.runs, left |-> SCENARIOS[id]]}
        /\ said' = <<>> /\ script' = SCENARIOS[id]
  BY DEF RunScenario
<1>2. sim.phase = "ready"
  BY <1>1, OffersAre
<1>3. "phase" \in DOMAIN s /\ s.phase = "running"
  BY PhaseOfSim
<1> HIDE DEF s
<1>4. sim'.phase # "done"
  BY <1>1, <1>3, RenderPhase DEF NewPhases
<1>5. PICK l : l = SCENARIOS[id]
  OBVIOUS
<1>6. l \in Seq(Timers) /\ <<>> \in Seq(Timers)
  BY <1>5, ScenarioTimers
<1>7. <<>> \o l = l
  BY ONLY <1>6
<1>8. IsPrefix(<<>>, l)
  BY <1>6, <1>7, PlayedIsPrefix
<1>9. count'.starts = count.starts
  <2>1. ProcessType
    BY Parts
  <2> QED
    BY <1>1, <2>1, CountIs
<1>10. ASSUME FirstStart, NEW e \in runners' PROVE e.left = l
  <2>1. runners = {}
    BY <1>2, <1>10, FirstRunner
  <2> QED
    BY <1>1, <1>5, <1>10, <2>1
<1>11. said' = <<>> /\ script' = l
  BY <1>1, <1>5
<1>12. FirstStart' <=> FirstStart
  BY <1>9 DEF FirstStart
<1>13. FirstStart' => \A e \in runners' : said' \o e.left = script'
  BY <1>7, <1>10, <1>11, <1>12
<1> QED
  BY <1>4, <1>6, <1>8, <1>11, <1>13 DEF PlayInv

LEMMA TimerIsPlayed ==
  ASSUME SimInv, PlayInv, NEW e \in runners, TimerFires(e)
  PROVE  PlayInv'
<1> DEFINE d == [e EXCEPT !.left = Tail(@)]
           last == PlayedOut(e.left)
           s == IF ~sim.cancel /\ last THEN [sim EXCEPT !.phase = "done"] ELSE sim
<1>1. /\ runners' = IF sim.cancel \/ last THEN runners \ {e} ELSE (runners \ {e}) \cup {d}
      /\ said' = IF sim.cancel THEN said ELSE Append(said, Head(e.left))
      /\ Render(s) /\ script' = script /\ count' = count
  <2>1. /\ IF sim.cancel \/ last THEN runners' = runners \ {e}
           ELSE runners' = (runners \ {e}) \cup {d}
        /\ said' = IF sim.cancel THEN said ELSE Append(said, Head(e.left))
        /\ Render(s) /\ UNCHANGED <<script, roomVars, conn, wire, count>>
    BY DEF TimerFires
  <2> HIDE DEF s, d, last
  <2> QED
    BY <2>1
<1>2. RunnerType
  BY Parts
<1>3. e.left \in Seq(Timers) /\ e.left # <<>>
  BY <1>2 DEF RunnerType
<1>4. ~last => d.left = Tail(e.left)
  BY <1>2 DEF RunnerType
<1>5. /\ "phase" \in DOMAIN s
      /\ s.phase = IF ~sim.cancel /\ last THEN "done" ELSE sim.phase
  BY PhaseOfSim
<1>6. last <=> Tail(e.left) = <<>>
  BY DEF PlayedOut
<1> HIDE DEF s, d, last
<1>7. sim'.phase \in {"running", "done"} =>
        sim'.phase = IF ~sim.cancel /\ last THEN "done" ELSE sim.phase
  BY <1>1, <1>5, RenderPhase DEF NewPhases
<1>8. said \in Seq(Timers) /\ script \in Seq(Timers)
  BY DEF PlayInv
<1>9. PICK a, l : a = Append(said, Head(e.left)) /\ l = Tail(e.left)
  OBVIOUS
<1>10. /\ a \in Seq(Timers) /\ l \in Seq(Timers) /\ a \o l = said \o e.left
       /\ l = <<>> => a = said \o e.left
  <2>1. PICK t, b : t = said /\ b = e.left
    OBVIOUS
  <2>2. t \in Seq(Timers) /\ b \in Seq(Timers) /\ b # <<>>
    BY <1>3, <1>8, <2>1
  <2>3. /\ Append(t, Head(b)) \in Seq(Timers)
        /\ Append(t, Head(b)) \o Tail(b) = t \o b
        /\ Tail(b) = <<>> => Append(t, Head(b)) = t \o b
    BY ONLY <2>2, PlayedOn
  <2>4. Tail(b) \in Seq(Timers)
    BY ONLY <2>2
  <2>5. a = Append(t, Head(b)) /\ l = Tail(b) /\ said \o e.left = t \o b
    BY <1>9, <2>1
  <2> QED
    BY <2>3, <2>4, <2>5
<1>11. said' \in Seq(Timers) /\ script' \in Seq(Timers)
  BY <1>1, <1>8, <1>9, <1>10
<1>12. ASSUME FirstStart'
       PROVE  /\ IsPrefix(said', script')
              /\ sim'.phase = "done" => said' = script'
              /\ sim'.phase = "running" => \A o \in runners' : said' \o o.left = script'
  <2>1. FirstStart
    BY <1>1, <1>12 DEF FirstStart
  <2>2. /\ IsPrefix(said, script)
        /\ sim.phase = "done" => said = script
        /\ sim.phase = "running" => \A o \in runners : said \o o.left = script
    BY <2>1 DEF PlayInv
  <2>3. /\ runners = {e}
        /\ sim.phase = "running" => ~sim.cancel
        /\ ~sim.cancel => sim.phase = "running"
    <3>1. /\ \A x, y \in runners : x = y
          /\ sim.phase = "running" => ~sim.cancel
          /\ runners # {} /\ ~sim.cancel => sim.phase = "running"
      BY <2>1, FirstRunner
    <3>2. runners = {e}
      BY <3>1
    <3>3. runners # {}
      BY <3>2
    <3> QED
      BY ONLY <3>1, <3>2, <3>3
  <2>4. CASE sim.cancel
    BY <1>1, <1>7, <2>2, <2>3, <2>4
  <2>5. CASE ~sim.cancel
    <3>1. a \o l = script /\ said' = a /\ script' = script
      BY <1>1, <1>9, <1>10, <2>2, <2>3, <2>5
    <3>2. IsPrefix(a, script)
      BY <1>10, <3>1, PlayedIsPrefix
    <3>3. last => a = script /\ sim'.phase # "running"
      BY <1>6, <1>7, <1>9, <1>10, <2>5, <3>1
    <3>4. ~last => runners' = {d} /\ d.left = l /\ sim'.phase # "done"
      BY <1>1, <1>4, <1>7, <1>9, <2>3, <2>5
    <3>5. IsPrefix(said', script')
      BY <3>1, <3>2
    <3>6. sim'.phase = "done" => said' = script'
      BY <3>1, <3>3, <3>4
    <3>7. ASSUME sim'.phase = "running", NEW o \in runners' PROVE said' \o o.left = script'
      <4>1. o.left = l
        BY <3>3, <3>4, <3>7
      <4> QED
        BY ONLY <3>1, <4>1
    <3> QED
      BY <3>5, <3>6, <3>7
  <2> QED
    BY <2>4, <2>5
<1> QED
  BY <1>11, <1>12 DEF PlayInv

\* An action without a render that leaves the phase alone.
LEMMA PlayedOnlyBy ==
  ASSUME PlayInv, sim'.phase = sim.phase, UNCHANGED <<said, script, runners>>,
         count'.starts = count.starts
  PROVE  PlayInv'
BY DEF PlayInv, FirstStart

LEMMA UserIsPlayed ==
  ASSUME SimInv, PlayInv, User
  PROVE  PlayInv'
<1>1. "phase" \in DOMAIN sim
  BY PhaseOfSim
<1>2. ProcessType
  BY Parts
<1>3. CASE StartSim
  <2> DEFINE s == [sim EXCEPT !.openSent = FALSE, !.joinSent = FALSE, !.cancel = FALSE,
                              !.phase = "waiting-a"]
  <2>1. Render(s) /\ said' = <<>> /\ script' = <<>>
    BY <1>3 DEF StartSim
  <2>2. "phase" \in DOMAIN s /\ s.phase = "waiting-a"
    BY <1>1
  <2> HIDE DEF s
  <2> QED
    BY <2>1, <2>2, PlayedAfresh
<1>4. CASE RunScenario
  BY <1>4, ScenarioIsPlayed
<1>5. CASE RunAgain
  <2> DEFINE s == [sim EXCEPT !.phase = "ready"]
  <2>1. Render(s) /\ said' = <<>> /\ script' = <<>>
    BY <1>5 DEF RunAgain
  <2>2. "phase" \in DOMAIN s /\ s.phase = "ready"
    BY <1>1
  <2> HIDE DEF s
  <2> QED
    BY <2>1, <2>2, PlayedAfresh
<1>6. CASE ResetClicked
  <2>1. PICK t : t = Leaves(Leaves(sim, "A"), "B")
    OBVIOUS
  <2>2. "phase" \in DOMAIN t
    BY <1>1, <2>1 DEF Leaves, Send
  <2> DEFINE s == [t EXCEPT !.cancel = TRUE, !.openSent = FALSE, !.joinSent = FALSE,
                            !.phase = "idle"]
  <2>3. "phase" \in DOMAIN s /\ s.phase = "idle"
    BY <2>2
  <2>4. s = Reset(sim)
    BY <2>1 DEF Reset
  <2> HIDE DEF s
  <2>5. Render(s) /\ said' = <<>> /\ script' = <<>>
    BY <1>6, <2>4 DEF ResetClicked
  <2> QED
    BY <2>3, <2>5, PlayedAfresh
<1>7. CASE ReconnectPeers
  <2> DEFINE s == [sim EXCEPT !.peer = [p \in Peers |-> Connecting("open")]]
  <2>1. Render(s) /\ UNCHANGED <<said, script, runners>> /\ Trouble
    BY <1>7 DEF ReconnectPeers
  <2>2. "phase" \in DOMAIN s /\ s.phase = sim.phase
    BY <1>1
  <2> HIDE DEF s
  <2>3. count'.starts = count.starts
    BY <1>2, <2>1, CountIs DEF Trouble
  <2> QED
    BY <2>1, <2>2, <2>3, PlayedAlike
<1>8. CASE Reload
  <2>1. sim' = [Fresh EXCEPT !.out = sim.out] /\ said' = <<>> /\ script' = <<>>
    BY <1>8 DEF Reload
  <2>2. sim'.phase = "idle"
    BY <2>1 DEF Fresh
  <2>3. <<>> \in Seq(Timers)
    OBVIOUS
  <2>4. IsPrefix(<<>>, <<>>)
    BY <2>3, WholeIsPrefix
  <2> QED
    BY <2>1, <2>2, <2>3, <2>4 DEF PlayInv
<1> QED
  BY <1>3, <1>4, <1>5, <1>6, <1>7, <1>8 DEF User

LEMMA PeerIsPlayed ==
  ASSUME SimInv, PlayInv, NEW p \in Peers, Socket(p) \/ Process(p) \/ HostCloses
  PROVE  PlayInv'
<1>1. "phase" \in DOMAIN sim
  BY PhaseOfSim
<1>2. ProcessType
  BY Parts
<1>3. ASSUME NEW c, Render([sim EXCEPT !.peer[p] = c]),
             UNCHANGED <<said, script, runners, count>>
      PROVE  PlayInv'
  <2>1. PICK s : s = [sim EXCEPT !.peer[p] = c]
    OBVIOUS
  <2>2. "phase" \in DOMAIN s /\ s.phase = sim.phase
    BY <1>1, <2>1
  <2>3. Render(s) /\ UNCHANGED <<said, script, runners>> /\ count'.starts = count.starts
    BY <1>3, <2>1
  <2> QED
    BY <2>2, <2>3, PlayedAlike
<1>4. CASE Handshake(p)
  BY <1>3, <1>4 DEF Handshake
<1>5. CASE Receive(p)
  BY <1>3, <1>5 DEF Receive
<1>6. CASE SocketCloses(p)
  BY <1>3, <1>6 DEF SocketCloses
<1>7. CASE TakeCommand(p)
  <2>1. sim' = [sim EXCEPT !.out[p] = Tail(@)] /\ UNCHANGED <<said, script, runners, count>>
    BY <1>7 DEF TakeCommand
  <2> QED
    BY <1>1, <2>1, PlayedOnlyBy
<1>8. CASE ProcessStops(p)
  <2>1. sim' = [sim EXCEPT !.out[p] = <<>>] /\ UNCHANGED <<said, script, runners, count>>
    BY <1>8 DEF ProcessStops
  <2> QED
    BY <1>1, <2>1, PlayedOnlyBy
<1>9. CASE ProcessStarts(p)
  <2>1. sim' = sim /\ UNCHANGED <<said, script, runners>> /\ Trouble
    BY <1>9 DEF ProcessStarts, simVars
  <2>2. count'.starts = count.starts
    BY <1>2, <2>1, CountIs DEF Trouble
  <2> QED
    BY <2>1, <2>2, PlayedOnlyBy
<1>10. CASE ConnectionBreaks(p)
  <2>1. sim' \in {sim, [sim EXCEPT !.out[p] = <<>>]} /\ UNCHANGED <<said, script, runners>>
        /\ Trouble
    BY <1>10 DEF ConnectionBreaks
  <2>2. count'.starts = count.starts
    BY <1>2, <2>1, CountIs DEF Trouble
  <2>3. sim'.phase = sim.phase
    BY <1>1, <2>1
  <2> QED
    BY <2>1, <2>2, <2>3, PlayedOnlyBy
<1>11. CASE HostCloses
  <2>1. sim' = sim /\ UNCHANGED <<said, script, runners, count>>
    BY <1>11 DEF HostCloses, simVars
  <2> QED
    BY <2>1, PlayedOnlyBy
<1> QED
  BY <1>4, <1>5, <1>6, <1>7, <1>8, <1>9, <1>10, <1>11 DEF Socket, Process

\* What has been said is the beginning of the active script, and done is all of it: the
\* one runner of a first simulation holds what is left, and runs only while it runs.
THEOREM ScriptCorrect == Spec => []PlaysTheScript
<1>1. Init => PlayInv
  <2>1. SUFFICES ASSUME Init PROVE PlayInv
    OBVIOUS
  <2>2. said = <<>> /\ script = <<>> /\ sim.phase = "idle"
    BY <2>1 DEF Init, Fresh
  <2>3. <<>> \in Seq(Timers)
    OBVIOUS
  <2>4. IsPrefix(<<>>, <<>>)
    BY <2>3, WholeIsPrefix
  <2> QED
    BY <2>2, <2>3, <2>4 DEF PlayInv
<1>2. SimInv /\ PlayInv /\ [Next]_vars => PlayInv'
  <2>1. SUFFICES ASSUME SimInv, PlayInv, [Next]_vars PROVE PlayInv'
    OBVIOUS
  <2>2. CASE User
    BY <2>1, <2>2, UserIsPlayed
  <2>3. ASSUME NEW e \in runners, TimerFires(e) PROVE PlayInv'
    BY <2>1, <2>3, TimerIsPlayed
  <2>4. ASSUME NEW p \in Peers, Socket(p) \/ Process(p) PROVE PlayInv'
    BY <2>1, <2>4, PeerIsPlayed
  <2>5. CASE HostCloses
    BY <2>1, <2>5, PeerIsPlayed, TwoPeers
  <2>6. CASE UNCHANGED vars
    <3>1. sim' = sim /\ UNCHANGED <<said, script, runners, count>>
      BY <2>6 DEF vars, simVars
    <3> QED
      BY <2>1, <3>1, PlayedOnlyBy
  <2> QED
    BY <2>1, <2>2, <2>3, <2>4, <2>5, <2>6 DEF Next
<1>3. PlayInv => PlaysTheScript
  BY DEF PlayInv, PlaysTheScript
<1> QED
  BY <1>1, <1>2, <1>3, SimulationInvariant, PTL DEF Spec
=============================================================================
