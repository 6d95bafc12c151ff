--------------------------- MODULE WsBridgeScreen ---------------------------
(***************************************************************************)
(* What a page shows of its view: each message and each coming or going    *)
(* once, and the replay in its order, for all numbers of browsers, rooms   *)
(* and messages, all times and all nonces.                                 *)
(***************************************************************************)
EXTENDS WsBridgeProofs, FiniteSetTheorems

-----------------------------------------------------------------------------
(* A stream is its items, sorted.                                           *)

\* Items that can be compared, no two in one place of the list before the sort.
Sortable(S) ==
  /\ IsFiniteSet(S)
  /\ \A x \in S : x.ts \in Nat /\ x.key \in Nat /\ x.at \in Nat
  /\ \A x, y \in S : x.at = y.at => x = y

Earlier(S, x) == {y \in S : Before(y, x)}

LEMMA BeforeOrders ==
  ASSUME NEW S, Sortable(S)
  PROVE  /\ \A x \in S : ~Before(x, x)
         /\ \A x, y, z \in S : Before(x, y) /\ Before(y, z) => Before(x, z)
         /\ \A x, y \in S : x = y \/ Before(x, y) \/ Before(y, x)
<1>1. \A x \in S : x.ts \in Nat /\ x.key \in Nat /\ x.at \in Nat
  BY DEF Sortable
<1>2. \A x, y \in S : x.at = y.at => x = y
  BY DEF Sortable
<1>3. \A x \in S : ~Before(x, x)
  BY <1>1 DEF Before
<1>4. ASSUME NEW x \in S, NEW y \in S, NEW z \in S, Before(x, y), Before(y, z)
      PROVE  Before(x, z)
  BY <1>1, <1>4 DEF Before
<1>5. ASSUME NEW x \in S, NEW y \in S PROVE x = y \/ Before(x, y) \/ Before(y, x)
  BY <1>1, <1>2 DEF Before
<1> QED
  BY <1>3, <1>4, <1>5

LEMMA EarlierCounts ==
  ASSUME NEW S, Sortable(S), NEW x \in S
  PROVE  /\ IsFiniteSet(Earlier(S, x)) /\ Cardinality(Earlier(S, x)) \in Nat
         /\ Cardinality(S) \in Nat /\ Cardinality(Earlier(S, x)) < Cardinality(S)
<1>1. IsFiniteSet(S)
  BY DEF Sortable
<1>2. Earlier(S, x) \in SUBSET S /\ x \notin Earlier(S, x)
  BY BeforeOrders DEF Earlier
<1>3. /\ IsFiniteSet(Earlier(S, x))
      /\ Cardinality(Earlier(S, x)) <= Cardinality(S)
      /\ Cardinality(S) = Cardinality(Earlier(S, x)) => S = Earlier(S, x)
  BY <1>1, <1>2, FS_Subset
<1>4. Cardinality(Earlier(S, x)) \in Nat /\ Cardinality(S) \in Nat
  BY <1>1, <1>3, FS_CardinalityType
<1>5. Cardinality(S) # Cardinality(Earlier(S, x))
  BY <1>2, <1>3
<1> QED
  BY <1>3, <1>4, <1>5

LEMMA EarlierRises ==
  ASSUME NEW S, Sortable(S), NEW x \in S, NEW y \in S, Before(x, y)
  PROVE  Cardinality(Earlier(S, x)) < Cardinality(Earlier(S, y))
<1>1. Earlier(S, x) \in SUBSET Earlier(S, y)
  BY BeforeOrders DEF Earlier
<1>2. x \in Earlier(S, y) /\ x \notin Earlier(S, x)
  BY BeforeOrders DEF Earlier
<1>3. /\ IsFiniteSet(Earlier(S, y)) /\ Cardinality(Earlier(S, y)) \in Nat
      /\ Cardinality(Earlier(S, x)) \in Nat
  BY EarlierCounts
<1>4. /\ Cardinality(Earlier(S, x)) <= Cardinality(Earlier(S, y))
      /\ Cardinality(Earlier(S, y)) = Cardinality(Earlier(S, x))
           => Earlier(S, y) = Earlier(S, x)
  BY <1>1, <1>3, FS_Subset
<1>5. Cardinality(Earlier(S, y)) # Cardinality(Earlier(S, x))
  BY <1>2, <1>4
<1> QED
  BY <1>3, <1>4, <1>5

\* Each item is at the one place its number of earlier items gives it.
LEMMA PlacesAreTaken ==
  ASSUME NEW S, Sortable(S), NEW n, n = Cardinality(S)
  PROVE  /\ n \in Nat
         /\ \A i \in 1 .. n : \E x \in S : Cardinality(Earlier(S, x)) = i - 1
         /\ \A x, y \in S : Cardinality(Earlier(S, x)) = Cardinality(Earlier(S, y)) => x = y
<1> DEFINE f == [x \in S |-> Cardinality(Earlier(S, x)) + 1]
<1>1. IsFiniteSet(S) /\ n \in Nat
  BY FS_CardinalityType DEF Sortable
<1>2. \A x \in S : Cardinality(Earlier(S, x)) \in Nat /\ Cardinality(Earlier(S, x)) < n
  BY EarlierCounts
<1>3. ASSUME NEW x \in S, NEW y \in S, Cardinality(Earlier(S, x)) = Cardinality(Earlier(S, y))
      PROVE  x = y
  <2>1. CASE Before(x, y)
    BY <1>2, <1>3, <2>1, EarlierRises
  <2>2. CASE Before(y, x)
    BY <1>2, <1>3, <2>2, EarlierRises
  <2> QED
    BY <2>1, <2>2, BeforeOrders
<1>4. f \in [S -> 1 .. n]
  BY <1>1, <1>2
<1>5. \A x, y \in S : f[x] = f[y] => x = y
  BY <1>2, <1>3
<1>6. f \in Injection(S, 1 .. n)
  BY <1>4, <1>5 DEF Injection, IsInjective
<1>7. IsFiniteSet(1 .. n) /\ Cardinality(1 .. n) = n
  <2>1. 1 \in Int /\ n \in Int
    BY <1>1
  <2>2. IsFiniteSet(1 .. n) /\ Cardinality(1 .. n) = IF 1 > n THEN 0 ELSE n - 1 + 1
    BY <2>1, FS_Interval
  <2> QED
    BY <1>1, <2>2
<1>8. f \in Surjection(S, 1 .. n)
  BY <1>6, <1>7, FS_Injection
<1>9. ASSUME NEW i \in 1 .. n PROVE \E x \in S : Cardinality(Earlier(S, x)) = i - 1
  <2>1. PICK x \in S : f[x] = i
    BY <1>8 DEF Surjection
  <2> QED
    BY <1>1, <1>2, <2>1
<1> QED
  BY <1>1, <1>3, <1>9

\* The sequence q has each member of S once.
Arranges(q, S) ==
  /\ q \in Seq(S)
  /\ \A i, j \in 1 .. Len(q) : q[i] = q[j] => i = j
  /\ \A x \in S : \E i \in 1 .. Len(q) : q[i] = x

LEMMA StreamIs ==
  ASSUME NEW S, Sortable(S), NEW q, q = BuildStream(S)
  PROVE  /\ Arranges(q, S)
         /\ \A i, j \in 1 .. Len(q) : i < j => Before(q[i], q[j])
<1> DEFINE R(x) == Cardinality(Earlier(S, x))
<1>1. PICK n : n = Cardinality(S)
  OBVIOUS
<1>2. /\ n \in Nat
      /\ \A i \in 1 .. n : \E x \in S : R(x) = i - 1
      /\ \A x, y \in S : R(x) = R(y) => x = y
  BY <1>1, PlacesAreTaken
<1>3. q = [i \in 1 .. n |-> CHOOSE x \in S : R(x) = i - 1]
  BY <1>1 DEF BuildStream, Earlier
<1>4. \A x \in S : R(x) \in Nat /\ R(x) < n
  BY <1>1, EarlierCounts
<1>5. \A x, y \in S : Before(x, y) => R(x) < R(y)
  BY EarlierRises
<1>6. \A x, y \in S : x = y \/ Before(x, y) \/ Before(y, x)
  BY BeforeOrders
<1> HIDE DEF R
<1>7. \A i \in 1 .. n : q[i] \in S /\ R(q[i]) = i - 1
  BY <1>2, <1>3
<1>8. q \in Seq(S) /\ Len(q) = n
  BY <1>2, <1>3, <1>7
<1>9. ASSUME NEW i \in 1 .. n, NEW j \in 1 .. n, i < j PROVE Before(q[i], q[j])
  <2>1. q[i] \in S /\ q[j] \in S /\ R(q[i]) = i - 1 /\ R(q[j]) = j - 1
    BY <1>7
  <2>2. q[i] # q[j]
    BY <1>2, <1>9, <2>1
  <2>3. ~Before(q[j], q[i])
    BY <1>2, <1>5, <1>9, <2>1
  <2> QED
    BY <1>6, <2>1, <2>2, <2>3
<1>10. ASSUME NEW i \in 1 .. n, NEW j \in 1 .. n, q[i] = q[j] PROVE i = j
  BY <1>2, <1>7, <1>10
<1>11. ASSUME NEW x \in S PROVE \E i \in 1 .. n : q[i] = x
  <2>1. R(x) + 1 \in 1 .. n /\ (R(x) + 1) - 1 = R(x)
    BY <1>2, <1>4
  <2>2. q[R(x) + 1] \in S /\ R(q[R(x) + 1]) = R(x)
    BY <1>7, <2>1
  <2> QED
    BY <1>2, <2>1, <2>2
<1> QED
  BY <1>8, <1>9, <1>10, <1>11 DEF Arranges

LEMMA PlacedOnce ==
  ASSUME NEW S, NEW s, Arranges(s, S), NEW x \in S
  PROVE  \E i \in DOMAIN s : \A j \in DOMAIN s : s[j] \in S /\ (s[j] = x <=> j = i)
<1>1. s \in Seq(S) /\ DOMAIN s = 1 .. Len(s)
  BY DEF Arranges
<1>2. PICK i \in DOMAIN s : s[i] = x
  BY <1>1 DEF Arranges
<1>3. \A j \in DOMAIN s : s[j] = x => j = i
  BY <1>1, <1>2 DEF Arranges
<1>4. \A j \in DOMAIN s : s[j] \in S
  BY <1>1
<1> QED
  BY <1>2, <1>3, <1>4

LEMMA TwoArranged ==
  ASSUME NEW A, NEW B, \A x \in A : x \notin B,
         NEW a, Arranges(a, A), NEW b, Arranges(b, B)
  PROVE  Arranges(a \o b, A \cup B)
<1>1. PICK s : s = a \o b
  OBVIOUS
<1>2. /\ a \in Seq(A)
      /\ \A i, j \in 1 .. Len(a) : a[i] = a[j] => i = j
      /\ \A x \in A : \E i \in 1 .. Len(a) : a[i] = x
  BY DEF Arranges
<1>3. /\ b \in Seq(B)
      /\ \A i, j \in 1 .. Len(b) : b[i] = b[j] => i = j
      /\ \A x \in B : \E i \in 1 .. Len(b) : b[i] = x
  BY DEF Arranges
<1>4. PICK m, n : m = Len(a) /\ n = Len(b)
  OBVIOUS
<1>5. m \in Nat /\ n \in Nat
  BY <1>2, <1>3, <1>4
<1>7. /\ DOMAIN s = 1 .. m + n
      /\ \A i \in 1 .. m : s[i] = a[i]
      /\ \A i \in m + 1 .. m + n : s[i] = b[i - m]
  <2>1. PICK C : C = A \cup B
    OBVIOUS
  <2>2. a \in Seq(C) /\ b \in Seq(C)
    BY <1>2, <1>3, <2>1
  <2> QED
    BY ONLY <1>1, <1>4, <2>2
<1>8. ASSUME NEW j \in 1 .. m + n
      PROVE  \/ j \in 1 .. m /\ s[j] = a[j] /\ s[j] \in A
             \/ j \in m + 1 .. m + n /\ s[j] = b[j - m] /\ j - m \in 1 .. n /\ s[j] \in B
  <2>1. CASE j <= m
    <3>1. j \in 1 .. m
      BY <1>5, <2>1
    <3>2. a[j] \in A
      BY ONLY <1>2, <1>4, <3>1
    <3> QED
      BY <1>7, <3>1, <3>2
  <2>2. CASE j > m
    <3>1. j \in m + 1 .. m + n /\ j - m \in 1 .. n
      BY <1>5, <2>2
    <3>2. PICK k \in 1 .. n : k = j - m
      BY <3>1
    <3>3. b[k] \in B
      BY ONLY <1>3, <1>4, <3>2
    <3> QED
      BY <1>7, <3>1, <3>2, <3>3
  <2>3. j <= m \/ j > m
    BY <1>5
  <2> QED
    BY ONLY <2>1, <2>2, <2>3
<1>9. ASSUME NEW i \in 1 .. m + n, NEW j \in 1 .. m + n, s[i] = s[j] PROVE i = j
  <2>1. CASE s[i] \in A
    <3>1. i \in 1 .. m /\ j \in 1 .. m /\ a[i] = a[j]
      BY <1>8, <1>9, <2>1
    <3> QED
      BY ONLY <1>2, <1>4, <3>1
  <2>2. CASE s[i] \in B
    <3>1. /\ i \in m + 1 .. m + n /\ i - m \in 1 .. n /\ s[i] = b[i - m]
          /\ j \in m + 1 .. m + n /\ j - m \in 1 .. n /\ s[j] = b[j - m]
      BY <1>8, <1>9, <2>2
    <3>2. i - m = j - m
      BY <1>3, <1>4, <1>9, <3>1
    <3> QED
      BY <1>5, <3>1, <3>2
  <2> QED
    BY <1>8, <2>1, <2>2
<1>10. ASSUME NEW x \in A \cup B PROVE \E i \in 1 .. m + n : s[i] = x
  <2>1. CASE x \in A
    <3>1. PICK i \in 1 .. m : a[i] = x
      BY <1>2, <1>4, <2>1
    <3> QED
      BY <1>5, <1>7, <3>1
  <2>2. CASE x \in B
    <3>1. PICK k \in 1 .. n : b[k] = x
      BY <1>3, <1>4, <2>2
    <3>2. PICK i : i = m + k
      OBVIOUS
    <3>3. i \in 1 .. m + n /\ i \in m + 1 .. m + n /\ i - m = k
      BY <1>5, <3>2
    <3> QED
      BY <1>7, <3>1, <3>3
  <2> QED
    BY <1>10, <2>1, <2>2
<1>11. s \in Seq(A \cup B) /\ Len(s) = m + n
  <2>1. PICK C : C = A \cup B
    OBVIOUS
  <2>2. a \in Seq(C) /\ b \in Seq(C)
    BY <1>2, <1>3, <2>1
  <2>3. s \in Seq(C) /\ Len(s) = m + n
    BY ONLY <1>1, <1>4, <2>2
  <2> QED
    BY <2>1, <2>3
<1> QED
  BY <1>1, <1>9, <1>10, <1>11 DEF Arranges

-----------------------------------------------------------------------------
(* The items of a view.                                                     *)

LEMMA MsgNumbers ==
  /\ \A m \in Msgs : m \in Nat /\ m > 0 /\ Ts[m] \in Nat /\ Key[m] \in Nat
  /\ \A m, n \in Msgs : m < n => Ts[m] <= Ts[n]
<1>1. \A m \in Msgs : m \in DOMAIN Ts /\ m \in DOMAIN Nonce
  BY BridgeAssumption DEF Msgs
<1>2. \A m \in Msgs : m \in Nat /\ m > 0
  BY BridgeAssumption DEF Msgs
<1>3. \A m \in Msgs : Ts[m] \in Nat /\ Key[m] \in Nat
  BY <1>1, SortAssumption
<1>4. \A m, n \in Msgs : m < n => Ts[m] <= Ts[n]
  BY <1>1, <1>3, ListAssumption
<1> QED
  BY <1>2, <1>3, <1>4

LEMMA MessageItemIs ==
  ASSUME NEW v \in Screens, NEW i \in 1 .. Len(v.messages), NEW x, x = MessageItem(v, i)
  PROVE  /\ x.kind = "message" /\ x.at = i /\ x.msg = v.messages[i] /\ x.msg \in Msgs
         /\ x.ts = Ts[x.msg] /\ x.key = Key[x.msg] /\ x.ts \in Nat /\ x.key \in Nat
<1>1. PICK q : q = v.messages
  OBVIOUS
<1>2. q \in Seq(Msgs)
  BY <1>1, ScreenIs
<1>3. PICK m : m = q[i]
  OBVIOUS
<1>4. m \in Msgs
  BY <1>1, <1>2, <1>3
<1>5. x = [kind |-> "message", at |-> i, msg |-> m, ts |-> Ts[m], key |-> Key[m]]
  BY <1>1, <1>3 DEF MessageItem
<1>6. Ts[m] \in Nat /\ Key[m] \in Nat
  BY <1>4, MsgNumbers
<1> QED
  BY <1>1, <1>3, <1>4, <1>5, <1>6

LEMMA PillIs ==
  ASSUME NEW v \in Screens, NEW k \in PeerEvents(v), NEW x, x = Pill(v, k)
  PROVE  /\ k \in Nat /\ x.kind \in {"peer_up", "peer_down"} /\ x.at = Len(v.messages) + k
         /\ k > 0 /\ x.msg = 0 /\ x.ts \in Nat /\ x.key \in Nat
<1>1. PICK q, e : q = v.events /\ e = q[k]
  OBVIOUS
<1>2. q \in Seq(NetEvents)
  BY <1>1, ScreenIs
<1>3. k \in 1 .. Len(q) /\ e.type \in {"peer_up", "peer_down"}
  BY <1>1, <1>2 DEF PeerEvents
<1>4. e \in NetEvents
  BY <1>1, <1>2, <1>3
<1>5. e.ts \in Nat
  BY <1>4, BridgeAssumption
<1>6. x = [kind |-> e.type, at |-> Len(v.messages) + k, msg |-> 0, ts |-> e.ts, key |-> 0]
  BY <1>1 DEF Pill
<1> QED
  BY <1>2, <1>3, <1>5, <1>6

LEMMA HistoryIs ==
  ASSUME NEW v \in Screens
  PROVE  History(v) \in 0 .. Len(v.messages) /\ Len(v.messages) \in Nat
<1>1. v.messages \in Seq(Msgs) /\ v.historyCount \in Nat
  BY ScreenIs
<1> QED
  BY <1>1 DEF History

\* All items of a view: those of its streams are among them.
AllItems(v) == Items(v, 1 .. Len(v.messages), PeerEvents(v))

LEMMA ItemsApart ==
  ASSUME NEW v \in Screens
  PROVE  \A x, y \in AllItems(v) : x.at = y.at => x = y
<1> DEFINE n == Len(v.messages)
<1>1. n \in Nat
  BY HistoryIs
<1>2. ASSUME NEW x \in AllItems(v)
      PROVE  /\ x.at \in Nat
             /\ x.at <= n => x = MessageItem(v, x.at)
             /\ x.at > n => x = Pill(v, x.at - n)
  <2>1. CASE \E i \in 1 .. n : x = MessageItem(v, i)
    <3>1. PICK i \in 1 .. n : x = MessageItem(v, i)
      BY <2>1
    <3>2. x.at = i
      BY <3>1, MessageItemIs
    <3> QED
      BY <1>1, <3>1, <3>2
  <2>2. CASE \E k \in PeerEvents(v) : x = Pill(v, k)
    <3>1. PICK k \in PeerEvents(v) : x = Pill(v, k)
      BY <2>2
    <3>2. x.at = n + k /\ k \in Nat /\ k > 0
      BY <3>1, PillIs
    <3> HIDE DEF n
    <3>3. x.at - n = k /\ x.at > n /\ x.at \in Nat
      BY <1>1, <3>2
    <3> QED
      BY <1>1, <3>1, <3>3
  <2> QED
    BY <1>2, <2>1, <2>2 DEF AllItems, Items
<1> HIDE DEF n
<1>3. ASSUME NEW x \in AllItems(v), NEW y \in AllItems(v), x.at = y.at PROVE x = y
  <2>1. x.at <= n \/ x.at > n
    BY <1>1, <1>2
  <2> QED
    BY <1>2, <1>3, <2>1
<1> QED
  BY <1>3

LEMMA ItemsSortable ==
  ASSUME NEW v \in Screens, NEW ms \in SUBSET (1 .. Len(v.messages)),
         NEW ks \in SUBSET PeerEvents(v)
  PROVE  Sortable(Items(v, ms, ks)) /\ Items(v, ms, ks) \subseteq AllItems(v)
<1>1. Items(v, ms, ks) \subseteq AllItems(v)
  BY DEF Items, AllItems
<1>2. ASSUME NEW x \in Items(v, ms, ks) PROVE x.ts \in Nat /\ x.key \in Nat /\ x.at \in Nat
  <2>1. CASE \E i \in ms : x = MessageItem(v, i)
    <3>1. PICK i \in 1 .. Len(v.messages) : x = MessageItem(v, i)
      BY <2>1
    <3>2. Len(v.messages) \in Nat
      BY HistoryIs
    <3> QED
      BY <3>1, <3>2, MessageItemIs
  <2>2. CASE \E k \in ks : x = Pill(v, k)
    <3>1. PICK k \in PeerEvents(v) : x = Pill(v, k)
      BY <2>2
    <3>2. Len(v.messages) \in Nat
      BY HistoryIs
    <3> QED
      BY <3>1, <3>2, PillIs
  <2> QED
    BY <1>2, <2>1, <2>2 DEF Items
<1>3. IsFiniteSet(Items(v, ms, ks))
  <2> DEFINE f == [i \in ms |-> MessageItem(v, i)]
             g == [k \in ks |-> Pill(v, k)]
             M == {MessageItem(v, i) : i \in ms}
             P == {Pill(v, k) : k \in ks}
  <2>1. IsFiniteSet(ms)
    <3>1. Len(v.messages) \in Int /\ 1 \in Int
      BY HistoryIs
    <3>2. IsFiniteSet(1 .. Len(v.messages))
      BY <3>1, FS_Interval
    <3> QED
      BY <3>2, FS_Subset
  <2>2. IsFiniteSet(ks)
    <3>1. v.events \in Seq(NetEvents)
      BY ScreenIs
    <3>2. PeerEvents(v) \subseteq 1 .. Len(v.events) /\ Len(v.events) \in Int /\ 1 \in Int
      BY <3>1 DEF PeerEvents
    <3>3. IsFiniteSet(1 .. Len(v.events))
      BY <3>2, FS_Interval
    <3>4. ks \in SUBSET (1 .. Len(v.events))
      BY <3>2
    <3> QED
      BY <3>3, <3>4, FS_Subset
  <2>3. f \in Surjection(ms, M) /\ g \in Surjection(ks, P)
    BY DEF Surjection
  <2>4. IsFiniteSet(M) /\ IsFiniteSet(P)
    BY <2>1, <2>2, <2>3, FS_Surjection
  <2>5. IsFiniteSet(M \cup P)
    BY <2>4, FS_Union
  <2> QED
    BY <2>5 DEF Items
<1> QED
  BY <1>1, <1>2, <1>3, ItemsApart DEF Sortable

\* The screen has each item of the view once, and nothing else.
LEMMA OnScreen ==
  ASSUME NEW v \in Screens
  PROVE  Arranges(Screen(v), AllItems(v))
<1> DEFINE n == Len(v.messages)
           h == History(v)
<1>1. PICK A, B : /\ A = Items(v, 1 .. h, HistoryPills(v))
                  /\ B = Items(v, h + 1 .. n, LivePills(v))
  OBVIOUS
<1>2. h \in 0 .. n /\ n \in Nat
  BY HistoryIs
<1>3. 1 .. h \subseteq 1 .. n /\ h + 1 .. n \subseteq 1 .. n /\ 1 .. n = (1 .. h) \cup (h + 1 .. n)
      /\ \A i \in 1 .. h : i \notin h + 1 .. n
  BY <1>2
<1>4. HistoryPills(v) \cup LivePills(v) = PeerEvents(v)
  BY DEF HistoryPills, LivePills
<1>5. \A k \in HistoryPills(v) : k \notin LivePills(v)
  BY DEF LivePills
<1>6. Sortable(A) /\ A \subseteq AllItems(v)
  BY <1>1, <1>3, <1>4, ItemsSortable
<1>7. Sortable(B) /\ B \subseteq AllItems(v)
  BY <1>1, <1>3, <1>4, ItemsSortable
<1>8. A \cup B = AllItems(v)
  BY <1>1, <1>3, <1>4 DEF Items, AllItems
<1>9. PICK a, b : a = BuildStream(A) /\ b = BuildStream(B) /\ Screen(v) = a \o b
  BY <1>1 DEF Screen, HistoryStream, LiveStream
<1>10. ASSUME NEW x \in A, x \in B PROVE FALSE
  <2>1. \/ \E i \in 1 .. h : x = MessageItem(v, i)
        \/ \E k \in HistoryPills(v) : x = Pill(v, k)
    BY <1>1 DEF Items
  <2>2. \/ \E i \in h + 1 .. n : x = MessageItem(v, i)
        \/ \E k \in LivePills(v) : x = Pill(v, k)
    BY <1>1, <1>10 DEF Items
  <2>3. \A i \in 1 .. n : x = MessageItem(v, i) => x.kind = "message" /\ x.at = i
    BY MessageItemIs
  <2>4. \A k \in PeerEvents(v) : x = Pill(v, k) => x.kind # "message" /\ x.at = n + k /\ k \in Nat
    BY PillIs
  <2>5. CASE \E i \in 1 .. h : x = MessageItem(v, i)
    BY <1>3, <1>4, <2>2, <2>3, <2>4, <2>5
  <2>6. CASE \E k \in HistoryPills(v) : x = Pill(v, k)
    <3>1. PICK k \in HistoryPills(v) : x = Pill(v, k)
      BY <2>6
    <3>2. k \in PeerEvents(v) /\ x.kind # "message" /\ x.at = n + k /\ k \in Nat
      BY <1>4, <2>4, <3>1
    <3>3. PICK l \in LivePills(v) : x = Pill(v, l)
      BY <1>3, <2>2, <2>3, <3>2
    <3>4. x.at = n + l /\ l \in Nat
      BY <1>4, <2>4, <3>3
    <3> HIDE DEF n
    <3>5. k = l
      BY <1>2, <3>2, <3>4
    <3> QED
      BY <1>5, <3>1, <3>3, <3>5
  <2> QED
    BY <2>1, <2>5, <2>6
<1>11. \A x \in A : x \notin B
  BY <1>10
<1>12. Arranges(a, A) /\ Arranges(b, B)
  BY <1>6, <1>7, <1>9, StreamIs
<1>13. Arranges(a \o b, A \cup B)
  BY ONLY <1>11, <1>12, TwoArranged
<1> QED
  BY <1>8, <1>9, <1>13

-----------------------------------------------------------------------------
(* The properties of what is shown.                                         *)

LEMMA KeptNow ==
  ASSUME BridgeInv, OrderInv, NEW c \in Clients
  PROVE  /\ view[c] \in Screens /\ Distinct(view[c].messages)
         /\ view[c].historyCount <= Len(view[c].messages)
         /\ Rising(view[c].messages, view[c].historyCount)
  BY ClientIsTyped DEF OrderInv, InOrder, Kept

\* Each message a view has is in one place of the screen.
THEOREM OnceCorrect == Spec => []NoDuplicate
<1>1. BridgeInv /\ OrderInv => NoDuplicate
  <2> SUFFICES ASSUME BridgeInv, OrderInv, NEW c \in Clients, NEW m \in Shown(c)
               PROVE  \E i \in DOMAIN Screen(view[c]) : \A j \in DOMAIN Screen(view[c]) :
                        Screen(view[c])[j].msg = m <=> j = i
    BY DEF NoDuplicate
  <2>1. PICK v, s : v = view[c] /\ s = Screen(v)
    OBVIOUS
  <2>2. v \in Screens /\ Distinct(v.messages)
    BY <2>1, KeptNow
  <2>3. PICK k \in 1 .. Len(v.messages) : v.messages[k] = m
    <3>1. v.messages \in Seq(Msgs)
      BY <2>2, ScreenIs
    <3> QED
      BY <2>1, <3>1, ElementsOf DEF Shown
  <2>4. PICK x : x = MessageItem(v, k)
    OBVIOUS
  <2>5. x \in AllItems(v) /\ x.msg = m /\ m \in Msgs
    BY <2>2, <2>3, <2>4, MessageItemIs DEF AllItems, Items
  <2>6. ASSUME NEW y \in AllItems(v), y.msg = m PROVE y = x
    <3>1. CASE \E i \in 1 .. Len(v.messages) : y = MessageItem(v, i)
      <4>1. PICK i \in 1 .. Len(v.messages) : y = MessageItem(v, i)
        BY <3>1
      <4>2. v.messages[i] = m
        BY <2>2, <2>6, <4>1, MessageItemIs
      <4>3. i = k
        BY <2>2, <2>3, <4>2 DEF Distinct
      <4> QED
        BY <2>4, <4>1, <4>3
    <3>2. CASE \E i \in PeerEvents(v) : y = Pill(v, i)
      <4>1. y.msg = 0
        BY <2>2, <3>2, PillIs
      <4> QED
        BY <2>5, <2>6, <4>1 DEF Msgs
    <3> QED
      BY <2>6, <3>1, <3>2 DEF AllItems, Items
  <2>7. Arranges(s, AllItems(v))
    BY <2>1, <2>2, OnScreen
  <2>8. PICK i \in DOMAIN s : \A j \in DOMAIN s : s[j] \in AllItems(v) /\ (s[j] = x <=> j = i)
    BY <2>5, <2>7, PlacedOnce
  <2>9. \A j \in DOMAIN s : s[j].msg = m <=> j = i
    BY <2>5, <2>6, <2>8
  <2> QED
    BY <2>1, <2>9
<1> QED
  BY <1>1, BridgeInvariant, OrderInvariant, PTL

\* Each coming or going of a peer that a view has is in one place of the screen.
THEOREM PillsCorrect == Spec => []PillsShown
<1>1. BridgeInv => PillsShown
  <2> SUFFICES ASSUME BridgeInv, NEW c \in Clients, NEW k \in PeerEvents(view[c])
               PROVE  \E i \in DOMAIN Screen(view[c]) : \A j \in DOMAIN Screen(view[c]) :
                        Screen(view[c])[j] = Pill(view[c], k) <=> j = i
    BY DEF PillsShown
  <2>1. PICK v, s, x : v = view[c] /\ s = Screen(v) /\ x = Pill(v, k)
    OBVIOUS
  <2>2. v \in Screens
    BY <2>1, ClientIsTyped
  <2>3. x \in AllItems(v)
    BY <2>1 DEF AllItems, Items
  <2>4. Arranges(s, AllItems(v))
    BY <2>1, <2>2, OnScreen
  <2>5. \E i \in DOMAIN s : \A j \in DOMAIN s : s[j] = x <=> j = i
    BY <2>3, <2>4, PlacedOnce
  <2> QED
    BY <2>1, <2>5
<1> QED
  BY <1>1, BridgeInvariant, PTL

\* The keys of messages of one time do not contradict the order of their nonces.
KeysAgree == \A m, n \in Msgs : m < n /\ Ts[m] = Ts[n] => Key[m] <= Key[n]

\* Sorted again by time and key, the replay stays in the bridge's order, if the keys
\* of messages of one time do not contradict it: they may well be equal.
THEOREM ReplayCorrect == KeysAgree => (Spec => []HistoryInOrder)
<1>1. ASSUME KeysAgree, BridgeInv, OrderInv PROVE HistoryInOrder
  <2> SUFFICES ASSUME NEW c \in Clients, NEW i \in DOMAIN HistoryStream(view[c]),
                      NEW j \in DOMAIN HistoryStream(view[c]), i < j,
                      HistoryStream(view[c])[i].kind = "message",
                      HistoryStream(view[c])[j].kind = "message"
               PROVE  HistoryStream(view[c])[i].msg < HistoryStream(view[c])[j].msg
    BY DEF HistoryInOrder
  <2>1. PICK v, s : v = view[c] /\ s = HistoryStream(v)
    OBVIOUS
  <2>2. /\ v \in Screens /\ Rising(v.messages, v.historyCount)
        /\ v.historyCount <= Len(v.messages)
    BY <1>1, <2>1, KeptNow
  <2>3. v.historyCount \in Nat /\ Len(v.messages) \in Nat
    BY <2>2, ScreenIs, HistoryIs
  <2>4. PICK h : h = v.historyCount
    OBVIOUS
  <2>5. History(v) = h /\ h \in 0 .. Len(v.messages)
    BY <2>2, <2>3, <2>4 DEF History
  <2>6. PICK A : A = Items(v, 1 .. h, HistoryPills(v))
    OBVIOUS
  <2>7. Sortable(A) /\ s = BuildStream(A)
    <3>1. 1 .. h \in SUBSET (1 .. Len(v.messages))
      BY <2>3, <2>5
    <3>2. HistoryPills(v) \in SUBSET PeerEvents(v)
      BY DEF HistoryPills
    <3> QED
      BY <2>1, <2>2, <2>5, <2>6, <3>1, <3>2, ItemsSortable DEF HistoryStream
  <2>8. s \in Seq(A) /\ \A k, l \in 1 .. Len(s) : k < l => Before(s[k], s[l])
    BY ONLY <2>7, StreamIs DEF Arranges
  <2>9. PICK x, y : x = s[i] /\ y = s[j]
    OBVIOUS
  <2>10. i \in 1 .. Len(s) /\ j \in 1 .. Len(s)
    BY <2>1, <2>8
  <2>11. x \in A /\ y \in A /\ Before(x, y)
    BY <2>8, <2>9, <2>10
  <2>12. x.kind = "message" /\ y.kind = "message"
    BY <2>1, <2>9
  <2>13. \A z \in A : z.kind = "message" => \E k \in 1 .. h : z = MessageItem(v, k)
    BY <2>2, <2>6, PillIs DEF Items, HistoryPills
  <2>14. PICK k \in 1 .. h, l \in 1 .. h : x = MessageItem(v, k) /\ y = MessageItem(v, l)
    BY <2>11, <2>12, <2>13
  <2>15. k \in 1 .. Len(v.messages) /\ l \in 1 .. Len(v.messages)
    BY <2>3, <2>5
  <2>16. PICK m, n : m = x.msg /\ n = y.msg
    OBVIOUS
  <2>17. /\ x.at = k /\ m = v.messages[k] /\ m \in Msgs /\ x.ts = Ts[m] /\ x.key = Key[m]
         /\ y.at = l /\ n = v.messages[l] /\ n \in Msgs /\ y.ts = Ts[n] /\ y.key = Key[n]
    BY <2>2, <2>14, <2>15, <2>16, MessageItemIs
  <2>18. k < l => m < n
    BY <2>2, <2>4, <2>17 DEF Rising
  <2>19. \A a, b \in Msgs : a < b => Ts[a] <= Ts[b]
    BY MsgNumbers
  <2>20. /\ Ts[m] \in Nat /\ Ts[n] \in Nat /\ Key[m] \in Nat /\ Key[n] \in Nat
         /\ m \in Nat /\ n \in Nat
    BY <2>17, MsgNumbers
  <2>21. \/ Ts[m] < Ts[n]
         \/ Ts[m] = Ts[n] /\ Key[m] < Key[n]
         \/ k < l
    BY <2>11, <2>17 DEF Before
  <2>22. m < n
    <3>1. CASE n < m
      <4>1. Ts[n] <= Ts[m] /\ (Ts[n] = Ts[m] => Key[n] <= Key[m])
        BY <1>1, <2>17, <2>19, <3>1 DEF KeysAgree
      <4> QED
        BY <2>18, <2>20, <2>21, <4>1
    <3>2. CASE m = n
      BY <2>18, <2>20, <2>21, <3>2
    <3> QED
      BY <2>20, <3>1, <3>2
  <2> QED
    BY <2>1, <2>9, <2>16, <2>22
<1> SUFFICES ASSUME KeysAgree PROVE Spec => []HistoryInOrder
  OBVIOUS
<1>2. BridgeInv /\ OrderInv => HistoryInOrder
  BY <1>1
<1> QED
  BY <1>2, BridgeInvariant, OrderInvariant, PTL
=============================================================================
