---------------------------- MODULE MessageList ----------------------------
(***************************************************************************)
(* What a page shows of a view: web/src/components/MessageList.tsx.  The   *)
(* messages and the peers' comings and goings are merged into two streams, *)
(* the replayed history above the "live" divider and the rest below it.    *)
(***************************************************************************)
EXTENDS ChatSocket, FiniteSets, SequencesExt

CONSTANTS
  Ts,        \* the time stamp of each message
  Nonce,     \* its nonce, a sequence of digits (16 bytes in the code)
  Base,      \* values of a digit (256)
  Mantissa,  \* binary digits a number keeps (53, an IEEE double)
  KeyWidth   \* the sort key is taken modulo 2^KeyWidth (32)

\* The numbers of messages are their ranks by (ts, nonce), nonces compared
\* digit by digit, as the bridge sorts the replay.
Precedes(s, t) ==
  \E i \in DOMAIN s : s[i] < t[i] /\ \A j \in 1 .. i - 1 : s[j] = t[j]

ASSUME ListAssumption ==
  /\ {Base, Mantissa, KeyWidth} \subseteq Nat \ {0}
  /\ \A i, j \in DOMAIN Ts :
       i < j => Ts[i] < Ts[j] \/ (Ts[i] = Ts[j] /\ Precedes(Nonce[i], Nonce[j]))

-----------------------------------------------------------------------------
(* The sort key: the nonce folded into a double, then cut to its low bits.  *)

\* x in floating point: the nearest number with Mantissa digits, ties to even.
Rounded(x) ==
  LET exp  == CHOOSE e \in 0 .. x : x < 2^(Mantissa + e) /\ x >= 2^(Mantissa + e - 1)
      ulp  == 2^exp
      low  == x \div ulp
      rest == 2 * (x % ulp)
      up   == rest > ulp \/ (rest = ulp /\ low % 2 = 1)
  IN IF x < 2^Mantissa THEN x ELSE ulp * (IF up THEN low + 1 ELSE low)

\* Fault: the fold keeps every digit, as with a BigInt.
NonceNumExact(nonce) ==
  FoldLeft(LAMBDA acc, b : acc * Base + b, 0, nonce) % 2^KeyWidth

NonceNum(nonce) ==
  FoldLeft(LAMBDA acc, b : Rounded(acc * Base + b), 0, nonce) % 2^KeyWidth

-----------------------------------------------------------------------------
(* The two streams.                                                         *)

Key == [m \in DOMAIN Nonce |-> NonceNum(Nonce[m])]

\* Times and keys are numbers that can be compared.
ASSUME SortAssumption ==
  /\ \A m \in DOMAIN Ts : Ts[m] \in Nat
  /\ \A m \in DOMAIN Nonce : Key[m] \in Nat

\* An item has its place in the list before the sort: the messages, then the pills.
MessageItem(v, i) ==
  LET m == v.messages[i]
  IN [kind |-> "message", at |-> i, msg |-> m, ts |-> Ts[m], key |-> Key[m]]

Pill(v, k) ==
  LET e == v.events[k]
  IN [kind |-> e.type, at |-> Len(v.messages) + k, msg |-> 0, ts |-> e.ts, key |-> 0]

\* A stable sort by time, then by key.
Before(x, y) ==
  \/ x.ts < y.ts
  \/ x.ts = y.ts /\ x.key < y.key
  \/ x.ts = y.ts /\ x.key = y.key /\ x.at < y.at

\* An item comes after as many others as are before it.
BuildStream(items) ==
  [n \in 1 .. Cardinality(items) |->
     CHOOSE x \in items : Cardinality({y \in items : Before(y, x)}) = n - 1]

PeerEvents(v) == {k \in DOMAIN v.events : v.events[k].type \in {"peer_up", "peer_down"}}

\* clampedHistory: the count could exceed the messages.
History(v) ==
  IF v.historyCount < Len(v.messages) THEN v.historyCount ELSE Len(v.messages)

\* A peer event belongs to the history if it is no later than its last message.
InHistory(v, k) ==
  History(v) > 0 /\ v.events[k].ts <= Ts[v.messages[History(v)]]

HistoryPills(v) == {k \in PeerEvents(v) : InHistory(v, k)}

\* Fault: the two filters are written apart and do not complement each other.
LivePillsApart(v) ==
  {k \in PeerEvents(v) :
     History(v) = 0 \/ v.events[k].ts >= Ts[v.messages[History(v)]]}

LivePills(v) == PeerEvents(v) \ HistoryPills(v)

Items(v, places, pills) ==
  {MessageItem(v, i) : i \in places} \cup {Pill(v, k) : k \in pills}

HistoryStream(v) == BuildStream(Items(v, 1 .. History(v), HistoryPills(v)))
LiveStream(v) ==
  BuildStream(Items(v, History(v) + 1 .. Len(v.messages), LivePills(v)))

Divider(v) == History(v) > 0 /\ LiveStream(v) # <<>>

Screen(v) == HistoryStream(v) \o LiveStream(v)
=============================================================================
