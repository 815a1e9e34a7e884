------------------------- MODULE RateLimiterProofs -------------------------
(***************************************************************************)
(* Theorems about RateLimiter, for every number of threads and clients,    *)
(* every window and every limit.                                           *)
(***************************************************************************)
EXTENDS RateLimiter, SequenceTheorems, FiniteSetTheorems, TLAPS

USE LimitAssumption, WindowAssumption, NoKeyAssumption, LocalAssumption,
    HeadersAssumption
  DEF LimitAssumption, WindowAssumption, NoKeyAssumption, LocalAssumption,
      HeadersAssumption
----------------------------------------------------------------------------
(* Pruning a deque.                                                        *)

LEMMA Least ==
  ASSUME NEW T, T \subseteq Nat, T # {}
  PROVE  \E x \in T : \A y \in T : x <= y
<1> DEFINE Less == {ss \in Nat \X Nat : ss[1] < ss[2]}
<1>1. IsWellFoundedOn(Less, Nat)
  BY NatLessThanWellFounded DEF OpToRel
<1>2. PICK x \in T : \A y \in T : <<y, x>> \notin Less
  <2> HIDE DEF Less
  <2> QED
    BY <1>1, WFMin
<1>3. \A y \in T : ~(y < x)
  BY <1>2
<1> QED
  BY <1>3

Fresh(q, now) == {i \in 1..Len(q) : q[i] > now - Window}

\* What is left of a deque: its end, from the first fresh entry on.
LEMMA PrunedIs ==
  ASSUME NEW q \in Seq(Nat), NEW now \in Nat
  PROVE  \/ Fresh(q, now) = {} /\ Pruned(q, now) = <<>>
         \/ \E i \in Fresh(q, now) :
              /\ \A j \in Fresh(q, now) : i <= j
              /\ Pruned(q, now) = SubSeq(q, i, Len(q))
<1>1. Fresh(q, now) \subseteq Nat
  BY DEF Fresh
<1> QED
  BY <1>1, Least DEF Pruned, Fresh

LEMMA PrunedKeeps ==
  ASSUME NEW q \in Seq(Nat), NEW now \in Nat
  PROVE  /\ Pruned(q, now) \in Seq(Nat)
         /\ Len(Pruned(q, now)) <= Len(q)
         /\ \A j \in 1..Len(Pruned(q, now)) :
              \E i \in 1..Len(q) : Pruned(q, now)[j] = q[i]
         /\ 1 \notin Fresh(q, now) /\ q # <<>> => Len(Pruned(q, now)) < Len(q)
<1>1. CASE Pruned(q, now) = <<>>
  BY <1>1
<1>2. ASSUME NEW i \in Fresh(q, now), Pruned(q, now) = SubSeq(q, i, Len(q))
      PROVE  /\ Pruned(q, now) \in Seq(Nat)
             /\ Len(Pruned(q, now)) <= Len(q)
             /\ \A j \in 1..Len(Pruned(q, now)) :
                  \E k \in 1..Len(q) : Pruned(q, now)[j] = q[k]
             /\ 1 \notin Fresh(q, now) /\ q # <<>> => Len(Pruned(q, now)) < Len(q)
  <2>1. i \in 1..Len(q) /\ Len(q) \in Nat
    BY <1>2 DEF Fresh
  <2>2. /\ SubSeq(q, i, Len(q)) \in Seq(Nat)
        /\ Len(SubSeq(q, i, Len(q))) = Len(q) - i + 1
        /\ \A j \in 1..Len(q) - i + 1 : SubSeq(q, i, Len(q))[j] = q[i + j - 1]
    BY <2>1, SubSeqProperties
  <2>3. \A j \in 1..Len(q) - i + 1 : i + j - 1 \in 1..Len(q)
    BY <2>1
  <2> QED
    BY <1>2, <2>1, <2>2, <2>3
<1> QED
  BY <1>1, <1>2, PrunedIs
----------------------------------------------------------------------------
(* Types, the length of a deque, and whose hits it has.                    *)

\* No deque outgrows the limit.
Bounded == \A k \in Keys : hits[k] = <<>> \/ Len(hits[k]) <= limit

\* Who is counted as a client is that client, or the host has named it.
Named ==
  \A t \in Threads :
    call[t].key \in Clients \ named => call[t].from = call[t].key

Inv == TypeOK /\ Bounded /\ Named /\ OwnBudget

\* client_ip() names a client for that client's requests alone, unless the host
\* does.
LEMMA RequestNames ==
  ASSUME NEW r \in Requests
  PROVE  /\ r.from \in Keys
         /\ ClientIp(r.peer, r.real) \in Keys
         /\ NamedBy(r) \subseteq Clients
         /\ ClientIp(r.peer, r.real) \in Clients \ NamedBy(r) =>
              r.from = ClientIp(r.peer, r.real)
<1>1. r.real \in Keys \cup {NoKey}
  BY DEF Requests
<1>2. r.from \in Keys /\ r.peer \in Keys \cup {NoKey}
  BY DEF Requests, Keys
<1>3. r.peer \in Clients => r.from = r.peer
  BY DEF Requests, Keys
<1>4. ClientIp(r.peer, r.real) \in Keys
  BY <1>1, <1>2 DEF ClientIp, Keys
<1>5. NamedBy(r) \subseteq Clients
  BY DEF NamedBy
<1>6. ASSUME ClientIp(r.peer, r.real) \in Clients,
             ClientIp(r.peer, r.real) \notin NamedBy(r)
      PROVE  r.from = ClientIp(r.peer, r.real)
  <2>1. CASE r.peer \in {Local, NoKey} /\ r.real # NoKey
    BY <1>6, <2>1 DEF ClientIp, NamedBy
  <2>2. CASE ~(r.peer \in {Local, NoKey} /\ r.real # NoKey) /\ r.peer # NoKey
    BY <1>3, <1>6, <2>2 DEF ClientIp
  <2>3. CASE r.peer = NoKey /\ r.real = NoKey
    <3>1. r.from = Unknown /\ ClientIp(r.peer, r.real) = Unknown
      BY <2>3 DEF ClientIp, Requests, Keys
    <3> QED
      BY <3>1
  <2> QED
    BY <2>1, <2>2, <2>3
<1> QED
  BY <1>2, <1>4, <1>5, <1>6

LEMMA RetryType ==
  ASSUME NEW q \in Seq(Nat), q # <<>>, NEW now \in Nat
  PROVE  RetryAfter(q, now) \in Nat
<1>1. q[1] \in Nat
  OBVIOUS
<1>2. Window \in Nat
  BY DEF Window
<1>3. \A x \in Int : x \div TicksPerSecond \in Int
  OBVIOUS
<1> QED
  BY <1>1, <1>2, <1>3 DEF RetryAfter

\* What a check leaves of the deque of its key.
LEMMA CheckTypes ==
  ASSUME Inv, NEW t \in Threads, call[t].key # NoKey
  PROVE  /\ call[t].key \in Keys /\ call[t].stamp \in Nat
         /\ hits[call[t].key] \in Seq(Nat)
         /\ Pruned(hits[call[t].key], call[t].stamp) \in Seq(Nat)
         /\ Len(Pruned(hits[call[t].key], call[t].stamp)) <= Len(hits[call[t].key])
<1>1. /\ call[t].key \in Keys /\ call[t].stamp \in Nat
      /\ hits[call[t].key] \in Seq(Nat)
  BY DEF Inv, TypeOK, Calls
<1> QED
  BY <1>1, PrunedKeeps

LEMMA OutsideEffect ==
  ASSUME Inv, NEW t \in Threads, call' = [call EXCEPT ![t] = Outside]
  PROVE  call' \in [Threads -> Calls] /\ (named' = named => Named')
<1>1. Outside \in Calls /\ Outside.key \notin Clients
  BY DEF Outside, Calls, Keys
<1> QED
  BY <1>1 DEF Inv, TypeOK, Named

\* Pruning a deque keeps its bound and its owner.
LEMMA PruneEffect ==
  ASSUME Inv, NEW t \in Threads, call[t].key # NoKey,
         hits' = [hits EXCEPT ![call[t].key] =
                    Pruned(hits[call[t].key], call[t].stamp)],
         UNCHANGED <<limit, sent, named>>
  PROVE  hits' \in [Keys -> Seq(Nat)] /\ Bounded' /\ OwnBudget'
<1> DEFINE k == call[t].key
           q == Pruned(hits[k], call[t].stamp)
<1>1. /\ k \in Keys /\ q \in Seq(Nat) /\ hits[k] \in Seq(Nat)
      /\ Len(q) <= Len(hits[k])
      /\ \A j \in 1..Len(q) : \E i \in 1..Len(hits[k]) : q[j] = hits[k][i]
  BY CheckTypes, PrunedKeeps
<1>2. /\ hits \in [Keys -> Seq(Nat)] /\ hits' = [hits EXCEPT ![k] = q]
      /\ limit \in Int
  BY DEF Inv, TypeOK
<1> HIDE DEF k, q
<1>3. q = <<>> \/ Len(q) <= limit
  <2>1. hits[k] = <<>> \/ Len(hits[k]) <= limit
    BY <1>1 DEF Inv, Bounded
  <2>2. Len(q) \in Nat /\ Len(hits[k]) \in Nat /\ (Len(q) = 0 => q = <<>>)
    BY <1>1
  <2> QED
    BY <1>1, <1>2, <2>1, <2>2
<1>4. Bounded'
  BY <1>1, <1>2, <1>3 DEF Inv, Bounded
<1>5. OwnBudget'
  <2> SUFFICES ASSUME NEW c \in Clients \ named, NEW i \in 1..Len(hits'[c])
               PROVE  hits'[c][i] \in sent[c]
    BY DEF OwnBudget
  <2>1. c \in Keys
    BY DEF Keys
  <2>2. \E n \in 1..Len(hits[c]) : hits'[c][i] = hits[c][n]
    BY <1>1, <1>2, <2>1
  <2> QED
    BY <2>2 DEF Inv, OwnBudget
<1>6. hits' \in [Keys -> Seq(Nat)]
  BY <1>1, <1>2
<1> QED
  BY <1>4, <1>5, <1>6

LEMMA Step ==
  ASSUME Inv, [Next]_vars
  PROVE  Inv'
<1>t. /\ limit \in Int /\ clock \in Nat /\ hits \in [Keys -> Seq(Nat)]
      /\ call \in [Threads -> Calls] /\ admitted \in [Keys -> Seq(Nat)]
      /\ retry \in Refusal /\ sent \in [Keys -> SUBSET Nat] /\ named \subseteq Clients
  BY DEF Inv, TypeOK
<1>1. ASSUME NEW t \in Threads, ReadClock(t)
      PROVE  Inv'
  <2>1. PICK r \in Requests :
          /\ call' = [call EXCEPT ![t] = [key   |-> ClientIp(r.peer, r.real),
                                          from  |-> r.from,
                                          stamp |-> clock]]
          /\ named' = named \cup NamedBy(r)
    BY <1>1 DEF ReadClock
  <2>2. UNCHANGED <<limit, clock, hits, admitted, sent, retry>>
    BY <1>1 DEF ReadClock
  <2>3. call' \in [Threads -> Calls] /\ Named'
    BY <1>t, <2>1, RequestNames DEF Calls, Inv, Named
  <2>4. named' \subseteq Clients /\ named \subseteq named'
    BY <1>t, <2>1, RequestNames
  <2>5. TypeOK' /\ Bounded'
    BY <1>t, <2>2, <2>3, <2>4 DEF Inv, TypeOK, Bounded
  <2>6. OwnBudget'
    BY <2>2, <2>4 DEF Inv, OwnBudget
  <2> QED
    BY <2>3, <2>5, <2>6 DEF Inv
<1>2. ASSUME NEW t \in Threads, Admit(t)
      PROVE  Inv'
  <2> DEFINE k == call[t].key
             s == call[t].stamp
             q == Pruned(hits[k], s)
             f == call[t].from
  <2>1. /\ k \in Keys /\ s \in Nat /\ q \in Seq(Nat) /\ hits[k] \in Seq(Nat)
        /\ \A j \in 1..Len(q) : \E i \in 1..Len(hits[k]) : q[j] = hits[k][i]
    BY <1>2, CheckTypes, PrunedKeeps DEF Admit
  <2>2. /\ Len(q) < limit
        /\ hits' = [hits EXCEPT ![k] = Append(q, s)]
        /\ admitted' = [admitted EXCEPT ![k] = Append(@, s)]
        /\ sent' = [sent EXCEPT ![f] = @ \cup {s}]
        /\ call' = [call EXCEPT ![t] = Outside]
        /\ UNCHANGED <<limit, clock, named, retry>>
    BY <1>2 DEF Admit, Admits
  <2>3. k \in Clients \ named => f = k
    BY DEF Inv, Named
  <2> HIDE DEF k, s, q, f
  <2>4. /\ Append(q, s) \in Seq(Nat) /\ Len(Append(q, s)) = Len(q) + 1
        /\ \A i \in 1..Len(q) : Append(q, s)[i] = q[i]
        /\ Append(q, s)[Len(q) + 1] = s
    BY <2>1, AppendProperties
  <2>5. hits' \in [Keys -> Seq(Nat)] /\ Bounded'
    BY <1>t, <2>1, <2>2, <2>4 DEF Inv, Bounded
  <2>6. admitted' \in [Keys -> Seq(Nat)]
    BY <1>t, <2>1, <2>2, AppendProperties
  <2>7. sent' \in [Keys -> SUBSET Nat] /\ \A c \in Keys : sent[c] \subseteq sent'[c]
    BY <1>t, <2>1, <2>2
  <2>8. OwnBudget'
    <3> SUFFICES ASSUME NEW c \in Clients \ named, NEW i \in 1..Len(hits'[c])
                 PROVE  hits'[c][i] \in sent'[c]
      BY <2>2 DEF OwnBudget
    <3>1. c \in Keys
      BY DEF Keys
    <3>2. CASE \E n \in 1..Len(hits[c]) : hits'[c][i] = hits[c][n]
      BY <2>7, <3>1, <3>2 DEF Inv, OwnBudget
    <3>3. CASE c = k /\ hits'[c][i] = s
      BY <1>t, <2>2, <2>3, <3>1, <3>3
    <3>4. CASE c # k
      BY <1>t, <2>2, <3>1, <3>2, <3>4
    <3>5. CASE c = k
      <4>1. hits'[c] = Append(q, s) /\ i \in 1..Len(q) + 1
        BY <1>t, <2>1, <2>2, <2>4, <3>5
      <4>2. CASE i \in 1..Len(q)
        BY <2>1, <2>4, <3>2, <3>5, <4>1, <4>2
      <4>3. CASE i = Len(q) + 1
        BY <2>4, <3>3, <3>5, <4>1, <4>3
      <4> QED
        BY <2>1, <4>1, <4>2, <4>3
    <3> QED
      BY <3>4, <3>5
  <2>9. TypeOK'
    BY <1>t, <2>2, <2>5, <2>6, <2>7, OutsideEffect DEF TypeOK
  <2> QED
    BY <2>2, <2>5, <2>8, <2>9, OutsideEffect DEF Inv
<1>3. ASSUME NEW t \in Threads, Refuse(t)
      PROVE  Inv'
  <2>1. retry' \in Refusal
    BY <1>3, CheckTypes, RetryType DEF Refuse, Refusal
  <2> QED
    BY <1>t, <1>3, <2>1, PruneEffect, OutsideEffect DEF Refuse, Inv, TypeOK
<1>4. ASSUME NEW t \in Threads, Fail(t)
      PROVE  Inv'
  <2>1. /\ hits' = [hits EXCEPT ![call[t].key] =
                        Pruned(hits[call[t].key], call[t].stamp)]
        /\ call' = [call EXCEPT ![t] = Outside] /\ call[t].key # NoKey
        /\ UNCHANGED <<limit, clock, admitted, sent, named, retry>>
    BY <1>4 DEF Fail
  <2>2. hits' \in [Keys -> Seq(Nat)] /\ Bounded' /\ OwnBudget'
    BY <2>1, PruneEffect
  <2> QED
    BY <1>t, <2>1, <2>2, OutsideEffect DEF Inv, TypeOK
<1>5. CASE Tick \/ UNCHANGED vars
  <2>1. /\ UNCHANGED <<limit, hits, call, admitted, sent, named, retry>>
        /\ clock' = clock + 1 \/ clock' = clock
    BY <1>5 DEF Tick, vars
  <2>2. TypeOK'
    BY <1>t, <2>1 DEF TypeOK
  <2>3. Bounded' /\ Named' /\ OwnBudget'
    BY <2>1 DEF Inv, Bounded, Named, OwnBudget
  <2> QED
    BY <2>2, <2>3 DEF Inv
<1> QED
  BY <1>1, <1>2, <1>3, <1>4, <1>5 DEF Next

LEMMA Invariance == Spec => []Inv
<1>1. Init => Inv
  <2> SUFFICES ASSUME Init PROVE Inv
    OBVIOUS
  <2>1. Outside \in Calls /\ Outside.key \notin Clients
    BY DEF Outside, Calls, Keys
  <2>2. [key |-> NoKey, stamp |-> 0, seconds |-> 0] \in Refusal
    BY DEF Refusal
  <2>3. <<>> \in Seq(Nat) /\ Clients \subseteq Keys
    BY DEF Keys
  <2> QED
    BY <2>1, <2>2, <2>3 DEF Init, Inv, TypeOK, Bounded, Named, OwnBudget
<1>2. Inv /\ [Next]_vars => Inv'
  BY Step
<1> QED
  BY <1>1, <1>2, PTL DEF Spec

\* Every deque and every answer has its type: a Retry-After is never negative.
THEOREM LimiterTyped == Spec => []TypeOK
<1>1. Inv => TypeOK
  BY DEF Inv
<1> QED
  BY <1>1, Invariance, PTL

\* No client's creations are used up by anybody else's, whatever header others
\* send, as long as the host itself names nobody but the sender.
THEOREM BudgetIsOwn == Spec => []OwnBudget
<1>1. Inv => OwnBudget
  BY DEF Inv
<1> QED
  BY <1>1, Invariance, PTL
----------------------------------------------------------------------------
(* Retry-After.                                                            *)

\* So many whole seconds are more than x ticks.
LEMMA SecondsSuffice ==
  ASSUME NEW x \in Int, NEW n \in Int, n >= x \div TicksPerSecond + 1
  PROVE  n * TicksPerSecond > x
<1> DEFINE m == x \div TicksPerSecond
<1>1. m \in Int /\ x < (m + 1) * TicksPerSecond
  OBVIOUS
<1> HIDE DEF m
<1>2. \A i, j \in Int, k \in Nat : i >= j => i * k >= j * k
  OBVIOUS
<1>3. n * TicksPerSecond >= (m + 1) * TicksPerSecond
  BY <1>1, <1>2 DEF m
<1> QED
  BY <1>1, <1>3

\* By then the head of the deque has left the window.
LEMMA HeadLeaves ==
  ASSUME NEW q \in Seq(Nat), q # <<>>, NEW now \in Nat
  PROVE  /\ now + RetryAfter(q, now) * TicksPerSecond \in Nat
         /\ 1 \notin Fresh(q, now + RetryAfter(q, now) * TicksPerSecond)
<1>1. q[1] \in Nat /\ Window \in Nat
  BY DEF Window
<1> DEFINE x == Window - (now - q[1])
           n == RetryAfter(q, now)
<1>2. x \in Int /\ x \div TicksPerSecond \in Int
  BY <1>1
<1>3. n = IF x \div TicksPerSecond + 1 < 1 THEN 1 ELSE x \div TicksPerSecond + 1
  BY DEF RetryAfter
<1>4. n \in Nat
  BY RetryType
<1>5. now - Window + x = q[1]
  BY <1>1
<1> HIDE DEF x, n
<1>6. n >= x \div TicksPerSecond + 1
  BY <1>2, <1>3
<1>7. n * TicksPerSecond > x
  <2>1. n \in Int
    BY <1>4
  <2> QED
    BY <1>2, <1>6, <2>1, SecondsSuffice, Zenon
<1> DEFINE wait == n * TicksPerSecond
<1> HIDE DEF wait
<1>8. wait > x /\ wait \in Nat
  <2>1. \A i, j \in Nat : i * j \in Nat
    OBVIOUS
  <2> QED
    BY <1>4, <1>7, <2>1 DEF wait
<1>9. now + wait \in Nat /\ ~(q[1] > (now + wait) - Window)
  BY <1>1, <1>2, <1>5, <1>8
<1>10. 1 \notin Fresh(q, now + wait)
  <2>1. \A later \in Nat : ~(q[1] > later - Window) => 1 \notin Fresh(q, later)
    BY DEF Fresh
  <2> QED
    BY <1>9, <2>1, Zenon
<1> QED
  BY <1>9, <1>10 DEF n, wait

\* Who waits as long as Retry-After says finds room, unless somebody else at
\* the address has taken it.
THEOREM WaitingSuffices == Spec => RetrySuffices
<1>1. ASSUME Inv, NEW t \in Threads, Refuse(t)
      PROVE  LET k == call[t].key IN
             Admits(Pruned(hits'[k],
                           call[t].stamp + retry'.seconds * TicksPerSecond))
  <2> DEFINE k == call[t].key
             s == call[t].stamp
             q == Pruned(hits[k], s)
             later == s + RetryAfter(q, s) * TicksPerSecond
  <2>1. /\ k \in Keys /\ s \in Nat /\ q \in Seq(Nat) /\ hits[k] \in Seq(Nat)
        /\ Len(q) <= Len(hits[k])
    BY <1>1, CheckTypes DEF Refuse
  <2>2. /\ q # <<>> /\ hits'[k] = q /\ retry'.seconds = RetryAfter(q, s)
    BY <1>1, <2>1 DEF Refuse, Inv, TypeOK
  <2>3. Len(q) <= limit /\ limit \in Int
    BY <1>1, <2>1, <2>2 DEF Inv, Bounded, TypeOK
  <2>4. later \in Nat /\ 1 \notin Fresh(q, later)
    BY <2>1, <2>2, HeadLeaves
  <2> HIDE DEF k, s, q, later
  <2>5. Len(Pruned(q, later)) < Len(q) /\ Pruned(q, later) \in Seq(Nat)
    BY <2>1, <2>2, <2>4, PrunedKeeps
  <2> QED
    BY <2>1, <2>2, <2>3, <2>5 DEF Admits, k, s, later
<1>2. Inv /\ [Next]_vars =>
        [\A t \in Threads : Refuse(t) =>
           LET k == call[t].key IN
           Admits(Pruned(hits'[k],
                         call[t].stamp + retry'.seconds * TicksPerSecond))]_vars
  BY <1>1
<1> QED
  BY <1>2, Invariance, PTL DEF Spec, RetrySuffices
----------------------------------------------------------------------------
(* The limit.  A deque is the end of all that was admitted under its key.  *)

Stamped == \A t \in Threads : call[t].stamp <= clock

Ending ==
  \A k \in Keys :
    /\ Len(hits[k]) <= Len(admitted[k])
    /\ \A i \in 1..Len(hits[k]) :
         hits[k][i] = admitted[k][Len(admitted[k]) - Len(hits[k]) + i]

\* A limit of 0 lets nobody in.
Shut == limit <= 0 => \A k \in Keys : admitted[k] = <<>>

\* The admissions of k in the window that ends at end.
Hits(k, end) ==
  {i \in 1..Len(admitted[k]) :
     admitted[k][i] > end - Window /\ admitted[k][i] <= end}

\* The threads that may still add to them once the clock is past end.
Late(k, end) == {t \in Threads : call[t].key = k /\ call[t].stamp <= end}

\* Either the deque still has all of them, and so there are no more than the
\* limit; or a thread with a newer reading has pruned some, and since then each
\* of the others can have added one.
Kept(k, end) == \A i \in Hits(k, end) : i > Len(admitted[k]) - Len(hits[k])

Passed(k, end) ==
  /\ clock > end
  /\ InWindow(k, end) + Cardinality(Late(k, end)) <= limit + Cardinality(Threads) - 1

WindowInv ==
  /\ Stamped /\ Ending /\ Shut
  /\ \A k \in Keys, end \in Nat : Kept(k, end) \/ Passed(k, end)

LEMMA Counted ==
  ASSUME TypeOK, NEW k \in Keys, NEW end \in Nat
  PROVE  /\ IsFiniteSet(Hits(k, end)) /\ InWindow(k, end) = Cardinality(Hits(k, end))
         /\ InWindow(k, end) \in Nat
         /\ IsFiniteSet(Late(k, end)) /\ Cardinality(Late(k, end)) \in Nat
         /\ Cardinality(Threads) \in Nat /\ Cardinality(Threads) >= 1
<1>1. Len(admitted[k]) \in Nat
  BY DEF TypeOK
<1>2. IsFiniteSet(1..Len(admitted[k]))
  BY <1>1, FS_Interval
<1>3. Hits(k, end) \in SUBSET (1..Len(admitted[k]))
  BY DEF Hits
<1>4. IsFiniteSet(Hits(k, end)) /\ Cardinality(Hits(k, end)) \in Nat
  BY <1>2, <1>3, FS_Subset, FS_CardinalityType
<1>5. Late(k, end) \in SUBSET Threads
  BY DEF Late
<1>6. IsFiniteSet(Late(k, end)) /\ Cardinality(Late(k, end)) \in Nat
  BY <1>5, ThreadsAssumption, FS_Subset, FS_CardinalityType DEF ThreadsAssumption
<1>7. Cardinality(Threads) \in Nat /\ Cardinality(Threads) # 0
  BY ThreadsAssumption, FS_EmptySet, FS_CardinalityType DEF ThreadsAssumption
<1>8. InWindow(k, end) = Cardinality(Hits(k, end))
  BY DEF InWindow, Hits
<1> QED
  BY <1>4, <1>6, <1>7, <1>8

LEMMA IntervalSize ==
  ASSUME NEW a \in Nat, NEW h \in Nat, h <= a
  PROVE  IsFiniteSet(a - h + 1..a) /\ Cardinality(a - h + 1..a) = h
<1> DEFINE b == a - h + 1
<1>1. b \in Int /\ (b > a => h = 0) /\ a - b + 1 = h
  OBVIOUS
<1> HIDE DEF b
<1>2. IsFiniteSet(b..a) /\ Cardinality(b..a) = IF b > a THEN 0 ELSE a - b + 1
  BY <1>1, FS_Interval
<1>3. Cardinality(b..a) = h
  BY <1>1, <1>2
<1> QED
  BY <1>2, <1>3 DEF b

\* What a deque has all of is no more than the deque.
LEMMA KeptFew ==
  ASSUME Inv, Ending, NEW k \in Keys, NEW end \in Nat, Kept(k, end)
  PROVE  InWindow(k, end) <= Len(hits[k])
<1>0. /\ Len(admitted[k]) \in Nat /\ Len(hits[k]) \in Nat
      /\ Len(hits[k]) <= Len(admitted[k])
  BY DEF Inv, TypeOK, Ending
<1>1. PICK a \in Nat, h \in Nat : a = Len(admitted[k]) /\ h = Len(hits[k]) /\ h <= a
  BY <1>0
<1>2. Hits(k, end) \subseteq a - h + 1..a
  <2> SUFFICES ASSUME NEW i \in Hits(k, end) PROVE i \in a - h + 1..a
    OBVIOUS
  <2>1. i \in 1..a /\ i > a - h
    BY <1>1 DEF Kept, Hits
  <2> QED
    BY <2>1
<1>3. IsFiniteSet(a - h + 1..a) /\ Cardinality(a - h + 1..a) = h
  BY <1>1, IntervalSize
<1>4. Cardinality(Hits(k, end)) <= h
  BY <1>2, <1>3, FS_Subset
<1> QED
  BY <1>1, <1>4, Counted DEF Inv

\* Pruning takes a beginning of the deque, all of it older than the window.
Beginning(q, now, p) ==
  /\ p \in Seq(Nat) /\ Len(q) - Len(p) \in Nat
  /\ \A j \in 1..Len(q) - Len(p) : q[j] <= now - Window
  /\ \A j \in 1..Len(p) : p[j] = q[Len(q) - Len(p) + j]

LEMMA PrunedBeginning ==
  ASSUME NEW q \in Seq(Nat), NEW now \in Nat, NEW p, p = Pruned(q, now)
  PROVE  Beginning(q, now, p)
<1>1. Window \in Nat /\ Len(q) \in Nat /\ \A j \in 1..Len(q) : q[j] \in Nat
  BY DEF Window
<1>2. CASE Fresh(q, now) = {} /\ Pruned(q, now) = <<>>
  BY <1>1, <1>2 DEF Fresh, Beginning
<1>3. ASSUME NEW i \in Fresh(q, now), \A j \in Fresh(q, now) : i <= j,
             Pruned(q, now) = SubSeq(q, i, Len(q))
      PROVE  Beginning(q, now, p)
  <2>1. i \in 1..Len(q)
    BY <1>3 DEF Fresh
  <2>2. /\ SubSeq(q, i, Len(q)) \in Seq(Nat)
        /\ Len(SubSeq(q, i, Len(q))) = Len(q) - i + 1
        /\ \A j \in 1..Len(q) - i + 1 : SubSeq(q, i, Len(q))[j] = q[i + j - 1]
    BY <1>1, <2>1, SubSeqProperties
  <2>3. \A j \in 1..i - 1 : q[j] <= now - Window
    <3> SUFFICES ASSUME NEW j \in 1..i - 1 PROVE q[j] <= now - Window
      OBVIOUS
    <3>1. j \in 1..Len(q) /\ ~(i <= j)
      BY <1>1, <2>1
    <3>2. j \notin Fresh(q, now)
      BY <1>3, <3>1
    <3>3. ~(q[j] > now - Window)
      BY <3>1, <3>2 DEF Fresh
    <3> QED
      BY <1>1, <3>1, <3>3
  <2>4. Len(q) - (Len(q) - i + 1) = i - 1 /\ i - 1 \in Nat
    BY <1>1, <2>1
  <2>5. \A j \in 1..Len(q) - i + 1 : (i - 1) + j = i + j - 1
    BY <1>1, <2>1
  <2>6. /\ p \in Seq(Nat) /\ Len(p) = Len(q) - i + 1
        /\ \A j \in 1..Len(q) - i + 1 : p[j] = q[i + j - 1]
    BY <1>3, <2>2
  <2>7. Len(q) - Len(p) = i - 1
    BY <2>4, <2>6
  <2>8. \A j \in 1..Len(p) : p[j] = q[Len(q) - Len(p) + j]
    BY <2>5, <2>6, <2>7
  <2> QED
    BY <2>3, <2>4, <2>6, <2>7, <2>8 DEF Beginning
<1> QED
  BY <1>2, <1>3, PrunedIs

\* The end of a check takes its thread out of the late ones.
Leaves(t) == call' = [call EXCEPT ![t] = Outside]

LEMMA LateFalls ==
  ASSUME Inv, NEW t \in Threads, Leaves(t),
         NEW k \in Keys, NEW end \in Nat
  PROVE  /\ Late(k, end)' = Late(k, end) \ {t}
         /\ Cardinality(Late(k, end)') \in Nat
         /\ Cardinality(Late(k, end)') <= Cardinality(Late(k, end))
         /\ t \in Late(k, end) =>
              Cardinality(Late(k, end)') = Cardinality(Late(k, end)) - 1
<1>1. Outside.key # k /\ call \in [Threads -> Calls]
  BY DEF Outside, Inv, TypeOK
<1>2. Late(k, end)' = Late(k, end) \ {t}
  BY <1>1 DEF Late, Leaves
<1>3. IsFiniteSet(Late(k, end)) /\ Cardinality(Late(k, end)) \in Nat
  BY Counted DEF Inv
<1>4. PICK L : L = Late(k, end)
  OBVIOUS
<1>5. /\ IsFiniteSet(L \ {t}) 
      /\ Cardinality(L \ {t}) = IF t \in L THEN Cardinality(L) - 1 ELSE Cardinality(L)
  BY <1>3, <1>4, FS_RemoveElement
<1>6. Cardinality(L \ {t}) \in Nat
  BY <1>5, FS_CardinalityType
<1> QED
  BY <1>2, <1>3, <1>4, <1>5, <1>6

\* When a check of k prunes the first admission of a window, the window was over
\* and k's deque had all of it, and no thread but the others is late.
LEMMA Overtaken ==
  ASSUME Inv, WindowInv, NEW t \in Threads, NEW end \in Nat, call[t].key # NoKey,
         Kept(call[t].key, end),
         NEW i \in Hits(call[t].key, end),
         i <= Len(admitted[call[t].key])
                - Len(Pruned(hits[call[t].key], call[t].stamp))
  PROVE  /\ end < call[t].stamp /\ end < clock
         /\ InWindow(call[t].key, end) <= limit
         /\ Cardinality(Late(call[t].key, end)) <= Cardinality(Threads) - 1
<1>1. PICK k \in Keys, s \in Nat : k = call[t].key /\ s = call[t].stamp
  BY CheckTypes
<1>2. PICK q \in Seq(Nat), p \in Seq(Nat) : q = hits[k] /\ p = Pruned(q, s)
  BY <1>1, CheckTypes
<1>3. PICK a \in Nat : a = Len(admitted[k])
  BY <1>1 DEF Inv, TypeOK
<1>4. PICK m \in Nat, n \in Nat : m = Len(q) /\ n = Len(p)
  BY <1>2
<1>5. m - n \in Nat /\ \A j \in 1..m - n : q[j] <= s - Window
  BY <1>2, <1>4, PrunedBeginning DEF Beginning
<1>6. i \in 1..a /\ i > a - m /\ i <= a - n /\ m <= a
  BY <1>1, <1>2, <1>3, <1>4 DEF Hits, Kept, WindowInv, Ending
<1>7. i - (a - m) \in 1..m - n /\ i - (a - m) \in 1..m /\ a - m + (i - (a - m)) = i
  BY <1>5, <1>6
<1>8. PICK j \in 1..m : j \in 1..m - n /\ a - m + j = i
  BY <1>7
<1>9. q[j] = admitted[k][i] /\ q[j] \in Nat
  <2>1. \A x \in 1..m : q[x] = admitted[k][a - m + x]
    BY <1>1, <1>2, <1>3, <1>4 DEF WindowInv, Ending
  <2>2. q[j] = admitted[k][a - m + j]
    BY <1>8, <2>1
  <2>3. q[j] \in Nat
    BY <1>2, <1>4, <1>8
  <2> QED
    BY <1>8, <2>2, <2>3
<1>10. end < s
  <2>1. admitted[k][i] > end - Window
    BY <1>1 DEF Hits
  <2>2. PICK w \in Nat : w = Window
    BY DEF Window
  <2>3. q[j] > end - w /\ q[j] <= s - w
    BY <1>5, <1>8, <1>9, <2>1, <2>2
  <2> QED
    BY <1>9, <2>3
<1>11. s <= clock /\ clock \in Nat
  BY <1>1 DEF WindowInv, Stamped, Inv, TypeOK
<1>12. InWindow(k, end) <= limit
  <2>1. InWindow(k, end) <= Len(q)
    BY <1>1, <1>2, KeptFew DEF WindowInv
  <2>2. Len(q) <= limit
    BY <1>1, <1>2, <1>4, <1>8 DEF Inv, Bounded
  <2>3. limit \in Int /\ InWindow(k, end) \in Nat
    BY Counted DEF Inv, TypeOK
  <2> QED
    BY <1>4, <2>1, <2>2, <2>3
<1>13. Cardinality(Late(k, end)) <= Cardinality(Threads) - 1
  <2>1. Late(k, end) \in SUBSET (Threads \ {t})
    BY <1>1, <1>10 DEF Late
  <2>2. /\ IsFiniteSet(Threads \ {t})
        /\ Cardinality(Threads \ {t}) = Cardinality(Threads) - 1
    BY ThreadsAssumption, FS_RemoveElement DEF ThreadsAssumption
  <2> QED
    BY <2>1, <2>2, FS_Subset
<1> QED
  BY <1>1, <1>10, <1>11, <1>12, <1>13
\* An admission adds at most itself to a window, and only to one that it is in.
LEMMA OneMoreHit ==
  ASSUME Inv, NEW k \in Keys, NEW s \in Nat, NEW end \in Nat,
         admitted'[k] = Append(admitted[k], s)
  PROVE  /\ InWindow(k, end)' <= InWindow(k, end) + 1
         /\ s > end => InWindow(k, end)' <= InWindow(k, end)
<1>1. PICK a \in Nat : a = Len(admitted[k]) /\ admitted[k] \in Seq(Nat)
  BY DEF Inv, TypeOK
<1>2. /\ Len(admitted'[k]) = a + 1
      /\ \A i \in 1..a : admitted'[k][i] = admitted[k][i]
      /\ admitted'[k][a + 1] = s
  BY <1>1, AppendProperties
<1>3. \A i \in Hits(k, end)' : i \in Hits(k, end) \/ (i = a + 1 /\ s <= end)
  <2> SUFFICES ASSUME NEW i \in Hits(k, end)'
               PROVE  i \in Hits(k, end) \/ (i = a + 1 /\ s <= end)
    OBVIOUS
  <2>1. /\ i \in 1..a + 1
        /\ admitted'[k][i] > end - Window /\ admitted'[k][i] <= end
    BY <1>2 DEF Hits
  <2>2. CASE i \in 1..a
    BY <1>1, <1>2, <2>1, <2>2 DEF Hits
  <2>3. CASE i = a + 1
    BY <1>2, <2>1, <2>3
  <2> QED
    BY <2>1, <2>2, <2>3
<1>4. PICK H, G : H = Hits(k, end) /\ G = Hits(k, end)'
  OBVIOUS
<1>5. /\ IsFiniteSet(H) /\ Cardinality(H) \in Nat /\ InWindow(k, end) = Cardinality(H)
  BY <1>4, Counted DEF Inv
<1>6. InWindow(k, end)' = Cardinality(G)
  BY <1>4 DEF InWindow, Hits
<1>7. IsFiniteSet(H \cup {a + 1}) /\ Cardinality(H \cup {a + 1}) <= Cardinality(H) + 1
  <2>1. PICK b : b = a + 1
    OBVIOUS
  <2>2. /\ IsFiniteSet(H \cup {b})
        /\ Cardinality(H \cup {b})
             = IF b \in H THEN Cardinality(H) ELSE Cardinality(H) + 1
    BY <1>5, FS_AddElement
  <2> QED
    BY <1>5, <2>1, <2>2
<1>8. Cardinality(G) <= Cardinality(H \cup {a + 1}) /\ Cardinality(G) \in Nat
  <2>1. G \subseteq H \cup {a + 1}
    BY <1>3, <1>4
  <2> QED
    BY <1>7, <2>1, FS_Subset, FS_CardinalityType
<1>9. s > end => Cardinality(G) <= Cardinality(H)
  <2> SUFFICES ASSUME s > end PROVE Cardinality(G) <= Cardinality(H)
    OBVIOUS
  <2>1. G \subseteq H
    BY <1>3, <1>4
  <2> QED
    BY <1>5, <2>1, FS_Subset
<1>10. Cardinality(H \cup {a + 1}) \in Nat
  BY <1>7, FS_CardinalityType
<1> QED
  BY <1>5, <1>6, <1>7, <1>8, <1>9, <1>10

\* A window that nobody adds to or prunes stays as good as it was.
LEMMA Untouched ==
  ASSUME Inv, NEW k \in Keys, NEW end \in Nat, Kept(k, end) \/ Passed(k, end),
         limit' = limit, clock' \in Nat, clock' >= clock,
         hits'[k] = hits[k], admitted'[k] = admitted[k],
         clock > end => Late(k, end)' \subseteq Late(k, end)
  PROVE  Kept(k, end)' \/ Passed(k, end)'
<1>1. CASE Kept(k, end)
  BY <1>1 DEF Kept, Hits
<1>2. CASE Passed(k, end)
  <2>1. PICK L, M : L = Late(k, end) /\ M = Late(k, end)'
    OBVIOUS
  <2>2. /\ IsFiniteSet(L) /\ Cardinality(L) \in Nat /\ Cardinality(Threads) \in Nat
        /\ InWindow(k, end) \in Nat /\ limit \in Int /\ clock \in Nat
    BY <2>1, Counted DEF Inv, TypeOK
  <2>3. Cardinality(M) \in Nat /\ Cardinality(M) <= Cardinality(L)
    BY <1>2, <2>1, <2>2, FS_Subset, FS_CardinalityType DEF Passed
  <2>4. InWindow(k, end)' = InWindow(k, end)
    BY DEF InWindow
  <2>5. Passed(k, end)'
    BY <1>2, <2>1, <2>2, <2>3, <2>4 DEF Passed
  <2> QED
    BY <2>5
<1> QED
  BY <1>1, <1>2

\* What a check does to the windows of its own key.
LEMMA Checked ==
  ASSUME Inv, WindowInv, NEW t \in Threads, NEW end \in Nat,
         NEW k \in Keys, k = call[t].key, Admit(t) \/ Refuse(t) \/ Fail(t)
  PROVE  Kept(k, end)' \/ Passed(k, end)'
<1>1. call[t].key # NoKey
  BY DEF Admit, Refuse, Fail
<1>2. PICK s \in Nat, p \in Seq(Nat), n \in Nat :
        s = call[t].stamp /\ p = Pruned(hits[k], s) /\ n = Len(p)
  BY <1>1, CheckTypes
<1>3. PICK a \in Nat : a = Len(admitted[k]) /\ admitted[k] \in Seq(Nat)
  BY DEF Inv, TypeOK
<1>4. /\ call' = [call EXCEPT ![t] = Outside] /\ limit' = limit /\ clock' = clock
      /\ hits \in [Keys -> Seq(Nat)] /\ admitted \in [Keys -> Seq(Nat)]
      /\ limit \in Int /\ clock \in Nat
  BY DEF Admit, Refuse, Fail, Inv, TypeOK
<1>5. \/ hits'[k] = p /\ admitted'[k] = admitted[k]
      \/ hits'[k] = Append(p, s) /\ admitted'[k] = Append(admitted[k], s)
  BY <1>2, <1>4 DEF Admit, Refuse, Fail
<1>6. CASE Kept(k, end) /\ \A i \in Hits(k, end) : i > a - n
  <2>1. CASE hits'[k] = p /\ admitted'[k] = admitted[k]
    BY <1>2, <1>3, <1>6, <2>1 DEF Kept, Hits
  <2>2. CASE hits'[k] = Append(p, s) /\ admitted'[k] = Append(admitted[k], s)
    <3>0. Len(Append(p, s)) = n + 1
      BY <1>2, AppendProperties
    <3>1. /\ Len(admitted'[k]) = a + 1 /\ Len(hits'[k]) = n + 1
          /\ \A i \in 1..a : admitted'[k][i] = admitted[k][i]
      BY <1>3, <2>2, <3>0, AppendProperties
    <3>2. SUFFICES ASSUME NEW i \in Hits(k, end)' PROVE i > (a + 1) - (n + 1)
      BY <1>2, <3>1 DEF Kept
    <3>3. /\ i \in 1..a + 1
          /\ admitted'[k][i] > end - Window /\ admitted'[k][i] <= end
      BY <3>1 DEF Hits
    <3>4. CASE i \in 1..a
      <4>1. i \in Hits(k, end)
        BY <1>3, <3>1, <3>3, <3>4 DEF Hits
      <4>2. i > a - n
        BY <1>6, <4>1
      <4> QED
        BY <3>3, <4>2
    <3>5. CASE i = a + 1
      BY <3>5
    <3> QED
      BY <3>3, <3>4, <3>5
  <2> QED
    BY <1>2, <1>5, <2>1, <2>2
<1>7. /\ InWindow(k, end) \in Nat /\ Cardinality(Late(k, end)) \in Nat
      /\ Cardinality(Threads) \in Nat
  BY Counted DEF Inv
<1>8. /\ Cardinality(Late(k, end)') \in Nat
      /\ Cardinality(Late(k, end)') <= Cardinality(Late(k, end))
      /\ t \in Late(k, end) =>
           Cardinality(Late(k, end)') = Cardinality(Late(k, end)) - 1
  <2>1. Leaves(t)
    BY <1>4 DEF Leaves
  <2> QED
    BY <2>1, LateFalls
<1>9. PICK before \in Nat : before = InWindow(k, end)
  BY <1>7
<1>10. PICK late \in Nat : late = Cardinality(Late(k, end))
  BY <1>7
<1>11. PICK size \in Nat : size = Cardinality(Threads)
  BY <1>7
<1>12. PICK falls \in Nat : falls = Cardinality(Late(k, end)')
  BY <1>8
<1>13. falls <= late /\ (t \in Late(k, end) => falls = late - 1)
  BY <1>10, <1>8, <1>12
<1>14. InWindow(k, end)' \in Nat
  <2>1. PICK b \in Nat : b = Len(admitted'[k])
    BY <1>3, <1>5, AppendProperties
  <2>2. {i \in 1..Len(admitted'[k]) : admitted'[k][i] > end - Window
                                       /\ admitted'[k][i] <= end} \subseteq 1..b
    BY <2>1
  <2>3. IsFiniteSet(1..b)
    BY <2>1, FS_Interval
  <2> QED
    BY <2>2, <2>3, FS_Subset, FS_CardinalityType DEF InWindow
<1>15. PICK after \in Nat : after = InWindow(k, end)'
  BY <1>14
<1>16. /\ after <= before + 1
       /\ s > end => after <= before
  <2>1. admitted'[k] = admitted[k] => after = before
    BY <1>9, <1>10, <1>15 DEF InWindow
  <2>2. admitted'[k] = Append(admitted[k], s) =>
          after <= before + 1 /\ (s > end => after <= before)
    BY <1>9, <1>10, <1>15, OneMoreHit
  <2> QED
    BY <1>5, <2>1, <2>2
<1>17. CASE \E i \in Hits(k, end) : Kept(k, end) /\ ~(i > a - n)
  <2>1. PICK i \in Hits(k, end) : Kept(k, end) /\ ~(i > a - n)
    BY <1>17
  <2>2. i <= a - n
    BY <1>3, <2>1 DEF Hits
  <2>3. end < s /\ end < clock /\ before <= limit /\ late <= size - 1
    BY <1>1, <1>2, <1>3, <1>9, <1>10, <1>11, <2>1, <2>2, Overtaken
  <2>4. s > end
    BY <2>3
  <2>5. after <= before
    BY <1>16, <2>4
  <2>6. PICK lim \in Int : lim = limit
    BY <1>4
  <2>7. before <= lim /\ late <= size - 1
    BY <2>3, <2>6
  <2>8. after + falls <= lim + size - 1
    BY <1>13, <2>5, <2>7
  <2> QED
    BY <1>4, <1>15, <1>11, <1>12, <2>3, <2>6, <2>8 DEF Passed
<1>18. CASE Passed(k, end)
  <2>1. end < clock /\ before + late <= limit + size - 1
    BY <1>9, <1>10, <1>11, <1>18 DEF Passed
  <2>2. s <= end => t \in Late(k, end)
    BY <1>2 DEF Late
  <2>3. PICK lim \in Int : lim = limit
    BY <1>4
  <2>4. before + late <= lim + size - 1
    BY <2>1, <2>3
  <2>5. s <= end => after + falls <= lim + size - 1
    <3> SUFFICES ASSUME s <= end PROVE after + falls <= lim + size - 1
      OBVIOUS
    <3>1. t \in Late(k, end)
      BY <2>2
    <3>2. falls = late - 1
      BY <1>13, <3>1
    <3>3. after <= before + 1
      BY <1>16
    <3> QED
      BY <2>4, <3>2, <3>3
  <2>6. s > end => after + falls <= lim + size - 1
    <3> SUFFICES ASSUME s > end PROVE after + falls <= lim + size - 1
      OBVIOUS
    <3>1. falls <= late
      BY <1>13
    <3>2. after <= before
      BY <1>16
    <3> QED
      BY <2>4, <3>1, <3>2
  <2>7. after + falls <= lim + size - 1
    BY <2>5, <2>6
  <2> QED
    BY <1>4, <1>15, <1>11, <1>12, <2>1, <2>3, <2>7 DEF Passed
<1> QED
  BY <1>6, <1>17, <1>18 DEF WindowInv

LEMMA WindowStep == Inv /\ Inv' /\ WindowInv /\ [Next]_vars => WindowInv'
<1> SUFFICES ASSUME Inv, Inv', WindowInv, [Next]_vars PROVE WindowInv'
  OBVIOUS
<1>t. /\ clock \in Nat /\ limit \in Int /\ call \in [Threads -> Calls]
      /\ hits \in [Keys -> Seq(Nat)] /\ admitted \in [Keys -> Seq(Nat)]
      /\ Outside.stamp = 0 /\ Outside.key = NoKey
  BY DEF Inv, TypeOK, Outside
<1>1. ASSUME NEW t \in Threads, ReadClock(t) PROVE WindowInv'
  <2>1. PICK r \in Requests :
          call' = [call EXCEPT ![t] = [key   |-> ClientIp(r.peer, r.real),
                                       from  |-> r.from,
                                       stamp |-> clock]]
    BY <1>1 DEF ReadClock
  <2>2. UNCHANGED <<limit, clock, hits, admitted, retry>> /\ call[t].key = NoKey
    BY <1>1 DEF ReadClock
  <2>4. Stamped'
    BY <1>t, <2>1, <2>2 DEF WindowInv, Stamped
  <2>5. Ending' /\ Shut'
    BY <2>2 DEF WindowInv, Ending, Shut
  <2>6. ASSUME NEW k \in Keys, NEW end \in Nat PROVE Kept(k, end)' \/ Passed(k, end)'
    <3>1. clock > end => Late(k, end)' \subseteq Late(k, end)
      BY <1>t, <2>1, <2>2 DEF Late
    <3>2. Kept(k, end) \/ Passed(k, end)
      BY DEF WindowInv
    <3> QED
      BY <1>t, <2>2, <3>1, <3>2, Untouched
  <2> QED
    BY <2>4, <2>5, <2>6 DEF WindowInv
<1>2. ASSUME NEW t \in Threads, Admit(t) \/ Refuse(t) \/ Fail(t) PROVE WindowInv'
  <2>1. PICK k \in Keys, s \in Nat, p \in Seq(Nat) :
          /\ k = call[t].key /\ s = call[t].stamp /\ p = Pruned(hits[k], s)
    BY <1>2, CheckTypes DEF Admit, Refuse, Fail
  <2>2. /\ call' = [call EXCEPT ![t] = Outside] /\ limit' = limit /\ clock' = clock
        /\ k # NoKey
    BY <1>2, <2>1 DEF Admit, Refuse, Fail
  <2>3. \/ /\ hits' = [hits EXCEPT ![k] = p] /\ admitted' = admitted
        \/ /\ hits' = [hits EXCEPT ![k] = Append(p, s)]
           /\ admitted' = [admitted EXCEPT ![k] = Append(@, s)]
           /\ Admits(p)
    BY <1>2, <2>1, <2>2 DEF Admit, Refuse, Fail
  <2>4. Stamped'
    BY <1>t, <2>2 DEF WindowInv, Stamped
  <2>5. Shut'
    <3>1. Admits(p) => limit > 0
      BY <1>t, <2>1 DEF Admits
    <3> QED
      BY <1>t, <2>2, <2>3, <3>1 DEF WindowInv, Shut
  <2>6. \A j \in Keys \ {k} : hits'[j] = hits[j] /\ admitted'[j] = admitted[j]
    BY <1>t, <2>3
  <2>7. Ending'
    <3> SUFFICES ASSUME NEW j \in Keys
                 PROVE  /\ Len(hits'[j]) <= Len(admitted'[j])
                        /\ \A i \in 1..Len(hits'[j]) :
                             hits'[j][i]
                               = admitted'[j][Len(admitted'[j]) - Len(hits'[j]) + i]
      BY DEF Ending
    <3>1. CASE j # k
      BY <2>6, <3>1 DEF WindowInv, Ending
    <3>a. PICK a \in Nat : a = Len(admitted[k])
      BY <1>t
    <3>2. PICK m \in Nat : m = Len(hits[k])
      BY <1>t
    <3>3. PICK n \in Nat : n = Len(p)
      BY <2>1
    <3>4. /\ m <= a
          /\ \A i \in 1..m : hits[k][i] = admitted[k][a - m + i]
      BY <3>a, <3>2 DEF WindowInv, Ending
    <3>5. hits[k] \in Seq(Nat)
      BY <1>t
    <3>6. m - n \in Nat /\ \A i \in 1..n : p[i] = hits[k][m - n + i]
      <4>1. /\ Len(hits[k]) - Len(p) \in Nat
            /\ \A i \in 1..Len(p) : p[i] = hits[k][Len(hits[k]) - Len(p) + i]
        <5>1. PICK q \in Seq(Nat) : q = hits[k]
          BY <3>5
        <5>2. p = Pruned(q, s)
          BY <2>1, <5>1
        <5>3. Beginning(q, s, p)
          BY <5>2, PrunedBeginning
        <5> QED
          BY <5>1, <5>3 DEF Beginning
      <4> QED
        BY <3>2, <3>3, <4>1
    <3>7. /\ m <= a /\ m - n \in Nat
          /\ \A i \in 1..m : hits[k][i] = admitted[k][a - m + i]
          /\ \A i \in 1..n : p[i] = hits[k][m - n + i]
      BY <3>4, <3>6
    <3>8. ASSUME NEW i \in 1..n PROVE p[i] = admitted[k][a - n + i]
      <4>1. m - n + i \in 1..m /\ a - m + (m - n + i) = a - n + i
        BY <3>7
      <4>2. hits[k][m - n + i] = admitted[k][a - m + (m - n + i)]
        BY <3>7, <4>1
      <4> QED
        BY <3>7, <4>1, <4>2
    <3>9. CASE j = k /\ hits'[k] = p /\ admitted'[k] = admitted[k]
      BY <3>a, <3>3, <3>7, <3>8, <3>9
    <3>10. CASE j = k /\ hits'[k] = Append(p, s)
                /\ admitted'[k] = Append(admitted[k], s)
      <4>1. /\ Len(hits'[k]) = n + 1 /\ hits'[k][n + 1] = s
            /\ \A i \in 1..n : hits'[k][i] = p[i]
        BY <2>1, <3>3, <3>10, AppendProperties
      <4>2. /\ Len(admitted'[k]) = a + 1 /\ admitted'[k][a + 1] = s
            /\ \A i \in 1..a : admitted'[k][i] = admitted[k][i]
        BY <1>t, <3>a, <3>10, AppendProperties
      <4>3. ASSUME NEW i \in 1..n + 1
            PROVE  hits'[k][i] = admitted'[k][(a + 1) - (n + 1) + i]
        <5>1. CASE i = n + 1
          <6>1. (a + 1) - (n + 1) + i = a + 1
            BY <5>1
          <6> QED
            BY <4>1, <4>2, <5>1, <6>1
        <5>2. CASE i \in 1..n
          <6>1. (a + 1) - (n + 1) + i = a - n + i /\ a - n + i \in 1..a
            BY <3>7, <5>2
          <6> QED
            BY <3>8, <4>1, <4>2, <5>2, <6>1
        <5> QED
          BY <5>1, <5>2
      <4>4. Len(hits'[k]) <= Len(admitted'[k])
        BY <3>7, <4>1, <4>2
      <4>5. \A i \in 1..Len(hits'[k]) :
              hits'[k][i] = admitted'[k][Len(admitted'[k]) - Len(hits'[k]) + i]
        BY <4>1, <4>2, <4>3
      <4> QED
        BY <3>10, <4>4, <4>5
    <3> QED
      BY <1>t, <2>1, <2>3, <3>1, <3>9, <3>10
  <2>8. ASSUME NEW j \in Keys, NEW end \in Nat PROVE Kept(j, end)' \/ Passed(j, end)'
    <3>1. CASE j = k
      BY <1>2, <2>1, <3>1, Checked
    <3>2. CASE j # k
      <4>1. Late(j, end)' \subseteq Late(j, end)
        <5>1. Leaves(t)
          BY <2>2 DEF Leaves
        <5>2. Late(j, end)' = Late(j, end) \ {t}
          BY <5>1, LateFalls
        <5> QED
          BY <5>2
      <4>2. Kept(j, end) \/ Passed(j, end)
        BY DEF WindowInv
      <4>3. /\ limit' = limit /\ clock' \in Nat /\ clock' >= clock
            /\ hits'[j] = hits[j] /\ admitted'[j] = admitted[j]
        BY <1>t, <2>2, <2>6, <3>2
      <4> QED
        BY <4>1, <4>2, <4>3, Untouched
    <3> QED
      BY <3>1, <3>2
  <2> QED
    BY <2>4, <2>5, <2>7, <2>8 DEF WindowInv
<1>3. CASE Tick \/ UNCHANGED vars
  <2>1. /\ UNCHANGED <<limit, hits, call, admitted>>
        /\ clock' \in Nat /\ clock' >= clock
    BY <1>t, <1>3 DEF Tick, vars
  <2>2. Stamped' /\ Ending' /\ Shut'
    BY <1>t, <2>1 DEF WindowInv, Stamped, Ending, Shut, Calls
  <2>3. ASSUME NEW k \in Keys, NEW end \in Nat PROVE Kept(k, end)' \/ Passed(k, end)'
    <3>1. Late(k, end)' = Late(k, end)
      BY <2>1 DEF Late
    <3>2. Kept(k, end) \/ Passed(k, end)
      BY DEF WindowInv
    <3> QED
      BY <2>1, <3>1, <3>2, Untouched
  <2> QED
    BY <2>2, <2>3 DEF WindowInv
<1> QED
  BY <1>1, <1>2, <1>3 DEF Next

LEMMA WindowInit == Init => WindowInv
<1> SUFFICES ASSUME Init PROVE WindowInv
  OBVIOUS
<1>1. \A k \in Keys : hits[k] = <<>> /\ admitted[k] = <<>>
  BY DEF Init
<1>2. \A t \in Threads : call[t].key = NoKey /\ call[t].stamp = 0
  BY DEF Init, Outside
<1>3. clock = 0
  BY DEF Init
<1>4. Stamped /\ Shut
  BY <1>1, <1>2, <1>3 DEF Stamped, Shut
<1>5. Ending
  <2>1. ASSUME NEW k \in Keys
        PROVE  Len(hits[k]) = 0 /\ Len(admitted[k]) = 0
    BY <1>1
  <2> SUFFICES ASSUME NEW k \in Keys
               PROVE  /\ Len(hits[k]) <= Len(admitted[k])
                      /\ \A i \in 1..Len(hits[k]) :
                           hits[k][i] = admitted[k][Len(admitted[k]) - Len(hits[k]) + i]
    BY DEF Ending
  <2>2. Len(hits[k]) <= Len(admitted[k])
    BY <2>1
  <2>3. ~ \E i \in 1..Len(hits[k]) : TRUE
    BY <2>1
  <2> QED
    BY <2>2, <2>3
<1>6. \A k \in Keys, end \in Nat : Kept(k, end)
  BY <1>1 DEF Kept, Hits
<1> QED
  BY <1>4, <1>5, <1>6 DEF WindowInv

LEMMA WindowBound == Inv /\ WindowInv => WindowLimit
<1> SUFFICES ASSUME Inv, WindowInv, NEW k \in Keys, NEW end \in 0..clock
             PROVE  InWindow(k, end)
                      <= IF limit > 0 THEN limit + Cardinality(Threads) - 1 ELSE 0
  BY DEF WindowLimit
<1>1. end \in Nat /\ limit \in Int /\ hits[k] \in Seq(Nat)
  BY DEF Inv, TypeOK
<1>2. /\ InWindow(k, end) \in Nat /\ InWindow(k, end) = Cardinality(Hits(k, end))
      /\ Cardinality(Late(k, end)) \in Nat
      /\ Cardinality(Threads) \in Nat /\ Cardinality(Threads) >= 1
  BY <1>1, Counted DEF Inv
<1>3. CASE limit <= 0
  <2>1. admitted[k] = <<>>
    BY <1>3 DEF WindowInv, Shut
  <2>2. Hits(k, end) = {}
    BY <2>1 DEF Hits
  <2>3. InWindow(k, end) = 0
    BY <1>2, <2>2, FS_EmptySet
  <2> QED
    BY <1>1, <1>3, <2>3
<1>4. CASE limit > 0 /\ Kept(k, end)
  <2>1. InWindow(k, end) <= Len(hits[k])
    BY <1>1, <1>4, KeptFew DEF WindowInv
  <2>2. Len(hits[k]) \in Nat /\ Len(hits[k]) <= limit
    BY <1>1, <1>4 DEF Inv, Bounded
  <2> QED
    BY <1>1, <1>2, <1>4, <2>1, <2>2
<1>5. CASE limit > 0 /\ Passed(k, end)
  BY <1>1, <1>2, <1>5 DEF Passed
<1> QED
  BY <1>1, <1>3, <1>4, <1>5 DEF WindowInv

\* In no window does a key get more admissions than the limit and one for each
\* other thread, however the threads overtake each other between the clock and
\* the lock; with a limit of 0 it gets none.
THEOREM WindowHolds == Spec => []WindowLimit
<1>1. Inv /\ WindowInv /\ [Next]_vars => WindowInv'
  BY Step, WindowStep
<1> QED
  BY <1>1, Invariance, WindowInit, WindowBound, PTL DEF Spec
=============================================================================
