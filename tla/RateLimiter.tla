---------------------------- MODULE RateLimiter ----------------------------
(***************************************************************************)
(* app/ratelimit.py: the in-memory sliding window that limits how many     *)
(* secrets one address creates.                                            *)
(*                                                                         *)
(* check() reads the clock and then takes the lock, so threads may enter   *)
(* the critical section in another order than they read the clock, and     *)
(* the deque of an address need not be sorted.  The clock is a float of    *)
(* seconds; here it counts ticks of a fraction of a second, so that the    *)
(* truncation in Retry-After is the code's.                                *)
(***************************************************************************)
EXTENDS Integers, Sequences, FiniteSets

CONSTANTS
  Threads,          \* threads of the pool that run create_secret_encrypted
  Clients,          \* remote addresses
  Local,            \* the address of the host itself, and of nginx
  Unknown,          \* "unknown", the key of who has no address
  Sources,          \* bound: who of all these sends requests
  Headers,          \* bound: what X-Real-IP says in them
  Limits,           \* what SECRET_RATE_LIMIT_PER_HOUR may be
  TicksPerSecond,
  WindowSeconds,    \* length of the window
  NoKey,            \* None: no peer, no header, no call
  EndOfTime         \* bound: the clock stops here

Keys == Clients \cup {Local, Unknown}

ASSUME LimitAssumption  == Limits \subseteq Int
ASSUME WindowAssumption == /\ TicksPerSecond \in Nat \ {0}
                           /\ WindowSeconds \in Nat \ {0}
ASSUME NoKeyAssumption  == NoKey \notin Keys
ASSUME LocalAssumption  == Local \notin Clients
ASSUME HeadersAssumption == Headers \subseteq Keys \cup {NoKey}
ASSUME EndAssumption    == EndOfTime \in Nat
ASSUME ThreadsAssumption == IsFiniteSet(Threads) /\ Threads # {}

VARIABLES
  limit,      \* admissions per window, fixed at the start
  clock,      \* time.monotonic()
  hits,       \* hits[k]: the deque of k
  call,       \* call[t]: the check that thread t is in, and its clock reading
  \* history variables
  admitted,   \* admitted[k]: the clock readings of all checks admitted under k
  sent,       \* sent[c]: the clock readings of the admitted checks that c sent
  named,      \* clients that the host named when somebody else sent the request
  retry       \* the last refusal: whom, its clock reading, its Retry-After

vars == <<limit, clock, hits, call, admitted, sent, named, retry>>

Window == WindowSeconds * TicksPerSecond

\* from: whose request it is, which the program does not see.
Outside == [key |-> NoKey, from |-> NoKey, stamp |-> 0]
Calls   == [key : Keys \cup {NoKey}, from : Keys \cup {NoKey}, stamp : Nat]
Refusal == [key : Keys \cup {NoKey}, stamp : Nat, seconds : Nat]
----------------------------------------------------------------------------
\* Mutant: the header is believed whoever sends it.
ClientIpTrusting(peer, real) ==
  IF real # NoKey THEN real
  ELSE IF peer = NoKey THEN Unknown ELSE peer

\* client_ip(): X-Real-IP counts from the host itself.
ClientIp(peer, real) ==
  IF peer \in {Local, NoKey} /\ real # NoKey THEN real
  ELSE IF peer = NoKey THEN Unknown ELSE peer

\* nginx, on the host itself, hands on as X-Real-IP what it finds in
\* CF-Connecting-IP, or no X-Real-IP when that is missing.  Cloudflare puts the
\* client's address there; that the request comes from Cloudflare nobody checks,
\* so it may say anything.  A request may also come directly, or have no peer.
Requests ==
  [from : Clients \cup {Local}, peer : {Local}, real : Headers] \cup
  [from : {Unknown}, peer : {NoKey}, real : Headers] \cup
  UNION {[from : {c}, peer : {c}, real : Headers] : c \in Clients}

\* The clients that the host names in r, which is another's request.
NamedBy(r) ==
  IF r.peer \in {Local, NoKey} THEN {r.real} \cap (Clients \ {r.from}) ELSE {}

\* while q and q[0] <= now - self.window: q.popleft()
Pruned(q, now) ==
  LET fresh == {i \in 1..Len(q) : q[i] > now - Window}
  IN  IF fresh = {} THEN <<>>
      ELSE SubSeq(q, CHOOSE i \in fresh : \A j \in fresh : i <= j, Len(q))

\* Mutants: the time left with the wrong sign; truncated without the + 1.
RetryNegated(q, now)   == ((now - q[1]) - Window) \div TicksPerSecond + 1
RetryTruncated(q, now) ==
  LET left == (Window - (now - q[1])) \div TicksPerSecond
  IN  IF left < 1 THEN 1 ELSE left

\* max(1, int(self.window - (now - q[0])) + 1), in whole seconds.
RetryAfter(q, now) ==
  LET left == (Window - (now - q[1])) \div TicksPerSecond + 1
  IN  IF left < 1 THEN 1 ELSE left

\* Mutant: ">" for ">=" in the refusal.
AdmitsOneMore(q) == Len(q) <= limit

Admits(q) == Len(q) < limit

\* A thread enters enforce_create_limit() and, in check(), reads the clock.
ReadClock(t) ==
  /\ call[t].key = NoKey
  /\ \E r \in Requests :
       /\ r.from \in Sources
       /\ call' = [call EXCEPT ![t] = [key   |-> ClientIp(r.peer, r.real),
                                       from  |-> r.from,
                                       stamp |-> clock]]
       /\ named' = named \cup NamedBy(r)
  /\ UNCHANGED <<limit, clock, hits, admitted, sent, retry>>

\* Under the lock: prune, then refuse or record the hit.
Admit(t) ==
  LET k == call[t].key
      q == Pruned(hits[k], call[t].stamp)
  IN  /\ k # NoKey
      /\ Admits(q)
      /\ hits' = [hits EXCEPT ![k] = Append(q, call[t].stamp)]
      /\ admitted' = [admitted EXCEPT ![k] = Append(@, call[t].stamp)]
      /\ sent' = [sent EXCEPT ![call[t].from] = @ \cup {call[t].stamp}]
      /\ call' = [call EXCEPT ![t] = Outside]
      /\ UNCHANGED <<limit, clock, named, retry>>

Refuse(t) ==
  LET k == call[t].key
      q == Pruned(hits[k], call[t].stamp)
  IN  /\ k # NoKey
      /\ ~Admits(q) /\ q # <<>>
      /\ hits' = [hits EXCEPT ![k] = q]
      /\ retry' = [key |-> k, stamp |-> call[t].stamp,
                   seconds |-> RetryAfter(q, call[t].stamp)]
      /\ call' = [call EXCEPT ![t] = Outside]
      /\ UNCHANGED <<limit, clock, admitted, sent, named>>

\* With a limit of 0 or less there is no q[0]: IndexError, answered 500.
Fail(t) ==
  LET k == call[t].key
      q == Pruned(hits[k], call[t].stamp)
  IN  /\ k # NoKey
      /\ ~Admits(q) /\ q = <<>>
      /\ hits' = [hits EXCEPT ![k] = q]
      /\ call' = [call EXCEPT ![t] = Outside]
      /\ UNCHANGED <<limit, clock, admitted, sent, named, retry>>

Tick ==
  /\ clock < EndOfTime
  /\ clock' = clock + 1
  /\ UNCHANGED <<limit, hits, call, admitted, sent, named, retry>>

Init ==
  /\ limit \in Limits
  /\ clock = 0
  /\ hits = [k \in Keys |-> <<>>]
  /\ call = [t \in Threads |-> Outside]
  /\ admitted = [k \in Keys |-> <<>>]
  /\ sent = [c \in Keys |-> {}]
  /\ named = {}
  /\ retry = [key |-> NoKey, stamp |-> 0, seconds |-> 0]

Next ==
  \/ \E t \in Threads : ReadClock(t) \/ Admit(t) \/ Refuse(t) \/ Fail(t)
  \/ Tick

Spec == Init /\ [][Next]_vars
----------------------------------------------------------------------------
(* Properties.                                                             *)

TypeOK ==
  /\ limit \in Int
  /\ clock \in Nat
  /\ hits \in [Keys -> Seq(Nat)]
  /\ call \in [Threads -> Calls]
  /\ admitted \in [Keys -> Seq(Nat)]
  /\ sent \in [Keys -> SUBSET Nat]
  /\ named \subseteq Clients
  /\ retry \in Refusal

\* How many checks under k with a clock reading in (end - Window, end] got in.
InWindow(k, end) ==
  Cardinality({i \in 1..Len(admitted[k]) :
                 admitted[k][i] > end - Window /\ admitted[k][i] <= end})

\* Late threads may slip through after another has pruned the deque with a
\* newer reading of the clock, but no more than one for each other thread: in
\* no window does an address get in more often than the limit plus that.  The
\* address is the one counted, be it who sends or not.  A limit of 0 lets
\* nobody in.
WindowLimit ==
  \A k \in Keys, end \in 0..clock :
    InWindow(k, end) <= IF limit > 0 THEN limit + Cardinality(Threads) - 1 ELSE 0

\* What counts against a client is its own, whatever header others send to the
\* program: nobody uses up another's creations.  Except where the host itself
\* names the client in another's request, as nginx does when a CF-Connecting-IP
\* reaches it that is not Cloudflare's.
OwnBudget ==
  \A c \in Clients \ named : \A i \in 1..Len(hits[c]) : hits[c][i] \in sent[c]

\* Retry-After is enough: a check at that time gets in, unless somebody else
\* at the address got in first, although the deque may be out of order and
\* the seconds are truncated.
RetrySuffices ==
  [][\A t \in Threads : Refuse(t) =>
       LET k == call[t].key IN
       Admits(Pruned(hits'[k], call[t].stamp + retry'.seconds * TicksPerSecond))
    ]_vars
============================================================================
