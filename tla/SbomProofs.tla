----------------------------- MODULE SbomProofs -----------------------------
(* The closure of scripts/gen_sbom.py is right for every lock file.        *)
EXTENDS Sbom, TLAPS

\* What the loop has done: the pairs P were worked off, their packages are in
\* seen, and what they require was worked off too or is still to be.
WorkedOff(P) ==
  /\ P \subseteq Pairs
  /\ lock.root \subseteq P \cup queue
  /\ \A p \in P : p.name \in lock.packages =>
       p.name \in seen /\ Requires(p) \subseteq P \cup queue
  /\ \A n \in seen : \E p \in P : p.name = n

\* Only what is needed gets into the list; nothing that is needed gets lost.
ClosureInv ==
  /\ TypeOK
  /\ queue \subseteq Reached
  /\ seen \subseteq Needed
  /\ \E P \in SUBSET Pairs : WorkedOff(P)
  /\ scope # Unwritten =>
       queue = {} /\ scope = [n \in lock.packages |->
                                IF n \in seen THEN "required" ELSE "optional"]

\* What a pair requires are pairs.
LEMMA RequiresPairs ==
  ASSUME lock \in Lock, NEW p \in Pairs
  PROVE  Requires(p) \subseteq Pairs
<1>1. p.name \in Names /\ p.extras \subseteq Extras
  BY DEF Pairs
<1>2. lock.deps[p.name] \subseteq Pairs
  BY <1>1 DEF Lock
<1>3. \A x \in p.extras : lock.optional[p.name][x] \subseteq Pairs
  BY <1>1 DEF Lock
<1> QED
  BY <1>2, <1>3 DEF Requires

\* The pairs that no closed set is without are closed themselves.
LEMMA ReachedClosed ==
  ASSUME lock \in Lock
  PROVE  Closed(Reached)
<1>1. lock.root \subseteq Pairs
  BY DEF Lock
<1>2. lock.root \subseteq Reached
  BY <1>1 DEF Reached, Closed
<1>3. ASSUME NEW p \in Reached, p.name \in lock.packages
      PROVE  Requires(p) \subseteq Reached
  <2>1. p \in Pairs
    BY DEF Reached
  <2>2. Requires(p) \subseteq Pairs
    BY <2>1, RequiresPairs
  <2>3. ASSUME NEW C \in SUBSET Pairs, Closed(C)
        PROVE  Requires(p) \subseteq C
    BY <1>3, <2>3 DEF Reached, Closed
  <2> QED
    BY <2>2, <2>3 DEF Reached
<1> QED
  BY <1>2, <1>3 DEF Closed

LEMMA ClosureInit == Init => ClosureInv
<1> SUFFICES ASSUME Init PROVE ClosureInv
  OBVIOUS
<1>1. lock \in Lock /\ queue = lock.root /\ seen = {} /\ scope = Unwritten
  BY LocksAssumption DEF Init
<1>2. lock.root \subseteq Reached
  BY <1>1, ReachedClosed DEF Closed
<1>3. WorkedOff({})
  BY <1>1 DEF WorkedOff
<1>4. TypeOK
  BY <1>1 DEF TypeOK, Lock
<1> QED
  BY <1>1, <1>2, <1>3, <1>4 DEF ClosureInv

\* The lock file stays, and with it what is required and what is reached.
LEMMA SameLock ==
  ASSUME lock' = lock
  PROVE  /\ \A p : Requires(p)' = Requires(p)
         /\ Reached' = Reached
         /\ Needed' = Needed
<1>1. \A p : Requires(p)' = Requires(p)
  BY DEF Requires
<1>2. \A C : Closed(C)' <=> Closed(C)
  BY <1>1 DEF Closed
<1>3. Reached' = Reached
  BY <1>2 DEF Reached
<1> QED
  BY <1>1, <1>3 DEF Needed

LEMMA ClosureNext == ClosureInv /\ [Next]_vars => ClosureInv'
<1> SUFFICES ASSUME ClosureInv, [Next]_vars PROVE ClosureInv'
  OBVIOUS
<1>0. lock \in Lock
  BY DEF ClosureInv, TypeOK
<1> PICK P \in SUBSET Pairs : WorkedOff(P)
  BY DEF ClosureInv
<1>1. ASSUME NEW p \in queue, Skip(p) PROVE ClosureInv'
  <2>1. lock' = lock /\ queue' = queue \ {p} /\ seen' = seen /\ scope' = scope
    BY <1>1 DEF Skip
  <2>2. p \in Pairs /\ p \in Reached
    BY <1>1 DEF ClosureInv, TypeOK
  <2>3. scope = Unwritten
    BY <1>1 DEF ClosureInv
  <2>4. p.name \in lock.packages => p.name \in seen /\ p.extras = {}
    BY <1>1 DEF Skip, Skipped
  <2>5. p.name \in lock.packages => Requires(p) \subseteq P \cup queue
    <3> SUFFICES ASSUME p.name \in lock.packages PROVE Requires(p) \subseteq P \cup queue
      OBVIOUS
    <3>1. PICK q \in P : q.name = p.name
      BY <2>4 DEF WorkedOff
    <3>2. Requires(p) = lock.deps[p.name]
      BY <2>4 DEF Requires
    <3>3. Requires(p) \subseteq Requires(q)
      BY <3>1, <3>2 DEF Requires
    <3> QED
      BY <3>1, <3>3 DEF WorkedOff
  <2> DEFINE Q == P \cup {p}
  <2>6. WorkedOff(Q)'
    <3>1. Q \subseteq Pairs /\ Q \cup queue' = P \cup queue
      BY <2>1, <2>2, <1>1
    <3>2. \A q : Requires(q)' = Requires(q)
      BY <2>1, SameLock
    <3>3. ASSUME NEW q \in Q, q.name \in lock.packages
          PROVE  q.name \in seen /\ Requires(q) \subseteq P \cup queue
      BY <3>3, <2>4, <2>5 DEF WorkedOff
    <3>4. \A n \in seen : \E q \in Q : q.name = n
      BY DEF WorkedOff
    <3>5. lock.root \subseteq P \cup queue
      BY DEF WorkedOff
    <3> HIDE DEF Q
    <3> QED
      BY <2>1, <3>1, <3>2, <3>3, <3>4, <3>5 DEF WorkedOff
  <2>7. Q \in SUBSET Pairs
    BY <2>2
  <2>8. TypeOK'
    BY <2>1 DEF ClosureInv, TypeOK
  <2> HIDE DEF Q
  <2>9. Reached' = Reached /\ Needed' = Needed
    BY <2>1, SameLock
  <2> QED
    BY <2>1, <2>3, <2>6, <2>7, <2>8, <2>9 DEF ClosureInv
<1>2. ASSUME NEW p \in queue, Visit(p) PROVE ClosureInv'
  <2>1. /\ lock' = lock /\ scope' = scope /\ seen' = seen \cup {p.name}
        /\ queue' = (queue \ {p}) \cup Requires(p)
    BY <1>2 DEF Visit
  <2>2. p \in Pairs /\ p \in Reached /\ p.name \in lock.packages
    BY <1>2 DEF ClosureInv, TypeOK, Visit, Skipped
  <2>3. scope = Unwritten
    BY <1>2 DEF ClosureInv
  <2>4. Requires(p) \subseteq Pairs /\ Requires(p) \subseteq Reached
    BY <1>0, <2>2, RequiresPairs, ReachedClosed DEF Closed
  <2>5. p.name \in Needed
    BY <2>2 DEF Needed
  <2> DEFINE Q == P \cup {p}
  <2>6. WorkedOff(Q)'
    <3>1. Q \subseteq Pairs /\ Q \cup queue' = P \cup queue \cup Requires(p)
      BY <2>1, <2>2, <1>2
    <3>2. \A q : Requires(q)' = Requires(q)
      BY <2>1, SameLock
    <3>3. ASSUME NEW q \in Q, q.name \in lock.packages
          PROVE  q.name \in seen' /\ Requires(q) \subseteq P \cup queue \cup Requires(p)
      BY <3>3, <2>1 DEF WorkedOff
    <3>4. \A n \in seen' : \E q \in Q : q.name = n
      BY <2>1 DEF WorkedOff
    <3>5. lock.root \subseteq P \cup queue \cup Requires(p)
      BY DEF WorkedOff
    <3> HIDE DEF Q
    <3> QED
      BY <2>1, <3>1, <3>2, <3>3, <3>4, <3>5 DEF WorkedOff
  <2>7. Q \in SUBSET Pairs
    BY <2>2
  <2>8. TypeOK'
    BY <2>1, <2>2, <2>3, <2>4 DEF ClosureInv, TypeOK
  <2> HIDE DEF Q
  <2>9. Reached' = Reached /\ Needed' = Needed
    BY <2>1, SameLock
  <2> QED
    BY <2>1, <2>3, <2>4, <2>5, <2>6, <2>7, <2>8, <2>9 DEF ClosureInv
<1>3. CASE Write
  <2>1. /\ lock' = lock /\ queue' = queue /\ seen' = seen /\ queue = {}
        /\ scope' = [n \in lock.packages |-> IF n \in seen THEN "required" ELSE "optional"]
    BY <1>3 DEF Write
  <2>2. WorkedOff(P)'
    BY <2>1, SameLock DEF WorkedOff
  <2>3. TypeOK'
    BY <2>1 DEF ClosureInv, TypeOK
  <2> QED
    BY <2>1, <2>2, <2>3, SameLock DEF ClosureInv
<1>4. CASE UNCHANGED vars
  <2>1. lock' = lock /\ queue' = queue /\ seen' = seen /\ scope' = scope
    BY <1>4 DEF vars
  <2>2. WorkedOff(P)'
    BY <2>1, SameLock DEF WorkedOff
  <2>3. TypeOK'
    BY <2>1 DEF ClosureInv, TypeOK
  <2> QED
    BY <2>1, <2>2, <2>3, SameLock DEF ClosureInv
<1> QED
  BY <1>1, <1>2, <1>3, <1>4 DEF Next

\* With nothing left to do the pairs worked off are closed: everything that is
\* needed was seen.
LEMMA ClosureIsRight == ClosureInv => ScopeRight
<1> SUFFICES ASSUME ClosureInv, queue = {}, scope # Unwritten
             PROVE  {n \in lock.packages : scope[n] = "required"} = Needed
  BY DEF ScopeRight
<1>1. PICK P \in SUBSET Pairs : WorkedOff(P)
  BY DEF ClosureInv
<1>2. Closed(P)
  BY <1>1 DEF WorkedOff, Closed
<1>3. Reached \subseteq P
  BY <1>2 DEF Reached
<1>4. Needed \subseteq seen
  BY <1>1, <1>3 DEF Needed, WorkedOff
<1>5. seen = Needed /\ seen \subseteq lock.packages
  BY <1>4 DEF ClosureInv, TypeOK
<1>6. {n \in lock.packages : scope[n] = "required"} = seen
  BY <1>5 DEF ClosureInv
<1> QED
  BY <1>5, <1>6

\* The loop keeps to the packages of the lock file.
THEOREM SbomTyped == Spec => []TypeOK
<1>1. ClosureInv => TypeOK
  BY DEF ClosureInv
<1> QED
  BY <1>1, ClosureInit, ClosureNext, PTL DEF Spec

\* Whatever the lock file and the order of its pairs, when the script writes the
\* scopes, required are exactly the packages the project needs.
THEOREM ScopesAreRight == Spec => []ScopeRight
  BY ClosureInit, ClosureNext, ClosureIsRight, PTL DEF Spec
=============================================================================
