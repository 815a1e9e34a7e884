-------------------------------- MODULE Sbom ---------------------------------
(***************************************************************************)
(* scripts/gen_sbom.py: which packages of uv.lock the service needs at run *)
(* time (scope "required"), and which are for development only.            *)
(*                                                                         *)
(* runtime_closure() works off a list of (name, extras) pairs.  A package  *)
(* that was seen is looked at again for its extras.  The list is a set     *)
(* here, of which any pair may be next: the order is that of the file, and *)
(* a pair that stands in the list twice is worked off twice to no effect.  *)
(***************************************************************************)
CONSTANTS
  Names,     \* of packages
  Extras,    \* of any package
  Locks      \* what uv.lock may be

\* What a dependency names.
Pairs == [name : Names, extras : SUBSET Extras]

\* The lock file: the dependencies of the project itself, the packages, and
\* theirs.
Lock == [root     : SUBSET Pairs,
         packages : SUBSET Names,
         deps     : [Names -> SUBSET Pairs],
         optional : [Names -> [Extras -> SUBSET Pairs]]]

ASSUME LocksAssumption == \A l \in Locks : l \in Lock

VARIABLES
  lock,
  queue,     \* pairs to look at
  seen,      \* names found so far; at last the result
  scope      \* what main() writes; empty until the loop is done

vars == <<lock, queue, seen, scope>>

Unwritten == <<>>
----------------------------------------------------------------------------
\* What the pair p requires: the package's dependencies and those of the extras.
Requires(p) ==
  lock.deps[p.name] \cup UNION {lock.optional[p.name][x] : x \in p.extras}

\* Mutants: a package is never looked at twice; one that was seen is looked at
\* again in any case; a name without a package is taken for one.
SkippedSeen(p)    == p.name \notin lock.packages \/ p.name \in seen
SkippedUnknown(p) == p.name \notin lock.packages
SkippedKnown(p)   == p.name \in seen /\ p.extras = {}

\* The two continues of the loop.
Skipped(p) ==
  \/ p.name \notin lock.packages
  \/ p.name \in seen /\ p.extras = {}

Skip(p) ==
  /\ Skipped(p)
  /\ queue' = queue \ {p}
  /\ UNCHANGED <<lock, seen, scope>>

Visit(p) ==
  /\ ~Skipped(p)
  /\ seen' = seen \cup {p.name}
  /\ queue' = (queue \ {p}) \cup Requires(p)
  /\ UNCHANGED <<lock, scope>>

\* The list is empty: main() writes a component for every package.
Write ==
  /\ queue = {}
  /\ scope = Unwritten
  /\ scope' = [n \in lock.packages |-> IF n \in seen THEN "required" ELSE "optional"]
  /\ UNCHANGED <<lock, queue, seen>>

Init ==
  /\ lock \in Locks
  /\ queue = lock.root
  /\ seen = {}
  /\ scope = Unwritten

Next == (\E p \in queue : Skip(p) \/ Visit(p)) \/ Write

Spec == Init /\ [][Next]_vars

FairSpec == Spec /\ WF_vars(Next)
----------------------------------------------------------------------------
(* Properties.                                                             *)

\* Nothing is found that the lock file has no package for.
TypeOK ==
  /\ lock \in Lock
  /\ queue \subseteq Pairs
  /\ seen \subseteq lock.packages
  /\ scope # Unwritten => scope \in [lock.packages -> {"required", "optional"}]

\* A set of pairs that has what the project depends on, and with a pair of a
\* package what it requires.
Closed(C) ==
  /\ lock.root \subseteq C
  /\ \A p \in C : p.name \in lock.packages => Requires(p) \subseteq C

\* The pairs no such set is without, and the packages they name.
Reached == {p \in Pairs : \A C \in SUBSET Pairs : Closed(C) => p \in C}
Needed  == {p.name : p \in Reached} \cap lock.packages

\* "runtime vs dev scope resolved from the uv.lock graph" (the script's first
\* lines): required is what the project needs, its dependencies need, or an extra
\* that one of them asks for, and nothing else, in whatever order the pairs come.
ScopeRight ==
  (queue = {} /\ scope # Unwritten) =>
     {n \in lock.packages : scope[n] = "required"} = Needed

\* Pairs with extras that ask for each other in a circle.
Circle ==
  \E D \in SUBSET {p \in Reached : p.extras # {} /\ p.name \in lock.packages} :
    D # {} /\ \A p \in D : Requires(p) \cap D # {}

\* The script ends, whatever circles the dependencies make, unless one of them is
\* made of extras: those pairs are never skipped.
EndsUnlessCircle ==
  /\ ~Circle => <>(scope # Unwritten)
  /\ Circle => [](scope = Unwritten)
=============================================================================
