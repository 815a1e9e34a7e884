--------------------------- MODULE OneTimeSecret ---------------------------
(***************************************************************************)
(* What the service promises about a secret, with no table, threads,       *)
(* transactions or sweeper: it is offered, kept sealed, and leaves the     *)
(* server at most once and only before its deadline.  It may be lost at    *)
(* any time (a consume whose answer fails, an expiry, a restart), but what *)
(* was released or lost never comes back.  SecretStore implements this.    *)
(***************************************************************************)
EXTENDS Integers

CONSTANTS
  Secrets,
  Lifetimes   \* how long a client may ask a secret to live

VARIABLES
  now,        \* the time
  phase,      \* phase[b]: where secret b is in its life
  deadline    \* deadline[b]: when b expires, 0 while it is unborn

vars == <<now, phase, deadline>>

Init ==
  /\ now = 0
  /\ phase = [b \in Secrets |-> "unborn"]
  /\ deadline = [b \in Secrets |-> 0]

\* A client posts b, to live for t.
Offer(b, t) ==
  /\ phase[b] = "unborn"
  /\ phase' = [phase EXCEPT ![b] = "offered"]
  /\ deadline' = [deadline EXCEPT ![b] = now + t]
  /\ UNCHANGED now

\* The server keeps b.
Seal(b) ==
  /\ phase[b] = "offered"
  /\ phase' = [phase EXCEPT ![b] = "sealed"]
  /\ UNCHANGED <<now, deadline>>

\* The one reader of b gets it.
Release(b) ==
  /\ phase[b] = "sealed"
  /\ now < deadline[b]
  /\ phase' = [phase EXCEPT ![b] = "released"]
  /\ UNCHANGED <<now, deadline>>

\* The secrets B will not be read: refused, burned unread, expired, or lost.
Lose(B) ==
  /\ \A b \in B : phase[b] \in {"offered", "sealed"}
  /\ phase' = [b \in Secrets |-> IF b \in B THEN "gone" ELSE phase[b]]
  /\ UNCHANGED <<now, deadline>>

Tick == now' = now + 1 /\ UNCHANGED <<phase, deadline>>

Next ==
  \/ \E b \in Secrets :
       \/ \E t \in Lifetimes : Offer(b, t)
       \/ Seal(b)
       \/ Release(b)
  \/ \E B \in SUBSET Secrets : Lose(B)
  \/ Tick

Spec == Init /\ [][Next]_vars
============================================================================
