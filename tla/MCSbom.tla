------------------------------- MODULE MCSbom -------------------------------
(* Lock files of three packages and one extra: every graph in which a       *)
(* package has one dependency at most, and one more with its extra.  The    *)
(* project has one or two; c may be missing.                               *)
EXTENDS Sbom, FiniteSets

CONSTANTS a, b, c

AtMostOne == {{}} \cup {{p} : p \in Pairs}

Plain(n) == [name |-> n, extras |-> {}]

SmallLocks ==
  {[root     |-> root,
    packages |-> packages,
    deps     |-> [n \in Names |-> IF n = a THEN da ELSE IF n = b THEN db ELSE dc],
    optional |-> [n \in Names |-> [x \in Extras |-> IF n = a THEN oa ELSE ob]]] :
     root \in {{Plain(b)}, {Plain(a), [name |-> b, extras |-> Extras]}},
     packages \in {Names, Names \ {c}},
     da \in AtMostOne, db \in AtMostOne, dc \in {{}, {Plain(a)}},
     oa \in AtMostOne, ob \in {{}, {[name |-> a, extras |-> Extras]}}}
=============================================================================
