------------------------------ MODULE Payload -------------------------------
(***************************************************************************)
(* The way of one create through the size checks: the page, the guard on   *)
(* the request body, the schema, and the handler.                          *)
(***************************************************************************)
EXTENDS Integers

CONSTANTS
  MaxBytes,     \* SECRET_MAX_BYTES
  Lengths,      \* lengths of a plaintext in bytes
  Envelopes     \* lengths of the JSON around the ciphertext

ASSUME MaxBytesAssumption == MaxBytes \in Nat
ASSUME LengthsAssumption ==
  Lengths \subseteq Nat /\ Envelopes \subseteq {e \in Nat : e <= 1024}

VARIABLES
  n,         \* the length of the plaintext
  envelope,
  byPage,    \* does it come from the page?
  declared,  \* content-length, 0 if there is none
  at         \* where it is; at last "stored" or a status

vars == <<n, envelope, byPage, declared, at>>

Kb   == 1024
Tag  == 16
Base64(bytes) == (4 * bytes + 2) \div 3       \* without padding
Decoded(chars) == (3 * chars) \div 4

\* data-max-bytes is max_kb * 1024, and a 0 there makes the page take 256 KB.
PageMax == LET offered == (MaxBytes \div Kb) * Kb IN
           IF offered = 0 THEN 262144 ELSE offered

\* The cap of _body_size_guard.
Cap == (MaxBytes * 4) \div 3 + 131072

\* The field ciphertext of CreateEncrypted.
FieldMin == 23
FieldMax == 360000

Ciphertext == Base64(n + Tag)

\* An empty text is stopped by "required", and encrypted to 16 bytes otherwise.
Init ==
  /\ n \in Lengths
  /\ envelope \in Envelopes
  /\ byPage \in BOOLEAN
  /\ declared \in IF byPage THEN {Ciphertext + envelope} ELSE {Ciphertext + envelope, 0}
  /\ at = IF byPage THEN "page" ELSE "guard"

\* Mutant: the page counts characters, of up to 4 bytes.
PageChecksCharacters ==
  /\ at = "page"
  /\ at' = IF n > 0 /\ n \div 4 <= PageMax THEN "guard" ELSE "oversize"
  /\ UNCHANGED <<n, envelope, byPage, declared>>

PageChecks ==
  /\ at = "page"
  /\ at' = IF n > 0 /\ n <= PageMax THEN "guard" ELSE "oversize"
  /\ UNCHANGED <<n, envelope, byPage, declared>>

GuardChecks ==
  /\ at = "guard"
  /\ at' = IF declared > Cap THEN "413" ELSE "schema"
  /\ UNCHANGED <<n, envelope, byPage, declared>>

SchemaChecks ==
  /\ at = "schema"
  /\ at' = IF FieldMin <= Ciphertext /\ Ciphertext <= FieldMax THEN "handler" ELSE "422"
  /\ UNCHANGED <<n, envelope, byPage, declared>>

\* Mutant: the tag is allowed for twice.
HandlerAllowsTwoTags ==
  LET bytes == Decoded(Ciphertext) IN
  /\ at = "handler"
  /\ at' = IF bytes < Tag + 1 THEN "422"
           ELSE IF bytes > MaxBytes + Tag + Tag THEN "413" ELSE "stored"
  /\ UNCHANGED <<n, envelope, byPage, declared>>

HandlerChecks ==
  LET bytes == Decoded(Ciphertext) IN
  /\ at = "handler"
  /\ at' = IF bytes < Tag + 1 THEN "422"
           ELSE IF bytes > MaxBytes + Tag THEN "413" ELSE "stored"
  /\ UNCHANGED <<n, envelope, byPage, declared>>

Next == PageChecks \/ GuardChecks \/ SchemaChecks \/ HandlerChecks

Spec == Init /\ [][Next]_vars
----------------------------------------------------------------------------
(* Properties.                                                             *)

\* What the page lets pass, the server stores: the floor to kilobytes, the
\* growth by base64, the envelope, the tag and the fixed field length agree.
PageAgrees == byPage => at \notin {"413", "422"}

\* What is stored has at least a byte and at most MaxBytes, also from a client
\* that is no page and declares no length.
StoredFits == at = "stored" => n \in 1..MaxBytes
=============================================================================
