----------------------------- MODULE ShellProofs -----------------------------
(***************************************************************************)
(* Theorems about Shell and what it is made of: the size limits of a       *)
(* create, the language of a page, and the headers of an answer.           *)
(***************************************************************************)
EXTENDS Shell, TLAPS

Sequence == INSTANCE SequenceTheorems
----------------------------------------------------------------------------
(* The size limits (Payload).                                              *)

LEMMA Arithmetic ==
  ASSUME NEW m \in Nat
  PROVE  /\ Base64(m) \in Nat
         /\ Decoded(Base64(m)) = m
         /\ 4 * m <= 3 * Base64(m) /\ 3 * Base64(m) <= 4 * m + 2
BY DEF Base64, Decoded

TypeInv ==
  /\ n \in Nat
  /\ envelope \in Nat /\ envelope <= 1024
  /\ byPage \in BOOLEAN
  /\ declared \in Nat
  /\ byPage => declared = Ciphertext + envelope

\* What holds of a create at each stage, for what the checks before it let by.
Stages ==
  /\ TypeInv
  /\ at \in {"page", "guard", "schema", "handler", "stored", "oversize", "413", "422"}
  /\ byPage /\ at \notin {"page", "oversize"} => n \in 1..PageMax
  /\ at = "stored" => n \in 1..MaxBytes

LEMMA StagesInit == Init => Stages
<1> SUFFICES ASSUME Init PROVE Stages
  OBVIOUS
<1>1. n \in Nat /\ envelope \in Nat /\ envelope <= 1024
  BY LengthsAssumption DEF Init
<1>2. n + Tag \in Nat
  BY <1>1 DEF Tag
<1>3. Ciphertext \in Nat
  BY <1>2, Arithmetic DEF Ciphertext
<1>4. declared \in Nat /\ (byPage => declared = Ciphertext + envelope)
  BY <1>1, <1>3 DEF Init
<1> QED
  BY <1>1, <1>4 DEF Init, Stages, TypeInv

LEMMA StagesNext == Stages /\ [Next]_vars => Stages'
<1> SUFFICES ASSUME Stages, [Next]_vars PROVE Stages'
  OBVIOUS
<1> USE MaxBytesAssumption
<1>1. CASE UNCHANGED vars
  BY <1>1 DEF vars, Stages, TypeInv, Ciphertext
<1>2. TypeInv' \/ UNCHANGED vars
  BY DEF Next, PageChecks, GuardChecks, SchemaChecks, HandlerChecks, Stages,
         TypeInv, Ciphertext
<1>3. CASE PageChecks
  BY <1>2, <1>3 DEF PageChecks, Stages, TypeInv, PageMax, Kb, vars
<1>4. CASE GuardChecks
  BY <1>2, <1>4 DEF GuardChecks, Stages, TypeInv, vars
<1>5. CASE SchemaChecks
  BY <1>2, <1>5 DEF SchemaChecks, Stages, TypeInv, vars
<1>6. CASE HandlerChecks
  <2>1. n + Tag \in Nat
    BY DEF Stages, TypeInv, Tag
  <2>2. Decoded(Ciphertext) = n + Tag
    BY <2>1, Arithmetic DEF Ciphertext
  <2> QED
    BY <1>2, <1>6, <2>2 DEF HandlerChecks, Stages, TypeInv, Tag, vars
<1> QED
  BY <1>1, <1>3, <1>4, <1>5, <1>6 DEF Next

\* The limits of the code meet: a configuration that is a kilobyte at least and
\* whose largest ciphertext fits FieldMax.
Configured == MaxBytes >= 1024 /\ MaxBytes <= 269984

LEMMA PagePasses ==
  ASSUME Configured, Stages, byPage, n \in 1..PageMax
  PROVE  /\ n <= MaxBytes
         /\ declared <= Cap
         /\ FieldMin <= Ciphertext /\ Ciphertext <= FieldMax
         /\ Decoded(Ciphertext) = n + Tag
<1> DEFINE offered == (MaxBytes \div 1024) * 1024
<1>1. offered >= 1024 /\ offered <= MaxBytes
  BY SMT, MaxBytesAssumption DEF Configured
<1>2. PageMax = offered
  BY SMT, MaxBytesAssumption, <1>1 DEF PageMax, Kb, Configured
<1>3. n \in Nat /\ n <= MaxBytes /\ n >= 1
  BY SMT, <1>1, <1>2, MaxBytesAssumption DEF Configured, Stages, TypeInv
<1>4. /\ Ciphertext \in Nat
      /\ Decoded(Ciphertext) = n + 16
      /\ 4 * (n + 16) <= 3 * Ciphertext
      /\ 3 * Ciphertext <= 4 * (n + 16) + 2
  BY <1>3, Arithmetic DEF Ciphertext, Tag
<1>5. FieldMin <= Ciphertext /\ Ciphertext <= FieldMax
  BY SMT, <1>3, <1>4, MaxBytesAssumption DEF Configured, FieldMin, FieldMax
<1>6. declared <= Cap
  <2>1. declared = Ciphertext + envelope /\ envelope <= 1024
    BY DEF Stages, TypeInv
  <2>2. 3 * ((MaxBytes * 4) \div 3) >= 4 * MaxBytes - 2
    BY SMT, MaxBytesAssumption DEF Configured
  <2> QED
    BY SMT, <1>3, <1>4, <2>1, <2>2, MaxBytesAssumption DEF Cap, Configured, Stages, TypeInv
<1> QED
  BY <1>3, <1>4, <1>5, <1>6 DEF Tag

Agreed == Stages /\ PageAgrees

LEMMA AgreedNext == ASSUME Configured PROVE Agreed /\ [Next]_vars => Agreed'
<1> SUFFICES ASSUME Agreed, [Next]_vars PROVE PageAgrees'
  BY StagesNext DEF Agreed
<1>1. CASE UNCHANGED vars
  BY <1>1 DEF vars, Agreed, PageAgrees
<1>2. CASE PageChecks
  BY <1>2 DEF PageChecks, PageAgrees
<1>3. CASE GuardChecks
  <2> SUFFICES ASSUME byPage PROVE declared <= Cap
    <3>1. Cap \in Int /\ declared \in Nat
      BY MaxBytesAssumption DEF Cap, Agreed, Stages, TypeInv
    <3> QED
      BY <1>3, <3>1 DEF GuardChecks, PageAgrees
  <2>1. n \in 1..PageMax
    BY <1>3 DEF GuardChecks, Agreed, Stages
  <2> QED
    BY <2>1, PagePasses DEF Agreed
<1>4. CASE SchemaChecks
  <2> SUFFICES ASSUME byPage PROVE FieldMin <= Ciphertext /\ Ciphertext <= FieldMax
    BY <1>4 DEF SchemaChecks, PageAgrees
  <2>1. n \in 1..PageMax
    BY <1>4 DEF SchemaChecks, Agreed, Stages
  <2> QED
    BY <2>1, PagePasses DEF Agreed
<1>5. CASE HandlerChecks
  <2> SUFFICES ASSUME byPage PROVE at' = "stored"
    BY <1>5 DEF HandlerChecks, PageAgrees
  <2>1. n \in 1..PageMax
    BY <1>5 DEF HandlerChecks, Agreed, Stages
  <2>2. n <= MaxBytes /\ Decoded(Ciphertext) = n + Tag
    BY <2>1, PagePasses DEF Agreed
  <2>3. n \in Nat /\ n >= 1
    BY <2>1 DEF Agreed, Stages, TypeInv
  <2> QED
    BY SMT, <1>5, <2>2, <2>3, MaxBytesAssumption DEF HandlerChecks, Tag
<1> QED
  BY <1>1, <1>2, <1>3, <1>4, <1>5 DEF Next

----------------------------------------------------------------------------
(* The language (Language).                                                *)

USE LanguagesAssumption DEF LanguagesAssumption

HeaderTyped ==
  /\ header \in Seq(Accept!Parts)
  /\ i \in 1..Len(header) + 1
  /\ best \in Supported
  /\ best_q \in Int

PicksInv == HeaderTyped /\ PicksBest

LEMMA PicksInit == Accept!Init => PicksInv
<1> SUFFICES ASSUME Accept!Init PROVE PicksInv
  OBVIOUS
<1>1. header \in Seq(Accept!Parts)
  <2> PICK k \in 0..MaxParts : header \in [1..k -> Accept!Parts]
    BY DEF Accept!Init
  <2> QED
    OBVIOUS
<1> QED
  BY <1>1 DEF Accept!Init, PicksInv, HeaderTyped, PicksBest, Accept!PicksBest, Accept!NoneIn

LEMMA PicksNext == PicksInv /\ [Accept!Step]_accepted => PicksInv'
<1> SUFFICES ASSUME PicksInv, [Accept!Step]_accepted PROVE PicksInv'
  OBVIOUS
<1>1. CASE UNCHANGED accepted
  BY <1>1 DEF accepted, PicksInv, HeaderTyped, PicksBest, Accept!PicksBest
<1>2. CASE Accept!Step
  <2> DEFINE part == header[i]
  <2>1. /\ header \in Seq(Accept!Parts) /\ i \in 1..Len(header) /\ i' = i + 1
        /\ header' = header
    <3>1. i <= Len(header) /\ i' = i + 1 /\ header' = header
      BY <1>2 DEF Accept!Step
    <3>2. header \in Seq(Accept!Parts) /\ i \in 1..Len(header) + 1 /\ Len(header) \in Nat
      BY DEF PicksInv, HeaderTyped
    <3> QED
      BY <3>1, <3>2
  <2>2. \A j \in 1..Len(header) : header[j] \in Accept!Parts /\ header[j].q \in Int
    <3>1. \A j \in 1..Len(header) : header[j] \in Accept!Parts
      BY <2>1
    <3>2. \A entry \in Accept!Parts : entry.q \in Int
      BY DEF Accept!Parts
    <3> QED
      BY <3>1, <3>2
  <2>3. i' - 1 = i /\ i - 1 \in Nat
    BY <2>1
  <2>4. CASE Accept!Better(part)
    <3>1. best' = part.code /\ best_q' = part.q
      BY <1>2, <2>4 DEF Accept!Step
    <3>2. part.code \in Supported /\ part.q > best_q /\ part.q \in Int
      BY <2>1, <2>2, <2>4 DEF Accept!Better
    <3>3. /\ best_q >= 0
          /\ \A j \in 1..i - 1 : header[j].code \in Supported => header[j].q <= best_q
      <4>1. CASE best_q = 0 /\ Accept!NoneIn(header, i - 1)
        BY <4>1 DEF Accept!NoneIn
      <4>2. ASSUME NEW k \in 1..i - 1, Accept!Chosen(header, k, i - 1), best_q = header[k].q
            PROVE  /\ best_q >= 0
                   /\ \A j \in 1..i - 1 : header[j].code \in Supported => header[j].q <= best_q
        BY <2>1, <2>2, <4>2 DEF Accept!Chosen
      <4> QED
        BY <4>1, <4>2 DEF PicksInv, PicksBest, Accept!PicksBest
    <3>4. part.q > 0
      BY <3>2, <3>3 DEF PicksInv, HeaderTyped
    <3>5. \A j \in 1..i : header[j].code \in Supported =>
            header[j].q < part.q \/ (header[j].q = part.q /\ j >= i)
      <4> TAKE j \in 1..i
      <4>1. CASE j = i
        BY <2>1, <2>2, <4>1
      <4>2. CASE j # i
        BY <2>1, <2>2, <3>2, <3>3, <4>2 DEF PicksInv, HeaderTyped
      <4> QED
        BY <4>1, <4>2
    <3>6. Accept!Chosen(header, i, i)
      BY <2>1, <3>2, <3>4, <3>5 DEF Accept!Chosen
    <3>7. PicksBest'
      BY <2>1, <2>3, <3>1, <3>6 DEF PicksBest, Accept!PicksBest
    <3> QED
      BY <2>1, <3>1, <3>2, <3>7 DEF PicksInv, HeaderTyped
  <2>5. CASE ~Accept!Better(part)
    <3>1. best' = best /\ best_q' = best_q
      BY <1>2, <2>5 DEF Accept!Step
    <3>2. header[i].code \in Supported => header[i].q <= best_q
      BY <2>1, <2>2, <2>5 DEF Accept!Better, PicksInv, HeaderTyped
    <3>3. ASSUME NEW k \in 1..i - 1, Accept!Chosen(header, k, i - 1),
                 best = header[k].code, best_q = header[k].q
          PROVE  Accept!Chosen(header, k, i)
      <4>1. \A j \in 1..i : header[j].code \in Supported =>
              header[j].q < header[k].q \/ (header[j].q = header[k].q /\ j >= k)
        <5> TAKE j \in 1..i
        <5>1. CASE j = i
          BY <2>1, <2>2, <3>2, <3>3, <5>1
        <5>2. CASE j # i
          BY <2>1, <2>2, <3>3, <5>2 DEF Accept!Chosen
        <5> QED
          BY <5>1, <5>2
      <4> QED
        BY <2>1, <3>3, <4>1 DEF Accept!Chosen
    <3>4. ASSUME best = Default, best_q = 0,
                 Accept!NoneIn(header, i - 1)
          PROVE  Accept!NoneIn(header, i)
      BY <2>1, <3>2, <3>4 DEF Accept!NoneIn
    <3>5. PicksBest'
      BY <2>1, <2>3, <3>1, <3>3, <3>4 DEF PicksInv, PicksBest, Accept!PicksBest
    <3> QED
      BY <2>1, <3>1, <3>5 DEF PicksInv, HeaderTyped
  <2> QED
    BY <2>4, <2>5
<1> QED
  BY <1>1, <1>2

----------------------------------------------------------------------------
(* A request on its way in.  What is no create has the checks of Payload   *)
(* behind it but for the guard.                                            *)

InwardInv ==
  /\ path \in Paths /\ post \in BOOLEAN
  /\ IF path = "create"
       THEN post /\ Stages
       ELSE byPage = FALSE /\ at \in {"guard", "413", "router"}
                           /\ (at = "413" => path = "api")

LEMMA InwardInit == ShellInit => InwardInv
<1> SUFFICES ASSUME ShellInit PROVE InwardInv
  OBVIOUS
<1>1. path \in Paths /\ post \in BOOLEAN
  BY DEF ShellInit
<1>2. CASE path = "create"
  BY <1>1, <1>2, StagesInit DEF ShellInit, InwardInv
<1>3. CASE path # "create"
  BY <1>1, <1>3 DEF ShellInit, InwardInv
<1> QED
  BY <1>2, <1>3

LEMMA InwardNext == InwardInv /\ [ShellNext]_shellVars => InwardInv'
<1> SUFFICES ASSUME InwardInv, [ShellNext]_shellVars PROVE InwardInv'
  OBVIOUS
<1>1. path' = path /\ post' = post
  BY DEF ShellNext, Inward, Outcome, Negotiate, Respond, shellVars, accepted
<1>2. Check \/ Guard \/ UNCHANGED vars
  BY DEF ShellNext, Inward, Outcome, Negotiate, Respond, shellVars, vars
<1>3. CASE path = "create"
  <2>1. [Next]_vars
    BY <1>2, <1>3 DEF Check, Guard
  <2> QED
    BY <1>1, <1>3, <2>1, StagesNext DEF InwardInv
<1>4. CASE path # "create"
  <2>1. Guard \/ UNCHANGED vars
    BY <1>2, <1>4 DEF Check
  <2> QED
    BY <1>1, <1>4, <2>1 DEF InwardInv, Guard, vars
<1> QED
  BY <1>3, <1>4

LEMMA InwardAlways == ShellSpec => []InwardInv
BY InwardInit, InwardNext, PTL DEF ShellSpec

\* Whatever client sends it, and whatever length it declares: what is stored is
\* at least a byte and at most MaxBytes, for every MaxBytes.
THEOREM StoredAlwaysFits == ShellSpec => []StoredFits
<1>1. InwardInv => StoredFits
  BY DEF InwardInv, Stages, StoredFits
<1> QED
  BY <1>1, InwardAlways, PTL

\* What the page lets pass no check of the server refuses, for every
\* configuration between a kilobyte and what the fixed field length allows.
THEOREM PageAndServerAgree ==
  ASSUME Configured
  PROVE  ShellSpec => []PageAgrees
<1>1. ShellInit => PageAgrees
  BY DEF ShellInit, Init, PageAgrees
<1>2. InwardInv /\ PageAgrees /\ [ShellNext]_shellVars => PageAgrees'
  <2> SUFFICES ASSUME InwardInv, PageAgrees, [ShellNext]_shellVars PROVE PageAgrees'
    OBVIOUS
  <2>1. Check \/ Guard \/ UNCHANGED vars
    BY DEF ShellNext, Inward, Outcome, Negotiate, Respond, shellVars, vars
  <2>2. CASE path = "create"
    <3>1. Agreed /\ [Next]_vars
      BY <2>1, <2>2 DEF Check, Guard, InwardInv, Agreed
    <3> QED
      BY <3>1, AgreedNext DEF Agreed
  <2>3. CASE path # "create"
    BY <2>1, <2>3 DEF Check, Guard, InwardInv, PageAgrees, vars
  <2> QED
    BY <2>2, <2>3
<1> QED
  BY <1>1, <1>2, InwardAlways, PTL DEF ShellSpec
----------------------------------------------------------------------------
(* The answer.                                                             *)

LEMMA AcceptedStep == [ShellNext]_shellVars => [Accept!Step]_accepted
BY DEF ShellNext, Inward, Outcome, Negotiate, Respond, shellVars

\* negotiate() finds the supported language of the highest positive weight, the
\* first of several, and English if there is none, for headers of any length.
THEOREM AlwaysPicksBest == ShellSpec => []PicksBest
<1>1. ShellInit => PicksInv
  BY PicksInit DEF ShellInit
<1>2. PicksInv /\ [ShellNext]_shellVars => PicksInv'
  BY PicksNext, AcceptedStep
<1>3. PicksInv => PicksBest
  BY DEF PicksInv
<1> QED
  BY <1>1, <1>2, <1>3, PTL DEF ShellSpec

\* The answers of each layer.
OutcomeInv ==
  \/ outcome = None
  \/ /\ outcome.layer \in {"guard", "exceptions", "router", "server_error"}
     /\ outcome.layer = "server_error" => outcome.status = 500
     /\ outcome.body = "html" =>
          path \notin Api /\ outcome.status \in {200, 404, 405, 500}

\* What the middleware made of it, and what the template found.
Answer ==
  [status  |-> outcome.status,
   body    |-> outcome.body,
   lang    |-> IF outcome.body = "html" THEN PageLanguage(outcome.status) ELSE Default,
   headers |-> IF Depth("headers") < Depth(outcome.layer) THEN Headers ELSE {}]

ResponseInv ==
  response # None =>
    /\ outcome # None /\ response = Answer
    /\ outcome.body = "html" => i > Len(header)

\* In front of the middleware that adds the headers there is server_error only.
LEMMA Layers ==
  /\ ~(Depth("headers") < Depth("server_error"))
  /\ \A l \in {"guard", "exceptions", "router"} : Depth("headers") < Depth(l)
<1>1. Reverse(Registered) = <<"headers", "guard">>
  <2>1. Len(Registered) = 2 /\ Registered[1] = "guard" /\ Registered[2] = "headers"
    BY DEF Registered
  <2>2. /\ DOMAIN Reverse(Registered) = 1..2
        /\ Reverse(Registered)[1] = "headers" /\ Reverse(Registered)[2] = "guard"
    BY <2>1 DEF Reverse
  <2>3. Reverse(Registered) = [k \in 1..2 |-> Reverse(Registered)[k]]
    BY <2>1 DEF Reverse
  <2>4. Reverse(Registered) \in Seq({"headers", "guard"})
    BY <2>2, <2>3
  <2> QED
    BY <2>2, <2>4
<1>2. /\ DOMAIN Stack = 1..5
      /\ Stack[1] = "server_error" /\ Stack[2] = "headers" /\ Stack[3] = "guard"
      /\ Stack[4] = "exceptions" /\ Stack[5] = "router"
  <2> DEFINE Names == {"server_error", "headers", "guard", "exceptions", "router"}
  <2>1. PICK front : front = <<"server_error">> \o <<"headers", "guard">>
    OBVIOUS
  <2>2. /\ front \in Seq(Names) /\ Len(front) = 3
        /\ front[1] = "server_error" /\ front[2] = "headers" /\ front[3] = "guard"
    BY <2>1
  <2>3. Stack = front \o <<"exceptions", "router">>
    BY <1>1, <2>1 DEF Stack
  <2>4. PICK back : back = <<"exceptions", "router">>
    OBVIOUS
  <2>5. /\ back \in Seq(Names) /\ Len(back) = 2
        /\ back[1] = "exceptions" /\ back[2] = "router"
    BY <2>4
  <2>6. Stack = front \o back
    BY <2>3, <2>4
  <2>7. /\ Stack \in Seq(Names) /\ Len(Stack) = Len(front) + Len(back)
        /\ \A d \in 1..Len(front) + Len(back) :
             Stack[d] = IF d <= Len(front) THEN front[d] ELSE back[d - Len(front)]
    <3> HIDE DEF Names
    <3> QED
      BY <2>2, <2>5, <2>6, Sequence!ConcatProperties
  <2>8. /\ Len(Stack) = 5
        /\ \A d \in 1..5 : Stack[d] = IF d <= 3 THEN front[d] ELSE back[d - 3]
    BY <2>2, <2>5, <2>7
  <2> QED
    BY <2>2, <2>5, <2>7, <2>8
<1>3. /\ Depth("server_error") = 1 /\ Depth("headers") = 2 /\ Depth("guard") = 3
      /\ Depth("exceptions") = 4 /\ Depth("router") = 5
  BY <1>2 DEF Depth
<1> QED
  BY <1>3

LEMMA OutcomeNext == InwardInv /\ OutcomeInv /\ [ShellNext]_shellVars => OutcomeInv'
<1> SUFFICES ASSUME InwardInv, OutcomeInv, [ShellNext]_shellVars PROVE OutcomeInv'
  OBVIOUS
<1>1. CASE UNCHANGED <<outcome, path>>
  BY <1>1 DEF OutcomeInv
<1>2. CASE Outcome
  <2>1. /\ path' = path /\ path \in Paths
        /\ at = "413" => path \in Api
        /\ at = "422" => path = "create"
    BY <1>2 DEF Outcome, InwardInv, Stages, Api
  <2>2. CASE at = "413" /\ Answered("guard", 413, "json")
    BY <2>1, <2>2 DEF Answered, OutcomeInv
  <2>3. CASE (at = "413" /\ Raised(413)) \/ (at = "422" /\ Raised(422))
    BY <2>1, <2>3 DEF Raised, Answered, ErrorBody, OutcomeInv, Api
  <2>4. ASSUME NEW s \in Raises, Raised(s) PROVE OutcomeInv'
    <3>1. path \notin Api => s \in {404, 405}
      BY <2>1, <2>4 DEF Raises, Paths, Html, Api
    <3> QED
      BY <2>1, <2>4, <3>1 DEF Raised, Answered, ErrorBody, OutcomeInv
  <2>5. ASSUME NEW r \in Returns, Answered("router", r[1], r[2]) PROVE OutcomeInv'
    <3>1. r[2] = "html" => path \notin Api /\ r[1] = 200
      BY <2>1, <2>5 DEF Returns, Paths, Html, Api
    <3> QED
      BY <2>1, <2>5, <3>1 DEF Answered, OutcomeInv
  <2>6. CASE Crashed
    BY <2>1, <2>6 DEF Crashed, Answered, ErrorBody, OutcomeInv
  <2> QED
    BY <1>2, <2>2, <2>3, <2>4, <2>5, <2>6 DEF Outcome
<1> QED
  BY <1>1, <1>2 DEF ShellNext, Inward, Negotiate, Respond, shellVars

LEMMA ResponseNext == PicksInv /\ ResponseInv /\ [ShellNext]_shellVars => ResponseInv'
<1> SUFFICES ASSUME PicksInv, ResponseInv, [ShellNext]_shellVars,
                    response' # None
             PROVE  /\ outcome' # None /\ response' = Answer'
                    /\ outcome'.body = "html" => i' > Len(header')
  BY DEF ResponseInv
<1>1. CASE response = None
  <2>1. Respond
    BY <1>1 DEF ShellNext, Inward, Outcome, Negotiate, shellVars
  <2>2. UNCHANGED <<path, accepted, outcome>>
    BY <2>1 DEF Respond
  <2> QED
    BY <2>1, <2>2 DEF Respond, Answer, PageLanguage, Headers, accepted
<1>2. CASE response # None
  <2>1. outcome # None /\ (outcome.body = "html" => i > Len(header))
    BY <1>2 DEF ResponseInv
  <2>2. UNCHANGED <<path, outcome, response>>
    BY <1>2, <2>1 DEF ShellNext, Inward, Outcome, Negotiate, Respond, shellVars
  <2>3. UNCHANGED accepted \/ (outcome.body = "html" /\ Accept!Step)
    BY DEF ShellNext, Inward, Outcome, Negotiate, Respond, shellVars
  <2>4. CASE UNCHANGED accepted
    BY <1>2, <2>1, <2>2, <2>4 DEF ResponseInv, Answer, PageLanguage, Headers, accepted
  <2>5. ~(outcome.body = "html" /\ Accept!Step)
    <3>1. i \in Nat /\ Len(header) \in Nat
      BY DEF PicksInv, HeaderTyped
    <3> QED
      BY <2>1, <3>1 DEF Accept!Step
  <2> QED
    BY <2>3, <2>4, <2>5
<1> QED
  BY <1>1, <1>2

ShellInv == InwardInv /\ PicksInv /\ OutcomeInv /\ ResponseInv

LEMMA ShellAlways == ShellSpec => []ShellInv
<1>1. ShellInit => ShellInv
  BY InwardInit, PicksInit DEF ShellInit, ShellInv, OutcomeInv, ResponseInv
<1>2. ShellInv /\ [ShellNext]_shellVars => ShellInv'
  BY InwardNext, PicksNext, AcceptedStep, OutcomeNext, ResponseNext DEF ShellInv
<1> QED
  BY <1>1, <1>2, PTL DEF ShellSpec

\* Every answer but that of server_error has the security headers, whatever
\* layer made it, and no cache keeps what was answered for a secret.
THEOREM AlwaysHardened == ShellSpec => []Hardened
<1>1. ShellInv => Hardened
  <2> SUFFICES ASSUME ShellInv, response # None
               PROVE  /\ "security" \in response.headers \/ outcome.layer = "server_error"
                      /\ path \in {"reveal"} \cup Api => ~Cacheable(response)
    BY DEF Hardened
  <2>1. /\ outcome # None
        /\ response.status = outcome.status
        /\ response.headers = IF Depth("headers") < Depth(outcome.layer) THEN Headers ELSE {}
    BY DEF ShellInv, ResponseInv, Answer
  <2>2. /\ outcome.layer \in {"guard", "exceptions", "router", "server_error"}
        /\ outcome.layer = "server_error" => outcome.status = 500
    BY <2>1 DEF ShellInv, OutcomeInv
  <2>3. CASE outcome.layer = "server_error"
    BY <2>1, <2>2, <2>3, Layers DEF Cacheable
  <2>4. CASE outcome.layer # "server_error"
    <3>1. response.headers = Headers
      BY <2>1, <2>2, <2>4, Layers
    <3> QED
      BY <3>1 DEF Headers, Cacheable
  <2> QED
    BY <2>3, <2>4
<1> QED
  BY <1>1, ShellAlways, PTL

\* Whoever gets a page, from the server or from a cache that kept it for
\* another reader, gets it in the language of their own header.
THEOREM EverybodysLanguage == ShellSpec => []OwnLanguage
<1>1. ShellInv => OwnLanguage
  <2> SUFFICES ASSUME ShellInv, response # None, response.body = "html",
                      NEW h, h = header \/ Reusable(response, h)
               PROVE  Serves(h, response.lang)
    BY DEF OwnLanguage
  <2>1. /\ outcome # None /\ outcome.body = "html" /\ i > Len(header)
        /\ response.status = outcome.status
        /\ response.lang = PageLanguage(outcome.status)
        /\ response.headers = IF Depth("headers") < Depth(outcome.layer) THEN Headers ELSE {}
    BY DEF ShellInv, ResponseInv, Answer
  <2>2. /\ outcome.layer \in {"guard", "exceptions", "router", "server_error"}
        /\ outcome.layer = "server_error" => outcome.status = 500
        /\ outcome.status \in {200, 404, 405, 500}
    BY <2>1 DEF ShellInv, OutcomeInv
  <2>3. h = header
    <3> SUFFICES ASSUME Reusable(response, h) PROVE h = header
      OBVIOUS
    <3>1. CASE outcome.layer = "server_error"
      BY <2>1, <2>2, <3>1, Layers DEF Reusable, Cacheable
    <3>2. CASE outcome.layer # "server_error"
      <4>1. "vary" \in response.headers
        BY <2>1, <2>2, <3>2, Layers DEF Headers
      <4> QED
        BY <4>1 DEF Reusable
    <3> QED
      BY <3>1, <3>2
  <2>4. response.lang = best
    BY <2>1, <2>2 DEF PageLanguage, TRANSLATED_ERRORS
  <2>5. i - 1 = Len(header)
    BY <2>1 DEF ShellInv, PicksInv, HeaderTyped
  <2> QED
    BY <2>3, <2>4, <2>5 DEF ShellInv, PicksInv, PicksBest, Accept!PicksBest, Serves
<1> QED
  BY <1>1, ShellAlways, PTL
=============================================================================
