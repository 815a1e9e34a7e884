-------------------------------- MODULE Shell --------------------------------
(***************************************************************************)
(* app/main.py around the routes: one request on its way in through the    *)
(* middlewares, and its answer on the way out.                             *)
(*                                                                         *)
(* A create goes through the checks of Payload.  A page, and the page of   *)
(* an error, is in the language that negotiate() finds (Language), and may *)
(* be kept by a cache and shown to somebody else.                          *)
(***************************************************************************)
EXTENDS Payload, SequencesExt

CONSTANTS
  Languages, Supported, Default, Weights, MaxParts    \* of Language

ASSUME LanguagesAssumption ==
  /\ Supported \subseteq Languages
  /\ Default \in Supported
  /\ Weights \subseteq Int
  /\ MaxParts \in Nat

VARIABLES
  path,       \* the kind of URL that is asked for
  post,       \* is the method POST?
  header, i, best, best_q,    \* Accept-Language and the loop over it
  outcome,    \* who answers, with which status and body
  response    \* the answer as the client gets it

Accept == INSTANCE Language

accepted  == <<header, i, best, best_q>>
shellVars == <<vars, path, post, accepted, outcome, response>>

None == [layer |-> "none", status |-> 0, body |-> "none"]
Api  == {"create", "api"}
Html == {"page", "reveal"}

\* "page" stands for /, /how-it-works, /privacy and /legal, "reveal" for
\* /s/{slug}, "api" for everything under /api/ but the create.
Paths == Api \cup Html \cup {"robots", "static", "unknown"}
----------------------------------------------------------------------------
(* The layers.                                                             *)

\* Mutant: registered the other way round.
RegisteredHeadersFirst == <<"headers", "guard">>

\* create_app() calls _body_size_guard, then _security_headers_middleware.
Registered == <<"guard", "headers">>

\* Starlette puts a middleware in front of those registered before, handles an
\* HTTPException behind them and any other exception before them.
Stack    == <<"server_error">> \o Reverse(Registered) \o <<"exceptions", "router">>
Depth(l) == CHOOSE d \in DOMAIN Stack : Stack[d] = l

\* http_error and server_error: JSON for the API, the branded page otherwise.
ErrorBody == IF path \in Api THEN "json" ELSE "html"

Answered(layer, status, body) ==
  outcome' = [layer |-> layer, status |-> status, body |-> body]

Raised(status) == Answered("exceptions", status, ErrorBody)
Crashed        == Answered("server_error", 500, ErrorBody)

\* What the routes return, and what they or Starlette's router raise.
Returns ==
  CASE path \in Html    -> {<<200, "html">>}
    [] path = "robots"  -> {<<200, "text">>}
    [] path = "static"  -> {<<200, "file">>}
    [] path = "api"     -> {<<200, "json">>, <<403, "json">>, <<429, "json">>}
    [] path = "create"  -> {<<201, "json">>}
    [] path = "unknown" -> {}

Raises ==
  CASE path = "create"                -> {409, 422, 429}
    [] path = "api"                   -> {404, 405, 422}
    [] path \in {"reveal", "static"}  -> IF post THEN {405} ELSE {404}
    [] path \in {"page", "robots"}    -> IF post THEN {405} ELSE {}
    [] path = "unknown"               -> {404}
----------------------------------------------------------------------------
(* The way in.                                                             *)

Check == path = "create" /\ Next

\* reject_oversized_bodies, for what is no create.
Guard ==
  /\ path # "create" /\ at = "guard"
  /\ at' = IF post /\ path = "api" /\ declared > Cap THEN "413" ELSE "router"
  /\ UNCHANGED <<n, envelope, byPage, declared>>

Inward ==
  /\ Check \/ Guard
  /\ UNCHANGED <<path, post, accepted, outcome, response>>

\* A 413 is the guard's own answer or raised by the handler; a create that
\* passed the checks may still be refused.
Outcome ==
  /\ outcome = None
  /\ \/ at = "413" /\ declared > Cap /\ Answered("guard", 413, "json")
     \/ at = "413" /\ declared <= Cap /\ Raised(413)
     \/ at = "422" /\ Raised(422)
     \/ at \in {"stored", "router"} /\ \E s \in Raises : Raised(s)
     \/ /\ at \in {"stored", "router"}
        /\ post => path \in Api
        /\ \E r \in Returns : Answered("router", r[1], r[2])
     \/ at \in {"stored", "router"} /\ Crashed
  /\ UNCHANGED <<vars, path, post, accepted, response>>

\* The context of every template calls negotiate().
Negotiate ==
  /\ outcome.body = "html"
  /\ Accept!Step
  /\ UNCHANGED <<vars, path, post, outcome, response>>
----------------------------------------------------------------------------
(* The way out.                                                            *)

TRANSLATED_ERRORS == {405, 410, 429, 500}

\* error.html has a text of its own for 404; for an error without one the
\* message is the exception's, in English.
PageLanguage(status) ==
  IF status \in {200, 404} \cup TRANSLATED_ERRORS THEN best ELSE Default

\* Mutant: Vary for the pages of the site, not for those of errors.
HeadersPagesOnly ==
  {"security"}
    \cup (IF path \in {"reveal"} \cup Api THEN {"no-store"} ELSE {})
    \cup (IF path = "static" THEN {"immutable"} ELSE {})
    \cup (IF path \in Html THEN {"vary"} ELSE {})

\* add_security_headers
Headers ==
  {"security"}
    \cup (IF path \in {"reveal"} \cup Api THEN {"no-store"} ELSE {})
    \cup (IF path = "static" THEN {"immutable"} ELSE {})
    \cup (IF outcome.body = "html" THEN {"vary"} ELSE {})

\* It sees what is answered behind it.
Respond ==
  /\ outcome # None /\ response = None
  /\ outcome.body = "html" => i > Len(header)
  /\ response' =
       [status  |-> outcome.status,
        body    |-> outcome.body,
        lang    |-> IF outcome.body = "html" THEN PageLanguage(outcome.status)
                                             ELSE Default,
        headers |-> IF Depth("headers") < Depth(outcome.layer) THEN Headers ELSE {}]
  /\ UNCHANGED <<vars, path, post, accepted, outcome>>

ShellInit ==
  /\ path \in Paths
  /\ \/ path = "create" /\ post = TRUE /\ Init
     \/ /\ path # "create" /\ post \in BOOLEAN
        /\ n = 0 /\ envelope = 0 /\ byPage = FALSE
        /\ declared \in IF post THEN {0, Cap, Cap + 1} ELSE {0}
        /\ at = "guard"
  /\ Accept!Init
  /\ path \in Api => header = <<>>
  /\ outcome = None
  /\ response = None

ShellNext == Inward \/ Outcome \/ Negotiate \/ Respond

ShellSpec == ShellInit /\ [][ShellNext]_shellVars
----------------------------------------------------------------------------
(* Properties.                                                             *)

\* A cache keeps what it was not told not to keep: a GET for the statuses that
\* RFC 9111 lets it keep without being told.
Cacheable(r) ==
  /\ "no-store" \notin r.headers
  /\ "immutable" \in r.headers \/ (~post /\ r.status \in {200, 404, 405})

\* Would a reader with the header h, for whom r was not made, be shown it?
Reusable(r, h) == Cacheable(r) /\ ("vary" \in r.headers => h = header)

\* README.md:26, "Strict CSP, no-store on sensitive paths": every answer but that
\* of server_error has the security headers, whichever layer made it.  And no
\* cache keeps what was answered for a secret, server_error's answers included.
Hardened ==
  response # None =>
    /\ "security" \in response.headers \/ outcome.layer = "server_error"
    /\ path \in {"reveal"} \cup Api => ~Cacheable(response)

\* negotiate() finds what the reader asked for (see Language).
PicksBest == Accept!PicksBest

\* h's reader is served in the language l.
Serves(h, l) ==
  \/ \E k \in 1..Len(h) : Accept!Chosen(h, k, Len(h)) /\ l = h[k].code
  \/ l = Default /\ Accept!NoneIn(h, Len(h))

\* Who gets a page, from the server or from a cache that kept it for another
\* reader, gets it in the language of their own header, errors included.
OwnLanguage ==
  (response # None /\ response.body = "html") =>
    \A h \in {header} \cup {<<p>> : p \in Accept!Parts} :
      h = header \/ Reusable(response, h) => Serves(h, response.lang)
=============================================================================
