-------------------------- MODULE RequestPipeline --------------------------
(***************************************************************************)
(* A request on its way through the server: the chain of middlewares that  *)
(* main.go puts around the handlers, with the rate limiter in it.          *)
(*                                                                         *)
(*   REST:    recover - error - log - limit - handler (bind, service)      *)
(*   Connect: decode - recover - error - log - limit - handler (service)   *)
(*                                                                         *)
(* Going in, a request passes the limiter and takes effect in the service; *)
(* coming out, the log sees what the limiter and the handler returned, and *)
(* the error middleware turns it into what the client sees.  A panic goes  *)
(* past both to the recovery.  DeviceService and AlertPaging say what the  *)
(* service does; here it returns one of its results.                       *)
(***************************************************************************)
EXTENDS RateLimiter

CONSTANT
    Fields     \* the fields of a request that are validated

\* How a request comes back from the limiter or the handler, what is answered
\* and what is logged; NULL is none of these.
Returns == [kind : {"ok", "bad", "unreadable", "unsupported", "internal", "panic",
                    "canceled", "limited"},
            fields : SUBSET Fields]
RestCodes == {200, 400, 408, 415, 429, 500}
ConnectCodes == {"ok", "invalid_argument", "unsupported_media", "canceled",
                 "resource_exhausted", "internal"}
Replies == [code : RestCodes, fields : SUBSET Fields]
           \cup [code : ConnectCodes, fields : SUBSET Fields]
Lines == [level : {"info", "error"}, code : RestCodes]
         \cup [level : {"info", "error"}, code : ConnectCodes \cup {NULL}]

ASSUME PipelineAssumption == NULL \notin Returns \cup Replies \cup Lines

VARIABLES
    result,    \* per request: what the handler returned, or NULL
    took,      \* the requests whose statements, or some of them, took effect
    log,       \* per request: the level and code that were logged, or NULL
    answer     \* per request: the code and fields its client got, or NULL

exits == <<result, took, log, answer>>
pipelineVars == <<vars, exits>>

-----------------------------------------------------------------------------
(* The handlers *)

Outcome(kind) == [kind |-> kind, fields |-> {}]

\* RequestValidator: the fields with a violation, all of them, if there are any.
Violations(violated) == [kind |-> "bad", fields |-> violated]

\* What a service call returns, and whether it took effect.  Without violations
\* a page token may still be garbled, which is a bad request without fields, or
\* lack its time, which panics; a call that fails may have taken effect.
ServiceReturns(violated) ==
    IF violated # {}
    THEN {<<Violations(violated), FALSE>>}
    ELSE {<<Outcome("ok"), TRUE>>, <<Violations({}), FALSE>>, <<Outcome("panic"), FALSE>>,
          <<Outcome("internal"), TRUE>>, <<Outcome("internal"), FALSE>>}

\* What cannot be decoded: it is malformed, or of an unknown content type.
DecodeErrors == {"unreadable", "unsupported"}

\* A REST request is bound by its handler, and that may fail.
HandlerReturns(api, violated) ==
    ServiceReturns(violated)
    \cup IF api = "rest" THEN {<<Outcome(kind), FALSE>> : kind \in DecodeErrors} ELSE {}

\* The handler of a request that the limiter let through.
Handle(r) ==
    /\ pc[r] = "admitted" /\ result[r] = NULL
    /\ \E violated \in SUBSET Fields :
          \E ret \in HandlerReturns(req[r].api, violated) :
             /\ result' = [result EXCEPT ![r] = ret[1]]
             /\ took' = IF ret[2] THEN took \cup {r} ELSE took
    /\ UNCHANGED <<vars, log, answer>>

\* A Connect message is decoded ahead of all interceptors.  One that cannot be
\* is answered there, an unknown content type with the plain status 415: it is
\* neither limited nor logged.
Undecoded(kind) ==
    [code |-> IF kind = "unsupported" THEN "unsupported_media" ELSE "invalid_argument",
     fields |-> {}]

Undecodable(r) ==
    /\ pc[r] = "idle" /\ now <= LastArrival
    /\ pc' = [pc EXCEPT ![r] = "undecodable"]
    /\ \E q \in CallInputs : q.api = "connect" /\ req' = [req EXCEPT ![r] = Request(q)]
    /\ \E kind \in DecodeErrors :
          /\ result' = [result EXCEPT ![r] = Outcome(kind)]
          /\ answer' = [answer EXCEPT ![r] = Undecoded(kind)]
    /\ UNCHANGED <<now, limiters, buckets, nextGC, held, since, slot, canceled, took, log>>

-----------------------------------------------------------------------------
(* What the client sees *)

Reply(code) == [code |-> code, fields |-> {}]

\* What REST requests get that do not come back with an error: the handler
\* answered (200 stands for 201, too), or the limiter did, without a body.
Written(out) ==
    CASE out.kind = "ok" -> 200
      [] out.kind = "canceled" -> 408
      [] out.kind = "limited" -> 429

IsWritten(out) == out.kind \in {"ok", "canceled", "limited"}

\* BadRequestError in the two APIs: every violated field is told.
RestBadRequest(out) == [code |-> 400, fields |-> out.fields]
ConnectBadRequest(out) == [code |-> "invalid_argument", fields |-> out.fields]

\* The code of the errors that echo's Bind returns.
EchoCode(out) == IF out.kind = "unsupported" THEN 415 ELSE 400

\* Mutant: an error that is not known is passed on as it is.
RestErrorOnlyKnown(out) ==
    CASE out.kind \in DecodeErrors -> Reply(EchoCode(out))
      [] out.kind = "bad" -> RestBadRequest(out)
      [] OTHER -> Reply(0)

\* Mutant: any error of the service is the fault of the request.
RestErrorAllBad(out) == RestBadRequest(out)

\* NewEchoErrorMiddleware, which keeps the code of echo's own errors, and
\* Recover, which answers a panic with 500.
RestError(out) ==
    CASE out.kind \in DecodeErrors -> Reply(EchoCode(out))
      [] out.kind = "bad" -> RestBadRequest(out)
      [] OTHER -> Reply(500)

\* Mutant: violations are not told from other errors.
ConnectErrorOnlyOwn(out) ==
    CASE out.kind = "canceled" -> Reply("canceled")
      [] out.kind = "limited" -> Reply("resource_exhausted")
      [] OTHER -> Reply("internal")

\* NewConnectErrorInterceptor, which passes the errors of the limiter on.
ConnectError(out) ==
    CASE out.kind = "canceled" -> Reply("canceled")
      [] out.kind = "limited" -> Reply("resource_exhausted")
      [] out.kind = "bad" -> ConnectBadRequest(out)
      [] OTHER -> Reply("internal")

\* WithConnectRecover.
Recovered == Reply("internal")

Answered(api, out) ==
    CASE api = "rest" /\ IsWritten(out) -> Reply(Written(out))
      [] api = "rest" /\ ~IsWritten(out) -> RestError(out)
      [] api = "connect" /\ out.kind = "ok" -> Reply("ok")
      [] api = "connect" /\ out.kind = "panic" -> Recovered
      [] api = "connect" /\ out.kind \notin {"ok", "panic"} -> ConnectError(out)

-----------------------------------------------------------------------------
(* What is logged *)

Line(level, code) == [level |-> level, code |-> code]

\* Mutant: the log is kept outside of the error middleware.
RestLogOutside(out) ==
    IF out.kind = "panic" THEN NULL ELSE Line("info", Answered("rest", out).code)

\* NewEchoLogMiddleware.  An error comes past it before it is answered: the
\* status is that of echo's own errors, and otherwise the 200 a response starts
\* with.  A panic goes past it.
RestLog(out) ==
    CASE out.kind = "panic" -> NULL
      [] IsWritten(out) -> Line("info", Written(out))
      [] out.kind \in DecodeErrors -> Line("error", EchoCode(out))
      [] OTHER -> Line("error", 200)

\* NewConnectLogInterceptor: only the errors of the limiter have a code by
\* then.  The recovery logs a panic.
ConnectLog(out) ==
    CASE out.kind = "ok" -> Line("info", "ok")
      [] out.kind \in {"canceled", "limited"} -> Line("error", ConnectError(out).code)
      [] OTHER -> Line("error", NULL)

\* What comes back to the log: the refusal of the limiter, or the result of
\* the handler.
Returned(r) == IF pc[r] \in {"canceled", "limited"} THEN Outcome(pc[r]) ELSE result[r]

\* The request goes out through the log and the error middleware.
Respond(r) ==
    /\ pc[r] \in Outcomes /\ answer[r] = NULL
    /\ pc[r] = "admitted" => result[r] # NULL
    /\ LET out == Returned(r)
       IN  /\ result' = [result EXCEPT ![r] = out]
           /\ log' = [log EXCEPT ![r] =
                 IF req[r].api = "rest" THEN RestLog(out) ELSE ConnectLog(out)]
           /\ answer' = [answer EXCEPT ![r] = Answered(req[r].api, out)]
    /\ UNCHANGED <<vars, took>>

-----------------------------------------------------------------------------
(* Specification *)

PipelineInit ==
    /\ Init
    /\ result = [r \in Requests |-> NULL]
    /\ took = {}
    /\ log = [r \in Requests |-> NULL]
    /\ answer = [r \in Requests |-> NULL]

Arrive(r) == \E q \in CallInputs : GetLimiter(r, q) /\ UNCHANGED exits
ClientLeaves(r) == Cancel(r) /\ UNCHANGED exits
Collect == GC /\ UNCHANGED exits

\* The collector, too, is not kept waiting for more than MaxStall ticks.
Clock == Tick /\ now - nextGC < MaxStall /\ UNCHANGED exits

\* The goroutine of request r goes on.
RequestStep(r) == (WaitStep(r) /\ UNCHANGED exits) \/ Handle(r) \/ Respond(r)

PipelineNext ==
    \/ \E r \in Requests : Arrive(r) \/ Undecodable(r) \/ RequestStep(r) \/ ClientLeaves(r)
    \/ Collect
    \/ Clock

PipelineSpec == PipelineInit /\ [][PipelineNext]_pipelineVars

\* Goroutines that can go on are scheduled, the service returns, and the clock
\* advances.
FairPipelineSpec ==
    /\ PipelineSpec
    /\ WF_pipelineVars(Clock) /\ WF_pipelineVars(Collect)
    /\ \A r \in Requests : WF_pipelineVars(RequestStep(r))

-----------------------------------------------------------------------------
(* Properties *)

\* Type invariant: both error middlewares answer with one of a few codes.
PipelineTypeOK ==
    /\ \A r \in Requests :
          answer[r] # NULL =>
              /\ answer[r].code \in IF req[r].api = "rest" THEN RestCodes ELSE ConnectCodes
              /\ answer[r].fields \in SUBSET Fields
    /\ \A r \in Requests : log[r] # NULL => log[r].level \in {"info", "error"}
    /\ took \in SUBSET Requests

\* What its answer means to the client of request r.
Class(r) ==
    LET code == answer[r].code
    IN  IF req[r].api = "rest"
        THEN CASE code = 200 -> "ok"
               [] code = 400 -> "invalid"
               [] code = 415 -> "unsupported"
               [] code = 408 -> "canceled"
               [] code = 429 -> "limited"
               [] OTHER -> "internal"
        ELSE CASE code = "ok" -> "ok"
               [] code = "invalid_argument" -> "invalid"
               [] code = "unsupported_media" -> "unsupported"
               [] code = "canceled" -> "canceled"
               [] code = "resource_exhausted" -> "limited"
               [] OTHER -> "internal"

\* The answer tells whether it is safe to repeat the request: what was
\* confirmed took effect, and what was called invalid or unsupported, or was
\* refused, did not, in whatever order the limiter, the handler and the client
\* act.  Only an internal error leaves it open.
AnswerTellsEffect ==
    \A r \in Requests : answer[r] # NULL =>
        /\ Class(r) = "ok" => r \in took
        /\ Class(r) \in {"invalid", "unsupported", "canceled", "limited"} => r \notin took

\* A client sees the same over both APIs: what happened to two requests alike
\* is answered alike, with the same violated fields, although the two chains
\* are ordered differently.
ApisAgree ==
    \A r, s \in Requests :
        answer[r] # NULL /\ answer[s] # NULL /\ result[r] = result[s] =>
            /\ Class(r) = Class(s)
            /\ answer[r].fields = answer[s].fields

\* The log can be read as an account of the answers: what left no line had no
\* effect, a line at level info has the code that was answered and is no
\* failure, and a line at level error is no success.
LogTellsAnswer ==
    \A r \in Requests : answer[r] # NULL =>
        /\ log[r] = NULL => r \notin took
        /\ log[r] # NULL /\ log[r].level = "info" =>
              /\ log[r].code = answer[r].code
              /\ Class(r) \notin {"invalid", "unsupported", "internal"}
        /\ log[r] # NULL /\ log[r].level = "error" => Class(r) # "ok"

\* Nobody waits for ever, with a deadline or without, also when the bucket is
\* removed from the map meanwhile: every request is answered.
EventuallyAnswered == \A r \in Requests : pc[r] # "idle" ~> answer[r] # NULL

\* The map does not keep the keys that clients made up: every entry is removed
\* once nobody asks for it.
IdleEntriesGo == \A k \in Keys : limiters[k] # NULL ~> limiters[k] = NULL

=============================================================================
