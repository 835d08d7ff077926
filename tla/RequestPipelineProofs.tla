----------------------- MODULE RequestPipelineProofs -----------------------
(***************************************************************************)
(* Proofs that the safety properties of RequestPipeline hold for every set *)
(* of requests, devices and fields and every setting of the rate limiter.  *)
(*                                                                         *)
(* The properties speak of requests that were answered.  RequestInv says   *)
(* what is known of a request on its way there: that nothing has happened  *)
(* before the limiter let it through, that what the handler returned tells *)
(* its effect, and that the answer and the line of the log are those of    *)
(* what was returned.  Everything else about an answer is a matter of the  *)
(* two error middlewares, one return at a time.                            *)
(***************************************************************************)
EXTENDS RequestPipeline, FiniteSetTheorems, TLAPS

\* The limiter has not decided yet.
Undecided == {"idle", "got", "waiting"}

\* What came back tells whether the request took effect.
TellsEffect(r) ==
    /\ result[r].kind = "ok" => r \in took
    /\ result[r].kind \notin {"ok", "internal"} => r \notin took

\* The line in the log of the API.
Logged(api, out) == IF api = "rest" THEN RestLog(out) ELSE ConnectLog(out)

\* What came back: nothing yet, or a return that tells the effect.  Of Connect
\* messages the ones that could not be decoded have such a result.
ResultInv(r) ==
    /\ pc[r] \in Undecided => result[r] = NULL
    /\ result[r] = NULL => r \notin took /\ answer[r] = NULL
    /\ result[r] # NULL =>
          /\ result[r] \in Returns /\ TellsEffect(r)
          /\ result[r].kind # "bad" => result[r].fields = {}
          /\ result[r].kind \in DecodeErrors => req[r].api = "rest" \/ pc[r] = "undecodable"
    /\ pc[r] \in {"canceled", "limited"} /\ answer[r] = NULL => result[r] = NULL

\* What went out is what the middlewares make of what came back.
AnswerInv(r) ==
    /\ answer[r] = NULL => log[r] = NULL
    /\ answer[r] # NULL /\ pc[r] # "undecodable" =>
          /\ answer[r] = Answered(req[r].api, result[r])
          /\ log[r] = Logged(req[r].api, result[r])
    /\ pc[r] = "undecodable" =>
          /\ req[r].api = "connect" /\ log[r] = NULL
          /\ \E kind \in DecodeErrors :
                result[r] = Outcome(kind) /\ answer[r] = Undecoded(kind)

\* Where a request can be.
PlaceInv(r) ==
    /\ pc[r] \in Undecided \cup Outcomes \cup {"undecodable"}
    /\ pc[r] = "idle" => req[r] = NULL
    /\ pc[r] # "idle" => req[r].api \in {"rest", "connect"}

\* What is known of a request.
RequestInv(r) == PlaceInv(r) /\ ResultInv(r) /\ AnswerInv(r)

\* The inductive invariant.
PipelineInv ==
    /\ DOMAIN pc = Requests /\ DOMAIN req = Requests
    /\ DOMAIN result = Requests /\ DOMAIN log = Requests /\ DOMAIN answer = Requests
    /\ took \in SUBSET Requests
    /\ \A r \in Requests : RequestInv(r)

-----------------------------------------------------------------------------
(* Lemmas about the middlewares *)

\* A return that can reach the middlewares of an API.
CanReturn(api, out) ==
    /\ out \in Returns
    /\ out.kind # "bad" => out.fields = {}
    /\ out.kind \in DecodeErrors => api = "rest"

\* What a return means to the client, over either API.
Meaning(kind) ==
    CASE kind = "ok" -> "ok"
      [] kind \in {"bad", "unreadable"} -> "invalid"
      [] kind = "unsupported" -> "unsupported"
      [] kind = "canceled" -> "canceled"
      [] kind = "limited" -> "limited"
      [] OTHER -> "internal"

\* Every return has an answer of its API, with the fields that were returned.
LEMMA RestAnswer ==
    ASSUME NEW out, CanReturn("rest", out)
    PROVE  /\ Answered("rest", out).code \in RestCodes
           /\ Answered("rest", out) \in Replies
           /\ Answered("rest", out).fields = out.fields
           /\ Answered("rest", out).code =
                 CASE out.kind = "ok" -> 200
                   [] out.kind \in {"bad", "unreadable"} -> 400
                   [] out.kind = "unsupported" -> 415
                   [] out.kind = "canceled" -> 408
                   [] out.kind = "limited" -> 429
                   [] OTHER -> 500
<1>. USE DEF CanReturn, Returns
<1>1. Answered("rest", out) = IF IsWritten(out) THEN Reply(Written(out)) ELSE RestError(out)
    BY DEF Answered
<1>2. CASE out.kind = "ok"
    BY <1>1, <1>2 DEF IsWritten, Written, Reply, RestCodes, Replies
<1>3. CASE out.kind \in {"canceled", "limited"}
    BY <1>1, <1>3 DEF IsWritten, Written, Reply, RestCodes, Replies
<1>4. CASE out.kind = "bad"
    BY <1>1, <1>4 DEF IsWritten, RestError, RestBadRequest, RestCodes, Replies, DecodeErrors
<1>5. CASE out.kind \in DecodeErrors
    BY <1>1, <1>5 DEF IsWritten, RestError, EchoCode, Reply, RestCodes, Replies, DecodeErrors
<1>6. CASE out.kind \in {"internal", "panic"}
    BY <1>1, <1>6 DEF IsWritten, RestError, Reply, RestCodes, Replies, DecodeErrors
<1>. QED
    BY <1>2, <1>3, <1>4, <1>5, <1>6 DEF DecodeErrors

\* What a Connect client gets for what came back.
LEMMA ConnectAnswer ==
    ASSUME NEW out, CanReturn("connect", out)
    PROVE  /\ Answered("connect", out).code \in ConnectCodes
           /\ Answered("connect", out) \in Replies
           /\ Answered("connect", out).fields = out.fields
           /\ Answered("connect", out).code =
                 CASE out.kind = "ok" -> "ok"
                   [] out.kind = "bad" -> "invalid_argument"
                   [] out.kind = "canceled" -> "canceled"
                   [] out.kind = "limited" -> "resource_exhausted"
                   [] OTHER -> "internal"
<1>. USE DEF CanReturn, Returns
<1>1. out.kind \notin {"unreadable", "unsupported"}
    BY DEF DecodeErrors
<1>2. CASE out.kind = "ok"
    BY <1>2 DEF Answered, Reply, ConnectCodes, Replies
<1>3. CASE out.kind = "panic"
    BY <1>3 DEF Answered, Recovered, Reply, ConnectCodes, Replies
<1>4. CASE out.kind = "bad"
    BY <1>4 DEF Answered, ConnectError, ConnectBadRequest, ConnectCodes, Replies
<1>5. CASE out.kind \in {"canceled", "limited", "internal"}
    BY <1>5 DEF Answered, ConnectError, Reply, ConnectCodes, Replies
<1>. QED
    BY <1>1, <1>2, <1>3, <1>4, <1>5

\* The line that goes with an answer.  Only a panic leaves none.
LEMMA LogLine ==
    ASSUME NEW api \in {"rest", "connect"}, NEW out, CanReturn(api, out)
    PROVE  \/ Logged(api, out) = NULL /\ api = "rest" /\ out.kind = "panic"
           \/ /\ Logged(api, out) # NULL /\ Logged(api, out).level = "info"
              /\ Logged(api, out).code = Answered(api, out).code
              /\ out.kind \in {"ok", "canceled", "limited"}
           \/ /\ Logged(api, out) # NULL /\ Logged(api, out).level = "error"
              /\ out.kind # "ok"
<1>. USE DEF CanReturn, Returns
<1>1. CASE api = "rest"
  <2>1. CASE out.kind = "panic"
      BY <1>1, <2>1 DEF Logged, RestLog, IsWritten, DecodeErrors
  <2>2. CASE IsWritten(out)
    <3>1. Logged(api, out) = Line("info", Written(out)) /\ Answered(api, out) = Reply(Written(out))
        BY <1>1, <2>2 DEF Logged, RestLog, IsWritten, Answered, DecodeErrors
    <3>2. Written(out) \in RestCodes
        BY <2>2 DEF Written, IsWritten, RestCodes
    <3>3. Line("info", Written(out)) \in Lines
        BY <3>2 DEF Line, Lines
    <3>. QED
        BY <2>2, <3>1, <3>3, PipelineAssumption DEF Line, Reply, IsWritten
  <2>3. CASE out.kind \in {"bad", "internal"} \cup DecodeErrors
    <3>1. Logged(api, out) \in {Line("error", 400), Line("error", 415), Line("error", 200)}
        BY <1>1, <2>3 DEF Logged, RestLog, IsWritten, EchoCode, DecodeErrors
    <3>2. {Line("error", 400), Line("error", 415), Line("error", 200)} \subseteq Lines
        BY DEF Line, Lines, RestCodes
    <3>. QED
        BY <2>3, <3>1, <3>2, PipelineAssumption DEF Line, DecodeErrors
  <2>. QED
      BY <2>1, <2>2, <2>3 DEF IsWritten, DecodeErrors
<1>2. CASE api = "connect"
  <2>1. CASE out.kind = "ok"
    <3>1. Logged(api, out) = Line("info", "ok") /\ Answered(api, out) = Reply("ok")
        BY <1>2, <2>1 DEF Logged, ConnectLog, Answered
    <3>2. Line("info", "ok") \in Lines
        BY DEF Line, Lines, ConnectCodes
    <3>. QED
        BY <2>1, <3>1, <3>2, PipelineAssumption DEF Line, Reply
  <2>2. CASE out.kind # "ok"
    <3>1. Logged(api, out) \in
             {Line("error", "canceled"), Line("error", "resource_exhausted"), Line("error", NULL)}
        BY <1>2, <2>2 DEF Logged, ConnectLog, ConnectError, Reply
    <3>2. {Line("error", "canceled"), Line("error", "resource_exhausted"), Line("error", NULL)}
             \subseteq Lines
        BY DEF Line, Lines, ConnectCodes
    <3>. QED
        BY <2>2, <3>1, <3>2, PipelineAssumption DEF Line
  <2>. QED
      BY <2>1, <2>2
<1>. QED
    BY <1>1, <1>2

-----------------------------------------------------------------------------
(* The steps *)

\* Requests that a step leaves alone.
LEMMA Untouched ==
    ASSUME PipelineInv, NEW s \in Requests,
           pc'[s] = pc[s], req'[s] = req[s], result'[s] = result[s],
           log'[s] = log[s], answer'[s] = answer[s], s \in took' <=> s \in took
    PROVE  RequestInv(s)'
BY DEF PipelineInv, RequestInv, PlaceInv, ResultInv, AnswerInv, TellsEffect

\* A request that the limiter has not decided on moves within the limiter, or
\* out of it.
LEMMA LimiterInv ==
    ASSUME PipelineInv, NEW r \in Requests, pc[r] \in Undecided,
           DOMAIN pc' = Requests, DOMAIN req' = Requests, UNCHANGED exits,
           pc'[r] \in {"got", "waiting"} \cup Outcomes,
           req'[r].api \in {"rest", "connect"},
           \A s \in Requests : s # r => pc'[s] = pc[s] /\ req'[s] = req[s]
    PROVE  PipelineInv'
<1>1. UNCHANGED <<result, took, log, answer>>
    BY DEF exits
<1>2. \A s \in Requests : s # r => RequestInv(s)'
    BY <1>1, Untouched
<1>3. RequestInv(r)'
  <2>1. result[r] = NULL /\ r \notin took /\ answer[r] = NULL /\ log[r] = NULL
      BY DEF PipelineInv, RequestInv, ResultInv, AnswerInv
  <2>. QED
      BY <1>1, <2>1 DEF RequestInv, PlaceInv, ResultInv, AnswerInv, Undecided, Outcomes
<1>. QED
    BY <1>1, <1>2, <1>3 DEF PipelineInv

\* getLimiter comes first.
LEMMA ArriveInv == ASSUME PipelineInv, NEW r \in Requests, Arrive(r) PROVE PipelineInv'
<1>1. PICK q \in CallInputs : GetLimiter(r, q) /\ UNCHANGED exits
    BY DEF Arrive
<1>2. /\ pc[r] = "idle" /\ pc' = [pc EXCEPT ![r] = "got"]
      /\ req' = [req EXCEPT ![r] = Request(q)]
    BY <1>1 DEF GetLimiter
<1>3. Request(q).api \in {"rest", "connect"}
    BY RateAssumption DEF Request, Calls
<1>4. /\ DOMAIN pc' = Requests /\ DOMAIN req' = Requests
      /\ pc[r] \in Undecided /\ pc'[r] \in {"got", "waiting"} \cup Outcomes
      /\ req'[r].api \in {"rest", "connect"}
      /\ \A s \in Requests : s # r => pc'[s] = pc[s] /\ req'[s] = req[s]
    BY <1>2, <1>3 DEF PipelineInv, Undecided
<1>. QED
    BY <1>1, <1>4, LimiterInv

\* Then come the steps of Wait.
LEMMA WaitStepInv ==
    ASSUME PipelineInv, NEW r \in Requests, WaitStep(r), UNCHANGED exits
    PROVE  PipelineInv'
<1>1. pc[r] \in {"got", "waiting"} /\ UNCHANGED req
    BY DEF WaitStep, Reserve, Proceed, Abandon
<1>2. PICK there \in {"got", "waiting"} \cup Outcomes : pc' = [pc EXCEPT ![r] = there]
  <2>1. CASE Reserve(r)
    <3>1. CASE Delay(Bucket(r)) = 0
        BY <2>1, <3>1 DEF Reserve, GiveUp, Outcomes
    <3>2. CASE Delay(Bucket(r)) # 0
        BY <2>1, <3>2 DEF Reserve, GiveUp, Outcomes
    <3>. QED
        BY <3>1, <3>2
  <2>2. CASE Proceed(r)
      BY <2>2 DEF Proceed, Outcomes
  <2>3. CASE Abandon(r)
      BY <2>3 DEF Abandon, GiveUp, Outcomes
  <2>. QED
      BY <2>1, <2>2, <2>3 DEF WaitStep
<1>3. req[r].api \in {"rest", "connect"} /\ pc[r] \in Undecided
    BY <1>1 DEF PipelineInv, RequestInv, PlaceInv, Undecided
<1>4. /\ DOMAIN pc' = Requests /\ DOMAIN req' = Requests
      /\ pc'[r] \in {"got", "waiting"} \cup Outcomes
      /\ req'[r].api \in {"rest", "connect"}
      /\ \A s \in Requests : s # r => pc'[s] = pc[s] /\ req'[s] = req[s]
    BY <1>1, <1>2, <1>3 DEF PipelineInv
<1>. QED
    BY <1>3, <1>4, LimiterInv

\* Steps of others than requests.
LEMMA QuietInv ==
    ASSUME PipelineInv, UNCHANGED <<pc, req, result, took, log, answer>>
    PROVE  PipelineInv'
<1>1. \A s \in Requests : RequestInv(s)'
    BY Untouched DEF PipelineInv
<1>. QED
    BY <1>1 DEF PipelineInv

\* A message is answered ahead of the chain.
LEMMA UndecodableInv == ASSUME PipelineInv, NEW r \in Requests, Undecodable(r) PROVE PipelineInv'
<1>1. PICK q \in CallInputs : q.api = "connect" /\ req' = [req EXCEPT ![r] = Request(q)]
    BY DEF Undecodable
<1>2. PICK kind \in DecodeErrors :
         /\ result' = [result EXCEPT ![r] = Outcome(kind)]
         /\ answer' = [answer EXCEPT ![r] = Undecoded(kind)]
    BY DEF Undecodable
<1>3. /\ pc[r] = "idle" /\ pc' = [pc EXCEPT ![r] = "undecodable"]
      /\ UNCHANGED <<took, log>>
    BY DEF Undecodable
<1>4. \A s \in Requests : s # r => RequestInv(s)'
    BY <1>1, <1>2, <1>3, Untouched DEF PipelineInv
<1>5. RequestInv(r)'
  <2>1. /\ pc'[r] = "undecodable" /\ req'[r].api = "connect"
        /\ result'[r] = Outcome(kind) /\ answer'[r] = Undecoded(kind)
      BY <1>1, <1>2, <1>3 DEF PipelineInv, Request
  <2>2. r \notin took /\ log[r] = NULL
      BY <1>3 DEF PipelineInv, RequestInv, ResultInv, AnswerInv, Undecided
  <2>3. Outcome(kind) \in Returns /\ Undecoded(kind) \in Replies
      BY DEF Outcome, Returns, Undecoded, Replies, ConnectCodes, DecodeErrors
  <2>4. result'[r] # NULL /\ answer'[r] # NULL
      BY <2>1, <2>3, PipelineAssumption
  <2>5. PlaceInv(r)'
      BY <2>1 DEF PlaceInv
  <2>6. ResultInv(r)'
      BY <1>3, <2>1, <2>2, <2>3, <2>4
         DEF ResultInv, TellsEffect, Outcome, Undecided, DecodeErrors
  <2>7. AnswerInv(r)'
      BY <1>3, <2>1, <2>2, <2>4 DEF AnswerInv
  <2>. QED
      BY <2>5, <2>6, <2>7 DEF RequestInv
<1>. QED
    BY <1>1, <1>2, <1>3, <1>4, <1>5 DEF PipelineInv

\* What a handler returns tells whether the request took effect.
LEMMA HandlerTells ==
    ASSUME NEW api, NEW violated \in SUBSET Fields, NEW ret \in HandlerReturns(api, violated)
    PROVE  /\ CanReturn(api, ret[1]) /\ ret[1] # NULL /\ ret[2] \in BOOLEAN
           /\ ret[1].kind = "ok" => ret[2]
           /\ ret[1].kind \notin {"ok", "internal"} => ~ret[2]
<1>1. ret[1] \in Returns => ret[1] # NULL
    BY PipelineAssumption
<1>2. ASSUME api = "rest", NEW kind \in DecodeErrors, ret = <<Outcome(kind), FALSE>>
      PROVE  /\ CanReturn(api, ret[1]) /\ ret[1] # NULL /\ ret[2] \in BOOLEAN
             /\ ret[1].kind \notin {"ok", "internal"} /\ ~ret[2]
    BY <1>1, <1>2 DEF CanReturn, Outcome, Returns, DecodeErrors
<1>3. CASE ret = <<Violations(violated), FALSE>>
    BY <1>1, <1>3 DEF CanReturn, Violations, Returns, DecodeErrors
<1>4. CASE ret = <<Violations({}), FALSE>>
    BY <1>1, <1>4 DEF CanReturn, Violations, Returns, DecodeErrors
<1>5. CASE ret = <<Outcome("ok"), TRUE>>
    BY <1>1, <1>5 DEF CanReturn, Outcome, Returns, DecodeErrors
<1>6. CASE ret = <<Outcome("internal"), TRUE>>
    BY <1>1, <1>6 DEF CanReturn, Outcome, Returns, DecodeErrors
<1>7. CASE ret = <<Outcome("internal"), FALSE>>
    BY <1>1, <1>7 DEF CanReturn, Outcome, Returns, DecodeErrors
<1>8. CASE ret = <<Outcome("panic"), FALSE>>
    BY <1>1, <1>8 DEF CanReturn, Outcome, Returns, DecodeErrors
<1>. QED
    BY <1>2, <1>3, <1>4, <1>5, <1>6, <1>7, <1>8 DEF HandlerReturns, ServiceReturns

\* The handler returns.
LEMMA HandleInv == ASSUME PipelineInv, NEW r \in Requests, Handle(r) PROVE PipelineInv'
<1>1. PICK violated \in SUBSET Fields :
         \E ret \in HandlerReturns(req[r].api, violated) :
            /\ result' = [result EXCEPT ![r] = ret[1]]
            /\ took' = IF ret[2] THEN took \cup {r} ELSE took
    BY DEF Handle
<1>2. PICK ret \in HandlerReturns(req[r].api, violated) :
            /\ result' = [result EXCEPT ![r] = ret[1]]
            /\ took' = IF ret[2] THEN took \cup {r} ELSE took
    BY <1>1
<1>3. pc[r] = "admitted" /\ result[r] = NULL /\ UNCHANGED <<pc, req, log, answer>>
    BY DEF Handle, vars
<1>4. \A s \in Requests : s # r => RequestInv(s)'
    BY <1>2, <1>3, Untouched DEF PipelineInv
<1>5. RequestInv(r)'
  <2>1. r \notin took /\ answer[r] = NULL /\ log[r] = NULL /\ req[r].api \in {"rest", "connect"}
      BY <1>3 DEF PipelineInv, RequestInv, PlaceInv, ResultInv, AnswerInv
  <2>2. /\ CanReturn(req[r].api, ret[1]) /\ ret[1] # NULL /\ ret[2] \in BOOLEAN
        /\ ret[1].kind = "ok" => ret[2]
        /\ ret[1].kind \notin {"ok", "internal"} => ~ret[2]
      BY HandlerTells
  <2>3. result'[r] = ret[1]
      BY <1>2 DEF PipelineInv
  <2>4. TellsEffect(r)'
      BY <1>2, <2>1, <2>2, <2>3 DEF TellsEffect
  <2>5. PlaceInv(r)' /\ AnswerInv(r)'
      BY <1>3, <2>1 DEF PlaceInv, AnswerInv, Outcomes
  <2>6. ResultInv(r)'
      BY <1>3, <2>2, <2>3, <2>4 DEF ResultInv, CanReturn, Undecided
  <2>. QED
      BY <2>5, <2>6 DEF RequestInv
<1>. QED
    BY <1>2, <1>3, <1>4, <1>5 DEF PipelineInv

\* The request goes out.
LEMMA RespondInv == ASSUME PipelineInv, NEW r \in Requests, Respond(r) PROVE PipelineInv'
<1>. DEFINE out == Returned(r)
<1>1. /\ pc[r] \in Outcomes /\ answer[r] = NULL
      /\ pc[r] = "admitted" => result[r] # NULL
      /\ result' = [result EXCEPT ![r] = out]
      /\ log' = [log EXCEPT ![r] = Logged(req[r].api, out)]
      /\ answer' = [answer EXCEPT ![r] = Answered(req[r].api, out)]
      /\ UNCHANGED <<pc, req, took>>
    BY DEF Respond, Logged, vars
<1>2. /\ req[r].api \in {"rest", "connect"}
      /\ CanReturn(req[r].api, out) /\ out # NULL
      /\ out.kind = "ok" => r \in took
      /\ out.kind \notin {"ok", "internal"} => r \notin took
  <2>1. RequestInv(r)
      BY DEF PipelineInv
  <2>2. req[r].api \in {"rest", "connect"}
      BY <1>1, <2>1 DEF RequestInv, PlaceInv, Outcomes
  <2>3. CASE pc[r] = "admitted"
      BY <1>1, <2>1, <2>2, <2>3 DEF Returned, RequestInv, ResultInv, TellsEffect, CanReturn
  <2>4. CASE pc[r] \in {"canceled", "limited"}
    <3>1. out = Outcome(pc[r]) /\ r \notin took
        BY <1>1, <2>1, <2>4 DEF Returned, RequestInv, ResultInv
    <3>2. out \in Returns
        BY <2>4, <3>1 DEF Outcome, Returns
    <3>. QED
        BY <2>2, <2>4, <3>1, <3>2, PipelineAssumption DEF Outcome, CanReturn, DecodeErrors
  <2>. QED
      BY <1>1, <2>3, <2>4, <2>2 DEF Outcomes
<1>3. Answered(req[r].api, out) # NULL
    BY <1>2, RestAnswer, ConnectAnswer, PipelineAssumption
<1>4. \A s \in Requests : s # r => RequestInv(s)'
    BY <1>1, Untouched DEF PipelineInv
<1>5. RequestInv(r)'
  <2>1. /\ result'[r] = out /\ log'[r] = Logged(req[r].api, out)
        /\ answer'[r] = Answered(req[r].api, out)
      BY <1>1 DEF PipelineInv
  <2>2. PlaceInv(r)'
      BY <1>1, <1>2 DEF PlaceInv, PipelineInv, RequestInv, Outcomes
  <2>3. ResultInv(r)'
      BY <1>1, <1>2, <1>3, <2>1 DEF ResultInv, TellsEffect, CanReturn, Undecided, Outcomes
  <2>4. AnswerInv(r)'
      BY <1>1, <1>3, <2>1 DEF AnswerInv, Outcomes
  <2>. QED
      BY <2>2, <2>3, <2>4 DEF RequestInv
<1>. QED
    BY <1>1, <1>4, <1>5 DEF PipelineInv

\* Every step.
LEMMA PipelineStep == PipelineInv /\ [PipelineNext]_pipelineVars => PipelineInv'
<1>. SUFFICES ASSUME PipelineInv, [PipelineNext]_pipelineVars PROVE PipelineInv'
    OBVIOUS
<1>1. ASSUME NEW r \in Requests, RequestStep(r) PROVE PipelineInv'
    BY <1>1, WaitStepInv, HandleInv, RespondInv DEF RequestStep
<1>2. ASSUME NEW r \in Requests, ClientLeaves(r) PROVE PipelineInv'
    BY <1>2, QuietInv DEF ClientLeaves, Cancel, exits
<1>3. CASE Collect
    BY <1>3, QuietInv DEF Collect, GC, exits
<1>4. CASE Clock
    BY <1>4, QuietInv DEF Clock, Tick, exits
<1>5. CASE UNCHANGED pipelineVars
    BY <1>5, QuietInv DEF pipelineVars, vars, exits
<1>. QED
    BY <1>1, <1>2, <1>3, <1>4, <1>5, ArriveInv, UndecodableInv DEF PipelineNext

\* No request has come in yet.
LEMMA PipelineStart == PipelineInit => PipelineInv
<1>. SUFFICES ASSUME PipelineInit PROVE PipelineInv
    OBVIOUS
<1>1. /\ DOMAIN pc = Requests /\ DOMAIN req = Requests
      /\ DOMAIN result = Requests /\ DOMAIN log = Requests /\ DOMAIN answer = Requests
    BY DEF PipelineInit, Init
<1>2. ASSUME NEW r \in Requests PROVE RequestInv(r)
    BY DEF PipelineInit, Init, RequestInv, PlaceInv, ResultInv, AnswerInv, Undecided
<1>. QED
    BY <1>1, <1>2 DEF PipelineInv, PipelineInit

-----------------------------------------------------------------------------
(* Theorems *)

\* The invariant holds in every state.
THEOREM PipelineInvariance == PipelineSpec => []PipelineInv
BY PipelineStart, PipelineStep, PTL DEF PipelineSpec

\* What an answer means is what came back, whichever API it went out through.
LEMMA AnswerMeans ==
    ASSUME PipelineInv, NEW r \in Requests, answer[r] # NULL
    PROVE  /\ result[r] \in Returns /\ TellsEffect(r)
           /\ Class(r) = Meaning(result[r].kind)
           /\ answer[r].fields = result[r].fields
           /\ answer[r].code \in IF req[r].api = "rest" THEN RestCodes ELSE ConnectCodes
<1>. DEFINE out == result[r]
<1>1. RequestInv(r)
    BY DEF PipelineInv
<1>2. out \in Returns /\ TellsEffect(r) /\ (out.kind # "bad" => out.fields = {})
    BY <1>1 DEF RequestInv, ResultInv
<1>3. CASE pc[r] = "undecodable"
  <2>1. req[r].api = "connect"
      BY <1>1, <1>3 DEF RequestInv, AnswerInv
  <2>2. PICK kind \in DecodeErrors : out = Outcome(kind) /\ answer[r] = Undecoded(kind)
      BY <1>1, <1>3 DEF RequestInv, AnswerInv
  <2>3. Class(r) = Meaning(out.kind)
      BY <2>1, <2>2 DEF Class, Meaning, Undecoded, Outcome, DecodeErrors
  <2>. QED
      BY <1>2, <2>1, <2>2, <2>3 DEF Undecoded, Outcome, ConnectCodes
<1>4. CASE pc[r] # "undecodable" /\ req[r].api = "rest"
  <2>1. answer[r] = Answered("rest", out) /\ CanReturn("rest", out)
      BY <1>1, <1>2, <1>4 DEF RequestInv, AnswerInv, CanReturn
  <2>2. /\ answer[r].code \in RestCodes /\ answer[r].fields = out.fields
        /\ answer[r].code =
              CASE out.kind = "ok" -> 200
                [] out.kind \in {"bad", "unreadable"} -> 400
                [] out.kind = "unsupported" -> 415
                [] out.kind = "canceled" -> 408
                [] out.kind = "limited" -> 429
                [] OTHER -> 500
      BY <2>1, RestAnswer
  <2>3. Class(r) = Meaning(out.kind)
    <3>1. out.kind \in {"ok", "bad", "unreadable", "unsupported", "internal", "panic",
                       "canceled", "limited"}
        BY <1>2 DEF Returns
    <3>. QED
        BY <1>4, <2>2, <3>1 DEF Class, Meaning
  <2>. QED
      BY <1>2, <1>4, <2>2, <2>3
<1>5. CASE pc[r] # "undecodable" /\ req[r].api = "connect"
  <2>1. answer[r] = Answered("connect", out) /\ CanReturn("connect", out)
      BY <1>1, <1>2, <1>5 DEF RequestInv, AnswerInv, ResultInv, CanReturn
  <2>2. /\ answer[r].code \in ConnectCodes /\ answer[r].fields = out.fields
        /\ answer[r].code =
              CASE out.kind = "ok" -> "ok"
                [] out.kind = "bad" -> "invalid_argument"
                [] out.kind = "canceled" -> "canceled"
                [] out.kind = "limited" -> "resource_exhausted"
                [] OTHER -> "internal"
      BY <2>1, ConnectAnswer
  <2>3. Class(r) = Meaning(out.kind)
    <3>1. out.kind \in {"ok", "bad", "internal", "panic", "canceled", "limited"}
        BY <1>2, <2>1 DEF Returns, CanReturn, DecodeErrors
    <3>. QED
        BY <1>5, <2>2, <3>1 DEF Class, Meaning
  <2>. QED
      BY <1>2, <1>5, <2>2, <2>3
<1>6. req[r].api \in {"rest", "connect"}
  <2>1. pc[r] # "idle"
      BY <1>1 DEF RequestInv, ResultInv, Undecided
  <2>. QED
      BY <1>1, <2>1 DEF RequestInv, PlaceInv
<1>. QED
    BY <1>3, <1>4, <1>5, <1>6

\* The line of an answered request.
LEMMA LogMeans ==
    ASSUME PipelineInv, NEW r \in Requests, answer[r] # NULL
    PROVE  \/ log[r] = NULL /\ result[r].kind \in {"panic"} \cup DecodeErrors
           \/ /\ log[r] # NULL /\ log[r].level = "info" /\ log[r].code = answer[r].code
              /\ result[r].kind \in {"ok", "canceled", "limited"}
           \/ log[r] # NULL /\ log[r].level = "error" /\ result[r].kind # "ok"
<1>1. RequestInv(r) /\ result[r] \in Returns
    BY AnswerMeans DEF PipelineInv
<1>2. CASE pc[r] = "undecodable"
  <2>1. log[r] = NULL
      BY <1>1, <1>2 DEF RequestInv, AnswerInv
  <2>2. PICK kind \in DecodeErrors : result[r] = Outcome(kind)
      BY <1>1, <1>2 DEF RequestInv, AnswerInv
  <2>. QED
      BY <2>1, <2>2 DEF Outcome
<1>3. CASE pc[r] # "undecodable"
  <2>1. /\ answer[r] = Answered(req[r].api, result[r])
        /\ log[r] = Logged(req[r].api, result[r])
      BY <1>1, <1>3 DEF RequestInv, AnswerInv
  <2>2. req[r].api \in {"rest", "connect"} /\ CanReturn(req[r].api, result[r])
      BY <1>1, <1>3 DEF RequestInv, PlaceInv, ResultInv, CanReturn, Undecided
  <2>. QED
      BY <2>1, <2>2, LogLine
<1>. QED
    BY <1>2, <1>3

\* Type correctness: the two error middlewares answer with a few codes, each
\* with its own, and name fields that are validated.
THEOREM PipelineTypeCorrect == PipelineSpec => []PipelineTypeOK
<1>1. PipelineInv => PipelineTypeOK
  <2>. SUFFICES ASSUME PipelineInv PROVE PipelineTypeOK
      OBVIOUS
  <2>1. ASSUME NEW r \in Requests, answer[r] # NULL
        PROVE  /\ answer[r].code \in IF req[r].api = "rest" THEN RestCodes ELSE ConnectCodes
               /\ answer[r].fields \in SUBSET Fields
      BY <2>1, AnswerMeans DEF Returns
  <2>2. ASSUME NEW r \in Requests, log[r] # NULL PROVE log[r].level \in {"info", "error"}
    <3>1. answer[r] # NULL
        BY <2>2 DEF PipelineInv, RequestInv, AnswerInv
    <3>. QED
        BY <2>2, <3>1, LogMeans
  <2>. QED
      BY <2>1, <2>2 DEF PipelineTypeOK, PipelineInv
<1>. QED
    BY <1>1, PipelineInvariance, PTL

\* The answer tells whether it is safe to repeat the request, in whatever order
\* the limiter, the handler and the client act.
THEOREM AnswersTellEffect == PipelineSpec => []AnswerTellsEffect
<1>1. PipelineInv => AnswerTellsEffect
  <2>. SUFFICES ASSUME PipelineInv, NEW r \in Requests, answer[r] # NULL
                PROVE  /\ Class(r) = "ok" => r \in took
                       /\ Class(r) \in {"invalid", "unsupported", "canceled", "limited"} => r \notin took
      BY DEF AnswerTellsEffect
  <2>1. Class(r) = Meaning(result[r].kind) /\ TellsEffect(r) /\ result[r] \in Returns
      BY AnswerMeans
  <2>. QED
      BY <2>1 DEF Meaning, TellsEffect, Returns
<1>. QED
    BY <1>1, PipelineInvariance, PTL

\* What happened to two requests alike is answered alike over both APIs.
THEOREM BothApisAgree == PipelineSpec => []ApisAgree
<1>1. PipelineInv => ApisAgree
    BY AnswerMeans DEF ApisAgree
<1>. QED
    BY <1>1, PipelineInvariance, PTL

\* The log can be read as an account of the answers.
THEOREM LogTells == PipelineSpec => []LogTellsAnswer
<1>1. PipelineInv => LogTellsAnswer
  <2>. SUFFICES ASSUME PipelineInv, NEW r \in Requests, answer[r] # NULL
                PROVE  /\ log[r] = NULL => r \notin took
                       /\ log[r] # NULL /\ log[r].level = "info" =>
                             /\ log[r].code = answer[r].code
                             /\ Class(r) \notin {"invalid", "unsupported", "internal"}
                       /\ log[r] # NULL /\ log[r].level = "error" => Class(r) # "ok"
      BY DEF LogTellsAnswer
  <2>1. Class(r) = Meaning(result[r].kind) /\ TellsEffect(r) /\ result[r] \in Returns
      BY AnswerMeans
  <2>2. CASE log[r] = NULL
      BY <2>1, <2>2, LogMeans DEF TellsEffect, DecodeErrors
  <2>3. CASE log[r] # NULL /\ log[r].level = "info"
    <3>1. log[r].code = answer[r].code /\ result[r].kind \in {"ok", "canceled", "limited"}
        BY <2>3, LogMeans
    <3>. QED
        BY <2>1, <2>3, <3>1 DEF Meaning
  <2>4. CASE log[r] # NULL /\ log[r].level = "error"
    <3>1. result[r].kind # "ok"
        BY <2>4, LogMeans
    <3>. QED
        BY <2>1, <2>4, <3>1 DEF Meaning, Returns
  <2>. QED
      BY <2>2, <2>3, <2>4, LogMeans
<1>. QED
    BY <1>1, PipelineInvariance, PTL

-----------------------------------------------------------------------------
(* The limiter inside the chain *)

\* A message that cannot be decoded never comes to the limiter: to it, such a
\* request was not made.
LimiterPc == [r \in Requests |-> IF pc[r] = "undecodable" THEN "idle" ELSE pc[r]]
LimiterReq == [r \in Requests |-> IF pc[r] = "undecodable" THEN NULL ELSE req[r]]

Limiter == INSTANCE RateLimiterProofs WITH pc <- LimiterPc, req <- LimiterReq

\* What the limiter does with keys and buckets does not depend on the mapping.
LEMMA SameOperators ==
    /\ \A b, act : /\ Limiter!Delay(b) = Delay(b) /\ Limiter!Reserved(b) = Reserved(b)
                   /\ Limiter!Fits(b, act) <=> Fits(b, act)
                   /\ Limiter!Released(b, act) = Released(b, act)
    /\ \A q : Limiter!KeyOf(q) = KeyOf(q) /\ Limiter!Request(q) = Request(q)
    /\ \A k : Limiter!Seen(k) = Seen(k)
    /\ \A k, fired : Limiter!Stale(k, fired) <=> Stale(k, fired)
    /\ Limiter!FullBucket = FullBucket /\ Limiter!Keys = Keys
<1>1. Limiter!Capacity = Capacity
    BY DEF Limiter!Capacity, Limiter!Burst, Capacity, Burst
<1>2. \A b : Limiter!Advance(b) = Advance(b)
    BY <1>1 DEF Limiter!Advance, Advance
<1>3. \A b : Limiter!Taken(b) = Taken(b)
    BY <1>2 DEF Limiter!Taken, Taken
<1>4. \A b : Limiter!Delay(b) = Delay(b)
    BY <1>3 DEF Limiter!Delay, Delay
<1>5. \A b : Limiter!Reserved(b) = Reserved(b)
    BY <1>3, <1>4 DEF Limiter!Reserved, Reserved
<1>6. \A b, act : Limiter!Fits(b, act) <=> Fits(b, act)
    BY <1>4 DEF Limiter!Fits, Fits
<1>7. \A b, act : Limiter!Released(b, act) = Released(b, act)
    BY <1>1, <1>2 DEF Limiter!Released, Limiter!GivenBack, Released, GivenBack
<1>8. \A q : Limiter!KeyOf(q) = KeyOf(q)
    BY DEF Limiter!KeyOf, KeyOf
<1>9. \A q : Limiter!Request(q) = Request(q)
    BY <1>8 DEF Limiter!Request, Request
<1>10. \A k : Limiter!Seen(k) = Seen(k)
    BY DEF Limiter!Seen, Seen
<1>11. \A k, fired : Limiter!Stale(k, fired) <=> Stale(k, fired)
    BY DEF Limiter!Stale, Stale
<1>12. Limiter!FullBucket = FullBucket /\ Limiter!Keys = Keys
    BY <1>1 DEF Limiter!FullBucket, FullBucket, Limiter!Keys, Keys
<1>. QED
    BY <1>4, <1>5, <1>6, <1>7, <1>8, <1>9, <1>10, <1>11, <1>12

\* A step of the limiter moves one request to a place that it knows.
LEMMA MovesInLimiter ==
    ASSUME PipelineInv, NEW r \in Requests, pc[r] # "undecodable", UNCHANGED req,
           NEW place, place # "undecodable", pc' = [pc EXCEPT ![r] = place]
    PROVE  LimiterPc' = [LimiterPc EXCEPT ![r] = place] /\ UNCHANGED LimiterReq
BY DEF PipelineInv, LimiterPc, LimiterReq

\* The handlers, the log and the error middlewares are invisible to the
\* limiter.
LEMMA QuietStep ==
    ASSUME UNCHANGED vars PROVE UNCHANGED Limiter!vars
BY DEF vars, Limiter!vars, LimiterPc, LimiterReq

\* So is a message that is turned down.
LEMMA UndecodableStep ==
    ASSUME PipelineInv, NEW r \in Requests, Undecodable(r)
    PROVE  UNCHANGED Limiter!vars
<1>1. /\ pc[r] = "idle" /\ pc' = [pc EXCEPT ![r] = "undecodable"]
      /\ UNCHANGED <<now, limiters, buckets, nextGC, held, since, slot, canceled>>
      /\ \E q \in CallInputs : req' = [req EXCEPT ![r] = Request(q)]
    BY DEF Undecodable
<1>2. req[r] = NULL
    BY <1>1 DEF PipelineInv, RequestInv, PlaceInv
<1>3. LimiterPc' = LimiterPc
    BY <1>1 DEF LimiterPc, PipelineInv
<1>4. LimiterReq' = LimiterReq
    BY <1>1, <1>2 DEF LimiterReq, PipelineInv
<1>. QED
    BY <1>1, <1>3, <1>4 DEF Limiter!vars

\* getLimiter is a step of the limiter.
LEMMA ArriveStep ==
    ASSUME PipelineInv, NEW r \in Requests, NEW q \in CallInputs, GetLimiter(r, q)
    PROVE  Limiter!GetLimiter(r, q)
<1>1. /\ pc[r] = "idle" /\ pc' = [pc EXCEPT ![r] = "got"]
      /\ req' = [req EXCEPT ![r] = Request(q)]
    BY DEF GetLimiter
<1>2. LimiterPc[r] = "idle" /\ LimiterPc' = [LimiterPc EXCEPT ![r] = "got"]
    BY <1>1 DEF LimiterPc, PipelineInv
<1>3. LimiterReq' = [LimiterReq EXCEPT ![r] = Request(q)]
    BY <1>1 DEF LimiterReq, PipelineInv
<1>. QED
    BY <1>2, <1>3, SameOperators DEF GetLimiter, Limiter!GetLimiter

\* The steps of Wait are steps of the limiter.
LEMMA WaitIsStep ==
    ASSUME PipelineInv, NEW r \in Requests, WaitStep(r)
    PROVE  Limiter!WaitStep(r)
<1>1. pc[r] \in {"got", "waiting"} /\ UNCHANGED req
    BY DEF WaitStep, Reserve, Proceed, Abandon
<1>2. LimiterPc[r] = pc[r] /\ LimiterReq[r] = req[r] /\ Limiter!Bucket(r) = Bucket(r)
    BY <1>1 DEF LimiterPc, LimiterReq, Limiter!Bucket, Bucket
<1>3. \A place : place # "undecodable" /\ pc' = [pc EXCEPT ![r] = place] =>
         LimiterPc' = [LimiterPc EXCEPT ![r] = place] /\ UNCHANGED LimiterReq
    BY <1>1, MovesInLimiter
<1>4. Limiter!Expired(r) <=> Expired(r)
    BY <1>2 DEF Limiter!Expired, Expired
<1>5. GiveUp(r) => Limiter!GiveUp(r) /\ UNCHANGED LimiterReq
    BY <1>3, <1>4 DEF GiveUp, Limiter!GiveUp
<1>6. CASE Reserve(r)
  <2>1. pc[r] = "got" /\ UNCHANGED <<now, limiters, nextGC, req, held, since, canceled>>
      BY <1>6 DEF Reserve
  <2>2. CASE GiveUp(r) /\ UNCHANGED <<buckets, slot>>
      BY <1>2, <1>5, <2>1, <2>2 DEF Limiter!WaitStep, Limiter!Reserve
  <2>3. CASE /\ r \notin canceled /\ ~Expired(r) /\ ~Fits(Bucket(r), req[r].deadline)
             /\ pc' = [pc EXCEPT ![r] = "limited"] /\ UNCHANGED <<buckets, slot>>
      BY <1>2, <1>3, <1>4, <2>1, <2>3, SameOperators DEF Limiter!WaitStep, Limiter!Reserve
  <2>4. CASE /\ r \notin canceled /\ ~Expired(r) /\ Fits(Bucket(r), req[r].deadline)
             /\ buckets' = [buckets EXCEPT ![req[r].key][held[r]] = Reserved(Bucket(r))]
             /\ slot' = [slot EXCEPT ![r] = now + Delay(Bucket(r))]
             /\ pc' = [pc EXCEPT ![r] = IF Delay(Bucket(r)) = 0 THEN "admitted" ELSE "waiting"]
    <3>1. (IF Delay(Bucket(r)) = 0 THEN "admitted" ELSE "waiting") # "undecodable"
        OBVIOUS
    <3>2. /\ LimiterPc' = [LimiterPc EXCEPT ![r] =
                IF Delay(Bucket(r)) = 0 THEN "admitted" ELSE "waiting"]
          /\ UNCHANGED LimiterReq
        BY <1>3, <2>4, <3>1
    <3>. QED
        BY <1>2, <1>4, <2>1, <2>4, <3>2, SameOperators DEF Limiter!WaitStep, Limiter!Reserve
  <2>. QED
      BY <1>6, <2>2, <2>3, <2>4 DEF Reserve
<1>7. CASE Proceed(r)
    BY <1>2, <1>3, <1>7 DEF Proceed, Limiter!Proceed, Limiter!WaitStep
<1>8. CASE Abandon(r)
    BY <1>2, <1>5, <1>8, SameOperators DEF Abandon, Limiter!Abandon, Limiter!WaitStep
<1>. QED
    BY <1>6, <1>7, <1>8 DEF WaitStep

\* Every step of the chain is one of the limiter, or invisible to it.
LEMMA LimiterStep ==
    ASSUME PipelineInv, [PipelineNext]_pipelineVars
    PROVE  [Limiter!Next]_(Limiter!vars)
<1>1. CASE UNCHANGED pipelineVars
    BY <1>1, QuietStep DEF pipelineVars
<1>2. ASSUME NEW r \in Requests, Arrive(r) PROVE Limiter!Next
    BY <1>2, ArriveStep DEF Arrive, Limiter!Next
<1>3. ASSUME NEW r \in Requests, RequestStep(r) PROVE [Limiter!Next]_(Limiter!vars)
    BY <1>3, WaitIsStep, QuietStep DEF RequestStep, Handle, Respond, Limiter!Next
<1>4. ASSUME NEW r \in Requests, ClientLeaves(r) PROVE Limiter!Next
  <2>1. Cancel(r)
      BY <1>4 DEF ClientLeaves
  <2>2. LimiterPc[r] = pc[r] /\ UNCHANGED <<LimiterPc, LimiterReq>>
      BY <2>1 DEF Cancel, LimiterPc, LimiterReq
  <2>. QED
      BY <2>1, <2>2 DEF Cancel, Limiter!Cancel, Limiter!Next
<1>5. CASE Collect
  <2>1. GC /\ UNCHANGED <<LimiterPc, LimiterReq>>
      BY <1>5 DEF Collect, GC, LimiterPc, LimiterReq
  <2>. QED
      BY <2>1, SameOperators DEF GC, Limiter!GC, Limiter!Next
<1>6. CASE Clock
  <2>1. Tick /\ UNCHANGED <<LimiterPc, LimiterReq>>
      BY <1>6 DEF Clock, Tick, LimiterPc, LimiterReq
  <2>2. \A r \in Requests : LimiterPc[r] \in {"got", "waiting"} => LimiterPc[r] = pc[r]
      BY DEF LimiterPc
  <2>. QED
      BY <2>1, <2>2 DEF Tick, Limiter!Tick, Limiter!Next
<1>. QED
    BY <1>1, <1>2, <1>3, <1>4, <1>5, <1>6, UndecodableStep DEF PipelineNext

\* Around the limiter as it is: the chain of middlewares implements it.
THEOREM ChainRefinesLimiter == PipelineSpec => Limiter!Spec
<1>1. PipelineInit => Limiter!Init
    BY SameOperators DEF PipelineInit, Init, Limiter!Init, LimiterPc, LimiterReq
<1>2. PipelineInv /\ [PipelineNext]_pipelineVars => [Limiter!Next]_(Limiter!vars)
    BY LimiterStep
<1>. QED
    BY <1>1, <1>2, PipelineInvariance, PTL DEF PipelineSpec, Limiter!Spec

\* Sets are finite, and counted, in the same way there.
LEMMA SameCardinality ==
    /\ \A S : Limiter!IsFiniteSet(S) <=> IsFiniteSet(S)
    /\ \A S : Limiter!Cardinality(S) = Cardinality(S)
<1>1. \A S : Limiter!IsFiniteSet(S) <=> IsFiniteSet(S)
    BY DEF Limiter!IsFiniteSet, IsFiniteSet
<1>2. \A S : Limiter!Cardinality(S) = Cardinality(S)
    BY DEF Limiter!Cardinality, Cardinality
<1>. QED
    BY <1>1, <1>2

\* What the limiter assumes of its constants.
LEMMA SameAssumption ==
    /\ Tokens \in Nat \ {0} /\ Interval \in Nat \ {0} /\ MaxBurst \in Nat \ {0}
    /\ TTL \in Nat \ {0} /\ GCInterval \in Nat \ {0}
    /\ NULL \notin Int \cup [gen : Nat, seen : Nat]
    /\ NoDevice \notin Devices /\ Limiter!IsFiniteSet(Requests)
    /\ CallInputs \subseteq Limiter!Calls
    /\ MaxStall \in Nat /\ LastArrival \in Nat /\ MaxTime \in Nat
<1>1. Limiter!Calls = Calls
    BY DEF Limiter!Calls, Calls
<1>. QED
    BY <1>1, RateAssumption, SameCardinality

\* The requests that the limiter let through are those of the chain.
LEMMA SameBound == Limiter!RateBound => RateBound
<1>1. \A d : Limiter!Granted(d) = Granted(d)
    BY DEF Limiter!Granted, Granted, LimiterPc, LimiterReq
<1>2. Limiter!Capacity = Capacity
    BY DEF Limiter!Capacity, Limiter!Burst, Capacity, Burst
<1>3. \A S, from, to : Limiter!Between(S, from, to) = Between(S, from, to)
    BY DEF Limiter!Between, Between
<1>. QED
    BY <1>1, <1>2, <1>3, SameCardinality DEF Limiter!RateBound, RateBound

\* A bucket with a reservation ahead is in the map of the chain, too.
LEMMA SameBuckets == Limiter!WaitersKeepTheirBucket => WaitersKeepTheirBucket
BY DEF Limiter!WaitersKeepTheirBucket, WaitersKeepTheirBucket, LimiterPc, LimiterReq

\* No request is to wait in the limiter for more than w ticks.
WaitsAtMost(w) == \A r \in Requests : pc[r] = "waiting" => slot[r] - now <= w

\* What is invariant for the limiter is so behind the chain.
LEMMA ChainInvariance ==
    ASSUME NEW CONSTANT w \in Nat, TTL >= MaxStall + Capacity + w
    PROVE  PipelineSpec /\ []WaitsAtMost(w) => [](Limiter!WaitsInv(w))
<1>1. TTL >= MaxStall + Limiter!Capacity + w
    BY DEF Limiter!Capacity, Limiter!Burst, Capacity, Burst
<1>2. Limiter!Init => Limiter!WaitsInv(w)
    BY SameAssumption, Limiter!InitWaits
<1>3. Limiter!WaitsInv(w) /\ [Limiter!Next]_(Limiter!vars) /\ Limiter!WaitsAtMost(w)'
         => Limiter!WaitsInv(w)'
    BY <1>1, SameAssumption, Limiter!StepWaits
<1>4. WaitsAtMost(w) => Limiter!WaitsAtMost(w)
    BY DEF WaitsAtMost, Limiter!WaitsAtMost, LimiterPc
<1>. QED
    BY <1>2, <1>3, <1>4, ChainRefinesLimiter, PTL DEF Limiter!Spec

\* The server as a whole keeps the bound, as long as no request has to wait for
\* so long that its wait and the refill of its bucket exceed the TTL: no order
\* of middlewares, handlers, panics and messages that cannot be decoded lets a
\* device make more requests than the limiter alone would.
THEOREM ChainKeepsRateBound ==
    ASSUME NEW CONSTANT w \in Nat, TTL >= MaxStall + Capacity + w
    PROVE  PipelineSpec /\ []WaitsAtMost(w) => []RateBound
<1>1. Limiter!WaitsInv(w) => RateBound
    BY SameAssumption, SameBound, Limiter!DeviceBound DEF Limiter!WaitsInv, Limiter!Inv
<1>. QED
    BY <1>1, ChainInvariance, PTL

\* Under the same condition a request that waits in the limiter shares its
\* bucket with the requests that come after it, over either API.
THEOREM ChainKeepsBuckets ==
    ASSUME NEW CONSTANT w \in Nat, TTL >= MaxStall + Capacity + w
    PROVE  PipelineSpec /\ []WaitsAtMost(w) => []WaitersKeepTheirBucket
<1>1. /\ Limiter!Capacity + w \in Nat /\ TTL >= MaxStall + (Limiter!Capacity + w)
  <2>1. Limiter!Capacity = Capacity /\ Limiter!Capacity \in Nat
      BY SameAssumption, Limiter!Sizes DEF Limiter!Capacity, Limiter!Burst, Capacity, Burst
  <2>. QED
      BY <2>1, RateAssumption
<1>2. Limiter!WaitsInv(w) => WaitersKeepTheirBucket
    BY <1>1, SameAssumption, SameBuckets, Limiter!WaitersKeep DEF Limiter!WaitsInv
<1>. QED
    BY <1>2, ChainInvariance, PTL

=============================================================================
