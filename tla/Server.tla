------------------------------- MODULE Server -------------------------------
(***************************************************************************)
(* The served API: the blocking accept loop of crates/server/src/main.rs,  *)
(* the Router and RealBackend of crates/server/src/lib.rs and the calls of *)
(* crates/node, composed with the service boundary (module ApiService).    *)
(*                                                                         *)
(* One thread takes the requests in the order they arrived, reads the body *)
(* to its end, routes it and answers.  Reading waits for the client and    *)
(* has no deadline; a call to the node waits at most NodeTimeout.  While   *)
(* the thread waits nothing else of the service moves, so the recording    *)
(* that handle does before a node call is one step with what follows it.   *)
(***************************************************************************)
EXTENDS Integers, Sequences, FiniteSets

CONSTANTS
  Callers, Registered, Nonces, Operations, Requests, Limit, WindowSecs,
  Roots, ChainRoots, MaxTime, MaxAudit, MaxRestarts, ClockSteps,  \* of ApiService
  Conns,           \* connections clients open
  Messages,        \* [path, body] pairs clients send
  NodeTimeout,     \* the agent's timeout in NodeClient.new
  OpBudget,        \* ApiConfig.op_timeout_millis, in the same unit
  Malformed,       \* a body that parse_request does not take
  NoOne            \* no connection

Paths == {"/health", "/readiness", "/metrics", "/v1/operation", "other"}

ASSUME ServerAssumption ==
  /\ Messages \subseteq [path : Paths, body : Requests \cup {Malformed}]
  /\ NodeTimeout \in Nat /\ OpBudget \in Nat
  /\ NoOne \notin Conns /\ Malformed \notin Requests

VARIABLES
  configured,  \* is NODE_RPC_URL set?
  now, seen, windows, audit, reply, life, runs, runsEver, spent, burnt,
  msg,       \* what a connection carries, once it is open
  open,      \* connections whose client is still there
  whole,     \* connections whose body has arrived completely
  queue,     \* requests waiting in the accept loop (external: tiny_http)
  current,   \* the request being served
  stage,     \* where the thread is
  status,    \* the answer of each connection
  ran,       \* connections of this life whose request reached the backend
  metrics    \* ob_operations_total{outcome}

apiVars == <<now, seen, windows, audit, reply, life, runs, runsEver, spent, burnt>>
connVars == <<msg, open, whole>>
vars == <<configured, apiVars, connVars, queue, current, stage, status, ran, metrics>>

Api == INSTANCE ApiService

(* What ApiService assumes of the constants it shares with the server. *)
ASSUME ApiAssumption ==
  /\ Limit \in Nat \ {0} /\ WindowSecs \in Nat \ {0}
  /\ Requests \subseteq Api!Request
  /\ Registered \subseteq Callers
  /\ MaxTime \in Nat /\ MaxAudit \in Nat /\ MaxRestarts \in Nat

Init ==
  /\ configured \in BOOLEAN
  /\ Api!Init
  /\ msg = [c \in {} |-> Malformed] /\ open = {} /\ whole = {}
  /\ queue = <<>> /\ current = NoOne /\ stage = "accepting"
  /\ status = [c \in {} |-> 0]
  /\ ran = {} /\ metrics = [ok |-> 0, error |-> 0]

-----------------------------------------------------------------------------
(* Clients.  A request is queued when its head has arrived.  The body      *)
(* follows, or never does; a client may hang up at any time.               *)
Connect(c, m) ==
  /\ c \notin DOMAIN msg
  /\ msg' = [d \in DOMAIN msg \cup {c} |-> IF d = c THEN m ELSE msg[d]]
  /\ open' = open \cup {c}
  /\ queue' = Append(queue, c)
  /\ UNCHANGED <<configured, apiVars, whole, current, stage, status, ran, metrics>>

FinishBody(c) ==
  /\ c \in open \ whole
  /\ whole' = whole \cup {c}
  /\ UNCHANGED <<configured, apiVars, msg, open, queue, current, stage, status, ran,
                 metrics>>

HangUp(c) ==
  /\ c \in open
  /\ open' = open \ {c}
  /\ UNCHANGED <<configured, apiVars, msg, whole, queue, current, stage, status, ran,
                 metrics>>

-----------------------------------------------------------------------------
(* The server thread. *)
Take ==
  /\ stage = "accepting" /\ queue # <<>>
  /\ current' = Head(queue) /\ queue' = Tail(queue)
  /\ stage' = "reading"
  /\ UNCHANGED <<configured, apiVars, connVars, status, ran, metrics>>

(* Mutant: the read is retried until the body is complete. *)
ReadBodyInFull ==
  /\ stage = "reading"
  /\ current \in whole
  /\ stage' = "routing"
  /\ UNCHANGED <<configured, apiVars, connVars, queue, current, status, ran, metrics>>

(* read_to_end returns at the end of the body or when the client is gone; *)
(* its error is ignored and what has arrived is routed.                   *)
ReadBody ==
  /\ stage = "reading"
  /\ current \in whole \/ current \notin open
  /\ stage' = "routing"
  /\ UNCHANGED <<configured, apiVars, connVars, queue, current, status, ran, metrics>>

Body == IF current \in whole THEN msg[current].body ELSE Malformed

StatusOf(r) ==
  CASE r = "Ok" -> 200
    [] r \in {"Unauthorized", "Replay", "Expired"} -> 401
    [] r = "Oversize" -> 413
    [] r = "RateLimited" -> 429
    [] r = "Timeout" -> 504
    [] r = "NotTerminated" -> 409
    [] r = "Internal" -> 500

(* The answer is written, or lost with a client that is gone. *)
Respond(code) ==
  /\ status' = [c \in DOMAIN status \cup {current} |->
                  IF c = current THEN code ELSE status[c]]
  /\ current' = NoOne /\ stage' = "accepting"

(* Mutant: only what the service admits is counted. *)
CountAdmitted(code) ==
  metrics' = [ok |-> metrics.ok + (IF code = 200 THEN 1 ELSE 0),
              error |-> metrics.error + (IF code \in {500, 504} THEN 1 ELSE 0)]

(* record_operation, for every request the service was given. *)
Count(code) ==
  metrics' = IF code = 200 THEN [metrics EXCEPT !.ok = @ + 1]
             ELSE [metrics EXCEPT !.error = @ + 1]

(* The endpoints that answer from the process itself; the metrics may not  *)
(* render, and a body that is not a request is a 400 and is not counted.   *)
RouteLocal ==
  /\ stage = "routing"
  /\ \/ msg[current].path = "/health" /\ Respond(200)
     \/ msg[current].path = "/metrics" /\ \E code \in {200, 500} : Respond(code)
     \/ msg[current].path = "other" /\ Respond(404)
     \/ msg[current].path = "/readiness" /\ ~configured /\ Respond(503)
     \/ msg[current].path = "/v1/operation" /\ Body = Malformed /\ Respond(400)
  /\ UNCHANGED <<configured, apiVars, connVars, queue, ran, metrics>>

IsOperation ==
  /\ stage = "routing" /\ msg[current].path = "/v1/operation"
  /\ Body # Malformed

RouteRefused ==
  /\ IsOperation
  /\ Api!Refuse(Body)
  /\ Respond(StatusOf(reply')) /\ Count(StatusOf(reply'))
  /\ UNCHANGED <<configured, connVars, queue, ran>>

CallsNode(r) == r.operation = "overlay.write" /\ configured

(* RealBackend.execute without a node: only a key generation can fail.  It *)
(* takes as long as it takes.                                              *)
RouteLocalBackend ==
  /\ IsOperation
  /\ ~CallsNode(Body)
  /\ \E slow, ok \in BOOLEAN :
       /\ ok \/ Body.operation = "custody.keygen"
       /\ Api!Execute(Body, slow, ok, "plain")
  /\ Respond(StatusOf(reply')) /\ Count(StatusOf(reply'))
  /\ ran' = ran \cup {current}
  /\ UNCHANGED <<configured, connVars, queue>>

(* The thread starts a call to the node, for a probe or for a submission. *)
CallNode ==
  /\ stage = "routing" /\ configured
  /\ \/ msg[current].path = "/readiness" /\ stage' = "probing"
     \/ /\ IsOperation /\ CallsNode(Body) /\ Api!FirstError(Body) = "none"
        /\ stage' = "submitting"
  /\ UNCHANGED <<configured, apiVars, connVars, queue, current, status, ran, metrics>>

(* The call ends after d with a good answer or an error, at the latest     *)
(* with the agent's timeout.                                               *)
EndsAfter(d, good) ==
  /\ d \in 0 .. NodeTimeout
  /\ good => d < NodeTimeout

ProbeEnds(d, good) ==
  /\ stage = "probing" /\ EndsAfter(d, good)
  /\ Respond(IF good THEN 200 ELSE 503)
  /\ UNCHANGED <<configured, apiVars, connVars, queue, ran, metrics>>

(* Mutant: a call that overruns is answered before it is audited. *)
SubmitEndsUnaudited(d, good) ==
  /\ stage = "submitting" /\ EndsAfter(d, good)
  /\ IF d > OpBudget
     THEN /\ reply' = "Timeout"
          /\ UNCHANGED <<now, seen, windows, audit, life, runs, runsEver, spent, burnt>>
     ELSE Api!Execute(Body, FALSE, TRUE, "plain")
  /\ Respond(StatusOf(reply')) /\ Count(StatusOf(reply'))
  /\ ran' = ran \cup {current}
  /\ UNCHANGED <<configured, connVars, queue>>

(* The backend ignores the result of the submission: the operation went    *)
(* well, unless the call took longer than the budget.                      *)
SubmitEnds(d, good) ==
  /\ stage = "submitting" /\ EndsAfter(d, good)
  /\ Api!Execute(Body, d > OpBudget, TRUE, "plain")
  /\ Respond(StatusOf(reply')) /\ Count(StatusOf(reply'))
  /\ ran' = ran \cup {current}
  /\ UNCHANGED <<configured, connVars, queue>>

NodeEnds ==
  \E d \in 0 .. NodeTimeout, good \in BOOLEAN :
    ProbeEnds(d, good) \/ SubmitEnds(d, good)

Serve ==
  \/ Take \/ ReadBody
  \/ RouteLocal \/ RouteRefused \/ RouteLocalBackend
  \/ CallNode \/ NodeEnds

-----------------------------------------------------------------------------
(* handle is given the time read before it was called. *)
Tick(t) ==
  /\ stage # "submitting"
  /\ Api!Tick(t)
  /\ UNCHANGED <<configured, connVars, queue, current, stage, status, ran, metrics>>

(* The process dies at any point and run starts again. *)
Crash ==
  /\ Api!Restart
  /\ open' = {} /\ queue' = <<>> /\ current' = NoOne /\ stage' = "accepting"
  /\ ran' = {} /\ metrics' = [ok |-> 0, error |-> 0]
  /\ status' = [c \in {} |-> 0]
  /\ UNCHANGED <<configured, msg, whole>>

Next ==
  \/ \E c \in Conns, m \in Messages : Connect(c, m)
  \/ \E c \in Conns : FinishBody(c) \/ HangUp(c)
  \/ Serve
  \/ \E t \in 0 .. MaxTime : Tick(t)
  \/ Crash

(* The server thread runs whenever it can, and a node call ends. *)
Spec == Init /\ [][Next]_vars /\ WF_vars(Serve)

(* ... and a client that has begun a request finishes it or hangs up. *)
ClientsFinish == \A c \in Conns : WF_vars(FinishBody(c) \/ (c \notin whole /\ HangUp(c)))
PoliteSpec == Spec /\ ClientsFinish
-----------------------------------------------------------------------------
Operation(c) == msg[c].path = "/v1/operation"

(* The thread and the connections are in states that go together.          *)
TypeOK ==
  /\ Api!TypeOK
  /\ configured \in BOOLEAN
  /\ DOMAIN msg \subseteq Conns /\ \A c \in DOMAIN msg : msg[c] \in Messages
  /\ open \cup whole \subseteq DOMAIN msg
  /\ queue \in Seq(DOMAIN msg)
  /\ stage \in {"accepting", "reading", "routing", "probing", "submitting"}
  /\ IF stage = "accepting" THEN current = NoOne ELSE current \in DOMAIN msg
  /\ DOMAIN status \subseteq DOMAIN msg
  /\ \A c \in DOMAIN status : status[c] \in {200, 400, 401, 404, 413, 429, 500, 503, 504}
  /\ ran \subseteq DOMAIN status
  /\ metrics \in [ok : Nat, error : Nat]

(* The composition implements the service boundary: whatever clients,      *)
(* node and crashes do, each step of the server is one call of handle, a   *)
(* tick, a restart or no step of the service at all.                       *)
ImplementsApi == Api!Spec

(* What a client may conclude from an answer: 200, 500 and 504 mean that   *)
(* the operation reached the backend, and every 4xx that it did not, in    *)
(* particular when a slow node call ends after the time budget.            *)
AnswerTellsEffect ==
  \A c \in DOMAIN status :
    Operation(c) => (status[c] \in {200, 500, 504} <=> c \in ran)

(* Retrying over a new connection is safe: of all the connections that     *)
(* carry the same signed request, at most one reaches the backend and the  *)
(* node in one life of the process, whatever the others were answered.     *)
RetryIsSafe ==
  \A c, d \in ran :
    /\ Operation(c) /\ Operation(d)
    /\ msg[c].body = msg[d].body /\ Api!RequiresAuth(msg[c].body)
    => c = d

(* Between requests the counters agree with what clients were told: each   *)
(* request the service was given is in one series, also when the client    *)
(* hung up, and the audit log has the ones that reached the backend.       *)
MetricsAgree ==
  LET handled == {c \in DOMAIN status : Operation(c) /\ status[c] # 400}
  IN  /\ metrics.ok = Cardinality({c \in handled : status[c] = 200})
      /\ metrics.error = Cardinality({c \in handled : status[c] # 200})
      /\ Len(audit) = Cardinality(ran)

(* Every request whose body has arrived is answered, unless its client     *)
(* leaves: no sequence of requests, slow node calls, hang-ups and crashes  *)
(* stops the loop.                                                         *)
EveryRequestAnswered ==
  \A c \in Conns : (c \in whole \cap open) ~> (c \in DOMAIN status \/ c \notin open)

(* Answers, counters and audit log tell one story about what reached the   *)
(* backend, though route, execute and the metrics write them at different  *)
(* places.                                                                 *)
AnswersSound ==
  /\ TypeOK
  /\ AnswerTellsEffect
  /\ MetricsAgree
=============================================================================
