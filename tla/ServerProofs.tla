---------------------------- MODULE ServerProofs ----------------------------
(***************************************************************************)
(* The server implements the service boundary it is built on: every step   *)
(* of module Server is a step of module ApiService or leaves all of the    *)
(* service's state alone.                                                  *)
(***************************************************************************)
EXTENDS Server, FiniteSetTheorems, TLAPS

(* What is proved of the service boundary, of the service in the server. *)
AP == INSTANCE ApiServiceProofs

(* What the service is given is a request: bodies are requests or are      *)
(* refused, and a submission is under way only for a body that was taken.  *)
BodyInv ==
  /\ open \cup whole \subseteq DOMAIN msg
  /\ \A c \in DOMAIN msg : msg[c].body \in Requests \cup {Malformed}
  /\ stage = "submitting" => Body \in Requests

(* An operation that is routed is one of Requests. *)
LEMMA BodyIsRequest ==
  ASSUME BodyInv, IsOperation
  PROVE  Body \in Requests
BY DEF BodyInv, IsOperation, Body

(* No client, no step of the thread, no tick and no crash disturbs what    *)
(* is known of the bodies: the body of the request being served stays.     *)
LEMMA BodyInvariant == Spec => []BodyInv
<1>1. Init => BodyInv
  BY DEF Init, BodyInv
<1>2. BodyInv /\ [Next]_vars => BodyInv'
  <2> SUFFICES ASSUME BodyInv, [Next]_vars
               PROVE  BodyInv'
    OBVIOUS
  <2>1. ASSUME NEW c \in Conns, NEW m \in Messages, Connect(c, m)
        PROVE  BodyInv'
    <3>1. m.body \in Requests \cup {Malformed}
      BY ServerAssumption
    <3>2. /\ DOMAIN msg' = DOMAIN msg \cup {c}
          /\ \A d \in DOMAIN msg : msg'[d] = msg[d]
          /\ msg'[c] = m /\ c \notin DOMAIN msg
      BY <2>1 DEF Connect
    <3>3. /\ whole \subseteq whole' /\ whole' \subseteq whole \cup {c}
          /\ open' = open \cup {c}
      BY <2>1 DEF Connect
    <3>4. stage' = stage /\ current' = current
      BY <2>1 DEF Connect
    <3>5. stage' = "submitting" => Body' \in Requests
      <4> SUFFICES ASSUME stage = "submitting"
                   PROVE  Body' \in Requests
        BY <3>4
      <4>1. Body \in Requests /\ current \in whole
        BY ServerAssumption DEF BodyInv, Body
      <4>2. msg'[current] = msg[current] /\ current' \in whole'
        BY <4>1, <3>2, <3>3, <3>4 DEF BodyInv
      <4> QED
        BY <4>1, <4>2, <3>4 DEF Body
    <3> QED
      BY <3>1, <3>2, <3>3, <3>5 DEF BodyInv
  <2>2. ASSUME NEW c \in Conns, FinishBody(c)
        PROVE  BodyInv'
    <3>1. stage = "submitting" => Body' = Body
      BY <2>2, ServerAssumption DEF FinishBody, BodyInv, Body
    <3> QED
      BY <2>2, <3>1 DEF FinishBody, BodyInv
  <2>3. ASSUME NEW c \in Conns, HangUp(c)
        PROVE  BodyInv'
    BY <2>3 DEF HangUp, BodyInv, Body
  <2>4. ASSUME Take \/ ReadBody
        PROVE  BodyInv'
    BY <2>4 DEF Take, ReadBody, BodyInv, connVars
  <2>5. ASSUME RouteLocal \/ RouteRefused \/ RouteLocalBackend
        PROVE  BodyInv'
    <3>1. stage' = "accepting"
      BY <2>5 DEF RouteLocal, RouteRefused, RouteLocalBackend, Respond
    <3>2. UNCHANGED connVars
      BY <2>5 DEF RouteLocal, RouteRefused, RouteLocalBackend
    <3> QED
      BY <3>1, <3>2 DEF BodyInv, connVars
  <2>6. ASSUME CallNode
        PROVE  BodyInv'
    <3>1. UNCHANGED <<connVars, current>>
      BY <2>6 DEF CallNode
    <3>2. stage' = "submitting" => Body \in Requests
      BY <2>6, BodyIsRequest DEF CallNode
    <3> QED
      BY <3>1, <3>2 DEF BodyInv, connVars, Body
  <2>7. ASSUME NodeEnds
        PROVE  BodyInv'
    <3>1. stage' = "accepting" /\ UNCHANGED connVars
      BY <2>7 DEF NodeEnds, ProbeEnds, SubmitEnds, Respond
    <3> QED
      BY <3>1 DEF BodyInv, connVars
  <2>8. ASSUME NEW t \in 0 .. MaxTime, Tick(t)
        PROVE  BodyInv'
    BY <2>8 DEF Tick, BodyInv, connVars, Body
  <2>9. ASSUME Crash
        PROVE  BodyInv'
    BY <2>9 DEF Crash, BodyInv
  <2>10. ASSUME UNCHANGED vars
         PROVE  BodyInv'
    BY <2>10 DEF vars, connVars, BodyInv, Body
  <2> QED
    BY <2>1, <2>2, <2>3, <2>4, <2>5, <2>6, <2>7, <2>8, <2>9, <2>10 DEF Next, Serve
<1> QED
  BY <1>1, <1>2, PTL DEF Spec

-----------------------------------------------------------------------------
(* The detailed specification implements the abstract one: handle is       *)
(* called once per operation request, with a request of Requests, and no   *)
(* client, probe, queue operation or unfinished node call touches the      *)
(* service's stores in between.                                            *)
THEOREM ServerImplementsApi == Spec => ImplementsApi
<1>1. Init => Api!Init
  BY DEF Init
<1>2. BodyInv /\ [Next]_vars => [Api!Next]_(Api!vars)
  <2> SUFFICES ASSUME BodyInv, [Next]_vars
               PROVE  Api!Next \/ UNCHANGED Api!vars
    OBVIOUS
  <2>1. ASSUME NEW c \in Conns, NEW m \in Messages, Connect(c, m)
        PROVE  UNCHANGED Api!vars
    BY <2>1 DEF Connect, apiVars, Api!vars
  <2>2. ASSUME NEW c \in Conns, FinishBody(c) \/ HangUp(c)
        PROVE  UNCHANGED Api!vars
    BY <2>2 DEF FinishBody, HangUp, apiVars, Api!vars
  <2>3. ASSUME Take \/ ReadBody \/ RouteLocal \/ CallNode
        PROVE  UNCHANGED Api!vars
    BY <2>3 DEF Take, ReadBody, RouteLocal, CallNode, apiVars, Api!vars
  <2>4. ASSUME RouteRefused
        PROVE  Api!Next
    <3>1. Body \in Requests /\ Api!Refuse(Body)
      BY <2>4, BodyIsRequest DEF RouteRefused
    <3> QED
      BY <3>1 DEF Api!Next, Api!Handle
  <2>5. ASSUME RouteLocalBackend
        PROVE  Api!Next
    <3>1. Body \in Requests
      BY <2>5, BodyIsRequest DEF RouteLocalBackend
    <3>2. PICK slow \in BOOLEAN, ok \in BOOLEAN : Api!Execute(Body, slow, ok, "plain")
      BY <2>5 DEF RouteLocalBackend
    <3> QED
      BY <3>1, <3>2 DEF Api!Next, Api!Handle
  <2>6. ASSUME NodeEnds
        PROVE  Api!Next \/ UNCHANGED Api!vars
    <3>1. PICK d \in 0 .. NodeTimeout, good \in BOOLEAN :
            ProbeEnds(d, good) \/ SubmitEnds(d, good)
      BY <2>6 DEF NodeEnds
    <3>2. CASE ProbeEnds(d, good)
      BY <3>2 DEF ProbeEnds, apiVars, Api!vars
    <3>3. CASE SubmitEnds(d, good)
      <4>1. Body \in Requests /\ Api!Execute(Body, d > OpBudget, TRUE, "plain")
        BY <3>3 DEF SubmitEnds, BodyInv
      <4>2. (d > OpBudget) \in BOOLEAN
        OBVIOUS
      <4> QED
        BY <4>1, <4>2 DEF Api!Next, Api!Handle
    <3> QED
      BY <3>1, <3>2, <3>3
  <2>7. ASSUME NEW t \in 0 .. MaxTime, Tick(t)
        PROVE  Api!Next
    BY <2>7 DEF Tick, Api!Next
  <2>8. ASSUME Crash
        PROVE  Api!Next
    BY <2>8 DEF Crash, Api!Next
  <2>9. ASSUME UNCHANGED vars
        PROVE  UNCHANGED Api!vars
    BY <2>9 DEF vars, apiVars, Api!vars
  <2> QED
    BY <2>1, <2>2, <2>3, <2>4, <2>5, <2>6, <2>7, <2>8, <2>9 DEF Next, Serve
<1> QED
  BY <1>1, <1>2, BodyInvariant, PTL DEF Spec, ImplementsApi, Api!Spec

-----------------------------------------------------------------------------
(* Why a retry is safe: whatever reached the backend in this life has left *)
(* its nonce in the store, and only an unseen nonce reaches the backend.   *)
RetryInv ==
  /\ BodyInv
  /\ ran \subseteq DOMAIN msg
  /\ \A c \in ran : Api!RequiresAuth(msg[c].body) => Api!Key(msg[c].body) \in seen
  /\ RetryIsSafe

(* An execution records the nonce of an authenticated request, which it    *)
(* had not seen before, and forgets none.                                  *)
LEMMA ExecuteRecords ==
  ASSUME NEW r, NEW slow, NEW ok, Api!Execute(r, slow, ok, "plain")
  PROVE  /\ seen \subseteq seen'
         /\ Api!RequiresAuth(r) => Api!Key(r) \notin seen /\ Api!Key(r) \in seen'
BY DEF Api!Execute, Api!Recorded, Api!FirstError

(* The step that matters: the request being served reaches the backend.    *)
LEMMA RunKeepsRetryInv ==
  ASSUME RetryInv, Body \in Requests, NEW slow, NEW ok,
         Api!Execute(Body, slow, ok, "plain"),
         ran' = ran \cup {current}, UNCHANGED connVars, stage' = "accepting"
  PROVE  RetryInv'
<1>1. Body = msg[current].body /\ current \in DOMAIN msg
  BY ServerAssumption DEF RetryInv, BodyInv, Body
<1>2. seen \subseteq seen'
  BY ExecuteRecords
<1>3. Api!RequiresAuth(msg[current].body) =>
        Api!Key(msg[current].body) \notin seen /\ Api!Key(msg[current].body) \in seen'
  BY <1>1, ExecuteRecords
<1>4. BodyInv'
  BY DEF RetryInv, BodyInv, connVars
<1>5. msg' = msg
  BY DEF connVars
<1>6. ran' \subseteq DOMAIN msg'
  BY <1>1, <1>5 DEF RetryInv
<1>7. \A c \in ran' : Api!RequiresAuth(msg[c].body) => Api!Key(msg[c].body) \in seen'
  BY <1>2, <1>3 DEF RetryInv
<1>8. ASSUME NEW c \in ran', NEW d \in ran', Operation(c), Operation(d),
             msg[c].body = msg[d].body, Api!RequiresAuth(msg[c].body)
      PROVE  c = d
  <2>1. CASE c \in ran /\ d \in ran
    BY <1>8, <2>1 DEF RetryInv, RetryIsSafe
  <2>2. CASE c = current \/ d = current
    BY <1>8, <1>3, <2>2 DEF RetryInv
  <2> QED
    BY <2>1, <2>2
<1>9. RetryIsSafe'
  BY <1>5, <1>8 DEF RetryIsSafe, Operation, Api!RequiresAuth
<1> QED
  BY <1>4, <1>5, <1>6, <1>7, <1>9 DEF RetryInv, Api!RequiresAuth, Api!Key

(* Retries over any number of connections, with any answers in between:    *)
(* one signed request reaches the backend, and so the node, at most once   *)
(* in one life of the process.                                             *)
THEOREM RetriesAreSafe == Spec => []RetryIsSafe
<1>1. Init => RetryInv
  BY DEF Init, RetryInv, BodyInv, RetryIsSafe
<1>2. RetryInv /\ BodyInv' /\ [Next]_vars => RetryInv'
  <2> SUFFICES ASSUME RetryInv, BodyInv', [Next]_vars
               PROVE  RetryInv'
    OBVIOUS
  <2>1. ASSUME NEW c \in Conns, NEW m \in Messages, Connect(c, m)
        PROVE  RetryInv'
    <3>1. /\ DOMAIN msg' = DOMAIN msg \cup {c}
          /\ \A d \in DOMAIN msg : msg'[d] = msg[d]
      BY <2>1 DEF Connect
    <3>2. ran' = ran /\ seen' = seen
      BY <2>1 DEF Connect, apiVars
    <3>3. \A d \in ran : msg'[d] = msg[d]
      BY <3>1 DEF RetryInv
    <3> QED
      BY <3>1, <3>2, <3>3 DEF RetryInv, RetryIsSafe, Operation, Api!RequiresAuth, Api!Key
  <2>2. ASSUME UNCHANGED <<msg, ran>>, seen \subseteq seen'
        PROVE  RetryInv'
    BY <2>2 DEF RetryInv, RetryIsSafe, Operation, Api!RequiresAuth, Api!Key
  <2>3. ASSUME NEW c \in Conns, FinishBody(c) \/ HangUp(c)
        PROVE  RetryInv'
    BY <2>2, <2>3 DEF FinishBody, HangUp, apiVars
  <2>4. ASSUME Take \/ ReadBody \/ RouteLocal \/ CallNode
        PROVE  RetryInv'
    BY <2>2, <2>4 DEF Take, ReadBody, RouteLocal, CallNode, apiVars, connVars
  <2>5. ASSUME RouteRefused
        PROVE  RetryInv'
    <3>1. UNCHANGED <<msg, ran>> /\ seen \subseteq seen'
      BY <2>5 DEF RouteRefused, connVars, Api!Refuse, Api!Recorded
    <3> QED
      BY <2>2, <3>1
  <2>6. ASSUME RouteLocalBackend
        PROVE  RetryInv'
    <3>1. Body \in Requests
      BY <2>6, BodyIsRequest DEF RouteLocalBackend, RetryInv
    <3>2. PICK slow \in BOOLEAN, ok \in BOOLEAN : Api!Execute(Body, slow, ok, "plain")
      BY <2>6 DEF RouteLocalBackend
    <3>3. ran' = ran \cup {current} /\ UNCHANGED connVars /\ stage' = "accepting"
      BY <2>6 DEF RouteLocalBackend, Respond
    <3> QED
      BY <3>1, <3>2, <3>3, RunKeepsRetryInv
  <2>7. ASSUME NodeEnds
        PROVE  RetryInv'
    <3>1. PICK d \in 0 .. NodeTimeout, good \in BOOLEAN :
            ProbeEnds(d, good) \/ SubmitEnds(d, good)
      BY <2>7 DEF NodeEnds
    <3>2. CASE ProbeEnds(d, good)
      BY <2>2, <3>2 DEF ProbeEnds, apiVars, connVars
    <3>3. CASE SubmitEnds(d, good)
      <4>1. Body \in Requests /\ Api!Execute(Body, d > OpBudget, TRUE, "plain")
        BY <3>3 DEF SubmitEnds, RetryInv, BodyInv
      <4>2. ran' = ran \cup {current} /\ UNCHANGED connVars /\ stage' = "accepting"
        BY <3>3 DEF SubmitEnds, Respond
      <4> QED
        BY <4>1, <4>2, RunKeepsRetryInv
    <3> QED
      BY <3>1, <3>2, <3>3
  <2>8. ASSUME NEW t \in 0 .. MaxTime, Tick(t)
        PROVE  RetryInv'
    BY <2>2, <2>8 DEF Tick, connVars, Api!Tick
  <2>9. ASSUME Crash
        PROVE  RetryInv'
    BY <2>9 DEF Crash, RetryInv, RetryIsSafe
  <2>10. ASSUME UNCHANGED vars
         PROVE  RetryInv'
    BY <2>2, <2>10 DEF vars, apiVars, connVars
  <2> QED
    BY <2>1, <2>3, <2>4, <2>5, <2>6, <2>7, <2>8, <2>9, <2>10 DEF Next, Serve
<1>3. RetryInv => RetryIsSafe
  BY DEF RetryInv
<1> QED
  BY <1>1, <1>2, <1>3, BodyInvariant, PTL DEF Spec
-----------------------------------------------------------------------------
(* The service in the server is the one ApiServiceProofs is about. *)
LEMMA SameInit == Api!Init => AP!Init
BY DEF Api!Init, AP!Init, Api!Fresh, AP!Fresh, Api!Windows, AP!Windows

LEMMA SameStep == [Api!Next]_(Api!vars) => [AP!Next]_(AP!vars)
<1>1. Api!Next => AP!Next
  BY DEF Api!Next, AP!Next, Api!Handle, AP!Handle, Api!Refuse, AP!Refuse,
         Api!Execute, AP!Execute, Api!Tick, AP!Tick, Api!Restart, AP!Restart,
         Api!FirstError, AP!FirstError, Api!IdentityError, AP!IdentityError,
         Api!Recorded, AP!Recorded, Api!Account, AP!Account, Api!Allowed, AP!Allowed,
         Api!Entry, AP!Entry, Api!WindowOf, AP!WindowOf, Api!Key, AP!Key,
         Api!RequiresAuth, AP!RequiresAuth, Api!Audited, AP!Audited,
         Api!ReplyTo, AP!ReplyTo, Api!Fresh, AP!Fresh, Api!Windows, AP!Windows
<1> QED
  BY <1>1 DEF Api!vars, AP!vars

LEMMA SharedAssumption ==
  /\ Limit \in Nat \ {0} /\ WindowSecs \in Nat \ {0}
  /\ Requests \subseteq AP!Request /\ Registered \subseteq Callers
  /\ MaxTime \in Nat /\ MaxAudit \in Nat /\ MaxRestarts \in Nat
BY ApiAssumption DEF Api!Request, AP!Request

(* So what every behaviour of the service keeps, the server keeps. *)
LEMMA ServiceKept == Spec => [](AP!AuditSound /\ AP!ReplayNeedsRestart)
<1>1. Spec => AP!Spec
  BY ServerImplementsApi, SameInit, SameStep, PTL DEF ImplementsApi, Api!Spec, AP!Spec
<1>2. AP!Spec => []AP!AuditSound
  BY SharedAssumption, AP!AuditLogSound, PTL
<1>3. AP!Spec => []AP!ReplayNeedsRestart
  BY SharedAssumption, AP!ReplayTakesARestart, PTL
<1> QED
  BY <1>1, <1>2, <1>3, PTL

LEMMA ServiceTypes == Spec => []Api!TypeOK
<1>1. AP!AuditSound => Api!TypeOK
  BY DEF AP!AuditSound, AP!TypeOK, Api!TypeOK, AP!Windows, Api!Windows, AP!AuditEntry,
         Api!AuditEntry, AP!Rejections, Api!Rejections, AP!Outcomes, Api!Outcomes
<1> QED
  BY <1>1, ServiceKept, PTL

-----------------------------------------------------------------------------
(* Where a connection is: waiting in the queue once, being served, or      *)
(* answered, and never two of these.  The stage tells which endpoint is    *)
(* being served.                                                           *)
ThreadInv ==
  /\ BodyInv
  /\ configured \in BOOLEAN
  /\ DOMAIN msg \subseteq Conns /\ \A c \in DOMAIN msg : msg[c] \in Messages
  /\ queue \in Seq(DOMAIN msg)
  /\ stage \in {"accepting", "reading", "routing", "probing", "submitting"}
  /\ IF stage = "accepting" THEN current = NoOne ELSE current \in DOMAIN msg \ DOMAIN status
  /\ stage = "probing" => ~Operation(current)
  /\ stage = "submitting" => Operation(current)
  /\ DOMAIN status \subseteq DOMAIN msg
  /\ \A i \in 1 .. Len(queue) : queue[i] # current /\ queue[i] \notin DOMAIN status
  /\ \A i, j \in 1 .. Len(queue) : i # j => queue[i] # queue[j]

(* A new connection goes to the end of the queue. *)
LEMMA ConnectKeepsThread ==
  ASSUME ThreadInv, BodyInv', NEW c \in Conns, NEW m \in Messages, Connect(c, m)
  PROVE  ThreadInv'
<1>1. /\ DOMAIN msg' = DOMAIN msg \cup {c} /\ c \notin DOMAIN msg
      /\ \A d \in DOMAIN msg : msg'[d] = msg[d]
      /\ msg'[c] = m
  BY DEF Connect
<1>2. /\ queue' = Append(queue, c)
      /\ UNCHANGED <<configured, current, stage, status>>
  BY DEF Connect
<1>3. queue \in Seq(DOMAIN msg')
  BY <1>1 DEF ThreadInv
<1>4. /\ queue' \in Seq(DOMAIN msg') /\ Len(queue') = Len(queue) + 1 /\ Len(queue) \in Nat
      /\ \A i \in 1 .. Len(queue) : queue'[i] = queue[i] /\ queue[i] \in DOMAIN msg
      /\ queue'[Len(queue) + 1] = c
  BY <1>1, <1>2, <1>3 DEF ThreadInv
<1>5. current # c
  BY <1>1, ServerAssumption DEF ThreadInv
<1>6. \A i \in 1 .. Len(queue') : queue'[i] # current' /\ queue'[i] \notin DOMAIN status'
  BY <1>1, <1>2, <1>4, <1>5 DEF ThreadInv
<1>7. \A i, j \in 1 .. Len(queue') : i # j => queue'[i] # queue'[j]
  BY <1>1, <1>4 DEF ThreadInv
<1>8. /\ stage' = "probing" => ~Operation(current)'
      /\ stage' = "submitting" => Operation(current)'
      /\ IF stage' = "accepting" THEN current' = NoOne
         ELSE current' \in DOMAIN msg' \ DOMAIN status'
  BY <1>1, <1>2 DEF ThreadInv, Operation
<1> QED
  BY <1>1, <1>2, <1>4, <1>6, <1>7, <1>8 DEF ThreadInv

(* The thread takes the head of the queue. *)
LEMMA TakeKeepsThread ==
  ASSUME ThreadInv, BodyInv', Take
  PROVE  ThreadInv'
<1>1. /\ queue # <<>> /\ current' = Head(queue) /\ queue' = Tail(queue)
      /\ stage' = "reading" /\ UNCHANGED <<configured, msg, status>>
  BY DEF Take, connVars
<1>2. /\ queue' \in Seq(DOMAIN msg) /\ Len(queue') = Len(queue) - 1 /\ Len(queue) \in Nat \ {0}
      /\ \A i \in 1 .. Len(queue') : queue'[i] = queue[i + 1]
      /\ current' = queue[1] /\ queue[1] \in DOMAIN msg
  BY <1>1 DEF ThreadInv
<1>3. /\ \A i \in 1 .. Len(queue') : queue'[i] # current' /\ queue'[i] \notin DOMAIN status
      /\ \A i, j \in 1 .. Len(queue') : i # j => queue'[i] # queue'[j]
      /\ current' \notin DOMAIN status
  BY <1>2 DEF ThreadInv
<1> QED
  BY <1>1, <1>2, <1>3 DEF ThreadInv

(* A step that leaves the queue and the answers alone. *)
LEMMA QuietThread ==
  ASSUME ThreadInv, BodyInv', UNCHANGED <<configured, msg, queue, status, current>>,
         stage' \in {"accepting", "reading", "routing", "probing", "submitting"},
         stage = "accepting" <=> stage' = "accepting",
         stage' = "probing" => ~Operation(current),
         stage' = "submitting" => Operation(current)
  PROVE  ThreadInv'
BY DEF ThreadInv, Operation

(* The request being served is answered. *)
LEMMA RespondKeepsThread ==
  ASSUME ThreadInv, BodyInv', stage # "accepting", NEW code, Respond(code),
         UNCHANGED <<configured, msg, queue>>
  PROVE  ThreadInv'
<1>1. /\ DOMAIN status' = DOMAIN status \cup {current}
      /\ current' = NoOne /\ stage' = "accepting"
  BY DEF Respond
<1>2. current \in DOMAIN msg \ DOMAIN status /\ NoOne \notin DOMAIN msg
  BY ServerAssumption DEF ThreadInv
<1>3. \A i \in 1 .. Len(queue) : queue[i] # NoOne /\ queue[i] \notin DOMAIN status'
  BY <1>1, <1>2 DEF ThreadInv
<1> QED
  BY <1>1, <1>2, <1>3 DEF ThreadInv

LEMMA ThreadInvariant == Spec => []ThreadInv
<1>1. Init => ThreadInv
  BY DEF Init, ThreadInv, BodyInv
<1>2. ThreadInv /\ BodyInv' /\ [Next]_vars => ThreadInv'
  <2> SUFFICES ASSUME ThreadInv, BodyInv', [Next]_vars
               PROVE  ThreadInv'
    OBVIOUS
  <2>1. ASSUME NEW c \in Conns, NEW m \in Messages, Connect(c, m)
        PROVE  ThreadInv'
    BY <2>1, ConnectKeepsThread
  <2>2. ASSUME NEW c \in Conns, FinishBody(c) \/ HangUp(c)
        PROVE  ThreadInv'
    <3>1. UNCHANGED <<configured, msg, queue, status, current, stage>>
      BY <2>2 DEF FinishBody, HangUp
    <3> QED
      BY <3>1, QuietThread DEF ThreadInv
  <2>3. ASSUME Take
        PROVE  ThreadInv'
    BY <2>3, TakeKeepsThread
  <2>4. ASSUME ReadBody
        PROVE  ThreadInv'
    <3>1. /\ UNCHANGED <<configured, msg, queue, status, current>>
          /\ stage = "reading" /\ stage' = "routing"
      BY <2>4 DEF ReadBody, connVars
    <3> QED
      BY <3>1, QuietThread DEF ThreadInv
  <2>5. ASSUME RouteLocal \/ RouteRefused \/ RouteLocalBackend
        PROVE  ThreadInv'
    <3>1. stage # "accepting" /\ UNCHANGED <<configured, msg, queue>>
      BY <2>5 DEF RouteLocal, RouteRefused, RouteLocalBackend, IsOperation, connVars
    <3>2. \E code : Respond(code)
      BY <2>5 DEF RouteLocal, RouteRefused, RouteLocalBackend
    <3> QED
      BY <3>1, <3>2, RespondKeepsThread
  <2>6. ASSUME CallNode
        PROVE  ThreadInv'
    <3>1. UNCHANGED <<configured, msg, queue, status, current>> /\ stage = "routing"
      BY <2>6 DEF CallNode, connVars
    <3>2. \/ stage' = "probing" /\ ~Operation(current)
          \/ stage' = "submitting" /\ Operation(current)
      BY <2>6 DEF CallNode, Operation, IsOperation
    <3> QED
      BY <3>1, <3>2, QuietThread
  <2>7. ASSUME NodeEnds
        PROVE  ThreadInv'
    <3>1. stage # "accepting" /\ UNCHANGED <<configured, msg, queue>>
      BY <2>7 DEF NodeEnds, ProbeEnds, SubmitEnds, connVars
    <3>2. \E code : Respond(code)
      BY <2>7 DEF NodeEnds, ProbeEnds, SubmitEnds
    <3> QED
      BY <3>1, <3>2, RespondKeepsThread
  <2>8. ASSUME NEW t \in 0 .. MaxTime, Tick(t)
        PROVE  ThreadInv'
    <3>1. UNCHANGED <<configured, msg, queue, status, current, stage>>
      BY <2>8 DEF Tick, connVars
    <3> QED
      BY <3>1, QuietThread DEF ThreadInv
  <2>9. ASSUME Crash
        PROVE  ThreadInv'
    BY <2>9 DEF Crash, ThreadInv
  <2>10. ASSUME UNCHANGED vars
         PROVE  ThreadInv'
    <3>1. UNCHANGED <<configured, msg, queue, status, current, stage>>
      BY <2>10 DEF vars, connVars
    <3> QED
      BY <3>1, QuietThread DEF ThreadInv
  <2> QED
    BY <2>1, <2>2, <2>3, <2>4, <2>5, <2>6, <2>7, <2>8, <2>9, <2>10 DEF Next, Serve
<1> QED
  BY <1>1, <1>2, BodyInvariant, PTL DEF Spec

-----------------------------------------------------------------------------
(* The operations answered with a 200, and with any other answer of the    *)
(* service.                                                                *)
Handled == {c \in DOMAIN status : Operation(c) /\ status[c] # 400}
Succeeded == {c \in Handled : status[c] = 200}
Failed == {c \in Handled : status[c] # 200}

Codes == {200, 400, 401, 404, 413, 429, 500, 503, 504}

(* The inductive invariant of the answers: MetricsAgree, with the sets it  *)
(* counts finite, of however many connections there are.                   *)
AnswerInv ==
  /\ \A c \in DOMAIN status : status[c] \in Codes
  /\ ran \subseteq DOMAIN status /\ IsFiniteSet(ran)
  /\ metrics \in [ok : Nat, error : Nat]
  /\ AnswerTellsEffect
  /\ IsFiniteSet(Succeeded) /\ metrics.ok = Cardinality(Succeeded)
  /\ IsFiniteSet(Failed) /\ metrics.error = Cardinality(Failed)
  /\ Len(audit) = Cardinality(ran)

(* A step that answers nothing and runs nothing. *)
LEMMA QuietAnswers ==
  ASSUME AnswerInv, DOMAIN status \subseteq DOMAIN msg,
         UNCHANGED <<status, ran, metrics, audit>>,
         \A c \in DOMAIN msg : msg'[c] = msg[c]
  PROVE  AnswerInv'
<1>1. \A c \in DOMAIN status : Operation(c)' <=> Operation(c)
  BY DEF Operation
<1>2. Handled' = Handled
  BY <1>1 DEF Handled
<1>3. Succeeded' = Succeeded /\ Failed' = Failed
  BY <1>2 DEF Succeeded, Failed, Handled
<1>4. AnswerTellsEffect'
  BY <1>1 DEF AnswerInv, AnswerTellsEffect
<1> QED
  BY <1>3, <1>4 DEF AnswerInv

(* How an answer changes the sets. *)
LEMMA RespondSets ==
  ASSUME NEW code, Respond(code), current \notin DOMAIN status, msg' = msg
  PROVE  /\ DOMAIN status' = DOMAIN status \cup {current}
         /\ status'[current] = code
         /\ \A c \in DOMAIN status : status'[c] = status[c]
         /\ Succeeded' = IF Operation(current) /\ code = 200
                         THEN Succeeded \cup {current} ELSE Succeeded
         /\ Failed' = IF Operation(current) /\ code \notin {200, 400}
                      THEN Failed \cup {current} ELSE Failed
         /\ current \notin Succeeded /\ current \notin Failed
<1>1. /\ DOMAIN status' = DOMAIN status \cup {current}
      /\ status'[current] = code
      /\ \A c \in DOMAIN status : status'[c] = status[c]
  BY DEF Respond
<1>2. \A c : Operation(c)' <=> Operation(c)
  BY DEF Operation
<1>3. Handled' = IF Operation(current) /\ code # 400 THEN Handled \cup {current} ELSE Handled
  BY <1>1, <1>2 DEF Handled
<1>4. Succeeded' = IF Operation(current) /\ code = 200
                   THEN Succeeded \cup {current} ELSE Succeeded
  BY <1>1, <1>3 DEF Succeeded, Handled
<1>5. Failed' = IF Operation(current) /\ code \notin {200, 400}
                THEN Failed \cup {current} ELSE Failed
  BY <1>1, <1>3 DEF Failed, Handled
<1> QED
  BY <1>1, <1>4, <1>5 DEF Succeeded, Failed, Handled

(* The process answers by itself: not an operation, or a 400. *)
LEMMA LocalAnswers ==
  ASSUME AnswerInv, NEW code \in Codes, Respond(code), current \notin DOMAIN status,
         UNCHANGED <<msg, ran, metrics, audit>>, Operation(current) => code = 400
  PROVE  AnswerInv'
<1>1. /\ DOMAIN status' = DOMAIN status \cup {current} /\ status'[current] = code
      /\ \A c \in DOMAIN status : status'[c] = status[c]
      /\ Succeeded' = Succeeded /\ Failed' = Failed
  BY RespondSets
<1>2. AnswerTellsEffect'
  <2> SUFFICES ASSUME NEW c \in DOMAIN status', Operation(c)
               PROVE  status'[c] \in {200, 500, 504} <=> c \in ran
    BY DEF AnswerTellsEffect, Operation
  <2>1. CASE c = current
    BY <1>1, <2>1 DEF AnswerInv
  <2>2. CASE c # current
    BY <1>1, <2>2 DEF AnswerInv, AnswerTellsEffect
  <2> QED
    BY <2>1, <2>2
<1> QED
  BY <1>1, <1>2 DEF AnswerInv

(* One more operation is counted: in one series, and in no other. *)
LEMMA CountedAnswer ==
  ASSUME AnswerInv, NEW code \in Codes \ {400}, Respond(code), Count(code),
         current \notin DOMAIN status, msg' = msg, Operation(current)
  PROVE  /\ metrics' \in [ok : Nat, error : Nat]
         /\ IsFiniteSet(Succeeded)' /\ metrics'.ok = Cardinality(Succeeded)'
         /\ IsFiniteSet(Failed)' /\ metrics'.error = Cardinality(Failed)'
<1>1. /\ metrics \in [ok : Nat, error : Nat]
      /\ IsFiniteSet(Succeeded) /\ metrics.ok = Cardinality(Succeeded)
      /\ IsFiniteSet(Failed) /\ metrics.error = Cardinality(Failed)
  BY DEF AnswerInv
<1>2. current \notin Succeeded /\ current \notin Failed
  BY RespondSets
<1>3. /\ IsFiniteSet(Succeeded \cup {current})
      /\ Cardinality(Succeeded \cup {current}) = Cardinality(Succeeded) + 1
  BY <1>1, <1>2, FS_AddElement
<1>4. /\ IsFiniteSet(Failed \cup {current})
      /\ Cardinality(Failed \cup {current}) = Cardinality(Failed) + 1
  BY <1>1, <1>2, FS_AddElement
<1>5. CASE code = 200
  <2>1. Succeeded' = Succeeded \cup {current} /\ Failed' = Failed
    BY <1>5, RespondSets
  <2>2. metrics' = [metrics EXCEPT !.ok = metrics.ok + 1]
    BY <1>5 DEF Count
  <2>3. /\ metrics' \in [ok : Nat, error : Nat]
        /\ metrics'.ok = metrics.ok + 1 /\ metrics'.error = metrics.error
    BY <1>1, <2>2
  <2> QED
    BY <1>1, <1>3, <2>1, <2>3
<1>6. CASE code # 200
  <2>1. Failed' = Failed \cup {current} /\ Succeeded' = Succeeded
    BY <1>6, RespondSets
  <2>2. metrics' = [metrics EXCEPT !.error = metrics.error + 1]
    BY <1>6 DEF Count
  <2>3. /\ metrics' \in [ok : Nat, error : Nat]
        /\ metrics'.error = metrics.error + 1 /\ metrics'.ok = metrics.ok
    BY <1>1, <2>2
  <2> QED
    BY <1>1, <1>4, <2>1, <2>3
<1> QED
  BY <1>5, <1>6

(* The service refused: nothing ran, whatever the code says. *)
LEMMA RefusedAnswers ==
  ASSUME AnswerInv, NEW code \in {401, 413, 429}, Respond(code), Count(code),
         current \notin DOMAIN status, UNCHANGED <<msg, ran, audit>>, Operation(current)
  PROVE  AnswerInv'
<1>1. /\ DOMAIN status' = DOMAIN status \cup {current} /\ status'[current] = code
      /\ \A c \in DOMAIN status : status'[c] = status[c]
  BY RespondSets
<1>2. AnswerTellsEffect'
  <2> SUFFICES ASSUME NEW c \in DOMAIN status', Operation(c)
               PROVE  status'[c] \in {200, 500, 504} <=> c \in ran
    BY DEF AnswerTellsEffect, Operation
  <2>1. CASE c = current
    BY <1>1, <2>1 DEF AnswerInv
  <2>2. CASE c # current
    BY <1>1, <2>2 DEF AnswerInv, AnswerTellsEffect
  <2> QED
    BY <2>1, <2>2
<1>3. code \in Codes \ {400}
  BY DEF Codes
<1> QED
  BY <1>1, <1>2, <1>3, CountedAnswer DEF AnswerInv

(* The operation reached the backend, and the log has one more entry. *)
LEMMA ExecutedAnswers ==
  ASSUME AnswerInv, NEW code \in {200, 500, 504}, Respond(code), Count(code),
         current \notin DOMAIN status, msg' = msg, Operation(current),
         ran' = ran \cup {current}, Len(audit') = Len(audit) + 1
  PROVE  AnswerInv'
<1>1. /\ DOMAIN status' = DOMAIN status \cup {current} /\ status'[current] = code
      /\ \A c \in DOMAIN status : status'[c] = status[c]
  BY DEF Respond
<1>2. AnswerTellsEffect'
  <2> SUFFICES ASSUME NEW c \in DOMAIN status', Operation(c)
               PROVE  status'[c] \in {200, 500, 504} <=> c \in ran'
    BY DEF AnswerTellsEffect, Operation
  <2>1. CASE c = current
    BY <1>1, <2>1
  <2>2. CASE c # current
    BY <1>1, <2>2 DEF AnswerInv, AnswerTellsEffect
  <2> QED
    BY <2>1, <2>2
<1>3. code \in Codes \ {400}
  BY DEF Codes
<1>4. IsFiniteSet(ran \cup {current}) /\ Cardinality(ran \cup {current}) = Cardinality(ran) + 1
  BY FS_AddElement DEF AnswerInv
<1> QED
  BY <1>1, <1>2, <1>3, <1>4, CountedAnswer DEF AnswerInv

(* What handle answers without a claimed root, and what it logs. *)
LEMMA ExecuteAnswers ==
  ASSUME Api!TypeOK, NEW r, NEW slow, NEW ok, Api!Execute(r, slow, ok, "plain")
  PROVE  StatusOf(reply') \in {200, 500, 504} /\ Len(audit') = Len(audit) + 1
<1>1. reply' \in {"Ok", "Timeout", "Internal"}
  BY DEF Api!Execute, Api!ReplyTo
<1>2. Len(audit') = Len(audit) + 1
  BY DEF Api!TypeOK, Api!Execute, Api!Audited
<1> QED
  BY <1>1, <1>2 DEF StatusOf

LEMMA RefuseAnswers ==
  ASSUME NEW r, Api!Refuse(r)
  PROVE  StatusOf(reply') \in {401, 413, 429} /\ audit' = audit
<1>1. reply' \in {"Oversize", "Unauthorized", "Expired", "Replay", "RateLimited"}
  BY DEF Api!Refuse, Api!FirstError, Api!IdentityError
<1> QED
  BY <1>1 DEF StatusOf, Api!Refuse

(* Answers, counters and log for every set of connections, messages and    *)
(* requests, through hang-ups, slow calls and crashes: the status of an    *)
(* operation tells whether it reached the backend, every request given to  *)
(* the service is in one counter, and the log has what reached it.         *)
THEOREM ServerAnswersSound == Spec => []AnswersSound
<1>1. Init => AnswerInv
  <2> SUFFICES ASSUME Init PROVE AnswerInv
    OBVIOUS
  <2>1. DOMAIN status = {} /\ ran = {} /\ metrics = [ok |-> 0, error |-> 0] /\ audit = <<>>
    BY DEF Init, Api!Init
  <2>2. Succeeded = {} /\ Failed = {}
    BY <2>1 DEF Succeeded, Failed, Handled
  <2> QED
    BY <2>1, <2>2, FS_EmptySet DEF AnswerInv, AnswerTellsEffect
<1>2. AnswerInv /\ ThreadInv /\ Api!TypeOK /\ [Next]_vars => AnswerInv'
  <2> SUFFICES ASSUME AnswerInv, ThreadInv, Api!TypeOK, [Next]_vars
               PROVE  AnswerInv'
    OBVIOUS
  <2>0. /\ DOMAIN status \subseteq DOMAIN msg
        /\ stage # "accepting" => current \notin DOMAIN status
    BY DEF ThreadInv
  <2>1. ASSUME NEW c \in Conns, NEW m \in Messages, Connect(c, m)
        PROVE  AnswerInv'
    BY <2>0, <2>1, QuietAnswers DEF Connect, apiVars
  <2>2. ASSUME NEW c \in Conns, FinishBody(c) \/ HangUp(c)
        PROVE  AnswerInv'
    BY <2>0, <2>2, QuietAnswers DEF FinishBody, HangUp, apiVars
  <2>3. ASSUME Take \/ ReadBody \/ CallNode
        PROVE  AnswerInv'
    BY <2>0, <2>3, QuietAnswers DEF Take, ReadBody, CallNode, apiVars, connVars
  <2>4. ASSUME RouteLocal
        PROVE  AnswerInv'
    <3>1. stage # "accepting" /\ UNCHANGED <<msg, ran, metrics, audit>>
      BY <2>4 DEF RouteLocal, apiVars, connVars
    <3>2. PICK code \in Codes : Respond(code) /\ (Operation(current) => code = 400)
      BY <2>4 DEF RouteLocal, Operation, Codes
    <3> QED
      BY <2>0, <3>1, <3>2, LocalAnswers
  <2>5. ASSUME RouteRefused
        PROVE  AnswerInv'
    <3>1. stage # "accepting" /\ UNCHANGED <<msg, ran>> /\ Operation(current)
      BY <2>5 DEF RouteRefused, IsOperation, Operation, connVars
    <3>2. StatusOf(reply') \in {401, 413, 429} /\ audit' = audit
      BY <2>5, RefuseAnswers DEF RouteRefused
    <3>3. Respond(StatusOf(reply')) /\ Count(StatusOf(reply'))
      BY <2>5 DEF RouteRefused
    <3> QED
      BY <2>0, <3>1, <3>2, <3>3, RefusedAnswers
  <2>6. ASSUME RouteLocalBackend
        PROVE  AnswerInv'
    <3>1. /\ stage # "accepting" /\ msg' = msg /\ ran' = ran \cup {current}
          /\ Operation(current)
      BY <2>6 DEF RouteLocalBackend, IsOperation, Operation, connVars
    <3>2. \E slow, ok \in BOOLEAN : Api!Execute(Body, slow, ok, "plain")
      BY <2>6 DEF RouteLocalBackend
    <3>3. StatusOf(reply') \in {200, 500, 504} /\ Len(audit') = Len(audit) + 1
      BY <3>2, ExecuteAnswers
    <3>4. Respond(StatusOf(reply')) /\ Count(StatusOf(reply'))
      BY <2>6 DEF RouteLocalBackend
    <3> QED
      BY <2>0, <3>1, <3>3, <3>4, ExecutedAnswers
  <2>7. ASSUME NEW d \in 0 .. NodeTimeout, NEW good \in BOOLEAN, ProbeEnds(d, good)
        PROVE  AnswerInv'
    <3>1. stage # "accepting" /\ UNCHANGED <<msg, ran, metrics, audit>> /\ ~Operation(current)
      BY <2>7 DEF ProbeEnds, ThreadInv, apiVars, connVars
    <3>2. PICK code \in Codes : Respond(code)
      BY <2>7 DEF ProbeEnds, Codes
    <3> QED
      BY <2>0, <3>1, <3>2, LocalAnswers
  <2>8. ASSUME NEW d \in 0 .. NodeTimeout, NEW good \in BOOLEAN, SubmitEnds(d, good)
        PROVE  AnswerInv'
    <3>1. /\ stage # "accepting" /\ msg' = msg /\ ran' = ran \cup {current}
          /\ Operation(current)
      BY <2>8 DEF SubmitEnds, ThreadInv, connVars
    <3>2. StatusOf(reply') \in {200, 500, 504} /\ Len(audit') = Len(audit) + 1
      BY <2>8, ExecuteAnswers DEF SubmitEnds
    <3>3. Respond(StatusOf(reply')) /\ Count(StatusOf(reply'))
      BY <2>8 DEF SubmitEnds
    <3> QED
      BY <2>0, <3>1, <3>2, <3>3, ExecutedAnswers
  <2>9. ASSUME NEW t \in 0 .. MaxTime, Tick(t)
        PROVE  AnswerInv'
    BY <2>0, <2>9, QuietAnswers DEF Tick, Api!Tick, connVars
  <2>10. ASSUME Crash
         PROVE  AnswerInv'
    <3>1. /\ DOMAIN status' = {} /\ ran' = {} /\ metrics' = [ok |-> 0, error |-> 0]
          /\ audit' = <<>>
      BY <2>10 DEF Crash, Api!Restart
    <3>2. Succeeded' = {} /\ Failed' = {}
      BY <3>1 DEF Succeeded, Failed, Handled
    <3> QED
      BY <3>1, <3>2, FS_EmptySet DEF AnswerInv, AnswerTellsEffect
  <2>11. ASSUME UNCHANGED vars
         PROVE  AnswerInv'
    BY <2>0, <2>11, QuietAnswers DEF vars, apiVars, connVars
  <2> QED
    BY <2>1, <2>2, <2>3, <2>4, <2>5, <2>6, <2>7, <2>8, <2>9, <2>10, <2>11
       DEF Next, Serve, NodeEnds
<1>3. AnswerInv /\ ThreadInv /\ Api!TypeOK => AnswersSound
  <2> SUFFICES ASSUME AnswerInv, ThreadInv, Api!TypeOK PROVE AnswersSound
    OBVIOUS
  <2>1. TypeOK
    BY DEF TypeOK, AnswerInv, ThreadInv, BodyInv, Codes
  <2>2. MetricsAgree
    BY DEF AnswerInv, MetricsAgree, Succeeded, Failed, Handled
  <2> QED
    BY <2>1, <2>2 DEF AnswersSound, AnswerInv
<1> QED
  BY <1>1, <1>2, <1>3, ThreadInvariant, ServiceTypes, PTL DEF Spec
=============================================================================
