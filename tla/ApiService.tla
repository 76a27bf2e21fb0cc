----------------------------- MODULE ApiService -----------------------------
(***************************************************************************)
(* The service boundary of crates/api: handle admits a request through the *)
(* size limit, authentication (registered caller, expiry, signature,       *)
(* nonce), and the rate limit, in that order, then executes it on the      *)
(* backend, audits it and checks the time budget and the trust root.       *)
(*                                                                         *)
(* The service runs requests one at a time (crates/server/src/main.rs), so *)
(* handle is one action.  Anyone may deliver any request any number of     *)
(* times; a request is `signed` when the registered caller signed exactly  *)
(* it.  Everything the service keeps is in memory and is lost by Restart.  *)
(***************************************************************************)
EXTENDS Integers, Sequences, FiniteSets

CONSTANTS
  Callers,      \* all caller identifiers
  Registered,   \* those in the CallerRegistry
  Nonces,       \* nonce values
  Operations,   \* operations requests name
  Requests,     \* the requests that may arrive
  Limit,        \* ApiConfig.rate_limit_per_window
  WindowSecs,   \* ApiConfig.rate_window_secs
  Roots,        \* merkle roots a backend may claim
  ChainRoots,   \* those HeaderChain.contains_merkle_root finds
  MaxTime,      \* model bound on the clock
  MaxAudit,     \* model bound on the audit log
  MaxRestarts,  \* model bound on restarts
  ClockSteps    \* may the wall clock (SystemTime) be set back?

Request == [caller : Callers, operation : Operations, nonce : Nonces,
            expiry : 0 .. MaxTime, signed : BOOLEAN, oversize : BOOLEAN]

(* ApiConfig.validate *)
ASSUME ConfigAssumption == Limit \in Nat \ {0} /\ WindowSecs \in Nat \ {0}

ASSUME RequestsAssumption ==
  /\ Requests \subseteq Request
  /\ Registered \subseteq Callers
  /\ MaxTime \in Nat /\ MaxAudit \in Nat /\ MaxRestarts \in Nat

VARIABLES
  now,       \* the clock handle is given
  seen,      \* NonceStore.seen
  windows,   \* RateLimiter.windows: caller -> [window, count]
  audit,     \* AuditLog.entries
  reply,     \* what the last call returned
  life,      \* restarts so far
  runs,      \* executions of each signed <<caller, nonce>> in this life
  runsEver,  \* ... and in all lives
  spent,     \* signed executions of each caller in each window in this life
  burnt      \* <<caller, nonce>> refused by the rate limiter in this life

vars == <<now, seen, windows, audit, reply, life, runs, runsEver, spent, burnt>>

Windows == 0 .. MaxTime
WindowOf(t) == t \div WindowSecs

RequiresAuth(r) == r.operation \notin {"health", "readiness"}
Key(r) == <<r.caller, r.nonce>>

Rejections == {"Oversize", "Unauthorized", "Expired", "Replay", "RateLimited"}
Outcomes == {"Ok", "Timeout", "NotTerminated", "Internal"}

(* An entry's timestamp and node position are the caller's data and no     *)
(* operation reads them: they are left out.                                *)
AuditEntry == [caller : Callers, operation : Operations, outcome : {"ok", "error"}]

Fresh(keysOf) == [x \in keysOf |-> 0]

Init ==
  /\ now = 0
  /\ seen = {}
  /\ windows = [c \in {} |-> 0]
  /\ audit = <<>>
  /\ reply = "none"
  /\ life = 0
  /\ runs = Fresh(Callers \X Nonces)
  /\ runsEver = Fresh(Callers \X Nonces)
  /\ spent = Fresh(Callers \X Windows)
  /\ burnt = {}

-----------------------------------------------------------------------------
(* Mutant: the window is over a second after it began. *)
EntryOneSecond(c) ==
  IF c \in DOMAIN windows /\ windows[c].window * WindowSecs >= now
  THEN windows[c] ELSE [window |-> WindowOf(now), count |-> 0]

(* RateLimiter.allow: the entry is (re)started when its window is not the  *)
(* current one; the request is counted only if it is within budget.        *)
Entry(c) ==
  IF c \in DOMAIN windows /\ windows[c].window = WindowOf(now)
  THEN windows[c] ELSE [window |-> WindowOf(now), count |-> 0]
Allowed(c) == Entry(c).count < Limit

Account(c) ==
  windows' = [d \in DOMAIN windows \cup {c} |->
                IF d = c
                THEN [Entry(c) EXCEPT !.count = IF Allowed(c) THEN @ + 1 ELSE @]
                ELSE windows[d]]

(* authenticate, up to the point where it starts to record anything. *)
IdentityError(r) ==
  IF r.caller \notin Registered THEN "Unauthorized"
  ELSE IF r.expiry < now        THEN "Expired"
  ELSE IF ~r.signed             THEN "Unauthorized"
  ELSE "none"

FirstError(r) ==
  IF r.oversize               THEN "Oversize"
  ELSE IF ~RequiresAuth(r)    THEN "none"
  ELSE IF IdentityError(r) # "none" THEN IdentityError(r)
  ELSE IF Key(r) \in seen     THEN "Replay"
  ELSE IF ~Allowed(r.caller)  THEN "RateLimited"
  ELSE "none"

(* Mutants: the nonce is not recorded; it is recorded before the identity  *)
(* is checked; the budget is charged before the nonce is checked.          *)
RecordedNoNonce(r) ==
  IF RequiresAuth(r) /\ FirstError(r) \in {"none", "RateLimited"}
  THEN UNCHANGED seen /\ Account(r.caller)
  ELSE UNCHANGED <<seen, windows>>
RecordedEarly(r) ==
  IF RequiresAuth(r) /\ ~r.oversize
  THEN /\ seen' = seen \cup {Key(r)}
       /\ IF FirstError(r) \in {"none", "RateLimited"}
          THEN Account(r.caller) ELSE UNCHANGED windows
  ELSE UNCHANGED <<seen, windows>>
RecordedCharge(r) ==
  IF RequiresAuth(r) /\ FirstError(r) \in {"none", "RateLimited", "Replay"}
  THEN seen' = seen \cup {Key(r)} /\ Account(r.caller)
  ELSE UNCHANGED <<seen, windows>>

(* What the checks record: a fresh nonce as soon as the signature holds,   *)
(* then the rate entry, even when the limiter goes on to refuse.           *)
Recorded(r) ==
  IF RequiresAuth(r) /\ FirstError(r) \in {"none", "RateLimited"}
  THEN seen' = seen \cup {Key(r)} /\ Account(r.caller)
  ELSE UNCHANGED <<seen, windows>>

(* handle returns an error before the backend is called. *)
Refuse(r) ==
  /\ FirstError(r) # "none"
  /\ Recorded(r)
  /\ reply' = FirstError(r)
  /\ burnt' = IF FirstError(r) = "RateLimited" THEN burnt \cup {Key(r)} ELSE burnt
  /\ UNCHANGED <<now, audit, life, runs, runsEver, spent>>

(* The end of handle: time budget first, then the backend's own error,     *)
(* then the root a chain-terminating response claims.                      *)
ReplyTo(slow, ok, root) ==
  IF slow                                    THEN "Timeout"
  ELSE IF ~ok                                THEN "Internal"
  ELSE IF root # "plain" /\ root \notin ChainRoots THEN "NotTerminated"
  ELSE "Ok"

(* Mutant: handle returns the backend's error before it audits. *)
AuditedIfOk(r, ok) ==
  IF ok THEN Append(audit, [caller |-> r.caller, operation |-> r.operation,
                            outcome |-> "ok"])
  ELSE audit

Audited(r, ok) ==
  Append(audit, [caller |-> r.caller, operation |-> r.operation,
                 outcome |-> IF ok THEN "ok" ELSE "error"])

(* handle reaches the backend, which succeeds or fails, takes any time,    *)
(* and may claim a root; the operation is audited whatever follows.        *)
Execute(r, slow, ok, root) ==
  /\ FirstError(r) = "none"
  /\ Len(audit) < MaxAudit
  /\ Recorded(r)
  /\ audit' = Audited(r, ok)
  /\ reply' = ReplyTo(slow, ok, root)
  /\ IF RequiresAuth(r)
     THEN /\ runs' = [runs EXCEPT ![Key(r)] = @ + 1]
          /\ runsEver' = [runsEver EXCEPT ![Key(r)] = @ + 1]
          /\ spent' = [spent EXCEPT ![<<r.caller, WindowOf(now)>>] = @ + 1]
     ELSE UNCHANGED <<runs, runsEver, spent>>
  /\ UNCHANGED <<now, life, burnt>>

Handle(r) ==
  \/ Refuse(r)
  \/ \E slow, ok \in BOOLEAN, root \in Roots \cup {"plain"} : Execute(r, slow, ok, root)

(* The clock moves; SystemTime is not monotonic. *)
Tick(t) ==
  /\ t # now
  /\ ClockSteps \/ t > now
  /\ now' = t
  /\ UNCHANGED <<seen, windows, audit, reply, life, runs, runsEver, spent, burnt>>

(* ApiService.new in a new process: every store starts empty. *)
Restart ==
  /\ life < MaxRestarts
  /\ life' = life + 1
  /\ seen' = {} /\ windows' = [c \in {} |-> 0] /\ audit' = <<>>
  /\ reply' = "none"
  /\ runs' = Fresh(Callers \X Nonces) /\ spent' = Fresh(Callers \X Windows)
  /\ burnt' = {}
  /\ UNCHANGED <<now, runsEver>>

Next ==
  \/ \E r \in Requests : Handle(r)
  \/ \E t \in 0 .. MaxTime : Tick(t)
  \/ Restart

Spec == Init /\ [][Next]_vars
-----------------------------------------------------------------------------
(* Every store has its type. *)
TypeOK ==
  /\ now \in 0 .. MaxTime
  /\ seen \subseteq Callers \X Nonces
  /\ DOMAIN windows \subseteq Callers
  /\ windows \in [DOMAIN windows -> [window : Windows, count : 0 .. Limit]]
  /\ audit \in Seq(AuditEntry)
  /\ reply \in Rejections \cup Outcomes \cup {"none"}
  /\ life \in 0 .. MaxRestarts
  /\ runs \in [Callers \X Nonces -> Nat] /\ runsEver \in [Callers \X Nonces -> Nat]
  /\ spent \in [Callers \X Windows -> Nat]
  /\ burnt \subseteq Callers \X Nonces

(* Replay protection: within one life of the process a signed request is   *)
(* executed at most once, however often, late or in whatever order it is   *)
(* delivered and whatever reply the caller saw the first time.             *)
NoReplay == \A k \in Callers \X Nonces : runs[k] <= 1

(* Only the caller's own signed, unexpired requests consume its nonces: a  *)
(* recorded nonce was executed once or was refused by the rate limiter and *)
(* never executed.  A forged, expired or unknown request cannot burn one.  *)
NonceAccounting ==
  \A k \in Callers \X Nonces :
    /\ runs[k] = IF k \in seen \ burnt THEN 1 ELSE 0
    /\ k \in burnt => k \in seen

(* A caller executes at most Limit signed operations per window: further   *)
(* requests in the same window are refused until the window rolls over.    *)
RateLimitHolds == \A c \in Callers, w \in Windows : spent[<<c, w>>] <= Limit

(* The budget is charged for executions and for nothing else: replays,     *)
(* forgeries and refused requests do not drain a caller's window.          *)
BudgetExact ==
  \A c \in DOMAIN windows : windows[c].count = spent[<<c, windows[c].window>>]

(* What the audit log and the caller are told agree as far as the order of *)
(* the checks allows: the last reply was Ok only if the last entry says    *)
(* "ok", and an operation audited as failed was not reported as Ok.        *)
AuditAgrees ==
  reply = "Ok" => Len(audit) > 0 /\ audit[Len(audit)].outcome = "ok"

(* Every entry of the audit log was admissible when it was written: the    *)
(* caller of an authenticated operation is registered, and the log holds   *)
(* one entry per signed execution and no more for that caller.             *)
AuditComplete ==
  \A c \in Callers :
    /\ Cardinality({i \in DOMAIN audit : /\ audit[i].caller = c
                                         /\ RequiresAuth(audit[i])})
         = Cardinality({n \in Nonces : runs[<<c, n>>] = 1})
    /\ c \notin Registered => \A n \in Nonces : runs[<<c, n>>] = 0

(* auth.rs accepts a request "only if its nonce has not been seen"; the    *)
(* store of nonces is in memory, so what is left of that over the lives of *)
(* the process is one execution for each start: nothing but a restart lets *)
(* a request through again.                                                *)
ReplayNeedsRestart == \A k \in Callers \X Nonces : runsEver[k] <= life + 1

(* The audit log, as handle writes it, is complete and agrees with the     *)
(* replies.                                                                *)
AuditSound ==
  /\ TypeOK
  /\ AuditAgrees
  /\ AuditComplete
=============================================================================
