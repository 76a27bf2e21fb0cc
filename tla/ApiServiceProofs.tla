-------------------------- MODULE ApiServiceProofs --------------------------
(***************************************************************************)
(* Replay protection and the rate limit of the service boundary, for every *)
(* set of callers, nonces and requests and every limit and window length.  *)
(***************************************************************************)
EXTENDS ApiService, FiniteSetTheorems, SequenceTheorems, TLAPS

(* Integer division never grows, and is monotonic: later seconds are in    *)
(* the same window or in a later one.                                      *)
LEMMA WindowMonotonic ==
  ASSUME NEW s \in Nat, NEW t \in Nat, s <= t
  PROVE  /\ WindowOf(s) \in Nat /\ WindowOf(s) <= s
         /\ WindowOf(s) <= WindowOf(t)
<1>1. WindowSecs \in Nat \ {0}
  BY ConfigAssumption
<1> DEFINE a == s \div WindowSecs
           b == t \div WindowSecs
<1>2. a \in Int /\ b \in Int
  BY <1>1
<1>3. WindowSecs * a <= s /\ s < WindowSecs * (a + 1)
  BY <1>1, Z3
<1>4. WindowSecs * b <= t /\ t < WindowSecs * (b + 1)
  BY <1>1, Z3
<1> QED
  BY <1>1, <1>2, <1>3, <1>4, Z3 DEF WindowOf

(* What the order of the checks tells about their outcome: a request is    *)
(* executed, or refused by the limiter, only if its nonce is unseen.       *)
LEMMA CheckOrder ==
  ASSUME NEW r \in Requests
  PROVE  /\ FirstError(r) = "RateLimited" => RequiresAuth(r)
         /\ RequiresAuth(r) /\ FirstError(r) \in {"none", "RateLimited"} =>
              /\ Key(r) \notin seen
              /\ FirstError(r) = "none" <=> Allowed(r.caller)
BY DEF FirstError, IdentityError

(* A request names one of the known callers and nonces. *)
LEMMA RequestFields ==
  ASSUME NEW r \in Requests
  PROVE  Key(r) \in Callers \X Nonces /\ r.caller \in Callers
BY RequestsAssumption DEF Request, Key

-----------------------------------------------------------------------------
(* The inductive invariant for the nonces: NonceAccounting and the types   *)
(* of the three stores it relates.                                         *)
NonceInv ==
  /\ seen \subseteq Callers \X Nonces
  /\ runs \in [Callers \X Nonces -> Nat]
  /\ NonceAccounting

(* A refusal records a nonce only when the limiter refuses, as burnt.      *)
LEMMA RefuseKeepsNonces ==
  ASSUME NonceInv, NEW r \in Requests, Refuse(r)
  PROVE  NonceInv'
<1>1. CASE FirstError(r) = "RateLimited"
  <2>1. /\ seen' = seen \cup {Key(r)} /\ burnt' = burnt \cup {Key(r)}
        /\ runs' = runs /\ Key(r) \notin seen
    BY <1>1, CheckOrder DEF Refuse, Recorded
  <2> QED
    BY <2>1, RequestFields DEF NonceInv, NonceAccounting
<1>2. CASE FirstError(r) # "RateLimited"
  <2>1. seen' = seen /\ burnt' = burnt /\ runs' = runs
    BY <1>2 DEF Refuse, Recorded
  <2> QED
    BY <2>1 DEF NonceInv, NonceAccounting
<1> QED
  BY <1>1, <1>2

(* An execution records the nonce it is counted for.                       *)
LEMMA ExecuteKeepsNonces ==
  ASSUME NonceInv, NEW r \in Requests, NEW slow, NEW ok, NEW root,
         Execute(r, slow, ok, root)
  PROVE  NonceInv'
<1>1. CASE RequiresAuth(r)
  <2>1. /\ seen' = seen \cup {Key(r)} /\ burnt' = burnt
        /\ runs' = [runs EXCEPT ![Key(r)] = @ + 1] /\ Key(r) \notin seen
    BY <1>1, CheckOrder DEF Execute, Recorded
  <2> QED
    BY <2>1, RequestFields DEF NonceInv, NonceAccounting
<1>2. CASE ~RequiresAuth(r)
  <2>1. seen' = seen /\ burnt' = burnt /\ runs' = runs
    BY <1>2 DEF Execute, Recorded
  <2> QED
    BY <2>1 DEF NonceInv, NonceAccounting
<1> QED
  BY <1>1, <1>2

(* Replay protection for every number of callers, nonces, deliveries and   *)
(* restarts: handle executes a signed request at most once per life of the *)
(* process, and nothing but the caller's own valid requests consumes its   *)
(* nonces.                                                                 *)
THEOREM ReplayProtection == Spec => [](NoReplay /\ NonceAccounting)
<1>1. Init => NonceInv
  BY DEF Init, NonceInv, NonceAccounting, Fresh
<1>2. NonceInv /\ [Next]_vars => NonceInv'
  <2> SUFFICES ASSUME NonceInv, [Next]_vars PROVE NonceInv'
    OBVIOUS
  <2>1. ASSUME NEW r \in Requests, Handle(r) PROVE NonceInv'
    BY <2>1, RefuseKeepsNonces, ExecuteKeepsNonces DEF Handle
  <2>2. ASSUME NEW t \in 0 .. MaxTime, Tick(t) PROVE NonceInv'
    BY <2>2 DEF Tick, NonceInv, NonceAccounting
  <2>3. CASE Restart
    BY <2>3 DEF Restart, NonceInv, NonceAccounting, Fresh
  <2>4. CASE UNCHANGED vars
    BY <2>4 DEF vars, NonceInv, NonceAccounting
  <2> QED
    BY <2>1, <2>2, <2>3, <2>4 DEF Next
<1>3. NonceInv => NoReplay /\ NonceAccounting
  BY DEF NonceInv, NonceAccounting, NoReplay
<1> QED
  BY <1>1, <1>2, <1>3, PTL DEF Spec

-----------------------------------------------------------------------------
(* The inductive invariant for the budget.  RateLimitHolds says nothing of *)
(* the limiter's own entry; that entry counts its window exactly, is never *)
(* ahead of the clock, and nothing was spent after its window, so dropping *)
(* it when the window changes forgets nothing that can still be charged.   *)
RateEntry == [window : Windows, count : 0 .. Limit]

BudgetInv ==
  /\ now \in 0 .. MaxTime
  /\ spent \in [Callers \X Windows -> Nat]
  /\ DOMAIN windows \subseteq Callers
  /\ windows \in [DOMAIN windows -> RateEntry]
  /\ BudgetExact
  /\ \A c \in DOMAIN windows : windows[c].window <= WindowOf(now)
  /\ \A c \in Callers, w \in Windows :
       (c \in DOMAIN windows => w > windows[c].window) => spent[<<c, w>>] = 0
  /\ RateLimitHolds

(* The clock is always in one of the windows that are counted.             *)
LEMMA CurrentWindow ==
  ASSUME now \in 0 .. MaxTime
  PROVE  WindowOf(now) \in Windows
<1>1. now \in Nat /\ now <= MaxTime /\ MaxTime \in Nat
  BY RequestsAssumption
<1>2. WindowOf(now) \in Nat /\ WindowOf(now) <= now
  BY <1>1, WindowMonotonic
<1> QED
  BY <1>1, <1>2 DEF Windows

(* The entry allow works on is the current window's, with what was spent.  *)
LEMMA EntryFacts ==
  ASSUME BudgetInv, NEW c \in Callers
  PROVE  /\ Entry(c) \in RateEntry
         /\ Entry(c).window = WindowOf(now)
         /\ Entry(c).count = spent[<<c, WindowOf(now)>>]
<1>1. WindowOf(now) \in Windows
  BY CurrentWindow DEF BudgetInv
<1>2. CASE c \in DOMAIN windows /\ windows[c].window = WindowOf(now)
  BY <1>2 DEF BudgetInv, BudgetExact, Entry
<1>3. CASE ~(c \in DOMAIN windows /\ windows[c].window = WindowOf(now))
  <2>1. Entry(c) = [window |-> WindowOf(now), count |-> 0]
    BY <1>3 DEF Entry
  <2>2. c \in DOMAIN windows => windows[c] \in RateEntry /\ windows[c].window <= WindowOf(now)
    BY DEF BudgetInv
  <2>3. c \in DOMAIN windows => WindowOf(now) > windows[c].window
    BY <1>1, <1>3, <2>2 DEF Windows, RateEntry
  <2>4. spent[<<c, WindowOf(now)>>] = 0
    BY <1>1, <2>3 DEF BudgetInv
  <2>5. 0 \in 0 .. Limit
    BY ConfigAssumption
  <2> QED
    BY <1>1, <2>1, <2>4, <2>5 DEF RateEntry
<1> QED
  BY <1>2, <1>3

(* The part of the invariant that the other stores and replies leave as it *)
(* was.                                                                    *)
LEMMA SameBudget ==
  ASSUME BudgetInv, UNCHANGED <<now, spent, windows>>
  PROVE  BudgetInv'
BY DEF BudgetInv, BudgetExact, RateLimitHolds

(* A request the limiter refuses leaves a full entry for this window.      *)
LEMMA RefuseKeepsBudget ==
  ASSUME BudgetInv, NEW r \in Requests, Refuse(r)
  PROVE  BudgetInv'
<1>1. CASE FirstError(r) # "RateLimited"
  <2>1. UNCHANGED <<now, spent, windows>>
    BY <1>1 DEF Refuse, Recorded
  <2> QED
    BY <2>1, SameBudget
<1>2. CASE FirstError(r) = "RateLimited"
  <2> DEFINE c == r.caller
  <2>1. c \in Callers
    BY RequestFields
  <2>2. /\ UNCHANGED <<now, spent>> /\ ~Allowed(c) /\ Account(c)
    BY <1>2, CheckOrder DEF Refuse, Recorded
  <2>3. Entry(c) \in RateEntry /\ Entry(c).window = WindowOf(now)
        /\ Entry(c).count = spent[<<c, WindowOf(now)>>]
    BY <2>1, EntryFacts
  <2>4. [Entry(c) EXCEPT !.count = @] = Entry(c)
    BY <2>3 DEF RateEntry
  <2>5. windows' = [d \in DOMAIN windows \cup {c} |->
                      IF d = c THEN Entry(c) ELSE windows[d]]
    BY <2>2, <2>4 DEF Account
  <2>6. WindowOf(now) \in Windows /\ WindowOf(now)' = WindowOf(now)
    BY <2>2, CurrentWindow DEF BudgetInv, WindowOf
  <2>7. c \in DOMAIN windows => windows[c] \in RateEntry /\ windows[c].window <= WindowOf(now)
    BY DEF BudgetInv
  <2>8. /\ DOMAIN windows' = DOMAIN windows \cup {c}
        /\ windows'[c] = Entry(c)
        /\ \A d \in DOMAIN windows \ {c} : windows'[d] = windows[d]
    BY <2>5
  <2>9. windows' \in [DOMAIN windows' -> RateEntry] /\ DOMAIN windows' \subseteq Callers
    BY <2>1, <2>3, <2>5 DEF BudgetInv
  <2>10. BudgetExact'
    BY <2>2, <2>3, <2>8 DEF BudgetInv, BudgetExact
  <2>11. \A d \in DOMAIN windows' : windows'[d].window <= WindowOf(now)'
    BY <2>3, <2>6, <2>8 DEF BudgetInv, Windows
  <2>12. ASSUME NEW d \in Callers, NEW w \in Windows,
                d \in DOMAIN windows' => w > windows'[d].window
         PROVE  spent[<<d, w>>] = 0
    <3>1. CASE d = c
      <4>1. w > WindowOf(now)
        BY <2>3, <2>8, <2>12, <3>1
      <4>2. c \in DOMAIN windows => w > windows[c].window
        BY <4>1, <2>6, <2>7 DEF RateEntry, Windows
      <4> QED
        BY <3>1, <4>2 DEF BudgetInv
    <3>2. CASE d # c
      BY <2>8, <2>12, <3>2 DEF BudgetInv
    <3> QED
      BY <3>1, <3>2
  <2> QED
    BY <2>2, <2>9, <2>10, <2>11, <2>12 DEF BudgetInv, RateLimitHolds
<1> QED
  BY <1>1, <1>2

(* An execution is charged: entry and history grow by one together.        *)
LEMMA ExecuteKeepsBudget ==
  ASSUME BudgetInv, NEW r \in Requests, NEW slow, NEW ok, NEW root,
         Execute(r, slow, ok, root)
  PROVE  BudgetInv'
<1>1. CASE ~RequiresAuth(r)
  <2>1. UNCHANGED <<now, spent, windows>>
    BY <1>1 DEF Execute, Recorded
  <2> QED
    BY <2>1, SameBudget
<1>2. CASE RequiresAuth(r)
  <2> DEFINE c == r.caller
             here == <<c, WindowOf(now)>>
  <2>1. c \in Callers
    BY RequestFields
  <2>2. /\ now' = now /\ spent' = [spent EXCEPT ![here] = @ + 1]
        /\ Allowed(c) /\ Account(c)
    BY <1>2, CheckOrder DEF Execute, Recorded
  <2>3. Entry(c) \in RateEntry /\ Entry(c).window = WindowOf(now)
        /\ Entry(c).count = spent[here]
    BY <2>1, EntryFacts
  <2> DEFINE e == [Entry(c) EXCEPT !.count = @ + 1]
  <2>4. e \in RateEntry /\ e.window = WindowOf(now) /\ e.count = spent[here] + 1
    BY <2>2, <2>3, ConfigAssumption DEF RateEntry, Allowed
  <2>5. windows' = [d \in DOMAIN windows \cup {c} |-> IF d = c THEN e ELSE windows[d]]
    BY <2>2 DEF Account
  <2> HIDE DEF e
  <2>6. WindowOf(now) \in Windows /\ WindowOf(now)' = WindowOf(now)
    BY <2>2, CurrentWindow DEF BudgetInv, WindowOf
  <2>7. c \in DOMAIN windows => windows[c] \in RateEntry /\ windows[c].window <= WindowOf(now)
    BY DEF BudgetInv
  <2>8. /\ DOMAIN windows' = DOMAIN windows \cup {c}
        /\ windows'[c] = e
        /\ \A d \in DOMAIN windows \ {c} : windows'[d] = windows[d]
    BY <2>5
  <2>9. windows' \in [DOMAIN windows' -> RateEntry] /\ DOMAIN windows' \subseteq Callers
    BY <2>1, <2>4, <2>5 DEF BudgetInv
  <2>10. /\ spent' \in [Callers \X Windows -> Nat]
         /\ spent'[here] = spent[here] + 1
         /\ \A d \in Callers, w \in Windows :
              d # c \/ w # WindowOf(now) => spent'[<<d, w>>] = spent[<<d, w>>]
    BY <2>1, <2>2, <2>6 DEF BudgetInv
  <2>11. BudgetExact'
    <3> SUFFICES ASSUME NEW d \in DOMAIN windows'
                 PROVE  windows'[d].count = spent'[<<d, windows'[d].window>>]
      BY DEF BudgetExact
    <3>1. CASE d = c
      BY <2>4, <2>8, <2>10, <3>1
    <3>2. CASE d # c
      <4>1. d \in DOMAIN windows /\ d \in Callers /\ windows[d].window \in Windows
        BY <2>8, <3>2 DEF BudgetInv, RateEntry
      <4> QED
        BY <2>8, <2>10, <3>2, <4>1 DEF BudgetInv, BudgetExact
    <3> QED
      BY <3>1, <3>2
  <2>12. \A d \in DOMAIN windows' : windows'[d].window <= WindowOf(now)'
    BY <2>4, <2>6, <2>8 DEF BudgetInv, Windows
  <2>13. ASSUME NEW d \in Callers, NEW w \in Windows,
                d \in DOMAIN windows' => w > windows'[d].window
         PROVE  spent'[<<d, w>>] = 0
    <3>1. CASE d = c
      <4>1. w > WindowOf(now)
        BY <2>4, <2>8, <2>13, <3>1
      <4>2. c \in DOMAIN windows => w > windows[c].window
        BY <4>1, <2>6, <2>7 DEF RateEntry, Windows
      <4>3. spent[<<d, w>>] = 0
        BY <3>1, <4>2 DEF BudgetInv
      <4>4. w # WindowOf(now)
        BY <4>1, <2>6 DEF Windows
      <4> QED
        BY <2>10, <4>3, <4>4
    <3>2. CASE d # c
      BY <2>8, <2>10, <2>13, <3>2 DEF BudgetInv
    <3> QED
      BY <3>1, <3>2
  <2>14. RateLimitHolds'
    <3> SUFFICES ASSUME NEW d \in Callers, NEW w \in Windows
                 PROVE  spent'[<<d, w>>] <= Limit
      BY DEF RateLimitHolds
    <3>1. CASE d = c /\ w = WindowOf(now)
      BY <2>4, <2>10, <3>1, ConfigAssumption DEF RateEntry
    <3>2. CASE d # c \/ w # WindowOf(now)
      BY <2>10, <3>2 DEF BudgetInv, RateLimitHolds
    <3> QED
      BY <3>1, <3>2
  <2> QED
    BY <2>2, <2>9, <2>10, <2>11, <2>12, <2>13, <2>14 DEF BudgetInv
<1> QED
  BY <1>1, <1>2

(* A clock that only moves forward reaches windows nothing was spent in.   *)
LEMMA TickKeepsBudget ==
  ASSUME ClockSteps = FALSE, BudgetInv, NEW t \in 0 .. MaxTime, Tick(t)
  PROVE  BudgetInv'
<1>1. now \in Nat /\ now' \in 0 .. MaxTime /\ now' \in Nat /\ now <= now'
  BY RequestsAssumption DEF Tick, BudgetInv
<1>2. WindowOf(now) \in Nat /\ WindowOf(now') \in Nat /\ WindowOf(now) <= WindowOf(now')
  BY <1>1, WindowMonotonic
<1>3. WindowOf(now)' = WindowOf(now')
  BY DEF WindowOf
<1>4. UNCHANGED <<spent, windows>>
  BY DEF Tick
<1>5. \A c \in DOMAIN windows : windows[c].window \in Nat
  BY RequestsAssumption DEF BudgetInv, RateEntry, Windows
<1>6. \A c \in DOMAIN windows' : windows'[c].window <= WindowOf(now)'
  BY <1>2, <1>3, <1>4, <1>5 DEF BudgetInv
<1> QED
  BY <1>1, <1>4, <1>6 DEF BudgetInv, BudgetExact, RateLimitHolds

(* A new process starts with no entries and nothing spent.                 *)
LEMMA EmptyBudget ==
  ASSUME now \in 0 .. MaxTime, windows = [c \in {} |-> 0],
         spent = Fresh(Callers \X Windows)
  PROVE  BudgetInv
BY ConfigAssumption DEF BudgetInv, BudgetExact, RateLimitHolds, Fresh, RateEntry

(* BudgetInv is inductive as long as the clock is not set back. *)
LEMMA BudgetInvariant ==
  ASSUME ClockSteps = FALSE
  PROVE  Spec => []BudgetInv
<1>1. Init => BudgetInv
  BY EmptyBudget, RequestsAssumption DEF Init
<1>2. BudgetInv /\ [Next]_vars => BudgetInv'
  <2> SUFFICES ASSUME BudgetInv, [Next]_vars PROVE BudgetInv'
    OBVIOUS
  <2>1. ASSUME NEW r \in Requests, Handle(r) PROVE BudgetInv'
    BY <2>1, RefuseKeepsBudget, ExecuteKeepsBudget DEF Handle
  <2>2. ASSUME NEW t \in 0 .. MaxTime, Tick(t) PROVE BudgetInv'
    BY <2>2, TickKeepsBudget
  <2>3. CASE Restart
    <3>1. /\ now' \in 0 .. MaxTime /\ windows' = [c \in {} |-> 0]
          /\ spent' = Fresh(Callers \X Windows)'
      BY <2>3 DEF Restart, BudgetInv, Fresh, Windows
    <3> QED
      BY <3>1, ConfigAssumption
      DEF BudgetInv, BudgetExact, RateLimitHolds, Fresh, RateEntry
  <2>4. CASE UNCHANGED vars
    BY <2>4, SameBudget DEF vars
  <2> QED
    BY <2>1, <2>2, <2>3, <2>4 DEF Next
<1> QED
  BY <1>1, <1>2, PTL DEF Spec

(* The rate limit for every limit, window length and number of callers: as *)
(* long as the clock is not set back, no caller executes more than Limit   *)
(* signed operations in a window.                                          *)
THEOREM RateLimitHonoured ==
  ASSUME ClockSteps = FALSE
  PROVE  Spec => []RateLimitHolds
<1>1. BudgetInv => RateLimitHolds
  BY DEF BudgetInv
<1> QED
  BY <1>1, BudgetInvariant, PTL

(* A window's entry counts the caller's executions in it and nothing else: *)
(* no replay, forgery or refused request is charged, and no execution goes *)
(* uncharged, for every limit, window length and number of callers.        *)
THEOREM BudgetChargedExactly ==
  ASSUME ClockSteps = FALSE
  PROVE  Spec => []BudgetExact
<1>1. BudgetInv => BudgetExact
  BY DEF BudgetInv
<1> QED
  BY <1>1, BudgetInvariant, PTL

-----------------------------------------------------------------------------
(* Over several lives: a life adds at most one execution of a request, the *)
(* one that runs counts until the next restart forgets it.                 *)
LivesInv ==
  /\ NonceInv
  /\ life \in Nat
  /\ runsEver \in [Callers \X Nonces -> Nat]
  /\ \A k \in Callers \X Nonces : runsEver[k] <= life + runs[k]

(* Executions of all lives: nothing but a restart lets a signed request    *)
(* through again, for any number of restarts and deliveries.               *)
THEOREM ReplayTakesARestart == Spec => []ReplayNeedsRestart
<1>1. Init => LivesInv
  BY DEF Init, LivesInv, NonceInv, NonceAccounting, Fresh
<1>2. LivesInv /\ [Next]_vars => LivesInv'
  <2> SUFFICES ASSUME LivesInv, [Next]_vars PROVE LivesInv'
    OBVIOUS
  <2>0. NonceInv
    BY DEF LivesInv
  <2>1. ASSUME NEW r \in Requests, Refuse(r) PROVE LivesInv'
    <3>1. NonceInv'
      BY <2>0, <2>1, RefuseKeepsNonces
    <3> QED
      BY <2>1, <3>1 DEF Refuse, LivesInv
  <2>2. ASSUME NEW r \in Requests, NEW slow, NEW ok, NEW root, Execute(r, slow, ok, root)
        PROVE  LivesInv'
    <3>1. NonceInv'
      BY <2>0, <2>2, ExecuteKeepsNonces
    <3>2. CASE RequiresAuth(r)
      <4>1. /\ runs' = [runs EXCEPT ![Key(r)] = @ + 1]
            /\ runsEver' = [runsEver EXCEPT ![Key(r)] = @ + 1]
            /\ life' = life
        BY <2>2, <3>2 DEF Execute
      <4> QED
        BY <3>1, <4>1, RequestFields DEF LivesInv, NonceInv
    <3>3. CASE ~RequiresAuth(r)
      BY <2>2, <3>1, <3>3 DEF Execute, LivesInv
    <3> QED
      BY <3>2, <3>3
  <2>3. ASSUME NEW t \in 0 .. MaxTime, Tick(t) PROVE LivesInv'
    BY <2>3 DEF Tick, LivesInv, NonceInv, NonceAccounting
  <2>4. CASE Restart
    <3>1. NonceInv'
      BY <2>4 DEF Restart, NonceInv, NonceAccounting, Fresh
    <3>2. \A k \in Callers \X Nonces : runs[k] <= 1 /\ runs[k] \in Nat
      BY DEF LivesInv, NonceInv, NonceAccounting
    <3>3. /\ runs' = [k \in Callers \X Nonces |-> 0]
          /\ runsEver' = runsEver /\ life' = life + 1
      BY <2>4 DEF Restart, Fresh
    <3> QED
      BY <3>1, <3>2, <3>3 DEF LivesInv
  <2>5. CASE UNCHANGED vars
    BY <2>5 DEF vars, LivesInv, NonceInv, NonceAccounting
  <2> QED
    BY <2>1, <2>2, <2>3, <2>4, <2>5 DEF Next, Handle
<1>3. LivesInv => ReplayNeedsRestart
  <2> SUFFICES ASSUME LivesInv, NEW k \in Callers \X Nonces PROVE runsEver[k] <= life + 1
    BY DEF ReplayNeedsRestart
  <2>1. runs[k] \in 0 .. 1
    BY DEF LivesInv, NonceInv, NonceAccounting
  <2> QED
    BY <2>1 DEF LivesInv
<1> QED
  BY <1>1, <1>2, <1>3, PTL DEF Spec
-----------------------------------------------------------------------------
(* A step of handle that accounts a request leaves the stores in type. *)
LEMMA AccountType ==
  ASSUME TypeOK, NEW c \in Callers, Account(c)
  PROVE  DOMAIN windows' \subseteq Callers /\ windows' \in [DOMAIN windows' -> RateEntry]
<1>1. WindowOf(now) \in Windows
  BY CurrentWindow DEF TypeOK
<1>2. Limit \in Nat \ {0}
  BY ConfigAssumption
<1>3. Entry(c) \in RateEntry
  BY <1>1, <1>2 DEF TypeOK, Entry, RateEntry
<1> DEFINE e == [Entry(c) EXCEPT !.count = IF Allowed(c) THEN @ + 1 ELSE @]
<1>4. e \in RateEntry
  BY <1>2, <1>3 DEF RateEntry, Allowed
<1>5. windows' = [d \in DOMAIN windows \cup {c} |-> IF d = c THEN e ELSE windows[d]]
  BY DEF Account
<1> HIDE DEF e
<1> QED
  BY <1>4, <1>5 DEF TypeOK, RateEntry

(* What the checks record is in type. *)
LEMMA RecordedType ==
  ASSUME TypeOK, NEW r \in Requests, Recorded(r)
  PROVE  /\ seen' \subseteq Callers \X Nonces
         /\ DOMAIN windows' \subseteq Callers
         /\ windows' \in [DOMAIN windows' -> [window : Windows, count : 0 .. Limit]]
<1>1. Key(r) \in Callers \X Nonces /\ r.caller \in Callers
  BY RequestFields
<1>2. CASE RequiresAuth(r) /\ FirstError(r) \in {"none", "RateLimited"}
  BY <1>1, <1>2, AccountType DEF Recorded, TypeOK, RateEntry
<1>3. CASE ~(RequiresAuth(r) /\ FirstError(r) \in {"none", "RateLimited"})
  BY <1>3 DEF Recorded, TypeOK
<1> QED
  BY <1>2, <1>3

(* A refusal keeps the types, and answers with one of the rejections. *)
LEMMA RefuseType ==
  ASSUME TypeOK, NEW r \in Requests, Refuse(r)
  PROVE  TypeOK' /\ reply' \in Rejections
<1>1. FirstError(r) \in Rejections
  BY DEF Refuse, FirstError, IdentityError, Rejections
<1>2. Recorded(r) /\ reply' = FirstError(r) /\ UNCHANGED <<now, audit, life, runs, runsEver, spent>>
  BY DEF Refuse
<1>3. burnt' \subseteq Callers \X Nonces
  BY RequestFields DEF Refuse, TypeOK
<1> QED
  BY <1>1, <1>2, <1>3, RecordedType DEF TypeOK

(* The entry an execution writes is an entry of the log. *)
LEMMA EntryType ==
  ASSUME NEW r \in Requests, NEW ok
  PROVE  [caller |-> r.caller, operation |-> r.operation,
          outcome |-> IF ok THEN "ok" ELSE "error"] \in AuditEntry
BY RequestsAssumption DEF AuditEntry, Request

(* An execution keeps the types, and answers with one of the outcomes. *)
LEMMA ExecuteType ==
  ASSUME TypeOK, NEW r \in Requests, NEW slow, NEW ok, NEW root, Execute(r, slow, ok, root)
  PROVE  TypeOK' /\ reply' \in Outcomes
<1>1. audit' \in Seq(AuditEntry)
  BY EntryType DEF Execute, Audited, TypeOK
<1>2. reply' \in Outcomes
  BY DEF Execute, ReplyTo, Outcomes
<1>3. /\ runs' \in [Callers \X Nonces -> Nat] /\ runsEver' \in [Callers \X Nonces -> Nat]
      /\ spent' \in [Callers \X Windows -> Nat]
  <2>1. CASE RequiresAuth(r)
    <3>1. Key(r) \in Callers \X Nonces /\ <<r.caller, WindowOf(now)>> \in Callers \X Windows
      BY RequestFields, CurrentWindow DEF TypeOK
    <3>2. /\ runs' = [runs EXCEPT ![Key(r)] = @ + 1]
          /\ runsEver' = [runsEver EXCEPT ![Key(r)] = @ + 1]
          /\ spent' = [spent EXCEPT ![<<r.caller, WindowOf(now)>>] = @ + 1]
      BY <2>1 DEF Execute
    <3> QED
      BY <3>1, <3>2 DEF TypeOK
  <2>2. CASE ~RequiresAuth(r)
    BY <2>2 DEF Execute, TypeOK
  <2> QED
    BY <2>1, <2>2
<1>4. Recorded(r) /\ UNCHANGED <<now, life, burnt>>
  BY DEF Execute
<1> QED
  BY <1>1, <1>2, <1>3, <1>4, RecordedType DEF TypeOK

(* A restart puts empty stores in place. *)
LEMMA RestartType ==
  ASSUME TypeOK, Restart
  PROVE  TypeOK'
<1>1. /\ now' = now /\ runsEver' = runsEver /\ life' = life + 1 /\ life < MaxRestarts
      /\ seen' = {} /\ burnt' = {} /\ reply' = "none" /\ audit' = <<>>
      /\ windows' = [c \in {} |-> 0]
      /\ runs' = [x \in Callers \X Nonces |-> 0]
      /\ spent' = [x \in Callers \X Windows |-> 0]
  BY DEF Restart, Fresh
<1>2. DOMAIN windows' = {}
  BY <1>1
<1> QED
  BY <1>1, <1>2, RequestsAssumption DEF TypeOK

(* The entries of the log that are signed executions of a caller, and the  *)
(* nonces the caller has executed.                                         *)
EntriesOf(c) == {i \in DOMAIN audit : audit[i].caller = c /\ RequiresAuth(audit[i])}
RanNonces(c) == {n \in Nonces : runs[<<c, n>>] = 1}

(* The inductive invariant of the audit log.  That the two sets have one   *)
(* size needs NonceInv (an execution is the first of its nonce) and that   *)
(* the nonces executed are finitely many, of however many there are.       *)
AuditInv ==
  /\ TypeOK /\ NonceInv
  /\ \A c \in Callers : /\ IsFiniteSet(RanNonces(c))
                        /\ Cardinality(EntriesOf(c)) = Cardinality(RanNonces(c))
                        /\ c \notin Registered => RanNonces(c) = {}
  /\ AuditAgrees

(* A store that nothing was executed in has an empty log. *)
LEMMA EmptyAudit ==
  ASSUME TypeOK, NonceInv, audit = <<>>, runs = Fresh(Callers \X Nonces), reply = "none"
  PROVE  AuditInv
<1>1. \A c \in Callers : EntriesOf(c) = {} /\ RanNonces(c) = {}
  BY DEF EntriesOf, RanNonces, Fresh
<1> QED
  BY <1>1, FS_EmptySet DEF AuditInv, AuditAgrees

(* Steps that do not touch the log, the nonces executed or an Ok. *)
LEMMA SameAudit ==
  ASSUME AuditInv, TypeOK', NonceInv', UNCHANGED <<audit, runs>>, reply' = "Ok" => reply = "Ok"
  PROVE  AuditInv'
<1>1. \A c \in Callers : EntriesOf(c)' = EntriesOf(c) /\ RanNonces(c)' = RanNonces(c)
  BY DEF EntriesOf, RanNonces, RequiresAuth
<1> QED
  BY <1>1 DEF AuditInv, AuditAgrees

(* An entry goes to the end of the log and leaves those before it alone.   *)
LEMMA AuditGrows ==
  ASSUME TypeOK, NEW e \in AuditEntry, audit' = Append(audit, e)
  PROVE  /\ Len(audit') = Len(audit) + 1 /\ audit'[Len(audit')] = e
         /\ DOMAIN audit = 1 .. Len(audit) /\ Len(audit) \in Nat
         /\ DOMAIN audit' = 1 .. Len(audit) + 1
         /\ \A i \in 1 .. Len(audit) : audit'[i] = audit[i]
BY AppendProperties, LenProperties DEF TypeOK

(* An execution adds one entry, and for a signed request one nonce.        *)
LEMMA ExecuteKeepsAudit ==
  ASSUME AuditInv, NEW r \in Requests, NEW slow, NEW ok, NEW root,
         Execute(r, slow, ok, root)
  PROVE  AuditInv'
<1> DEFINE e == [caller |-> r.caller, operation |-> r.operation,
                 outcome |-> IF ok THEN "ok" ELSE "error"]
           new == Len(audit) + 1
<1>0. TypeOK /\ NonceInv
  BY DEF AuditInv
<1>1. TypeOK' /\ NonceInv'
  BY <1>0, ExecuteType, ExecuteKeepsNonces
<1>2. e \in AuditEntry /\ audit' = Append(audit, e)
  BY EntryType DEF Execute, Audited
<1>3. /\ Len(audit') = new /\ audit'[new] = e
      /\ DOMAIN audit = 1 .. Len(audit) /\ Len(audit) \in Nat
      /\ DOMAIN audit' = 1 .. new
      /\ \A i \in 1 .. Len(audit) : audit'[i] = audit[i]
  BY <1>0, <1>2, AuditGrows
<1>4. AuditAgrees'
  <2>1. reply' = "Ok" => ok
    BY DEF Execute, ReplyTo
  <2> QED
    BY <1>3, <2>1 DEF AuditAgrees
<1>5. e.caller = r.caller /\ (RequiresAuth(e) <=> RequiresAuth(r))
  BY DEF RequiresAuth
<1> HIDE DEF e
<1>6. ASSUME NEW c \in Callers
      PROVE  EntriesOf(c)' = IF c = r.caller /\ RequiresAuth(r)
                             THEN EntriesOf(c) \cup {new} ELSE EntriesOf(c)
  BY <1>3, <1>5 DEF EntriesOf, RequiresAuth
<1>7. ASSUME NEW c \in Callers
      PROVE  new \notin EntriesOf(c) /\ IsFiniteSet(EntriesOf(c))
  <2>1. EntriesOf(c) \subseteq 1 .. Len(audit)
    BY <1>3 DEF EntriesOf
  <2>2. IsFiniteSet(1 .. Len(audit))
    BY <1>3, FS_Interval
  <2> QED
    BY <1>3, <2>1, <2>2, FS_Subset
<1>8. ASSUME NEW c \in Callers
      PROVE  /\ IsFiniteSet(RanNonces(c))'
             /\ Cardinality(EntriesOf(c))' = Cardinality(RanNonces(c))'
             /\ c \notin Registered => RanNonces(c)' = {}
  <2>1. /\ IsFiniteSet(RanNonces(c)) /\ Cardinality(EntriesOf(c)) = Cardinality(RanNonces(c))
        /\ c \notin Registered => RanNonces(c) = {}
    BY DEF AuditInv
  <2>2. CASE c = r.caller /\ RequiresAuth(r)
    <3>1. /\ runs' = [runs EXCEPT ![Key(r)] = @ + 1] /\ Key(r) \notin seen
          /\ FirstError(r) = "none"
      BY <2>2, CheckOrder DEF Execute
    <3>2. Key(r) = <<c, r.nonce>> /\ r.nonce \in Nonces
      BY <2>2, RequestsAssumption DEF Key, Request
    <3>3. runs[Key(r)] = 0 /\ runs'[Key(r)] = 1
      BY <1>0, <3>1, RequestFields DEF NonceInv, NonceAccounting
    <3>4. \A n \in Nonces : n # r.nonce => runs'[<<c, n>>] = runs[<<c, n>>]
      BY <1>0, <3>1, <3>2 DEF NonceInv
    <3>5. RanNonces(c)' = RanNonces(c) \cup {r.nonce} /\ r.nonce \notin RanNonces(c)
      BY <3>2, <3>3, <3>4 DEF RanNonces
    <3>6. c \in Registered
      BY <2>2, <3>1 DEF FirstError, IdentityError
    <3>7. EntriesOf(c)' = EntriesOf(c) \cup {new}
      BY <1>6, <2>2
    <3>8. Cardinality(EntriesOf(c) \cup {new}) = Cardinality(EntriesOf(c)) + 1
      BY <1>7, FS_AddElement
    <3>9. /\ IsFiniteSet(RanNonces(c) \cup {r.nonce})
          /\ Cardinality(RanNonces(c) \cup {r.nonce}) = Cardinality(RanNonces(c)) + 1
      BY <2>1, <3>5, FS_AddElement
    <3> QED
      BY <2>1, <3>5, <3>6, <3>7, <3>8, <3>9
  <2>3. CASE ~(c = r.caller /\ RequiresAuth(r))
    <3>1. EntriesOf(c)' = EntriesOf(c)
      BY <1>6, <2>3
    <3>2. \A n \in Nonces : runs'[<<c, n>>] = runs[<<c, n>>]
      <4>1. CASE RequiresAuth(r)
        <5>1. runs' = [runs EXCEPT ![Key(r)] = @ + 1] /\ c # r.caller
          BY <2>3, <4>1 DEF Execute
        <5> QED
          BY <1>0, <5>1 DEF NonceInv, Key
      <4>2. CASE ~RequiresAuth(r)
        BY <4>2 DEF Execute
      <4> QED
        BY <4>1, <4>2
    <3>3. RanNonces(c)' = RanNonces(c)
      BY <3>2 DEF RanNonces
    <3> QED
      BY <2>1, <3>1, <3>3
  <2> QED
    BY <2>2, <2>3
<1> QED
  BY <1>1, <1>4, <1>8 DEF AuditInv

(* The audit log for every set of callers, nonces, operations and requests *)
(* and every number of restarts: it holds one entry for each signed        *)
(* execution of this life and no other, none of them of a caller that is   *)
(* not registered, and an Ok is never given for an operation it records as *)
(* failed.                                                                 *)
THEOREM AuditLogSound == Spec => []AuditSound
<1>1. Init => AuditInv
  <2> SUFFICES ASSUME Init PROVE AuditInv
    OBVIOUS
  <2>1. NonceInv
    BY DEF Init, NonceInv, NonceAccounting, Fresh
  <2>2. DOMAIN windows = {}
    BY DEF Init
  <2>3. TypeOK
    BY <2>2, RequestsAssumption DEF Init, TypeOK, Fresh
  <2> QED
    BY <2>1, <2>3, EmptyAudit DEF Init
<1>2. AuditInv /\ [Next]_vars => AuditInv'
  <2> SUFFICES ASSUME AuditInv, [Next]_vars PROVE AuditInv'
    OBVIOUS
  <2>0. TypeOK /\ NonceInv
    BY DEF AuditInv
  <2>1. ASSUME NEW r \in Requests, Refuse(r) PROVE AuditInv'
    <3>1. TypeOK' /\ NonceInv' /\ reply' # "Ok"
      BY <2>0, <2>1, RefuseType, RefuseKeepsNonces DEF Rejections
    <3>2. UNCHANGED <<audit, runs>>
      BY <2>1 DEF Refuse
    <3> QED
      BY <3>1, <3>2, SameAudit
  <2>2. ASSUME NEW r \in Requests, NEW slow, NEW ok, NEW root, Execute(r, slow, ok, root)
        PROVE  AuditInv'
    BY <2>2, ExecuteKeepsAudit
  <2>3. ASSUME NEW t \in 0 .. MaxTime, Tick(t) PROVE AuditInv'
    <3>1. TypeOK' /\ NonceInv'
      BY <2>0, <2>3 DEF Tick, TypeOK, NonceInv, NonceAccounting
    <3> QED
      BY <2>3, <3>1, SameAudit DEF Tick
  <2>4. CASE Restart
    <3>1. TypeOK' /\ NonceInv'
      BY <2>0, <2>4, RestartType DEF Restart, NonceInv, NonceAccounting, Fresh
    <3>2. audit' = <<>> /\ runs' = Fresh(Callers \X Nonces) /\ reply' = "none"
      BY <2>4 DEF Restart
    <3>3. \A c \in Callers : EntriesOf(c)' = {} /\ RanNonces(c)' = {}
      BY <3>2 DEF EntriesOf, RanNonces, Fresh
    <3> QED
      BY <3>1, <3>2, <3>3, FS_EmptySet DEF AuditInv, AuditAgrees
  <2>5. CASE UNCHANGED vars
    <3>1. TypeOK' /\ NonceInv'
      BY <2>0, <2>5 DEF vars, TypeOK, NonceInv, NonceAccounting
    <3> QED
      BY <2>5, <3>1, SameAudit DEF vars
  <2> QED
    BY <2>1, <2>2, <2>3, <2>4, <2>5 DEF Next, Handle
<1>3. AuditInv => AuditSound
  <2> SUFFICES ASSUME AuditInv, NEW c \in Callers
               PROVE  /\ Cardinality(EntriesOf(c)) = Cardinality(RanNonces(c))
                      /\ c \notin Registered => \A n \in Nonces : runs[<<c, n>>] = 0
    BY DEF AuditInv, AuditSound, AuditComplete, EntriesOf, RanNonces
  <2>1. \A n \in Nonces : runs[<<c, n>>] \in {0, 1}
    BY DEF AuditInv, NonceInv, NonceAccounting
  <2> QED
    BY <2>1 DEF AuditInv, RanNonces
<1> QED
  BY <1>1, <1>2, <1>3, PTL DEF Spec
=============================================================================
