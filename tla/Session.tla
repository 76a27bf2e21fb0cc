------------------------------- MODULE Session -------------------------------
(***************************************************************************)
(* A broadcast session split into sub-session transactions (crates/session *)
(* with crates/res around it): the broadcaster drafts one transaction per  *)
(* sub-session, members sign it SINGLE and send their component over the   *)
(* secure channel, the broadcaster sets the rekeying payload, signs ALL    *)
(* last and commits; the transactions are submitted through the            *)
(* Resubmitter behind the circuit breaker, and the broadcast is released   *)
(* once all are uploaded.  The service may shut down gracefully and come   *)
(* back.  Envelopes arrive late, twice or never; anybody may send others,  *)
(* alter a draft before it is committed, or show the node an altered copy  *)
(* later.                                                                  *)
(*                                                                         *)
(* The crates are libraries: the order of the calls is that of their tests *)
(* and comments (a signature is verified before it is counted, a payload   *)
(* is set before the broadcaster signs).  The node is external: it takes a *)
(* transaction whose inputs are unspent and unlocked, may be unreachable,  *)
(* may evict what it took and mines what it keeps.                         *)
(***************************************************************************)
EXTENDS SessionTx, Resilience, FiniteSets

CONSTANTS
  Broadcaster,    \* the broadcaster's key
  Stranger,       \* the key of somebody who is in no sub-session
  Sessions,       \* sub-sessions
  MembersOf,      \* the members of each, as a sequence of keys
  Payloads,       \* rekeying payloads
  Contributions,  \* what the members may have contributed: functions from members
  MemFee,         \* Subscription.mem_fee
  Expiry,         \* expiry of a member's output, in starts of the service
  MaxTrouble      \* bound on Trouble

Members == UNION {{MembersOf[s][i] : i \in DOMAIN MembersOf[s]} : s \in Sessions}

ASSUME SessionAssumption ==
  /\ MemFee \in Nat \ {0} /\ Contributions \subseteq [Members -> Nat]
  /\ Broadcaster \notin Members /\ Stranger \notin Members \cup {Broadcaster}
  /\ IsFiniteSet(Members)
  /\ \A s \in Sessions : MembersOf[s] \in Seq(Members)
  /\ {Expiry, MaxTrouble} \subseteq Nat

VARIABLES
  tx,        \* the transaction of each sub-session
  flight,    \* its InFlightSession
  mail,      \* envelopes sent by members
  contribution, renewed,  \* the Subscription of each member
  resub,     \* the Resubmitter
  breaker,   \* the CircuitBreaker
  uploaded,  \* the flags given to ready_to_release
  released,  \* has the broadcast been released?
  cache,     \* SessionState.statuses after the last start
  mempool, mined,  \* the node (external)
  now,
  stopped,
  agreed,    \* history: what each member saw when it signed
  sealed,    \* history: what the broadcaster saw when it signed
  credit,    \* history: calls to the node still due for each sub-session
  streak,    \* history: failed calls in a row
  tampers, evictions, shutdowns

vars == <<tx, flight, mail, contribution, renewed, resub, breaker, uploaded, released, cache, mempool, mined,
          now, stopped, agreed, sealed, credit, streak, tampers, evictions, shutdowns>>

draftVars == <<tx, flight, mail, contribution, renewed, agreed, sealed>>
submitVars == <<resub, breaker, uploaded, credit, streak>>
nodeVars == <<mempool, mined, now, evictions>>
runVars == <<released, cache, stopped, shutdowns>>

(* What may go wrong in one behaviour: failed calls in a row, alterations  *)
(* (which count twice, as there are many), evictions and shutdowns.        *)
Trouble == breaker.failures + 2 * tampers + evictions + shutdowns
Room(n) == Trouble + n <= MaxTrouble

NoTx == [inputs |-> <<>>, outputs |-> <<>>]
Placeholder == "empty"
Value == 2   \* what every funding output is worth

(* MemberSpec and SessionParams: each party spends an outpoint of its own. *)
Funding(key, s) == <<key, s>>
Spare(s) == <<Broadcaster, s, "spare">>   \* another coin of the broadcaster
LockOf(outpoint) == P2pkh(outpoint[1])
PartySpec(key, s) == [key |-> key, funding |-> Funding(key, s), output |-> 1]
Draft(s) ==
  BuildSession([i \in DOMAIN MembersOf[s] |-> PartySpec(MembersOf[s][i], s)],
               PartySpec(Broadcaster, s), Placeholder)
Binding(s) == <<"session", s>>

MembersVerified(s) ==
  \A i \in DOMAIN MembersOf[s] : VerifyMember(tx[s], i, MembersOf[s][i], Value)

(* subscription.rs *)
SessionsFunded(m) == contribution[m] \div MemFee
CanRenew(m) == renewed[m] < SessionsFunded(m)
IsRevoked(m, elapsed) == renewed[m] < elapsed

(* builder.rs ready_to_release *)
ReadyToRelease(flags) == DOMAIN flags # {} /\ \A s \in DOMAIN flags : flags[s]

(* External: the outputs mined so far, as recovery.rs reads them. *)
Spends(t, outpoint) == \E i \in DOMAIN t.inputs : t.inputs[i].outpoint = outpoint
Snapshot ==
  LET ms == CHOOSE q \in [1 .. Cardinality(Members) -> Members] :
              \A i, j \in DOMAIN q : q[i] = q[j] => i = j
  IN [i \in DOMAIN ms |->
        [id |-> ms[i], expiry |-> Expiry,
         spent |-> \E t \in mined, s \in Sessions : Spends(t, Funding(ms[i], s))]]

(* External: the node's check of a whole transaction. *)
Accepts(t) ==
  /\ \A i \in DOMAIN t.inputs : NodeAccepts(t, i, LockOf(t.inputs[i].outpoint), Value)
  /\ \A u \in (mempool \cup mined) \ {t}, i \in DOMAIN t.inputs :
       ~Spends(u, t.inputs[i].outpoint)

Init ==
  /\ tx = [s \in Sessions |-> NoTx] /\ flight = [s \in Sessions |-> NewInFlight]
  /\ mail = {} /\ contribution \in Contributions /\ renewed = [m \in Members |-> 0]
  /\ resub = NewResubmitter /\ breaker = NewBreaker
  /\ uploaded = [s \in Sessions |-> FALSE] /\ released = FALSE
  /\ mempool = {} /\ mined = {} /\ now = 0
  /\ cache = [m \in Members |-> "Active"]
  /\ stopped = TRUE   \* the first start is a Restart
  /\ agreed = {} /\ sealed = {}
  /\ credit = [s \in Sessions |-> 1] /\ streak = 0
  /\ tampers = 0 /\ evictions = 0 /\ shutdowns = 0

(* build_session *)
Build(s) ==
  /\ ~stopped /\ tx[s] = NoTx /\ Draft(s) # Err
  /\ tx' = [tx EXCEPT ![s] = Draft(s)]
  /\ UNCHANGED <<flight, mail, contribution, renewed, agreed, sealed, submitVars, nodeVars, runVars, tampers>>

(* sign_member on the member's copy of the draft, sealed for the session.  *)
(* The first signature for a sub-session is the renewal that pays for it.  *)
View(t, i) == [own |-> t.outputs[i], prevouts |-> Prevouts(t)]
HasSigned(m, s) == \E a \in agreed : a.key = m /\ a.session = s
MemberSigns(s, i) ==
  LET m == MembersOf[s][i]
      digest == MemberDigest(tx[s], i, m, Value)
  IN /\ ~stopped /\ tx[s] # NoTx /\ ~flight[s].member /\ digest # Err
     /\ HasSigned(m, s) \/ CanRenew(m)
     /\ renewed' = [renewed EXCEPT ![m] = IF HasSigned(m, s) THEN @ ELSE @ + 1]
     /\ mail' = mail \cup {Seal([index |-> i, unlock |-> Unlock(m, digest)], Binding(s))}
     /\ agreed' = agreed \cup {[key |-> m, session |-> s, view |-> View(tx[s], i),
                               unlock |-> Unlock(m, digest)]}
     /\ UNCHANGED <<tx, flight, contribution, sealed, submitVars, nodeVars, runVars, tampers>>

(* What anybody can put into an input: an unlocking script it has seen, of *)
(* any party, draft or sub-session; or a signature of its own over the     *)
(* member's digest, which verify_member takes for the member's.            *)
Seen == {a.unlock : a \in agreed} \cup
        UNION {{tx[r].inputs[i].unlock : i \in DOMAIN tx[r].inputs} : r \in Sessions}
Forged(t, s, i) ==
  Seen \cup {Unlock(Stranger, MemberDigest(t, j, MembersOf[s][j], Value)) : j \in DOMAIN MembersOf[s] \cap {i}}

(* SecureChannel::open, and the component goes into the draft.  The tag of *)
(* an envelope has no key: anybody can seal any component for any          *)
(* sub-session and place in it.                                            *)
OtherMail(s) ==
  IF tx[s] = NoTx THEN {}
  ELSE UNION {{Seal([index |-> i, unlock |-> u], Binding(s)) : u \in Forged(tx[s], s, i)} :
                i \in DOMAIN MembersOf[s]}
Receive(s, e) ==
  /\ ~stopped /\ tx[s] # NoTx /\ ~flight[s].member
  /\ Opens(e, Binding(s))
  /\ e.component.index \in DOMAIN MembersOf[s]
  /\ tx' = [tx EXCEPT ![s] = ApplyUnlock(@, e.component.index, e.component.unlock)]
  /\ e \in mail \/ Room(2)
  /\ tampers' = IF e \in mail THEN tampers ELSE tampers + 1
  /\ UNCHANGED <<flight, mail, contribution, renewed, agreed, sealed, submitVars, nodeVars, runVars>>

(* verify_member for every member, then InFlightSession::sign_member. *)
MembersDone(s) ==
  /\ ~stopped /\ tx[s] # NoTx /\ ~flight[s].member /\ MembersVerified(s)
  /\ flight' = [flight EXCEPT ![s] = InFlightSignMember(@)]
  /\ UNCHANGED <<tx, mail, contribution, renewed, agreed, sealed, submitVars, nodeVars, runVars, tampers>>

(* The broadcaster sets the data carrier and signs last.  Before the       *)
(* commit it may do so again: the re-encrypt path.                         *)
BroadcasterSigns(s, p) ==
  /\ ~stopped /\ flight[s].member /\ ~flight[s].committed
  /\ LET t == [tx[s] EXCEPT !.outputs[CarrierIndex(tx[s])] = DataCarrier(p)]
     IN /\ tx' = [tx EXCEPT ![s] = SignBroadcaster(t, Broadcaster, Value)]
        /\ sealed' = sealed \cup {[session |-> s, life |-> shutdowns,
                                   outputs |-> t.outputs, prevouts |-> Prevouts(t)]}
  /\ flight' = [flight EXCEPT ![s] = InFlightSignBroadcaster(@)]
  /\ UNCHANGED <<mail, contribution, renewed, agreed, submitVars, nodeVars, runVars, tampers>>

(* A commit of the broadcaster's verified transaction. *)
Commit(s) ==
  /\ ~stopped /\ tx[s] # NoTx /\ ~flight[s].committed
  /\ MembersVerified(s) /\ VerifyBroadcaster(tx[s], Broadcaster, Value)
  /\ flight' = [flight EXCEPT ![s] = InFlightCommit(@)]
  /\ UNCHANGED <<tx, mail, contribution, renewed, agreed, sealed, submitVars, nodeVars, runVars, tampers>>

(* What anybody who has the transaction can change. *)
Altered(t, s) ==
  {[t EXCEPT !.outputs[CarrierIndex(t)] = DataCarrier("other")],
   [t EXCEPT !.outputs[1].value = 0],
   [t EXCEPT !.inputs[BroadcasterIndex(t)].outpoint = Spare(s)]}
  \cup UNION {{ApplyUnlock(t, i, u) : u \in Forged(t, s, i)} : i \in DOMAIN t.inputs}

Tamper(s) ==
  /\ tx[s] # NoTx /\ ~flight[s].committed /\ Room(2)
  /\ \E t \in Altered(tx[s], s) : tx' = [tx EXCEPT ![s] = t]
  /\ tampers' = tampers + 1
  /\ UNCHANGED <<flight, mail, contribution, renewed, agreed, sealed, submitVars, nodeVars, runVars>>

(* An altered copy of a committed transaction is shown to the node. *)
ShowAltered(s) ==
  /\ flight[s].committed /\ Room(2)
  /\ tampers' = tampers + 1
  /\ \E t \in Altered(tx[s], s) :
       mempool' = IF Accepts(t) THEN mempool \cup {t} ELSE mempool
  /\ UNCHANGED <<draftVars, submitVars, mined, now, evictions, runVars>>

(* The Resubmitter decides whether the node is called at all: a first      *)
(* submission goes through submit, a marked one through resubmit_evicted.  *)
Attempt(s) ==
  IF tx[s] \in resub.evicted THEN ResubmitEvicted(resub, tx[s]) ELSE Submit(resub, tx[s])
Calling(s) ==
  /\ ~stopped /\ flight[s].committed /\ ~uploaded[s]
  /\ ~IsTripped(breaker)
  /\ Attempt(s).outcome \in {"Broadcast", "Rebroadcast"}
  /\ resub' = Attempt(s).state
  /\ credit' = [credit EXCEPT ![s] = @ - 1]
  /\ UNCHANGED <<draftVars, mined, now, evictions, runVars, tampers>>

(* The call reaches the node, which takes the transaction or refuses it.   *)
Taken(s) == IF Accepts(tx[s]) /\ tx[s] \notin mined THEN mempool \cup {tx[s]} ELSE mempool
Upload(s) ==
  /\ Calling(s)
  /\ breaker' = RecordSuccess(breaker) /\ streak' = 0
  /\ mempool' = Taken(s)
  /\ uploaded' = [uploaded EXCEPT ![s] = Accepts(tx[s])]

(* The call fails: it does not reach the node, or its answer is lost. *)
UploadFails(s) ==
  /\ Calling(s) /\ Room(1)
  /\ breaker' = RecordFailure(breaker) /\ streak' = streak + 1
  /\ mempool' \in {mempool, Taken(s)}
  /\ UNCHANGED uploaded

(* The service finds that the node does not have a transaction it          *)
(* submitted: evicted, or never arrived.  It may be marked already.        *)
DetectEviction(s) ==
  /\ ~stopped /\ flight[s].committed
  /\ tx[s] \in resub.known /\ tx[s] \notin mempool \cup mined
  /\ tx[s] \in resub.evicted => uploaded[s]
  /\ resub' = MarkEvicted(resub, tx[s])
  /\ credit' = [credit EXCEPT ![s] = IF tx[s] \in resub.evicted THEN @ ELSE @ + 1]
  /\ uploaded' = [uploaded EXCEPT ![s] = FALSE]
  /\ UNCHANGED <<draftVars, breaker, streak, nodeVars, runVars, tampers>>

(* It finds that the node has a transaction whose call failed, or which it *)
(* does not remember from before a restart.                                *)
DetectUpload(s) ==
  /\ ~stopped /\ flight[s].committed /\ ~uploaded[s]
  /\ tx[s] \in resub.known \cap (mempool \cup mined)
  /\ uploaded' = [uploaded EXCEPT ![s] = TRUE]
  /\ UNCHANGED <<draftVars, resub, breaker, credit, streak, nodeVars, runVars, tampers>>

HalfOpenTrial ==
  /\ ~stopped /\ IsTripped(breaker)
  /\ breaker' = Trial(breaker)
  /\ UNCHANGED <<draftVars, resub, uploaded, credit, streak, nodeVars, runVars, tampers>>

Release ==
  /\ ~stopped /\ ~released /\ ReadyToRelease(uploaded)
  /\ released' = TRUE
  /\ UNCHANGED <<draftVars, submitVars, nodeVars, cache, stopped, shutdowns, tampers>>

(* graceful_shutdown of every session: the flags of what is not committed  *)
(* are reset.  The drafts belong to the callers: some are lost with the    *)
(* process, others are still there, with the signatures they had, and      *)
(* envelopes still arrive.                                                 *)
Shutdown ==
  /\ ~stopped /\ Room(1)
  /\ stopped' = TRUE /\ shutdowns' = shutdowns + 1
  /\ flight' = [s \in Sessions |-> GracefulShutdown(flight[s])]
  /\ \E lost \in SUBSET {s \in Sessions : ~flight[s].committed} :
       tx' = [s \in Sessions |-> IF s \in lost THEN NoTx ELSE tx[s]]
  /\ UNCHANGED <<mail, contribution, renewed, agreed, sealed, submitVars, nodeVars, released, cache, tampers>>

(* A restart, some time later, has empty resilience state and rebuilds the *)
(* statuses: the only place the time of day is used.                       *)
Restart ==
  /\ stopped /\ stopped' = FALSE
  /\ resub' = NewResubmitter /\ breaker' = NewBreaker /\ streak' = 0
  /\ uploaded' = [s \in Sessions |-> FALSE]
  /\ credit' = [s \in Sessions |-> 1]
  /\ now' = now + 1
  /\ cache' = RebuildFromChain(Snapshot, now')
  /\ UNCHANGED <<draftVars, mempool, mined, evictions, released, shutdowns, tampers>>

(* External. *)
Evict(t) ==
  /\ t \in mempool /\ Room(1)
  /\ mempool' = mempool \ {t} /\ evictions' = evictions + 1
  /\ UNCHANGED <<draftVars, submitVars, mined, now, runVars, tampers>>
Mine(t) ==
  /\ t \in mempool
  /\ mempool' = mempool \ {t} /\ mined' = mined \cup {t}
  /\ UNCHANGED <<draftVars, submitVars, now, evictions, runVars, tampers>>

Next ==
  \/ \E s \in Sessions :
       \/ Build(s) \/ \E i \in DOMAIN MembersOf[s] : MemberSigns(s, i)
       \/ \E e \in mail \cup OtherMail(s) : Receive(s, e)
       \/ MembersDone(s) \/ \E p \in Payloads : BroadcasterSigns(s, p)
       \/ Commit(s) \/ Tamper(s) \/ ShowAltered(s)
       \/ Upload(s) \/ UploadFails(s) \/ DetectEviction(s) \/ DetectUpload(s)
  \/ HalfOpenTrial \/ Release \/ Shutdown \/ Restart
  \/ \E t \in mempool : Evict(t) \/ Mine(t)

(* The service comes back after a shutdown and keeps looking after its     *)
(* transactions, and the node is not unreachable for ever.                 *)
Notice(s) == DetectEviction(s) \/ DetectUpload(s)
Fairness ==
  /\ WF_vars(Restart \/ HalfOpenTrial \/ Release)
  /\ \A s \in Sessions : WF_vars(Notice(s)) /\ SF_vars(Upload(s))

Spec == Init /\ [][Next]_vars /\ Fairness
-------------------------------------------------------------------------------
(* Every variable has its type; a transaction has one output more than     *)
(* inputs, and one input more than its sub-session has members.            *)
TypeOK ==
  /\ \A s \in Sessions :
       \/ tx[s] = NoTx
       \/ /\ Len(tx[s].inputs) = Len(MembersOf[s]) + 1
          /\ Len(tx[s].outputs) = Len(tx[s].inputs) + 1
  /\ flight \in [Sessions -> [member : BOOLEAN, broadcaster : BOOLEAN, committed : BOOLEAN]]
  /\ renewed \in [Members -> Nat]
  /\ resub.evicted \subseteq resub.known
  /\ breaker \in [threshold : Nat \ {0}, failures : Nat, state : {"Closed", "Open", "HalfOpen"}]
  /\ uploaded \in [Sessions -> BOOLEAN] /\ released \in BOOLEAN /\ stopped \in BOOLEAN
  /\ cache \in [Members -> {"Renewed", "Active", "Revoked"}]

(* sign_member and sign_broadcaster together: whatever is altered on the   *)
(* way and in whatever order components arrive, a transaction the node     *)
(* takes has exactly the outputs (the rekeying payload among them) and the *)
(* inputs the broadcaster signed, and pays every member what that member   *)
(* saw, out of the inputs it saw.                                          *)
AcceptedAsSigned ==
  \A t \in mempool \cup mined :
    /\ \E x \in sealed : x.outputs = t.outputs /\ x.prevouts = Prevouts(t)
    /\ \A i \in 1 .. Len(t.inputs) - 1 :
         \E a \in agreed : a.key = t.inputs[i].unlock.by /\ a.view = View(t, i)

(* MEMBER_FLAG: a member's signature stays valid when the payload or       *)
(* another party's output changes afterwards; only its own output and the  *)
(* set of inputs are under it.                                             *)
MemberSignatureStands ==
  \A s \in Sessions, a \in agreed : \A i \in DOMAIN MembersOf[s] :
    /\ tx[s] # NoTx /\ a.session = s /\ a.key = MembersOf[s][i] /\ a.view = View(tx[s], i)
    => VerifyMember(ApplyUnlock(tx[s], i, a.unlock), i, a.key, Value)

(* MEMBER_FLAG and verify_member, wherever components are sent, sealed     *)
(* again or copied (the tag of an envelope stops nobody): one that is a    *)
(* member's and verifies in a draft was made by that member for this       *)
(* sub-session and over what the draft says.                               *)
NoLifting ==
  \A s \in Sessions : \A i \in DOMAIN MembersOf[s] :
    LET m == MembersOf[s][i]
        u == tx[s].inputs[i].unlock
    IN tx[s] # NoTx /\ VerifyMember(tx[s], i, m, Value) /\ u.by = m =>
         \E a \in agreed : a.key = m /\ a.session = s /\ a.view = View(tx[s], i) /\ a.unlock = u

(* ready_to_release: the broadcast is out only if every sub-session was    *)
(* committed and taken by the node (which may have evicted it since).      *)
ReleasedIsUploaded ==
  released => \A s \in Sessions :
    flight[s].committed /\ (evictions > 0 \/ tx[s] \in mempool \cup mined)

(* InFlightSession: a committed transaction has every signature in place,  *)
(* whatever is altered, arrives late or is shut down afterwards.           *)
CommittedIsWhole ==
  \A s \in Sessions : flight[s].committed =>
    MembersVerified(s) /\ VerifyBroadcaster(tx[s], Broadcaster, Value)

(* graceful_shutdown and commit: a transaction that was rolled back may    *)
(* keep the signatures its draft has, but it is not committed on the       *)
(* strength of them; the broadcaster has signed it since the last start.   *)
RollbackHonoured ==
  [][\A s \in Sessions :
       flight'[s].committed /\ ~flight[s].committed =>
         \E x \in sealed : x.session = s /\ x.life = shutdowns]_vars

(* CircuitBreaker: it is closed exactly while fewer failures in a row than *)
(* the threshold were seen; a failed trial reopens it at once.             *)
BreakerExact ==
  /\ breaker.state = "Closed" <=> streak < breaker.threshold
  /\ breaker.failures = streak

(* BoundedBackoff: the delay before the next attempt never exceeds the     *)
(* maximum and never falls below the base (if the maximum is above that)   *)
(* or below an earlier delay, past the word width too.                     *)
BackoffGrows ==
  /\ DelayMillis(breaker.failures) \in Least(BaseMillis, MaxMillis) .. MaxMillis
  /\ breaker.failures > 0 => DelayMillis(breaker.failures - 1) <= DelayMillis(breaker.failures)

(* Resubmitter: the node is called once for a transaction, and once more   *)
(* for every eviction found; never twice for one.                          *)
OneCallPerEviction == \A s \in Sessions : credit[s] \in {0, 1}

(* Subscription: a member takes part in no more sub-sessions than its      *)
(* contribution pays for, whatever is redrafted or rolled back, and after  *)
(* n sub-sessions it is revoked exactly if it took part in fewer.          *)
FundedRenewals ==
  \A m \in Members :
    LET part == Cardinality({a.session : a \in {b \in agreed : b.key = m}})
    IN /\ part * MemFee <= contribution[m]
       /\ \A n \in 0 .. Cardinality(Sessions) : IsRevoked(m, n) <=> part < n

(* rebuild_from_chain: from one start to the next a renewed member stays   *)
(* renewed and a revoked one does not become active again.                 *)
RecoveryMonotone ==
  [][\A m \in Members :
       /\ cache[m] = "Renewed" => cache'[m] = "Renewed"
       /\ cache[m] = "Revoked" => cache'[m] # "Active"]_vars

(* Failures, an open breaker, evictions and shutdowns do not lose a        *)
(* committed transaction whose components are the members' own: it gets to *)
(* the node.  (With a stranger's the node refuses it.)                     *)
OwnComponents(s) == \A i \in DOMAIN MembersOf[s] : tx[s].inputs[i].unlock.by = MembersOf[s][i]

(* Nobody takes part in what it did not agree to: transactions are         *)
(* accepted as they were signed, a component counts only where its member  *)
(* meant it, and members renew no more than they paid for.                 *)
ConsentSound ==
  /\ AcceptedAsSigned
  /\ NoLifting
  /\ FundedRenewals

(* From commit to release: the node is called once per eviction, the       *)
(* breaker trips exactly after enough failures in a row, delays grow; what *)
(* is committed is whole, and the broadcast is released when everything is *)
(* uploaded.                                                               *)
SubmissionSound ==
  /\ TypeOK
  /\ OneCallPerEviction
  /\ BreakerExact
  /\ BackoffGrows
  /\ CommittedIsWhole
  /\ ReleasedIsUploaded
==============================================================================
