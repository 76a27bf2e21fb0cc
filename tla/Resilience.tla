----------------------------- MODULE Resilience ------------------------------
(***************************************************************************)
(* The resilience layer (crates/res): each type is a record, each method   *)
(* an operator from the record before the call to the one after it.        *)
(***************************************************************************)
EXTENDS Naturals, Sequences

CONSTANTS
  Threshold,   \* CircuitBreaker::new(threshold)
  Width,       \* bits of a machine word: 64 in the code
  BaseMillis,  \* BoundedBackoff.base_millis
  MaxMillis    \* BoundedBackoff.max_millis

(* 1 << n, for the shifts that checked_shl lets through and the word size. *)
Pow2[n \in 0 .. Width] == IF n = 0 THEN 1 ELSE 2 * Pow2[n - 1]

ASSUME ResilienceAssumption ==
  /\ Threshold \in Nat /\ Width \in Nat \ {0}
  /\ {BaseMillis, MaxMillis} \subseteq 0 .. (Pow2[Width] - 1)

Least(a, b) == IF a < b THEN a ELSE b

(* breaker.rs *)
NewBreaker == [threshold |-> IF Threshold = 0 THEN 1 ELSE Threshold, failures |-> 0, state |-> "Closed"]
IsTripped(b) == b.state = "Open"
RecordSuccess(b) == [b EXCEPT !.failures = 0, !.state = "Closed"]
RecordFailure(b) ==
  LET n == b.failures + 1
  IN [b EXCEPT !.failures = n, !.state = IF n >= b.threshold THEN "Open" ELSE @]
Trial(b) == [b EXCEPT !.state = IF @ = "Open" THEN "HalfOpen" ELSE @]

(* backoff.rs: checked_shl fails only when the shift is at least the word  *)
(* width, and the product saturates.                                       *)
WordMax == Pow2[Width] - 1
Factor(attempt) == IF attempt < Width THEN Pow2[attempt] ELSE WordMax
DelayMillis(attempt) == Least(Least(BaseMillis * Factor(attempt), WordMax), MaxMillis)

(* resubmit.rs: each method answers the outcome and the new record. *)
NewResubmitter == [known |-> {}, evicted |-> {}]
Submit(r, txid) ==
  IF txid \in r.known THEN [outcome |-> "AlreadyKnown", state |-> r]
  ELSE [outcome |-> "Broadcast", state |-> [r EXCEPT !.known = @ \cup {txid}]]
MarkEvicted(r, txid) ==
  IF txid \in r.known THEN [r EXCEPT !.evicted = @ \cup {txid}] ELSE r
ResubmitKeepsMark(r, txid) ==   \* mutant: the mark is not removed
  [outcome |-> IF txid \in r.evicted THEN "Rebroadcast" ELSE "AlreadyKnown", state |-> r]
ResubmitEvicted(r, txid) ==
  IF txid \in r.evicted
  THEN [outcome |-> "Rebroadcast", state |-> [r EXCEPT !.evicted = @ \ {txid}]]
  ELSE [outcome |-> "AlreadyKnown", state |-> r]

(* shutdown.rs *)
NewInFlight == [member |-> FALSE, broadcaster |-> FALSE, committed |-> FALSE]
InFlightSignMember(f) == [f EXCEPT !.member = TRUE]
InFlightSignBroadcaster(f) == [f EXCEPT !.broadcaster = TRUE]
InFlightCommit(f) == [f EXCEPT !.committed = @ \/ (f.member /\ f.broadcaster)]
RollBackMemberOnly(f) == IF f.committed THEN f ELSE [f EXCEPT !.member = FALSE]   \* mutant
GracefulShutdown(f) ==
  IF f.committed THEN f ELSE [f EXCEPT !.member = FALSE, !.broadcaster = FALSE]

(* recovery.rs: a snapshot holds one [id, spent, expiry] per member. *)
StatusInverted(member, now) ==   \* mutant: the comparison is the other way round
  CASE member.spent -> "Renewed"
    [] ~member.spent /\ member.expiry >= now -> "Revoked"
    [] OTHER -> "Active"
StatusOf(member, now) ==
  CASE member.spent -> "Renewed"
    [] ~member.spent /\ member.expiry < now -> "Revoked"
    [] OTHER -> "Active"
RebuildFromChain(members, now) ==
  LET ids == {members[i].id : i \in DOMAIN members}
      recordOf(id) == CHOOSE m \in {members[i] : i \in DOMAIN members} : m.id = id
  IN [id \in ids |-> StatusOf(recordOf(id), now)]
==============================================================================
