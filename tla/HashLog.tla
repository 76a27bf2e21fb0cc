------------------------------- MODULE HashLog -------------------------------
(***************************************************************************)
(* The two hash-chained logs: key lifecycle events (crates/custody         *)
(* lifecycle.rs) and audit records (crates/cmp audit.rs).                  *)
(*                                                                         *)
(* double_sha256 is collision-free here: a hash is the record of what was  *)
(* hashed, its predecessor's hash inside it.  What is hashed is the code's *)
(* byte string: an event's fields have fixed widths and stay apart, while  *)
(* an audit record's actor and action are strings joined by Sep (0x1f).    *)
(***************************************************************************)
EXTENDS Naturals, Sequences, SequencesExt

CONSTANT Sep

ZeroHash == [zero |-> 0]
HeadHash(log) == IF log = <<>> THEN ZeroHash ELSE Last(log).hash

EventHash(kind, key, time, prev) == [kind |-> kind, key |-> key, time |-> time, prev |-> prev]
Event(kind, key, time, prev) ==
  [kind |-> kind, key |-> key, time |-> time, prev |-> prev,
   hash |-> EventHash(kind, key, time, prev)]

(* verify_lifecycle, check by check. *)
TimesOrdered(log, i) == log[i].time >= log[i - 1].time
Rehashes(e) == e.hash = EventHash(e.kind, e.key, e.time, e.prev)
LinksNothing(log, i) == TRUE   \* mutant: prev_hash is not compared
LinksAt(log, i) == log[i].prev = log[i - 1].hash
VerifyLifecycle(log) ==
  /\ log # <<>> /\ log[1].kind = "Genesis" /\ log[1].prev = ZeroHash
  /\ \A i \in DOMAIN log :
       /\ Rehashes(log[i])
       /\ i > 1 => /\ log[i].kind # "Genesis"
                   /\ LinksAt(log, i)
                   /\ TimesOrdered(log, i)
                   /\ log[i - 1].kind # "Revocation"

(* record_hash *)
Joined(actor, action) == actor \o <<Sep>> \o action
RecordHash(time, actor, action, prev) ==
  [time |-> time, text |-> Joined(actor, action), prev |-> prev]
AuditRecord(time, actor, action, prev) ==
  [time |-> time, actor |-> actor, action |-> action, prev |-> prev,
   hash |-> RecordHash(time, actor, action, prev)]

(* verify_audit_chain *)
Rehashed(r) == r.hash = RecordHash(r.time, r.actor, r.action, r.prev)
VerifyAuditChain(log) ==
  \A i \in DOMAIN log :
    /\ log[i].prev = HeadHash(SubSeq(log, 1, i - 1))
    /\ Rehashed(log[i])
==============================================================================
