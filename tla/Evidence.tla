------------------------------ MODULE Evidence ------------------------------
(***************************************************************************)
(* The host side of the evidence gate, as functions of what they read: the *)
(* gateway's audit records of this run and the artifacts collected from the*)
(* sandbox.  verify_layerb_audit.py (rows B8 and B9), verify_pp18.py,      *)
(* stamp_artifacts.py, the Layer B half of ipv6_acceptance.py and the nine *)
(* checks of audit_gate_evidence.py.                                       *)
(*                                                                         *)
(* A log is the sequence of this run's records that carry a row label or a *)
(* fact the gate asks for (the script starts on an empty log); `bad' says  *)
(* that a line could not be parsed.  A connection is named by the probe    *)
(* that opened it.  Layer A (pure policy evaluation in one process) and E5 *)
(* (digests of the verifiers' own sources) have one outcome and are left   *)
(* out, as is the chain of E7, which module AuditLog is about.             *)
(***************************************************************************)
EXTENDS Sequences, FiniteSets, Integers, TLC

CONSTANTS
  RunId,    \* the id the control plane issued for this execution
  NoId      \* null: what the sandbox writes, as it is never told the id

\* Required Layer B rows; the sandbox reports the first seven.
SandboxRows == {"B1", "B2", "B3", "B4", "B5", "B6", "B7"}
REQUIRED_B == SandboxRows \cup {"B8", "B9"}

\* A field that the record does not carry.
Missing == "MISSING"

\* An audit record; torn is terminated_conn_ids, v6 that the pin is a real
\* IPv6 address and every required field is there.
Record(decision, row, conn, nonce, v6) ==
  [decision |-> decision, row |-> row, conn |-> conn, nonce |-> nonce,
   v6 |-> v6, torn |-> {}]

KillSwitch(torn) ==
  [decision |-> "KILL_SWITCH", row |-> Missing, conn |-> Missing, nonce |-> Missing,
   v6 |-> FALSE, torn |-> torn]

-----------------------------------------------------------------------------
(* The chain run_id -> row -> conn_id -> KILL_SWITCH.terminated_conn_ids.  *)
Kills(log) == {i \in DOMAIN log : log[i].decision = "KILL_SWITCH"}
Killed(log) == UNION {log[i].torn : i \in Kills(log)}
Owners(log, row) == {i \in DOMAIN log : log[i].row = row /\ log[i].conn # Missing}
ConnIds(log, row) == {log[i].conn : i \in Owners(log, row)}
Allows(log) == {i \in DOMAIN log : log[i].decision = "ALLOW" /\ log[i].row \in {"B3", "B5"}}
LastOf(log, S) == log[CHOOSE i \in S : \A j \in S : j <= i]

\* Mutant: any kill record of the run counts.
AnyKill(log, row) == Killed(log) # {}

\* The exact connection of the row was torn down.
Hit(log, row) == ConnIds(log, row) \cap Killed(log) # {}

(* verify_layerb_audit.evaluate(), B8: the last ALLOW of the row.          *)
b8(log, bad) ==
  LET rec == LastOf(log, Allows(log))
  IN  IF bad THEN "AUDIT_UNREADABLE_OR_TRUNCATED"
      ELSE IF log = <<>> THEN "NO_RECORDS_FOR_RUN"
      ELSE IF Allows(log) = {} THEN "NO_MATCHING_RECORD"
      ELSE IF ~rec.v6 THEN "PIN_NOT_V6_OR_MISSING"
      ELSE IF rec.nonce = Missing THEN "NO_TEST_CORRELATION"
      ELSE "PROVEN"

(* B9; partial is the client's own byte count, Unknown without the file.   *)
Unknown == -1

b9(log, bad, partial) ==
  LET nonce == LastOf(log, Owners(log, "B6")).nonce
  IN  IF bad THEN "AUDIT_UNREADABLE_OR_TRUNCATED"
      ELSE IF log = <<>> THEN "NO_RECORDS_FOR_RUN"
      ELSE IF Owners(log, "B6") = {} THEN "NO_MATCHING_CONNECTION"
      ELSE IF Kills(log) = {} THEN "NO_KILL_RECORD"
      ELSE IF Killed(log) = {} THEN "KILL_RECORD_LISTS_NO_CONNECTIONS"
      ELSE IF nonce = Missing THEN "NO_TEST_CORRELATION"
      ELSE IF ~Hit(log, "B6") THEN "TERMINATED_A_DIFFERENT_CONNECTION"
      ELSE IF Allows(log) # {} /\ LastOf(log, Allows(log)).nonce # nonce THEN "NONCE_MISMATCH"
      ELSE IF partial = 0 THEN "NO_LIVE_STREAM_BEFORE_KILL"
      ELSE "PROVEN"

(* verify_pp18.verify(): every record of the row carries the one nonce.    *)
pp18_status(log, bad) ==
  LET nonces == {log[i].nonce : i \in Owners(log, "PP18")}
  IN  IF bad THEN "AUDIT_UNREADABLE_OR_TRUNCATED"
      ELSE IF log = <<>> THEN "NO_RECORDS_FOR_RUN"
      ELSE IF nonces = {} THEN "NO_MATCHING_CONNECTION"
      ELSE IF Missing \in nonces \/ Cardinality(nonces) > 1 THEN "NO_TEST_CORRELATION"
      ELSE IF Kills(log) = {} THEN "NO_KILL_RECORD"
      ELSE IF Killed(log) = {} THEN "KILL_RECORD_LISTS_NO_CONNECTIONS"
      ELSE IF Hit(log, "PP18") THEN "PROVEN"
      ELSE "TERMINATED_A_DIFFERENT_CONNECTION"

-----------------------------------------------------------------------------
(* Artifacts: what the sandbox wrote, or nothing.                          *)
Absent == [present |-> FALSE, run_id |-> NoId, source |-> "sandbox",
           conflict |-> FALSE, rows |-> <<>>, partial |-> Unknown]

Artifact(rows, partial) ==
  [present |-> TRUE, run_id |-> NoId, source |-> "sandbox", conflict |-> FALSE,
   rows |-> rows, partial |-> partial]

\* The binding a file says it has; both fields are the file's own.
already_bound(doc) == doc.source = "control-plane" /\ doc.run_id = RunId

Bind(doc, conflict) ==
  [doc EXCEPT !.conflict = @ \/ conflict, !.run_id = RunId, !.source = "control-plane"]

\* stamp(): any run_id an artifact arrives with is a conflict.
stamp(doc) == IF doc.present THEN Bind(doc, doc.run_id # NoId) ELSE doc

WithB8B9(rows, s8, s9) ==
  [id \in REQUIRED_B |-> IF id = "B8" THEN s8 ELSE IF id = "B9" THEN s9 ELSE rows[id]]

\* Mutant: the control plane's own stamp is taken for the sandbox's.
rebindAll(doc, s8, s9) ==
  [Bind(doc, doc.run_id # NoId) EXCEPT !.rows = WithB8B9(doc.rows, s8, s9)]

(* verify_layerb_audit.main(): B8 and B9 are put in and the file is bound  *)
(* again, which must not take stamp()'s binding for the sandbox's own.     *)
rebind(doc, s8, s9) ==
  [Bind(doc, doc.run_id # NoId /\ ~already_bound(doc)) EXCEPT
     !.rows = WithB8B9(doc.rows, s8, s9)]

\* ipv6_acceptance.layer_b(): a missing file or row is never a pass.
LayerBPasses(lb) ==
  lb.present /\ \A id \in REQUIRED_B : id \in DOMAIN lb.rows /\ lb.rows[id] = "PROVEN"

V4Passes(v4) == v4.present /\ \A id \in DOMAIN v4.rows : v4.rows[id] = "PROVEN"

-----------------------------------------------------------------------------
(* audit_gate_evidence.main(): nothing of the verifiers' answers is used.  *)
E1(lb) == LayerBPasses(lb)

E2(lb) == lb.present /\ DOMAIN lb.rows = REQUIRED_B

E3(log) ==
  /\ Allows(log) # {} /\ Owners(log, "B6") # {}
  /\ LastOf(log, Allows(log)).nonce # Missing
  /\ LastOf(log, Allows(log)).nonce = LastOf(log, Owners(log, "B6")).nonce

\* Both B4 denials, by name, under the nonce of B8.
B4Denials(log) ==
  LET mismatches == {"B4sni", "B4host"}
      denials == {i \in DOMAIN log : /\ log[i].decision = "BLOCKED_BY_POLICY"
                                     /\ log[i].conn \in mismatches}
  IN  /\ mismatches \subseteq {log[i].conn : i \in denials}
      /\ Allows(log) # {}
      /\ \A i \in denials : log[i].nonce = LastOf(log, Allows(log)).nonce

E4(log) ==
  /\ Hit(log, "B6")
  /\ Allows(log) # {} /\ LastOf(log, Allows(log)).v6
  /\ B4Denials(log)

E6(log, v4) == V4Passes(v4) /\ Hit(log, "PP18")

E7(log, bad) ==
  ~bad /\ log # <<>> /\ \A i \in DOMAIN log : log[i].decision # "STARTUP_DEGRADED"

\* Mutant: a matching run_id is a binding, whoever wrote it first.
BoundByAnyone(doc) == doc.present /\ already_bound(doc)

Bound(doc) == doc.present /\ already_bound(doc) /\ ~doc.conflict

\* The acceptance file and the B7 evidence are written and bound by the host.
E8(lb, v4, b7) == Bound(lb) /\ Bound(v4) /\ b7 # "failed"

\* verify_b7_evidence.derive(): host evidence plus the liveness of B3.
E9(lb, b7) ==
  b7 = "ready" /\ lb.present /\ "B3" \in DOMAIN lb.rows /\ lb.rows["B3"] = "PROVEN"

Certified(log, bad, lb, v4, b7) ==
  /\ E1(lb) /\ E2(lb) /\ E3(log) /\ E4(log) /\ E6(log, v4) /\ E7(log, bad)
  /\ E8(lb, v4, b7) /\ E9(lb, b7)
=============================================================================
