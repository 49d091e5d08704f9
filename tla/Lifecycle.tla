------------------------------ MODULE Lifecycle ------------------------------
(* The vocabulary shared by the writer (pep/lifecycle.py, pep/gateway.py)  *)
(* and the verifier (pep/verify_e10.py): attempt ids and the decisions a   *)
(* record of the audit log can carry.                                      *)
EXTENDS Naturals, FiniteSets, Sequences

CONSTANT Attempts       \* attempt ids (new_attempt_id: never reused)

AUTH == "AUTH_COMMITTED"
PERMIT == "PERMIT_GRANTED"
PERMIT_RELEASED == "PERMIT_RELEASED"
ATTEMPTED == "EFFECT_ATTEMPTED"
COMPLETED == "EFFECT_COMPLETED"
FAILED == "EFFECT_FAILED"
UNKNOWN == "EFFECT_OUTCOME_UNKNOWN"
CANCELLED == "EFFECT_CANCELLED"
ALLOW == "ALLOW"
BLOCKED == "BLOCKED_BY_POLICY"
CONN_TERMINATED == "CONNECTION_TERMINATED"
STARTUP == "STARTUP"
STARTUP_DEGRADED == "STARTUP_DEGRADED"
STARTUP_FAILED == "STARTUP_FAILED"
CANCEL_REQUESTED == "CANCELLATION_REQUESTED"
CANCEL_LINEARIZED == "CANCELLATION_LINEARIZED"
KILL_SWITCH == "KILL_SWITCH"
CANCEL_ACK == "CANCELLATION_ACK"
CANCEL_DRAIN_TIMEOUT == "CANCELLATION_DRAIN_TIMEOUT"
RUN_CLOSED == "RUN_CLOSED"

\* The absorbing outcomes of an attempt.
TERMINAL == {COMPLETED, FAILED, UNKNOWN, CANCELLED}
=============================================================================
