---------------------------- MODULE MCVerifyE10 ----------------------------
(***************************************************************************)
(* The verifier against arbitrary histories: after the startup record any  *)
(* record may come at any position, with any sequence numbers, bound to    *)
(* what precedes it or with one of the fields in wrong wrong.              *)
(***************************************************************************)
EXTENDS VerifyE10, TLC

CONSTANTS
  a1, a2,
  MaxSeq,       \* bounds the sequence numbers of a history
  MaxInflight   \* bounds the count a linearization reports

VARIABLE
  wrong         \* the fields a record of this history may have wrong

TwoAttempts == {a1, a2}
AttemptSymmetry == Permutations(TwoAttempts)
AllFields == {"conn_id", "epoch", "binding", "pin", "facts", "response",
              "permit_seq", "counts"}

(* A history has one attempt and wrong fields, or two attempts, one more   *)
(* sequence number and none.                                               *)
StreamInit == VerifyInit /\ wrong \in {{}, AllFields}
InUse == {a \in Attempts : wrong = {} \/ Authorized \subseteq {a}}
Seqs == 1..(IF wrong = {} THEN MaxSeq ELSE MaxSeq - 1)

Bound == [conn_id |-> "c", epoch |-> 0, binding |-> "b", pin |-> "p",
          facts |-> "f", response |-> "r"]
OneWrong(fields) ==
  {Bound} \cup {[Bound EXCEPT ![f] = IF f = "epoch" THEN 1 ELSE "wrong"] :
                  f \in fields \cap wrong}

\* permit_seq: the attempt's permit number, or any when that may be wrong.
PermitSeqs(a) ==
  {vatt[a].permit_seq} \cup IF "permit_seq" \in wrong THEN {0} \cup Seqs ELSE {}

AttemptRecords(decision, fields, seqs) ==
  UNION {{[decision |-> decision, attempt_id |-> a, lifecycle_seq |-> s,
           permit_seq |-> p] @@ b :
            s \in seqs, p \in PermitSeqs(a), b \in OneWrong(fields)} :
           a \in InUse}

\* The cancellation's own number, or the next one.
NearC == {vcancel.lifecycle_seq, vcancel.lifecycle_seq + 1}

\* Drain facts: effect permits, producers, their sum, listener, drain flag.
Counts ==
  IF "counts" \in wrong
  THEN {<<p, q, n, l, d>> : p \in 0..1, q \in 0..1, n \in 0..2,
                            l \in {"STOPPED", "NOT_STOPPED"}, d \in BOOLEAN}
  ELSE {<<0, 0, 0, "STOPPED", TRUE>>, <<0, 1, 1, "STOPPED", FALSE>>}

DrainRecords(decision) ==
  {[decision |-> decision, lifecycle_seq |-> s, closure_sequence |-> s,
    cancellation_epoch |-> vcancel.new_epoch,
    effect_permits_remaining |-> k[1], audit_producers_remaining |-> k[2],
    inflight_remaining |-> k[3], listener_state |-> k[4],
    local_drain_complete |-> k[5],
    terminated_conn_ids |-> t, registered_at_kill |-> {"c"},
    closure_blockers |-> b] :
     s \in NearC, k \in Counts,
     t \in {{"c"}} \cup IF decision = KILL_SWITCH THEN {{"x"}} ELSE {},
     b \in {{"AUDIT_PRODUCERS_REMAIN"}} \cup
            IF decision = CANCEL_DRAIN_TIMEOUT THEN {{}} ELSE {}}

StartupRecords ==
  {[decision |-> d, max_connections |-> n] :
     d \in {STARTUP_DEGRADED, STARTUP_FAILED, STARTUP}, n \in 0..1}

StreamNext ==
  \/ \E r \in StartupRecords : Take(r)
  \/ /\ vstartup
     /\ \/ Take([decision |-> BLOCKED])
        \/ \E r \in AttemptRecords(AUTH, {"epoch"}, Seqs) : Take(r)
        \/ \E r \in AttemptRecords(PERMIT, {"conn_id", "epoch", "binding"}, Seqs) :
             Take(r)
        \/ \E r \in AttemptRecords(ATTEMPTED, {"conn_id", "epoch", "pin"}, {0}) :
             Take(r)
        \/ \E d \in TERMINAL :
             \E r \in AttemptRecords(d, {"conn_id", "epoch"}, {0}) : Take(r)
        \/ \E r \in AttemptRecords(ALLOW, {"conn_id", "pin", "facts", "response"}, {0}) :
             Take(r)
        \/ \E r \in AttemptRecords(PERMIT_RELEASED, {"conn_id", "epoch"}, Seqs) :
             Take(r)
        \/ \E r \in AttemptRecords(CONN_TERMINATED,
                                   {"conn_id", "pin", "facts", "response"}, {0}) :
             Take(r)
        \/ \E s \in Seqs :
             Take([decision |-> CANCEL_REQUESTED, lifecycle_seq |-> s,
                   cancellation_epoch |-> 1])
        \/ \E s \in {vreq.lifecycle_seq, vreq.lifecycle_seq + 1},
              e \in {<<0, 1>>, <<1, 1>>, <<1, 2>>}, n \in 0..MaxInflight :
             Take([decision |-> CANCEL_LINEARIZED, lifecycle_seq |-> s,
                   cancelled_epoch |-> e[1], new_epoch |-> e[2],
                   inflight_at_linearization |-> n])
        \/ \E d \in {KILL_SWITCH, CANCEL_ACK, CANCEL_DRAIN_TIMEOUT, RUN_CLOSED} :
             \E r \in DrainRecords(d) : Take(r)

StreamVars == <<verifyVars, wrong>>

StreamSpec == StreamInit /\ [][StreamNext /\ UNCHANGED wrong]_StreamVars
=============================================================================
