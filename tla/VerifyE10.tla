------------------------------ MODULE VerifyE10 ------------------------------
(***************************************************************************)
(* _validate_history() of pep/verify_e10.py: the scan of an audit log's    *)
(* records that decides whether a closed run is LOCAL_HISTORY_VALID.  The  *)
(* loop variables are the variables here, one record is one step.  Each    *)
(* branch of the loop is the ordered list of its checks, with the status   *)
(* it returns when a check fails, and the update it makes when none does.  *)
(*                                                                         *)
(* Records are abstracted field by field to what the checks compare:       *)
(*   binding   policy_generation, budget_binding                           *)
(*   pin       pin_ip, pin_port (pin_family)                               *)
(*   facts     program, method, host, request digest, credential use, url  *)
(*             and SNI: what an ALLOW must repeat of its AUTH              *)
(*   response  status, response_hash, streamed bytes                       *)
(* and permit_seq = 0 is the absent optional field.  _schema_error(), the  *)
(* run-id filter and _looks_secret() only look at one record's own fields  *)
(* and are left out: every record here is well formed.                     *)
(***************************************************************************)
EXTENDS Lifecycle

VARIABLES
  vstatus,    \* NoFault while scanning, else the status of the first failed check
  vrun,       \* run_state
  vstartup,   \* startup_seen
  vactive,    \* active_seen
  vatt,       \* attempts
  vseqs,      \* keys of sequences
  vreq,       \* cancel_request
  vcancel,    \* cancel
  vkill       \* kill

verifyVars == <<vstatus, vrun, vstartup, vactive, vatt, vseqs, vreq, vcancel,
                vkill>>

\* attempts.get(aid) is None; sequence fields are 0 when absent.
NoAttempt == [state |-> "NONE", late_auth |-> FALSE, conn_id |-> "none",
              epoch |-> 0, auth_seq |-> 0, permit_seq |-> 0, release_seq |-> 0,
              binding |-> "none", pin |-> "none", facts |-> "none",
              response |-> "none", allow |-> FALSE, terminated |-> FALSE]

\* No status to return (None): the scan goes on.
NoFault == "NO_FAULT"

NoRequest == [lifecycle_seq |-> 0, cancellation_epoch |-> 0]
NoCancel == [cancelled_epoch |-> 0, new_epoch |-> 0, lifecycle_seq |-> 0,
             inflight_at_linearization |-> 0]
NoKill == [lifecycle_seq |-> 0]

VerifyInit ==
  /\ vstatus = NoFault
  /\ vrun = "RUNNING"
  /\ vstartup = FALSE
  /\ vactive = FALSE
  /\ vatt = [a \in Attempts |-> NoAttempt]
  /\ vseqs = {}
  /\ vreq = NoRequest
  /\ vcancel = NoCancel
  /\ vkill = NoKill

-----------------------------------------------------------------------------
\* The status of the first check that fails, NoFault when none does.
FirstFault(checks) ==
  LET Fails(i) == checks[i][1]
  IN  IF \E i \in DOMAIN checks : Fails(i)
      THEN checks[CHOOSE i \in DOMAIN checks :
                    Fails(i) /\ \A j \in 1..(i - 1) : ~Fails(j)][2]
      ELSE NoFault

\* `cancel is not None`, `kill is not None`.
Linearized == vcancel.lifecycle_seq # 0
Killed == vkill.lifecycle_seq # 0

\* Outside the active run and the cancellation drain.
NotDraining ==
  \/ vrun \notin {"RUNNING", "CANCEL_REQUESTED", "CANCEL_LINEARIZED"}
  \/ Killed

\* Mutant: records after RUN_CLOSED are not told apart.
HeadChecksWithoutClosure(r) ==
  << <</\ vrun \in {"ACKNOWLEDGED", "DRAIN_TIMEOUT", "STARTUP_FAILED"}
       /\ ~(vrun = "ACKNOWLEDGED" /\ r.decision = RUN_CLOSED),
       "ILLEGAL_RUN_TRANSITION">> >>

\* The guards at the head of the loop, before the branch on the decision.
HeadChecks(r) ==
  << <<vrun = "CLOSED", "RECORD_AFTER_RUN_CLOSURE">>,
     <</\ vrun \in {"ACKNOWLEDGED", "DRAIN_TIMEOUT", "STARTUP_FAILED"}
       /\ ~(vrun = "ACKNOWLEDGED" /\ r.decision = RUN_CLOSED),
       "ILLEGAL_RUN_TRANSITION">> >>

incomplete_attempts ==
  {a \in Attempts : vatt[a].state \in {"AUTHORIZED", "PERMITTED", "ATTEMPTED"}}

missing_releases ==
  {a \in Attempts : vatt[a].permit_seq # 0 /\ vatt[a].release_seq = 0}

missing_allows ==
  {a \in Attempts : vatt[a].state = COMPLETED /\ ~vatt[a].allow}

\* Keep scanning with the update, or stop at the first failed check.
Judge(r, checks, update) ==
  LET fault == FirstFault(HeadChecks(r) \o checks)
  IN  /\ vstatus = NoFault
      /\ vstatus' = fault
      /\ IF fault = NoFault
         THEN update
         ELSE UNCHANGED <<vrun, vstartup, vactive, vatt, vseqs, vreq, vcancel,
                          vkill>>

\* Update attempt a's entry and own the sequence numbers in seqs.
UpdateAttempt(a, entry, seqs) ==
  /\ vatt' = [vatt EXCEPT ![a] = entry]
  /\ vseqs' = vseqs \cup seqs
  /\ vactive' = TRUE
  /\ UNCHANGED <<vrun, vstartup, vreq, vcancel, vkill>>

-----------------------------------------------------------------------------
(* Startup context.                                                        *)
OutsideStartup == vstartup \/ vactive \/ vrun # "RUNNING"

StartupChecks == << <<OutsideStartup, "ILLEGAL_RUN_TRANSITION">> >>

TakeStartupDegraded(r) ==
  /\ r.decision = STARTUP_DEGRADED
  /\ Judge(r, StartupChecks,
           UNCHANGED <<vrun, vstartup, vactive, vatt, vseqs, vreq, vcancel,
                       vkill>>)

TakeStartupFailed(r) ==
  /\ r.decision = STARTUP_FAILED
  /\ Judge(r, StartupChecks,
           /\ vrun' = "STARTUP_FAILED"
           /\ UNCHANGED <<vstartup, vactive, vatt, vseqs, vreq, vcancel,
                          vkill>>)

StartChecks(r) ==
  << <<OutsideStartup, "ILLEGAL_RUN_TRANSITION">>,
     <<r.max_connections = 0, "CONTEXT_BINDING_MISMATCH">> >>

TakeStartup(r) ==
  /\ r.decision = STARTUP
  /\ Judge(r, StartChecks(r),
           /\ vstartup' = TRUE
           /\ UNCHANGED <<vrun, vactive, vatt, vseqs, vreq, vcancel, vkill>>)

-----------------------------------------------------------------------------
(* The attempt state machine.                                              *)
NotBeforeCancel(r) ==
  \/ r.lifecycle_seq >= vcancel.lifecycle_seq
  \/ r.epoch # vcancel.cancelled_epoch

\* attempts.get(aid): the entry of the attempt a record is about.
Of(r) == vatt[r.attempt_id]

AuthChecks(r) ==
  << <<NotDraining, "ILLEGAL_RUN_TRANSITION">>,
     <<Of(r).state # "NONE", "ILLEGAL_ATTEMPT_TRANSITION">>,
     <<r.lifecycle_seq \in vseqs, "REPLAYED_LIFECYCLE_SEQUENCE">>,
     <<vrun # "RUNNING" /\ Linearized /\ NotBeforeCancel(r),
       "AUTH_SEQUENCE_NOT_BEFORE_CANCELLATION">> >>

TakeAuth(r) ==
  /\ r.decision = AUTH
  /\ Judge(r, AuthChecks(r),
       UpdateAttempt(r.attempt_id,
         [NoAttempt EXCEPT !.state = "AUTHORIZED", !.late_auth = vrun # "RUNNING",
            !.conn_id = r.conn_id, !.epoch = r.epoch,
            !.auth_seq = r.lifecycle_seq, !.binding = r.binding,
            !.pin = r.pin, !.facts = r.facts],
         {r.lifecycle_seq}))

PermitChecks(r) ==
  << <<NotDraining, "ILLEGAL_RUN_TRANSITION">>,
     <<Of(r).state = "NONE", "PERMIT_WITHOUT_INTENT">>,
     <<Of(r).state # "AUTHORIZED" \/ Of(r).late_auth,
       "ILLEGAL_ATTEMPT_TRANSITION">>,
     <<\/ r.conn_id # Of(r).conn_id
       \/ r.epoch # Of(r).epoch
       \/ r.binding # Of(r).binding, "BINDING_MISMATCH">>,
     <<Of(r).auth_seq >= r.lifecycle_seq, "LIFECYCLE_SEQUENCE_ORDER">>,
     <<r.lifecycle_seq \in vseqs, "REPLAYED_LIFECYCLE_SEQUENCE">>,
     <<Linearized /\ NotBeforeCancel(r),
       "PERMIT_SEQUENCE_NOT_BEFORE_CANCELLATION">> >>

TakePermit(r) ==
  /\ r.decision = PERMIT
  /\ Judge(r, PermitChecks(r),
       UpdateAttempt(r.attempt_id,
         [Of(r) EXCEPT !.state = "PERMITTED", !.permit_seq = r.lifecycle_seq],
         {r.lifecycle_seq}))

AttemptedChecks(r) ==
  << <<vrun # "RUNNING", "POST_CANCELLATION_EFFECT">>,
     <<Of(r).state # "PERMITTED", "ILLEGAL_ATTEMPT_TRANSITION">>,
     <<\/ r.permit_seq # Of(r).permit_seq
       \/ r.conn_id # Of(r).conn_id
       \/ r.epoch # Of(r).epoch
       \/ r.pin # Of(r).pin, "BINDING_MISMATCH">> >>

TakeAttempted(r) ==
  /\ r.decision = ATTEMPTED
  /\ Judge(r, AttemptedChecks(r),
       UpdateAttempt(r.attempt_id, [Of(r) EXCEPT !.state = "ATTEMPTED"], {}))

\* Mutant: any outcome may follow a bare authorisation.
AnyTerminal(prior, decision) == prior \in {"AUTHORIZED", "PERMITTED", "ATTEMPTED"}

\* Which outcome may follow which attempt state.
LegalTerminal(prior, decision) ==
  \/ prior \in {"AUTHORIZED", "PERMITTED"} /\ decision \in {FAILED, CANCELLED}
  \/ prior = "ATTEMPTED"

\* permit_seq = 0 on both sides is "no permit, none invented".
TerminalChecks(r) ==
  << <<NotDraining, "ILLEGAL_RUN_TRANSITION">>,
     <<Of(r).state = "NONE", "EFFECT_WITHOUT_INTENT">>,
     <<~LegalTerminal(Of(r).state, r.decision), "ILLEGAL_ATTEMPT_TRANSITION">>,
     <<\/ r.conn_id # Of(r).conn_id
       \/ r.epoch # Of(r).epoch
       \/ r.permit_seq # Of(r).permit_seq, "BINDING_MISMATCH">> >>

TakeTerminal(r) ==
  /\ r.decision \in TERMINAL
  /\ Judge(r, TerminalChecks(r),
       UpdateAttempt(r.attempt_id,
         [Of(r) EXCEPT !.state = r.decision, !.response = r.response], {}))

\* COMPLETED is only reached from ATTEMPTED, so `attempted is not None` holds.
AllowChecks(r) ==
  << <<NotDraining, "ILLEGAL_RUN_TRANSITION">>,
     <<Of(r).state # COMPLETED, "ALLOW_WITHOUT_COMPLETION">>,
     <<Of(r).allow, "DUPLICATE_ALLOW">>,
     <<\/ r.conn_id # Of(r).conn_id
       \/ r.pin # Of(r).pin
       \/ r.facts # Of(r).facts
       \/ r.response # Of(r).response, "BINDING_MISMATCH">> >>

TakeAllow(r) ==
  /\ r.decision = ALLOW
  /\ Judge(r, AllowChecks(r),
       UpdateAttempt(r.attempt_id, [Of(r) EXCEPT !.allow = TRUE], {}))

ReleaseChecks(r) ==
  << <<NotDraining, "ILLEGAL_RUN_TRANSITION">>,
     <<Of(r).permit_seq = 0, "RELEASE_WITHOUT_PERMIT">>,
     <<Of(r).state \notin TERMINAL, "RELEASE_BEFORE_TERMINAL">>,
     <<Of(r).state = COMPLETED /\ ~Of(r).allow, "RELEASE_BEFORE_ALLOW">>,
     <<Of(r).release_seq # 0, "DUPLICATE_PERMIT_RELEASE">>,
     <<\/ r.conn_id # Of(r).conn_id
       \/ r.epoch # Of(r).epoch
       \/ r.permit_seq # Of(r).permit_seq, "RELEASE_BINDING_MISMATCH">>,
     <<Of(r).permit_seq >= r.lifecycle_seq, "RELEASE_SEQUENCE_ORDER">>,
     <<r.lifecycle_seq \in vseqs, "REPLAYED_LIFECYCLE_SEQUENCE">> >>

TakeRelease(r) ==
  /\ r.decision = PERMIT_RELEASED
  /\ Judge(r, ReleaseChecks(r),
       UpdateAttempt(r.attempt_id, [Of(r) EXCEPT !.release_seq = r.lifecycle_seq],
                     {r.lifecycle_seq}))

\* UNKNOWN is only reached from ATTEMPTED; `response` is bytes_streamed here.
TerminatedChecks(r) ==
  << <<NotDraining, "ILLEGAL_RUN_TRANSITION">>,
     <<Of(r).state # UNKNOWN, "ORPHAN_CONNECTION_TERMINATED">>,
     <<Of(r).terminated, "DUPLICATE_CONNECTION_TERMINATED">>,
     <<\/ r.conn_id # Of(r).conn_id
       \/ r.facts # Of(r).facts
       \/ r.pin # Of(r).pin
       \/ r.response # Of(r).response,
       "CONNECTION_TERMINATED_BINDING_MISMATCH">> >>

TakeConnectionTerminated(r) ==
  /\ r.decision = CONN_TERMINATED
  /\ Judge(r, TerminatedChecks(r),
       UpdateAttempt(r.attempt_id, [Of(r) EXCEPT !.terminated = TRUE], {}))

BlockedChecks == << <<NotDraining, "ILLEGAL_RUN_TRANSITION">> >>

TakeBlocked(r) ==
  /\ r.decision = BLOCKED
  /\ Judge(r, BlockedChecks,
           /\ vactive' = TRUE
           /\ UNCHANGED <<vrun, vstartup, vatt, vseqs, vreq, vcancel, vkill>>)

-----------------------------------------------------------------------------
(* The run state machine.                                                  *)
CancelRequestedChecks == << <<vrun # "RUNNING", "ILLEGAL_RUN_TRANSITION">> >>

TakeCancelRequested(r) ==
  /\ r.decision = CANCEL_REQUESTED
  /\ Judge(r, CancelRequestedChecks,
           /\ vreq' = [lifecycle_seq |-> r.lifecycle_seq,
                       cancellation_epoch |-> r.cancellation_epoch]
           /\ vrun' = "CANCEL_REQUESTED"
           /\ vactive' = TRUE
           /\ UNCHANGED <<vstartup, vatt, vseqs, vcancel, vkill>>)

Authorized == {a \in Attempts : vatt[a].state # "NONE"}

\* The loop reports the first attempt that fails; here the first check.
LinearizedChecks(r) ==
  << <<vrun # "CANCEL_REQUESTED", "ILLEGAL_RUN_TRANSITION">>,
     <<r.new_epoch # r.cancelled_epoch + 1, "ILLEGAL_RUN_TRANSITION">>,
     <<\/ vreq.lifecycle_seq # r.lifecycle_seq
       \/ vreq.cancellation_epoch # r.new_epoch,
       "CANCELLATION_REQUEST_BINDING_MISMATCH">>,
     <<r.lifecycle_seq \in vseqs, "REPLAYED_LIFECYCLE_SEQUENCE">>,
     <<\E a \in Authorized : vatt[a].epoch # r.cancelled_epoch,
       "BINDING_MISMATCH">>,
     <<\E a \in Authorized : vatt[a].auth_seq >= r.lifecycle_seq,
       "AUTH_SEQUENCE_NOT_BEFORE_CANCELLATION">>,
     <<\E a \in Authorized : vatt[a].permit_seq >= r.lifecycle_seq,
       "PERMIT_SEQUENCE_NOT_BEFORE_CANCELLATION">> >>

TakeCancelLinearized(r) ==
  /\ r.decision = CANCEL_LINEARIZED
  /\ Judge(r, LinearizedChecks(r),
       /\ vcancel' = [cancelled_epoch |-> r.cancelled_epoch,
                      new_epoch |-> r.new_epoch,
                      lifecycle_seq |-> r.lifecycle_seq,
                      inflight_at_linearization |-> r.inflight_at_linearization]
       /\ vrun' = "CANCEL_LINEARIZED"
       /\ vseqs' = vseqs \cup {r.lifecycle_seq}
       /\ vactive' = TRUE
       /\ UNCHANGED <<vstartup, vatt, vreq, vkill>>)

\* Mutant: a release before C is not taken into account.
inflight_ignoring_release ==
  {a \in Attempts : /\ vatt[a].permit_seq # 0
                    /\ vatt[a].permit_seq < vcancel.lifecycle_seq}

\* The permits the sequence equation P < C < R places in flight at C.
logical_inflight ==
  {a \in Attempts : /\ vatt[a].permit_seq # 0
                    /\ vatt[a].permit_seq < vcancel.lifecycle_seq
                    /\ vcancel.lifecycle_seq < vatt[a].release_seq}

\* The facts that KILL_SWITCH and the disposition after it both carry.
Common(r) == [lifecycle_seq |-> r.lifecycle_seq,
              cancellation_epoch |-> r.cancellation_epoch,
              local_drain_complete |-> r.local_drain_complete,
              inflight_remaining |-> r.inflight_remaining,
              effect_permits_remaining |-> r.effect_permits_remaining,
              audit_producers_remaining |-> r.audit_producers_remaining,
              listener_state |-> r.listener_state]

count_error(r) ==
  r.inflight_remaining # r.effect_permits_remaining + r.audit_producers_remaining

KillSwitchChecks(r) ==
  << <<vrun # "CANCEL_LINEARIZED" \/ Killed, "KILL_SWITCH_CARDINALITY_ORDER">>,
     <<incomplete_attempts # {}, "INCOMPLETE_ATTEMPT">>,
     <<missing_allows # {}, "MISSING_REQUIRED_ALLOW">>,
     <<missing_releases # {}, "MISSING_PERMIT_RELEASE">>,
     <<count_error(r), "QUIESCENCE_COUNT_MISMATCH">>,
     <<Cardinality(logical_inflight) # vcancel.inflight_at_linearization,
       "INFLIGHT_LINEARIZATION_MISMATCH">>,
     <<\/ r.lifecycle_seq # vcancel.lifecycle_seq
       \/ r.cancellation_epoch # vcancel.new_epoch
       \/ r.effect_permits_remaining # 0
       \/ ~(r.terminated_conn_ids \subseteq r.registered_at_kill),
       "KILL_SWITCH_BINDING_MISMATCH">>,
     <<r.local_drain_complete #
         (r.inflight_remaining = 0 /\ r.listener_state = "STOPPED"),
       "KILL_SWITCH_BINDING_MISMATCH">> >>

TakeKillSwitch(r) ==
  /\ r.decision = KILL_SWITCH
  /\ Judge(r, KillSwitchChecks(r),
       /\ vkill' = Common(r)
       /\ vactive' = TRUE
       /\ UNCHANGED <<vrun, vstartup, vatt, vseqs, vreq, vcancel>>)

DispositionChecks(r, invalid) ==
  << <<vrun # "CANCEL_LINEARIZED" \/ ~Killed, "ILLEGAL_RUN_TRANSITION">>,
     <<count_error(r), "QUIESCENCE_COUNT_MISMATCH">>,
     <<Common(r) # vkill \/ invalid, "FALSE_CANCELLATION_DISPOSITION">> >>

Disposition(r, invalid, run) ==
  Judge(r, DispositionChecks(r, invalid),
    /\ vrun' = run
    /\ vactive' = TRUE
    /\ UNCHANGED <<vstartup, vatt, vseqs, vreq, vcancel, vkill>>)

TakeAck(r) ==
  /\ r.decision = CANCEL_ACK
  /\ Disposition(r, \/ ~r.local_drain_complete
                    \/ r.inflight_remaining # 0
                    \/ r.effect_permits_remaining # 0
                    \/ r.audit_producers_remaining # 0
                    \/ r.listener_state # "STOPPED", "ACKNOWLEDGED")

TakeDrainTimeout(r) ==
  /\ r.decision = CANCEL_DRAIN_TIMEOUT
  /\ Disposition(r, \/ r.local_drain_complete
                    \/ r.closure_blockers = {}
                    \/ /\ r.inflight_remaining = 0
                       /\ r.listener_state = "STOPPED", "DRAIN_TIMEOUT")

RunClosedChecks(r) ==
  << <<vrun # "ACKNOWLEDGED", "ILLEGAL_RUN_TRANSITION">>,
     <<\/ r.closure_sequence # vcancel.lifecycle_seq
       \/ r.inflight_remaining # 0
       \/ r.effect_permits_remaining # 0
       \/ r.audit_producers_remaining # 0
       \/ r.listener_state # "STOPPED", "INVALID_RUN_CLOSURE">> >>

TakeRunClosed(r) ==
  /\ r.decision = RUN_CLOSED
  /\ Judge(r, RunClosedChecks(r),
       /\ vrun' = "CLOSED"
       /\ vactive' = TRUE
       /\ UNCHANGED <<vstartup, vatt, vseqs, vreq, vcancel, vkill>>)

-----------------------------------------------------------------------------
\* One iteration of the loop.
Take(r) ==
  \/ TakeStartupDegraded(r)
  \/ TakeStartupFailed(r)
  \/ TakeStartup(r)
  \/ TakeAuth(r)
  \/ TakePermit(r)
  \/ TakeAttempted(r)
  \/ TakeTerminal(r)
  \/ TakeAllow(r)
  \/ TakeRelease(r)
  \/ TakeConnectionTerminated(r)
  \/ TakeBlocked(r)
  \/ TakeCancelRequested(r)
  \/ TakeCancelLinearized(r)
  \/ TakeKillSwitch(r)
  \/ TakeAck(r)
  \/ TakeDrainTimeout(r)
  \/ TakeRunClosed(r)

\* What is checked when the records end here.
FinalChecks ==
  << <<vstatus # NoFault, vstatus>>,
     <<Authorized = {}, "NO_LIFECYCLE_RECORDS">>,
     <<incomplete_attempts # {}, "INCOMPLETE_ATTEMPT">>,
     <<missing_allows # {}, "MISSING_REQUIRED_ALLOW">>,
     <<missing_releases # {}, "MISSING_PERMIT_RELEASE">>,
     <<Linearized /\ ~Killed, "MISSING_KILL_SWITCH">>,
     <<vrun = "RUNNING", "RUN_NOT_CLOSED">>,
     <<vrun = "CANCEL_REQUESTED", "MISSING_CANCELLATION_LINEARIZATION">>,
     <<vrun = "CANCEL_LINEARIZED", "MISSING_CANCELLATION_DISPOSITION">>,
     <<vrun \in {"DRAIN_TIMEOUT", "ACKNOWLEDGED"}, "RUN_NOT_CLOSED">> >>

\* The status returned when the records end here.
FinalStatus ==
  LET fault == FirstFault(FinalChecks)
  IN  IF fault = NoFault THEN "LOCAL_HISTORY_VALID" ELSE fault

Valid == FinalStatus = "LOCAL_HISTORY_VALID"

-----------------------------------------------------------------------------
\* What one record of a history may be refused for.
Statuses ==
  {NoFault,
   "ALLOW_WITHOUT_COMPLETION", "AUTH_SEQUENCE_NOT_BEFORE_CANCELLATION",
   "BINDING_MISMATCH", "CANCELLATION_REQUEST_BINDING_MISMATCH",
   "CONNECTION_TERMINATED_BINDING_MISMATCH", "CONTEXT_BINDING_MISMATCH",
   "DUPLICATE_ALLOW", "DUPLICATE_CONNECTION_TERMINATED",
   "DUPLICATE_PERMIT_RELEASE", "EFFECT_WITHOUT_INTENT",
   "FALSE_CANCELLATION_DISPOSITION", "ILLEGAL_ATTEMPT_TRANSITION",
   "ILLEGAL_RUN_TRANSITION", "INCOMPLETE_ATTEMPT",
   "INFLIGHT_LINEARIZATION_MISMATCH", "INVALID_RUN_CLOSURE",
   "KILL_SWITCH_BINDING_MISMATCH", "KILL_SWITCH_CARDINALITY_ORDER",
   "LIFECYCLE_SEQUENCE_ORDER", "MISSING_PERMIT_RELEASE",
   "MISSING_REQUIRED_ALLOW", "ORPHAN_CONNECTION_TERMINATED",
   "PERMIT_SEQUENCE_NOT_BEFORE_CANCELLATION", "PERMIT_WITHOUT_INTENT",
   "POST_CANCELLATION_EFFECT", "QUIESCENCE_COUNT_MISMATCH",
   "RECORD_AFTER_RUN_CLOSURE", "RELEASE_BEFORE_ALLOW",
   "RELEASE_BEFORE_TERMINAL", "RELEASE_BINDING_MISMATCH",
   "RELEASE_SEQUENCE_ORDER", "RELEASE_WITHOUT_PERMIT",
   "REPLAYED_LIFECYCLE_SEQUENCE"}

(* Shape of the scan's state.                                              *)
VerifyTypeOK ==
  /\ vstatus \in Statuses
  /\ vrun \in {"RUNNING", "CANCEL_REQUESTED", "CANCEL_LINEARIZED",
               "ACKNOWLEDGED", "DRAIN_TIMEOUT", "STARTUP_FAILED", "CLOSED"}
  /\ vstartup \in BOOLEAN /\ vactive \in BOOLEAN
  /\ \A a \in Attempts :
       /\ vatt[a].state \in
            TERMINAL \cup {"NONE", "AUTHORIZED", "PERMITTED", "ATTEMPTED"}
       /\ {vatt[a].auth_seq, vatt[a].permit_seq, vatt[a].release_seq}
            \subseteq vseqs \cup {0}
  /\ vseqs \subseteq Nat

\* The A, P, R and C of the history read as the state of a permit lock.
Lock == INSTANCE RunContext WITH
  epoch <- vcancel.new_epoch,
  cancelled <- Linearized,
  sequence <- Cardinality(vseqs),
  authorizations <- [a \in Attempts |-> [epoch |-> vatt[a].epoch,
                                         seq |-> vatt[a].auth_seq]],
  permitted <- {a \in Attempts : vatt[a].permit_seq # 0},
  permitSeq <- [a \in Attempts |-> vatt[a].permit_seq],
  inflight <- missing_releases,
  releaseSeq <- [a \in Attempts |-> vatt[a].release_seq],
  cancellation <- vcancel

(* A history that is LOCAL_HISTORY_VALID carries the numbers of a possible *)
(* run of the permit lock: unique A, P, R and C, A < P < R, A and P below  *)
(* C, the frozen count equal to the permits with P < C < R, and all        *)
(* permits released, whichever side of the cancellation each record was    *)
(* written on.                                                             *)
ValidHistoryIsALockHistory ==
  Valid => /\ Lock!UniqueSequences
           /\ Lock!SequenceEquations
           /\ Lock!CountAtLinearization
           /\ Lock!Drained

(* In a LOCAL_HISTORY_VALID history every attempt is settled; one that may *)
(* have reached its target (COMPLETED, UNKNOWN) holds a permit numbered    *)
(* below C and a release, and ALLOW stands for exactly the completed ones. *)
ValidAttemptsAreSettled ==
  Valid => \A a \in Authorized :
             /\ vatt[a].state \in TERMINAL
             /\ vatt[a].state \in {COMPLETED, UNKNOWN} =>
                  /\ 0 < vatt[a].permit_seq
                  /\ vatt[a].permit_seq < vcancel.lifecycle_seq
                  /\ 0 < vatt[a].release_seq
             /\ vatt[a].allow <=> vatt[a].state = COMPLETED

(* A history that is valid where it ends has no valid extension, and a     *)
(* drain timeout or a failed startup can never be repaired into a closure  *)
(* by what is appended later.                                              *)
VerdictIsFinal ==
  [][/\ Valid => vstatus' = "RECORD_AFTER_RUN_CLOSURE"
     /\ vrun \in {"DRAIN_TIMEOUT", "STARTUP_FAILED"} => vstatus' # NoFault]_verifyVars
=============================================================================
