----------------------------- MODULE RunContext -----------------------------
(***************************************************************************)
(* The permit / cancellation authority of pep/lifecycle.py: one condition  *)
(* lock (RunContext._cv) under which authorisations, effect permits, their *)
(* releases and the one cancellation are given a global sequence number.   *)
(* Every operation below is one critical section of that lock, hence one   *)
(* atomic step.  A refused call changes nothing; the caller's reaction to  *)
(* a refusal is modelled where the caller is (module Gateway).             *)
(*                                                                         *)
(* EffectPermit objects are represented by their lifecycle_seq             *)
(* (permitSeq) and by the ReleaseTransition their release produces         *)
(* (releaseSeq); 0 stands for "none yet", as sequences start at 1.         *)
(***************************************************************************)
EXTENDS Lifecycle

VARIABLES
  epoch,          \* RunContext._epoch
  cancelled,      \* RunContext._cancelled
  sequence,       \* RunContext._sequence
  authorizations, \* RunContext._authorizations: attempt -> (epoch, AUTH seq)
  permitted,      \* RunContext._permitted_attempts
  permitSeq,      \* EffectPermit.lifecycle_seq of the attempt's permit
  inflight,       \* keys of RunContext._inflight
  releaseSeq,     \* ReleaseTransition.lifecycle_seq of the attempt
  cancellation    \* RunContext._cancellation

runVars == <<epoch, cancelled, sequence, authorizations, permitted,
             permitSeq, inflight, releaseSeq, cancellation>>

\* The epoch before and the epoch after the one cancellation.
Epochs == {0, 1}

\* CancellationTransition; lifecycle_seq = 0 while there is none.
NoCancellation == [cancelled_epoch |-> 0, new_epoch |-> 0,
                   lifecycle_seq |-> 0, inflight_at_linearization |-> 0]

NoAuthorization == [epoch |-> 0, seq |-> 0]

RunInit ==
  /\ epoch = 0
  /\ cancelled = FALSE
  /\ sequence = 0
  /\ authorizations = [a \in Attempts |-> NoAuthorization]
  /\ permitted = {}
  /\ permitSeq = [a \in Attempts |-> 0]
  /\ inflight = {}
  /\ releaseSeq = [a \in Attempts |-> 0]
  /\ cancellation = NoCancellation

-----------------------------------------------------------------------------
\* Mutant: authorize() checks the epoch only, not _cancelled.
MayAuthorizeAfterCancel(a, e) ==
  /\ e = epoch
  /\ authorizations[a].seq = 0

\* authorize(attempt_id, epoch); e is the epoch the caller read earlier.
MayAuthorize(a, e) ==
  /\ ~cancelled
  /\ e = epoch
  /\ authorizations[a].seq = 0

Authorize(a, e) ==
  /\ MayAuthorize(a, e)
  /\ sequence' = sequence + 1
  /\ authorizations' =
       [authorizations EXCEPT ![a] = [epoch |-> e, seq |-> sequence + 1]]
  /\ UNCHANGED <<epoch, cancelled, permitted, permitSeq, inflight,
                 releaseSeq, cancellation>>

\* Mutant: the permit is checked against its authorisation only.
MayIssuePermitStale(a, e, connTerminal) ==
  /\ ~connTerminal
  /\ authorizations[a].seq # 0
  /\ authorizations[a].epoch = e
  /\ a \notin permitted

(* issue_permit(attempt_id, epoch, conn): conn.is_terminal() is read under *)
(* the connection's own lock while _cv is held.                            *)
MayIssuePermit(a, e, connTerminal) ==
  /\ ~cancelled
  /\ e = epoch
  /\ ~connTerminal
  /\ authorizations[a].seq # 0
  /\ authorizations[a].epoch = e
  /\ a \notin permitted

IssuePermit(a, e, connTerminal) ==
  /\ MayIssuePermit(a, e, connTerminal)
  /\ sequence' = sequence + 1
  /\ permitSeq' = [permitSeq EXCEPT ![a] = sequence + 1]
  /\ permitted' = permitted \cup {a}
  /\ inflight' = inflight \cup {a}
  /\ UNCHANGED <<epoch, cancelled, authorizations, releaseSeq, cancellation>>

\* Mutant: the release takes the current number instead of the next.
ReleaseWithoutNumber(a) ==
  /\ a \in inflight
  /\ inflight' = inflight \ {a}
  /\ releaseSeq' = [releaseSeq EXCEPT ![a] = sequence]
  /\ UNCHANGED <<epoch, cancelled, sequence, authorizations, permitted,
                 permitSeq, cancellation>>

\* Mutant: a release after the cancellation is not recorded.
ReleaseOnlyWhileRunning(a) ==
  /\ a \in inflight
  /\ sequence' = sequence + 1
  /\ inflight' = inflight \ {a}
  /\ releaseSeq' = IF cancelled THEN releaseSeq
                   ELSE [releaseSeq EXCEPT ![a] = sequence + 1]
  /\ UNCHANGED <<epoch, cancelled, authorizations, permitted, permitSeq,
                 cancellation>>

(* _release(attempt_id), reached through EffectPermit.release() and        *)
(* EffectPermit.abandon_undurable(); popping an absent permit changes      *)
(* nothing and returns None.                                               *)
Release(a) ==
  /\ a \in inflight
  /\ sequence' = sequence + 1
  /\ inflight' = inflight \ {a}
  /\ releaseSeq' = [releaseSeq EXCEPT ![a] = sequence + 1]
  /\ UNCHANGED <<epoch, cancelled, authorizations, permitted, permitSeq,
                 cancellation>>

\* Mutant: cancel() counts the permits ever issued.
CancelCountingIssued ==
  /\ cancellation.lifecycle_seq = 0
  /\ cancelled' = TRUE
  /\ epoch' = epoch + 1
  /\ sequence' = sequence + 1
  /\ cancellation' = [cancelled_epoch |-> epoch, new_epoch |-> epoch + 1,
                      lifecycle_seq |-> sequence + 1,
                      inflight_at_linearization |-> Cardinality(permitted)]
  /\ UNCHANGED <<authorizations, permitted, permitSeq, inflight, releaseSeq>>

(* cancel(): the first call is the linearization point; later calls return *)
(* the recorded transition and change nothing.                             *)
Cancel ==
  /\ cancellation.lifecycle_seq = 0
  /\ cancelled' = TRUE
  /\ epoch' = epoch + 1
  /\ sequence' = sequence + 1
  /\ cancellation' = [cancelled_epoch |-> epoch, new_epoch |-> epoch + 1,
                      lifecycle_seq |-> sequence + 1,
                      inflight_at_linearization |-> Cardinality(inflight)]
  /\ UNCHANGED <<authorizations, permitted, permitSeq, inflight, releaseSeq>>

\* wait_for_drain() returns True only in such a state.
Drained == inflight = {}

RunNext ==
  \/ \E a \in Attempts, e \in Epochs : Authorize(a, e)
  \/ \E a \in Attempts, e \in Epochs, t \in BOOLEAN : IssuePermit(a, e, t)
  \/ \E a \in Attempts : Release(a)
  \/ Cancel

RunSpec == RunInit /\ [][RunNext]_runVars

-----------------------------------------------------------------------------
(* Shape of the lock's state; only finitely many permits are outstanding,   *)
(* so len(_inflight) is meaningful at the linearization point.             *)
RunTypeOK ==
  /\ epoch \in Epochs
  /\ cancelled \in BOOLEAN
  /\ sequence \in Nat
  /\ authorizations \in [Attempts -> [epoch : Epochs, seq : Nat]]
  /\ permitted \subseteq Attempts
  /\ permitSeq \in [Attempts -> Nat]
  /\ inflight \subseteq Attempts /\ IsFiniteSet(inflight)
  /\ releaseSeq \in [Attempts -> Nat]
  /\ cancellation \in [cancelled_epoch : Nat, new_epoch : Nat,
                       lifecycle_seq : Nat, inflight_at_linearization : Nat]

\* The names of E10_V2_TRANSITION_SPEC.md's sequence equations.
A(a) == authorizations[a].seq
P(a) == permitSeq[a]
R(a) == releaseSeq[a]
C == cancellation.lifecycle_seq

(* Every sequence number handed out by the lock has one owner: no two of   *)
(* AUTH, PERMIT, RELEASE (over all attempts) and the cancellation share a  *)
(* number ("All A/P/R/C values are unique", E10_V2_TRANSITION_SPEC.md).    *)
UniqueSequences ==
  /\ \A a, b \in Attempts :
       /\ A(a) # 0 => A(a) # P(b) /\ A(a) # R(b)
       /\ P(a) # 0 => P(a) # R(b)
       /\ a # b => /\ A(a) # 0 => A(a) # A(b)
                   /\ P(a) # 0 => P(a) # P(b)
                   /\ R(a) # 0 => R(a) # R(b)
  /\ C # 0 => \A a \in Attempts : C # A(a) /\ C # P(a) /\ C # R(a)

(* A < P < R for a permitted attempt, and A < C, P < C once cancelled: the *)
(* order of issue_permit() and cancel() on the shared lock is total, so no *)
(* permit and no authorisation is ever numbered after the cancellation.    *)
SequenceEquations ==
  \A a \in Attempts :
    /\ P(a) # 0 => 0 < A(a) /\ A(a) < P(a)
    /\ R(a) # 0 => 0 < P(a) /\ P(a) < R(a)
    /\ C # 0 => A(a) < C /\ P(a) < C

\* The permits that the sequence equation P < C < R places in flight at C.
InflightAtC ==
  {a \in Attempts : 0 < P(a) /\ P(a) < C /\ (R(a) = 0 \/ C < R(a))}

(* The count frozen by cancel() is exactly the number of permits that are  *)
(* in flight at C by the sequence equation P < C < R (a permit not yet     *)
(* released will be released above C), however late the releases come.     *)
CountAtLinearization ==
  C # 0 => cancellation.inflight_at_linearization = Cardinality(InflightAtC)

(* A permit is outstanding exactly between its issue and its release: the  *)
(* drain that cancellation waits for can neither lose nor resurrect one,   *)
(* so Drained after cancellation is final.                                 *)
OutstandingPermits ==
  inflight = {a \in Attempts : P(a) # 0 /\ R(a) = 0}

(* Cancellation is terminal: what was cancelled never runs again, the      *)
(* recorded transition is never rewritten and the set of permits in flight *)
(* only shrinks from then on (wait_for_drain cannot be overtaken).         *)
CancellationIsFinal ==
  [][cancelled => /\ cancelled'
                  /\ cancellation' = cancellation
                  /\ epoch' = epoch
                  /\ inflight' \subseteq inflight
                  /\ authorizations' = authorizations]_runVars
=============================================================================
