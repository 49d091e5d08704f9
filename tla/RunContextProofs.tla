-------------------------- MODULE RunContextProofs --------------------------
(***************************************************************************)
(* Proofs about the permit / cancellation lock, for every set of attempts. *)
(*                                                                         *)
(* None of the properties is inductive alone.  RunInv adds what the lock   *)
(* maintains between them: no number handed out exceeds the counter        *)
(* (SequenceBound), the flag, the epoch and the recorded transition change *)
(* together (CancelledAgrees) and an attempt is in _permitted_attempts     *)
(* exactly when a permit carries a number (PermittedAgrees).               *)
(***************************************************************************)
EXTENDS RunContext, FiniteSetTheorems, TLAPS

\* The counter is an upper bound of everything it has handed out.
SequenceBound ==
  /\ \A a \in Attempts : A(a) <= sequence /\ P(a) <= sequence /\ R(a) <= sequence
  /\ C <= sequence

\* _cancelled, _epoch and _cancellation agree.
CancelledAgrees ==
  /\ cancelled <=> C # 0
  /\ epoch = IF cancelled THEN 1 ELSE 0

\* _permitted_attempts holds exactly the attempts whose permit has a number.
PermittedAgrees == permitted = {a \in Attempts : P(a) # 0}

RunInv ==
  /\ RunTypeOK
  /\ SequenceBound
  /\ CancelledAgrees
  /\ PermittedAgrees
  /\ OutstandingPermits
  /\ SequenceEquations
  /\ UniqueSequences
  /\ CountAtLinearization

-----------------------------------------------------------------------------
(* A fresh RunContext satisfies the invariant.                             *)
LEMMA RunInitInv == RunInit => RunInv
<1> SUFFICES ASSUME RunInit PROVE RunInv
  OBVIOUS
<1>1. RunTypeOK
  BY FS_EmptySet DEF RunInit, RunTypeOK, NoAuthorization, NoCancellation, Epochs
<1>2. SequenceBound /\ CancelledAgrees /\ PermittedAgrees /\ OutstandingPermits
  BY DEF RunInit, NoAuthorization, NoCancellation, SequenceBound,
         CancelledAgrees, PermittedAgrees, OutstandingPermits, A, P, R, C
<1>3. SequenceEquations /\ UniqueSequences /\ CountAtLinearization
  BY DEF RunInit, NoAuthorization, NoCancellation, SequenceEquations,
         UniqueSequences, CountAtLinearization, A, P, R, C
<1> QED
  BY <1>1, <1>2, <1>3 DEF RunInv

(* What a critical section that leaves the cancellation alone does to the  *)
(* frozen count: nothing, when each attempt's membership in P < C < R is   *)
(* unchanged.                                                              *)
LEMMA CountUnchanged ==
  ASSUME CountAtLinearization,
         cancellation' = cancellation,
         C # 0 => InflightAtC' = InflightAtC
  PROVE  CountAtLinearization'
BY DEF CountAtLinearization, C

(* authorize() preserves the invariant.                                    *)
LEMMA AuthorizeInv ==
  ASSUME RunInv, NEW a \in Attempts, NEW e \in Epochs, Authorize(a, e)
  PROVE  RunInv'
<1> USE DEF RunInv, Authorize, MayAuthorize
<1>1. RunTypeOK'
  BY DEF RunTypeOK
<1>2. /\ \A b \in Attempts : /\ A(b)' = IF b = a THEN sequence + 1 ELSE A(b)
                             /\ P(b)' = P(b) /\ R(b)' = R(b)
      /\ C' = C
  BY DEF RunTypeOK, A, P, R, C
<1>3. /\ sequence \in Nat /\ C \in Nat
      /\ \A b \in Attempts : A(b) \in Nat /\ P(b) \in Nat /\ R(b) \in Nat
  BY DEF RunTypeOK, A, P, R, C
<1>4. C = 0 /\ A(a) = 0
  BY DEF CancelledAgrees, A
<1>5. SequenceBound'
  BY <1>2, <1>3 DEF SequenceBound
<1>6. CancelledAgrees' /\ PermittedAgrees' /\ OutstandingPermits'
  BY <1>2 DEF CancelledAgrees, PermittedAgrees, OutstandingPermits
<1>7. SequenceEquations'
  BY <1>2, <1>3, <1>4 DEF SequenceEquations
<1>8. UniqueSequences'
  BY <1>2, <1>3, <1>4 DEF UniqueSequences, SequenceBound
<1>9. CountAtLinearization'
  BY <1>4, CountUnchanged
<1> QED
  BY <1>1, <1>5, <1>6, <1>7, <1>8, <1>9

(* issue_permit() preserves the invariant.                                 *)
LEMMA IssuePermitInv ==
  ASSUME RunInv, NEW a \in Attempts, NEW e \in Epochs, NEW t \in BOOLEAN,
         IssuePermit(a, e, t)
  PROVE  RunInv'
<1> USE DEF RunInv, IssuePermit, MayIssuePermit
<1>1. RunTypeOK'
  <2>1. IsFiniteSet(inflight')
    BY FS_AddElement DEF RunTypeOK
  <2> QED
    BY <2>1 DEF RunTypeOK
<1>2. /\ \A b \in Attempts : /\ P(b)' = IF b = a THEN sequence + 1 ELSE P(b)
                             /\ A(b)' = A(b) /\ R(b)' = R(b)
      /\ C' = C
  BY DEF RunTypeOK, A, P, R, C
<1>3. /\ sequence \in Nat /\ C \in Nat
      /\ \A b \in Attempts : A(b) \in Nat /\ P(b) \in Nat /\ R(b) \in Nat
  BY DEF RunTypeOK, A, P, R, C
<1>4. C = 0 /\ A(a) # 0 /\ P(a) = 0
  BY DEF CancelledAgrees, PermittedAgrees, A
<1>5. R(a) = 0
  BY <1>3, <1>4 DEF SequenceEquations
<1>6. SequenceBound'
  BY <1>2, <1>3 DEF SequenceBound
<1>7. CancelledAgrees'
  BY <1>2 DEF CancelledAgrees
<1>8. PermittedAgrees' /\ OutstandingPermits'
  BY <1>2, <1>3, <1>5 DEF PermittedAgrees, OutstandingPermits
<1>9. SequenceEquations'
  BY <1>2, <1>3, <1>4, <1>5 DEF SequenceEquations, SequenceBound
<1>10. UniqueSequences'
  BY <1>2, <1>3, <1>4 DEF UniqueSequences, SequenceBound
<1>11. CountAtLinearization'
  BY <1>4, CountUnchanged
<1> QED
  BY <1>1, <1>6, <1>7, <1>8, <1>9, <1>10, <1>11

(* _release() preserves the invariant: a release after the cancellation is *)
(* numbered above C, so the frozen count keeps its meaning.                *)
LEMMA ReleaseInv ==
  ASSUME RunInv, NEW a \in Attempts, Release(a)
  PROVE  RunInv'
<1> USE DEF RunInv, Release
<1>1. RunTypeOK'
  <2>1. IsFiniteSet(inflight')
    BY FS_RemoveElement DEF RunTypeOK
  <2> QED
    BY <2>1 DEF RunTypeOK
<1>2. /\ \A b \in Attempts : /\ R(b)' = IF b = a THEN sequence + 1 ELSE R(b)
                             /\ A(b)' = A(b) /\ P(b)' = P(b)
      /\ C' = C
  BY DEF RunTypeOK, A, P, R, C
<1>3. /\ sequence \in Nat /\ C \in Nat
      /\ \A b \in Attempts : A(b) \in Nat /\ P(b) \in Nat /\ R(b) \in Nat
  BY DEF RunTypeOK, A, P, R, C
<1>4. P(a) # 0 /\ R(a) = 0
  BY DEF OutstandingPermits
<1>5. SequenceBound'
  BY <1>2, <1>3 DEF SequenceBound
<1>6. CancelledAgrees' /\ PermittedAgrees'
  BY <1>2 DEF CancelledAgrees, PermittedAgrees
<1>7. OutstandingPermits'
  BY <1>2, <1>3, <1>4 DEF OutstandingPermits
<1>8. SequenceEquations'
  BY <1>2, <1>3, <1>4 DEF SequenceEquations, SequenceBound
<1>9. UniqueSequences'
  BY <1>2, <1>3, <1>4 DEF UniqueSequences, SequenceBound
<1>10. C # 0 => InflightAtC' = InflightAtC
  BY <1>2, <1>3, <1>4 DEF InflightAtC, SequenceBound
<1>11. CountAtLinearization'
  BY <1>10, CountUnchanged
<1> QED
  BY <1>1, <1>5, <1>6, <1>7, <1>8, <1>9, <1>11

(* cancel() preserves the invariant: everything numbered so far lies below *)
(* C, so the permits in flight now are the ones P < C < R will name.       *)
LEMMA CancelInv ==
  ASSUME RunInv, Cancel
  PROVE  RunInv'
<1> USE DEF RunInv, Cancel
<1>1. Cardinality(inflight) \in Nat
  BY FS_CardinalityType DEF RunTypeOK
<1>2. C = 0 /\ epoch = 0
  BY DEF CancelledAgrees, C
<1>3. RunTypeOK'
  BY <1>1, <1>2 DEF RunTypeOK, Epochs
<1>4. /\ \A b \in Attempts : A(b)' = A(b) /\ P(b)' = P(b) /\ R(b)' = R(b)
      /\ C' = sequence + 1
  BY DEF A, P, R, C
<1>5. /\ sequence \in Nat
      /\ \A b \in Attempts : A(b) \in Nat /\ P(b) \in Nat /\ R(b) \in Nat
  BY DEF RunTypeOK, A, P, R
<1>6. SequenceBound'
  BY <1>4, <1>5 DEF SequenceBound
<1>7. CancelledAgrees'
  BY <1>2, <1>4, <1>5 DEF CancelledAgrees
<1>8. PermittedAgrees' /\ OutstandingPermits'
  BY <1>4 DEF PermittedAgrees, OutstandingPermits
<1>9. SequenceEquations'
  BY <1>4, <1>5 DEF SequenceEquations, SequenceBound
<1>10. UniqueSequences'
  BY <1>4, <1>5 DEF UniqueSequences, SequenceBound
<1>11. CountAtLinearization'
  <2>1. InflightAtC' = inflight
    BY <1>4, <1>5 DEF InflightAtC, OutstandingPermits, SequenceBound
  <2>2. cancellation'.inflight_at_linearization = Cardinality(inflight)
    OBVIOUS
  <2> QED
    BY <2>1, <2>2 DEF CountAtLinearization
<1> QED
  BY <1>3, <1>6, <1>7, <1>8, <1>9, <1>10, <1>11

(* Every critical section, and stuttering, preserves the invariant.        *)
LEMMA RunStepInv == RunInv /\ [RunNext]_runVars => RunInv'
<1> SUFFICES ASSUME RunInv, [RunNext]_runVars PROVE RunInv'
  OBVIOUS
<1>1. ASSUME NEW a \in Attempts, NEW e \in Epochs, Authorize(a, e)
      PROVE  RunInv'
  BY <1>1, AuthorizeInv
<1>2. ASSUME NEW a \in Attempts, NEW e \in Epochs, NEW t \in BOOLEAN,
             IssuePermit(a, e, t)
      PROVE  RunInv'
  BY <1>2, IssuePermitInv
<1>3. ASSUME NEW a \in Attempts, Release(a)
      PROVE  RunInv'
  BY <1>3, ReleaseInv
<1>4. CASE Cancel
  BY <1>4, CancelInv
<1>5. CASE UNCHANGED runVars
  BY <1>5 DEF runVars, RunInv, RunTypeOK, SequenceBound, CancelledAgrees,
     PermittedAgrees, OutstandingPermits, SequenceEquations, UniqueSequences,
     CountAtLinearization, InflightAtC, A, P, R, C
<1> QED
  BY <1>1, <1>2, <1>3, <1>4, <1>5 DEF RunNext

-----------------------------------------------------------------------------
(* The inductive invariant holds in every reachable state of the lock.     *)
THEOREM RunInvariant == RunSpec => []RunInv
BY RunInitInv, RunStepInv, PTL DEF RunSpec

(* Type correctness of RunContext's fields.                                *)
THEOREM RunTypeCorrect == RunSpec => []RunTypeOK
<1>1. RunInv => RunTypeOK
  BY DEF RunInv
<1> QED
  BY <1>1, RunInvariant, PTL

(* No two of all A, P, R and C numbers coincide, for any number of attempts.*)
THEOREM SequencesUnique == RunSpec => []UniqueSequences
<1>1. RunInv => UniqueSequences
  BY DEF RunInv
<1> QED
  BY <1>1, RunInvariant, PTL

(* A < P < R and A, P < C: a permit or authorisation is ordered before the *)
(* cancellation or it does not exist.                                      *)
THEOREM SequencesOrdered == RunSpec => []SequenceEquations
<1>1. RunInv => SequenceEquations
  BY DEF RunInv
<1> QED
  BY <1>1, RunInvariant, PTL

(* The inflight count that CANCELLATION_LINEARIZED reports is the number   *)
(* of permits with P < C < R, whatever is released later.                  *)
THEOREM LinearizedCount == RunSpec => []CountAtLinearization
<1>1. RunInv => CountAtLinearization
  BY DEF RunInv
<1> QED
  BY <1>1, RunInvariant, PTL

(* _inflight holds exactly the permits issued and not yet released.        *)
THEOREM PermitsOutstanding == RunSpec => []OutstandingPermits
<1>1. RunInv => OutstandingPermits
  BY DEF RunInv
<1> QED
  BY <1>1, RunInvariant, PTL

(* After cancel() the transition, the epoch and the authorisations are     *)
(* frozen and the permits in flight only drain.                            *)
THEOREM CancellationFinal == RunSpec => CancellationIsFinal
<1> DEFINE Final == cancelled => /\ cancelled'
                                 /\ cancellation' = cancellation
                                 /\ epoch' = epoch
                                 /\ inflight' \subseteq inflight
                                 /\ authorizations' = authorizations
<1>1. RunInv /\ [RunNext]_runVars => [Final]_runVars
  BY DEF RunInv, CancelledAgrees, C, RunNext, runVars, Authorize, MayAuthorize,
         IssuePermit, MayIssuePermit, Release, Cancel
<1> QED
  BY <1>1, RunInvariant, PTL DEF RunSpec, CancellationIsFinal
=============================================================================
