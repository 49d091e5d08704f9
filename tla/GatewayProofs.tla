---------------------------- MODULE GatewayProofs ----------------------------
(***************************************************************************)
(* Proofs about the execution gateway, for any number of handlers and      *)
(* connections, any faults of the audit sink and any time-out.             *)
(***************************************************************************)
EXTENDS Gateway, RunContextProofs, VerifyE10Proofs

-----------------------------------------------------------------------------
(* The gateway implements the permit lock: whatever handlers and the kill  *)
(* watcher do, the lock's variables change by its critical sections only.  *)

\* The actions of a handler that do not enter the lock.
LEMMA HandlerOutsideLock ==
  ASSUME NEW h \in Attempts,
         \/ Accept(h) \/ ReadRequest(h) \/ Refuse(h) \/ BeginProducer(h) \/ Add(h)
         \/ Decide(h) \/ WrapClient(h) \/ OwnClient(h) \/ DecideInside(h)
         \/ WriteAuth(h) \/ OpenUpstream(h) \/ WritePermit(h) \/ CheckTerminal(h)
         \/ WriteAttempted(h) \/ SettleInterrupted(h) \/ DenyInterrupted(h) \/ Connect(h)
         \/ OwnUpstream(h) \/ SendRequest(h)
         \/ Stream(h) \/ WriteNext(h) \/ WriteRelease(h) \/ WriteInternal(h)
         \/ CloseAll(h) \/ Remove(h) \/ EndProducer(h)
  PROVE  runVars' = runVars
<1>1. CASE Accept(h) \/ ReadRequest(h) \/ Refuse(h) \/ BeginProducer(h) \/ Add(h)
  BY <1>1 DEF Accept, ReadRequest, Refuse, BeginProducer, Add
<1>2. CASE Decide(h) \/ WrapClient(h) \/ OwnClient(h) \/ DecideInside(h) \/ OpenUpstream(h)
  BY <1>2 DEF Decide, WrapClient, OwnClient, DecideInside, OpenUpstream
<1>3. CASE WriteAuth(h) \/ WritePermit(h) \/ WriteAttempted(h) \/ SettleInterrupted(h)
             \/ DenyInterrupted(h) \/ WriteRelease(h)
  BY <1>3 DEF WriteAuth, WritePermit, WriteAttempted, SettleInterrupted, DenyInterrupted,
              WriteRelease, WriteOr
<1>4. CASE CheckTerminal(h) \/ Connect(h) \/ OwnUpstream(h) \/ SendRequest(h) \/ Stream(h)
  BY <1>4 DEF CheckTerminal, Connect, OwnUpstream, SendRequest, Stream
<1>5. CASE WriteNext(h) \/ WriteInternal(h) \/ CloseAll(h) \/ Remove(h) \/ EndProducer(h)
  BY <1>5 DEF WriteNext, WriteInternal, CloseAll, Remove, EndProducer
<1> QED
  BY <1>1, <1>2, <1>3, <1>4, <1>5

\* The actions of serve() and the watcher that do not enter the lock.
LEMMA WatcherOutsideLock ==
  ASSUME \/ BootDegraded \/ Boot \/ NoticeKillFile \/ ListenerEnds \/ KillRegistry
         \/ MarkVictim \/ ShutVictim \/ StopListener
         \/ RecordRequested \/ RecordLinearized \/ AwaitDrain \/ AwaitListener
         \/ AwaitProducers \/ SamplePermits \/ SampleProducers \/ RecordKillSwitch
         \/ RecordDrainTimeout \/ RecordAck \/ SealRun \/ Exit
  PROVE  runVars' = runVars
<1>1. CASE BootDegraded \/ Boot \/ NoticeKillFile \/ ListenerEnds
  BY <1>1 DEF BootDegraded, Boot, NoticeKillFile, ListenerEnds, WatcherOnly
<1>2. CASE KillRegistry \/ MarkVictim \/ ShutVictim \/ StopListener
  BY <1>2 DEF KillRegistry, MarkVictim, ShutVictim, StopListener, WatcherOnly
<1>3. CASE RecordRequested \/ RecordLinearized \/ AwaitDrain \/ AwaitListener \/ AwaitProducers
  BY <1>3 DEF RecordRequested, RecordLinearized, AwaitDrain, AwaitListener, AwaitProducers,
              WatcherOnly
<1>4. CASE SamplePermits \/ SampleProducers \/ RecordKillSwitch \/ RecordDrainTimeout
           \/ RecordAck \/ SealRun \/ Exit
  BY <1>4 DEF SamplePermits, SampleProducers, RecordKillSwitch, RecordDrainTimeout,
              RecordAck, SealRun, Exit, WatcherOnly
<1> QED
  BY <1>1, <1>2, <1>3, <1>4

\* Every step of the gateway is a critical section of the lock or leaves it alone.
LEMMA StepsOfTheLock == ASSUME RunInv, [Next]_vars PROVE [RunNext]_runVars
<1>1. epoch \in Epochs
  BY DEF RunInv, RunTypeOK
<1>2. ASSUME NEW h \in Attempts, AllocateAuth(h) PROVE [RunNext]_runVars
  BY <1>1, <1>2 DEF AllocateAuth, Authorize, MayAuthorize, RunNext
<1>3. ASSUME NEW h \in Attempts, AcquirePermit(h) PROVE [RunNext]_runVars
  <2>1. CASE IssuePermit(h, seen[h], terminal[h])
    <3>1. IssuePermit(h, seen[h], FALSE) /\ seen[h] \in Epochs
      BY <1>1, <2>1 DEF IssuePermit, MayIssuePermit
    <3> QED
      BY <3>1 DEF RunNext
  <2> QED
    BY <1>3, <2>1 DEF AcquirePermit
<1>4. ASSUME NEW h \in Attempts, Abandon(h) \/ ReleasePermit(h) PROVE [RunNext]_runVars
  BY <1>4 DEF Abandon, ReleasePermit, RunNext
<1>5. CASE CancelRun
  BY <1>5 DEF CancelRun, RunNext
<1>6. CASE UNCHANGED vars
  BY <1>6 DEF vars
<1> QED
  BY <1>2, <1>3, <1>4, <1>5, <1>6, HandlerOutsideLock, WatcherOutsideLock
  DEF Next, Handler, Watcher

\* The permit lock keeps its equations inside the gateway as it does alone.
LEMMA LockInvariant == Spec => []RunInv
<1>1. Init => RunInv
  BY RunInitInv DEF Init
<1>2. RunInv /\ [Next]_vars => RunInv'
  BY StepsOfTheLock, RunStepInv
<1> QED
  BY <1>1, <1>2, PTL DEF Spec

(* The gateway implements the specification of the permit lock.            *)
THEOREM GatewayImplementsLock == Spec => RunSpec
<1>1. Init => RunInit
  BY DEF Init
<1>2. RunInv /\ [Next]_vars => [RunNext]_runVars
  BY StepsOfTheLock
<1> QED
  BY <1>1, <1>2, LockInvariant, PTL DEF Spec, RunSpec

-----------------------------------------------------------------------------
(* Admission: places of the semaphore and producers.                       *)
Outside == {"none", "accepted", "gone"}
Idle == Outside \cup {"reading", "ending"}
Producing == {h \in Attempts : pc[h] \notin Outside}
Placed == {h \in Attempts : pc[h] \notin Idle}

AdmissionInv ==
  /\ pc \in [Attempts -> Positions]
  /\ IsFiniteSet(Producing) /\ IsFiniteSet(Placed)
  /\ slots = MaxConnections - Cardinality(Placed)
  /\ producers = Cardinality(Producing)

\* The steps of do_CONNECT between taking a place and giving it back.
HoldsPlace(h) ==
  \/ Add(h) \/ Decide(h) \/ WrapClient(h) \/ OwnClient(h) \/ DecideInside(h)
  \/ AllocateAuth(h) \/ WriteAuth(h) \/ OpenUpstream(h) \/ AcquirePermit(h)
  \/ WritePermit(h) \/ Abandon(h) \/ CheckTerminal(h) \/ WriteAttempted(h)
  \/ SettleInterrupted(h) \/ DenyInterrupted(h)
  \/ Connect(h) \/ OwnUpstream(h) \/ SendRequest(h) \/ Stream(h) \/ WriteNext(h)
  \/ ReleasePermit(h) \/ WriteRelease(h) \/ WriteInternal(h) \/ CloseAll(h)

\* Whatever happens in between, exceptions included, the place is kept.
LEMMA PlaceKept ==
  ASSUME AdmissionInv, NEW h \in Attempts, HoldsPlace(h)
  PROVE  /\ pc' \in [Attempts -> Positions]
         /\ pc[h] \notin Idle /\ pc'[h] \notin Idle
         /\ \A g \in Attempts \ {h} : pc'[g] = pc[g]
         /\ slots' = slots /\ producers' = producers
<1> USE DEF AdmissionInv, Positions, Running, Goto, Writing, Idle, Outside, registryVars
<1>1. CASE Add(h) \/ Decide(h) \/ WrapClient(h) \/ OwnClient(h) \/ DecideInside(h)
  BY <1>1 DEF Add, Decide, WrapClient, OwnClient, DecideInside
<1>2. CASE AllocateAuth(h) \/ OpenUpstream(h) \/ AcquirePermit(h) \/ Abandon(h)
  BY <1>2 DEF AllocateAuth, OpenUpstream, AcquirePermit, Abandon
<1>3. CASE WriteAuth(h) \/ WritePermit(h) \/ WriteAttempted(h) \/ SettleInterrupted(h)
             \/ DenyInterrupted(h)
  BY <1>3 DEF WriteAuth, WritePermit, WriteAttempted, SettleInterrupted, DenyInterrupted, WriteOr
<1>4. CASE CheckTerminal(h) \/ Connect(h) \/ OwnUpstream(h) \/ SendRequest(h) \/ Stream(h)
  BY <1>4 DEF CheckTerminal, Connect, OwnUpstream, SendRequest, Stream
<1>5. CASE WriteNext(h)
  BY <1>5 DEF WriteNext, Leave
<1>6. CASE WriteRelease(h)
  BY <1>6 DEF WriteRelease, WriteOr
<1>7. CASE ReleasePermit(h) \/ WriteInternal(h) \/ CloseAll(h)
  BY <1>7 DEF ReleasePermit, WriteInternal, CloseAll
<1> QED
  BY <1>1, <1>2, <1>3, <1>4, <1>5, <1>6, <1>7 DEF HoldsPlace

\* Steps of serve() and the watcher leave handlers, places and producers alone.
LEMMA WatcherLeavesHandlers ==
  ASSUME \/ BootDegraded \/ Boot \/ NoticeKillFile \/ ListenerEnds \/ Watcher
  PROVE  UNCHANGED <<handlerVars, slots, producers>>
<1>1. CASE BootDegraded \/ Boot \/ NoticeKillFile \/ ListenerEnds
  BY <1>1 DEF BootDegraded, Boot, NoticeKillFile, ListenerEnds, WatcherOnly, registryVars
<1>2. CASE CancelRun \/ KillRegistry \/ MarkVictim \/ ShutVictim \/ StopListener
  BY <1>2 DEF CancelRun, KillRegistry, MarkVictim, ShutVictim, StopListener, WatcherOnly,
              registryVars
<1>3. CASE RecordRequested \/ RecordLinearized \/ AwaitDrain \/ AwaitListener \/ AwaitProducers
  BY <1>3 DEF RecordRequested, RecordLinearized, AwaitDrain, AwaitListener, AwaitProducers,
              WatcherOnly, registryVars
<1>4. CASE SamplePermits \/ SampleProducers \/ RecordKillSwitch \/ RecordDrainTimeout
           \/ RecordAck \/ SealRun \/ Exit
  BY <1>4 DEF SamplePermits, SampleProducers, RecordKillSwitch, RecordDrainTimeout,
              RecordAck, SealRun, Exit, WatcherOnly, registryVars
<1> QED
  BY <1>1, <1>2, <1>3, <1>4 DEF Watcher

\* No connection has been accepted when the process starts.
LEMMA AdmissionInit == Init => AdmissionInv
<1> SUFFICES ASSUME Init PROVE AdmissionInv
  OBVIOUS
<1>1. Producing = {} /\ Placed = {} /\ pc \in [Attempts -> Positions]
  BY DEF Init, Producing, Placed, Outside, Idle, Positions
<1>2. slots = MaxConnections /\ producers = 0
  BY DEF Init
<1> QED
  BY <1>1, <1>2, FS_EmptySet, MaxConnectionsAssumption DEF AdmissionInv

\* Accepting, refusing and ending a handler keep the producer count and the handlers together.
LEMMA AdmissionStep == AdmissionInv /\ [Next]_vars => AdmissionInv'
<1> SUFFICES ASSUME AdmissionInv, [Next]_vars PROVE AdmissionInv'
  OBVIOUS
<1>1. /\ Cardinality(Producing) \in Nat /\ Cardinality(Placed) \in Nat
      /\ IsFiniteSet(Producing) /\ IsFiniteSet(Placed)
      /\ slots = MaxConnections - Cardinality(Placed)
      /\ producers = Cardinality(Producing)
  BY FS_CardinalityType DEF AdmissionInv
<1>2. CASE /\ pc' \in [Attempts -> Positions] /\ Producing' = Producing /\ Placed' = Placed
           /\ slots' = slots /\ producers' = producers
  BY <1>1, <1>2 DEF AdmissionInv
<1>3. ASSUME NEW h \in Attempts, HoldsPlace(h) PROVE AdmissionInv'
  <2>1. /\ pc' \in [Attempts -> Positions] /\ pc[h] \notin Idle /\ pc'[h] \notin Idle
        /\ \A g \in Attempts \ {h} : pc'[g] = pc[g]
        /\ slots' = slots /\ producers' = producers
    BY <1>3, PlaceKept
  <2>2. Producing' = Producing /\ Placed' = Placed
    BY <2>1 DEF Producing, Placed, Idle, Outside
  <2> QED
    BY <1>2, <2>1, <2>2
<1>4. ASSUME NEW h \in Attempts, Accept(h) \/ Refuse(h) PROVE AdmissionInv'
  <2>1. /\ pc' \in [Attempts -> Positions] /\ Producing' = Producing /\ Placed' = Placed
        /\ slots' = slots /\ producers' = producers
    BY <1>4 DEF AdmissionInv, Accept, Refuse, Positions, Running, Goto, Producing, Placed,
                Idle, Outside, registryVars
  <2> QED
    BY <1>2, <2>1
<1>5. ASSUME NEW h \in Attempts, BeginProducer(h) PROVE AdmissionInv'
  <2> USE DEF BeginProducer, AdmissionInv, Positions, Running, Goto, Producing, Placed, Idle, Outside
  <2>1. CASE pc' = [pc EXCEPT ![h] = "gone"] /\ producers' = producers
    <3>1. Producing' = Producing /\ Placed' = Placed /\ slots' = slots
      BY <1>5, <2>1
    <3> QED
      BY <1>2, <2>1, <3>1
  <2>2. CASE pc' = [pc EXCEPT ![h] = "reading"] /\ producers' = producers + 1
    <3>1. /\ Producing' = Producing \cup {h} /\ h \notin Producing
          /\ Placed' = Placed /\ slots' = slots
      BY <1>5, <2>2
    <3> HIDE DEF Producing, Placed
    <3>2. IsFiniteSet(Producing') /\ Cardinality(Producing') = Cardinality(Producing) + 1
      BY <1>1, <3>1, FS_AddElement
    <3> QED
      BY <1>1, <2>2, <3>1, <3>2
  <2> QED
    BY <1>5, <2>1, <2>2
<1>6. ASSUME NEW h \in Attempts, ReadRequest(h) PROVE AdmissionInv'
  <2> USE DEF ReadRequest, AdmissionInv, Positions, Running, Goto, Producing, Placed, Idle, Outside
  <2>1. CASE pc' = [pc EXCEPT ![h] = "ending"] /\ slots' = slots
    <3>1. Producing' = Producing /\ Placed' = Placed /\ producers' = producers
      BY <1>6, <2>1
    <3> QED
      BY <1>2, <2>1, <3>1
  <2>2. CASE pc' = [pc EXCEPT ![h] = "adding"] /\ slots' = slots - 1
    <3>1. /\ Placed' = Placed \cup {h} /\ h \notin Placed
          /\ Producing' = Producing /\ producers' = producers
      BY <1>6, <2>2
    <3> HIDE DEF Producing, Placed
    <3>2. IsFiniteSet(Placed') /\ Cardinality(Placed') = Cardinality(Placed) + 1
      BY <1>1, <3>1, FS_AddElement
    <3> QED
      BY <1>1, <2>2, <3>1, <3>2, MaxConnectionsAssumption
  <2> QED
    BY <1>6, <2>1, <2>2
<1>7. ASSUME NEW h \in Attempts, Remove(h) PROVE AdmissionInv'
  <2> USE DEF Remove, AdmissionInv, Positions, Running, Goto, Producing, Placed, Idle, Outside
  <2>1. /\ Placed' = Placed \ {h} /\ h \in Placed /\ slots' = slots + 1
        /\ Producing' = Producing /\ producers' = producers /\ pc' \in [Attempts -> Positions]
    BY <1>7
  <2> HIDE DEF Producing, Placed
  <2>2. IsFiniteSet(Placed') /\ Cardinality(Placed') = Cardinality(Placed) - 1
    BY <1>1, <2>1, FS_RemoveElement
  <2> QED
    BY <1>1, <2>1, <2>2, MaxConnectionsAssumption
<1>8. ASSUME NEW h \in Attempts, EndProducer(h) PROVE AdmissionInv'
  <2> USE DEF EndProducer, AdmissionInv, Positions, Running, Goto, Producing, Placed, Idle, Outside
  <2>1. /\ Producing' = Producing \ {h} /\ h \in Producing /\ producers' = producers - 1
        /\ Placed' = Placed /\ slots' = slots /\ pc' \in [Attempts -> Positions]
    BY <1>8
  <2> HIDE DEF Producing, Placed
  <2>2. IsFiniteSet(Producing') /\ Cardinality(Producing') = Cardinality(Producing) - 1
    BY <1>1, <2>1, FS_RemoveElement
  <2> QED
    BY <1>1, <2>1, <2>2
<1>9. CASE BootDegraded \/ Boot \/ NoticeKillFile \/ ListenerEnds \/ Watcher
  <2>1. UNCHANGED <<pc, slots, producers>>
    BY <1>9, WatcherLeavesHandlers DEF handlerVars
  <2> QED
    BY <1>2, <2>1 DEF AdmissionInv, Producing, Placed
<1>10. CASE UNCHANGED vars
  <2>1. UNCHANGED <<pc, slots, producers>>
    BY <1>10 DEF vars, handlerVars, registryVars
  <2> QED
    BY <1>2, <2>1 DEF AdmissionInv, Producing, Placed
<1> QED
  BY <1>3, <1>4, <1>5, <1>6, <1>7, <1>8, <1>9, <1>10 DEF Next, Handler, HoldsPlace

(* Places of the semaphore and audit producers are given back exactly once *)
(* on every way out, exceptions included: neither leaks nor underflows.    *)
THEOREM AdmissionIsAccounted == Spec => []AdmissionAccounting
<1>1. AdmissionInv => AdmissionAccounting
  BY DEF AdmissionInv, AdmissionAccounting, Producing, Placed, Idle, Outside
<1> QED
  BY <1>1, AdmissionInit, AdmissionStep, PTL DEF Spec

-----------------------------------------------------------------------------
(* Evidence before effect.  Each write that returned adds its decision and *)
(* lets the handler go on; a write that raised takes it off this path.     *)
AtTarget == {"connecting", "upstream_tls", "sending", "streaming"}
Attempting == {"checking", "attempt"} \cup AtTarget
Permitting == {"opening", "permitting", "permit"} \cup Attempting
HoldsPermit == {"permit", "abandoning", "interrupted", "denying", "releasing"} \cup Attempting

EvidenceInv ==
  /\ pc \in [Attempts -> Positions]
  /\ logged = [h \in Attempts |-> logged[h]]
  /\ \A h \in Attempts :
       /\ pc[h] \in Permitting => AUTH \in logged[h]
       /\ pc[h] \in Attempting => PERMIT \in logged[h]
       /\ pc[h] \in AtTarget => ATTEMPTED \in logged[h]
       /\ pc[h] \in HoldsPermit => h \in inflight

\* Nothing has been sent upstream when the process starts.
LEMMA EvidenceInit == Init => EvidenceInv
  BY DEF Init, EvidenceInv, Positions, Permitting, Attempting, AtTarget, HoldsPermit

\* A handler is at a position only with the records and the permit that position needs.
LEMMA EvidenceStep == EvidenceInv /\ [Next]_vars => EvidenceInv'
<1> SUFFICES ASSUME EvidenceInv, [Next]_vars PROVE EvidenceInv'
  OBVIOUS
<1> USE DEF EvidenceInv, Positions, Permitting, Attempting, AtTarget, HoldsPermit,
            Running, Goto, Writing, Locally
<1>1. ASSUME NEW h \in Attempts, Accept(h) \/ ReadRequest(h) \/ Refuse(h) \/ BeginProducer(h)
      PROVE  EvidenceInv'
  <2>1. inflight' = inflight
    BY <1>1, HandlerOutsideLock DEF runVars
  <2> QED
    BY <1>1, <2>1 DEF Accept, ReadRequest, Refuse, BeginProducer
<1>2. ASSUME NEW h \in Attempts,
             Add(h) \/ Decide(h) \/ WrapClient(h) \/ OwnClient(h) \/ DecideInside(h)
      PROVE  EvidenceInv'
  <2>1. inflight' = inflight
    BY <1>2, HandlerOutsideLock DEF runVars
  <2> QED
    BY <1>2, <2>1 DEF Add, Decide, WrapClient, OwnClient, DecideInside
<1>3. ASSUME NEW h \in Attempts, WriteAuth(h) \/ WritePermit(h) \/ WriteAttempted(h)
                                   \/ SettleInterrupted(h) \/ DenyInterrupted(h)
      PROVE  EvidenceInv'
  <2>1. inflight' = inflight
    BY <1>3, HandlerOutsideLock DEF runVars
  <2> QED
    BY <1>3, <2>1 DEF WriteAuth, WritePermit, WriteAttempted, SettleInterrupted,
                      DenyInterrupted, WriteOr
<1>4. ASSUME NEW h \in Attempts, AllocateAuth(h) PROVE EvidenceInv'
  <2>1. inflight' = inflight
    BY <1>4 DEF AllocateAuth, Authorize, runVars
  <2> QED
    BY <1>4, <2>1 DEF AllocateAuth
<1>5. ASSUME NEW h \in Attempts, OpenUpstream(h) \/ CheckTerminal(h) PROVE EvidenceInv'
  <2>1. inflight' = inflight
    BY <1>5, HandlerOutsideLock DEF runVars
  <2> QED
    BY <1>5, <2>1 DEF OpenUpstream, CheckTerminal
<1>6. ASSUME NEW h \in Attempts, AcquirePermit(h) PROVE EvidenceInv'
  <2>1. \/ pc' = [pc EXCEPT ![h] = "permit"] /\ inflight' = inflight \cup {h}
        \/ pc' = [pc EXCEPT ![h] = "writing"] /\ inflight' = inflight
    BY <1>6 DEF AcquirePermit, IssuePermit, runVars
  <2>2. pc[h] = "permitting" /\ logged' = logged
    BY <1>6 DEF AcquirePermit
  <2> QED
    BY <2>1, <2>2
<1>7. ASSUME NEW h \in Attempts, Abandon(h) \/ ReleasePermit(h) PROVE EvidenceInv'
  <2>1. /\ inflight' = inflight \ {h} /\ logged' = logged
        /\ pc' = [pc EXCEPT ![h] = "writing"] \/ pc' = [pc EXCEPT ![h] = "release"]
    BY <1>7 DEF Abandon, ReleasePermit, Release
  <2> QED
    BY <2>1
<1>8. ASSUME NEW h \in Attempts, Connect(h) \/ OwnUpstream(h) \/ SendRequest(h) \/ Stream(h)
      PROVE  EvidenceInv'
  <2>1. inflight' = inflight
    BY <1>8, HandlerOutsideLock DEF runVars
  <2> QED
    BY <1>8, <2>1 DEF Connect, OwnUpstream, SendRequest, Stream
<1>9. ASSUME NEW h \in Attempts, WriteNext(h) \/ WriteRelease(h) PROVE EvidenceInv'
  <2>1. inflight' = inflight
    BY <1>9, HandlerOutsideLock DEF runVars
  <2>2. CASE WriteNext(h)
    BY <2>1, <2>2 DEF WriteNext, Leave
  <2>3. CASE WriteRelease(h)
    BY <2>1, <2>3 DEF WriteRelease, WriteOr
  <2> QED
    BY <1>9, <2>2, <2>3
<1>10. ASSUME NEW h \in Attempts,
              WriteInternal(h) \/ CloseAll(h) \/ Remove(h) \/ EndProducer(h)
       PROVE  EvidenceInv'
  <2>1. inflight' = inflight
    BY <1>10, HandlerOutsideLock DEF runVars
  <2> QED
    BY <1>10, <2>1 DEF WriteInternal, CloseAll, Remove, EndProducer
<1>11. CASE BootDegraded \/ Boot \/ NoticeKillFile \/ ListenerEnds \/ Watcher
  <2>1. UNCHANGED <<pc, logged>>
    BY <1>11, WatcherLeavesHandlers DEF handlerVars
  <2>2. inflight' = inflight
    BY <1>11, WatcherOutsideLock DEF Watcher, runVars, CancelRun, Cancel
  <2> QED
    BY <2>1, <2>2
<1>12. CASE UNCHANGED vars
  BY <1>12 DEF vars, handlerVars, runVars
<1> QED
  BY <1>1, <1>2, <1>3, <1>4, <1>5, <1>6, <1>7, <1>8, <1>9, <1>10, <1>11, <1>12
  DEF Next, Handler

(* No handler touches its target before its intent, permit and attempt are *)
(* durable, and its permit is in flight as long as the effect lasts.       *)
THEOREM EffectsHaveEvidence == Spec => []EffectNeedsEvidence
<1>1. EvidenceInv => EffectNeedsEvidence
  BY DEF EvidenceInv, EffectNeedsEvidence, Effecting, Permitting, Attempting, AtTarget,
         HoldsPermit
<1> QED
  BY <1>1, EvidenceInit, EvidenceStep, PTL DEF Spec

-----------------------------------------------------------------------------
(* What a write may do to the verdict: only RUN_CLOSED closes the history  *)
(* and only STARTUP_FAILED makes it one of a failed startup.               *)
RunStates == {"RUNNING", "CANCEL_REQUESTED", "CANCEL_LINEARIZED", "ACKNOWLEDGED",
              "DRAIN_TIMEOUT", "CLOSED"}

VerdictKept(decision) ==
  /\ decision # RUN_CLOSED => (vrun' = "CLOSED" => vrun = "CLOSED")
  /\ decision # STARTUP_FAILED /\ vrun \in RunStates => vrun' \in RunStates
  /\ vstatus # "LOCAL_HISTORY_VALID" => vstatus' # "LOCAL_HISTORY_VALID"

\* Verifying one record changes the run phase only as that kind of record may.
LEMMA TakeKeepsRun == ASSUME NEW r, Take(r) PROVE VerdictKept(r.decision)
<1>0. vstatus' # "LOCAL_HISTORY_VALID"
  BY EndedIsRefused
<1> USE <1>0 DEF VerdictKept, RunStates
<1> USE DEF Judge
<1>1. CASE TakeStartupDegraded(r) \/ TakeStartupFailed(r) \/ TakeStartup(r)
  BY <1>1 DEF TakeStartupDegraded, TakeStartupFailed, TakeStartup
<1>2. CASE TakeAuth(r) \/ TakePermit(r) \/ TakeAttempted(r) \/ TakeTerminal(r)
  BY <1>2 DEF TakeAuth, TakePermit, TakeAttempted, TakeTerminal, UpdateAttempt
<1>3. CASE TakeAllow(r) \/ TakeRelease(r) \/ TakeConnectionTerminated(r) \/ TakeBlocked(r)
  BY <1>3 DEF TakeAllow, TakeRelease, TakeConnectionTerminated, TakeBlocked, UpdateAttempt
<1>4. CASE TakeCancelRequested(r) \/ TakeCancelLinearized(r) \/ TakeKillSwitch(r)
  BY <1>4 DEF TakeCancelRequested, TakeCancelLinearized, TakeKillSwitch
<1>5. CASE TakeAck(r) \/ TakeDrainTimeout(r)
  BY <1>5 DEF TakeAck, TakeDrainTimeout, Disposition
<1>6. CASE TakeRunClosed(r)
  BY <1>6 DEF TakeRunClosed
<1> QED
  BY <1>1, <1>2, <1>3, <1>4, <1>5, <1>6 DEF Take

\* So does writing one, whether the append lands, raises or finds the log sealed.
LEMMA WriteKeepsRun ==
  ASSUME NEW r, Appends(r) \/ Raises(r) \/ Seals(r)
  PROVE  VerdictKept(r.decision) /\ (Seals(r) \/ sealed' = sealed)
<1>0. ASSUME verifyVars' = verifyVars PROVE VerdictKept(r.decision)
  BY <1>0 DEF verifyVars, VerdictKept
<1>1. CASE Appends(r)
  BY <1>0, <1>1, TakeKeepsRun DEF Appends, Scan
<1>2. CASE Raises(r)
  BY <1>0, <1>2, TakeKeepsRun DEF Raises, Scan, sinkVars, verifyVars
<1>3. CASE Seals(r)
  BY <1>0, <1>3, TakeKeepsRun DEF Seals, Scan
<1> QED
  BY <1>1, <1>2, <1>3

-----------------------------------------------------------------------------
(* A handler is writing exactly while it has records left, and the last of *)
(* them is no outcome: settle() swallowing a failed outcome record never   *)
(* leaves it with nothing to write.                                        *)
Listed == {BLOCKED, ALLOW, CONN_TERMINATED} \cup TERMINAL

ListOK(list) == /\ list \in Seq(Listed) /\ list # <<>>
                /\ list[Len(list)] \notin TERMINAL

TodoInv ==
  /\ pc \in [Attempts -> Positions]
  /\ todo = [h \in Attempts |-> todo[h]]
  /\ \A h \in Attempts : IF pc[h] = "writing" THEN ListOK(todo[h]) ELSE todo[h] = <<>>

\* Each list of closing records that a handler is given is one of the allowed lists.
LEMMA ListsOK ==
  /\ ListOK(<<BLOCKED>>)
  /\ \A d \in TERMINAL : ListOK(<<d, BLOCKED>>) /\ ListOK(<<d, BLOCKED, BLOCKED>>)
  /\ ListOK(<<COMPLETED, ALLOW>>) /\ ListOK(<<UNKNOWN, CONN_TERMINATED>>)
BY DEF ListOK, Listed, TERMINAL, BLOCKED, ALLOW, CONN_TERMINATED, COMPLETED, FAILED,
       UNKNOWN, CANCELLED

\* Writing the first record of an allowed list leaves an allowed list.
LEMMA ListTail ==
  ASSUME NEW list, ListOK(list)
  PROVE  /\ Head(list) \in Listed
         /\ Tail(list) # <<>> => ListOK(Tail(list))
         /\ Head(list) \in TERMINAL => Tail(list) # <<>>
<1>1. list \in Seq(Listed) /\ list # <<>> /\ Len(list) \in Nat /\ Len(list) # 0
  BY DEF ListOK
<1>2. Head(list) = list[1] /\ Head(list) \in Listed
  BY <1>1
<1>3. /\ Tail(list) \in Seq(Listed) /\ Len(Tail(list)) = Len(list) - 1
      /\ \A i \in 1..(Len(list) - 1) : Tail(list)[i] = list[i + 1]
  BY <1>1
<1>4. Tail(list) # <<>> => Len(list) > 1
  BY <1>1, <1>3
<1>5. Tail(list) # <<>> => Tail(list)[Len(Tail(list))] = list[Len(list)]
  BY <1>1, <1>3, <1>4
<1>6. Tail(list) = <<>> => list[Len(list)] = Head(list)
  BY <1>1, <1>2, <1>3
<1> QED
  BY <1>2, <1>3, <1>5, <1>6 DEF ListOK

\* A handler that leaves its position, with or without a list to write.
LEMMA TodoMove ==
  ASSUME TodoInv, NEW h \in Attempts, pc[h] # "writing",
         \/ /\ todo' = todo /\ pc' = pc
         \/ /\ todo' = todo
            /\ \E to \in Positions \ {"writing"} : pc' = [pc EXCEPT ![h] = to]
         \/ /\ pc' = [pc EXCEPT ![h] = "writing"]
            /\ \E list : ListOK(list) /\ todo' = [todo EXCEPT ![h] = list]
  PROVE  TodoInv'
<1>1. CASE todo' = todo /\ pc' = pc
  BY <1>1 DEF TodoInv
<1>2. ASSUME todo' = todo, NEW to \in Positions \ {"writing"}, pc' = [pc EXCEPT ![h] = to]
      PROVE  TodoInv'
  BY <1>2 DEF TodoInv
<1>3. ASSUME pc' = [pc EXCEPT ![h] = "writing"],
             NEW list, ListOK(list), todo' = [todo EXCEPT ![h] = list]
      PROVE  TodoInv'
  BY <1>3 DEF TodoInv, Positions
<1> QED
  BY <1>1, <1>2, <1>3

\* No handler has closing records left when the process starts.
LEMMA TodoInit == Init => TodoInv
  BY DEF Init, TodoInv, Positions

\* A handler only ever has an allowed list of closing records left to write.
LEMMA TodoStep == TodoInv /\ [Next]_vars => TodoInv'
<1> SUFFICES ASSUME TodoInv, [Next]_vars PROVE TodoInv'
  OBVIOUS
<1>1. ASSUME NEW h \in Attempts, Accept(h) \/ ReadRequest(h) \/ Refuse(h) \/ BeginProducer(h)
      PROVE  TodoInv'
  BY <1>1, TodoMove DEF Accept, ReadRequest, Refuse, BeginProducer, Running, Goto, Positions
<1>2. ASSUME NEW h \in Attempts,
             Add(h) \/ Decide(h) \/ WrapClient(h) \/ OwnClient(h) \/ DecideInside(h)
      PROVE  TodoInv'
  BY <1>2, TodoMove, ListsOK DEF Add, Decide, WrapClient, OwnClient, DecideInside, Running,
         Goto, Writing, Positions
<1>3. ASSUME NEW h \in Attempts, WriteAuth(h) \/ WritePermit(h) \/ WriteAttempted(h)
                                   \/ SettleInterrupted(h) \/ DenyInterrupted(h)
      PROVE  TodoInv'
  BY <1>3, TodoMove, ListsOK DEF WriteAuth, WritePermit, WriteAttempted, SettleInterrupted,
                                 DenyInterrupted, WriteOr, Running,
         Goto, Writing, Positions, TERMINAL
<1>4. ASSUME NEW h \in Attempts, AllocateAuth(h) \/ Abandon(h) \/ ReleasePermit(h)
      PROVE  TodoInv'
  BY <1>4, TodoMove, ListsOK DEF AllocateAuth, Abandon, ReleasePermit, Running, Goto,
         Writing, Positions
<1>5. ASSUME NEW h \in Attempts, OpenUpstream(h) \/ AcquirePermit(h) \/ CheckTerminal(h)
      PROVE  TodoInv'
  BY <1>5, TodoMove, ListsOK DEF OpenUpstream, AcquirePermit, CheckTerminal, Running, Goto,
         Writing, Positions, TERMINAL
<1>6. ASSUME NEW h \in Attempts, Connect(h) \/ OwnUpstream(h) \/ SendRequest(h) \/ Stream(h)
      PROVE  TodoInv'
  BY <1>6, TodoMove, ListsOK DEF Connect, OwnUpstream, SendRequest, Stream, Running, Goto,
         Writing, Positions, TERMINAL
<1>7. ASSUME NEW h \in Attempts, WriteNext(h) PROVE TodoInv'
  <2> DEFINE rest == Tail(todo[h])
  <2>1. /\ ListOK(todo[h]) /\ pc[h] = "writing"
        /\ rest # <<>> => ListOK(rest)
        /\ Head(todo[h]) \in TERMINAL => rest # <<>>
    BY <1>7, ListTail DEF WriteNext, Running, TodoInv
  <2>2. \/ /\ todo' = [todo EXCEPT ![h] = rest] /\ rest # <<>> /\ pc' = pc
        \/ /\ todo' = [todo EXCEPT ![h] = <<>>]
           /\ \E to \in {"releasing", "internal", "closing"} : pc' = [pc EXCEPT ![h] = to]
    <3> HIDE DEF rest
    <3> QED BY <1>7, <2>1 DEF WriteNext, Leave, Goto, rest
  <2> QED
    BY <2>1, <2>2 DEF TodoInv, Positions
<1>8. ASSUME NEW h \in Attempts, WriteRelease(h) \/ WriteInternal(h) PROVE TodoInv'
  BY <1>8, TodoMove DEF WriteRelease, WriteInternal, WriteOr, Running, Goto, Positions
<1>9. ASSUME NEW h \in Attempts, CloseAll(h) \/ Remove(h) \/ EndProducer(h) PROVE TodoInv'
  BY <1>9, TodoMove DEF CloseAll, Remove, EndProducer, Running, Goto, Positions
<1>10. CASE BootDegraded \/ Boot \/ NoticeKillFile \/ ListenerEnds \/ Watcher
  <2>1. UNCHANGED <<pc, todo>>
    BY <1>10, WatcherLeavesHandlers DEF handlerVars
  <2> QED
    BY <2>1 DEF TodoInv
<1>11. CASE UNCHANGED vars
  BY <1>11 DEF vars, handlerVars, TodoInv
<1> QED
  BY <1>1, <1>2, <1>3, <1>4, <1>5, <1>6, <1>7, <1>8, <1>9, <1>10, <1>11 DEF Next, Handler

-----------------------------------------------------------------------------
(* Quiescence.  What the watcher sampled stays true: after the             *)
(* cancellation permits only drain, after the kill producers only end, and *)
(* a closed listener stays closed.                                         *)
BeforeCancel == {"boot", "bind", "watching", "cancelling"}
BeforeKill == BeforeCancel \cup {"killing"}

\* Handlers leave the watcher's and the listener's state alone.
LEMMA HandlerLeavesWatcher ==
  ASSUME NEW h \in Attempts, Accept(h) \/ ReadRequest(h) \/ Refuse(h) \/ Handler(h)
  PROVE  UNCHANGED <<watcherVars, killed>> /\ wpc # "exited"
<1> USE DEF Running, registryVars
<1>1. CASE Accept(h) \/ ReadRequest(h) \/ Refuse(h) \/ BeginProducer(h) \/ Add(h)
  BY <1>1 DEF Accept, ReadRequest, Refuse, BeginProducer, Add
<1>2. CASE Decide(h) \/ WrapClient(h) \/ OwnClient(h) \/ DecideInside(h) \/ OpenUpstream(h)
  BY <1>2 DEF Decide, WrapClient, OwnClient, DecideInside, OpenUpstream
<1>3. CASE WriteAuth(h) \/ WritePermit(h) \/ WriteAttempted(h) \/ SettleInterrupted(h)
             \/ DenyInterrupted(h) \/ WriteRelease(h)
  BY <1>3 DEF WriteAuth, WritePermit, WriteAttempted, SettleInterrupted, DenyInterrupted,
              WriteRelease, WriteOr
<1>4. CASE CheckTerminal(h) \/ Connect(h) \/ OwnUpstream(h) \/ SendRequest(h) \/ Stream(h)
  BY <1>4 DEF CheckTerminal, Connect, OwnUpstream, SendRequest, Stream
<1>5. CASE WriteNext(h) \/ WriteInternal(h) \/ CloseAll(h) \/ Remove(h) \/ EndProducer(h)
  BY <1>5 DEF WriteNext, WriteInternal, CloseAll, Remove, EndProducer
<1>6. CASE AllocateAuth(h) \/ AcquirePermit(h) \/ Abandon(h) \/ ReleasePermit(h)
  BY <1>6 DEF AllocateAuth, AcquirePermit, Abandon, ReleasePermit
<1> QED
  BY <1>1, <1>2, <1>3, <1>4, <1>5, <1>6 DEF Handler

\* Handlers neither seal the log nor write a record that closes the history.
LEMMA HandlerKeepsVerdict ==
  ASSUME TodoInv, NEW h \in Attempts, Accept(h) \/ ReadRequest(h) \/ Refuse(h) \/ Handler(h)
  PROVE  sealed' = sealed /\ VerdictKept(BLOCKED)
<1> DEFINE Kept == sealed' = sealed /\ VerdictKept(BLOCKED)
<1>1. ASSUME NEW d \in Listed \cup {AUTH, PERMIT, ATTEMPTED, PERMIT_RELEASED},
             Appends(Record(h, d)) \/ Raises(Record(h, d))
      PROVE  Kept
  <2>1. Record(h, d).decision = d /\ d # RUN_CLOSED /\ d # STARTUP_FAILED
    BY DEF Record, Listed, TERMINAL, AUTH, PERMIT, ATTEMPTED, PERMIT_RELEASED, BLOCKED,
           ALLOW, CONN_TERMINATED, COMPLETED, FAILED, UNKNOWN, CANCELLED, RUN_CLOSED,
           STARTUP_FAILED
  <2>2. sealed' = sealed
    BY <1>1 DEF Appends, Raises, sinkVars
  <2> QED
    BY <1>1, <2>1, <2>2, WriteKeepsRun DEF VerdictKept
<1>2. CASE sinkVars' = sinkVars
  BY <1>2 DEF sinkVars, VerdictKept
<1>3. CASE Accept(h) \/ ReadRequest(h) \/ BeginProducer(h) \/ Add(h) \/ Decide(h)
  BY <1>2, <1>3 DEF Accept, ReadRequest, BeginProducer, Add, Decide
<1>4. CASE WrapClient(h) \/ OwnClient(h) \/ DecideInside(h) \/ OpenUpstream(h)
  BY <1>2, <1>4 DEF WrapClient, OwnClient, DecideInside, OpenUpstream
<1>5. CASE AllocateAuth(h) \/ AcquirePermit(h) \/ Abandon(h) \/ ReleasePermit(h)
  BY <1>2, <1>5 DEF AllocateAuth, AcquirePermit, Abandon, ReleasePermit
<1>6. CASE CheckTerminal(h) \/ Connect(h) \/ OwnUpstream(h) \/ SendRequest(h) \/ Stream(h)
  BY <1>2, <1>6 DEF CheckTerminal, Connect, OwnUpstream, SendRequest, Stream
<1>7. CASE CloseAll(h) \/ Remove(h) \/ EndProducer(h)
  BY <1>2, <1>7 DEF CloseAll, Remove, EndProducer
<1>8. CASE WriteAuth(h) \/ WritePermit(h) \/ WriteAttempted(h) \/ SettleInterrupted(h)
             \/ DenyInterrupted(h) \/ WriteRelease(h)
  <2>1. UNKNOWN \in Listed /\ BLOCKED \in Listed
    BY DEF Listed, TERMINAL
  <2> QED
    BY <1>1, <1>8, <2>1 DEF WriteAuth, WritePermit, WriteAttempted, SettleInterrupted, DenyInterrupted,
                    WriteRelease, WriteOr
<1>9. CASE WriteInternal(h) \/ Refuse(h)
  <2>1. BLOCKED \in Listed
    BY DEF Listed
  <2> QED
    BY <1>1, <1>9, <2>1 DEF WriteInternal, Refuse
<1>10. CASE WriteNext(h)
  <2>1. Head(todo[h]) \in Listed
    BY <1>10, ListTail DEF WriteNext, Running, TodoInv
  <2> QED
    BY <1>1, <1>10, <2>1 DEF WriteNext
<1> QED
  BY <1>3, <1>4, <1>5, <1>6, <1>7, <1>8, <1>9, <1>10 DEF Handler

\* An empty set of producers has no handler that could end.
LEMMA NoProducers == ASSUME AdmissionInv, producers = 0 PROVE Producing = {}
  BY FS_EmptySet DEF AdmissionInv

\* Once the registry is killed and the producers are gone, none comes back.
LEMMA ProducersStayGone ==
  ASSUME AdmissionInv, NEW h \in Attempts,
         Accept(h) \/ ReadRequest(h) \/ Refuse(h) \/ Handler(h), killed, producers = 0
  PROVE  producers' = 0
<1>1. Producing = {}
  BY NoProducers
<1>2. CASE HoldsPlace(h)
  BY <1>2, PlaceKept
<1>3. CASE Accept(h) \/ ReadRequest(h) \/ Refuse(h) \/ BeginProducer(h) \/ Remove(h)
  BY <1>3 DEF Accept, ReadRequest, Refuse, BeginProducer, Remove, registryVars
<1>4. CASE EndProducer(h)
  BY <1>1, <1>4 DEF EndProducer, Running, Producing, Outside
<1> QED
  BY <1>2, <1>3, <1>4 DEF Handler, HoldsPlace

\* Once cancelled, the run stays cancelled and its in-flight set only shrinks.
LEMMA CancelledStays ==
  ASSUME RunInv, [RunNext]_runVars, cancelled
  PROVE  cancelled' /\ inflight' \subseteq inflight
  BY DEF RunInv, CancelledAgrees, C, RunNext, runVars, Authorize, MayAuthorize,
         IssuePermit, MayIssuePermit, Release, Cancel

\* The watcher has taken its sample of the listener, the permits, the producers.
AfterProducers == {"kill_switch", "timing_out", "acking", "sealing"}
AfterPermits == {"counting"} \cup AfterProducers
AfterListener == {"quiescing", "sampling"} \cup AfterPermits

Quiet == /\ wpc \in {"done", "exited"} /\ cancelled /\ killed
         /\ inflight = {} /\ producers = 0 /\ listener = "closed"

\* The order of the kill: cancelled, then killed.
KillInv ==
  /\ wpc \in BeforeCancel \cup {"exited"} \/ cancelled
  /\ wpc \in BeforeKill \cup {"exited"} \/ killed

\* What was found at rest is still at rest.
SampleInv ==
  /\ sample \in [permits : Nat, producers : Nat, stopped : BOOLEAN, started : BOOLEAN]
  /\ wpc \in AfterListener /\ sample.stopped => listener = "closed"
  /\ wpc \in AfterPermits /\ sample.permits = 0 => inflight = {}
  /\ wpc \in AfterProducers /\ sample.producers = 0 => producers = 0
  /\ wpc \in {"acking", "sealing"} => quiescent

\* Only a gateway at rest has a closed history.
SealInv ==
  /\ sealed \/ vrun = "CLOSED" => Quiet
  /\ vrun \in RunStates /\ vstatus # "LOCAL_HISTORY_VALID"

QuietInv == KillInv /\ SampleInv /\ SealInv

\* Nothing has been sampled or sealed when the process starts.
LEMMA QuietInit == Init => QuietInv
<1> SUFFICES ASSUME Init PROVE QuietInv
  OBVIOUS
<1>1. KillInv
  BY DEF Init, KillInv, BeforeCancel, BeforeKill
<1>2. SampleInv
  BY DEF Init, SampleInv, NoSample, AfterListener, AfterPermits, AfterProducers
<1>3. SealInv
  BY DEF Init, SinkInit, VerifyInit, SealInv, RunStates, NoFault
<1> QED
  BY <1>1, <1>2, <1>3 DEF QuietInv

\* No handler step after the samples of the watcher disturbs what they said.
LEMMA QuietHandlerStep ==
  ASSUME RunInv, AdmissionInv, TodoInv, QuietInv, [RunNext]_runVars, NEW h \in Attempts,
         Accept(h) \/ ReadRequest(h) \/ Refuse(h) \/ Handler(h)
  PROVE  QuietInv'
<1>1. UNCHANGED <<listener, wpc, sample, killed>> /\ wpc # "exited"
  BY HandlerLeavesWatcher DEF watcherVars
<1>2. cancelled => cancelled' /\ inflight' \subseteq inflight
  BY CancelledStays
<1>3. killed /\ producers = 0 => producers' = 0
  BY ProducersStayGone
<1>4. KillInv'
  BY <1>1, <1>2 DEF QuietInv, KillInv
<1>5. SampleInv'
  <2>1. /\ wpc \in AfterPermits => cancelled /\ killed
        /\ wpc \in AfterProducers => killed
    BY <1>1 DEF QuietInv, KillInv, BeforeCancel, BeforeKill, AfterPermits, AfterProducers
  <2>2. quiescent' = quiescent
    BY <1>1 DEF quiescent, blockers, listener_down
  <2> QED
    BY <1>1, <1>2, <1>3, <2>1, <2>2 DEF QuietInv, SampleInv
<1>6. SealInv'
  <2>1. sealed' = sealed /\ VerdictKept(BLOCKED)
    BY HandlerKeepsVerdict
  <2>2. Quiet => Quiet'
    BY <1>1, <1>2, <1>3 DEF Quiet
  <2> QED
    BY <2>1, <2>2 DEF QuietInv, SealInv, VerdictKept, BLOCKED, RUN_CLOSED, STARTUP_FAILED
<1> QED
  BY <1>4, <1>5, <1>6 DEF QuietInv

\* A write of the watcher other than the seal leaves a closed history closed.
LEMMA SealKept ==
  ASSUME SealInv, NEW r, Appends(r) \/ Raises(r),
         r.decision # RUN_CLOSED, r.decision # STARTUP_FAILED, Quiet => Quiet'
  PROVE  SealInv'
<1>1. sealed' = sealed
  BY DEF Appends, Raises, sinkVars
<1> QED
  BY <1>1, WriteKeepsRun DEF SealInv, VerdictKept

\* A step that leaves the log alone and stays quiet keeps what the seal says.
LEMMA SealUnmoved ==
  ASSUME SealInv, UNCHANGED sinkVars, Quiet => Quiet'
  PROVE  SealInv'
  BY DEF SealInv, sinkVars

\* Booting and noticing the kill file sample nothing.
LEMMA QuietStartStep ==
  ASSUME QuietInv, BootDegraded \/ Boot \/ NoticeKillFile
  PROVE  QuietInv'
<1>1. /\ UNCHANGED <<runVars, killed, producers, sample>>
      /\ wpc \in BeforeCancel /\ wpc' \in BeforeCancel \cup {"exited"}
  BY DEF BootDegraded, Boot, NoticeKillFile, WatcherOnly, WatcherAt, registryVars, BeforeCancel
<1>2. UNCHANGED <<inflight, cancelled>>
  BY <1>1 DEF runVars
<1>3. KillInv' /\ SampleInv' /\ ~Quiet
  BY <1>1, <1>2 DEF QuietInv, KillInv, SampleInv, BeforeCancel, BeforeKill, AfterListener,
                    AfterPermits, AfterProducers, Quiet
<1>4. SealInv'
  <2>1. CASE BootDegraded
    BY <1>3, <2>1, SealKept
    DEF BootDegraded, QuietInv, STARTUP_DEGRADED, STARTUP_FAILED, RUN_CLOSED
  <2>2. CASE Boot
    <3> DEFINE r == [decision |-> STARTUP, max_connections |-> MaxConnections]
    <3>1. Appends(r) \/ Raises(r)
      BY <2>2 DEF Boot
    <3>2. r.decision # RUN_CLOSED /\ r.decision # STARTUP_FAILED
      BY DEF STARTUP, STARTUP_FAILED, RUN_CLOSED
    <3> HIDE DEF r
    <3> QED
      BY <1>3, <3>1, <3>2, SealKept DEF QuietInv
  <2>3. CASE NoticeKillFile
    BY <1>3, <2>3, SealUnmoved DEF NoticeKillFile, QuietInv
  <2> QED
    BY <2>1, <2>2, <2>3
<1> QED
  BY <1>3, <1>4 DEF QuietInv

\* Cancelling, sweeping the registry and stopping the listener sample nothing.
LEMMA QuietKillStep ==
  ASSUME QuietInv,
         CancelRun \/ KillRegistry \/ MarkVictim \/ ShutVictim \/ StopListener \/ ListenerEnds
  PROVE  QuietInv'
<1> USE DEF WatcherAt, registryVars
<1>1. /\ UNCHANGED <<sinkVars, producers>>
      /\ StopListener \/ UNCHANGED sample
      /\ wpc \in AfterListener => wpc' = wpc
  BY DEF CancelRun, KillRegistry, MarkVictim, ShutVictim, StopListener, ListenerEnds,
         WatcherOnly, AfterListener, AfterPermits, AfterProducers
<1>2. inflight' = inflight /\ (cancelled => cancelled')
  BY WatcherOutsideLock DEF CancelRun, Cancel, runVars
<1>3. /\ killed => killed'
      /\ listener = "closed" => listener' = "closed"
  BY DEF CancelRun, KillRegistry, MarkVictim, ShutVictim, StopListener, ListenerEnds,
         WatcherOnly
<1>4. /\ wpc' \in AfterListener => wpc' = wpc
      /\ wpc \in {"done", "exited"} => wpc' = wpc
  BY DEF CancelRun, KillRegistry, MarkVictim, ShutVictim, StopListener, ListenerEnds,
         AfterListener, AfterPermits, AfterProducers
<1>5. KillInv'
  <2>1. CASE CancelRun
    BY <2>1 DEF CancelRun, Cancel, KillInv, QuietInv, BeforeKill
  <2>2. CASE KillRegistry
    BY <1>2, <2>2 DEF KillRegistry, KillInv, QuietInv, BeforeCancel
  <2>3. CASE MarkVictim \/ ShutVictim \/ StopListener \/ ListenerEnds
    <3>1. wpc' = wpc \/ wpc \in {"marking", "shutting", "stopping"}
      BY <2>3 DEF MarkVictim, ShutVictim, StopListener, ListenerEnds
    <3> QED
      BY <1>2, <1>3, <3>1 DEF KillInv, QuietInv, BeforeCancel, BeforeKill
  <2> QED
    BY <2>1, <2>2, <2>3
<1>6. SampleInv'
  <2>1. CASE StopListener
    <3>1. sample' \in [permits : Nat, producers : Nat, stopped : BOOLEAN, started : BOOLEAN]
      BY <2>1 DEF StopListener, QuietInv, SampleInv
    <3>2. wpc' = "requesting"
      BY <2>1 DEF StopListener
    <3> QED
      BY <3>1, <3>2 DEF SampleInv, AfterListener, AfterPermits, AfterProducers
  <2>2. CASE UNCHANGED sample
    <3>1. quiescent' = quiescent
      BY <2>2 DEF quiescent, blockers, listener_down
    <3> QED
      BY <1>1, <1>2, <1>3, <1>4, <2>2, <3>1
      DEF QuietInv, SampleInv, AfterListener, AfterPermits, AfterProducers
  <2> QED
    BY <1>1, <2>1, <2>2
<1>7. SealInv'
  BY <1>1, <1>2, <1>3, <1>4, SealUnmoved DEF QuietInv, Quiet
<1> QED
  BY <1>5, <1>6, <1>7 DEF QuietInv

\* The records the watcher writes before the seal keep what it has sampled.
LEMMA QuietRecordStep ==
  ASSUME QuietInv,
         RecordRequested \/ RecordLinearized \/ RecordKillSwitch \/ RecordDrainTimeout \/ RecordAck
  PROVE  QuietInv'
<1> USE DEF WatcherWrite
<1>1. /\ UNCHANGED <<runVars, killed, producers, sample, listener>>
      /\ wpc \in {"requesting", "linearizing", "kill_switch", "timing_out", "acking"}
      /\ wpc' \in {"linearizing", "draining", "timing_out", "acking", "sealing", "done"}
      /\ wpc' \in AfterListener => wpc \in AfterProducers
      /\ wpc' \in {"acking", "sealing"} => wpc = "acking" \/ quiescent
  BY DEF RecordRequested, RecordLinearized, RecordKillSwitch, RecordDrainTimeout, RecordAck,
         WatcherOnly, registryVars, AfterListener, AfterPermits, AfterProducers
<1>2. UNCHANGED <<inflight, cancelled>>
  BY <1>1 DEF runVars
<1>3. KillInv'
  BY <1>1, <1>2 DEF QuietInv, KillInv, BeforeCancel, BeforeKill
<1>4. SampleInv'
  <2>1. quiescent' = quiescent
    BY <1>1 DEF quiescent, blockers, listener_down
  <2> QED
    BY <1>1, <1>2, <2>1
    DEF QuietInv, SampleInv, AfterListener, AfterPermits, AfterProducers
<1>5. SealInv'
  <2>1. ~Quiet
    BY <1>1 DEF Quiet
  <2>2. PICK r : /\ Appends(r) \/ Raises(r)
                 /\ r.decision \in {CANCEL_REQUESTED, CANCEL_LINEARIZED, KILL_SWITCH,
                                    CANCEL_DRAIN_TIMEOUT, CANCEL_ACK}
    <3>1. CASE RecordRequested
      BY <3>1 DEF RecordRequested
    <3>2. CASE RecordLinearized
      BY <3>2 DEF RecordLinearized
    <3>3. ASSUME NEW d PROVE DrainRecord(d).decision = d
      BY DEF DrainRecord
    <3>4. CASE RecordKillSwitch \/ RecordDrainTimeout \/ RecordAck
      BY <3>3, <3>4 DEF RecordKillSwitch, RecordDrainTimeout, RecordAck
    <3> QED
      BY <3>1, <3>2, <3>4
  <2>3. r.decision # RUN_CLOSED /\ r.decision # STARTUP_FAILED
    BY <2>2 DEF CANCEL_REQUESTED, CANCEL_LINEARIZED, KILL_SWITCH, CANCEL_DRAIN_TIMEOUT,
                CANCEL_ACK, RUN_CLOSED, STARTUP_FAILED
  <2> QED
    BY <2>1, <2>2, <2>3, SealKept DEF QuietInv
<1> QED
  BY <1>3, <1>4, <1>5 DEF QuietInv

\* The samples of the watcher hold of the lock and of the handlers when they are taken.
LEMMA QuietSampleStep ==
  ASSUME RunInv, AdmissionInv, QuietInv,
         AwaitDrain \/ AwaitListener \/ AwaitProducers \/ SamplePermits \/ SampleProducers
  PROVE  QuietInv'
<1> USE DEF WatcherAt
<1>1. /\ UNCHANGED <<runVars, sinkVars, killed, producers, listener>>
      /\ wpc \in {"draining", "listening", "quiescing", "sampling", "counting"}
      /\ wpc' \in {"listening", "quiescing", "sampling", "counting", "kill_switch", "done"}
  BY DEF AwaitDrain, AwaitListener, AwaitProducers, SamplePermits, SampleProducers,
         WatcherOnly, registryVars
<1>2. UNCHANGED <<inflight, cancelled>>
  BY <1>1 DEF runVars
<1>3. KillInv'
  BY <1>1, <1>2 DEF QuietInv, KillInv, BeforeCancel, BeforeKill
<1>4. SealInv'
  BY <1>1, SealUnmoved DEF QuietInv, Quiet
<1>5. /\ Cardinality(inflight) \in Nat
      /\ Cardinality(inflight) = 0 => inflight = {}
      /\ producers \in Nat
  BY FS_CardinalityType, FS_EmptySet DEF RunInv, RunTypeOK, AdmissionInv
<1>6. SampleInv'
  <2> USE DEF QuietInv, SampleInv, AfterListener, AfterPermits, AfterProducers
  <2>1. CASE AwaitDrain \/ AwaitProducers
    BY <1>1, <1>2, <2>1 DEF AwaitDrain, AwaitProducers
  <2>2. CASE AwaitListener
    <3>1. /\ wpc' = "quiescing"
          /\ sample' = [sample EXCEPT !.stopped = (listener = "closed")]
      BY <2>2 DEF AwaitListener
    <3>2. sample' \in [permits : Nat, producers : Nat, stopped : BOOLEAN, started : BOOLEAN]
      BY <3>1
    <3>3. sample'.stopped => listener = "closed"
      BY <3>1
    <3> QED
      BY <1>1, <3>1, <3>2, <3>3
  <2>3. CASE SamplePermits
    BY <1>1, <1>2, <1>5, <2>3 DEF SamplePermits
  <2>4. CASE SampleProducers
    BY <1>1, <1>2, <1>5, <2>4 DEF SampleProducers
  <2> QED
    BY <2>1, <2>2, <2>3, <2>4
<1> QED
  BY <1>3, <1>4, <1>6 DEF QuietInv

\* The seal is written only after clean samples, and nothing is written after it.
LEMMA QuietSealStep ==
  ASSUME QuietInv, SealRun \/ Exit
  PROVE  QuietInv'
<1>1. /\ UNCHANGED <<runVars, killed, producers, sample, listener>>
      /\ wpc \in {"sealing", "done"} /\ wpc' \in {"done", "exited"}
  BY DEF SealRun, Exit, WatcherOnly, WatcherAt, registryVars
<1>2. UNCHANGED <<inflight, cancelled>>
  BY <1>1 DEF runVars
<1>3. KillInv' /\ SampleInv'
  BY <1>1, <1>2 DEF QuietInv, KillInv, SampleInv, BeforeCancel, BeforeKill, AfterListener,
                    AfterPermits, AfterProducers
<1>4. SealInv'
  <2>1. CASE Exit
    BY <1>1, <1>2, <2>1, SealUnmoved DEF Exit, QuietInv, Quiet
  <2>2. CASE SealRun
    <3>1. wpc = "sealing" /\ quiescent
      BY <2>2 DEF SealRun, WatcherAt, QuietInv, SampleInv
    <3>2. sample.permits = 0 /\ sample.producers = 0 /\ sample.stopped
      BY <3>1 DEF quiescent, blockers, listener_down
    <3>3. Quiet'
      BY <1>1, <1>2, <2>2, <3>1, <3>2
      DEF QuietInv, KillInv, SampleInv, Quiet, AfterListener, AfterPermits, AfterProducers,
          BeforeCancel, BeforeKill, SealRun, WatcherAt
    <3>4. PICK r : (Seals(r) \/ Raises(r)) /\ r.decision = RUN_CLOSED
      BY <2>2 DEF SealRun
    <3>5. VerdictKept(RUN_CLOSED)
      BY <3>4, WriteKeepsRun
    <3>6. RUN_CLOSED # STARTUP_FAILED
      BY DEF RUN_CLOSED, STARTUP_FAILED
    <3> QED
      BY <3>3, <3>5, <3>6 DEF QuietInv, SealInv, VerdictKept
  <2> QED
    BY <2>1, <2>2
<1> QED
  BY <1>3, <1>4 DEF QuietInv

GatewayInv == RunInv /\ AdmissionInv /\ TodoInv /\ QuietInv

\* The inductive invariant of the gateway but for enforcement and numbering.
LEMMA GatewayInvariant == Spec => []GatewayInv
<1>1. Init => GatewayInv
  BY RunInitInv, AdmissionInit, TodoInit, QuietInit DEF Init, GatewayInv
<1>2. GatewayInv /\ [Next]_vars => GatewayInv'
  <2> SUFFICES ASSUME GatewayInv, [Next]_vars PROVE GatewayInv'
    OBVIOUS
  <2>1. [RunNext]_runVars
    BY StepsOfTheLock DEF GatewayInv
  <2>2. RunInv' /\ AdmissionInv' /\ TodoInv'
    BY <2>1, RunStepInv, AdmissionStep, TodoStep DEF GatewayInv
  <2>3. CASE UNCHANGED vars
    <3>1. UNCHANGED <<listener, wpc, sample, killed, producers, sinkVars, inflight, cancelled>>
      BY <2>3 DEF vars, watcherVars, registryVars, runVars
    <3>2. Quiet => Quiet'
      BY <3>1 DEF Quiet
    <3>3. SealInv'
      BY <3>1, <3>2, SealUnmoved DEF GatewayInv, QuietInv
    <3>4. KillInv' /\ SampleInv'
      BY <3>1 DEF GatewayInv, QuietInv, KillInv, SampleInv, quiescent, blockers, listener_down
    <3> QED
      BY <2>2, <3>3, <3>4 DEF GatewayInv, QuietInv
  <2>4. CASE Next
    <3>1. QuietInv'
      BY <2>1, <2>4, QuietHandlerStep, QuietStartStep, QuietKillStep, QuietRecordStep,
         QuietSampleStep, QuietSealStep DEF GatewayInv, Next, Watcher
    <3> QED
      BY <2>2, <3>1 DEF GatewayInv
  <2> QED
    BY <2>3, <2>4
<1> QED
  BY <1>1, <1>2, PTL DEF Spec

(* A history the verifier accepts is that of a gateway at rest, with any   *)
(* number of handlers, and whatever waits timed out and whatever records   *)
(* failed on their way to disk.                                            *)
THEOREM ValidIsQuiet == Spec => []ValidMeansQuiet
<1>1. GatewayInv => ValidMeansQuiet
  <2> SUFFICES ASSUME GatewayInv, Valid
               PROVE  inflight = {} /\ producers = 0 /\ Effecting = {} /\ listener = "closed"
    BY DEF ValidMeansQuiet
  <2>1. vrun = "CLOSED"
    BY ValidIsComplete DEF GatewayInv, QuietInv, SealInv, RunStates
  <2>2. Quiet
    BY <2>1 DEF GatewayInv, QuietInv, SealInv
  <2>3. Producing = {}
    BY <2>2, NoProducers DEF GatewayInv, Quiet
  <2>4. Effecting = {}
    BY <2>3 DEF Producing, Effecting, Outside
  <2> QED
    BY <2>2, <2>4 DEF Quiet
<1> QED
  BY <1>1, GatewayInvariant, PTL

-----------------------------------------------------------------------------
(* Enforcement.  Until its upstream socket is wrapped a handler works with *)
(* a handle its connection owns, and every handler in the flow is          *)
(* registered, so terminate_all() marks it and shuts that handle down.     *)
Flow == {"deciding", "wrapping", "client_tls", "inside", "authorizing", "auth", "opening",
         "permitting", "permit", "checking", "attempt", "connecting", "upstream_tls", "sending"}
BeforeConnect == {"permitting", "permit", "checking", "attempt", "connecting"}

\* The upstream handle a handler is about to use is one the connection owns.
Owns(h) ==
  /\ pc[h] \in BeforeConnect => "plain" \in sockets[h]
  /\ pc[h] = "sending" => "up" \in sockets[h]
  /\ pc[h] \in Outside => "plain" \notin usable[h] /\ "up" \notin usable[h]

\* That handle has been shut down.
Shut(h) ==
  /\ pc[h] \in BeforeConnect => "plain" \notin usable[h]
  /\ pc[h] = "sending" => "up" \notin usable[h]

HandlesInv ==
  /\ pc \in [Attempts -> Positions]
  /\ terminal \in [Attempts -> BOOLEAN]
  /\ sockets \in [Attempts -> SUBSET Handles]
  /\ usable \in [Attempts -> SUBSET Handles]
  /\ retained \in [Attempts -> SUBSET Handles]

\* What a step of handler h may do to its own connection and to the others.
OwnConnection(h) ==
  /\ HandlesInv'
  /\ \A g \in Attempts \ {h} : /\ pc'[g] = pc[g] /\ terminal'[g] = terminal[g]
                               /\ sockets'[g] = sockets[g] /\ usable'[g] = usable[g]
  /\ retained' = retained
  /\ terminal[h] => terminal'[h] /\ sockets'[h] = sockets[h]
  /\ terminal[h] /\ Shut(h) => Shut(h)'
  /\ Owns(h) => Owns(h)'
  /\ conns' \ {h} = conns \ {h}
  /\ pc'[h] \in Flow => \/ pc[h] \in Flow /\ conns' = conns
                        \/ ~killed /\ h \in conns'

\* A handler step moves at most the connection the handler owns.
LEMMA HandlerConnection ==
  ASSUME HandlesInv, NEW h \in Attempts,
         Accept(h) \/ ReadRequest(h) \/ Refuse(h) \/ Handler(h)
  PROVE  OwnConnection(h)
<1> USE DEF HandlesInv, Positions, Running, Goto, Writing, OwnConnection, Owns, Shut, Flow,
            BeforeConnect, Outside, registryVars
<1>1. CASE ReadRequest(h) \/ Refuse(h)
  BY <1>1 DEF ReadRequest, Refuse, connVars
<1>2. CASE Add(h)
  BY <1>2 DEF Add, connVars
<1>3. CASE DecideInside(h) \/ AllocateAuth(h)
  BY <1>3 DEF DecideInside, AllocateAuth, connVars
<1>4. CASE WriteAuth(h) \/ WritePermit(h) \/ WriteAttempted(h) \/ SettleInterrupted(h)
             \/ DenyInterrupted(h)
  BY <1>4 DEF WriteAuth, WritePermit, WriteAttempted, SettleInterrupted, DenyInterrupted,
              WriteOr, connVars
<1>5. CASE AcquirePermit(h) \/ Abandon(h) \/ CheckTerminal(h)
  BY <1>5 DEF AcquirePermit, Abandon, CheckTerminal, connVars
<1>6. CASE SendRequest(h) \/ Stream(h)
  BY <1>6 DEF SendRequest, Stream, connVars
<1>7. CASE WriteNext(h)
  BY <1>7 DEF WriteNext, Leave, connVars
<1>8. CASE WriteRelease(h)
  BY <1>8 DEF WriteRelease, WriteOr, connVars
<1>9. CASE ReleasePermit(h) \/ WriteInternal(h) \/ Remove(h)
  BY <1>9 DEF ReleasePermit, WriteInternal, Remove, connVars
<1>10. CASE Accept(h)
  BY <1>10 DEF Accept, Open, Handles
<1>11. CASE BeginProducer(h)
  BY <1>11 DEF BeginProducer, ShutdownClose, connVars
<1>12. CASE Decide(h)
  BY <1>12 DEF Decide, Track, ShutdownClose, Handles, connVars
<1>13. CASE WrapClient(h)
  BY <1>13 DEF WrapClient, Wrap, Handles, connVars
<1>14. CASE OwnClient(h)
  BY <1>14 DEF OwnClient, Transfer, ShutdownClose, Handles
<1>15. CASE OpenUpstream(h)
  BY <1>15 DEF OpenUpstream, OpenTracked, Handles, connVars
<1>16. CASE Connect(h)
  BY <1>16 DEF Connect, Wrap, Handles, connVars
<1>17. CASE OwnUpstream(h)
  BY <1>17 DEF OwnUpstream, Transfer, ShutdownClose, Handles
<1>18. CASE CloseAll(h)
  BY <1>18 DEF CloseAll, Terminate
<1>19. CASE EndProducer(h)
  BY <1>19 DEF EndProducer
<1> QED
  BY <1>1, <1>2, <1>3, <1>4, <1>5, <1>6, <1>7, <1>8, <1>9, <1>10, <1>11, <1>12, <1>13,
     <1>14, <1>15, <1>16, <1>17, <1>18, <1>19 DEF Handler

\* Where the kill has got to: who is marked, whose handles are shut down.
VictimsInv ==
  /\ wpc \in BeforeKill => ~killed
  /\ \A h \in Attempts : pc[h] \in Flow => h \in IF killed THEN victims ELSE conns
  /\ victims \subseteq Attempts /\ conns \subseteq Attempts /\ pending \subseteq Attempts
  /\ wpc = "marking" =>
       \A v \in victims \ pending : terminal[v] /\ retained[v] = sockets[v]
  /\ wpc = "shutting" =>
       \A v \in victims :
         /\ terminal[v]
         /\ v \in pending => retained[v] = sockets[v]
         /\ v \notin pending => Shut(v)
  /\ Enforced /\ wpc # "exited" => \A v \in victims : terminal[v] /\ Shut(v)

EnforceInv == HandlesInv /\ (\A h \in Attempts : Owns(h)) /\ VictimsInv

\* Nothing is registered when the process starts.
LEMMA EnforceInit == Init => EnforceInv
<1> SUFFICES ASSUME Init PROVE EnforceInv
  OBVIOUS
<1>1. HandlesInv /\ pc = [h \in Attempts |-> "none"] /\ usable = [h \in Attempts |-> {}]
  BY OneAttemptPerConnection DEF Init, ConnInit, HandlesInv, Positions
<1>2. \A h \in Attempts : Owns(h)
  BY <1>1 DEF Owns, BeforeConnect
<1>3. VictimsInv
  BY <1>1 DEF Init, VictimsInv, Flow, Enforced
<1> QED
  BY <1>1, <1>2, <1>3 DEF EnforceInv

\* Handlers register and close their connections without escaping the sweep.
LEMMA EnforceHandlerStep ==
  ASSUME EnforceInv, NEW h \in Attempts,
         Accept(h) \/ ReadRequest(h) \/ Refuse(h) \/ Handler(h)
  PROVE  EnforceInv'
<1>1. UNCHANGED <<wpc, killed, victims, pending>>
  BY HandlerLeavesWatcher DEF watcherVars
<1>2. OwnConnection(h)
  BY HandlerConnection DEF EnforceInv
<1>3. HandlesInv'
  BY <1>2 DEF OwnConnection
<1>4. \A g \in Attempts : /\ Owns(g)'
                          /\ terminal[g] => terminal'[g] /\ sockets'[g] = sockets[g]
                          /\ terminal[g] /\ Shut(g) => Shut(g)'
                          /\ retained'[g] = retained[g]
  BY <1>2 DEF EnforceInv, OwnConnection, Owns, Shut
<1>5. \A g \in Attempts : pc'[g] \in Flow => g \in IF killed' THEN victims' ELSE conns'
  BY <1>1, <1>2 DEF EnforceInv, VictimsInv, OwnConnection
<1>6. conns' \subseteq Attempts
  BY <1>2 DEF EnforceInv, VictimsInv, OwnConnection
<1>7. /\ Enforced' = Enforced
      /\ \A v \in victims : v \in Attempts
  BY <1>1 DEF Enforced, EnforceInv, VictimsInv
<1>8. VictimsInv'
  BY <1>1, <1>4, <1>5, <1>6, <1>7 DEF EnforceInv, VictimsInv
<1> QED
  BY <1>3, <1>4, <1>8 DEF EnforceInv

\* Steps of the watcher that do not concern the registry or the handles.
LEMMA EnforceUnmoved ==
  ASSUME EnforceInv, UNCHANGED <<connVars, pc, killed, conns, victims, pending>>,
         \/ wpc' = wpc
         \/ wpc' = "exited"
         \/ wpc \in BeforeKill /\ wpc' \in BeforeKill
         \/ Enforced /\ Enforced' /\ wpc # "exited"
  PROVE  EnforceInv'
<1>1. /\ HandlesInv'
      /\ \A h \in Attempts : Owns(h)' /\ (Shut(h) => Shut(h)')
      /\ \A v \in victims : v \in Attempts
  BY DEF EnforceInv, HandlesInv, VictimsInv, Owns, Shut, connVars
<1>2. VictimsInv'
  BY <1>1 DEF EnforceInv, VictimsInv, connVars, Enforced, BeforeKill, BeforeCancel
<1> QED
  BY <1>1, <1>2 DEF EnforceInv

\* The sweep marks and shuts every connection registered when it began.
LEMMA EnforceKillStep ==
  ASSUME EnforceInv, KillInv, KillRegistry \/ MarkVictim \/ ShutVictim
  PROVE  EnforceInv'
<1>1. CASE KillRegistry
  <2>1. /\ wpc = "killing" /\ wpc' = "marking" /\ killed' = TRUE /\ victims' = conns
        /\ pending' = conns /\ conns' = {} /\ UNCHANGED <<pc, terminal, sockets, usable, retained>>
    BY <1>1 DEF KillRegistry, WatcherAt, handlerVars, connVars
  <2>2. HandlesInv' /\ \A h \in Attempts : Owns(h)'
    BY <2>1 DEF EnforceInv, HandlesInv, Owns
  <2>3. VictimsInv'
    BY <2>1 DEF EnforceInv, VictimsInv, BeforeKill, BeforeCancel, Enforced
  <2> QED
    BY <2>2, <2>3 DEF EnforceInv
<1>2. CASE MarkVictim
  <2>1. wpc = "marking" /\ UNCHANGED <<pc, killed, conns, victims, sockets, usable>>
    BY <1>2 DEF MarkVictim, handlerVars, registryVars, BeginTermination, connVars
  <2>2. killed
    BY <2>1 DEF KillInv, BeforeKill, BeforeCancel
  <2>3. ASSUME NEW v \in pending, v \in Attempts,
               BeginTermination(v), pending' = pending \ {v}, wpc' = wpc
        PROVE  EnforceInv'
    <3>1. /\ HandlesInv' /\ \A h \in Attempts : Owns(h)'
          /\ terminal'[v] /\ retained'[v] = sockets[v]
          /\ \A g \in Attempts \ {v} : terminal'[g] = terminal[g] /\ retained'[g] = retained[g]
      BY <2>1, <2>3 DEF EnforceInv, HandlesInv, Owns, BeginTermination
    <3>2. VictimsInv'
      BY <2>1, <2>2, <2>3, <3>1 DEF EnforceInv, VictimsInv, Enforced, BeforeKill, BeforeCancel
    <3> QED
      BY <3>1, <3>2 DEF EnforceInv
  <2>4. CASE pending = {} /\ wpc' = "shutting" /\ pending' = victims /\ UNCHANGED connVars
    <3>1. HandlesInv' /\ \A h \in Attempts : Owns(h)'
      BY <2>1, <2>4 DEF EnforceInv, HandlesInv, Owns, connVars
    <3>2. VictimsInv'
      BY <2>1, <2>2, <2>4 DEF EnforceInv, VictimsInv, Enforced, BeforeKill, BeforeCancel, connVars
    <3> QED
      BY <3>1, <3>2 DEF EnforceInv
  <2> QED
    BY <1>2, <2>3, <2>4 DEF MarkVictim, EnforceInv, VictimsInv
<1>3. CASE ShutVictim
  <2>1. wpc = "shutting" /\ UNCHANGED <<pc, killed, conns, victims, sockets, terminal>>
    BY <1>3 DEF ShutVictim, handlerVars, registryVars, ShutdownRetained, connVars
  <2>2. killed
    BY <2>1 DEF KillInv, BeforeKill, BeforeCancel
  <2>3. ASSUME NEW v \in pending, v \in Attempts,
               ShutdownRetained(v), pending' = pending \ {v}, wpc' = wpc
        PROVE  EnforceInv'
    <3>1. /\ HandlesInv' /\ \A h \in Attempts : Owns(h)' /\ (Shut(h) => Shut(h)')
          /\ usable'[v] = usable[v] \ retained[v]
          /\ \A g \in Attempts \ {v} : usable'[g] = usable[g] /\ retained'[g] = retained[g]
      BY <2>1, <2>3 DEF EnforceInv, HandlesInv, Owns, Shut, ShutdownRetained
    <3>2. retained[v] = sockets[v] => Shut(v)'
      BY <2>1, <2>3, <3>1 DEF EnforceInv, Owns, Shut
    <3>3. VictimsInv'
      BY <2>1, <2>2, <2>3, <3>1, <3>2
      DEF EnforceInv, VictimsInv, Enforced, BeforeKill, BeforeCancel
    <3> QED
      BY <3>1, <3>3 DEF EnforceInv
  <2>4. CASE pending = {} /\ wpc' = "stopping" /\ UNCHANGED <<connVars, pending>>
    <3>1. HandlesInv' /\ \A h \in Attempts : Owns(h)' /\ (Shut(h) => Shut(h)')
      BY <2>1, <2>4 DEF EnforceInv, HandlesInv, Owns, Shut, connVars
    <3>2. VictimsInv'
      BY <2>1, <2>2, <2>4, <3>1
      DEF EnforceInv, VictimsInv, Enforced, BeforeKill, BeforeCancel, connVars
    <3> QED
      BY <3>1, <3>2 DEF EnforceInv
  <2> QED
    BY <1>3, <2>3, <2>4 DEF ShutVictim, EnforceInv, VictimsInv
<1> QED
  BY <1>1, <1>2, <1>3

\* Every step of the gateway keeps the sweep complete.
LEMMA EnforceStep ==
  ASSUME GatewayInv, EnforceInv, [Next]_vars
  PROVE  EnforceInv'
<1>1. CASE UNCHANGED vars
  BY <1>1, EnforceUnmoved DEF vars, watcherVars, registryVars, handlerVars
<1>2. CASE BootDegraded \/ Boot \/ NoticeKillFile \/ CancelRun
  <2>1. /\ UNCHANGED <<connVars, pc, killed, conns, victims, pending>>
        /\ wpc \in BeforeKill /\ wpc' \in BeforeKill \cup {"exited"}
    BY <1>2 DEF BootDegraded, Boot, NoticeKillFile, CancelRun, WatcherOnly, WatcherAt,
           handlerVars, registryVars, BeforeKill, BeforeCancel
  <2> QED
    BY <2>1, EnforceUnmoved
<1>3. CASE ListenerEnds
  BY <1>3, EnforceUnmoved DEF ListenerEnds, WatcherOnly, handlerVars, registryVars
<1>4. CASE StopListener \/ RecordRequested \/ RecordLinearized \/ AwaitDrain \/ AwaitListener
           \/ AwaitProducers
  <2>1. /\ UNCHANGED <<connVars, pc, killed, conns, victims, pending>>
        /\ wpc \in {"stopping", "requesting", "linearizing", "draining", "listening", "quiescing"}
        /\ wpc' \in {"requesting", "linearizing", "draining", "listening", "quiescing", "sampling"}
    BY <1>4 DEF StopListener, RecordRequested, RecordLinearized, AwaitDrain, AwaitListener,
           AwaitProducers, WatcherWrite, WatcherOnly, WatcherAt, handlerVars, registryVars
  <2> QED
    BY <2>1, EnforceUnmoved DEF Enforced
<1>5. CASE SamplePermits \/ SampleProducers \/ RecordKillSwitch \/ RecordDrainTimeout
           \/ RecordAck \/ SealRun \/ Exit
  <2>1. /\ UNCHANGED <<connVars, pc, killed, conns, victims, pending>>
        /\ wpc \in {"sampling", "counting", "kill_switch", "timing_out", "acking", "sealing", "done"}
        /\ wpc' \in {"counting", "kill_switch", "timing_out", "acking", "sealing", "done", "exited"}
    BY <1>5 DEF SamplePermits, SampleProducers, RecordKillSwitch, RecordDrainTimeout, RecordAck,
           SealRun, Exit, WatcherWrite, WatcherOnly, WatcherAt, handlerVars, registryVars
  <2> QED
    BY <2>1, EnforceUnmoved DEF Enforced
<1>6. CASE KillRegistry \/ MarkVictim \/ ShutVictim
  BY <1>6, EnforceKillStep DEF GatewayInv, QuietInv
<1> QED
  BY <1>1, <1>2, <1>3, <1>4, <1>5, <1>6, EnforceHandlerStep DEF Next, Watcher

\* The sweep is complete in every reachable state.
LEMMA EnforceInvariant == Spec => []EnforceInv
<1>1. GatewayInv /\ EnforceInv /\ [Next]_vars => EnforceInv'
  BY EnforceStep
<1> QED
  BY <1>1, EnforceInit, GatewayInvariant, PTL DEF Spec

(* A sealed log means a quiet gateway, for any number of handlers and      *)
(* whatever failed or timed out on the way: nothing in flight, no producer *)
(* and none that could come, the listener closed, no upstream socket left. *)
THEOREM ClosedIsQuiet == Spec => []ClosedMeansQuiet
<1>1. GatewayInv /\ EnforceInv => ClosedMeansQuiet
  <2> SUFFICES ASSUME GatewayInv, EnforceInv, sealed
               PROVE  /\ inflight = {} /\ producers = 0 /\ listener = "closed"
                      /\ \A h \in Attempts : /\ pc[h] \in {"none", "accepted", "gone"}
                                             /\ {"plain", "up"} \cap usable[h] = {}
    BY DEF ClosedMeansQuiet
  <2>1. Quiet
    BY DEF GatewayInv, QuietInv, SealInv
  <2>2. Producing = {}
    BY <2>1, NoProducers DEF GatewayInv, Quiet
  <2>3. \A h \in Attempts : pc[h] \in Outside
    BY <2>2 DEF Producing
  <2>4. \A h \in Attempts : {"plain", "up"} \cap usable[h] = {}
    BY <2>3 DEF EnforceInv, Owns
  <2> QED
    BY <2>1, <2>3, <2>4 DEF Quiet, Outside
<1> QED
  BY <1>1, GatewayInvariant, EnforceInvariant, PTL

(* Once terminate_all() has shut down what it retained, no handler         *)
(* connects to its target and none sends a request, whichever check it had *)
(* already passed.                                                         *)
THEOREM EnforcementIsComplete == Spec => NoEffectAfterEnforcement
<1>1. GatewayInv /\ EnforceInv /\ [Next]_vars
        => [\A h \in Attempts :
              /\ pc[h] = "connecting" /\ pc'[h] = "upstream_tls" => ~Enforced
              /\ pc[h] = "sending" /\ pc'[h] = "streaming" => ~Enforced]_vars
  <2> SUFFICES ASSUME GatewayInv, EnforceInv, Next, NEW h \in Attempts, Enforced,
                      \/ pc[h] = "connecting" /\ pc'[h] = "upstream_tls"
                      \/ pc[h] = "sending" /\ pc'[h] = "streaming"
               PROVE  FALSE
    BY DEF Next
  <2>1. PICK g \in Attempts : Accept(g) \/ ReadRequest(g) \/ Refuse(g) \/ Handler(g)
    BY WatcherLeavesHandlers DEF Next, handlerVars
  <2>2. g = h /\ wpc # "exited"
    BY <2>1, HandlerConnection, HandlerLeavesWatcher DEF EnforceInv, OwnConnection
  <2>3. terminal[h] /\ Shut(h)
    <3>1. killed
      BY <2>2 DEF GatewayInv, QuietInv, KillInv, Enforced, BeforeKill, BeforeCancel
    <3>2. h \in victims
      BY <3>1 DEF EnforceInv, VictimsInv, Flow
    <3> QED
      BY <2>2, <3>2 DEF EnforceInv, VictimsInv
  <2>4. CASE pc[h] = "connecting" /\ pc'[h] = "upstream_tls"
    <3>1. Connect(h)
      BY <2>1, <2>2, <2>4 DEF Handler, Running, Accept, ReadRequest, Refuse, BeginProducer, Add,
             Decide, WrapClient, OwnClient, DecideInside, AllocateAuth, WriteAuth, OpenUpstream,
             AcquirePermit, WritePermit, Abandon, CheckTerminal, WriteAttempted,
             SettleInterrupted, DenyInterrupted, OwnUpstream,
             SendRequest, Stream, WriteNext, ReleasePermit, WriteRelease, WriteInternal,
             CloseAll, Remove, EndProducer
    <3>2. "plain" \in usable[h]
      BY <2>4, <3>1 DEF Connect, Wrap, Writing, Goto, EnforceInv, HandlesInv
    <3> QED
      BY <2>3, <2>4, <3>2 DEF Shut, BeforeConnect
  <2>5. CASE pc[h] = "sending" /\ pc'[h] = "streaming"
    <3>1. SendRequest(h)
      BY <2>1, <2>2, <2>5 DEF Handler, Running, Accept, ReadRequest, Refuse, BeginProducer, Add,
             Decide, WrapClient, OwnClient, DecideInside, AllocateAuth, WriteAuth, OpenUpstream,
             AcquirePermit, WritePermit, Abandon, CheckTerminal, WriteAttempted,
             SettleInterrupted, DenyInterrupted, OwnUpstream,
             Connect, Stream, WriteNext, ReleasePermit, WriteRelease, WriteInternal,
             CloseAll, Remove, EndProducer
    <3>2. "up" \in usable[h]
      BY <2>5, <3>1 DEF SendRequest, Writing, Goto, EnforceInv, HandlesInv
    <3> QED
      BY <2>3, <2>5, <3>2 DEF Shut
  <2> QED
    BY <2>4, <2>5
<1> QED
  BY <1>1, GatewayInvariant, EnforceInvariant, PTL DEF Spec, NoEffectAfterEnforcement

-----------------------------------------------------------------------------
(* What the gateway inherits from the permit lock it implements.           *)

(* In the gateway, with any number of handlers, every sequence number has  *)
(* one owner, A < P < R and A, P < C hold, the count frozen at C is that   *)
(* of the permits with P < C < R, and a permit is outstanding exactly      *)
(* between its issue and its release.                                      *)
THEOREM GatewayKeepsEquations ==
  Spec => [](UniqueSequences /\ SequenceEquations /\ CountAtLinearization /\ OutstandingPermits)
BY GatewayImplementsLock, SequencesUnique, SequencesOrdered, LinearizedCount,
   PermitsOutstanding, PTL

(* No interleaving of handlers and watcher undoes a cancellation.          *)
THEOREM GatewayCancelsForGood == Spec => CancellationIsFinal
BY GatewayImplementsLock, CancellationFinal, PTL

-----------------------------------------------------------------------------
(* The history on disk.  Every record the gateway writes is well formed,   *)
(* so what is proved of well-formed histories holds of the gateway's.      *)
NumberedInv ==
  /\ pc \in [Attempts -> Positions]
  /\ \A h \in Attempts : /\ pc[h] = "auth" => A(h) # 0
                         /\ pc[h] = "release" => R(h) # 0

\* No lifecycle number has been drawn when the process starts.
LEMMA NumberedInit == Init => NumberedInv
  BY DEF Init, NumberedInv, Positions

\* A handler at a numbered record has drawn the number it is about to write.
LEMMA NumberedStep ==
  ASSUME RunInv, AdmissionInv, NumberedInv, [Next]_vars
  PROVE  NumberedInv'
<1>1. /\ authorizations \in [Attempts -> [epoch : Epochs, seq : Nat]]
      /\ releaseSeq \in [Attempts -> Nat] /\ sequence \in Nat
  BY DEF RunInv, RunTypeOK
<1>2. pc' \in [Attempts -> Positions]
  BY AdmissionStep DEF AdmissionInv
<1>3. ASSUME NEW h \in Attempts, AllocateAuth(h) PROVE NumberedInv'
  BY <1>1, <1>2, <1>3
  DEF NumberedInv, AllocateAuth, Authorize, Running, Goto, Writing, A, R, runVars
<1>4. ASSUME NEW h \in Attempts, Abandon(h) \/ ReleasePermit(h) PROVE NumberedInv'
  BY <1>1, <1>2, <1>4
  DEF NumberedInv, Abandon, ReleasePermit, Release, Running, Goto, Writing, A, R
<1>5. ASSUME NEW h \in Attempts, AcquirePermit(h) PROVE NumberedInv'
  BY <1>2, <1>5
  DEF NumberedInv, AcquirePermit, IssuePermit, Running, Goto, Writing, A, R, runVars
<1>6. CASE CancelRun
  BY <1>6 DEF NumberedInv, CancelRun, Cancel, handlerVars, A, R
<1>7. ASSUME runVars' = runVars, NEW h \in Attempts, pc'[h] \notin {"auth", "release"},
             \A g \in Attempts \ {h} : pc'[g] = pc[g]
      PROVE  NumberedInv'
  BY <1>2, <1>7 DEF NumberedInv, runVars, A, R
<1>8. ASSUME runVars' = runVars, pc' = pc PROVE NumberedInv'
  BY <1>8 DEF NumberedInv, runVars, A, R
<1>9. ASSUME NEW h \in Attempts,
             \/ Accept(h) \/ ReadRequest(h) \/ Refuse(h) \/ BeginProducer(h) \/ Add(h)
             \/ Decide(h) \/ WrapClient(h) \/ OwnClient(h) \/ DecideInside(h)
             \/ WriteAuth(h) \/ OpenUpstream(h) \/ WritePermit(h) \/ CheckTerminal(h)
             \/ WriteAttempted(h) \/ SettleInterrupted(h) \/ DenyInterrupted(h) \/ Connect(h)
             \/ OwnUpstream(h) \/ SendRequest(h)
             \/ Stream(h) \/ WriteNext(h) \/ WriteRelease(h) \/ WriteInternal(h)
             \/ CloseAll(h) \/ Remove(h) \/ EndProducer(h)
      PROVE  NumberedInv'
  <2>1. runVars' = runVars
    BY <1>9, HandlerOutsideLock
  <2>2. /\ pc' = pc \/ pc'[h] \notin {"auth", "release"}
        /\ \A g \in Attempts \ {h} : pc'[g] = pc[g]
    <3> USE DEF NumberedInv, Running, Goto, Writing
    <3>1. CASE Accept(h) \/ ReadRequest(h) \/ Refuse(h) \/ BeginProducer(h) \/ Add(h)
      BY <3>1 DEF Accept, ReadRequest, Refuse, BeginProducer, Add
    <3>2. CASE Decide(h) \/ WrapClient(h) \/ OwnClient(h) \/ DecideInside(h) \/ OpenUpstream(h)
      BY <3>2 DEF Decide, WrapClient, OwnClient, DecideInside, OpenUpstream
    <3>3. CASE WriteAuth(h) \/ WritePermit(h) \/ WriteAttempted(h) \/ SettleInterrupted(h)
                 \/ DenyInterrupted(h) \/ WriteRelease(h)
      BY <3>3 DEF WriteAuth, WritePermit, WriteAttempted, SettleInterrupted, DenyInterrupted,
                  WriteRelease, WriteOr
    <3>4. CASE CheckTerminal(h) \/ Connect(h) \/ OwnUpstream(h) \/ SendRequest(h) \/ Stream(h)
      BY <3>4 DEF CheckTerminal, Connect, OwnUpstream, SendRequest, Stream
    <3>5. CASE WriteNext(h) \/ WriteInternal(h) \/ CloseAll(h) \/ Remove(h) \/ EndProducer(h)
      BY <3>5 DEF WriteNext, WriteInternal, CloseAll, Remove, EndProducer, Leave
    <3> QED
      BY <1>9, <3>1, <3>2, <3>3, <3>4, <3>5
  <2> QED
    BY <1>7, <1>8, <2>1, <2>2
<1>10. CASE BootDegraded \/ Boot \/ NoticeKillFile \/ ListenerEnds \/ Watcher
  BY <1>6, <1>8, <1>10, WatcherOutsideLock, WatcherLeavesHandlers DEF Watcher, handlerVars
<1>11. CASE UNCHANGED vars
  BY <1>8, <1>11 DEF vars, handlerVars
<1> QED
  BY <1>3, <1>4, <1>5, <1>9, <1>10, <1>11 DEF Next, Handler

\* A call of the sink scans its record or leaves the history alone.
LEMMA SinkScans ==
  ASSUME NEW r, Appends(r) \/ Raises(r) \/ Seals(r), WellFormed(r)
  PROVE  [HistoryNext]_verifyVars
<1>1. Scan(r) \/ verifyVars' = verifyVars
  BY DEF Appends, Raises, Seals, sinkVars, verifyVars
<1> QED
  BY <1>1 DEF Scan, HistoryNext

\* A record that is about no attempt and carries no number of its own.
LEMMA PlainRecord ==
  ASSUME NEW r, r.decision \in {BLOCKED, STARTUP, STARTUP_DEGRADED, CANCEL_REQUESTED,
                                KILL_SWITCH, CANCEL_ACK, CANCEL_DRAIN_TIMEOUT, RUN_CLOSED}
  PROVE  WellFormed(r)
BY DEF WellFormed, AUTH, PERMIT, ATTEMPTED, ALLOW, PERMIT_RELEASED, CONN_TERMINATED,
       TERMINAL, COMPLETED, FAILED, UNKNOWN, CANCELLED, BLOCKED, STARTUP, STARTUP_DEGRADED,
       CANCEL_REQUESTED, CANCEL_LINEARIZED, KILL_SWITCH, CANCEL_ACK, CANCEL_DRAIN_TIMEOUT,
       RUN_CLOSED

\* A record a handler writes has the fields that records of its kind must have.
LEMMA HandlerRecord ==
  ASSUME RunInv, NEW h \in Attempts,
         NEW d \in Listed \cup {AUTH, PERMIT, ATTEMPTED, PERMIT_RELEASED},
         d = AUTH => A(h) # 0, d = PERMIT => P(h) # 0, d = PERMIT_RELEASED => R(h) # 0
  PROVE  WellFormed(Record(h, d))
<1>1. A(h) \in Nat /\ P(h) \in Nat /\ R(h) \in Nat
  BY DEF RunInv, RunTypeOK, A, P, R
<1>2. /\ Record(h, d).decision = d /\ Record(h, d).attempt_id = h
      /\ Record(h, d).lifecycle_seq = IF d = AUTH THEN A(h)
                                      ELSE IF d = PERMIT THEN P(h) ELSE R(h)
  BY DEF Record
<1>3. d # CANCEL_LINEARIZED /\ AUTH # PERMIT_RELEASED /\ PERMIT # PERMIT_RELEASED
  BY DEF Listed, TERMINAL, AUTH, PERMIT, ATTEMPTED, PERMIT_RELEASED, BLOCKED, ALLOW,
         CONN_TERMINATED, COMPLETED, FAILED, UNKNOWN, CANCELLED, CANCEL_LINEARIZED
<1> QED
  BY <1>1, <1>2, <1>3 DEF WellFormed

\* Every handler step writes at most one well-formed record to the history.
LEMMA HandlerWrites ==
  ASSUME GatewayInv, EvidenceInv, NumberedInv, NEW h \in Attempts,
         Accept(h) \/ ReadRequest(h) \/ Refuse(h) \/ Handler(h)
  PROVE  [HistoryNext]_verifyVars
<1>1. ASSUME NEW d \in Listed \cup {AUTH, PERMIT, ATTEMPTED, PERMIT_RELEASED},
             d = AUTH => A(h) # 0, d = PERMIT => P(h) # 0, d = PERMIT_RELEASED => R(h) # 0,
             Appends(Record(h, d)) \/ Raises(Record(h, d))
      PROVE  [HistoryNext]_verifyVars
  BY <1>1, HandlerRecord, SinkScans DEF GatewayInv
<1>2. CASE sinkVars' = sinkVars
  BY <1>2 DEF sinkVars, verifyVars
<1>3. CASE Accept(h) \/ ReadRequest(h) \/ BeginProducer(h) \/ Add(h) \/ Decide(h)
  BY <1>2, <1>3 DEF Accept, ReadRequest, BeginProducer, Add, Decide
<1>4. CASE WrapClient(h) \/ OwnClient(h) \/ DecideInside(h) \/ OpenUpstream(h)
  BY <1>2, <1>4 DEF WrapClient, OwnClient, DecideInside, OpenUpstream
<1>5. CASE AllocateAuth(h) \/ AcquirePermit(h) \/ Abandon(h) \/ ReleasePermit(h)
  BY <1>2, <1>5 DEF AllocateAuth, AcquirePermit, Abandon, ReleasePermit
<1>6. CASE CheckTerminal(h) \/ Connect(h) \/ OwnUpstream(h) \/ SendRequest(h) \/ Stream(h)
  BY <1>2, <1>6 DEF CheckTerminal, Connect, OwnUpstream, SendRequest, Stream
<1>7. CASE CloseAll(h) \/ Remove(h) \/ EndProducer(h)
  BY <1>2, <1>7 DEF CloseAll, Remove, EndProducer
<1>8. /\ AUTH \notin {PERMIT, ATTEMPTED, PERMIT_RELEASED} \cup Listed
      /\ PERMIT \notin {ATTEMPTED, PERMIT_RELEASED} \cup Listed
      /\ PERMIT_RELEASED \notin {ATTEMPTED} \cup Listed /\ {BLOCKED, UNKNOWN} \subseteq Listed
  BY DEF Listed, TERMINAL, AUTH, PERMIT, ATTEMPTED, PERMIT_RELEASED, BLOCKED, ALLOW,
         CONN_TERMINATED, COMPLETED, FAILED, UNKNOWN, CANCELLED
<1>9. CASE WriteAuth(h)
  <2>1. A(h) # 0 /\ (Appends(Record(h, AUTH)) \/ Raises(Record(h, AUTH)))
    BY <1>9 DEF WriteAuth, WriteOr, Running, NumberedInv
  <2> QED
    BY <1>1, <1>8, <2>1
<1>10. CASE WritePermit(h)
  <2>1. h \in inflight /\ (Appends(Record(h, PERMIT)) \/ Raises(Record(h, PERMIT)))
    BY <1>10 DEF WritePermit, WriteOr, Running, EvidenceInv, HoldsPermit
  <2>2. P(h) # 0
    BY <2>1 DEF GatewayInv, RunInv, OutstandingPermits
  <2> QED
    BY <1>1, <1>8, <2>1, <2>2
<1>11. CASE WriteRelease(h)
  <2>1. R(h) # 0 /\ (Appends(Record(h, PERMIT_RELEASED)) \/ Raises(Record(h, PERMIT_RELEASED)))
    BY <1>11 DEF WriteRelease, WriteOr, Running, NumberedInv
  <2> QED
    BY <1>1, <1>8, <2>1
<1>12. CASE WriteAttempted(h) \/ SettleInterrupted(h) \/ DenyInterrupted(h)
              \/ WriteInternal(h) \/ Refuse(h)
  <2>1. \E d \in {ATTEMPTED, BLOCKED, UNKNOWN} : Appends(Record(h, d)) \/ Raises(Record(h, d))
    BY <1>12 DEF WriteAttempted, SettleInterrupted, DenyInterrupted, WriteInternal, Refuse,
                 WriteOr
  <2> QED
    BY <1>1, <1>8, <2>1
<1>13. CASE WriteNext(h)
  <2>1. Head(todo[h]) \in Listed
    BY <1>13, ListTail DEF WriteNext, Running, TodoInv, GatewayInv
  <2> QED
    BY <1>1, <1>8, <1>13, <2>1 DEF WriteNext
<1> QED
  BY <1>3, <1>4, <1>5, <1>6, <1>7, <1>9, <1>10, <1>11, <1>12, <1>13 DEF Handler

\* So does every step of the boot, the listener and the kill watcher.
LEMMA WatcherWrites ==
  ASSUME GatewayInv, BootDegraded \/ Boot \/ NoticeKillFile \/ ListenerEnds \/ Watcher
  PROVE  [HistoryNext]_verifyVars
<1>1. CASE sinkVars' = sinkVars
  BY <1>1 DEF sinkVars, verifyVars
<1>2. ASSUME NEW r, Appends(r) \/ Raises(r) \/ Seals(r),
             r.decision \in {BLOCKED, STARTUP, STARTUP_DEGRADED, CANCEL_REQUESTED,
                             KILL_SWITCH, CANCEL_ACK, CANCEL_DRAIN_TIMEOUT, RUN_CLOSED}
      PROVE  [HistoryNext]_verifyVars
  BY <1>2, PlainRecord, SinkScans
<1>3. CASE \/ NoticeKillFile \/ ListenerEnds \/ CancelRun \/ KillRegistry \/ MarkVictim
           \/ ShutVictim \/ StopListener
  BY <1>1, <1>3 DEF NoticeKillFile, ListenerEnds, CancelRun, KillRegistry, MarkVictim,
                    ShutVictim, StopListener
<1>4. CASE AwaitDrain \/ AwaitListener \/ AwaitProducers \/ SamplePermits \/ SampleProducers
           \/ Exit
  BY <1>1, <1>4 DEF AwaitDrain, AwaitListener, AwaitProducers, SamplePermits,
                    SampleProducers, Exit
<1>5. CASE BootDegraded
  BY <1>2, <1>5 DEF BootDegraded
<1>6. CASE Boot
  BY <1>2, <1>6 DEF Boot
<1>7. CASE RecordRequested
  BY <1>2, <1>7 DEF RecordRequested, WatcherWrite
<1>8. CASE RecordKillSwitch \/ RecordDrainTimeout \/ RecordAck
  <2>1. ASSUME NEW d PROVE DrainRecord(d).decision = d
    BY DEF DrainRecord
  <2> QED
    BY <1>2, <1>8, <2>1 DEF RecordKillSwitch, RecordDrainTimeout, RecordAck, WatcherWrite
<1>9. CASE SealRun
  BY <1>2, <1>9 DEF SealRun
<1>10. CASE RecordLinearized
  <2>1. cancelled
    BY <1>10 DEF RecordLinearized, GatewayInv, QuietInv, KillInv, BeforeCancel
  <2>2. C \in Nat \ {0}
    BY <2>1 DEF GatewayInv, RunInv, RunTypeOK, CancelledAgrees, C
  <2>3. PICK r : /\ Appends(r) \/ Raises(r)
                 /\ r.decision = CANCEL_LINEARIZED /\ r.lifecycle_seq = C
    BY <1>10 DEF RecordLinearized
  <2>4. WellFormed(r)
    BY <2>2, <2>3 DEF WellFormed, AUTH, PERMIT, ATTEMPTED, ALLOW, PERMIT_RELEASED,
           CONN_TERMINATED, TERMINAL, COMPLETED, FAILED, UNKNOWN, CANCELLED, CANCEL_LINEARIZED
  <2> QED
    BY <2>3, <2>4, SinkScans
<1> QED
  BY <1>3, <1>4, <1>5, <1>6, <1>7, <1>8, <1>9, <1>10 DEF Watcher

(* The gateway writes well-formed histories: whatever interleaving, fault  *)
(* or time-out, its log grows by records of the verifier's grammar, so the *)
(* theorems about HistorySpec hold of what a running gateway has on disk.  *)
THEOREM GatewayWritesHistories == Spec => HistorySpec
<1>1. Init => VerifyInit
  BY DEF Init, SinkInit
<1>2. GatewayInv /\ EvidenceInv /\ NumberedInv /\ [Next]_vars => [HistoryNext]_verifyVars
  <2>1. CASE UNCHANGED vars
    BY <2>1 DEF vars, sinkVars, verifyVars
  <2> QED
    BY <2>1, HandlerWrites, WatcherWrites DEF Next
<1>3. Spec => []EvidenceInv
  BY EvidenceInit, EvidenceStep, PTL DEF Spec
<1>4. GatewayInv /\ NumberedInv /\ [Next]_vars => NumberedInv'
  BY NumberedStep DEF GatewayInv
<1>5. Spec => []NumberedInv
  BY <1>4, NumberedInit, GatewayInvariant, PTL DEF Spec
<1> QED
  BY <1>1, <1>2, <1>3, <1>5, GatewayInvariant, PTL DEF Spec, HistorySpec

(* A history the gateway leaves behind that the verifier accepts carries   *)
(* the numbers of a lock history and only settled attempts.                *)
THEOREM GatewayHistoriesAreSound ==
  Spec => [](ValidAttemptsAreSettled /\ ValidHistoryIsALockHistory)
BY GatewayWritesHistories, ValidIsSettled, ValidIsALockHistory, PTL

-----------------------------------------------------------------------------
(* The shape of the gateway's own state.                                   *)

\* What a handler does to the log is at most one write.
LEMMA HandlerSink ==
  ASSUME NEW h \in Attempts, Accept(h) \/ ReadRequest(h) \/ Refuse(h) \/ Handler(h)
  PROVE  sinkVars' = sinkVars \/ \E r : Appends(r) \/ Raises(r)
<1>1. CASE Accept(h) \/ ReadRequest(h) \/ BeginProducer(h) \/ Add(h) \/ Decide(h)
  BY <1>1 DEF Accept, ReadRequest, BeginProducer, Add, Decide
<1>2. CASE WrapClient(h) \/ OwnClient(h) \/ DecideInside(h) \/ OpenUpstream(h)
  BY <1>2 DEF WrapClient, OwnClient, DecideInside, OpenUpstream
<1>3. CASE AllocateAuth(h) \/ AcquirePermit(h) \/ Abandon(h) \/ ReleasePermit(h)
  BY <1>3 DEF AllocateAuth, AcquirePermit, Abandon, ReleasePermit
<1>4. CASE CheckTerminal(h) \/ Connect(h) \/ OwnUpstream(h) \/ SendRequest(h) \/ Stream(h)
  BY <1>4 DEF CheckTerminal, Connect, OwnUpstream, SendRequest, Stream
<1>5. CASE CloseAll(h) \/ Remove(h) \/ EndProducer(h)
  BY <1>5 DEF CloseAll, Remove, EndProducer
<1>6. CASE \/ WriteAuth(h) \/ WritePermit(h) \/ WriteAttempted(h) \/ SettleInterrupted(h)
           \/ DenyInterrupted(h) \/ WriteRelease(h)
           \/ WriteInternal(h) \/ Refuse(h) \/ WriteNext(h)
  BY <1>6 DEF WriteAuth, WritePermit, WriteAttempted, SettleInterrupted, DenyInterrupted,
              WriteRelease, WriteOr, WriteInternal,
              Refuse, WriteNext
<1> QED
  BY <1>1, <1>2, <1>3, <1>4, <1>5, <1>6 DEF Handler

\* So it is for serve() and the watcher; only RUN_CLOSED is written with the seal.
LEMMA WatcherSink ==
  ASSUME BootDegraded \/ Boot \/ NoticeKillFile \/ ListenerEnds \/ Watcher
  PROVE  sinkVars' = sinkVars \/ \E r : Appends(r) \/ Raises(r) \/ Seals(r)
<1>1. CASE \/ NoticeKillFile \/ ListenerEnds \/ CancelRun \/ KillRegistry \/ MarkVictim
           \/ ShutVictim \/ StopListener
  BY <1>1 DEF NoticeKillFile, ListenerEnds, CancelRun, KillRegistry, MarkVictim,
              ShutVictim, StopListener
<1>2. CASE AwaitDrain \/ AwaitListener \/ AwaitProducers \/ SamplePermits \/ SampleProducers
           \/ Exit
  BY <1>2 DEF AwaitDrain, AwaitListener, AwaitProducers, SamplePermits, SampleProducers, Exit
<1>3. CASE \/ BootDegraded \/ Boot \/ RecordRequested \/ RecordLinearized
  BY <1>3 DEF BootDegraded, Boot, RecordRequested, RecordLinearized, WatcherWrite
<1>4. CASE RecordKillSwitch \/ RecordDrainTimeout \/ RecordAck \/ SealRun
  BY <1>4 DEF RecordKillSwitch, RecordDrainTimeout, RecordAck, SealRun, WatcherWrite
<1> QED
  BY <1>1, <1>2, <1>3, <1>4 DEF Watcher

\* Faults are used up, a failed sink stays failed and only a healthy one is sealed.
FaultsInv == openFaults \in 0..OpenFaults /\ (sealed => healthy)

FaultsLeft ==
  /\ FaultsInv'
  /\ openFaults' <= openFaults /\ (healthy' => healthy) /\ (sealed => sealed')

\* No call of the sink repairs it or gives a fault back.
LEMMA SinkFaults ==
  ASSUME FaultsInv, sinkVars' = sinkVars \/ \E r : Appends(r) \/ Raises(r) \/ Seals(r)
  PROVE  FaultsLeft
<1> USE FaultBounds DEF FaultsInv, FaultsLeft
<1>1. CASE sinkVars' = sinkVars
  BY <1>1 DEF sinkVars
<1>2. ASSUME NEW r, Appends(r) \/ Raises(r) \/ Seals(r) PROVE FaultsLeft
  BY <1>2 DEF Appends, Raises, Seals, sinkVars
<1> QED
  BY <1>1, <1>2

\* No step of the gateway does.
LEMMA StepFaults == ASSUME FaultsInv, [Next]_vars PROVE FaultsLeft
<1>1. sinkVars' = sinkVars \/ \E r : Appends(r) \/ Raises(r) \/ Seals(r)
  <2>1. CASE UNCHANGED vars
    BY <2>1 DEF vars
  <2> QED
    BY <2>1, HandlerSink, WatcherSink DEF Next
<1> QED
  BY <1>1, SinkFaults

(* serve() opens the listener when STARTUP is durable; the registry is     *)
(* swept once, so the connections torn down are among those it held; the   *)
(* semaphore is never taken below zero.                                    *)
ServeInv ==
  /\ listener \in {"off", "serving", "stopping", "stopped", "closed"}
  /\ wpc \in {"boot", "bind"} => listener = "off" /\ \A h \in Attempts : pc[h] = "none"
  /\ torn \subseteq victims /\ pending \subseteq victims
  /\ wpc \in BeforeKill => torn = {}
  /\ slots \in Nat

\* Before serve() has opened the listener there is no handler.
LEMMA NoHandlerAtBoot ==
  ASSUME ServeInv, NEW h \in Attempts, Accept(h) \/ ReadRequest(h) \/ Refuse(h) \/ Handler(h)
  PROVE  wpc \notin {"boot", "bind"}
<1> SUFFICES ASSUME wpc \in {"boot", "bind"} PROVE FALSE
  OBVIOUS
<1>1. pc[h] = "none" /\ listener = "off"
  BY DEF ServeInv
<1> USE DEF Running
<1>2. CASE Accept(h) \/ ReadRequest(h) \/ Refuse(h) \/ BeginProducer(h) \/ Add(h) \/ Decide(h)
  BY <1>1, <1>2 DEF Accept, ReadRequest, Refuse, BeginProducer, Add, Decide
<1>3. CASE WrapClient(h) \/ OwnClient(h) \/ DecideInside(h) \/ OpenUpstream(h) \/ AllocateAuth(h)
  BY <1>1, <1>3 DEF WrapClient, OwnClient, DecideInside, OpenUpstream, AllocateAuth
<1>4. CASE AcquirePermit(h) \/ Abandon(h) \/ ReleasePermit(h) \/ CheckTerminal(h) \/ Connect(h)
  BY <1>1, <1>4 DEF AcquirePermit, Abandon, ReleasePermit, CheckTerminal, Connect
<1>5. CASE OwnUpstream(h) \/ SendRequest(h) \/ Stream(h) \/ CloseAll(h) \/ Remove(h)
  BY <1>1, <1>5 DEF OwnUpstream, SendRequest, Stream, CloseAll, Remove
<1>6. CASE \/ WriteAuth(h) \/ WritePermit(h) \/ WriteAttempted(h) \/ SettleInterrupted(h)
           \/ DenyInterrupted(h) \/ WriteRelease(h)
           \/ WriteInternal(h) \/ WriteNext(h) \/ EndProducer(h)
  BY <1>1, <1>6 DEF WriteAuth, WritePermit, WriteAttempted, SettleInterrupted, DenyInterrupted,
                    WriteRelease, WriteInternal,
                    WriteNext, EndProducer
<1> QED
  BY <1>2, <1>3, <1>4, <1>5, <1>6 DEF Handler

\* Nothing listens when the process starts.
LEMMA ServeInit == Init => ServeInv /\ FaultsInv
<1> SUFFICES ASSUME Init PROVE ServeInv /\ FaultsInv
  OBVIOUS
<1>1. ServeInv
  BY MaxConnectionsAssumption DEF Init, ServeInv
<1>2. FaultsInv
  BY FaultBounds DEF Init, SinkInit, FaultsInv
<1> QED
  BY <1>1, <1>2

\* Handlers take a place only where one is free and leave the rest to serve().
LEMMA ServeHandlerStep ==
  ASSUME ServeInv, AdmissionInv, NEW h \in Attempts,
         Accept(h) \/ ReadRequest(h) \/ Refuse(h) \/ Handler(h)
  PROVE  ServeInv'
<1>1. UNCHANGED <<listener, wpc, torn, victims, pending>>
  BY HandlerLeavesWatcher DEF watcherVars
<1>2. wpc \notin {"boot", "bind"}
  BY NoHandlerAtBoot
<1>3. slots' \in Nat
  <2>1. CASE HoldsPlace(h)
    BY <2>1, PlaceKept DEF ServeInv
  <2>2. CASE Accept(h) \/ ReadRequest(h) \/ Refuse(h) \/ BeginProducer(h) \/ Remove(h) \/ EndProducer(h)
    BY <2>2 DEF Accept, ReadRequest, Refuse, BeginProducer, Remove, EndProducer, registryVars,
                ServeInv
  <2> QED
    BY <2>1, <2>2 DEF Handler, HoldsPlace
<1> QED
  BY <1>1, <1>2, <1>3 DEF ServeInv

\* serve() and the watcher move the listener forward and sweep the registry once.
LEMMA ServeWatcherStep ==
  ASSUME ServeInv, BootDegraded \/ Boot \/ NoticeKillFile \/ ListenerEnds \/ Watcher
  PROVE  ServeInv'
<1>1. UNCHANGED <<pc, slots>>
  BY WatcherLeavesHandlers DEF handlerVars
<1> USE <1>1 DEF ServeInv, BeforeKill, BeforeCancel, WatcherAt, WatcherWrite
<1>2. CASE BootDegraded \/ Boot \/ NoticeKillFile \/ ListenerEnds
  BY <1>2 DEF BootDegraded, Boot, NoticeKillFile, ListenerEnds
<1>3. CASE CancelRun \/ KillRegistry \/ StopListener
  BY <1>3 DEF CancelRun, KillRegistry, StopListener
<1>4. CASE MarkVictim
  BY <1>4 DEF MarkVictim
<1>5. CASE ShutVictim
  <2>1. torn' \subseteq victims
    BY <1>5 DEF ShutVictim
  <2> QED
    BY <1>5, <2>1 DEF ShutVictim
<1>6. CASE RecordRequested \/ RecordLinearized \/ AwaitDrain \/ AwaitListener \/ AwaitProducers
  BY <1>6 DEF RecordRequested, RecordLinearized, AwaitDrain, AwaitListener, AwaitProducers
<1>7. CASE SamplePermits \/ SampleProducers \/ RecordKillSwitch \/ RecordDrainTimeout
           \/ RecordAck \/ SealRun \/ Exit
  BY <1>7 DEF SamplePermits, SampleProducers, RecordKillSwitch, RecordDrainTimeout, RecordAck,
              SealRun, Exit
<1> QED
  BY <1>2, <1>3, <1>4, <1>5, <1>6, <1>7 DEF Watcher

\* The listener, the sweep, the places and the faults in every reachable state.
LEMMA ServeInvariant == Spec => [](ServeInv /\ FaultsInv)
<1>1. GatewayInv /\ ServeInv /\ FaultsInv /\ [Next]_vars => ServeInv' /\ FaultsInv'
  <2> SUFFICES ASSUME GatewayInv, ServeInv, FaultsInv, [Next]_vars PROVE ServeInv' /\ FaultsInv'
    OBVIOUS
  <2>1. FaultsInv'
    BY StepFaults DEF FaultsLeft
  <2>2. CASE UNCHANGED vars
    BY <2>1, <2>2 DEF vars, watcherVars, handlerVars, registryVars, ServeInv
  <2> QED
    BY <2>1, <2>2, ServeHandlerStep, ServeWatcherStep DEF GatewayInv, Next
<1> QED
  BY <1>1, ServeInit, GatewayInvariant, PTL DEF Spec

(* The gateway's state has its shape, for any finite set of handlers: a    *)
(* handler is writing exactly while it has records left, no more places of *)
(* the semaphore are free than there are and none is owed, and the         *)
(* connections torn down were registered at the kill.                      *)
THEOREM GatewayTypeCorrect ==
  ASSUME IsFiniteSet(Attempts)
  PROVE  Spec => []GatewayTypeOK
<1>1. GatewayInv /\ EnforceInv /\ ServeInv /\ VerifyTypeOK => GatewayTypeOK
  <2> SUFFICES ASSUME GatewayInv, EnforceInv, ServeInv, VerifyTypeOK PROVE GatewayTypeOK
    OBVIOUS
  <2>1. RunTypeOK /\ pc \in [Attempts -> Positions]
    BY DEF GatewayInv, RunInv, AdmissionInv
  <2>2. \A h \in Attempts : pc[h] = "writing" <=> todo[h] # <<>>
    BY DEF GatewayInv, TodoInv, ListOK
  <2>3. Cardinality(Placed) \in Nat /\ Cardinality(Producing) \in Nat
    BY FS_CardinalityType DEF GatewayInv, AdmissionInv
  <2>4. slots \in 0..MaxConnections
    BY <2>3, MaxConnectionsAssumption DEF GatewayInv, AdmissionInv, ServeInv
  <2>5. producers \in 0..Cardinality(Attempts)
    <3>1. Producing \subseteq Attempts
      BY DEF Producing
    <3>2. Cardinality(Producing) <= Cardinality(Attempts) /\ Cardinality(Attempts) \in Nat
      BY <3>1, FS_Subset, FS_CardinalityType
    <3> QED
      BY <2>3, <3>2 DEF GatewayInv, AdmissionInv
  <2>6. conns \subseteq Attempts /\ torn \subseteq victims
    BY DEF EnforceInv, VictimsInv, ServeInv
  <2> QED
    BY <2>1, <2>2, <2>4, <2>5, <2>6 DEF GatewayTypeOK, ServeInv
<1> QED
  BY <1>1, GatewayInvariant, EnforceInvariant, ServeInvariant, GatewayWritesHistories,
     HistoryTypeCorrect, PTL

-----------------------------------------------------------------------------
(* The history of a sealed run.  As long as no record was lost (OnTrack),  *)
(* the verifier's scan is in step with the gateway: each attempt's entry   *)
(* is what the position of its handler says (Fits), the run state is what  *)
(* the position of the watcher says (RunFits), and the numbers in use are  *)
(* those of the lock that are on disk (UsedInv).  So each record is one    *)
(* the verifier expects, but for the refusals StatusOK lists.              *)
BeforeIntent == {"none", "accepted", "reading", "adding", "deciding", "wrapping", "client_tls",
                 "inside", "authorizing"}

\* A handler has no number before commit_intent() and was authorised in epoch 0.
PathInv ==
  /\ pc \in [Attempts -> Positions]
  /\ seen = [h \in Attempts |-> seen[h]] /\ spelling = [h \in Attempts |-> spelling[h]]
  /\ raised = [h \in Attempts |-> raised[h]]
  /\ \A h \in Attempts :
       /\ pc[h] \in BeforeIntent => A(h) = 0
       /\ pc[h] \in BeforeIntent \ {"authorizing"} => spelling[h] = Canonical
       /\ A(h) # 0 => seen[h] = 0
  /\ C # 0 => cancellation.cancelled_epoch = 0 /\ cancellation.new_epoch = 1

\* What handler h leaves alone: the other handlers, their numbers and the cancellation.
OthersKept(h) ==
  /\ \A g \in Attempts \ {h} :
       /\ pc'[g] = pc[g] /\ todo'[g] = todo[g] /\ spelling'[g] = spelling[g]
       /\ raised'[g] = raised[g] /\ seen'[g] = seen[g] /\ A(g)' = A(g) /\ P(g)' = P(g) /\ R(g)' = R(g)
  /\ UNCHANGED <<epoch, cancelled, cancellation>>

\* A handler enters the lock only to take a number.
LEMMA HandlerNumbers ==
  ASSUME RunInv, NEW h \in Attempts, Accept(h) \/ ReadRequest(h) \/ Refuse(h) \/ Handler(h)
  PROVE  /\ \A g \in Attempts \ {h} : A(g)' = A(g) /\ P(g)' = P(g) /\ R(g)' = R(g)
         /\ UNCHANGED <<epoch, cancelled, cancellation>>
<1> DEFINE Goal == /\ \A g \in Attempts \ {h} : A(g)' = A(g) /\ P(g)' = P(g) /\ R(g)' = R(g)
                   /\ UNCHANGED <<epoch, cancelled, cancellation>>
<1>1. CASE runVars' = runVars
  BY <1>1 DEF runVars, A, P, R
<1>2. /\ authorizations \in [Attempts -> [epoch : Epochs, seq : Nat]]
      /\ permitSeq \in [Attempts -> Nat] /\ releaseSeq \in [Attempts -> Nat]
  BY DEF RunInv, RunTypeOK
<1>3. CASE AllocateAuth(h)
  BY <1>1, <1>2, <1>3 DEF AllocateAuth, Authorize, A, P, R
<1>4. CASE AcquirePermit(h)
  BY <1>1, <1>2, <1>4 DEF AcquirePermit, IssuePermit, A, P, R
<1>5. CASE Abandon(h) \/ ReleasePermit(h)
  BY <1>2, <1>5 DEF Abandon, ReleasePermit, Release, A, P, R
<1> QED
  BY <1>1, <1>3, <1>4, <1>5, HandlerOutsideLock DEF Handler

\* A handler moves only itself.
LEMMA HandlerFrame ==
  ASSUME RunInv, TodoInv, PathInv, NEW h \in Attempts,
         Accept(h) \/ ReadRequest(h) \/ Refuse(h) \/ Handler(h)
  PROVE  /\ OthersKept(h)
         /\ seen' = [g \in Attempts |-> seen'[g]] /\ spelling' = [g \in Attempts |-> spelling'[g]]
         /\ pc[h] # "inside" => seen' = seen /\ spelling' = spelling
         /\ raised' = [g \in Attempts |-> raised'[g]] /\ (raised[h] => raised'[h])
<1> DEFINE Moved == /\ \A g \in Attempts \ {h} : /\ pc'[g] = pc[g] /\ todo'[g] = todo[g]
                                                 /\ spelling'[g] = spelling[g] /\ seen'[g] = seen[g]
                                                 /\ raised'[g] = raised[g]
                    /\ raised' = [g \in Attempts |-> raised'[g]] /\ (raised[h] => raised'[h])
                    /\ seen' = [g \in Attempts |-> seen'[g]]
                    /\ spelling' = [g \in Attempts |-> spelling'[g]]
                    /\ pc[h] # "inside" => seen' = seen /\ spelling' = spelling
<1>1. /\ pc \in [Attempts -> Positions] /\ todo = [g \in Attempts |-> todo[g]]
      /\ seen = [g \in Attempts |-> seen[g]] /\ spelling = [g \in Attempts |-> spelling[g]]
      /\ raised = [g \in Attempts |-> raised[g]]
  BY DEF TodoInv, PathInv
<1> USE <1>1 DEF Running, Goto, Writing, Locally
<1>2. CASE Accept(h) \/ ReadRequest(h) \/ Refuse(h) \/ BeginProducer(h) \/ Add(h)
  <2>1. Moved
    BY <1>2 DEF Accept, ReadRequest, Refuse, BeginProducer, Add
  <2> QED
    BY <2>1, HandlerNumbers DEF OthersKept
<1>3. CASE Decide(h) \/ WrapClient(h) \/ OwnClient(h) \/ OpenUpstream(h)
  <2>1. Moved
    BY <1>3 DEF Decide, WrapClient, OwnClient, OpenUpstream
  <2> QED
    BY <2>1, HandlerNumbers DEF OthersKept
<1>4. CASE DecideInside(h)
  <2>1. Moved
    BY <1>4 DEF DecideInside
  <2> QED
    BY <2>1, HandlerNumbers DEF OthersKept
<1>5. CASE WriteAuth(h) \/ WritePermit(h) \/ WriteAttempted(h) \/ SettleInterrupted(h)
             \/ DenyInterrupted(h) \/ WriteRelease(h)
  <2>1. Moved
    BY <1>5 DEF WriteAuth, WritePermit, WriteAttempted, SettleInterrupted, DenyInterrupted,
                WriteRelease, WriteOr
  <2> QED
    BY <2>1, HandlerNumbers DEF OthersKept
<1>6. CASE CheckTerminal(h) \/ Connect(h) \/ OwnUpstream(h) \/ SendRequest(h) \/ Stream(h)
  <2>1. Moved
    BY <1>6 DEF CheckTerminal, Connect, OwnUpstream, SendRequest, Stream
  <2> QED
    BY <2>1, HandlerNumbers DEF OthersKept
<1>7. CASE AllocateAuth(h) \/ AcquirePermit(h) \/ Abandon(h) \/ ReleasePermit(h)
  <2>1. Moved
    BY <1>7 DEF AllocateAuth, AcquirePermit, Abandon, ReleasePermit
  <2> QED
    BY <2>1, HandlerNumbers DEF OthersKept
<1>8. CASE WriteNext(h) \/ WriteInternal(h) \/ CloseAll(h) \/ Remove(h) \/ EndProducer(h)
  <2>1. Moved
    BY <1>8 DEF WriteNext, WriteInternal, CloseAll, Remove, EndProducer, Leave
  <2> QED
    BY <2>1, HandlerNumbers DEF OthersKept
<1> QED
  BY <1>2, <1>3, <1>4, <1>5, <1>6, <1>7, <1>8 DEF Handler

\* No attempt has a number when the process starts.
LEMMA PathInit == Init => PathInv
<1> SUFFICES ASSUME Init PROVE PathInv
  OBVIOUS
<1>1. \A h \in Attempts : A(h) = 0
  BY DEF Init, RunInit, A, NoAuthorization
<1>2. C = 0
  BY DEF Init, RunInit, NoCancellation, C
<1> QED
  BY <1>1, <1>2 DEF Init, PathInv, Positions, Canonical

\* A number is taken when the position says so, in the epoch the handler read.
LEMMA PathHandlerStep ==
  ASSUME RunInv, TodoInv, AdmissionInv, PathInv, NEW h \in Attempts,
         Accept(h) \/ ReadRequest(h) \/ Refuse(h) \/ Handler(h), pc' \in [Attempts -> Positions]
  PROVE  PathInv'
<1>1. /\ OthersKept(h)
      /\ seen' = [g \in Attempts |-> seen'[g]] /\ spelling' = [g \in Attempts |-> spelling'[g]]
      /\ pc[h] # "inside" => seen' = seen /\ spelling' = spelling
      /\ raised' = [g \in Attempts |-> raised'[g]]
  BY HandlerFrame
<1>2. C' = C /\ cancellation' = cancellation
  BY <1>1 DEF OthersKept, C
<1> DEFINE Own == /\ pc'[h] \in BeforeIntent => A(h)' = 0
                  /\ pc'[h] \in BeforeIntent \ {"authorizing"} => spelling'[h] = Canonical
                  /\ A(h)' # 0 => seen'[h] = 0
<1>3. ASSUME Own PROVE PathInv'
  BY <1>1, <1>2, <1>3 DEF PathInv, OthersKept
<1>4. ASSUME runVars' = runVars, seen' = seen, spelling' = spelling,
             pc'[h] \in BeforeIntent => pc[h] \in BeforeIntent \ {"authorizing"}
      PROVE  Own
  BY <1>4 DEF PathInv, A, runVars
<1> USE DEF Running, Goto, Writing, Locally
<1>5. CASE Accept(h) \/ ReadRequest(h) \/ Refuse(h) \/ BeginProducer(h) \/ Add(h)
  <2>1. runVars' = runVars
    BY <1>5, HandlerOutsideLock
  <2>2. seen' = seen /\ spelling' = spelling /\ pc[h] \in BeforeIntent \ {"authorizing"}
    BY <1>5 DEF Accept, ReadRequest, Refuse, BeginProducer, Add, BeforeIntent
  <2> QED
    BY <1>3, <1>4, <2>1, <2>2
<1>6. CASE Decide(h) \/ WrapClient(h) \/ OwnClient(h)
  <2>1. runVars' = runVars
    BY <1>6, HandlerOutsideLock
  <2>2. seen' = seen /\ spelling' = spelling /\ pc[h] \in BeforeIntent \ {"authorizing"}
    BY <1>6 DEF Decide, WrapClient, OwnClient, BeforeIntent
  <2> QED
    BY <1>3, <1>4, <2>1, <2>2
<1>7. CASE DecideInside(h)
  <2>1. runVars' = runVars
    BY <1>7, HandlerOutsideLock
  <2>2. A(h) = 0 /\ A(h)' = 0 /\ pc'[h] \in {"authorizing", "writing", "internal"}
    BY <1>7, <2>1 DEF DecideInside, PathInv, A, runVars, BeforeIntent
  <2> QED
    BY <1>3, <2>2 DEF BeforeIntent
<1>8. CASE AllocateAuth(h)
  <2>1. /\ seen' = seen /\ pc[h] = "authorizing"
        /\ \/ pc'[h] = "auth" /\ Authorize(h, seen[h])
           \/ pc'[h] = "writing" /\ runVars' = runVars
    BY <1>8 DEF AllocateAuth, PathInv
  <2>2. Authorize(h, seen[h]) => seen[h] = 0
    BY DEF Authorize, MayAuthorize, RunInv, CancelledAgrees
  <2>3. pc'[h] \notin BeforeIntent
    BY <2>1 DEF BeforeIntent
  <2>4. A(h)' # 0 => seen[h] = 0
    BY <2>1, <2>2 DEF PathInv, A, runVars
  <2> QED
    BY <1>3, <2>1, <2>3, <2>4
<1> DEFINE Later == /\ seen' = seen /\ spelling' = spelling /\ pc'[h] \notin BeforeIntent
                    /\ A(h)' = A(h)
<1>9. ASSUME Later PROVE PathInv'
  BY <1>3, <1>9 DEF PathInv
<1>10. CASE OpenUpstream(h) \/ WriteAuth(h) \/ WritePermit(h) \/ WriteAttempted(h)
              \/ SettleInterrupted(h) \/ DenyInterrupted(h) \/ WriteRelease(h)
  <2>1. runVars' = runVars
    BY <1>10, HandlerOutsideLock
  <2>2. seen' = seen /\ spelling' = spelling /\ pc'[h] \notin BeforeIntent
    BY <1>10 DEF OpenUpstream, WriteAuth, WritePermit, WriteAttempted, SettleInterrupted,
                 DenyInterrupted, WriteRelease, WriteOr,
                 PathInv, BeforeIntent
  <2> QED
    BY <1>9, <2>1, <2>2 DEF A, runVars
<1>11. CASE CheckTerminal(h) \/ Connect(h) \/ OwnUpstream(h) \/ SendRequest(h) \/ Stream(h)
  <2>1. runVars' = runVars
    BY <1>11, HandlerOutsideLock
  <2>2. seen' = seen /\ spelling' = spelling /\ pc'[h] \notin BeforeIntent
    BY <1>11 DEF CheckTerminal, Connect, OwnUpstream, SendRequest, Stream, PathInv, BeforeIntent
  <2> QED
    BY <1>9, <2>1, <2>2 DEF A, runVars
<1>12. CASE WriteNext(h) \/ WriteInternal(h) \/ CloseAll(h) \/ Remove(h) \/ EndProducer(h)
  <2>1. runVars' = runVars
    BY <1>12, HandlerOutsideLock
  <2>2. seen' = seen /\ spelling' = spelling /\ pc'[h] \notin BeforeIntent
    BY <1>12 DEF WriteNext, WriteInternal, CloseAll, Remove, EndProducer, Leave, PathInv,
                 BeforeIntent
  <2> QED
    BY <1>9, <2>1, <2>2 DEF A, runVars
<1>13. CASE AcquirePermit(h) \/ Abandon(h) \/ ReleasePermit(h)
  <2>1. authorizations' = authorizations
    BY <1>13 DEF AcquirePermit, Abandon, ReleasePermit, IssuePermit, Release, runVars
  <2>2. seen' = seen /\ spelling' = spelling /\ pc'[h] \notin BeforeIntent
    BY <1>13 DEF AcquirePermit, Abandon, ReleasePermit, PathInv, BeforeIntent
  <2> QED
    BY <1>9, <2>1, <2>2 DEF A
<1> QED
  BY <1>5, <1>6, <1>7, <1>8, <1>10, <1>11, <1>12, <1>13 DEF Handler

\* The run is cancelled once, out of epoch 0.
LEMMA PathStep ==
  ASSUME GatewayInv, PathInv, [Next]_vars
  PROVE  PathInv'
<1>1. pc' \in [Attempts -> Positions]
  BY AdmissionStep DEF GatewayInv, AdmissionInv
<1>2. ASSUME UNCHANGED <<pc, seen, spelling, raised, runVars>> PROVE PathInv'
  BY <1>2 DEF PathInv, runVars, A, C
<1>3. CASE UNCHANGED vars
  BY <1>2, <1>3 DEF vars, handlerVars
<1>4. CASE CancelRun
  <2>1. UNCHANGED <<pc, seen, spelling, raised, authorizations>>
    BY <1>4 DEF CancelRun, Cancel, handlerVars
  <2>2. cancellation'.cancelled_epoch = 0 /\ cancellation'.new_epoch = 1
    BY <1>4 DEF CancelRun, Cancel, GatewayInv, RunInv, CancelledAgrees, C
  <2> QED
    BY <2>1, <2>2 DEF PathInv, A, C
<1>5. CASE BootDegraded \/ Boot \/ NoticeKillFile \/ ListenerEnds \/ (Watcher /\ ~CancelRun)
  BY <1>2, <1>5, WatcherLeavesHandlers, WatcherOutsideLock DEF Watcher, handlerVars
<1> QED
  BY <1>1, <1>3, <1>4, <1>5, PathHandlerStep DEF GatewayInv, Next

\* No record was lost: every write returned, and the run is open or was sealed.
OnTrack == /\ healthy /\ openFaults = OpenFaults
           /\ sealed \/ wpc \notin {"timing_out", "done", "exited"}

Entries ==
  [state : TERMINAL \cup {"NONE", "AUTHORIZED", "PERMITTED", "ATTEMPTED"},
   late_auth : BOOLEAN, conn_id : Attempts \cup {"none"}, epoch : Nat,
   auth_seq : Nat, permit_seq : Nat, release_seq : Nat,
   binding : {"none", "binding"}, pin : {"none", "pin"}, facts : {"none", Canonical},
   response : {"none", "response"}, allow : BOOLEAN, terminated : BOOLEAN]

Numbers(e) == {e.auth_seq, e.permit_seq, e.release_seq}

Fresh(e) == ~e.allow /\ ~e.terminated
Settled(e) == e.state \in TERMINAL /\ (e.state = COMPLETED => e.allow)

\* The lists of records that an entry can be settled with.
Leading(list, e) ==
  \/ list = <<BLOCKED>> /\ (e.state = "NONE" \/ Settled(e))
  \/ list = <<BLOCKED, BLOCKED>> /\ e.state = UNKNOWN
  \/ /\ list \in {<<FAILED, BLOCKED>>, <<CANCELLED, BLOCKED>>}
     /\ e.state \in {"AUTHORIZED", "PERMITTED"} /\ Fresh(e)
  \/ /\ list \in {<<UNKNOWN, BLOCKED>>, <<UNKNOWN, BLOCKED, BLOCKED>>,
                  <<UNKNOWN, CONN_TERMINATED>>, <<COMPLETED, ALLOW>>}
     /\ e.state = "ATTEMPTED" /\ Fresh(e)
  \/ list = <<ALLOW>> /\ e.state = COMPLETED /\ ~e.allow
  \/ list = <<CONN_TERMINATED>> /\ e.state = UNKNOWN /\ ~e.terminated

\* The state of an entry whose handler is at position p with list to write; x says
\* whether an exception went out of _inside, which may leave an intent open.
StateFits(p, list, e, x) ==
  /\ p \in BeforeIntent \cup {"auth"} => e.state = "NONE"
  /\ p \in {"opening", "permitting", "permit"} => e.state = "AUTHORIZED" /\ Fresh(e)
  /\ p \in {"checking", "attempt"} => e.state = "PERMITTED" /\ Fresh(e)
  /\ p \in AtTarget \cup {"interrupted"} => e.state = "ATTEMPTED" /\ Fresh(e)
  /\ p = "writing" => Leading(list, e)
  /\ p \in {"denying", "releasing", "release"} => Settled(e)
  /\ p \in {"internal", "closing", "removing", "ending", "gone"} =>
       e.state = "NONE" \/ Settled(e) \/ (e.state = "AUTHORIZED" /\ x)
  /\ p # "abandoning"

\* The lock's A, P and R of an attempt are on disk, but the one being written.
NumbersFit(p, e, a, q, r) ==
  /\ e.auth_seq = IF p = "auth" THEN 0 ELSE a
  /\ e.permit_seq = IF p = "permit" THEN 0 ELSE q
  /\ e.release_seq = IF p = "release" THEN 0 ELSE r
  /\ e.state # "NONE" => a # 0
  /\ e.state = "NONE" => q = 0 /\ r = 0
  /\ p \in {"opening", "permitting", "writing"} => r = 0
  /\ e.state = "AUTHORIZED" /\ p # "permit" => q = 0

\* What the records of attempt h have in common; a late AUTH never gets a permit.
FactsFit(h, e, c, q) ==
  /\ e.state # "NONE" => /\ e.conn_id = h /\ e.epoch = 0 /\ e.binding = "binding"
                         /\ e.pin = "pin" /\ e.facts = Canonical
  /\ e.state \in TERMINAL => e.response = "response"
  /\ e.late_auth => c /\ q = 0

Fits(h) ==
  /\ StateFits(pc[h], todo[h], vatt[h], raised[h])
  /\ NumbersFit(pc[h], vatt[h], A(h), P(h), R(h))
  /\ FactsFit(h, vatt[h], cancelled, P(h))

BeforeRequest == {"boot", "bind", "watching", "cancelling", "killing", "marking", "shutting",
                  "stopping", "requesting"}
Draining == {"draining", "listening", "quiescing", "sampling", "counting", "kill_switch"}
BeforeSwitch == BeforeRequest \cup {"linearizing"} \cup Draining
AfterSwitch == {"acking", "sealing", "done", "exited"}

RunFits ==
  /\ wpc \in BeforeSwitch \cup AfterSwitch
  /\ wpc \in {"boot", "bind"} => ~vstartup /\ ~vactive
  /\ wpc \in BeforeRequest => vrun = "RUNNING"
  /\ wpc = "linearizing" =>
       /\ vrun = "CANCEL_REQUESTED"
       /\ vreq = [lifecycle_seq |-> C, cancellation_epoch |-> cancellation.new_epoch]
  /\ wpc \in Draining => vrun = "CANCEL_LINEARIZED" /\ evidence
  /\ wpc = "acking" => vrun = "CANCEL_LINEARIZED" /\ vkill = Common(DrainRecord(CANCEL_ACK))
  /\ wpc = "sealing" => vrun = "ACKNOWLEDGED"
  /\ sealed => vrun = "CLOSED"
  /\ vcancel = IF wpc \in BeforeRequest \cup {"linearizing"} THEN NoCancel ELSE cancellation
  /\ Killed <=> wpc \in AfterSwitch

UsedInv ==
  \A n \in vseqs : /\ n # 0
                   /\ n = vcancel.lifecycle_seq \/ \E a \in Attempts : n \in Numbers(vatt[a])

\* The scan is in step with the gateway.
Tracked == /\ vatt \in [Attempts -> Entries]
           /\ \A h \in Attempts : Fits(h)
           /\ RunFits /\ UsedInv

\* What a record of an undamaged history may be refused for.
StatusOK ==
  \/ vstatus \in {NoFault, "POST_CANCELLATION_EFFECT"}
  \/ vstatus = "CONTEXT_BINDING_MISMATCH" /\ MaxConnections = 0
  \/ /\ vstatus \in {"BINDING_MISMATCH", "CONNECTION_TERMINATED_BINDING_MISMATCH"}
     /\ \E h \in Attempts : spelling[h] # Canonical
  \/ /\ vstatus = "INCOMPLETE_ATTEMPT"
     /\ \E h \in Attempts : raised[h] /\ vatt[h].state = "AUTHORIZED"

TrackInv == OnTrack => StatusOK /\ (vstatus = NoFault => Tracked)

\* All that is known of the gateway besides.
Base == GatewayInv /\ EvidenceInv /\ NumberedInv /\ ServeInv /\ FaultsInv /\ PathInv

\* The run as the verifier sees it does not move when the watcher does not.
LEMMA RunFitsKept ==
  ASSUME RunFits, wpc \notin {"boot", "bind"},
         UNCHANGED <<wpc, victims, torn, evidence, sample, sealed, epoch, cancellation,
                     vrun, vreq, vcancel, vkill>>
  PROVE  RunFits'
<1>1. DrainRecord(CANCEL_ACK)' = DrainRecord(CANCEL_ACK) /\ C' = C
  BY DEF DrainRecord, C, quiescent, blockers, listener_down
<1>2. Common(DrainRecord(CANCEL_ACK))' = Common(DrainRecord(CANCEL_ACK))
  BY <1>1 DEF Common
<1>3. Killed' = Killed
  BY DEF Killed
<1> QED
  BY <1>1, <1>2, <1>3 DEF RunFits

\* An attempt that is not touched stays in step, also when the run is cancelled.
LEMMA FitsKept ==
  ASSUME NEW g \in Attempts, Fits(g), pc'[g] = pc[g], todo'[g] = todo[g], vatt'[g] = vatt[g],
         raised'[g] = raised[g],
         A(g)' = A(g), P(g)' = P(g), R(g)' = R(g), cancelled => cancelled'
  PROVE  Fits(g)'
BY DEF Fits, FactsFit

\* A handler that stays in step with its entry keeps everything in step.
LEMMA TrackedMove ==
  ASSUME Tracked, NEW h \in Attempts, OthersKept(h), wpc \notin {"boot", "bind"},
         UNCHANGED <<watcherVars, sealed, vrun, vreq, vcancel, vkill>>,
         vatt' \in [Attempts -> Entries], \A g \in Attempts \ {h} : vatt'[g] = vatt[g],
         Fits(h)',
         \A n \in vseqs' : n \in vseqs \/ (n # 0 /\ n \in Numbers(vatt'[h])),
         \A n \in Numbers(vatt[h]) : n = 0 \/ n \in Numbers(vatt'[h])
  PROVE  Tracked'
<1>1. RunFits'
  BY RunFitsKept DEF Tracked, OthersKept, watcherVars
<1>2. \A g \in Attempts : Fits(g)'
  <2>1. ASSUME NEW g \in Attempts \ {h} PROVE Fits(g)'
    BY FitsKept DEF Tracked, OthersKept
  <2> QED
    BY <2>1
<1>3. UsedInv'
  <2> SUFFICES ASSUME NEW n \in vseqs'
               PROVE  n # 0 /\ (n = vcancel.lifecycle_seq \/ \E a \in Attempts : n \in Numbers(vatt'[a]))
    BY DEF UsedInv, Numbers
  <2>1. CASE n \in vseqs
    <3>1. n # 0 /\ (n = vcancel.lifecycle_seq \/ \E a \in Attempts : n \in Numbers(vatt[a]))
      BY <2>1 DEF Tracked, UsedInv
    <3>2. ASSUME NEW a \in Attempts, n \in Numbers(vatt[a])
          PROVE  \E b \in Attempts : n \in Numbers(vatt'[b])
      BY <3>1, <3>2
    <3> QED
      BY <3>1, <3>2
  <2> QED
    BY <2>1
<1> QED
  BY <1>1, <1>2, <1>3 DEF Tracked

\* A handler that moves without changing its entry.
LEMMA TrackedStill ==
  ASSUME Tracked, NEW h \in Attempts, OthersKept(h), wpc \notin {"boot", "bind"},
         UNCHANGED <<watcherVars, sealed, vrun, vreq, vcancel, vkill, vatt, vseqs>>, Fits(h)'
  PROVE  Tracked'
BY TrackedMove DEF Tracked

\* A handler that moves with a record that updates its entry.
LEMMA TrackedUpdate ==
  ASSUME Tracked, NEW h \in Attempts, OthersKept(h), wpc \notin {"boot", "bind"},
         UNCHANGED <<watcherVars, sealed>>,
         NEW e \in Entries, NEW seqs, UpdateAttempt(h, e, seqs),
         \A n \in seqs : n # 0 /\ n \in Numbers(e),
         \A n \in Numbers(vatt[h]) : n = 0 \/ n \in Numbers(e),
         StateFits(pc'[h], todo'[h], e, raised'[h]), NumbersFit(pc'[h], e, A(h)', P(h)', R(h)'),
         FactsFit(h, e, cancelled', P(h)')
  PROVE  Tracked'
<1>1. /\ vatt' \in [Attempts -> Entries] /\ vatt'[h] = e
      /\ \A g \in Attempts \ {h} : vatt'[g] = vatt[g]
      /\ UNCHANGED <<vrun, vreq, vcancel, vkill>> /\ vseqs' = vseqs \cup seqs
  BY DEF Tracked, UpdateAttempt
<1>2. Fits(h)'
  BY <1>1 DEF Fits
<1> QED
  BY <1>1, <1>2, TrackedMove

\* A history that is undamaged after a step of a handler was so before.
LEMMA HandlerOnTrack ==
  ASSUME Base, NEW h \in Attempts, Accept(h) \/ ReadRequest(h) \/ Refuse(h) \/ Handler(h), OnTrack'
  PROVE  OnTrack /\ sealed' = sealed /\ UNCHANGED watcherVars /\ wpc \notin {"boot", "bind"}
<1>1. UNCHANGED watcherVars /\ wpc' = wpc
  BY HandlerLeavesWatcher DEF watcherVars
<1>2. sealed' = sealed
  BY HandlerKeepsVerdict DEF Base, GatewayInv
<1>3. FaultsLeft
  BY HandlerSink, SinkFaults DEF Base
<1>4. openFaults = OpenFaults
  BY <1>3, FaultBounds DEF FaultsLeft, FaultsInv, OnTrack, Base
<1> QED
  BY <1>1, <1>2, <1>3, <1>4, NoHandlerAtBoot DEF OnTrack, FaultsLeft, Base

\* While a handler may still write, the verifier still expects records.
LEMMA StillOpen ==
  ASSUME Base, Tracked, OnTrack, NEW h \in Attempts, pc[h] \notin Outside
  PROVE  ~sealed /\ ~NotDraining /\ wpc \in BeforeSwitch
<1>1. producers # 0
  BY NoProducers DEF Base, GatewayInv, Producing
<1>2. ~sealed /\ wpc \notin {"timing_out", "done", "exited"}
  BY <1>1 DEF Base, GatewayInv, QuietInv, SealInv, Quiet, OnTrack
<1>3. wpc \notin {"acking", "sealing"}
  <2> SUFFICES ASSUME wpc \in {"acking", "sealing"} PROVE FALSE
    OBVIOUS
  <2>1. quiescent
    BY DEF Base, GatewayInv, QuietInv, SampleInv
  <2>2. sample.producers = 0
    BY <2>1 DEF quiescent, blockers, listener_down
  <2> QED
    BY <1>1, <2>2 DEF Base, GatewayInv, QuietInv, SampleInv, AfterProducers
<1>4. wpc \in BeforeSwitch
  BY <1>2, <1>3 DEF Tracked, RunFits, AfterSwitch
<1>5. vrun \in {"RUNNING", "CANCEL_REQUESTED", "CANCEL_LINEARIZED"}
  BY <1>4 DEF Tracked, RunFits, BeforeSwitch
<1>6. ~Killed
  BY <1>4 DEF Tracked, RunFits, BeforeSwitch, AfterSwitch, BeforeRequest, Draining
<1> QED
  BY <1>2, <1>4, <1>5, <1>6 DEF NotDraining

\* A write that raises damages the history.
LEMMA NoLoss ==
  ASSUME FaultsInv, OnTrack, OnTrack', ~sealed, NEW r PROVE ~Raises(r)
BY FaultBounds DEF FaultsInv, OnTrack, Raises

\* Before the verifier's run state leaves RUNNING the run has been cancelled.
LEMMA LateIsCancelled ==
  ASSUME Base, Tracked, wpc \in BeforeSwitch
  PROVE  /\ vrun # "RUNNING" => cancelled
         /\ Linearized => vcancel = cancellation /\ C # 0
<1>1. vrun # "RUNNING" => cancelled
  BY DEF Base, GatewayInv, QuietInv, KillInv, Tracked, RunFits, BeforeSwitch, BeforeRequest,
         Draining, BeforeCancel
<1>2. Linearized => vcancel = cancellation
  BY DEF Tracked, RunFits, Linearized, NoCancel
<1> QED
  BY <1>1, <1>2 DEF Linearized, C

\* The steps of a handler that neither write nor enter the lock.
LEMMA MoveTracked ==
  ASSUME Base, Tracked, OnTrack, OnTrack', NEW h \in Attempts,
         \/ Accept(h) \/ ReadRequest(h) \/ BeginProducer(h) \/ Add(h) \/ Decide(h)
         \/ WrapClient(h) \/ OwnClient(h) \/ DecideInside(h) \/ OpenUpstream(h)
         \/ CheckTerminal(h) \/ Connect(h) \/ OwnUpstream(h) \/ SendRequest(h) \/ Stream(h)
         \/ CloseAll(h) \/ Remove(h) \/ EndProducer(h)
  PROVE  Tracked'
<1>1. /\ Accept(h) \/ ReadRequest(h) \/ Refuse(h) \/ Handler(h)
      /\ runVars' = runVars
  BY HandlerOutsideLock DEF Handler
<1>2. OthersKept(h) /\ sealed' = sealed /\ UNCHANGED watcherVars /\ wpc \notin {"boot", "bind"}
  BY <1>1, HandlerFrame, HandlerOnTrack DEF Base, GatewayInv
<1>3. A(h)' = A(h) /\ P(h)' = P(h) /\ R(h)' = R(h) /\ cancelled' = cancelled
  BY <1>1 DEF runVars, A, P, R
<1>4. /\ pc \in [Attempts -> Positions] /\ todo = [g \in Attempts |-> todo[g]]
      /\ raised = [g \in Attempts |-> raised[g]] /\ Fits(h)
  BY DEF Base, GatewayInv, TodoInv, PathInv, Tracked
<1>5. ASSUME sinkVars' = sinkVars, StateFits(pc'[h], todo'[h], vatt[h], raised'[h]),
             NumbersFit(pc'[h], vatt[h], A(h), P(h), R(h))
      PROVE  Tracked'
  <2>1. UNCHANGED <<vrun, vreq, vcancel, vkill, vatt, vseqs>>
    BY <1>5 DEF sinkVars
  <2>2. Fits(h)'
    BY <1>3, <1>4, <1>5, <2>1 DEF Fits
  <2> QED
    BY <1>2, <2>1, <2>2, TrackedStill
<1>6. /\ StateFits(pc[h], todo[h], vatt[h], raised[h]) /\ NumbersFit(pc[h], vatt[h], A(h), P(h), R(h))
  BY <1>4 DEF Fits
<1> USE <1>4, <1>6 DEF Running, Goto, Writing, StateFits, NumbersFit, BeforeIntent, AtTarget
<1>7. CASE Accept(h) \/ ReadRequest(h) \/ BeginProducer(h)
  BY <1>5, <1>7 DEF Accept, ReadRequest, BeginProducer
<1>8. CASE Add(h) \/ Decide(h)
  BY <1>5, <1>8 DEF Add, Decide, Leading
<1>9. CASE WrapClient(h) \/ OwnClient(h) \/ DecideInside(h)
  BY <1>5, <1>9 DEF WrapClient, OwnClient, DecideInside, Leading
<1>10. CASE OpenUpstream(h) \/ CheckTerminal(h)
  <2>1. pc[h] = "checking" => R(h) = 0
    BY DEF Base, EvidenceInv, HoldsPermit, Attempting, GatewayInv, RunInv, OutstandingPermits
  <2> QED
    BY <1>5, <1>10, <2>1 DEF OpenUpstream, CheckTerminal, Leading
<1>11. pc[h] \in AtTarget => R(h) = 0
  BY DEF Base, EvidenceInv, HoldsPermit, Attempting, GatewayInv, RunInv, OutstandingPermits
<1>12. CASE Connect(h) \/ SendRequest(h) \/ Stream(h)
  BY <1>5, <1>11, <1>12 DEF Connect, SendRequest, Stream, Leading
<1>13. CASE OwnUpstream(h)
  BY <1>5, <1>11, <1>13 DEF OwnUpstream, Leading
<1>14. CASE CloseAll(h) \/ Remove(h) \/ EndProducer(h)
  BY <1>5, <1>14 DEF CloseAll, Remove, EndProducer, Locally
<1> QED
  BY <1>7, <1>8, <1>9, <1>10, <1>12, <1>13, <1>14

\* The steps of a handler in the lock: the number taken is not on disk yet.
LEMMA LockTracked ==
  ASSUME Base, Tracked, OnTrack, OnTrack', NEW h \in Attempts,
         AllocateAuth(h) \/ AcquirePermit(h) \/ Abandon(h) \/ ReleasePermit(h)
  PROVE  Tracked'
<1>1. OthersKept(h) /\ sealed' = sealed /\ UNCHANGED watcherVars /\ wpc \notin {"boot", "bind"}
  BY HandlerFrame, HandlerOnTrack DEF Base, GatewayInv, Handler
<1>2. UNCHANGED <<vrun, vreq, vcancel, vkill, vatt, vseqs>>
  BY DEF AllocateAuth, AcquirePermit, Abandon, ReleasePermit, sinkVars
<1>3. /\ pc \in [Attempts -> Positions] /\ todo = [g \in Attempts |-> todo[g]]
      /\ Fits(h) /\ cancelled' = cancelled
  BY <1>1 DEF Base, GatewayInv, TodoInv, Tracked, OthersKept
<1>4. ASSUME StateFits(pc'[h], todo'[h], vatt[h], raised'[h]),
             NumbersFit(pc'[h], vatt[h], A(h)', P(h)', R(h)'), FactsFit(h, vatt[h], cancelled, P(h)')
      PROVE  Tracked'
  <2>1. Fits(h)'
    BY <1>2, <1>3, <1>4 DEF Fits
  <2> QED
    BY <1>1, <1>2, <2>1, TrackedStill
<1>5. /\ authorizations \in [Attempts -> [epoch : Epochs, seq : Nat]] /\ sequence \in Nat
      /\ permitSeq \in [Attempts -> Nat] /\ releaseSeq \in [Attempts -> Nat]
  BY DEF Base, GatewayInv, RunInv, RunTypeOK
<1>6. /\ StateFits(pc[h], todo[h], vatt[h], raised[h]) /\ NumbersFit(pc[h], vatt[h], A(h), P(h), R(h))
      /\ FactsFit(h, vatt[h], cancelled, P(h))
  BY <1>3 DEF Fits
<1> USE <1>3, <1>6 DEF Running, Goto, Writing
<1>7. CASE AllocateAuth(h)
  <2>1. /\ pc[h] = "authorizing" /\ A(h) = 0 /\ P(h)' = P(h) /\ R(h)' = R(h)
        /\ vatt[h].state = "NONE"
    BY <1>7 DEF AllocateAuth, Authorize, runVars, P, R, Base, PathInv, BeforeIntent, StateFits
  <2>2. \/ pc'[h] = "auth"
        \/ pc'[h] = "writing" /\ todo'[h] = <<BLOCKED>> /\ A(h)' = A(h)
    BY <1>7 DEF AllocateAuth, runVars, A
  <2>3. StateFits(pc'[h], todo'[h], vatt[h], raised'[h])
    BY <2>1, <2>2 DEF StateFits, BeforeIntent, AtTarget, Leading
  <2>4. NumbersFit(pc'[h], vatt[h], A(h)', P(h)', R(h)')
    BY <2>1, <2>2 DEF NumbersFit
  <2> QED
    BY <1>4, <2>1, <2>3, <2>4
<1>8. CASE AcquirePermit(h)
  <2>1. /\ pc[h] = "permitting" /\ A(h)' = A(h) /\ R(h)' = R(h)
        /\ vatt[h].state = "AUTHORIZED" /\ Fresh(vatt[h]) /\ P(h) = 0 /\ R(h) = 0
    BY <1>8 DEF AcquirePermit, IssuePermit, runVars, A, R, StateFits, NumbersFit
  <2>2. \/ pc'[h] = "permit" /\ ~cancelled
        \/ pc'[h] = "writing" /\ todo'[h] = <<CANCELLED, BLOCKED>> /\ P(h)' = P(h)
    BY <1>8 DEF AcquirePermit, IssuePermit, MayIssuePermit, runVars, P
  <2>3. StateFits(pc'[h], todo'[h], vatt[h], raised'[h])
    BY <2>1, <2>2 DEF StateFits, BeforeIntent, AtTarget, Leading
  <2>4. NumbersFit(pc'[h], vatt[h], A(h)', P(h)', R(h)')
    BY <2>1, <2>2 DEF NumbersFit
  <2>5. FactsFit(h, vatt[h], cancelled, P(h)')
    BY <2>1, <2>2 DEF FactsFit
  <2> QED
    BY <1>4, <2>3, <2>4, <2>5
<1>9. CASE Abandon(h)
  BY <1>9 DEF Abandon, StateFits
<1>10. CASE ReleasePermit(h)
  <2>1. /\ pc[h] = "releasing" /\ A(h)' = A(h) /\ P(h)' = P(h) /\ R(h) = 0
        /\ Settled(vatt[h]) /\ pc'[h] = "release" /\ vatt[h].state # "NONE"
        /\ vatt[h].state # "AUTHORIZED"
    BY <1>10 DEF ReleasePermit, Release, A, P, StateFits, Base, GatewayInv, RunInv, OutstandingPermits,
                 Settled, TERMINAL, COMPLETED, FAILED, UNKNOWN, CANCELLED
  <2>2. StateFits(pc'[h], todo'[h], vatt[h], raised'[h])
    BY <2>1 DEF StateFits, BeforeIntent, AtTarget
  <2>3. NumbersFit(pc'[h], vatt[h], A(h)', P(h)', R(h)')
    BY <2>1 DEF NumbersFit
  <2> QED
    BY <1>4, <2>1, <2>2, <2>3
<1> QED
  BY <1>7, <1>8, <1>9, <1>10

\* What a record of handler h says.
LEMMA RecordFields ==
  ASSUME NEW h, NEW d
  PROVE  /\ Record(h, d).decision = d /\ Record(h, d).attempt_id = h
         /\ Record(h, d).conn_id = h /\ Record(h, d).epoch = seen[h]
         /\ Record(h, d).permit_seq = P(h) /\ Record(h, d).binding = "binding"
         /\ Record(h, d).pin = "pin" /\ Record(h, d).response = "response"
         /\ d = AUTH => Record(h, d).lifecycle_seq = A(h) /\ Record(h, d).facts = Canonical
         /\ d = PERMIT => Record(h, d).lifecycle_seq = P(h)
         /\ d = PERMIT_RELEASED => Record(h, d).lifecycle_seq = R(h)
         /\ d # AUTH => Record(h, d).facts = spelling[h]
         /\ Of(Record(h, d)) = vatt[h]
BY DEF Record, Of, AUTH, PERMIT, PERMIT_RELEASED

\* A handler's write to an undamaged history is durable and is scanned next.
LEMMA HandlerTakes ==
  ASSUME Base, Tracked, OnTrack, OnTrack', vstatus = NoFault,
         NEW h \in Attempts, pc[h] \notin Outside, NEW r, Appends(r) \/ Raises(r)
  PROVE  Appends(r) /\ Take(r)
<1>1. ~sealed
  BY StillOpen
<1> QED
  BY <1>1, NoLoss DEF Appends, Scan, Base

\* A number that is being written is not in use.
LEMMA Unused ==
  ASSUME Base, Tracked
  PROVE  /\ \A h \in Attempts :
              /\ pc[h] = "auth" => A(h) \notin vseqs
              /\ pc[h] = "permit" => P(h) \notin vseqs
              /\ pc[h] = "release" => R(h) \notin vseqs
         /\ wpc = "linearizing" => C \notin vseqs
<1>1. \A n \in vseqs : n # 0 /\ (n = vcancel.lifecycle_seq \/ \E a \in Attempts : n \in Numbers(vatt[a]))
  BY DEF Tracked, UsedInv
<1>2. vcancel.lifecycle_seq \in {0, C}
  BY DEF Tracked, RunFits, NoCancel, C
<1>3. \A a \in Attempts :
        /\ vatt[a].auth_seq = IF pc[a] = "auth" THEN 0 ELSE A(a)
        /\ vatt[a].permit_seq = IF pc[a] = "permit" THEN 0 ELSE P(a)
        /\ vatt[a].release_seq = IF pc[a] = "release" THEN 0 ELSE R(a)
  BY DEF Tracked, Fits, NumbersFit
<1>4. UniqueSequences
  BY DEF Base, GatewayInv, RunInv
<1>5. ASSUME NEW h \in Attempts, pc[h] = "auth" PROVE A(h) \notin vseqs
  BY <1>1, <1>2, <1>3, <1>4, <1>5 DEF UniqueSequences, Numbers
<1>6. ASSUME NEW h \in Attempts, pc[h] = "permit" PROVE P(h) \notin vseqs
  BY <1>1, <1>2, <1>3, <1>4, <1>6 DEF UniqueSequences, Numbers
<1>7. ASSUME NEW h \in Attempts, pc[h] = "release" PROVE R(h) \notin vseqs
  BY <1>1, <1>2, <1>3, <1>4, <1>7 DEF UniqueSequences, Numbers
<1>8. ASSUME wpc = "linearizing" PROVE C \notin vseqs
  <2>1. vcancel.lifecycle_seq = 0
    BY <1>8 DEF Tracked, RunFits, NoCancel
  <2> QED
    BY <1>1, <1>3, <1>4, <2>1 DEF UniqueSequences, Numbers
<1> QED
  BY <1>5, <1>6, <1>7, <1>8

\* An intent or a permit of the cancelled epoch is numbered before the cancellation.
LEMMA BeforeTheCancel ==
  ASSUME Base, Tracked, wpc \in BeforeSwitch, NEW h \in Attempts, A(h) # 0,
         NEW r, r.epoch = seen[h], r.lifecycle_seq \in {A(h), P(h)}
  PROVE  Linearized => ~NotBeforeCancel(r)
<1> SUFFICES ASSUME Linearized PROVE ~NotBeforeCancel(r)
  OBVIOUS
<1>1. vcancel = cancellation /\ C # 0
  BY LateIsCancelled
<1>2. A(h) < C /\ P(h) < C /\ A(h) \in Nat /\ P(h) \in Nat /\ C \in Nat
  BY <1>1 DEF Base, GatewayInv, RunInv, RunTypeOK, SequenceEquations, A, P, C
<1>3. r.epoch = 0 /\ cancellation.cancelled_epoch = 0
  BY <1>1 DEF Base, PathInv
<1>4. ~(r.lifecycle_seq >= C)
  BY <1>2
<1> QED
  BY <1>1, <1>3, <1>4 DEF NotBeforeCancel, C

\* What a step of a handler must keep of an undamaged history.
Keeps == StatusOK' /\ (vstatus' = NoFault => Tracked')

\* The entry that AUTH_COMMITTED makes.
NewEntry(l, h, n) ==
  [NoAttempt EXCEPT !.state = "AUTHORIZED", !.late_auth = l, !.conn_id = h, !.epoch = 0,
                    !.auth_seq = n, !.binding = "binding", !.pin = "pin", !.facts = Canonical]

\* Its fields.
LEMMA AuthEntry ==
  ASSUME NEW l \in BOOLEAN, NEW h \in Attempts, NEW n \in Nat,
         NEW e, e = NewEntry(l, h, n)
  PROVE  /\ e.state = "AUTHORIZED" /\ e.late_auth = l /\ e.conn_id = h
         /\ e.epoch = 0 /\ e.auth_seq = n /\ e.permit_seq = 0 /\ e.release_seq = 0
         /\ e.binding = "binding" /\ e.pin = "pin" /\ e.facts = Canonical /\ Fresh(e)
         /\ e \in Entries
<1> DEFINE k1 == [NoAttempt EXCEPT !.state = "AUTHORIZED", !.late_auth = l]
           k2 == [k1 EXCEPT !.conn_id = h, !.epoch = 0]
           k3 == [k2 EXCEPT !.auth_seq = n, !.binding = "binding"]
           k4 == [k3 EXCEPT !.pin = "pin", !.facts = Canonical]
<1>1. NoAttempt \in Entries
  BY DEF NoAttempt, Entries
<1>2. k1 \in Entries
  BY <1>1 DEF Entries
<1>3. k2 \in Entries
  <2> HIDE DEF k1
  <2> QED
    BY <1>2 DEF Entries
<1>4. k3 \in Entries
  <2> HIDE DEF k2
  <2> QED
    BY <1>3 DEF Entries
<1>5. k4 \in Entries
  <2> HIDE DEF k3
  <2> QED
    BY <1>4 DEF Entries
<1>6. e = k4
  BY DEF NewEntry
<1>7. /\ e.state = "AUTHORIZED" /\ e.late_auth = l /\ e.conn_id = h
      /\ e.epoch = 0 /\ e.auth_seq = n /\ e.permit_seq = 0 /\ e.release_seq = 0
      /\ e.binding = "binding" /\ e.pin = "pin" /\ e.facts = Canonical
      /\ ~e.allow /\ ~e.terminated
  BY DEF NewEntry, NoAttempt
<1> HIDE DEF k4
<1> QED
  BY <1>5, <1>6, <1>7 DEF Fresh

\* AUTH_COMMITTED is accepted.
LEMMA AuthTracked ==
  ASSUME Base, Tracked, OnTrack, OnTrack', vstatus = NoFault, NEW h \in Attempts, WriteAuth(h)
  PROVE  Keeps
<1> DEFINE r == Record(h, AUTH)
<1>1. /\ OthersKept(h) /\ sealed' = sealed /\ UNCHANGED watcherVars /\ wpc \notin {"boot", "bind"}
      /\ cancelled' = cancelled
  BY HandlerFrame, HandlerOnTrack DEF Base, GatewayInv, Handler, OthersKept
<1>2. A(h)' = A(h) /\ P(h)' = P(h) /\ R(h)' = R(h)
  BY HandlerOutsideLock DEF runVars, A, P, R
<1>3. /\ pc[h] = "auth" /\ A(h) # 0 /\ A(h) \in Nat /\ pc \in [Attempts -> Positions]
      /\ Appends(r) \/ Raises(r)
  BY DEF WriteAuth, WriteOr, Running, Base, NumberedInv, GatewayInv, RunInv, RunTypeOK, A
<1>4. Appends(r) /\ Take(r) /\ ~NotDraining /\ wpc \in BeforeSwitch /\ ~sealed
  BY <1>3, HandlerTakes, StillOpen DEF Outside
<1>5. pc'[h] = "opening"
  BY <1>3, <1>4, NoLoss DEF WriteAuth, WriteOr, Goto, Base
<1>6. Fits(h) /\ vatt[h].state = "NONE" /\ seen[h] = 0
  BY <1>3 DEF Tracked, Fits, StateFits, Base, PathInv
<1>7. /\ r.decision = AUTH /\ r.attempt_id = h /\ r.conn_id = h /\ r.epoch = seen[h]
      /\ r.lifecycle_seq = A(h) /\ r.binding = "binding" /\ r.pin = "pin"
      /\ r.facts = Canonical /\ Of(r) = vatt[h]
  BY RecordFields
<1> HIDE DEF r
<1>8. TakeAuth(r)
  BY <1>4, <1>7, TakeBranch
<1>9. A(h) \notin vseqs
  BY <1>3, Unused
<1>10. Linearized => ~NotBeforeCancel(r)
  BY <1>3, <1>4, <1>7, BeforeTheCancel
<1> DEFINE e == [NoAttempt EXCEPT !.state = "AUTHORIZED", !.late_auth = vrun # "RUNNING",
              !.conn_id = r.conn_id, !.epoch = r.epoch, !.auth_seq = r.lifecycle_seq,
              !.binding = r.binding, !.pin = r.pin, !.facts = r.facts]
<1>11. vstatus' = NoFault /\ UpdateAttempt(h, e, {A(h)})
  BY <1>4, <1>6, <1>7, <1>8, <1>9, <1>10, AuthAccepted
<1>12. e = [NoAttempt EXCEPT !.state = "AUTHORIZED", !.late_auth = (vrun # "RUNNING"),
              !.conn_id = r.conn_id, !.epoch = r.epoch, !.auth_seq = r.lifecycle_seq,
              !.binding = r.binding, !.pin = r.pin, !.facts = r.facts]
  OBVIOUS
<1> HIDE DEF e
<1>13. /\ e.state = "AUTHORIZED" /\ e.late_auth = (vrun # "RUNNING") /\ e.conn_id = h
       /\ e.epoch = 0 /\ e.auth_seq = A(h) /\ e.permit_seq = 0 /\ e.release_seq = 0
       /\ e.binding = "binding" /\ e.pin = "pin" /\ e.facts = Canonical /\ Fresh(e)
       /\ e \in Entries
  <2> DEFINE l == vrun # "RUNNING"
  <2>1. e = NewEntry(l, h, A(h))
    BY <1>6, <1>7, <1>12, Zenon DEF NewEntry
  <2>2. l \in BOOLEAN
    OBVIOUS
  <2> HIDE DEF l
  <2>3. /\ e.state = "AUTHORIZED" /\ e.late_auth = l /\ e.conn_id = h
        /\ e.epoch = 0 /\ e.auth_seq = A(h) /\ e.permit_seq = 0 /\ e.release_seq = 0
        /\ e.binding = "binding" /\ e.pin = "pin" /\ e.facts = Canonical /\ Fresh(e)
        /\ e \in Entries
    BY <1>3, <2>1, <2>2, AuthEntry
  <2> QED
    BY <2>3, Zenon DEF l
<1>14. vatt[h].auth_seq = 0 /\ vatt[h].permit_seq = 0 /\ vatt[h].release_seq = 0 /\ P(h) = 0 /\ R(h) = 0
  BY <1>3, <1>6 DEF Fits, NumbersFit
<1>15. StateFits(pc'[h], todo'[h], e, raised'[h]) /\ NumbersFit(pc'[h], e, A(h)', P(h)', R(h)')
  BY <1>2, <1>3, <1>5, <1>13, <1>14 DEF StateFits, NumbersFit, BeforeIntent, AtTarget
<1>16. FactsFit(h, e, cancelled', P(h)')
  BY <1>1, <1>2, <1>4, <1>13, <1>14, LateIsCancelled
  DEF FactsFit, TERMINAL, COMPLETED, FAILED, UNKNOWN, CANCELLED
<1>17. Tracked'
  BY <1>1, <1>3, <1>11, <1>13, <1>14, <1>15, <1>16, TrackedUpdate DEF Numbers
<1> QED
  BY <1>11, <1>17 DEF Keeps, StatusOK

\* PERMIT_GRANTED is accepted, also when it is written after the cancellation records.
LEMMA PermitTracked ==
  ASSUME Base, Tracked, OnTrack, OnTrack', vstatus = NoFault, NEW h \in Attempts, WritePermit(h)
  PROVE  Keeps
<1> DEFINE r == Record(h, PERMIT)
<1>1. /\ OthersKept(h) /\ sealed' = sealed /\ UNCHANGED watcherVars /\ wpc \notin {"boot", "bind"}
      /\ cancelled' = cancelled
  BY HandlerFrame, HandlerOnTrack DEF Base, GatewayInv, Handler, OthersKept
<1>2. A(h)' = A(h) /\ P(h)' = P(h) /\ R(h)' = R(h)
  BY HandlerOutsideLock DEF runVars, A, P, R
<1>3. /\ pc[h] = "permit" /\ pc \in [Attempts -> Positions] /\ h \in inflight
      /\ Appends(r) \/ Raises(r)
  BY DEF WritePermit, WriteOr, Running, Base, GatewayInv, AdmissionInv, EvidenceInv, HoldsPermit
<1>4. P(h) # 0 /\ R(h) = 0 /\ A(h) < P(h) /\ A(h) # 0 /\ A(h) \in Nat /\ P(h) \in Nat
  BY <1>3 DEF Base, GatewayInv, RunInv, RunTypeOK, OutstandingPermits, SequenceEquations, A, P
<1>5. Appends(r) /\ Take(r) /\ ~NotDraining /\ wpc \in BeforeSwitch /\ ~sealed
  BY <1>3, HandlerTakes, StillOpen DEF Outside
<1>6. pc'[h] = "checking"
  BY <1>3, <1>5, NoLoss DEF WritePermit, WriteOr, Goto, Base
<1>7. /\ Fits(h) /\ vatt[h].state = "AUTHORIZED" /\ Fresh(vatt[h]) /\ seen[h] = 0
      /\ vatt[h] \in Entries
  BY <1>3, <1>4 DEF Tracked, Fits, StateFits, Base, PathInv
<1>8. /\ vatt[h].auth_seq = A(h) /\ vatt[h].permit_seq = 0 /\ vatt[h].release_seq = 0
      /\ vatt[h].conn_id = h /\ vatt[h].epoch = 0 /\ vatt[h].binding = "binding"
      /\ vatt[h].pin = "pin" /\ vatt[h].facts = Canonical /\ ~vatt[h].late_auth
  BY <1>3, <1>4, <1>7 DEF Fits, NumbersFit, FactsFit
<1>9. /\ r.decision = PERMIT /\ r.attempt_id = h /\ r.conn_id = h /\ r.epoch = seen[h]
      /\ r.lifecycle_seq = P(h) /\ r.binding = "binding" /\ Of(r) = vatt[h]
  BY RecordFields
<1> HIDE DEF r
<1>10. TakePermit(r)
  BY <1>5, <1>9, TakeBranch
<1>11. P(h) \notin vseqs
  BY <1>3, Unused
<1>12. Linearized => ~NotBeforeCancel(r)
  BY <1>4, <1>5, <1>9, BeforeTheCancel
<1>13. ~(Of(r).auth_seq >= r.lifecycle_seq)
  BY <1>4, <1>8, <1>9
<1> DEFINE e == [Of(r) EXCEPT !.state = "PERMITTED", !.permit_seq = r.lifecycle_seq]
<1>14. vstatus' = NoFault /\ UpdateAttempt(h, e, {P(h)})
  BY <1>5, <1>7, <1>8, <1>9, <1>10, <1>11, <1>12, <1>13, PermitAccepted
<1>15. /\ e \in Entries /\ e.state = "PERMITTED" /\ e.permit_seq = P(h) /\ e.auth_seq = A(h)
       /\ e.release_seq = 0 /\ Fresh(e) /\ e.conn_id = h /\ e.epoch = 0 /\ e.binding = "binding"
       /\ e.pin = "pin" /\ e.facts = Canonical /\ ~e.late_auth
  BY <1>4, <1>7, <1>8, <1>9 DEF Entries, Fresh
<1> HIDE DEF e
<1>16. StateFits(pc'[h], todo'[h], e, raised'[h]) /\ NumbersFit(pc'[h], e, A(h)', P(h)', R(h)')
  BY <1>2, <1>4, <1>6, <1>15 DEF StateFits, NumbersFit, BeforeIntent, AtTarget
<1>17. FactsFit(h, e, cancelled', P(h)')
  BY <1>15 DEF FactsFit, TERMINAL, COMPLETED, FAILED, UNKNOWN, CANCELLED
<1>18. Tracked'
  BY <1>1, <1>4, <1>8, <1>14, <1>15, <1>16, <1>17, TrackedUpdate DEF Numbers
<1> QED
  BY <1>14, <1>18 DEF Keeps, StatusOK

\* EFFECT_ATTEMPTED is accepted, or refused when the cancellation records came first.
LEMMA AttemptedTracked ==
  ASSUME Base, Tracked, OnTrack, OnTrack', vstatus = NoFault, NEW h \in Attempts, WriteAttempted(h)
  PROVE  Keeps
<1> DEFINE r == Record(h, ATTEMPTED)
<1>1. /\ OthersKept(h) /\ sealed' = sealed /\ UNCHANGED watcherVars /\ wpc \notin {"boot", "bind"}
      /\ cancelled' = cancelled
  BY HandlerFrame, HandlerOnTrack DEF Base, GatewayInv, Handler, OthersKept
<1>2. A(h)' = A(h) /\ P(h)' = P(h) /\ R(h)' = R(h)
  BY HandlerOutsideLock DEF runVars, A, P, R
<1>3. /\ pc[h] = "attempt" /\ pc \in [Attempts -> Positions]
      /\ Appends(r) \/ Raises(r)
  BY DEF WriteAttempted, WriteOr, Running, Base, GatewayInv, AdmissionInv
<1>4. Appends(r) /\ Take(r) /\ ~NotDraining /\ ~sealed
  BY <1>3, HandlerTakes, StillOpen DEF Outside
<1>5. pc'[h] = "connecting"
  BY <1>3, <1>4, NoLoss DEF WriteAttempted, WriteOr, Goto, Base
<1>6. /\ Fits(h) /\ vatt[h].state = "PERMITTED" /\ Fresh(vatt[h]) /\ vatt[h] \in Entries
  BY <1>3 DEF Tracked, Fits, StateFits
<1>7. /\ NumbersFit(pc[h], vatt[h], A(h), P(h), R(h)) /\ FactsFit(h, vatt[h], cancelled, P(h))
      /\ vatt[h].permit_seq = P(h) /\ A(h) # 0
      /\ vatt[h].conn_id = h /\ vatt[h].epoch = 0 /\ vatt[h].pin = "pin"
  BY <1>3, <1>6 DEF Fits, NumbersFit, FactsFit
<1>8. /\ r.decision = ATTEMPTED /\ r.attempt_id = h /\ r.conn_id = h /\ r.epoch = seen[h]
      /\ r.permit_seq = P(h) /\ r.pin = "pin" /\ Of(r) = vatt[h]
  BY RecordFields
<1> HIDE DEF r
<1>9. TakeAttempted(r) /\ seen[h] = 0
  BY <1>4, <1>7, <1>8, TakeBranch DEF Base, PathInv
<1>10. CASE vrun # "RUNNING"
  BY <1>4, <1>9, <1>10, AttemptedRefused DEF Keeps, StatusOK, NoFault
<1>11. CASE vrun = "RUNNING"
  <2> DEFINE e == [Of(r) EXCEPT !.state = "ATTEMPTED"]
  <2>1. vstatus' = NoFault /\ UpdateAttempt(h, e, {})
    BY <1>4, <1>6, <1>7, <1>8, <1>9, <1>11, AttemptedAccepted
  <2>2. /\ e \in Entries /\ e.state = "ATTEMPTED" /\ Fresh(e)
        /\ e.auth_seq = vatt[h].auth_seq /\ e.permit_seq = vatt[h].permit_seq
        /\ e.release_seq = vatt[h].release_seq /\ e.conn_id = vatt[h].conn_id
        /\ e.epoch = vatt[h].epoch /\ e.binding = vatt[h].binding /\ e.pin = vatt[h].pin
        /\ e.facts = vatt[h].facts /\ e.late_auth = vatt[h].late_auth
    BY <1>6, <1>8 DEF Entries, Fresh
  <2> HIDE DEF e
  <2>3. StateFits(pc'[h], todo'[h], e, raised'[h]) /\ NumbersFit(pc'[h], e, A(h)', P(h)', R(h)')
    BY <1>2, <1>3, <1>5, <1>6, <1>7, <2>2 DEF StateFits, NumbersFit, BeforeIntent, AtTarget
  <2>4. FactsFit(h, e, cancelled', P(h)')
    BY <1>1, <1>2, <1>6, <1>7, <2>2 DEF FactsFit, TERMINAL, COMPLETED, FAILED, UNKNOWN, CANCELLED
  <2>5. Tracked'
    BY <1>1, <2>1, <2>2, <2>3, <2>4, TrackedUpdate DEF Numbers
  <2> QED
    BY <2>1, <2>5 DEF Keeps, StatusOK
<1> QED
  BY <1>10, <1>11

\* The outcome of an attempt that was cut off before its request is accepted.
LEMMA InterruptedTracked ==
  ASSUME Base, Tracked, OnTrack, OnTrack', vstatus = NoFault, NEW h \in Attempts,
         SettleInterrupted(h)
  PROVE  Keeps
<1> DEFINE r == Record(h, UNKNOWN)
<1>1. /\ OthersKept(h) /\ sealed' = sealed /\ UNCHANGED watcherVars /\ wpc \notin {"boot", "bind"}
      /\ cancelled' = cancelled
  BY HandlerFrame, HandlerOnTrack DEF Base, GatewayInv, Handler, OthersKept
<1>2. A(h)' = A(h) /\ P(h)' = P(h) /\ R(h)' = R(h)
  BY HandlerOutsideLock DEF runVars, A, P, R
<1>3. /\ pc[h] = "interrupted" /\ pc \in [Attempts -> Positions]
      /\ Appends(r) \/ Raises(r)
  BY DEF SettleInterrupted, WriteOr, Running, Base, PathInv
<1>4. Appends(r) /\ Take(r) /\ ~NotDraining /\ ~sealed
  BY <1>3, HandlerTakes, StillOpen DEF Outside
<1>5. pc'[h] = "denying"
  BY <1>3 DEF SettleInterrupted, WriteOr, Goto
<1>6. /\ Fits(h) /\ vatt[h].state = "ATTEMPTED" /\ Fresh(vatt[h]) /\ vatt[h] \in Entries
  BY <1>3 DEF Tracked, Fits, StateFits
<1>7. /\ NumbersFit(pc[h], vatt[h], A(h), P(h), R(h)) /\ FactsFit(h, vatt[h], cancelled, P(h))
      /\ vatt[h].permit_seq = P(h) /\ A(h) # 0
      /\ vatt[h].conn_id = h /\ vatt[h].epoch = 0 /\ vatt[h].pin = "pin"
  BY <1>3, <1>6 DEF Fits, NumbersFit, FactsFit
<1>8. /\ r.decision = UNKNOWN /\ r.attempt_id = h /\ r.conn_id = h /\ r.epoch = seen[h]
      /\ r.permit_seq = P(h) /\ r.pin = "pin" /\ r.response = "response" /\ Of(r) = vatt[h]
  BY RecordFields
<1> HIDE DEF r
<1>9. UNKNOWN \in TERMINAL /\ UNKNOWN # COMPLETED /\ LegalTerminal(vatt[h].state, UNKNOWN)
  BY <1>6 DEF TERMINAL, COMPLETED, UNKNOWN, LegalTerminal
<1>10. seen[h] = 0
  BY <1>7 DEF Base, PathInv
<1> DEFINE e == [vatt[h] EXCEPT !.state = UNKNOWN, !.response = "response"]
<1>11. vstatus' = NoFault /\ UpdateAttempt(h, e, {})
  BY <1>4, <1>6, <1>7, <1>8, <1>9, <1>10, TakeBranch, TerminalAccepted
<1>12. /\ e \in Entries /\ e.state = UNKNOWN /\ e.response = "response"
       /\ e.auth_seq = vatt[h].auth_seq /\ e.permit_seq = vatt[h].permit_seq
       /\ e.release_seq = vatt[h].release_seq /\ e.conn_id = vatt[h].conn_id
       /\ e.epoch = vatt[h].epoch /\ e.binding = vatt[h].binding /\ e.pin = vatt[h].pin
       /\ e.facts = vatt[h].facts /\ e.late_auth = vatt[h].late_auth
  BY <1>6, <1>9 DEF Entries
<1> HIDE DEF e
<1>13. StateFits(pc'[h], todo'[h], e, raised'[h]) /\ NumbersFit(pc'[h], e, A(h)', P(h)', R(h)')
  BY <1>2, <1>3, <1>5, <1>6, <1>7, <1>9, <1>12
  DEF StateFits, NumbersFit, BeforeIntent, AtTarget, Settled, UNKNOWN
<1>14. FactsFit(h, e, cancelled', P(h)')
  BY <1>1, <1>2, <1>6, <1>7, <1>12 DEF FactsFit
<1>15. Tracked'
  BY <1>1, <1>11, <1>12, <1>13, <1>14, TrackedUpdate DEF Numbers
<1> QED
  BY <1>11, <1>15 DEF Keeps, StatusOK

\* So is the denial that follows it.
LEMMA DenialTracked ==
  ASSUME Base, Tracked, OnTrack, OnTrack', vstatus = NoFault, NEW h \in Attempts,
         DenyInterrupted(h)
  PROVE  Keeps
<1> DEFINE r == Record(h, BLOCKED)
<1>1. /\ OthersKept(h) /\ sealed' = sealed /\ UNCHANGED watcherVars /\ wpc \notin {"boot", "bind"}
      /\ cancelled' = cancelled
  BY HandlerFrame, HandlerOnTrack DEF Base, GatewayInv, Handler, OthersKept
<1>2. A(h)' = A(h) /\ P(h)' = P(h) /\ R(h)' = R(h)
  BY HandlerOutsideLock DEF runVars, A, P, R
<1>3. /\ pc[h] = "denying" /\ pc \in [Attempts -> Positions]
      /\ Appends(r) \/ Raises(r)
  BY DEF DenyInterrupted, WriteOr, Running, Base, PathInv
<1>4. Appends(r) /\ Take(r) /\ ~NotDraining /\ ~sealed
  BY <1>3, HandlerTakes, StillOpen DEF Outside
<1>5. pc'[h] = "releasing"
  BY <1>3, <1>4, NoLoss DEF DenyInterrupted, WriteOr, Goto, Base
<1>6. r.decision = BLOCKED
  BY RecordFields
<1> HIDE DEF r
<1>7. /\ vstatus' = NoFault /\ UNCHANGED <<vrun, vatt, vseqs, vreq, vcancel, vkill>>
  BY <1>4, <1>6, TakeBranch, BlockedAccepted
<1>8. Fits(h)'
  <2>1. StateFits(pc'[h], todo'[h], vatt[h], raised'[h]) /\ NumbersFit(pc'[h], vatt[h], A(h), P(h), R(h))
    BY <1>3, <1>5 DEF Tracked, Fits, StateFits, NumbersFit, BeforeIntent, AtTarget
  <2>2. FactsFit(h, vatt[h], cancelled, P(h))
    BY DEF Tracked, Fits
  <2> QED
    BY <1>1, <1>2, <1>7, <2>1, <2>2 DEF Fits
<1>9. Tracked'
  BY <1>1, <1>7, <1>8, TrackedStill
<1> QED
  BY <1>7, <1>9 DEF Keeps, StatusOK

\* A refusal before there is an attempt, and INTERNAL_FAILURE, are accepted.
LEMMA BlockedTracked ==
  ASSUME Base, Tracked, OnTrack, OnTrack', vstatus = NoFault, NEW h \in Attempts,
         Refuse(h) \/ WriteInternal(h)
  PROVE  Keeps
<1> DEFINE r == Record(h, BLOCKED)
<1>1. /\ OthersKept(h) /\ sealed' = sealed /\ UNCHANGED watcherVars /\ wpc \notin {"boot", "bind"}
      /\ cancelled' = cancelled
  BY HandlerFrame, HandlerOnTrack DEF Base, GatewayInv, Handler, OthersKept
<1>2. A(h)' = A(h) /\ P(h)' = P(h) /\ R(h)' = R(h)
  BY HandlerOutsideLock DEF runVars, A, P, R
<1>3. /\ pc[h] \in {"reading", "internal"} /\ pc \in [Attempts -> Positions]
      /\ Appends(r) \/ Raises(r)
  BY DEF Refuse, WriteInternal, Running, Base, GatewayInv, AdmissionInv, PathInv
<1>4. Appends(r) /\ Take(r) /\ ~NotDraining /\ ~sealed
  BY <1>3, HandlerTakes, StillOpen DEF Outside
<1>5. ~Raises(r)
  BY <1>4, NoLoss DEF Base
<1>6. /\ todo'[h] = todo[h] /\ raised'[h] = raised[h]
      /\ \/ pc[h] = "reading" /\ pc'[h] = "reading"
         \/ pc[h] = "internal" /\ pc'[h] = "closing"
  BY <1>3, <1>5 DEF Refuse, WriteInternal, Running, Goto, Locally
<1>7. r.decision = BLOCKED
  BY RecordFields
<1> HIDE DEF r
<1>8. /\ vstatus' = NoFault /\ UNCHANGED <<vrun, vatt, vseqs, vreq, vcancel, vkill>>
  BY <1>4, <1>7, TakeBranch, BlockedAccepted
<1>9. Fits(h)'
  <2>1. StateFits(pc'[h], todo'[h], vatt[h], raised'[h]) /\ NumbersFit(pc'[h], vatt[h], A(h), P(h), R(h))
    BY <1>6 DEF Tracked, Fits, StateFits, NumbersFit, BeforeIntent, AtTarget
  <2>2. FactsFit(h, vatt[h], cancelled, P(h))
    BY DEF Tracked, Fits
  <2> QED
    BY <1>1, <1>2, <1>8, <2>1, <2>2 DEF Fits
<1>10. Tracked'
  BY <1>1, <1>8, <1>9, TrackedStill
<1> QED
  BY <1>8, <1>10 DEF Keeps, StatusOK

\* PERMIT_RELEASED is accepted.
LEMMA ReleaseTracked ==
  ASSUME Base, Tracked, OnTrack, OnTrack', vstatus = NoFault, NEW h \in Attempts, WriteRelease(h)
  PROVE  Keeps
<1> DEFINE r == Record(h, PERMIT_RELEASED)
<1>1. /\ OthersKept(h) /\ sealed' = sealed /\ UNCHANGED watcherVars /\ wpc \notin {"boot", "bind"}
      /\ cancelled' = cancelled
  BY HandlerFrame, HandlerOnTrack DEF Base, GatewayInv, Handler, OthersKept
<1>2. A(h)' = A(h) /\ P(h)' = P(h) /\ R(h)' = R(h)
  BY HandlerOutsideLock DEF runVars, A, P, R
<1>3. /\ pc[h] = "release" /\ pc \in [Attempts -> Positions] /\ R(h) # 0
      /\ Appends(r) \/ Raises(r)
  BY DEF WriteRelease, WriteOr, Running, Base, NumberedInv, PathInv
<1>4. P(h) # 0 /\ P(h) < R(h) /\ A(h) # 0 /\ P(h) \in Nat /\ R(h) \in Nat
  BY <1>3 DEF Base, GatewayInv, RunInv, RunTypeOK, SequenceEquations, A, P, R
<1>5. Appends(r) /\ Take(r) /\ ~NotDraining /\ ~sealed
  BY <1>3, HandlerTakes, StillOpen DEF Outside
<1>6. pc'[h] \in {"internal", "closing"}
  BY <1>3, <1>5 DEF WriteRelease, WriteOr, Goto
<1>7. /\ Fits(h) /\ Settled(vatt[h]) /\ vatt[h] \in Entries /\ seen[h] = 0
  BY <1>3, <1>4 DEF Tracked, Fits, StateFits, Base, PathInv
<1>8. /\ NumbersFit(pc[h], vatt[h], A(h), P(h), R(h)) /\ FactsFit(h, vatt[h], cancelled, P(h))
      /\ vatt[h].state \in TERMINAL /\ vatt[h].state \notin {"NONE", "AUTHORIZED"}
      /\ vatt[h].permit_seq = P(h) /\ vatt[h].release_seq = 0
      /\ vatt[h].conn_id = h /\ vatt[h].epoch = 0
  BY <1>3, <1>7
  DEF Fits, NumbersFit, FactsFit, Settled, TERMINAL, COMPLETED, FAILED, UNKNOWN, CANCELLED
<1>9. /\ r.decision = PERMIT_RELEASED /\ r.attempt_id = h /\ r.conn_id = h /\ r.epoch = seen[h]
      /\ r.lifecycle_seq = R(h) /\ r.permit_seq = P(h) /\ Of(r) = vatt[h]
  BY RecordFields
<1> HIDE DEF r
<1>10. TakeRelease(r)
  BY <1>5, <1>9, TakeBranch
<1>11. R(h) \notin vseqs /\ ~(Of(r).permit_seq >= r.lifecycle_seq)
  BY <1>3, <1>4, <1>8, <1>9, Unused
<1> DEFINE e == [Of(r) EXCEPT !.release_seq = r.lifecycle_seq]
<1>12. vstatus' = NoFault /\ UpdateAttempt(h, e, {R(h)})
  BY <1>4, <1>5, <1>7, <1>8, <1>9, <1>10, <1>11, ReleaseAccepted DEF Settled
<1>13. /\ e \in Entries /\ e.state = vatt[h].state /\ Settled(e) /\ e.release_seq = R(h)
       /\ e.auth_seq = vatt[h].auth_seq /\ e.permit_seq = vatt[h].permit_seq
       /\ e.conn_id = vatt[h].conn_id
       /\ e.epoch = vatt[h].epoch /\ e.binding = vatt[h].binding /\ e.pin = vatt[h].pin
       /\ e.facts = vatt[h].facts /\ e.late_auth = vatt[h].late_auth
       /\ e.response = vatt[h].response
  BY <1>4, <1>7, <1>9 DEF Entries, Settled
<1> HIDE DEF e
<1>14. StateFits(pc'[h], todo'[h], e, raised'[h]) /\ NumbersFit(pc'[h], e, A(h)', P(h)', R(h)')
  BY <1>2, <1>3, <1>4, <1>6, <1>8, <1>13 DEF StateFits, NumbersFit, BeforeIntent, AtTarget
<1>15. FactsFit(h, e, cancelled', P(h)')
  BY <1>1, <1>2, <1>8, <1>13 DEF FactsFit
<1>16. \A n \in Numbers(vatt[h]) : n = 0 \/ n \in Numbers(e)
  BY <1>8, <1>13 DEF Numbers
<1>17. \A n \in {R(h)} : n # 0 /\ n \in Numbers(e)
  BY <1>3, <1>13 DEF Numbers
<1>18. Tracked'
  BY <1>1, <1>12, <1>13, <1>14, <1>15, <1>16, <1>17, TrackedUpdate
<1> QED
  BY <1>12, <1>18 DEF Keeps, StatusOK

\* What may be left to write for an entry.
After(list, e) ==
  \/ list # <<>> /\ Leading(list, e)
  \/ list = <<>> /\ (e.state = "NONE" \/ Settled(e))

\* The next record of a list and what is left then.
LEMMA LeadingSplit ==
  ASSUME NEW list, NEW e, Leading(list, e)
  PROVE  \/ /\ Head(list) = BLOCKED /\ After(Tail(list), e)
         \/ /\ Head(list) \in {FAILED, CANCELLED} /\ Tail(list) = <<BLOCKED>>
            /\ e.state \in {"AUTHORIZED", "PERMITTED"} /\ Fresh(e)
         \/ /\ Head(list) = UNKNOWN
            /\ Tail(list) \in {<<BLOCKED>>, <<BLOCKED, BLOCKED>>, <<CONN_TERMINATED>>}
            /\ e.state = "ATTEMPTED" /\ Fresh(e)
         \/ /\ Head(list) = COMPLETED /\ Tail(list) = <<ALLOW>> /\ e.state = "ATTEMPTED" /\ Fresh(e)
         \/ Head(list) = ALLOW /\ Tail(list) = <<>> /\ e.state = COMPLETED /\ ~e.allow
         \/ Head(list) = CONN_TERMINATED /\ Tail(list) = <<>> /\ e.state = UNKNOWN /\ ~e.terminated
<1>1. CASE list = <<BLOCKED>> /\ (e.state = "NONE" \/ Settled(e))
  <2>1. Head(list) = BLOCKED /\ Tail(list) = <<>>
    BY <1>1
  <2> QED
    BY <1>1, <2>1 DEF After
<1>2. CASE list = <<BLOCKED, BLOCKED>> /\ e.state = UNKNOWN
  <2>1. Head(list) = BLOCKED /\ Tail(list) = <<BLOCKED>> /\ <<BLOCKED>> # <<>>
    BY <1>2
  <2>2. Settled(e)
    BY <1>2 DEF Settled, TERMINAL, COMPLETED, UNKNOWN
  <2> QED
    BY <2>1, <2>2 DEF After, Leading
<1>3. CASE /\ list \in {<<FAILED, BLOCKED>>, <<CANCELLED, BLOCKED>>}
           /\ e.state \in {"AUTHORIZED", "PERMITTED"} /\ Fresh(e)
  <2>1. CASE list = <<FAILED, BLOCKED>>
    <3>1. Head(list) = FAILED /\ Tail(list) = <<BLOCKED>>
      BY <2>1
    <3> QED
      BY <1>3, <3>1
  <2>2. CASE list = <<CANCELLED, BLOCKED>>
    <3>1. Head(list) = CANCELLED /\ Tail(list) = <<BLOCKED>>
      BY <2>2
    <3> QED
      BY <1>3, <3>1
  <2> QED
    BY <1>3, <2>1, <2>2
<1>4. CASE /\ list \in {<<UNKNOWN, BLOCKED>>, <<UNKNOWN, BLOCKED, BLOCKED>>,
                        <<UNKNOWN, CONN_TERMINATED>>, <<COMPLETED, ALLOW>>}
           /\ e.state = "ATTEMPTED" /\ Fresh(e)
  <2>1. CASE list = <<UNKNOWN, BLOCKED>>
    <3>1. Head(list) = UNKNOWN /\ Tail(list) = <<BLOCKED>>
      BY <2>1
    <3> QED
      BY <1>4, <3>1
  <2>2. CASE list = <<UNKNOWN, BLOCKED, BLOCKED>>
    <3>1. Head(list) = UNKNOWN /\ Tail(list) = <<BLOCKED, BLOCKED>>
      BY <2>2
    <3> QED
      BY <1>4, <3>1
  <2>3. CASE list = <<UNKNOWN, CONN_TERMINATED>>
    <3>1. Head(list) = UNKNOWN /\ Tail(list) = <<CONN_TERMINATED>>
      BY <2>3
    <3> QED
      BY <1>4, <3>1
  <2>4. CASE list = <<COMPLETED, ALLOW>>
    <3>1. Head(list) = COMPLETED /\ Tail(list) = <<ALLOW>>
      BY <2>4
    <3> QED
      BY <1>4, <3>1
  <2> QED
    BY <1>4, <2>1, <2>2, <2>3, <2>4
<1>5. CASE list = <<ALLOW>> /\ e.state = COMPLETED /\ ~e.allow
  BY <1>5
<1>6. CASE list = <<CONN_TERMINATED>> /\ e.state = UNKNOWN /\ ~e.terminated
  BY <1>6
<1> QED
  BY <1>1, <1>2, <1>3, <1>4, <1>5, <1>6 DEF Leading

\* An entry that may be left with a list fits the place its handler goes to.
LEMMA AfterFits ==
  ASSUME Base, Tracked, NEW h \in Attempts, pc[h] = "writing", NEW t, NEW p, NEW e, NEW b,
         p = IF t = <<>> THEN IF h \in inflight THEN "releasing" ELSE "closing" ELSE "writing",
         After(t, e),
         e.auth_seq = vatt[h].auth_seq, e.permit_seq = vatt[h].permit_seq,
         e.release_seq = vatt[h].release_seq, e.conn_id = vatt[h].conn_id,
         e.epoch = vatt[h].epoch, e.binding = vatt[h].binding, e.pin = vatt[h].pin,
         e.facts = vatt[h].facts, e.late_auth = vatt[h].late_auth,
         \/ e.state = vatt[h].state /\ e.response = vatt[h].response
         \/ e.state \in TERMINAL /\ vatt[h].state # "NONE" /\ e.response = "response"
  PROVE  /\ StateFits(p, t, e, b) /\ NumbersFit(p, e, A(h), P(h), R(h))
         /\ FactsFit(h, e, cancelled, P(h))
<1>1. NumbersFit("writing", vatt[h], A(h), P(h), R(h)) /\ FactsFit(h, vatt[h], cancelled, P(h))
  BY DEF Tracked, Fits
<1>2. h \in inflight => P(h) # 0
  BY DEF Base, GatewayInv, RunInv, OutstandingPermits
<1>3. e.state = "NONE" <=> vatt[h].state = "NONE"
  BY DEF TERMINAL, COMPLETED, FAILED, UNKNOWN, CANCELLED
<1>4. e.state = "AUTHORIZED" => vatt[h].state = "AUTHORIZED"
  BY DEF TERMINAL, COMPLETED, FAILED, UNKNOWN, CANCELLED
<1>5. NumbersFit(p, e, A(h), P(h), R(h))
  BY <1>1, <1>3, <1>4 DEF NumbersFit
<1>6. FactsFit(h, e, cancelled, P(h))
  BY <1>1, <1>3 DEF FactsFit
<1>7. t = <<>> /\ e.state = "NONE" => p = "closing"
  BY <1>1, <1>2, <1>3 DEF NumbersFit
<1>8. StateFits(p, t, e, b)
  BY <1>7 DEF StateFits, After, BeforeIntent, AtTarget
<1> QED
  BY <1>5, <1>6, <1>8

\* The outcome, ALLOW, CONNECTION_TERMINATED and denial records are accepted, or an
\* ALLOW or CONNECTION_TERMINATED repeats a request that was not spelled canonically.
LEMMA NextTracked ==
  ASSUME Base, Tracked, OnTrack, OnTrack', vstatus = NoFault, NEW h \in Attempts, WriteNext(h)
  PROVE  Keeps
<1> DEFINE d == Head(todo[h])
           t == Tail(todo[h])
           r == Record(h, d)
<1>1. /\ OthersKept(h) /\ sealed' = sealed /\ UNCHANGED watcherVars /\ wpc \notin {"boot", "bind"}
      /\ cancelled' = cancelled
  BY HandlerFrame, HandlerOnTrack DEF Base, GatewayInv, Handler, OthersKept
<1>2. A(h)' = A(h) /\ P(h)' = P(h) /\ R(h)' = R(h) /\ spelling' = spelling
  BY HandlerOutsideLock DEF runVars, A, P, R, WriteNext
<1>3. /\ pc[h] = "writing" /\ pc \in [Attempts -> Positions]
      /\ todo = [g \in Attempts |-> todo[g]]
      /\ Appends(r) \/ Raises(r)
  BY DEF WriteNext, Running, Base, PathInv, GatewayInv, TodoInv
<1>4. Appends(r) /\ Take(r) /\ ~NotDraining /\ ~sealed
  BY <1>3, HandlerTakes, StillOpen DEF Outside
<1>5. ~Raises(r)
  BY <1>4, NoLoss DEF Base
<1>6. /\ todo'[h] = t
      /\ pc'[h] = IF t = <<>> THEN IF h \in inflight THEN "releasing" ELSE "closing" ELSE "writing"
  BY <1>3, <1>5 DEF WriteNext, Leave, Goto
<1>7. /\ r.decision = d /\ r.attempt_id = h /\ r.conn_id = h /\ r.epoch = seen[h]
      /\ r.permit_seq = P(h) /\ r.pin = "pin" /\ r.response = "response" /\ Of(r) = vatt[h]
      /\ d # AUTH => r.facts = spelling[h]
  BY RecordFields
<1>8. Leading(todo[h], vatt[h]) /\ vatt[h] \in Entries
  BY <1>3 DEF Tracked, Fits, StateFits
<1> HIDE DEF d, t, r
<1>9. /\ vatt[h].permit_seq = P(h)
      /\ vatt[h].state # "NONE" => /\ vatt[h].conn_id = h /\ vatt[h].epoch = 0 /\ seen[h] = 0
                                   /\ vatt[h].pin = "pin" /\ vatt[h].facts = Canonical
      /\ vatt[h].state \in TERMINAL => vatt[h].response = "response"
  BY <1>3 DEF Tracked, Fits, NumbersFit, FactsFit, Base, PathInv
<1>10. ASSUME NEW e \in Entries, UpdateAttempt(h, e, {}), After(t, e),
         e.auth_seq = vatt[h].auth_seq, e.permit_seq = vatt[h].permit_seq,
         e.release_seq = vatt[h].release_seq, e.conn_id = vatt[h].conn_id,
         e.epoch = vatt[h].epoch, e.binding = vatt[h].binding, e.pin = vatt[h].pin,
         e.facts = vatt[h].facts, e.late_auth = vatt[h].late_auth,
         \/ e.state = vatt[h].state /\ e.response = vatt[h].response
         \/ e.state \in TERMINAL /\ vatt[h].state # "NONE" /\ e.response = "response"
       PROVE  Tracked'
  <2>1. /\ StateFits(pc'[h], t, e, raised'[h]) /\ NumbersFit(pc'[h], e, A(h), P(h), R(h))
        /\ FactsFit(h, e, cancelled, P(h))
    BY <1>3, <1>6, <1>10, AfterFits
  <2>2. /\ StateFits(pc'[h], todo'[h], e, raised'[h]) /\ NumbersFit(pc'[h], e, A(h)', P(h)', R(h)')
        /\ FactsFit(h, e, cancelled', P(h)')
    BY <1>1, <1>2, <1>6, <2>1
  <2>3. \A n \in Numbers(vatt[h]) : n = 0 \/ n \in Numbers(e)
    BY <1>10 DEF Numbers
  <2> QED
    BY <1>1, <1>10, <2>2, <2>3, TrackedUpdate
<1>11. CASE d = BLOCKED /\ After(t, vatt[h])
  <2>1. /\ vstatus' = NoFault /\ UNCHANGED <<vrun, vatt, vseqs, vreq, vcancel, vkill>>
    BY <1>4, <1>7, <1>11, TakeBranch, BlockedAccepted
  <2>2. /\ StateFits(pc'[h], t, vatt[h], raised'[h]) /\ NumbersFit(pc'[h], vatt[h], A(h), P(h), R(h))
        /\ FactsFit(h, vatt[h], cancelled, P(h))
    BY <1>3, <1>6, <1>11, AfterFits
  <2>3. Fits(h)'
    BY <1>1, <1>2, <1>6, <2>1, <2>2 DEF Fits
  <2>4. Tracked'
    BY <1>1, <2>1, <2>3, TrackedStill
  <2> QED
    BY <2>1, <2>4 DEF Keeps, StatusOK
<1>12. ASSUME d \in TERMINAL, vatt[h].state # "NONE", LegalTerminal(vatt[h].state, d),
              \A e \in Entries :
                e.state = d /\ e.allow = vatt[h].allow /\ e.terminated = vatt[h].terminated
                  => After(t, e)
       PROVE  Keeps
  <2> DEFINE e == [vatt[h] EXCEPT !.state = d, !.response = "response"]
  <2>1. vstatus' = NoFault /\ UpdateAttempt(h, e, {})
    BY <1>4, <1>7, <1>9, <1>12, TakeBranch, TerminalAccepted
  <2>2. e \in Entries
    BY <1>8, <1>12 DEF Entries
  <2>3. /\ e.auth_seq = vatt[h].auth_seq /\ e.permit_seq = vatt[h].permit_seq
        /\ e.release_seq = vatt[h].release_seq /\ e.conn_id = vatt[h].conn_id
        /\ e.epoch = vatt[h].epoch /\ e.binding = vatt[h].binding /\ e.pin = vatt[h].pin
        /\ e.facts = vatt[h].facts /\ e.late_auth = vatt[h].late_auth
        /\ e.state = d /\ e.response = "response"
        /\ e.allow = vatt[h].allow /\ e.terminated = vatt[h].terminated
    BY <1>8 DEF Entries
  <2> HIDE DEF e
  <2>4. Tracked'
    BY <1>10, <1>12, <2>1, <2>2, <2>3
  <2> QED
    BY <2>1, <2>4 DEF Keeps, StatusOK
<1>13. CASE /\ d \in {FAILED, CANCELLED} /\ t = <<BLOCKED>>
            /\ vatt[h].state \in {"AUTHORIZED", "PERMITTED"} /\ Fresh(vatt[h])
  <2>1. d \in TERMINAL /\ d # COMPLETED /\ LegalTerminal(vatt[h].state, d)
    BY <1>13 DEF TERMINAL, COMPLETED, FAILED, CANCELLED, UNKNOWN, LegalTerminal
  <2>2. t # <<>>
    BY <1>13
  <2>3. \A e \in Entries : e.state = d => After(t, e)
    BY <1>13, <2>1, <2>2 DEF After, Leading, Settled
  <2> QED
    BY <1>12, <1>13, <2>1, <2>3
<1>14. CASE /\ d = UNKNOWN /\ t \in {<<BLOCKED>>, <<BLOCKED, BLOCKED>>, <<CONN_TERMINATED>>}
            /\ vatt[h].state = "ATTEMPTED" /\ Fresh(vatt[h])
  <2>1. d \in TERMINAL /\ d # COMPLETED /\ LegalTerminal(vatt[h].state, d)
    BY <1>14 DEF TERMINAL, COMPLETED, UNKNOWN, LegalTerminal
  <2>2. t # <<>>
    BY <1>14
  <2>3. \A e \in Entries : e.state = d /\ e.terminated = vatt[h].terminated => After(t, e)
    BY <1>14, <2>1, <2>2 DEF After, Leading, Settled, Fresh
  <2> QED
    BY <1>12, <1>14, <2>1, <2>3
<1>15. CASE d = COMPLETED /\ t = <<ALLOW>> /\ vatt[h].state = "ATTEMPTED" /\ Fresh(vatt[h])
  <2>1. d \in TERMINAL /\ LegalTerminal(vatt[h].state, d)
    BY <1>15 DEF TERMINAL, LegalTerminal
  <2>2. t # <<>>
    BY <1>15
  <2>3. \A e \in Entries : e.state = d /\ e.allow = vatt[h].allow => After(t, e)
    BY <1>15, <2>2 DEF After, Leading, Fresh
  <2> QED
    BY <1>12, <1>15, <2>1, <2>3
<1>16. CASE d = ALLOW /\ t = <<>> /\ vatt[h].state = COMPLETED /\ ~vatt[h].allow
  <2>1. COMPLETED \in TERMINAL /\ COMPLETED # "NONE" /\ d # AUTH
    BY <1>16 DEF TERMINAL, COMPLETED, ALLOW, AUTH
  <2>2. TakeAllow(r)
    BY <1>4, <1>7, <1>16, TakeBranch
  <2>3. CASE spelling[h] # Canonical
    <3>1. vstatus' = "BINDING_MISMATCH"
      BY <1>4, <1>7, <1>9, <1>16, <2>1, <2>2, <2>3, AllowRefused
    <3> QED
      BY <1>2, <2>3, <3>1 DEF Keeps, StatusOK, NoFault
  <2>4. CASE spelling[h] = Canonical
    <3> DEFINE e == [vatt[h] EXCEPT !.allow = TRUE]
    <3>1. vstatus' = NoFault /\ UpdateAttempt(h, e, {})
      BY <1>4, <1>7, <1>9, <1>16, <2>1, <2>2, <2>4, AllowAccepted
    <3>2. e \in Entries
      BY <1>8 DEF Entries
    <3>3. /\ e.auth_seq = vatt[h].auth_seq /\ e.permit_seq = vatt[h].permit_seq
          /\ e.release_seq = vatt[h].release_seq /\ e.conn_id = vatt[h].conn_id
          /\ e.epoch = vatt[h].epoch /\ e.binding = vatt[h].binding /\ e.pin = vatt[h].pin
          /\ e.facts = vatt[h].facts /\ e.late_auth = vatt[h].late_auth
          /\ e.state = vatt[h].state /\ e.response = vatt[h].response /\ e.allow
      BY <1>8 DEF Entries
    <3> HIDE DEF e
    <3>4. After(t, e)
      BY <1>16, <2>1, <3>3 DEF After, Settled
    <3>5. Tracked'
      BY <1>10, <3>1, <3>2, <3>3, <3>4
    <3> QED
      BY <3>1, <3>5 DEF Keeps, StatusOK
  <2> QED
    BY <2>3, <2>4
<1>17. CASE d = CONN_TERMINATED /\ t = <<>> /\ vatt[h].state = UNKNOWN /\ ~vatt[h].terminated
  <2>1. UNKNOWN \in TERMINAL /\ UNKNOWN # "NONE" /\ UNKNOWN # COMPLETED /\ d # AUTH
    BY <1>17 DEF TERMINAL, UNKNOWN, COMPLETED, CONN_TERMINATED, AUTH
  <2>2. TakeConnectionTerminated(r)
    BY <1>4, <1>7, <1>17, TakeBranch
  <2>3. CASE spelling[h] # Canonical
    <3>1. vstatus' = "CONNECTION_TERMINATED_BINDING_MISMATCH"
      BY <1>4, <1>7, <1>9, <1>17, <2>1, <2>2, <2>3, TerminatedRefused
    <3> QED
      BY <1>2, <2>3, <3>1 DEF Keeps, StatusOK, NoFault
  <2>4. CASE spelling[h] = Canonical
    <3> DEFINE e == [vatt[h] EXCEPT !.terminated = TRUE]
    <3>1. vstatus' = NoFault /\ UpdateAttempt(h, e, {})
      BY <1>4, <1>7, <1>9, <1>17, <2>1, <2>2, <2>4, TerminatedAccepted
    <3>2. e \in Entries
      BY <1>8 DEF Entries
    <3>3. /\ e.auth_seq = vatt[h].auth_seq /\ e.permit_seq = vatt[h].permit_seq
          /\ e.release_seq = vatt[h].release_seq /\ e.conn_id = vatt[h].conn_id
          /\ e.epoch = vatt[h].epoch /\ e.binding = vatt[h].binding /\ e.pin = vatt[h].pin
          /\ e.facts = vatt[h].facts /\ e.late_auth = vatt[h].late_auth
          /\ e.state = vatt[h].state /\ e.response = vatt[h].response
      BY <1>8 DEF Entries
    <3> HIDE DEF e
    <3>4. After(t, e)
      BY <1>17, <2>1, <3>3 DEF After, Settled
    <3>5. Tracked'
      BY <1>10, <3>1, <3>2, <3>3, <3>4
    <3> QED
      BY <3>1, <3>5 DEF Keeps, StatusOK
  <2> QED
    BY <2>3, <2>4
<1> QED
  BY <1>8, <1>11, <1>13, <1>14, <1>15, <1>16, <1>17, LeadingSplit DEF d, t

\* A refused history stays refused for the same reason.
LEMMA RefusedUnmoved ==
  ASSUME vstatus # NoFault, sinkVars' = sinkVars \/ \E r : Appends(r) \/ Raises(r) \/ Seals(r)
  PROVE  vstatus' = vstatus /\ vatt' = vatt
BY DEF Appends, Raises, Seals, Scan, sinkVars, verifyVars

\* Every step of a handler keeps the scan in step or has its record refused.
LEMMA HandlerTracked ==
  ASSUME Base, TrackInv, NEW h \in Attempts,
         Accept(h) \/ ReadRequest(h) \/ Refuse(h) \/ Handler(h)
  PROVE  TrackInv'
<1> SUFFICES ASSUME OnTrack' PROVE Keeps
  BY DEF TrackInv, Keeps
<1>1. OnTrack /\ StatusOK /\ (vstatus = NoFault => Tracked)
  BY HandlerOnTrack DEF TrackInv
<1>2. CASE vstatus # NoFault
  <2>1. vstatus' = vstatus /\ vatt' = vatt
    BY <1>2, HandlerSink, RefusedUnmoved
  <2>2. \A g \in Attempts : /\ spelling[g] # Canonical => spelling'[g] # Canonical
                            /\ raised[g] => raised'[g]
    <3>1. /\ OthersKept(h) /\ (raised[h] => raised'[h])
          /\ pc[h] # "inside" => spelling' = spelling
          /\ pc[h] = "inside" => spelling[h] = Canonical
      BY HandlerFrame DEF Base, GatewayInv, PathInv, BeforeIntent
    <3> QED
      BY <3>1 DEF OthersKept
  <2> QED
    BY <1>1, <1>2, <2>1, <2>2 DEF Keeps, StatusOK
<1>3. CASE vstatus = NoFault
  <2>1. CASE \/ Accept(h) \/ ReadRequest(h) \/ BeginProducer(h) \/ Add(h) \/ Decide(h)
             \/ WrapClient(h) \/ OwnClient(h) \/ DecideInside(h) \/ OpenUpstream(h)
             \/ CheckTerminal(h) \/ Connect(h) \/ OwnUpstream(h) \/ SendRequest(h) \/ Stream(h)
             \/ CloseAll(h) \/ Remove(h) \/ EndProducer(h)
    <3>1. Tracked'
      BY <1>1, <1>3, <2>1, MoveTracked
    <3>2. CASE \/ Accept(h) \/ ReadRequest(h) \/ BeginProducer(h) \/ Add(h) \/ Decide(h)
               \/ WrapClient(h) \/ OwnClient(h) \/ DecideInside(h) \/ OpenUpstream(h)
      <4>1. vstatus' = vstatus
        BY <3>2 DEF Accept, ReadRequest, BeginProducer, Add, Decide, WrapClient, OwnClient,
                    DecideInside, OpenUpstream, sinkVars
      <4> QED
        BY <1>3, <3>1, <4>1 DEF Keeps, StatusOK
    <3>3. CASE \/ CheckTerminal(h) \/ Connect(h) \/ OwnUpstream(h) \/ SendRequest(h) \/ Stream(h)
               \/ CloseAll(h) \/ Remove(h) \/ EndProducer(h)
      <4>1. vstatus' = vstatus
        BY <3>3 DEF CheckTerminal, Connect, OwnUpstream, SendRequest, Stream, CloseAll, Remove,
                    EndProducer, sinkVars
      <4> QED
        BY <1>3, <3>1, <4>1 DEF Keeps, StatusOK
    <3> QED
      BY <2>1, <3>2, <3>3
  <2>2. CASE AllocateAuth(h) \/ AcquirePermit(h) \/ Abandon(h) \/ ReleasePermit(h)
    <3>1. Tracked'
      BY <1>1, <1>3, <2>2, LockTracked
    <3>2. vstatus' = vstatus
      BY <2>2 DEF AllocateAuth, AcquirePermit, Abandon, ReleasePermit, sinkVars
    <3> QED
      BY <1>3, <3>1, <3>2 DEF Keeps, StatusOK
  <2>3. CASE WriteAuth(h) \/ WritePermit(h) \/ WriteAttempted(h) \/ SettleInterrupted(h)
               \/ DenyInterrupted(h)
    BY <1>1, <1>3, <2>3, AuthTracked, PermitTracked, AttemptedTracked, InterruptedTracked,
       DenialTracked
  <2>4. CASE Refuse(h) \/ WriteInternal(h) \/ WriteRelease(h) \/ WriteNext(h)
    BY <1>1, <1>3, <2>4, BlockedTracked, ReleaseTracked, NextTracked
  <2> QED
    BY <2>1, <2>2, <2>3, <2>4 DEF Handler
<1> QED
  BY <1>2, <1>3

\* A history that is undamaged after a step of the watcher was so before.
LEMMA WatcherOnTrack ==
  ASSUME Base, BootDegraded \/ Boot \/ NoticeKillFile \/ ListenerEnds \/ Watcher, OnTrack'
  PROVE  OnTrack
<1>1. FaultsLeft
  BY WatcherSink, SinkFaults DEF Base
<1>2. healthy /\ openFaults = OpenFaults
  BY <1>1, FaultBounds DEF FaultsLeft, FaultsInv, OnTrack, Base
<1>3. ASSUME wpc \in {"timing_out", "done", "exited"} PROVE sealed
  <2>1. wpc' \in {"timing_out", "done", "exited"} /\ sealed' = sealed
    <3>1. RecordDrainTimeout \/ Exit \/ ListenerEnds
      BY <1>3 DEF BootDegraded, Boot, NoticeKillFile, ListenerEnds, Watcher, CancelRun, KillRegistry,
        MarkVictim, ShutVictim, StopListener, RecordRequested, RecordLinearized, AwaitDrain,
        AwaitListener, AwaitProducers, SamplePermits, SampleProducers, RecordKillSwitch, RecordAck,
        SealRun, WatcherAt
    <3>2. CASE RecordDrainTimeout
      BY <3>2 DEF RecordDrainTimeout, WatcherWrite, Appends, Raises, sinkVars
    <3>3. CASE Exit
      BY <3>3 DEF Exit, WatcherAt, sinkVars
    <3>4. CASE ListenerEnds
      BY <1>3, <3>4 DEF ListenerEnds, sinkVars
    <3> QED
      BY <3>1, <3>2, <3>3, <3>4
  <2> QED
    BY <2>1 DEF OnTrack
<1> QED
  BY <1>2, <1>3 DEF OnTrack

\* The watcher leaves every attempt in step.
LEMMA WatcherFits ==
  ASSUME Base, Tracked, BootDegraded \/ Boot \/ NoticeKillFile \/ ListenerEnds \/ Watcher,
         vatt' = vatt
  PROVE  \A g \in Attempts : Fits(g)'
<1>1. pc' = pc /\ todo' = todo /\ raised' = raised
  BY WatcherLeavesHandlers DEF handlerVars
<1>2. /\ \A g \in Attempts : A(g)' = A(g) /\ P(g)' = P(g) /\ R(g)' = R(g)
      /\ cancelled => cancelled'
  <2>1. CASE CancelRun
    BY <2>1 DEF CancelRun, Cancel, A, P, R
  <2>2. CASE ~CancelRun
    BY <2>2, WatcherOutsideLock DEF Watcher, runVars, A, P, R
  <2> QED
    BY <2>1, <2>2
<1> QED
  BY <1>1, <1>2, FitsKept DEF Tracked

\* The numbers in use do not change while the verifier's attempts and cancellation do not.
LEMMA WatcherTracked ==
  ASSUME Base, Tracked, BootDegraded \/ Boot \/ NoticeKillFile \/ ListenerEnds \/ Watcher,
         UNCHANGED <<vatt, vseqs, vcancel>>, RunFits'
  PROVE  Tracked'
<1>1. UsedInv'
  BY DEF Tracked, UsedInv, Numbers
<1> QED
  BY <1>1, WatcherFits DEF Tracked

\* The log is sealed only at the end.
LEMMA OpenBeforeDone ==
  ASSUME Base, wpc \notin {"done", "exited"} PROVE ~sealed
BY DEF Base, GatewayInv, QuietInv, SealInv, Quiet

\* The steps of the watcher that write nothing.
LEMMA QuietWatcherTracked ==
  ASSUME Base, Tracked, OnTrack,
         \/ NoticeKillFile \/ CancelRun \/ KillRegistry \/ MarkVictim \/ ShutVictim \/ StopListener
         \/ ListenerEnds \/ AwaitDrain \/ AwaitListener \/ AwaitProducers \/ SamplePermits
         \/ SampleProducers \/ Exit
  PROVE  Tracked' /\ vstatus' = vstatus
<1>1. sinkVars' = sinkVars
  BY DEF NoticeKillFile, CancelRun, KillRegistry, MarkVictim, ShutVictim, StopListener,
         ListenerEnds, AwaitDrain, AwaitListener, AwaitProducers, SamplePermits,
         SampleProducers, Exit
<1>2. UNCHANGED <<vstatus, vrun, vstartup, vactive, vatt, vseqs, vreq, vcancel, vkill, sealed>>
  BY <1>1 DEF sinkVars
<1>3. Killed' = Killed
  BY <1>2 DEF Killed
<1>4. RunFits
  BY DEF Tracked
<1>5. ASSUME RunFits' PROVE Tracked' /\ vstatus' = vstatus
  BY <1>2, <1>5, WatcherTracked DEF Watcher
<1>6. CASE NoticeKillFile \/ CancelRun \/ KillRegistry \/ MarkVictim \/ ShutVictim \/ StopListener
  <2>1. wpc \in BeforeRequest /\ wpc' \in BeforeRequest \ {"boot", "bind"}
    BY <1>6 DEF NoticeKillFile, CancelRun, KillRegistry, MarkVictim, ShutVictim, StopListener,
                WatcherAt, BeforeRequest
  <2>2. RunFits'
    BY <1>2, <1>3, <1>4, <2>1 DEF RunFits, BeforeSwitch, AfterSwitch, BeforeRequest, Draining
  <2> QED
    BY <1>5, <2>2
<1>7. CASE ListenerEnds
  <2>1. wpc \notin {"boot", "bind"}
    BY <1>7 DEF ListenerEnds, Base, ServeInv
  <2>2. UNCHANGED <<wpc, victims, torn, evidence, sample, epoch, cancellation>>
    BY <1>7 DEF ListenerEnds, WatcherOnly, runVars
  <2> QED
    BY <1>2, <1>4, <1>5, <2>1, <2>2, RunFitsKept
<1>8. CASE AwaitDrain \/ AwaitListener \/ AwaitProducers \/ SamplePermits \/ SampleProducers
  <2>1. wpc \in Draining /\ evidence' = evidence /\ cancellation' = cancellation
    BY <1>8 DEF AwaitDrain, AwaitListener, AwaitProducers, SamplePermits, SampleProducers,
                WatcherAt, Draining, WatcherOnly, runVars
  <2>2. wpc' \in Draining
    BY <1>4, <1>8, <2>1 DEF AwaitDrain, AwaitListener, AwaitProducers, SamplePermits,
                            SampleProducers, WatcherAt, Draining, RunFits
  <2>3. RunFits'
    BY <1>2, <1>3, <1>4, <2>1, <2>2 DEF RunFits, BeforeSwitch, AfterSwitch, BeforeRequest, Draining
  <2> QED
    BY <1>5, <2>3
<1>9. CASE Exit
  <2>1. wpc = "done" /\ wpc' = "exited" /\ cancellation' = cancellation
    BY <1>9 DEF Exit, WatcherAt, WatcherOnly, runVars
  <2>2. RunFits'
    BY <1>2, <1>3, <1>4, <2>1 DEF RunFits, BeforeSwitch, AfterSwitch, BeforeRequest, Draining
  <2> QED
    BY <1>5, <2>2
<1> QED
  BY <1>6, <1>7, <1>8, <1>9

\* A write of the watcher to an undamaged history is durable and is scanned next.
LEMMA WatcherTakes ==
  ASSUME Base, OnTrack, OnTrack', vstatus = NoFault, wpc \notin {"done", "exited"},
         NEW r, Appends(r) \/ Raises(r)
  PROVE  Appends(r) /\ Take(r) /\ ~Raises(r) /\ ~sealed /\ sealed' = sealed
<1>1. ~sealed
  BY OpenBeforeDone
<1> QED
  BY <1>1, NoLoss DEF Appends, Scan, Base

\* STARTUP and STARTUP_DEGRADED are accepted, but for a gateway without places.
LEMMA BootTracked ==
  ASSUME Base, Tracked, OnTrack, OnTrack', vstatus = NoFault, BootDegraded \/ Boot
  PROVE  Keeps
<1>1. /\ wpc \in {"boot", "bind"} /\ cancellation' = cancellation
  BY DEF BootDegraded, Boot, WatcherOnly, runVars
<1>2. /\ RunFits /\ vrun = "RUNNING" /\ ~Killed /\ ~vstartup /\ ~vactive /\ vcancel = NoCancel
  BY <1>1 DEF Tracked, RunFits, AfterSwitch, BeforeRequest
<1>3. ~NotDraining /\ ~OutsideStartup
  BY <1>2 DEF NotDraining, OutsideStartup
<1>4. ASSUME UNCHANGED <<vrun, vactive, vatt, vseqs, vreq, vcancel, vkill>>, ~sealed',
             wpc' \in BeforeRequest, wpc' = "bind" => vstartup' = vstartup, wpc' # "boot"
      PROVE  Tracked'
  <2>1. Killed' = Killed
    BY <1>4 DEF Killed
  <2>2. RunFits'
    BY <1>2, <1>4, <2>1 DEF RunFits, BeforeSwitch, AfterSwitch, BeforeRequest, Draining
  <2> QED
    BY <1>4, <2>2, WatcherTracked
<1>5. CASE BootDegraded
  <2> DEFINE r == [decision |-> STARTUP_DEGRADED]
  <2>1. r.decision = STARTUP_DEGRADED /\ (Appends(r) \/ Raises(r))
    BY <1>5 DEF BootDegraded
  <2>2. Take(r) /\ ~Raises(r) /\ ~sealed'
    BY <1>1, <2>1, WatcherTakes
  <2>3. wpc' = "bind"
    BY <1>5, <2>2 DEF BootDegraded
  <2> HIDE DEF r
  <2>4. vstatus' = NoFault /\ UNCHANGED <<vrun, vstartup, vactive, vatt, vseqs, vreq, vcancel, vkill>>
    BY <1>3, <2>1, <2>2, TakeBranch, StartupDegradedAccepted
  <2>5. Tracked'
    BY <1>4, <2>2, <2>3, <2>4 DEF BeforeRequest
  <2> QED
    BY <2>4, <2>5 DEF Keeps, StatusOK
<1>6. CASE Boot
  <2> DEFINE r == [decision |-> STARTUP, max_connections |-> MaxConnections]
  <2>1. r.decision = STARTUP /\ r.max_connections = MaxConnections /\ (Appends(r) \/ Raises(r))
    BY <1>6 DEF Boot
  <2>2. Take(r) /\ ~Raises(r) /\ ~sealed'
    BY <1>1, <2>1, WatcherTakes
  <2>3. wpc' \in {"cancelling", "watching"}
    BY <1>6, <2>2 DEF Boot, OnTrack
  <2> HIDE DEF r
  <2>4. TakeStartup(r)
    BY <2>1, <2>2, TakeBranch
  <2>5. CASE MaxConnections = 0
    <3>1. vstatus' = "CONTEXT_BINDING_MISMATCH"
      BY <1>3, <2>1, <2>4, <2>5, StartupRefused
    <3> QED
      BY <2>5, <3>1 DEF Keeps, StatusOK, NoFault
  <2>6. CASE MaxConnections # 0
    <3>1. vstatus' = NoFault /\ UNCHANGED <<vrun, vactive, vatt, vseqs, vreq, vcancel, vkill>>
      BY <1>3, <2>1, <2>4, <2>6, StartupAccepted
    <3>2. Tracked'
      BY <1>4, <2>2, <2>3, <3>1 DEF BeforeRequest
    <3> QED
      BY <3>1, <3>2 DEF Keeps, StatusOK
  <2> QED
    BY <2>5, <2>6
<1> QED
  BY <1>5, <1>6

\* CANCELLATION_REQUESTED is accepted.
LEMMA RequestedTracked ==
  ASSUME Base, Tracked, OnTrack, OnTrack', vstatus = NoFault, RecordRequested
  PROVE  Keeps
<1> DEFINE r == [decision |-> CANCEL_REQUESTED, lifecycle_seq |-> C,
                 cancellation_epoch |-> cancellation.new_epoch]
<1>1. /\ wpc = "requesting" /\ cancellation' = cancellation /\ C' = C
      /\ Appends(r) \/ Raises(r)
  BY DEF RecordRequested, WatcherWrite, WatcherOnly, runVars, C
<1>2. Take(r) /\ ~Raises(r) /\ ~sealed'
  BY <1>1, WatcherTakes
<1>3. wpc' = "linearizing"
  BY <1>2 DEF RecordRequested, WatcherWrite
<1>4. /\ r.decision = CANCEL_REQUESTED /\ r.lifecycle_seq = C
      /\ r.cancellation_epoch = cancellation.new_epoch
  OBVIOUS
<1> HIDE DEF r
<1>5. /\ RunFits /\ vrun = "RUNNING" /\ ~Killed /\ vcancel = NoCancel
  BY <1>1 DEF Tracked, RunFits, AfterSwitch, BeforeRequest
<1>6. ~NotDraining
  BY <1>5 DEF NotDraining
<1>7. /\ vstatus' = NoFault
      /\ vreq' = [lifecycle_seq |-> C, cancellation_epoch |-> cancellation.new_epoch]
      /\ vrun' = "CANCEL_REQUESTED" /\ UNCHANGED <<vatt, vseqs, vcancel, vkill>>
  BY <1>2, <1>4, <1>5, <1>6, TakeBranch, CancelRequestedAccepted
<1>8. ~Killed'
  BY <1>5, <1>7 DEF Killed
<1>9. RunFits'
  BY <1>1, <1>2, <1>3, <1>5, <1>7, <1>8 DEF RunFits, BeforeSwitch, AfterSwitch, BeforeRequest, Draining
<1>10. Tracked'
  BY <1>7, <1>9, WatcherTracked DEF Watcher
<1> QED
  BY <1>7, <1>10 DEF Keeps, StatusOK

\* CANCELLATION_LINEARIZED is accepted: every number on disk is below C.
LEMMA LinearizedTracked ==
  ASSUME Base, Tracked, OnTrack, OnTrack', vstatus = NoFault, RecordLinearized
  PROVE  Keeps
<1> DEFINE r == [decision |-> CANCEL_LINEARIZED, lifecycle_seq |-> C,
                 cancelled_epoch |-> cancellation.cancelled_epoch,
                 new_epoch |-> cancellation.new_epoch,
                 inflight_at_linearization |-> cancellation.inflight_at_linearization]
<1>1. /\ wpc = "linearizing" /\ wpc' = "draining" /\ cancellation' = cancellation
      /\ Appends(r) \/ Raises(r)
  BY DEF RecordLinearized, WatcherOnly, runVars
<1>2. Take(r) /\ ~Raises(r) /\ ~sealed'
  BY <1>1, WatcherTakes
<1>3. evidence'
  BY <1>2 DEF RecordLinearized
<1>4. /\ r.decision = CANCEL_LINEARIZED /\ r.lifecycle_seq = C
      /\ r.cancelled_epoch = cancellation.cancelled_epoch /\ r.new_epoch = cancellation.new_epoch
      /\ r.inflight_at_linearization = cancellation.inflight_at_linearization
  OBVIOUS
<1> HIDE DEF r
<1>5. /\ RunFits /\ vrun = "CANCEL_REQUESTED" /\ ~Killed
      /\ vreq.lifecycle_seq = C /\ vreq.cancellation_epoch = cancellation.new_epoch
  BY <1>1 DEF Tracked, RunFits, AfterSwitch
<1>6. ~NotDraining
  BY <1>5 DEF NotDraining
<1>7. C # 0 /\ cancellation.cancelled_epoch = 0 /\ cancellation.new_epoch = 1
  BY <1>1 DEF Base, GatewayInv, QuietInv, KillInv, BeforeCancel, RunInv, CancelledAgrees, PathInv
<1>8. C \notin vseqs
  BY <1>1, Unused
<1>9. \A a \in Authorized : /\ vatt[a].epoch = 0 /\ ~(vatt[a].auth_seq >= C)
                            /\ ~(vatt[a].permit_seq >= C)
  <2> SUFFICES ASSUME NEW a \in Attempts, vatt[a].state # "NONE"
               PROVE  /\ vatt[a].epoch = 0 /\ ~(vatt[a].auth_seq >= C) /\ ~(vatt[a].permit_seq >= C)
    BY DEF Authorized
  <2>1. vatt[a].epoch = 0 /\ vatt[a].auth_seq \in {0, A(a)} /\ vatt[a].permit_seq \in {0, P(a)}
    BY DEF Tracked, Fits, NumbersFit, FactsFit
  <2>2. A(a) \in Nat /\ P(a) \in Nat /\ C \in Nat /\ A(a) < C /\ P(a) < C
    BY <1>7 DEF Base, GatewayInv, RunInv, RunTypeOK, SequenceEquations, A, P, C
  <2> QED
    BY <1>7, <2>1, <2>2
<1>10. cancellation = [cancelled_epoch |-> r.cancelled_epoch, new_epoch |-> r.new_epoch,
                       lifecycle_seq |-> r.lifecycle_seq,
                       inflight_at_linearization |-> r.inflight_at_linearization]
  BY <1>4 DEF Base, GatewayInv, RunInv, RunTypeOK, C
<1>11. /\ vstatus' = NoFault /\ vcancel' = cancellation /\ vrun' = "CANCEL_LINEARIZED"
       /\ vseqs' = vseqs \cup {C} /\ UNCHANGED <<vatt, vreq, vkill>>
  <2>1. TakeCancelLinearized(r)
    BY <1>2, <1>4, TakeBranch
  <2>2. r.new_epoch = r.cancelled_epoch + 1
    BY <1>4, <1>7
  <2> QED
    BY <1>4, <1>5, <1>6, <1>7, <1>8, <1>9, <1>10, <2>1, <2>2, LinearizedAccepted
<1>12. ~Killed'
  BY <1>5, <1>11 DEF Killed
<1>13. RunFits'
  BY <1>1, <1>2, <1>3, <1>11, <1>12 DEF RunFits, BeforeSwitch, AfterSwitch, BeforeRequest, Draining
<1>14. UsedInv'
  <2>1. vcancel.lifecycle_seq = 0
    BY <1>1, <1>5 DEF RunFits, NoCancel
  <2> SUFFICES ASSUME NEW n \in vseqs'
               PROVE  n # 0 /\ (n = vcancel'.lifecycle_seq \/ \E a \in Attempts : n \in Numbers(vatt[a]))
    BY <1>11 DEF UsedInv, Numbers
  <2>2. CASE n = C
    BY <1>7, <1>11, <2>2 DEF C
  <2>3. CASE n \in vseqs
    BY <2>1, <2>3 DEF Tracked, UsedInv
  <2> QED
    BY <1>11, <2>2, <2>3
<1>15. Tracked'
  BY <1>11, <1>13, <1>14, WatcherFits DEF Tracked, Watcher
<1> QED
  BY <1>11, <1>15 DEF Keeps, StatusOK

\* When no producer and no permit is left, every attempt is settled, with its ALLOW and
\* release, or is an intent that an exception left open.
LEMMA QuietIsSettled ==
  ASSUME Base, Tracked, producers = 0, inflight = {}
  PROVE  /\ \A a \in incomplete_attempts :
              a \in Attempts /\ raised[a] /\ vatt[a].state = "AUTHORIZED"
         /\ missing_allows = {} /\ missing_releases = {}
         /\ \A a \in Attempts : vatt[a].permit_seq = P(a) /\ vatt[a].release_seq = R(a)
<1>1. \A a \in Attempts : pc[a] \in Outside
  BY NoProducers DEF Base, GatewayInv, Producing
<1>2. \A a \in Attempts : \/ vatt[a].state = "NONE" \/ Settled(vatt[a])
                          \/ vatt[a].state = "AUTHORIZED" /\ raised[a]
  BY <1>1 DEF Tracked, Fits, StateFits, Outside, BeforeIntent
<1>3. \A a \in Attempts : vatt[a].permit_seq = P(a) /\ vatt[a].release_seq = R(a)
  BY <1>1 DEF Tracked, Fits, NumbersFit, Outside
<1>4. /\ \A a \in incomplete_attempts :
           a \in Attempts /\ raised[a] /\ vatt[a].state = "AUTHORIZED"
      /\ missing_allows = {}
  BY <1>2 DEF incomplete_attempts, missing_allows, Settled, TERMINAL, COMPLETED, FAILED,
              UNKNOWN, CANCELLED
<1>5. missing_releases = {}
  BY <1>3 DEF missing_releases, Base, GatewayInv, RunInv, OutstandingPermits
<1> QED
  BY <1>3, <1>4, <1>5

\* The verifier counts the permits in flight at C as the lock did.
LEMMA SameInflight ==
  ASSUME Base, Tracked, producers = 0, inflight = {}, vcancel = cancellation, C # 0
  PROVE  Cardinality(logical_inflight) = vcancel.inflight_at_linearization
<1>1. \A a \in Attempts : vatt[a].permit_seq = P(a) /\ vatt[a].release_seq = R(a)
  BY QuietIsSettled
<1>2. vcancel.lifecycle_seq = C
  BY DEF C
<1>3. \A a \in Attempts : /\ P(a) \in Nat /\ R(a) \in Nat
                          /\ P(a) # 0 => R(a) # 0
  BY DEF Base, GatewayInv, RunInv, RunTypeOK, OutstandingPermits, P, R
<1>4. C \in Nat
  BY DEF Base, GatewayInv, RunInv, RunTypeOK, C
<1>5. ASSUME NEW a \in Attempts
      PROVE  a \in logical_inflight <=> a \in InflightAtC
  BY <1>1, <1>2, <1>3, <1>4 DEF logical_inflight, InflightAtC
<1>6. logical_inflight \subseteq Attempts /\ InflightAtC \subseteq Attempts
  BY DEF logical_inflight, InflightAtC
<1>7. logical_inflight = InflightAtC
  BY <1>5, <1>6
<1> QED
  BY <1>7 DEF Base, GatewayInv, RunInv, CountAtLinearization

\* What a drain record says when everything was found at rest.
LEMMA QuiescentRecord ==
  ASSUME quiescent, NEW d
  PROVE  LET r == DrainRecord(d)
         IN  /\ r.decision = d /\ r.lifecycle_seq = C /\ r.cancellation_epoch = epoch
             /\ r.local_drain_complete = TRUE /\ r.inflight_remaining = 0
             /\ r.effect_permits_remaining = 0 /\ r.audit_producers_remaining = 0
             /\ r.listener_state = "STOPPED" /\ r.terminated_conn_ids = torn
             /\ r.registered_at_kill = victims
<1>1. sample.permits = 0 /\ sample.producers = 0 /\ listener_down
  BY DEF quiescent, blockers
<1> QED
  BY <1>1 DEF DrainRecord

\* KILL_SWITCH of a gateway at rest is accepted, or refused for an intent left open; any
\* other ends the run unsealed.
LEMMA SwitchTracked ==
  ASSUME Base, Tracked, OnTrack, OnTrack', vstatus = NoFault, RecordKillSwitch
  PROVE  Keeps
<1> DEFINE r == DrainRecord(KILL_SWITCH)
<1>1. /\ wpc = "kill_switch" /\ UNCHANGED <<victims, torn, evidence, sample, epoch, cancellation>>
      /\ Appends(r) \/ Raises(r)
  BY DEF RecordKillSwitch, WatcherWrite, WatcherOnly, runVars
<1>2. Take(r) /\ ~Raises(r) /\ ~sealed'
  BY <1>1, WatcherTakes
<1>3. quiescent /\ wpc' = "acking"
  BY <1>2 DEF RecordKillSwitch, WatcherWrite, OnTrack
<1>4. sample.permits = 0 /\ sample.producers = 0
  BY <1>3 DEF quiescent, blockers, listener_down
<1>5. inflight = {} /\ producers = 0 /\ cancelled
  BY <1>1, <1>4 DEF Base, GatewayInv, QuietInv, SampleInv, KillInv, AfterPermits, AfterProducers,
                    BeforeCancel
<1>6. /\ RunFits /\ vrun = "CANCEL_LINEARIZED" /\ ~Killed /\ vcancel = cancellation
  BY <1>1 DEF Tracked, RunFits, AfterSwitch, BeforeRequest, Draining
<1>7. C # 0 /\ epoch = 1 /\ vcancel.new_epoch = 1 /\ vcancel.lifecycle_seq = C
  BY <1>5, <1>6 DEF Base, GatewayInv, RunInv, CancelledAgrees, PathInv, C
<1>8. ~NotDraining /\ torn \subseteq victims
  BY <1>6 DEF NotDraining, Base, ServeInv
<1>9. /\ r.decision = KILL_SWITCH /\ r.lifecycle_seq = C /\ r.cancellation_epoch = epoch
      /\ r.local_drain_complete = TRUE /\ r.inflight_remaining = 0
      /\ r.effect_permits_remaining = 0 /\ r.audit_producers_remaining = 0
      /\ r.listener_state = "STOPPED" /\ r.terminated_conn_ids = torn
      /\ r.registered_at_kill = victims
  BY <1>3, QuiescentRecord
<1>10. Common(r) = Common(DrainRecord(CANCEL_ACK))' /\ Common(r).lifecycle_seq = C
  BY <1>1 DEF Common, DrainRecord, quiescent, blockers, listener_down, C
<1> HIDE DEF r
<1>11. ~count_error(r)
  BY <1>9 DEF count_error
<1>12. TakeKillSwitch(r)
  BY <1>2, <1>9, TakeBranch
<1>13. /\ \A a \in incomplete_attempts :
            a \in Attempts /\ raised[a] /\ vatt[a].state = "AUTHORIZED"
       /\ missing_allows = {} /\ missing_releases = {}
       /\ Cardinality(logical_inflight) = vcancel.inflight_at_linearization
  BY <1>5, <1>6, <1>7, QuietIsSettled, SameInflight
<1>14. CASE incomplete_attempts # {}
  <2>1. vstatus' = "INCOMPLETE_ATTEMPT" /\ vatt' = vatt
    BY <1>6, <1>8, <1>12, <1>14, KillSwitchRefused
  <2>2. raised' = raised
    BY WatcherLeavesHandlers DEF Watcher, handlerVars
  <2>3. \E a \in Attempts : raised[a] /\ vatt[a].state = "AUTHORIZED"
    BY <1>13, <1>14
  <2> QED
    BY <2>1, <2>2, <2>3 DEF Keeps, StatusOK, NoFault
<1>15. CASE incomplete_attempts = {}
  <2>1. /\ vstatus' = NoFault /\ vkill' = Common(r)
        /\ UNCHANGED <<vrun, vatt, vseqs, vreq, vcancel>>
    <3>1. r.local_drain_complete = (r.inflight_remaining = 0 /\ r.listener_state = "STOPPED")
      BY <1>9
    <3>2. /\ r.lifecycle_seq = vcancel.lifecycle_seq /\ r.cancellation_epoch = vcancel.new_epoch
          /\ r.effect_permits_remaining = 0 /\ r.terminated_conn_ids \subseteq r.registered_at_kill
      BY <1>7, <1>8, <1>9
    <3> QED
      BY <1>6, <1>8, <1>11, <1>12, <1>13, <1>15, <3>1, <3>2, KillSwitchAccepted
  <2>2. Killed'
    BY <1>7, <1>10, <2>1 DEF Killed
  <2>3. RunFits'
    BY <1>1, <1>2, <1>3, <1>6, <1>10, <2>1, <2>2
    DEF RunFits, BeforeSwitch, AfterSwitch, BeforeRequest, Draining
  <2>4. Tracked'
    BY <2>1, <2>3, WatcherTracked DEF Watcher
  <2> QED
    BY <2>1, <2>4 DEF Keeps, StatusOK
<1> QED
  BY <1>14, <1>15

\* CANCELLATION_ACKNOWLEDGED repeats KILL_SWITCH and is accepted.
LEMMA AckTracked ==
  ASSUME Base, Tracked, OnTrack, OnTrack', vstatus = NoFault, RecordAck
  PROVE  Keeps
<1> DEFINE r == DrainRecord(CANCEL_ACK)
<1>1. /\ wpc = "acking" /\ cancellation' = cancellation
      /\ Appends(r) \/ Raises(r)
  BY DEF RecordAck, WatcherWrite, WatcherOnly, runVars
<1>2. Take(r) /\ ~Raises(r) /\ ~sealed'
  BY <1>1, WatcherTakes
<1>3. wpc' = "sealing" /\ quiescent
  BY <1>1, <1>2 DEF RecordAck, WatcherWrite, Base, GatewayInv, QuietInv, SampleInv
<1>4. /\ RunFits /\ vrun = "CANCEL_LINEARIZED" /\ Killed /\ vcancel = cancellation
      /\ vkill = Common(r)
  BY <1>1 DEF Tracked, RunFits, AfterSwitch, BeforeRequest, Draining
<1>5. /\ r.decision = CANCEL_ACK
      /\ r.local_drain_complete = TRUE /\ r.inflight_remaining = 0
      /\ r.effect_permits_remaining = 0 /\ r.audit_producers_remaining = 0
      /\ r.listener_state = "STOPPED"
  BY <1>3, QuiescentRecord
<1> HIDE DEF r
<1>6. TakeAck(r)
  BY <1>2, <1>5, TakeBranch
<1>7. /\ vstatus' = NoFault /\ vrun' = "ACKNOWLEDGED"
      /\ UNCHANGED <<vatt, vseqs, vreq, vcancel, vkill>>
  BY <1>4, <1>5, <1>6, AckAccepted
<1>8. Killed'
  BY <1>4, <1>7 DEF Killed
<1>9. RunFits'
  BY <1>1, <1>2, <1>3, <1>4, <1>7, <1>8
  DEF RunFits, BeforeSwitch, AfterSwitch, BeforeRequest, Draining
<1>10. Tracked'
  BY <1>7, <1>9, WatcherTracked DEF Watcher
<1> QED
  BY <1>7, <1>10 DEF Keeps, StatusOK

\* RUN_CLOSED is accepted.
LEMMA SealTracked ==
  ASSUME Base, Tracked, OnTrack, OnTrack', vstatus = NoFault, SealRun
  PROVE  Keeps
<1> DEFINE r == [decision |-> RUN_CLOSED, closure_sequence |-> C,
                 inflight_remaining |-> 0, effect_permits_remaining |-> 0,
                 audit_producers_remaining |-> 0, listener_state |-> "STOPPED"]
<1>1. /\ wpc = "sealing" /\ wpc' = "done" /\ cancellation' = cancellation
      /\ Seals(r) \/ Raises(r)
  BY DEF SealRun, WatcherAt, WatcherOnly, runVars
<1>2. ~sealed
  BY <1>1, OpenBeforeDone
<1>3. sealed' /\ Take(r)
  BY <1>1, <1>2, NoLoss DEF Seals, Scan, OnTrack, Base
<1>4. /\ r.decision = RUN_CLOSED /\ r.closure_sequence = C
      /\ r.inflight_remaining = 0 /\ r.effect_permits_remaining = 0
      /\ r.audit_producers_remaining = 0 /\ r.listener_state = "STOPPED"
  OBVIOUS
<1> HIDE DEF r
<1>5. /\ RunFits /\ vrun = "ACKNOWLEDGED" /\ Killed /\ vcancel = cancellation
  BY <1>1 DEF Tracked, RunFits, AfterSwitch, BeforeRequest
<1>6. /\ vstatus' = NoFault /\ vrun' = "CLOSED" /\ UNCHANGED <<vatt, vseqs, vreq, vcancel, vkill>>
  BY <1>3, <1>4, <1>5, TakeBranch, RunClosedAccepted DEF C
<1>7. Killed'
  BY <1>5, <1>6 DEF Killed
<1>8. RunFits'
  BY <1>1, <1>3, <1>5, <1>6, <1>7
  DEF RunFits, BeforeSwitch, AfterSwitch, BeforeRequest, Draining
<1>9. Tracked'
  BY <1>6, <1>8, WatcherTracked DEF Watcher
<1> QED
  BY <1>6, <1>9 DEF Keeps, StatusOK

\* Every step of serve() and the watcher keeps the scan in step or has its record refused.
LEMMA WatcherStepTracked ==
  ASSUME Base, TrackInv, BootDegraded \/ Boot \/ NoticeKillFile \/ ListenerEnds \/ Watcher
  PROVE  TrackInv'
<1> SUFFICES ASSUME OnTrack' PROVE Keeps
  BY DEF TrackInv, Keeps
<1>1. OnTrack /\ StatusOK /\ (vstatus = NoFault => Tracked)
  BY WatcherOnTrack DEF TrackInv
<1>2. CASE vstatus # NoFault
  <2>1. vstatus' = vstatus /\ vatt' = vatt /\ spelling' = spelling /\ raised' = raised
    BY <1>2, WatcherSink, RefusedUnmoved, WatcherLeavesHandlers DEF handlerVars
  <2> QED
    BY <1>1, <1>2, <2>1 DEF Keeps, StatusOK
<1>3. CASE vstatus = NoFault
  <2>1. CASE \/ NoticeKillFile \/ CancelRun \/ KillRegistry \/ MarkVictim \/ ShutVictim
             \/ StopListener \/ ListenerEnds \/ AwaitDrain \/ AwaitListener \/ AwaitProducers
             \/ SamplePermits \/ SampleProducers \/ Exit
    <3>1. Tracked' /\ vstatus' = vstatus
      BY <1>1, <1>3, <2>1, QuietWatcherTracked
    <3> QED
      BY <1>3, <3>1 DEF Keeps, StatusOK
  <2>2. CASE BootDegraded \/ Boot \/ RecordRequested \/ RecordLinearized
    BY <1>1, <1>3, <2>2, BootTracked, RequestedTracked, LinearizedTracked
  <2>3. CASE RecordKillSwitch \/ RecordAck \/ SealRun
    BY <1>1, <1>3, <2>3, SwitchTracked, AckTracked, SealTracked
  <2>4. ~RecordDrainTimeout
    BY <1>1, <1>3 DEF RecordDrainTimeout, Tracked, RunFits, BeforeSwitch, AfterSwitch,
                      BeforeRequest, Draining
  <2> QED
    BY <2>1, <2>2, <2>3, <2>4 DEF Watcher
<1> QED
  BY <1>2, <1>3

\* The scan and the gateway start in step.
LEMMA TrackInit == Init => TrackInv
<1> SUFFICES ASSUME Init PROVE StatusOK /\ Tracked
  BY DEF TrackInv
<1>1. /\ vstatus = NoFault /\ vrun = "RUNNING" /\ ~vstartup /\ ~vactive /\ vseqs = {}
      /\ vatt = [a \in Attempts |-> NoAttempt] /\ vcancel = NoCancel /\ vkill = NoKill
      /\ wpc = "boot" /\ ~sealed
  BY DEF Init, SinkInit, VerifyInit
<1>2. NoAttempt \in Entries
  BY DEF NoAttempt, Entries
<1>3. \A h \in Attempts : Fits(h)
  <2> SUFFICES ASSUME NEW h \in Attempts PROVE Fits(h)
    OBVIOUS
  <2>1. pc[h] = "none" /\ A(h) = 0 /\ P(h) = 0 /\ R(h) = 0 /\ vatt[h] = NoAttempt
    BY <1>1 DEF Init, RunInit, NoAuthorization, A, P, R
  <2>2. /\ NoAttempt.state = "NONE" /\ NoAttempt.auth_seq = 0 /\ NoAttempt.permit_seq = 0
        /\ NoAttempt.release_seq = 0 /\ ~NoAttempt.late_auth
    BY DEF NoAttempt
  <2>3. StateFits(pc[h], todo[h], vatt[h], raised[h]) /\ NumbersFit(pc[h], vatt[h], A(h), P(h), R(h))
    BY <2>1, <2>2 DEF StateFits, NumbersFit, AtTarget
  <2>4. FactsFit(h, vatt[h], cancelled, P(h))
    BY <2>1, <2>2 DEF FactsFit, TERMINAL, COMPLETED, FAILED, UNKNOWN, CANCELLED
  <2> QED
    BY <2>3, <2>4 DEF Fits
<1>4. ~Killed
  BY <1>1 DEF Killed, NoKill
<1>5. RunFits
  BY <1>1, <1>4 DEF RunFits, BeforeSwitch, AfterSwitch, BeforeRequest, Draining
<1>6. UsedInv
  BY <1>1 DEF UsedInv
<1>7. vatt \in [Attempts -> Entries]
  BY <1>1, <1>2
<1> QED
  BY <1>1, <1>3, <1>5, <1>6, <1>7 DEF Tracked, StatusOK

\* As long as no record is lost the scan stays in step.
LEMMA TrackStep == ASSUME Base, TrackInv, [Next]_vars PROVE TrackInv'
<1>1. CASE UNCHANGED vars
  <2>1. UNCHANGED <<healthy, openFaults, sealed, wpc, spelling, raised, verifyVars, pc, todo, victims, torn,
                    evidence, sample, runVars>>
    BY <1>1 DEF vars, sinkVars, verifyVars, handlerVars, watcherVars
  <2>2. OnTrack' = OnTrack /\ StatusOK' = StatusOK /\ vstatus' = vstatus
    BY <2>1 DEF OnTrack, StatusOK, verifyVars
  <2>3. ASSUME Tracked PROVE Tracked'
    <3>1. DrainRecord(CANCEL_ACK)' = DrainRecord(CANCEL_ACK) /\ C' = C
      BY <2>1 DEF DrainRecord, C, quiescent, blockers, listener_down, runVars
    <3>2. RunFits'
      BY <2>1, <2>3, <3>1 DEF Tracked, RunFits, Common, Killed, verifyVars, runVars
    <3>3. \A g \in Attempts : Fits(g)'
      BY <2>1, <2>3 DEF Tracked, Fits, A, P, R, verifyVars, runVars
    <3>4. UsedInv'
      BY <2>1, <2>3 DEF Tracked, UsedInv, verifyVars
    <3> QED
      BY <2>1, <2>3, <3>2, <3>3, <3>4 DEF Tracked, verifyVars
  <2> QED
    BY <2>2, <2>3 DEF TrackInv
<1> QED
  BY <1>1, HandlerTracked, WatcherStepTracked DEF Next

\* All that is known of the gateway, and that the scan is in step with it.
LEMMA TrackInvariant == Spec => [](Base /\ TrackInv)
<1>1. Init => PathInv /\ EvidenceInv /\ NumberedInv /\ TrackInv
  BY PathInit, EvidenceInit, NumberedInit, TrackInit
<1>2. /\ GatewayInv /\ ServeInv /\ FaultsInv
      /\ PathInv /\ EvidenceInv /\ NumberedInv /\ TrackInv /\ [Next]_vars
      => (PathInv /\ EvidenceInv /\ NumberedInv /\ TrackInv)'
  BY PathStep, EvidenceStep, NumberedStep, TrackStep DEF Base, GatewayInv
<1> QED
  BY <1>1, <1>2, GatewayInvariant, ServeInvariant, PTL DEF Spec, Base

(* The history of a sealed run is LOCAL_HISTORY_VALID, or it has no        *)
(* attempt, or it is one of the refusals SealedHistoryVerifies lists       *)
(* (among them an intent that an exception out of _inside left open):      *)
(* nothing handle(), terminate_all() and cancel_and_quiesce() can do in    *)
(* any interleaving, and no failed write, makes verify_e10.py reject a run *)
(* that seal_with() closed for another reason.                             *)
THEOREM SealedVerifies == Spec => []SealedHistoryVerifies
<1>1. Base /\ TrackInv => SealedHistoryVerifies
  <2> SUFFICES ASSUME Base, TrackInv, sealed, ~(openFaults < OpenFaults)
               PROVE  \/ FinalStatus \in {"LOCAL_HISTORY_VALID", "NO_LIFECYCLE_RECORDS",
                                          "POST_CANCELLATION_EFFECT"}
                      \/ /\ FinalStatus = "INCOMPLETE_ATTEMPT"
                         /\ \E h \in Attempts : raised[h] /\ vatt[h].state = "AUTHORIZED"
                      \/ /\ vstatus \in {"BINDING_MISMATCH", "CONNECTION_TERMINATED_BINDING_MISMATCH"}
                         /\ \E h \in Attempts : spelling[h] # Canonical
                      \/ vstatus = "CONTEXT_BINDING_MISMATCH" /\ MaxConnections = 0
    BY DEF SealedHistoryVerifies
  <2>1. OnTrack
    BY FaultBounds DEF OnTrack, Base, FaultsInv
  <2>2. CASE vstatus # NoFault
    <3>1. FinalStatus = vstatus
      BY <2>2, RefusedStays DEF Base, GatewayInv, QuietInv, SealInv
    <3> QED
      BY <2>1, <2>2, <3>1 DEF TrackInv, StatusOK
  <2>3. CASE vstatus = NoFault
    <3>1. Tracked
      BY <2>1, <2>3 DEF TrackInv
    <3>2. wpc \in {"done", "exited"} /\ inflight = {} /\ producers = 0
      BY DEF Base, GatewayInv, QuietInv, SealInv, Quiet
    <3>3. vrun = "CLOSED" /\ Killed
      BY <3>1, <3>2 DEF Tracked, RunFits, AfterSwitch
    <3>4. /\ \A a \in incomplete_attempts :
               a \in Attempts /\ raised[a] /\ vatt[a].state = "AUTHORIZED"
          /\ missing_allows = {} /\ missing_releases = {}
      BY <3>1, <3>2, QuietIsSettled
    <3>5. CASE incomplete_attempts = {}
      BY <2>3, <3>3, <3>4, <3>5, CompleteIsValid
    <3>6. CASE incomplete_attempts # {}
      BY <2>3, <3>4, <3>6, IncompleteIsRefused
    <3> QED
      BY <3>5, <3>6
  <2> QED
    BY <2>2, <2>3
<1> QED
  BY <1>1, TrackInvariant, PTL
=============================================================================
