---------------------------- MODULE AnchorProofs ----------------------------
(***************************************************************************)
(* Proofs about the audit log on disk (module AuditLog) and the close      *)
(* anchor over it (module Anchor), for any number of processes, records    *)
(* and issuers, and any faults but the one that tears exactly the newline  *)
(* off a record: with that one the file still parses but the next append   *)
(* continues the unterminated line, and what follows fails.                *)
(***************************************************************************)
EXTENDS Anchor, TLAPS

Lines == [id : Nat, prev : Nat, closes : BOOLEAN, form : {"whole", "partial"}]

LogTypeOK ==
  /\ lines \in Seq(Lines)
  /\ synced \in 0..Len(lines)
  /\ state \in [Writers -> {"down", "refused", "serving"}]
  /\ healthy \in [Writers -> BOOLEAN]
  /\ sealed \in [Writers -> BOOLEAN]
  /\ prev \in [Writers -> Nat]
  /\ composed \in Nat
  /\ acked \subseteq [id : Nat, closes : BOOLEAN]

\* The flock: at most one process has the log open.
OneWriter == \A v, w \in Writers : state[v] # "down" /\ state[w] # "down" => v = w

\* Every acknowledged record is a line the disk keeps; those lines verify.
AckedOnDisk ==
  /\ IntactTo(synced)
  /\ \A r \in acked : \E i \in 1..synced : lines[i].id = r.id /\ lines[i].closes = r.closes

\* A record that closes the run is the end of the file, acknowledged or not.
ClosureIsLast == \A i \in 1..Len(lines) : lines[i].closes => i = Len(lines)

\* The memory of the process that serves agrees with the file.
MemoryMatchesFile ==
  \A w \in Writers :
    state[w] = "serving" /\ healthy[w] =>
      Intact /\ prev[w] = RecoveredTail /\ sealed[w] = RecoveredSeal

LogInv == LogTypeOK /\ OneWriter /\ AckedOnDisk /\ ClosureIsLast /\ MemoryMatchesFile

-----------------------------------------------------------------------------
LEMMA LogInvInit == LogInit => LogInv
<1> SUFFICES ASSUME LogInit PROVE LogInv
  OBVIOUS
<1>1. LogTypeOK /\ OneWriter
  BY DEF LogInit, LogTypeOK, OneWriter, GENESIS
<1>2. AckedOnDisk /\ ClosureIsLast /\ MemoryMatchesFile
  BY DEF LogInit, AckedOnDisk, ClosureIsLast, MemoryMatchesFile, IntactTo
<1> QED
  BY <1>1, <1>2 DEF LogInv

(* A process that may write appends a line of its own: what it recovered   *)
(* ends in a newline, so AppendTo() never merges, the chain goes on from   *)
(* the last line, and no closed run is continued.                          *)
LEMMA WriterAppends ==
  ASSUME LogInv, NEW w \in Writers, MayWrite(w), NEW closes \in BOOLEAN,
         NEW form \in {"whole", "partial"},
         lines' = AppendTo(Record(w, closes, form))
  PROVE  /\ lines' \in Seq(Lines) /\ Len(lines') = Len(lines) + 1
         /\ \A i \in 1..Len(lines) : lines'[i] = lines[i] /\ ~lines[i].closes
         /\ lines'[Len(lines) + 1] = Record(w, closes, form)
         /\ Intact
         /\ form = "whole" => Intact'
<1> DEFINE r == Record(w, closes, form)
<1>1. Intact /\ prev[w] = RecoveredTail /\ ~RecoveredSeal
  BY DEF LogInv, MemoryMatchesFile, MayWrite
<1>2. lines \in Seq(Lines) /\ Len(lines) \in Nat
  BY DEF LogInv, LogTypeOK
<1>3. \A i \in 1..Len(lines) : lines[i] \in Lines
  BY <1>2
<1>4. r \in Lines /\ r.prev = prev[w] /\ r.form = form
  BY DEF Record, Lines, LogInv, LogTypeOK
<1>5. lines # <<>> => lines[Len(lines)].form = "whole"
  <2> SUFFICES ASSUME lines # <<>> PROVE lines[Len(lines)].form = "whole"
    OBVIOUS
  <2>1. Len(lines) \in 1..Len(lines)
    BY <1>2
  <2> QED
    BY <1>1, <1>3, <2>1 DEF Intact, IntactTo, Parseable, Lines
<1>6. lines' = Append(lines, r)
  BY <1>5 DEF AppendTo
<1>7. /\ lines' \in Seq(Lines) /\ Len(lines') = Len(lines) + 1
      /\ \A i \in 1..Len(lines) : lines'[i] = lines[i]
      /\ lines'[Len(lines) + 1] = r
  BY <1>2, <1>4, <1>6
<1>8. \A i \in 1..Len(lines) : ~lines[i].closes
  BY <1>1, <1>2 DEF LogInv, ClosureIsLast, RecoveredSeal
<1>9. form = "whole" => Intact'
  <2> SUFFICES ASSUME form = "whole", NEW i \in 1..(Len(lines) + 1)
               PROVE  /\ Parseable(lines'[i])
                      /\ lines'[i].prev = IF i = 1 THEN GENESIS ELSE lines'[i - 1].id
    BY <1>7 DEF Intact, IntactTo
  <2>1. CASE i \in 1..Len(lines)
    BY <1>1, <1>2, <1>7, <2>1 DEF Intact, IntactTo
  <2>2. CASE i = Len(lines) + 1
    <3>1. lines'[i].prev = RecoveredTail /\ Parseable(lines'[i])
      BY <1>1, <1>4, <1>7, <2>2 DEF Parseable
    <3>2. lines = <<>> <=> i = 1
      BY <1>2, <2>2
    <3>3. i # 1 => lines'[i - 1] = lines[Len(lines)]
      BY <1>2, <1>7, <2>2
    <3> QED
      BY <3>1, <3>2, <3>3, <2>2 DEF RecoveredTail
  <2> QED
    BY <1>2, <2>1, <2>2
<1> QED
  BY <1>1, <1>7, <1>8, <1>9

(* A write that did not reach its fsync leaves a line that is whole or a   *)
(* prefix, since the newline alone is never torn off.                      *)
LEMMA UnfinishedForms ==
  ASSUME "newline" \notin Faults, NEW w, NEW closes, Unfinished(w, closes)
  PROVE  \E form \in {"whole", "partial"} : lines' = AppendTo(Record(w, closes, form))
<1>1. PICK fault \in Faults \cap DOMAIN Leaves :
         lines' = AppendTo(Record(w, closes, Leaves[fault]))
  BY DEF Unfinished
<1>2. Leaves[fault] \in {"whole", "partial"}
  BY <1>1 DEF Leaves
<1> QED
  BY <1>1, <1>2

\* The lines the disk keeps survive whatever leaves them in place.
LEMMA PrefixKept ==
  ASSUME LogInv, Len(lines') \in Nat, synced <= Len(lines'),
         synced' = synced, acked' = acked,
         \A i \in 1..synced : lines'[i] = lines[i]
  PROVE  AckedOnDisk'
<1>1. synced \in Nat
  BY DEF LogInv, LogTypeOK
<1>2. IntactTo(synced)'
  BY <1>1 DEF LogInv, AckedOnDisk, IntactTo
<1>3. \A r \in acked : \E i \in 1..synced : lines'[i].id = r.id /\ lines'[i].closes = r.closes
  BY DEF LogInv, AckedOnDisk
<1> QED
  BY <1>2, <1>3 DEF AckedOnDisk

-----------------------------------------------------------------------------
(* An append of the serving process, acknowledged or not.  Its line is a   *)
(* new last one; the others stay, and no other process is up.              *)
LEMMA AppendStep ==
  ASSUME LogInv, NEW w \in Writers, MayWrite(w), NEW closes \in BOOLEAN,
         NEW form \in {"whole", "partial"},
         lines' = AppendTo(Record(w, closes, form)),
         composed' = composed + 1,
         \/ /\ form = "whole" /\ synced' = Len(lines')
            /\ prev' = [prev EXCEPT ![w] = composed + 1]
            /\ acked' = acked \cup {[id |-> composed + 1, closes |-> closes]}
            /\ sealed' = [sealed EXCEPT ![w] = closes]
            /\ UNCHANGED <<state, healthy>>
         \/ /\ UNCHANGED <<synced, sealed, prev, acked>>
            /\ \/ healthy' = [healthy EXCEPT ![w] = FALSE] /\ state' = state
               \/ healthy' = healthy /\ state' = [state EXCEPT ![w] = "down"]
  PROVE  LogInv'
<1> DEFINE r == Record(w, closes, form)
<1>1. /\ lines' \in Seq(Lines) /\ Len(lines') = Len(lines) + 1
      /\ \A i \in 1..Len(lines) : lines'[i] = lines[i] /\ ~lines[i].closes
      /\ lines'[Len(lines) + 1] = r
      /\ Intact
      /\ form = "whole" => Intact'
  BY WriterAppends
<1>2. LogTypeOK /\ Len(lines) \in Nat /\ synced \in 0..Len(lines)
  BY DEF LogInv, LogTypeOK
<1>3. r.id = composed + 1 /\ r.closes = closes
  BY DEF Record
<1>4. state[w] = "serving" /\ \A v \in Writers \ {w} : state[v] = "down"
  BY DEF LogInv, OneWriter, MayWrite
<1>5. LogTypeOK'
  <2>1. synced' \in 0..Len(lines') /\ composed' \in Nat
    BY <1>1, <1>2 DEF LogTypeOK
  <2>2. prev' \in [Writers -> Nat]
    BY <1>2 DEF LogTypeOK
  <2>3. state' \in [Writers -> {"down", "refused", "serving"}]
    <3>1. state' = state \/ state' = [state EXCEPT ![w] = "down"]
      OBVIOUS
    <3> QED
      BY <1>2, <3>1 DEF LogTypeOK
  <2>4. healthy' \in [Writers -> BOOLEAN] /\ sealed' \in [Writers -> BOOLEAN]
    BY <1>2 DEF LogTypeOK
  <2>5. acked' \subseteq [id : Nat, closes : BOOLEAN]
    <3>1. [id |-> composed + 1, closes |-> closes] \in [id : Nat, closes : BOOLEAN]
      BY <1>2 DEF LogTypeOK
    <3> QED
      BY <1>2, <3>1 DEF LogTypeOK
  <2> QED
    BY <1>1, <2>1, <2>2, <2>3, <2>4, <2>5 DEF LogTypeOK
<1>6. OneWriter'
  BY <1>2, <1>4 DEF OneWriter, LogTypeOK
<1>7. ClosureIsLast'
  BY <1>1, <1>2 DEF ClosureIsLast
<1>8. AckedOnDisk'
  <2>1. CASE form = "whole" /\ synced' = Len(lines')
             /\ acked' = acked \cup {[id |-> composed + 1, closes |-> closes]}
    <3>1. IntactTo(synced)'
      BY <1>1, <2>1 DEF Intact
    <3>2. ASSUME NEW a \in acked
          PROVE  \E i \in 1..synced' : lines'[i].id = a.id /\ lines'[i].closes = a.closes
      <4>1. PICK i \in 1..synced : lines[i].id = a.id /\ lines[i].closes = a.closes
        BY DEF LogInv, AckedOnDisk
      <4> QED
        BY <1>1, <1>2, <2>1, <4>1
    <3>3. \E i \in 1..synced' : lines'[i].id = composed + 1 /\ lines'[i].closes = closes
      BY <1>1, <1>2, <1>3, <2>1
    <3> QED
      BY <2>1, <3>1, <3>2, <3>3 DEF AckedOnDisk
  <2>2. CASE UNCHANGED <<synced, acked>>
    BY <1>1, <1>2, <2>2, PrefixKept
  <2> QED
    BY <2>1, <2>2
<1>9. MemoryMatchesFile'
  <2>1. CASE form = "whole" /\ prev' = [prev EXCEPT ![w] = composed + 1]
             /\ sealed' = [sealed EXCEPT ![w] = closes] /\ UNCHANGED <<state, healthy>>
    <3>1. /\ lines' # <<>> /\ lines'[Len(lines')] = r /\ Intact'
          /\ prev'[w] = composed + 1 /\ sealed'[w] = closes
      BY <1>1, <1>2, <2>1 DEF LogTypeOK
    <3>2. RecoveredTail' = composed + 1 /\ RecoveredSeal' = closes
      BY <1>3, <3>1 DEF RecoveredTail, RecoveredSeal
    <3> QED
      BY <1>4, <2>1, <3>1, <3>2 DEF MemoryMatchesFile
  <2>2. CASE \/ healthy' = [healthy EXCEPT ![w] = FALSE] /\ state' = state
             \/ healthy' = healthy /\ state' = [state EXCEPT ![w] = "down"]
    BY <1>2, <1>4, <2>2 DEF MemoryMatchesFile, LogTypeOK
  <2> QED
    BY <2>1, <2>2
<1> QED
  BY <1>5, <1>6, <1>7, <1>8, <1>9 DEF LogInv

\* A process opens the log, alone, and serves only a file that verifies.
LEMMA StartStep == ASSUME LogInv, NEW w \in Writers, Start(w) PROVE LogInv'
<1>1. LogTypeOK /\ lines \in Seq(Lines)
  BY DEF LogInv, LogTypeOK
<1>2. RecoveredTail \in Nat /\ RecoveredSeal \in BOOLEAN
  <2>1. CASE lines = <<>>
    BY <2>1 DEF RecoveredTail, RecoveredSeal, GENESIS
  <2>2. CASE lines # <<>>
    <3>1. lines[Len(lines)] \in Lines
      BY <1>1, <2>2
    <3>2. lines[Len(lines)].id \in Nat /\ lines[Len(lines)].closes \in BOOLEAN
      BY <3>1 DEF Lines
    <3>3. RecoveredTail \in Nat
      BY <2>2, <3>2 DEF RecoveredTail
    <3>4. RecoveredSeal \in BOOLEAN
      BY DEF RecoveredSeal
    <3> QED
      BY <3>3, <3>4
  <2> QED
    BY <2>1, <2>2
<1>3. LogTypeOK'
  BY <1>1, <1>2 DEF Start, LogTypeOK
<1>4. OneWriter'
  BY <1>1 DEF Start, OneWriter, LogTypeOK
<1>5. AckedOnDisk' /\ ClosureIsLast'
  BY DEF LogInv, AckedOnDisk, ClosureIsLast, IntactTo, Start
<1>6. Intact' = Intact /\ RecoveredTail' = RecoveredTail /\ RecoveredSeal' = RecoveredSeal
  BY DEF Start, Intact, IntactTo, RecoveredTail, RecoveredSeal
<1>7. MemoryMatchesFile'
  BY <1>1, <1>6 DEF Start, MemoryMatchesFile, LogTypeOK
<1> QED
  BY <1>3, <1>4, <1>5, <1>7 DEF LogInv

\* The machine stops: what the disk keeps is all, or a prefix never closed.
LEMMA PowerLossStep ==
  ASSUME LogInv, PowerLoss
  PROVE  /\ LogInv' /\ Len(lines') <= Len(lines)
         /\ (\E r \in acked : r.closes) => lines' = lines
<1>1. LogTypeOK /\ lines \in Seq(Lines) /\ Len(lines) \in Nat /\ synced \in Nat
      /\ synced <= Len(lines)
  BY DEF LogInv, LogTypeOK, PowerLoss
<1> DEFINE torn == [lines[synced + 1] EXCEPT !.form = "partial"]
           kept == SubSeq(lines, 1, synced)
<1>2. kept \in Seq(Lines) /\ Len(kept) = synced /\ \A i \in 1..synced : kept[i] = lines[i]
  BY <1>1
<1>3. CASE synced = Len(lines)
  <2>1. lines' = kept
    BY <1>1, <1>3 DEF PowerLoss
  <2>2. kept = lines
    BY <1>1, <1>3
  <2>3. UNCHANGED <<lines, synced, healthy, sealed, prev, composed, acked>>
        /\ state' = [w \in Writers |-> "down"]
    BY <2>1, <2>2 DEF PowerLoss
  <2>4. LogTypeOK' /\ OneWriter' /\ MemoryMatchesFile'
    BY <1>1, <2>3 DEF LogTypeOK, OneWriter, MemoryMatchesFile
  <2>5. ClosureIsLast' /\ AckedOnDisk'
    BY <2>3 DEF LogInv, ClosureIsLast, AckedOnDisk, IntactTo
  <2> QED
    BY <1>1, <2>3, <2>4, <2>5 DEF LogInv
<1>4. CASE synced < Len(lines)
  <2>1. torn \in Lines
    <3>1. lines[synced + 1] \in Lines
      BY <1>1, <1>4
    <3> QED
      BY <3>1 DEF Lines
  <2>2. lines' = kept \/ lines' = Append(kept, torn)
    BY DEF PowerLoss
  <2>3. /\ lines' \in Seq(Lines) /\ synced <= Len(lines') /\ Len(lines') <= synced + 1
        /\ \A i \in 1..synced : lines'[i] = lines[i]
    <3> HIDE DEF kept, torn
    <3>1. CASE lines' = kept
      BY <1>1, <1>2, <3>1
    <3>2. CASE lines' = Append(kept, torn)
      BY <1>1, <1>2, <2>1, <3>2
    <3> QED
      BY <2>2, <3>1, <3>2
  <2>4. Len(lines') \in Nat /\ Len(lines') <= Len(lines)
    BY <1>1, <1>4, <2>3
  <2>5. \A i \in 1..synced : ~lines[i].closes
    BY <1>1, <1>4 DEF LogInv, ClosureIsLast
  <2>6. LogTypeOK'
    BY <1>1, <2>3, <2>4 DEF PowerLoss, LogTypeOK
  <2>7. OneWriter' /\ MemoryMatchesFile'
    BY DEF PowerLoss, OneWriter, MemoryMatchesFile
  <2>8. ClosureIsLast'
    BY <1>1, <2>3, <2>4, <2>5 DEF ClosureIsLast
  <2>9. AckedOnDisk'
    BY <2>3, <2>4, PrefixKept DEF PowerLoss
  <2>10. ~\E r \in acked : r.closes
    BY <2>5 DEF LogInv, AckedOnDisk
  <2> QED
    BY <2>4, <2>6, <2>7, <2>8, <2>9, <2>10 DEF LogInv
<1> QED
  BY <1>1, <1>3, <1>4

(* What every step may do to the file and to the acknowledgements: only a  *)
(* serving process appends, and a closed or damaged log has none.          *)
LEMMA LogStep ==
  ASSUME "newline" \notin Faults, LogInv, [LogNext]_logVars
  PROVE  /\ LogInv'
         /\ ~Intact => acked' = acked /\ Len(lines') <= Len(lines)
         /\ (\E r \in acked : r.closes) => lines' = lines
<1>1. Len(lines) \in Nat
  BY DEF LogInv, LogTypeOK
<1>2. ASSUME NEW w \in Writers, MayWrite(w)
      PROVE  Intact /\ ~\E r \in acked : r.closes
  <2>1. Intact /\ ~RecoveredSeal
    BY <1>2 DEF LogInv, MemoryMatchesFile, MayWrite
  <2>2. \A i \in 1..Len(lines) : ~lines[i].closes
    BY <1>1, <2>1 DEF LogInv, ClosureIsLast, RecoveredSeal
  <2>3. synced \in 0..Len(lines)
    BY DEF LogInv, LogTypeOK
  <2> QED
    BY <2>1, <2>2, <2>3 DEF LogInv, AckedOnDisk
<1>3. ASSUME NEW w \in Writers, NEW closes \in BOOLEAN, Write(w, closes)
      PROVE  LogInv' /\ MayWrite(w)
  BY <1>3, AppendStep DEF Write
<1>4. ASSUME NEW w \in Writers, NEW closes \in BOOLEAN,
             FailedWrite(w, closes) \/ CrashWriting(w, closes)
      PROVE  LogInv' /\ MayWrite(w)
  <2>1. MayWrite(w) /\ Unfinished(w, closes)
    BY <1>4 DEF FailedWrite, CrashWriting
  <2>2. PICK form \in {"whole", "partial"} : lines' = AppendTo(Record(w, closes, form))
    BY <2>1, UnfinishedForms
  <2> QED
    BY <1>4, <2>1, <2>2, AppendStep DEF FailedWrite, CrashWriting, Down
<1>5. ASSUME NEW w \in Writers, FailedOpen(w) \/ Exit(w)
      PROVE  LogInv' /\ lines' = lines /\ acked' = acked
  <2> USE DEF LogTypeOK
  <2>1. /\ UNCHANGED <<lines, synced, healthy, sealed, prev, acked>>
        /\ composed' \in Nat
        /\ state' = state \/ state' = [state EXCEPT ![w] = "down"]
    BY <1>5 DEF FailedOpen, Exit, Down, LogInv
  <2>2. LogTypeOK'
    BY <2>1 DEF LogInv
  <2>3. \A v \in Writers : state'[v] # "down" => state'[v] = state[v]
    BY <2>1 DEF LogInv
  <2>4. Intact' = Intact /\ RecoveredTail' = RecoveredTail /\ RecoveredSeal' = RecoveredSeal
    BY <2>1 DEF Intact, IntactTo, RecoveredTail, RecoveredSeal
  <2>5. OneWriter' /\ MemoryMatchesFile'
    BY <2>1, <2>3, <2>4 DEF LogInv, OneWriter, MemoryMatchesFile
  <2>6. AckedOnDisk' /\ ClosureIsLast'
    BY <2>1 DEF LogInv, AckedOnDisk, ClosureIsLast, IntactTo
  <2> QED
    BY <2>1, <2>2, <2>5, <2>6 DEF LogInv
<1>6. ASSUME NEW w \in Writers, Start(w)
      PROVE  LogInv' /\ lines' = lines /\ acked' = acked
  BY <1>6, StartStep DEF Start
<1>7. CASE PowerLoss
  BY <1>7, PowerLossStep DEF PowerLoss
<1>8. CASE UNCHANGED logVars
  <2>1. LogInv'
    BY <1>8 DEF logVars, LogInv, LogTypeOK, OneWriter, AckedOnDisk, ClosureIsLast,
                MemoryMatchesFile, Intact, IntactTo, RecoveredTail, RecoveredSeal
  <2> QED
    BY <1>1, <1>8, <2>1 DEF logVars
<1> QED
  BY <1>1, <1>2, <1>3, <1>4, <1>5, <1>6, <1>7, <1>8 DEF LogNext, ProcessNext

\* The log is inductively consistent with its writer and its disk.
LEMMA LogInvariant == ASSUME "newline" \notin Faults PROVE LogSpec => []LogInv
<1>1. LogInv /\ [LogNext]_logVars => LogInv'
  BY LogStep
<1> QED
  BY <1>1, LogInvInit, PTL DEF LogSpec

-----------------------------------------------------------------------------
(* Every record whose write() returned stays in the verifiable part of the *)
(* log, for any number of processes, restarts, failures and power losses.  *)
THEOREM AcksSurvive ==
  ASSUME "newline" \notin Faults PROVE LogSpec => []AcknowledgedRecordsSurvive
<1>1. LogInv => AcknowledgedRecordsSurvive
  <2> SUFFICES ASSUME LogInv, NEW r \in acked
               PROVE  \E i \in 1..Len(lines) : lines[i].id = r.id /\ IntactTo(i)
    BY DEF AcknowledgedRecordsSurvive
  <2>1. PICK i \in 1..synced : lines[i].id = r.id
    BY DEF LogInv, AckedOnDisk
  <2>2. IntactTo(synced) /\ synced \in 0..Len(lines) /\ Len(lines) \in Nat
    BY DEF LogInv, LogTypeOK, AckedOnDisk
  <2>3. IntactTo(i) /\ i \in 1..Len(lines)
    BY <2>2 DEF IntactTo
  <2> QED
    BY <2>1, <2>3
<1> QED
  BY <1>1, LogInvariant, PTL

\* Neither a restart nor a second process forks the hash chain.
THEOREM ServingExtends ==
  ASSUME "newline" \notin Faults PROVE LogSpec => []ServingExtendsTheChain
<1>1. LogInv => ServingExtendsTheChain
  BY DEF LogInv, MemoryMatchesFile, ServingExtendsTheChain
<1> QED
  BY <1>1, LogInvariant, PTL

\* Nothing is acknowledged on top of a damaged log.
THEOREM DamageStops ==
  ASSUME "newline" \notin Faults PROVE LogSpec => DamageStopsTheLog
<1>1. LogInv /\ [LogNext]_logVars =>
        [~Intact => acked' = acked /\ Len(lines') <= Len(lines)]_logVars
  BY LogStep
<1> QED
  BY <1>1, LogInvariant, PTL DEF LogSpec, DamageStopsTheLog

\* RUN_CLOSED is absorbing across restarts.
THEOREM SealHolds ==
  ASSUME "newline" \notin Faults PROVE LogSpec => SealIsForever
<1>1. LogInv /\ [LogNext]_logVars => [(\E r \in acked : r.closes) => lines' = lines]_logVars
  BY LogStep
<1> QED
  BY <1>1, LogInvariant, PTL DEF LogSpec, SealIsForever

-----------------------------------------------------------------------------
(* Building, writing and losing anchors never touches the log: everything  *)
(* proved of the log holds beside the control plane.                       *)
THEOREM AnchorKeepsTheLog == AnchorSpec => LogSpec
<1>1. AnchorInit => LogInit
  BY DEF AnchorInit
<1>2. [AnchorNext]_anchorVars => [LogNext]_logVars
  BY DEF AnchorNext, anchorVars, BuildAnchor, CreateAnchor, WriteAnchor, SyncAnchor,
         SyncDirectory, IssuerFails, LoseAnchor, LogNext
<1> QED
  BY <1>1, <1>2, PTL DEF AnchorSpec, LogSpec

(* Only the issuer that created the file changes it, before write_anchor() *)
(* returns, and then the file is there.                                    *)
AnchorInv ==
  /\ issuer = "created" => ~issued
  /\ issuer \in {"written", "synced"} => ~issued /\ anchor.form = "whole"
  /\ issued => anchor.form = "whole"

\* Every step of log and issuer keeps an issued anchor as it is.
LEMMA AnchorStep ==
  ASSUME AnchorInv, [AnchorNext]_anchorVars
  PROVE  AnchorInv' /\ (issued => anchor' = anchor)
<1> USE DEF AnchorInv, NoFile, TornFile, WholeFile, IssuerEnds
<1>1. CASE ProcessNext /\ UNCHANGED issuerVars
  BY <1>1 DEF issuerVars
<1>2. CASE \E claim \in Claims : BuildAnchor(claim)
  BY <1>2 DEF BuildAnchor
<1>3. CASE CreateAnchor
  BY <1>3 DEF CreateAnchor
<1>4. CASE WriteAnchor
  BY <1>4 DEF WriteAnchor
<1>5. CASE SyncAnchor \/ SyncDirectory \/ IssuerFails
  BY <1>5 DEF SyncAnchor, SyncDirectory, IssuerFails
<1>6. CASE LoseAnchor
  BY <1>6 DEF LoseAnchor
<1>7. CASE UNCHANGED anchorVars
  BY <1>7 DEF anchorVars, issuerVars
<1> QED
  BY <1>1, <1>2, <1>3, <1>4, <1>5, <1>6, <1>7 DEF AnchorNext

\* The issuer's position and the file agree in every reachable state.
LEMMA AnchorInvariant == AnchorSpec => []AnchorInv
<1>1. AnchorInit => AnchorInv
  BY DEF AnchorInit, AnchorInv, NoFile
<1>2. AnchorInv /\ [AnchorNext]_anchorVars => AnchorInv'
  BY AnchorStep
<1> QED
  BY <1>1, <1>2, PTL DEF AnchorSpec

(* A PROVEN verdict on an acknowledged closure and an anchor whose         *)
(* write_anchor() returned is never taken back: the log has stopped        *)
(* changing, the anchor's name and bytes are synced and nobody replaces it.*)
THEOREM ProvenHolds ==
  ASSUME "newline" \notin Faults PROVE AnchorSpec => ProvenIsForever
<1>1. LogInv /\ AnchorInv /\ [AnchorNext]_anchorVars =>
        [Proven /\ Acknowledged /\ issued => Proven']_anchorVars
  <2> SUFFICES ASSUME LogInv, AnchorInv, [AnchorNext]_anchorVars, Proven, Acknowledged,
                      issued
               PROVE  Proven'
    OBVIOUS
  <2>1. [LogNext]_logVars
    BY DEF AnchorNext, anchorVars, BuildAnchor, CreateAnchor, WriteAnchor, SyncAnchor,
           SyncDirectory, IssuerFails, LoseAnchor, LogNext
  <2>2. lines' = lines
    BY <2>1, LogStep DEF Acknowledged
  <2>3. anchor' = anchor
    BY AnchorStep
  <2> QED
    BY <2>2, <2>3 DEF Proven, ClosedRange, Intact, IntactTo, Last, audit_facts,
                      byte_length
<1> QED
  BY <1>1, LogInvariant, AnchorInvariant, AnchorKeepsTheLog, PTL
     DEF AnchorSpec, ProvenIsForever
=============================================================================
