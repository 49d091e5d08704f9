------------------------------ MODULE AuditLog ------------------------------
(***************************************************************************)
(* AuditLog of pep/audit.py on disk and across restarts: exclusive writer  *)
(* processes (server.py opens the log with exclusive=True), the hash chain,*)
(* the health latch, the seal, and a storage that fails, crashes or loses  *)
(* power between any two system calls of a write.                          *)
(*                                                                         *)
(* A record stands for its own hash.  A line of the file is what a reader  *)
(* finds between two newlines:                                             *)
(*   whole    record and newline                                           *)
(*   open     the record without its newline (still parseable)             *)
(*   partial  a prefix of the record                                       *)
(*   merged   an open or partial line continued by a later append          *)
(***************************************************************************)
EXTENDS Naturals, Sequences, FiniteSets

CONSTANTS
  Writers,      \* processes that may open the log
  MaxRecords,   \* bound: records ever composed
  Faults        \* which of the faults below may happen

ASSUME FaultsAssumption ==
  Faults \subseteq {"open", "short", "newline", "fsync", "directory", "crash",
                    "power"}

VARIABLES
  lines,      \* the file, as a reader sees it
  synced,     \* number of lines covered by a successful fsync
  state,      \* per writer: "down", "refused" or "serving"
  healthy,    \* AuditLog._healthy
  sealed,     \* AuditLog._sealed
  prev,       \* AuditLog._prev
  composed,   \* records composed so far
  acked       \* history: records whose write() returned

logVars == <<lines, synced, state, healthy, sealed, prev, composed, acked>>

GENESIS == 0

LogInit ==
  /\ lines = <<>>
  /\ synced = 0
  /\ state = [w \in Writers |-> "down"]
  /\ healthy = [w \in Writers |-> TRUE]
  /\ sealed = [w \in Writers |-> FALSE]
  /\ prev = [w \in Writers |-> GENESIS]
  /\ composed = 0
  /\ acked = {}

-----------------------------------------------------------------------------
Parseable(line) == line.form \in {"whole", "open"}

\* verify() up to line n: every line parses and carries the hash before it.
IntactTo(n) ==
  \A i \in 1..n :
    /\ Parseable(lines[i])
    /\ lines[i].prev = IF i = 1 THEN GENESIS ELSE lines[i - 1].id

Intact == IntactTo(Len(lines))

\* _recover_tail() of a file that verify() accepted.
RecoveredTail == IF lines = <<>> THEN GENESIS ELSE lines[Len(lines)].id
\* Mutant: a restart forgets the seal.
RecoveredSealForgotten == FALSE
RecoveredSeal == lines # <<>> /\ lines[Len(lines)].closes

\* O_APPEND: an append after an unterminated line continues that line.
AppendTo(line) ==
  IF lines # <<>> /\ lines[Len(lines)].form # "whole"
  THEN [lines EXCEPT ![Len(lines)].form = "merged"]
  ELSE Append(lines, line)

Record(w, closes, form) ==
  [id |-> composed + 1, prev |-> prev[w], closes |-> closes, form |-> form]

-----------------------------------------------------------------------------
\* Mutant: the writer lock is not taken.
StartUnlocked(w) ==
  /\ state[w] = "down"
  /\ Intact
  /\ state' = [state EXCEPT ![w] = "serving"]
  /\ healthy' = [healthy EXCEPT ![w] = TRUE]
  /\ prev' = [prev EXCEPT ![w] = RecoveredTail]
  /\ sealed' = [sealed EXCEPT ![w] = RecoveredSeal]
  /\ UNCHANGED <<lines, synced, composed, acked>>

(* __init__ with the exclusive flock, _initialize_storage(), and serve()'s *)
(* startup_verify(): a second live writer is refused by the lock, a file   *)
(* that does not verify or a directory that cannot be synced latches the   *)
(* sink and the process does not serve.                                    *)
Start(w) ==
  /\ \A v \in Writers : state[v] = "down"
  /\ \/ /\ Intact
        /\ state' = [state EXCEPT ![w] = "serving"]
        /\ healthy' = [healthy EXCEPT ![w] = TRUE]
     \/ /\ ~Intact \/ "directory" \in Faults
        /\ state' = [state EXCEPT ![w] = "refused"]
        /\ healthy' = [healthy EXCEPT ![w] = FALSE]
  /\ prev' = [prev EXCEPT ![w] = RecoveredTail]
  /\ sealed' = [sealed EXCEPT ![w] = RecoveredSeal]
  /\ UNCHANGED <<lines, synced, composed, acked>>

MayWrite(w) ==
  /\ state[w] = "serving" /\ healthy[w] /\ ~sealed[w]
  /\ composed < MaxRecords

\* Mutant: write() returns without fsync.
WriteUnsynced(w, closes) ==
  /\ MayWrite(w)
  /\ lines' = AppendTo(Record(w, closes, "whole"))
  /\ composed' = composed + 1
  /\ prev' = [prev EXCEPT ![w] = composed + 1]
  /\ acked' = acked \cup {[id |-> composed + 1, closes |-> closes]}
  /\ sealed' = [sealed EXCEPT ![w] = closes]
  /\ UNCHANGED <<synced, state, healthy>>

(* write() and seal_with() return: appended, synced, the tail moved and,   *)
(* for RUN_CLOSED, the seal set, in one critical section.                  *)
Write(w, closes) ==
  /\ MayWrite(w)
  /\ lines' = AppendTo(Record(w, closes, "whole"))
  /\ synced' = Len(lines')
  /\ composed' = composed + 1
  /\ prev' = [prev EXCEPT ![w] = composed + 1]
  /\ acked' = acked \cup {[id |-> composed + 1, closes |-> closes]}
  /\ sealed' = [sealed EXCEPT ![w] = closes]
  /\ UNCHANGED <<state, healthy>>

\* What an append that did not get to the end of its fsync may leave.
Leaves == [short |-> "partial", newline |-> "open", fsync |-> "whole"]

Unfinished(w, closes) ==
  \E fault \in Faults \cap DOMAIN Leaves :
    lines' = AppendTo(Record(w, closes, Leaves[fault]))

\* Mutant: a failed write is reported but not latched.
FailedWriteUnlatched(w, closes) ==
  /\ MayWrite(w)
  /\ Unfinished(w, closes)
  /\ composed' = composed + 1
  /\ UNCHANGED <<synced, state, healthy, sealed, prev, acked>>

\* write() raises after os.open(): the latch closes.
FailedWrite(w, closes) ==
  /\ MayWrite(w)
  /\ Unfinished(w, closes)
  /\ composed' = composed + 1
  /\ healthy' = [healthy EXCEPT ![w] = FALSE]
  /\ UNCHANGED <<synced, state, sealed, prev, acked>>

\* os.open() itself raises, before the try: nothing is latched.
FailedOpen(w) ==
  /\ "open" \in Faults
  /\ MayWrite(w)
  /\ composed' = composed + 1
  /\ UNCHANGED <<lines, synced, state, healthy, sealed, prev, acked>>

Down(w) == state' = [state EXCEPT ![w] = "down"]

\* The process dies in the middle of a write.
CrashWriting(w, closes) ==
  /\ "crash" \in Faults
  /\ MayWrite(w)
  /\ Unfinished(w, closes)
  /\ composed' = composed + 1
  /\ Down(w)
  /\ UNCHANGED <<synced, healthy, sealed, prev, acked>>

\* The process ends or dies between writes; the flock ends with it.
Exit(w) ==
  /\ state[w] # "down"
  /\ Down(w)
  /\ UNCHANGED <<lines, synced, healthy, sealed, prev, composed, acked>>

\* The machine stops: unsynced lines are lost, or a prefix of the first is left.
PowerLoss ==
  /\ "power" \in Faults
  /\ state' = [w \in Writers |-> "down"]
  /\ \/ lines' = SubSeq(lines, 1, synced)
     \/ /\ "short" \in Faults /\ synced < Len(lines)
        /\ lines' = Append(SubSeq(lines, 1, synced),
                           [lines[synced + 1] EXCEPT !.form = "partial"])
  /\ UNCHANGED <<synced, healthy, sealed, prev, composed, acked>>

ProcessNext ==
  \/ \E w \in Writers : Start(w) \/ FailedOpen(w) \/ Exit(w)
  \/ \E w \in Writers, closes \in BOOLEAN :
       Write(w, closes) \/ FailedWrite(w, closes) \/ CrashWriting(w, closes)

LogNext == ProcessNext \/ PowerLoss

LogSpec == LogInit /\ [][LogNext]_logVars

-----------------------------------------------------------------------------
(* Whatever fails, crashes or loses power, every record whose write()      *)
(* returned stays in the verifiable part of the log ("fsync per record: a  *)
(* crash loses at most the record in flight").                             *)
AcknowledgedRecordsSurvive ==
  \A r \in acked : \E i \in 1..Len(lines) : lines[i].id = r.id /\ IntactTo(i)

(* A serving, healthy writer extends a log that verifies, from its true    *)
(* tail: neither a restart nor a second writer forks the chain.            *)
ServingExtendsTheChain ==
  \A w \in Writers :
    state[w] = "serving" /\ healthy[w] => Intact /\ prev[w] = RecoveredTail

(* RUN_CLOSED is absorbing across restarts: after an acknowledged closure  *)
(* no process, however often restarted, changes the file.                  *)
SealIsForever ==
  [][(\E r \in acked : r.closes) => lines' = lines]_logVars

(* A damaged log is preserved and nothing is acknowledged on top of it     *)
(* ("WITHOUT rewriting or discarding the damaged segment").                *)
DamageStopsTheLog ==
  [][~Intact => acked' = acked /\ Len(lines') <= Len(lines)]_logVars

=============================================================================
