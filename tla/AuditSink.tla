------------------------------ MODULE AuditSink ------------------------------
(***************************************************************************)
(* What AuditLog.write() and seal_with() of pep/audit.py do for a running  *)
(* gateway: append one fsynced record, or raise.  Each call is one         *)
(* critical section of AuditLog._lock.  The bytes, the hash chain and      *)
(* restarts are in module AuditLog; here an appended record is handed to   *)
(* the verifier's scan (VerifyE10), so that the state of the scan is the   *)
(* history on disk as the verifier will judge it.                          *)
(***************************************************************************)
EXTENDS VerifyE10

CONSTANTS
  IoFaults,     \* bound: failed or short writes and failed fsyncs
  OpenFaults    \* bound: os.open() failures (they raise before the latch)

ASSUME FaultBounds == IoFaults \in Nat /\ OpenFaults \in Nat

VARIABLES
  healthy,      \* AuditLog._healthy
  sealed,       \* AuditLog._sealed
  ioFaults,     \* faults still to come
  openFaults

sinkVars == <<vstatus, vrun, vstartup, vactive, vatt, vseqs, vreq, vcancel,
              vkill, healthy, sealed, ioFaults, openFaults>>

SinkInit ==
  /\ VerifyInit
  /\ healthy = TRUE
  /\ sealed = FALSE
  /\ ioFaults = IoFaults
  /\ openFaults = OpenFaults

\* The record becomes part of the history; a refused history stays refused.
Scan(r) ==
  \/ vstatus = NoFault /\ Take(r)
  \/ vstatus # NoFault /\ UNCHANGED verifyVars

\* write() returns: the record is durable.
Appends(r) ==
  /\ healthy /\ ~sealed
  /\ Scan(r)
  /\ UNCHANGED <<healthy, sealed, ioFaults, openFaults>>

\* write() raises: refused, not opened, or not completely on disk.
Raises(r) ==
  \/ /\ sealed \/ ~healthy
     /\ UNCHANGED sinkVars
  \/ /\ healthy /\ ~sealed /\ openFaults > 0
     /\ openFaults' = openFaults - 1
     /\ UNCHANGED <<verifyVars, healthy, sealed, ioFaults>>
  \/ /\ healthy /\ ~sealed /\ ioFaults > 0
     /\ healthy' = FALSE
     /\ ioFaults' = ioFaults - 1
     /\ Scan(r) \/ UNCHANGED verifyVars    \* fsync failed, or a short write
     /\ UNCHANGED <<sealed, openFaults>>

\* seal_with(RUN_CLOSED) returns: append and seal under one lock.
Seals(r) ==
  /\ healthy /\ ~sealed
  /\ Scan(r)
  /\ sealed' = TRUE
  /\ UNCHANGED <<healthy, ioFaults, openFaults>>
=============================================================================
