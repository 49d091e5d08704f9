------------------------------- MODULE Anchor -------------------------------
(***************************************************************************)
(* The close anchor over the audit log: the control plane reads a closed   *)
(* log and creates an authenticated anchor file (pep/e10_anchor.py), and   *)
(* verify() of pep/verify_e10.py compares the log with that file.  The     *)
(* gateway may be stopped, restarting or writing while this happens, and   *)
(* the control plane may itself fail between any two of its system calls.  *)
(*                                                                         *)
(* A claim stands for what an issuer binds besides the bytes: the key, its *)
(* key id and the source commit.  The grammar of the records (module       *)
(* VerifyE10) is abstracted to the closure being the last one.             *)
(***************************************************************************)
EXTENDS AuditLog

CONSTANTS
  Claims,       \* what an issuer may bind
  Trusted       \* what the verifying party selected

VARIABLES
  issuer,       \* "idle", "built", "created", "written" or "synced"
  facts,        \* the anchor in the issuer's memory
  anchor,       \* the anchor file as a reader finds it
  issued        \* write_anchor() has returned

issuerVars == <<issuer, facts, anchor, issued>>
anchorVars == <<logVars, issuerVars>>

NoFile == [form |-> "none"]
TornFile == [form |-> "torn"]
WholeFile(content) == [form |-> "whole", content |-> content]

AnchorInit ==
  /\ LogInit
  /\ issuer = "idle" /\ facts = <<>>
  /\ anchor = NoFile
  /\ issued = FALSE

-----------------------------------------------------------------------------
Last == lines[Len(lines)]

\* A record and its newline are one unit of length each.
byte_length ==
  IF lines = <<>> THEN 0
  ELSE 2 * Len(lines) - (IF Last.form = "whole" THEN 0 ELSE 1)

audit_facts(claim) ==
  [claim |-> claim, record_count |-> Len(lines), byte_length |-> byte_length,
   final_chain_hash |-> Last.id]

\* The chain verifies and its last record is RUN_CLOSED.
ClosedRange == Intact /\ lines # <<>> /\ Last.closes

\* build_anchor(): one read of the file; anything else raises.
BuildAnchor(claim) ==
  /\ issuer = "idle" /\ issuer' = "built"
  /\ ClosedRange
  /\ facts' = audit_facts(claim)
  /\ UNCHANGED <<logVars, anchor, issued>>

\* The issuer ends: write_anchor() returned or raised, or the process died.
IssuerEnds == issuer' = "idle" /\ facts' = <<>>

\* Mutant: an existing anchor is truncated and written again.
CreateOrReplace ==
  /\ issuer = "built"
  /\ anchor' = TornFile /\ issuer' = "created"
  /\ UNCHANGED <<logVars, facts, issued>>

\* os.open(O_CREAT | O_EXCL): a file that is there is never replaced.
CreateAnchor ==
  /\ issuer = "built"
  /\ \/ /\ anchor = NoFile
        /\ anchor' = TornFile /\ issuer' = "created"
        /\ UNCHANGED facts
     \/ anchor # NoFile /\ IssuerEnds /\ UNCHANGED anchor
  /\ UNCHANGED <<logVars, issued>>

\* The loop of os.write(): the file is complete, for readers.
WriteAnchor ==
  /\ issuer = "created" /\ issuer' = "written"
  /\ anchor' = WholeFile(facts)
  /\ UNCHANGED <<logVars, facts, issued>>

\* os.fsync(fd): its bytes are on disk, its name may not be.
SyncAnchor ==
  /\ issuer = "written" /\ issuer' = "synced"
  /\ UNCHANGED <<logVars, facts, anchor, issued>>

\* os.fsync(dfd) of the directory, and write_anchor() returns.
SyncDirectory ==
  /\ issuer = "synced"
  /\ IssuerEnds
  /\ issued' = TRUE
  /\ UNCHANGED <<logVars, anchor>>

\* A system call fails or the process dies: the file stays as it is.
IssuerFails ==
  /\ issuer # "idle"
  /\ IssuerEnds
  /\ UNCHANGED <<logVars, anchor, issued>>

(* The machine stops, the control plane with it: a file whose name is not  *)
(* synced may be as it was, cut short, or gone.                            *)
LoseAnchor ==
  /\ PowerLoss
  /\ IssuerEnds
  /\ anchor' \in IF issued \/ anchor = NoFile
                 THEN {anchor} ELSE {anchor, TornFile, NoFile}
  /\ UNCHANGED issued

AnchorNext ==
  \/ ProcessNext /\ UNCHANGED issuerVars
  \/ \E claim \in Claims : BuildAnchor(claim)
  \/ CreateAnchor \/ WriteAnchor \/ SyncAnchor \/ SyncDirectory \/ IssuerFails
  \/ LoseAnchor

AnchorSpec == AnchorInit /\ [][AnchorNext]_anchorVars

-----------------------------------------------------------------------------
\* verify() answers PROVEN.  A tag verifies only under the key it was made
\* with, so the claim is the one the verifying party selected.
Proven ==
  /\ ClosedRange
  /\ anchor.form = "whole"
  /\ anchor.content = audit_facts(Trusted)

Acknowledged == \E r \in acked : r.closes

-----------------------------------------------------------------------------
(* Once write_anchor() has returned, a PROVEN verdict for a closure the    *)
(* gateway acknowledged is PROVEN for ever: no restart, failed write, power*)
(* loss or second issuer takes it back ("Durably create, never replace").  *)
(* A verdict given earlier, from a file not yet synced, may be lost.       *)
ProvenIsForever ==
  [][Proven /\ Acknowledged /\ issued => Proven']_anchorVars
=============================================================================
