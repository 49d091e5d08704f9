---------------------------- MODULE MCAuditLog ----------------------------
(* Two processes that may open the same log, the faults of each run, and  *)
(* two issuers of anchors, one of them trusted.                           *)
EXTENDS Anchor, TLC

CONSTANTS w1, w2

MCWriters == {w1, w2}
WriterSymmetry == Permutations(MCWriters)
MCClaims == {"trusted", "other"}

\* Every fault but the one that tears exactly the newline off.
AllButNewline == {"open", "short", "fsync", "directory", "crash", "power"}
NewlineTear == {"newline", "crash"}
=============================================================================
