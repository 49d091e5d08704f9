------------------------------ MODULE MCGateway ------------------------------
(* Small gateways for TLC.                                                *)
EXTENDS Gateway, TLC

CONSTANTS h1, h2

OneHandler == {h1}
TwoHandlers == {h1, h2}
HandlerSymmetry == Permutations(TwoHandlers)
CanonicalOnly == {Canonical}
AnySpelling == {Canonical, "as_sent"}
=============================================================================
