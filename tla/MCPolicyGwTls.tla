--------------------------- MODULE MCPolicyGwTls ---------------------------
(* Two connections, one asset with a cap of its own, a name that answers  *)
(* differently from lookup to lookup.                                     *)
EXTENDS PolicyGwTls, Sequences, TLC

CONSTANTS h1, h2, site, good, other, bad

MCHandlers == {h1, h2}
MCAssets == {site}
MCAsset == (h1 :> site) @@ (h2 :> None)
MCCap == (None :> 2) @@ (site :> 2)
MCZone == {<<>>, <<good>>, <<other>>, <<good, bad>>}
MCAllowed == {good, other}
=============================================================================
