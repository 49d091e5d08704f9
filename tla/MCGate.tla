------------------------------- MODULE MCGate -------------------------------
(* Instances of Gate for TLC. *)
EXTENDS Gate

CONSTANTS run, null

Honest == [run_id |-> null, source |-> "sandbox"]
\* A file may carry the right id, with or without the control plane's name.
Labels == {Honest, [run_id |-> run, source |-> "sandbox"],
           [run_id |-> run, source |-> "control-plane"]}
NoClaim == [f \in {"v4", "layerb", "b6_client"} |-> Honest]
AllHonest == {NoClaim}
\* Bound: the file that may be labelled is the one the host binds twice.
LayerBClaims == {[NoClaim EXCEPT !["layerb"] = l] : l \in Labels}

\* A host that an injected route opens; when the connect that would show it
\* runs out of its time, the client sees what it sees on a contained host.
Injectable == {"injectable"}
Contained == {"closed"}
=============================================================================
