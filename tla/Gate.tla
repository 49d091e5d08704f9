-------------------------------- MODULE Gate --------------------------------
(***************************************************************************)
(* The dual-stack release gate, run_dualstack_gate.sh: one gateway process,*)
(* two client processes in the sandbox one after the other (pep_client.py, *)
(* then ipv6_transport.py), a shell loop W that turns the client's         *)
(* ARM_KILL into STOP_ALL, and the host's verifiers of module Evidence,    *)
(* which read the audit log while the gateway may still be writing it.     *)
(*                                                                         *)
(* Nothing orders W, the gateway's watcher and the script except file      *)
(* existence, bounded waits and `docker exec' returning.  Prompt says that *)
(* no bounded wait expires and nothing is slower than the wait meant for   *)
(* it.  Faults bounds the odd outcomes: an IPv4-only listener, a tunnel    *)
(* that fails, a probe that tells nothing, a client that crashes, a drain  *)
(* that times out, a step whose failure the script ignores.  Without Prompt*)
(* a connect may also run out of its time on the way to an open target.    *)
(*                                                                         *)
(* The gateway's own steps are those of module Gateway, reduced to the     *)
(* connections of the two kill rows.  A probe's tunnel and its record are  *)
(* one step; a row's record is written when its handler ends.              *)
(***************************************************************************)
EXTENDS Evidence

CONSTANTS
  Prompt,     \* every wait is long enough
  Faults,     \* bound: odd outcomes in one execution of the gate
  Egress,     \* what the sandbox can reach without the gateway
  Claims      \* the [run_id, source] each artifact may arrive with

ASSUME GateAssumption ==
  /\ Prompt \in BOOLEAN /\ Faults \in Nat
  /\ Egress \subseteq {"closed", "open", "injectable"}

VARIABLES
  pc, phase,      \* the script: next step; 1 = IPv4 regression, 2 = Layer B
  w,              \* the ARM_KILL loop: off, polling, seen, fired
  arm, stop,      \* ARM_KILL and STOP_ALL exist
  cl, obs, live,  \* the client: next step, what its probes saw, bytes at arming
  stream, bytes,  \* per kill row: the drip's state; its client has some body
  handler,        \* per kill row: none, registered, gone
  gw, torn,       \* the gateway: serving, cancelled, recorded, exited; the kill's snapshot
  log,            \* this run's audit records
  out, col,       \* artifacts in the sandbox's directory; the host's copies
  b7, egress, degraded,   \* what the host, the probes and the listener found
  expired,        \* the direct connects that ran out of time on an open path
  stamped,        \* the artifacts stamp_artifacts.py has bound
  faults,
  res             \* the verifiers' answers and the verdict

script == <<pc, phase, w, arm, stop>>
client == <<cl, obs, live, stream, bytes, out>>
gateway == <<handler, gw, torn, log>>
world == <<b7, egress, degraded, expired, stamped>>
vars == <<script, client, gateway, world, col, faults, res>>

KillRows == {"PP18", "B6"}
Artifacts == {"v4", "layerb", "b6_client"}
Row == IF phase = 1 THEN "PP18" ELSE "B6"
Nonce(row) == IF row = "PP18" THEN "n4" ELSE "n6"
\* What the probes of a client have seen, before it starts.
NoObs == [core |-> "NOT_RUN", drip |-> "NOT_RUN", B3 |-> FALSE, B4 |-> FALSE, B5 |-> FALSE,
          stack |-> "NOT_RUN", direct |-> "NOT_RUN", after |-> "NOT_RUN"]

NotRun == [b8 |-> "NOT_RUN", b9 |-> "NOT_RUN", pp18 |-> "NOT_RUN",
           layer_b |-> FALSE, certified |-> FALSE, verdict |-> "NONE"]

Fine == UNCHANGED faults
Fault == faults < Faults /\ faults' = faults + 1

\* serve(): an IPv4-only listener is announced in the log.
Init ==
  /\ pc = "watch" /\ phase = 1 /\ w = "off" /\ arm = FALSE /\ stop = FALSE
  /\ cl = "off" /\ obs = NoObs /\ live = FALSE
  /\ stream = [r \in KillRows |-> "none"] /\ bytes = FALSE
  /\ handler = [r \in KillRows |-> "none"] /\ gw = "serving" /\ torn = {}
  /\ out = [a \in Artifacts |-> Absent] /\ col = [a \in Artifacts |-> Absent]
  /\ b7 = "failed" /\ egress = "unknown" /\ expired = {} /\ stamped = {}
  /\ degraded \in {FALSE, Faults > 0}
  /\ faults = (IF degraded THEN 1 ELSE 0)
  /\ log = << Record(IF degraded THEN "STARTUP_DEGRADED" ELSE "STARTUP",
                     Missing, Missing, Missing, FALSE) >>
  /\ res = NotRun

-----------------------------------------------------------------------------
(* The script, up to the collection.                                       *)
StartClient ==
  /\ pc = "watch" /\ pc' = "client"
  /\ w' = "polling"
  /\ cl' = (IF phase = 1 THEN "regression" ELSE "B3") /\ bytes' = FALSE
  /\ UNCHANGED <<phase, arm, stop, obs, live, stream, out, gateway, world, col, faults, res>>

\* `docker exec' returned.
ClientReturned ==
  /\ pc = "client" /\ cl = "exit"
  /\ Prompt /\ arm => gw = "exited"
  /\ pc' = "rm"
  /\ UNCHANGED <<phase, w, arm, stop, client, gateway, world, col, faults, res>>

\* Only the first phase takes ARM_KILL back.
RemoveFlags ==
  /\ pc = "rm" /\ pc' = "killw"
  /\ stop' = FALSE /\ arm' = (arm /\ phase = 2)
  /\ UNCHANGED <<phase, w, client, gateway, world, col, faults, res>>

\* `kill $W', after the removal; then the B7 harness, or the end of Layer B.
KillWatcher ==
  /\ pc = "killw" /\ w' = "off"
  /\ \/ /\ phase = 1 /\ phase' = 2 /\ pc' = "watch" /\ cl' = "off"
        /\ \/ Fine /\ b7' = "ready"
           \/ Fault /\ b7' \in {"seen", "failed"}
     \/ phase = 2 /\ pc' = "collect" /\ UNCHANGED <<phase, cl, b7, faults>>
  /\ UNCHANGED <<arm, stop, obs, live, stream, bytes, out, gateway, egress, degraded,
                 expired, stamped, col, res>>

(* ( while [ ! -f ARM_KILL ]; ...; touch STOP_ALL ) &                      *)
WatcherSees ==
  /\ w = "polling" /\ arm /\ w' = "seen"
  /\ UNCHANGED <<pc, phase, arm, stop, client, gateway, world, col, faults, res>>

WatcherTouches ==
  /\ w = "seen" /\ w' = "fired" /\ stop' = TRUE
  /\ UNCHANGED <<pc, phase, arm, client, gateway, world, col, faults, res>>

-----------------------------------------------------------------------------
(* The gateway.                                                            *)
Up(row) == row = "PP18" \/ ~degraded

\* kill_watcher() finds STOP_ALL: the registered connections are torn down; one
\* whose sockets are closed already is not counted.
Cancel ==
  /\ gw = "serving" /\ stop /\ gw' = "cancelled"
  /\ \E ended \in SUBSET {r \in KillRows : stream[r] \notin {"open", "live"}} :
       torn' = {r \in KillRows : handler[r] = "registered"} \ ended
  /\ stream' = [r \in KillRows |-> IF r \in torn' /\ stream[r] \in {"open", "live"}
                                   THEN "cut" ELSE stream[r]]
  /\ UNCHANGED <<script, cl, obs, live, bytes, out, handler, log, world, col, faults, res>>

\* A stream that ended is recorded under its row, and its connection removed.
\* A cut relay may look like a finished one, so ALLOW and CONNECTION_TERMINATED
\* are one outcome here: no verifier tells them apart for the kill rows.
HandlerEnds(r) ==
  /\ handler[r] = "registered" /\ gw # "exited"
  /\ stream[r] \in {"cut", "complete", "broken"}
  /\ handler' = [handler EXCEPT ![r] = "gone"]
  /\ log' = Append(log, Record("OUTCOME", r, r, Nonce(r), r = "B6"))
  /\ UNCHANGED <<script, client, gw, torn, world, col, faults, res>>

\* cancel_and_quiesce(): the kill is recorded once the drain is over, and
\* serve() returns; or the record cannot be written.
RecordKill ==
  /\ gw = "cancelled" /\ gw' = "exited"
  /\ \A r \in KillRows : handler[r] # "registered"
  /\ \/ Fine /\ log' = Append(log, KillSwitch(torn))
     \/ Fault /\ UNCHANGED log
  /\ UNCHANGED <<script, client, handler, torn, world, col, res>>

\* The drain timed out: the handlers go on until the process has ended.
RecordUndrained ==
  /\ gw = "cancelled" /\ gw' = "recorded"
  /\ \E r \in KillRows : handler[r] = "registered"
  /\ Fault /\ log' = Append(log, KillSwitch(torn))
  /\ UNCHANGED <<script, client, handler, torn, world, col, res>>

Exit ==
  /\ gw = "recorded" /\ gw' = "exited"
  /\ handler' = [r \in KillRows |-> IF handler[r] = "registered" THEN "gone" ELSE handler[r]]
  /\ UNCHANGED <<script, client, torn, log, world, col, faults, res>>

-----------------------------------------------------------------------------
(* The clients.                                                            *)

\* A tunnel is served, or the listener is gone, or its handler is refused.
Served(row, probes) ==
  /\ gw = "serving" /\ Up(row) /\ Fine
  /\ log' = log \o [i \in DOMAIN probes |->
       IF row = "B4" THEN Record("BLOCKED_BY_POLICY", row, probes[i], Nonce(row), FALSE)
       ELSE Record("ALLOW", row, probes[i], Nonce(row), TRUE)]

NotServed(row) ==
  /\ UNCHANGED log
  /\ \/ (gw # "serving" \/ ~Up(row)) /\ Fine
     \/ gw = "serving" /\ Fault

\* pep_client.main() up to PP16; a failed row is a failed regression.
Regression ==
  /\ cl = "regression"
  /\ \/ Fine /\ cl' = "drip" /\ obs' = [obs EXCEPT !.core = "PROVEN"]
     \/ Fault /\ cl' = "drip" /\ obs' = [obs EXCEPT !.core = "FAILED"]
     \/ Fault /\ cl' = "write"
        /\ obs' = [obs EXCEPT !.core = "PROVEN", !.drip = "POOL_SATURATED"]
  /\ UNCHANGED <<script, live, stream, bytes, out, gateway, world, col, res>>

\* ipv6_transport.main(): the tunnels of B3, B4 (a wrong SNI, then a wrong
\* Host) and B5.
Tunnel(row, probes, next) ==
  /\ cl = row /\ cl' = next
  /\ \/ Served(row, probes) /\ obs' = [obs EXCEPT ![row] = TRUE]
     \/ NotServed(row) /\ UNCHANGED obs
  /\ UNCHANGED <<script, live, stream, bytes, out, handler, gw, torn, world, col, res>>

Tunnels ==
  \/ Tunnel("B3", <<"B3">>, "raw")
  \/ Tunnel("B4", <<"B4sni", "B4host">>, "B5")
  \/ Tunnel("B5", <<"B5">>, "drip")

\* tcp6(): an observation, never a verdict.  An internal network has no route
\* out; once one was injected the packets are dropped.  A connect that does not
\* answer within its 3 seconds looks the same.
BLOCKING_OBSERVATIONS == {"TIMEOUT", "NO_ROUTE"}

Path(e) ==
  [stack |-> IF gw = "serving" /\ ~degraded THEN "REACHABLE" ELSE "CONNECTION_REFUSED",
   direct |-> IF e = "open" THEN "REACHABLE" ELSE "NO_ROUTE",
   after |-> IF e = "closed" THEN "TIMEOUT" ELSE "REACHABLE"]

tcp6(e, late) == [p \in DOMAIN Path(e) |-> IF p \in late THEN "TIMEOUT" ELSE Path(e)[p]]

Saw(o) == obs' = [obs EXCEPT !.stack = o.stack, !.direct = o.direct, !.after = o.after]

\* The raw connects of B1 to B3, before and after the route injection; one of
\* them may measure nothing, or the injection not be applied.
Probe ==
  /\ cl = "raw" /\ cl' = "B4"
  /\ \E e \in Egress : \E late \in SUBSET {p \in DOMAIN Path(e) : Path(e)[p] = "REACHABLE"} :
       /\ Prompt => late = {}
       /\ egress' = e /\ expired' = late
       /\ \/ Fine /\ Saw(tcp6(e, late))
          \/ Fault /\ \E p \in DOMAIN Path(e) :
                         Saw([tcp6(e, late) EXCEPT ![p] = "LINK_DOWN"])
          \/ Fault /\ Saw([tcp6(e, late) EXCEPT !.after = "NOT_INJECTED"])
  /\ UNCHANGED <<script, live, stream, bytes, out, gateway, b7, degraded, stamped, col, res>>

-----------------------------------------------------------------------------
(* drip(): a thread of the client with a stream that stalls.               *)
DripConnect ==
  /\ cl = "drip" /\ cl' = "wait"
  /\ \/ /\ gw = "serving" /\ Up(Row) /\ Fine
        /\ handler' = [handler EXCEPT ![Row] = "registered"]
        /\ stream' = [stream EXCEPT ![Row] = "open"] /\ UNCHANGED log
     \/ /\ NotServed(Row) /\ UNCHANGED handler
        /\ stream' = [stream EXCEPT ![Row] = "refused"]
     \/ /\ gw = "cancelled" /\ Up(Row) /\ Fine /\ UNCHANGED handler   \* Registry.add() refuses
        /\ stream' = [stream EXCEPT ![Row] = "refused"]
        /\ log' = Append(log, Record("BLOCKED_BY_POLICY", Row, Row, Nonce(Row), FALSE))
  /\ UNCHANGED <<script, obs, live, bytes, out, gw, torn, world, col, res>>

DripBytes ==
  /\ stream[Row] = "open" /\ cl \in {"wait", "join"}
  /\ stream' = [stream EXCEPT ![Row] = "live"] /\ bytes' = TRUE
  /\ UNCHANGED <<script, cl, obs, live, out, gateway, world, col, faults, res>>

\* The body ends by itself or finds its client gone, or the upstream breaks it off.
DripEnds(r) ==
  /\ \/ stream[r] = "live"
     \/ stream[r] = "open" /\ (r # Row \/ cl \in {"exit", "off"})
  /\ \/ ~Prompt /\ Fine /\ stream' = [stream EXCEPT ![r] = "complete"]
     \/ Fault /\ stream' = [stream EXCEPT ![r] = "broken"]
  /\ UNCHANGED <<script, cl, obs, live, bytes, out, gateway, world, col, res>>

\* The switch is armed at the first bytes, and without them in the end.
Arm ==
  /\ cl = "wait" /\ (Prompt => stream[Row] # "open")
  /\ cl' = "join" /\ live' = bytes /\ arm' = TRUE
  /\ UNCHANGED <<pc, phase, w, stop, obs, stream, bytes, out, gateway, world, col, faults, res>>

\* t.join(timeout): the thread is done or it is given up.
Join ==
  /\ cl = "join" /\ cl' = "write"
  /\ Prompt => stream[Row] \notin {"open", "live"}
  /\ obs' = [obs EXCEPT !.drip = IF ~live THEN "NO_LIVE_STREAM"
                                  ELSE IF stream[Row] = "complete" THEN "SURVIVED"
                                  ELSE "PROVEN"]
  /\ UNCHANGED <<script, live, stream, bytes, out, gateway, world, col, faults, res>>

\* Mutant: whatever is not reachable was blocked.
verdict_NotReachable(o, control_ok) ==
  IF ~control_ok THEN "NO_POSITIVE_CONTROL"
  ELSE IF o = "REACHABLE" THEN "FAILED_OPEN" ELSE "PROVEN"

\* Only a drop seen next to a working positive control counts.
enforcement_verdict(o, control_ok) ==
  IF ~control_ok THEN "NO_POSITIVE_CONTROL"
  ELSE IF o = "REACHABLE" THEN "FAILED_OPEN"
  ELSE IF o \in BLOCKING_OBSERVATIONS THEN "PROVEN"
  ELSE "INCONCLUSIVE"

LayerBRows ==
  LET control == obs.B3 /\ obs.stack = "REACHABLE"
      Proven(ok) == IF ok THEN "PROVEN" ELSE "FAILED"
  IN  [B1 |-> enforcement_verdict(obs.direct, control),
       B2 |-> IF obs.after = "NOT_INJECTED" THEN "NO_POSITIVE_CONTROL"
              ELSE enforcement_verdict(obs.after, control),
       B3 |-> enforcement_verdict(obs.direct, obs.B3),
       B4 |-> Proven(obs.B4),
       B5 |-> Proven(obs.B5),
       B6 |-> obs.drip,
       B7 |-> IF ~control THEN "NO_POSITIVE_CONTROL"
              ELSE IF b7 = "seen" THEN "FAILED_OPEN"
              ELSE IF b7 = "ready" THEN "PROVEN" ELSE "APPARATUS_FAILURE"]

\* The sandbox's own files.
WriteArtifacts ==
  /\ cl = "write" /\ cl' = "exit" /\ obs' = NoObs /\ live' = FALSE
  /\ out' = IF phase = 1
            THEN [out EXCEPT !["v4"] =
                    Artifact([core |-> obs.core, drip |-> obs.drip], Unknown)]
            ELSE [out EXCEPT !["layerb"] = Artifact(LayerBRows, Unknown),
                             !["b6_client"] = Artifact(<<>>, IF bytes THEN 1 ELSE 0)]
  /\ UNCHANGED <<script, stream, bytes, gateway, world, col, faults, res>>

ClientCrash ==
  /\ cl \notin {"off", "exit"} /\ cl' = "exit" /\ obs' = NoObs /\ live' = FALSE /\ Fault
  /\ UNCHANGED <<script, stream, bytes, out, gateway, world, col, res>>

-----------------------------------------------------------------------------
(* Collection and verdict.                                                 *)

\* The sandbox could write to its directory until it was removed, which comes
\* first, so what is copied is final; it may have put a run_id and a source of
\* its own into any file, though nobody told it the run's id.
Claimed(claim) ==
  [a \in Artifacts |-> IF out[a].present
                      THEN [out[a] EXCEPT !.run_id = claim[a].run_id,
                                          !.source = claim[a].source]
                      ELSE out[a]]

\* `|| true': a file that collect() refuses is not there, and one that stamp()
\* cannot read or rewrite is left as it was or torn, which is as good as gone.
CollectAndStamp ==
  /\ pc = "collect" /\ pc' = "layerb" /\ cl' = "off"
  /\ \E claim \in Claims : out' = Claimed(claim)
  /\ \/ Fine /\ col' = [a \in Artifacts |-> stamp(out'[a])] /\ stamped' = Artifacts
     \/ Fault /\ \E bad \in Artifacts : \E copy \in {Absent, out'[bad]} :
          /\ col' = [a \in Artifacts |-> IF a = bad THEN copy ELSE stamp(out'[a])]
          /\ stamped' = Artifacts \ {bad}
  /\ UNCHANGED <<phase, w, arm, stop, obs, live, stream, bytes, gateway, b7, egress, degraded,
                 expired, res>>

\* A reader may meet the line the gateway is writing.
Reading(bad) ==
  \/ ~bad /\ Fine
  \/ bad /\ gw # "exited" /\ Fault

\* Without the Layer B file the verifier stops before it writes anything.
VerifyLayerB ==
  /\ pc = "layerb" /\ pc' = "pp18"
  /\ \E bad \in BOOLEAN :
       LET s8 == b8(log, bad)
           s9 == b9(log, bad, col["b6_client"].partial)
       IN  /\ Reading(bad)
           /\ IF col["layerb"].present
              THEN /\ col' = [col EXCEPT !["layerb"] = rebind(@, s8, s9)]
                   /\ res' = [res EXCEPT !.b8 = s8, !.b9 = s9]
              ELSE UNCHANGED <<col, res>>
  /\ UNCHANGED <<phase, w, arm, stop, client, gateway, world>>

VerifyPp18 ==
  /\ pc = "pp18" /\ pc' = "audit"
  /\ \E bad \in BOOLEAN : Reading(bad) /\ res' = [res EXCEPT !.pp18 = pp18_status(log, bad)]
  /\ UNCHANGED <<phase, w, arm, stop, client, gateway, world, col>>

\* Every part must agree, the audit of the evidence with them; the containers
\* are removed.
AuditAndDecide ==
  /\ pc = "audit" /\ pc' = "done"
  /\ \E bad \in BOOLEAN :
       LET certified == Certified(log, bad, col["layerb"], col["v4"], b7)
           layer_b == LayerBPasses(col["layerb"])
           passed == layer_b /\ V4Passes(col["v4"]) /\ certified /\ res.pp18 = "PROVEN"
       IN  /\ Reading(bad)
           /\ res' = [res EXCEPT !.layer_b = layer_b, !.certified = certified,
                                 !.verdict = IF passed THEN "PASSED" ELSE "NOT PASSED"]
  /\ gw' = "exited" /\ handler' = [r \in KillRows |-> "gone"]
  /\ stream' = [r \in KillRows |-> "none"]
  /\ UNCHANGED <<phase, w, arm, stop, cl, obs, live, bytes, out, torn, log, world, col>>

Done == pc = "done" /\ UNCHANGED vars

Script == StartClient \/ ClientReturned \/ RemoveFlags \/ KillWatcher \/ CollectAndStamp
          \/ VerifyLayerB \/ VerifyPp18 \/ AuditAndDecide
Watcher == WatcherSees \/ WatcherTouches
PEP == Cancel \/ RecordKill \/ RecordUndrained \/ Exit \/ \E r \in KillRows : HandlerEnds(r)
Client == Regression \/ Tunnels \/ Probe \/ DripConnect \/ Arm \/ Join
          \/ WriteArtifacts \/ ClientCrash
Upstream == DripBytes \/ \E r \in KillRows : DripEnds(r)

Next == Script \/ Watcher \/ PEP \/ Client \/ Upstream \/ Done

Spec == Init /\ [][Next]_vars

-----------------------------------------------------------------------------
(* What the verifiers say of a kill row is true of the kill: the connection*)
(* of the row was registered when the gateway's only kill was taken        *)
(* (verify_layerb_audit.py, verify_pp18.py against Registry.terminate_all).*)
(* So both rows hold only if one kill tore both connections down.          *)
KillEvidenceIsReal ==
  /\ res.b9 = "PROVEN" => "B6" \in torn
  /\ res.pp18 = "PROVEN" => "PP18" \in torn

\* The connects that find a way out of the sandbox.
Leaks(e) == IF e = "open" THEN {"direct", "after"} ELSE IF e = "injectable" THEN {"after"} ELSE {}

(* A full Layer B is never the work of a probe that measured nothing: the  *)
(* sandbox cannot reach the target by itself, or every connect that would  *)
(* have shown that it can ran out of its 3 seconds; the gateway really     *)
(* listened on IPv6, and the kill met a stream that had delivered bytes    *)
(* (ipv6_transport.enforcement_verdict, verify_layerb_audit, layer_b).     *)
LayerBIsSupported ==
  res.layer_b => Leaks(egress) \subseteq expired /\ ~degraded /\ "B6" \in torn /\ bytes

(* The gate passes only on evidence it bound itself: both kill rows are    *)
(* real, the host saw no UDP packet get out, and of the two sandbox files  *)
(* that E8 asks about none arrived with a run_id, not even the right one,  *)
(* unless its stamp was missed and it claims the control plane's binding.  *)
(* (b6_client.json, whose byte count B9 reads, is not asked about.)        *)
VerdictIsSupported ==
  res.verdict = "PASSED" =>
    /\ res.layer_b /\ res.certified /\ {"PP18", "B6"} \subseteq torn /\ b7 = "ready"
    /\ \A a \in {"v4", "layerb"} :
         /\ out[a].present
         /\ out[a].run_id = NoId \/ (a \notin stamped /\ already_bound(out[a]))

(* Binding twice is harmless: a file the host has bound, by stamp() or only*)
(* by verify_layerb_audit.py, is in conflict exactly when the sandbox had  *)
(* labelled it; the one label that goes unnoticed is the control plane's   *)
(* own, on a file whose stamp was missed.                                  *)
HonestArtifactsBind ==
  pc \in {"layerb", "pp18", "audit", "done"} =>
    \A a \in Artifacts :
      col[a].present /\ (a \in stamped \/ (a = "layerb" /\ pc # "layerb")) =>
        (col[a].conflict <=> /\ out[a].run_id # NoId
                             /\ a \in stamped \/ ~already_bound(out[a]))

(* What RUN_ON_YOUR_HOST.md calls a real pass: on a contained host, with   *)
(* every wait long enough and nothing failing, the gate passes.            *)
HealthyRunPasses ==
  pc = "done" /\ egress = "closed" /\ ~degraded /\ faults = 0
    /\ (\A a \in Artifacts : out[a].run_id = NoId)
  => res.verdict = "PASSED"
=============================================================================
