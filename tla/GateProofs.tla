----------------------------- MODULE GateProofs -----------------------------
(***************************************************************************)
(* Proofs about the release gate, for any number of odd outcomes, with     *)
(* waits that may or may not expire and any labels on the artifacts.       *)
(***************************************************************************)
EXTENDS Gate, SequenceTheorems, TLAPS

-----------------------------------------------------------------------------
(* The kill and its evidence.  A kill record repeats the one snapshot the  *)
(* kill took, and the records of a kill row name the connection of the row.*)
Evident(e) ==
  /\ e.decision = "KILL_SWITCH" => gw # "serving" /\ e.torn = torn
  /\ e.row \in KillRows => e.conn = e.row

EvidenceInv == \E S : log \in Seq(S) /\ \A e \in S : Evident(e)

\* The marker of a row that was never written is no kill row.
LEMMA MissingIsNoRow == Missing \notin KillRows
BY DEF Missing, KillRows

\* What is appended must be evident; what was, stays so.
LEMMA LogGrows ==
  ASSUME EvidenceInv, NEW T, NEW tail \in Seq(T),
         \/ UNCHANGED <<gw, torn>>
         \/ gw # "serving" /\ gw' # "serving" /\ torn' = torn,
         \A e \in T : Evident(e)', log' = log \o tail
  PROVE  EvidenceInv'
<1>1. PICK S : log \in Seq(S) /\ \A e \in S : Evident(e)
  BY DEF EvidenceInv
<1>2. \A e \in S : Evident(e)'
  BY <1>1 DEF Evident
<1>3. log' \in Seq(S \cup T)
  BY <1>1
<1> QED
  BY <1>2, <1>3 DEF EvidenceInv

\* Appending a record that is backed by what happened keeps every record of the log backed.
LEMMA LogAppends ==
  ASSUME EvidenceInv, NEW e, Evident(e)', log' = Append(log, e),
         \/ UNCHANGED <<gw, torn>>
         \/ gw # "serving" /\ gw' # "serving" /\ torn' = torn
  PROVE  EvidenceInv'
<1>1. PICK S : log \in Seq(S) /\ \A d \in S : Evident(d)
  BY DEF EvidenceInv
<1>2. \A d \in S \cup {e} : Evident(d)'
  BY <1>1 DEF Evident
<1>3. log' \in Seq(S \cup {e})
  BY <1>1
<1> QED
  BY <1>2, <1>3 DEF EvidenceInv

\* A step that leaves the log alone keeps it backed, also when the gateway stops serving.
LEMMA LogKept ==
  ASSUME EvidenceInv, log' = log,
         \/ UNCHANGED <<gw, torn>>
         \/ gw = "serving" /\ gw' # "serving"
         \/ gw' # "serving" /\ torn' = torn
  PROVE  EvidenceInv'
<1>1. PICK S : log \in Seq(S) /\ \A d \in S : Evident(d)
  BY DEF EvidenceInv
<1>2. \A d \in S : Evident(d)'
  BY <1>1 DEF Evident
<1> QED
  BY <1>1, <1>2 DEF EvidenceInv

\* The empty log of a gateway that has not started is backed.
LEMMA EvidenceInit == Init => EvidenceInv
<1> SUFFICES ASSUME Init PROVE EvidenceInv
  OBVIOUS
<1>1. PICK e : log = <<e>> /\ e.decision # "KILL_SWITCH" /\ e.row = Missing
  BY DEF Init, Record
<1>2. log \in Seq({e}) /\ Evident(e)
  BY <1>1, MissingIsNoRow DEF Evident
<1> QED
  BY <1>2 DEF EvidenceInv

\* Every step of the script or of the gateway keeps every record of the log backed.
LEMMA EvidenceStep == EvidenceInv /\ [Next]_vars => EvidenceInv'
<1> SUFFICES ASSUME EvidenceInv, [Next]_vars PROVE EvidenceInv'
  OBVIOUS
<1>1. CASE UNCHANGED <<gw, torn, log>>
  BY <1>1, LogKept
<1>2. CASE Cancel
  BY <1>2, LogKept DEF Cancel
<1>3. CASE Exit
  BY <1>3, LogKept DEF Exit
<1>4. CASE AuditAndDecide
  BY <1>4, LogKept DEF AuditAndDecide
<1>5. ASSUME NEW r \in KillRows, HandlerEnds(r) PROVE EvidenceInv'
  <2> DEFINE e == Record("OUTCOME", r, r, Nonce(r), r = "B6")
  <2>1. log' = Append(log, e) /\ UNCHANGED <<gw, torn>>
    BY <1>5 DEF HandlerEnds
  <2>2. Evident(e)'
    BY DEF Evident, Record
  <2> QED
    BY <2>1, <2>2, LogAppends
<1>6. CASE RecordKill \/ RecordUndrained
  <2>1. gw # "serving" /\ gw' # "serving" /\ torn' = torn
    BY <1>6 DEF RecordKill, RecordUndrained
  <2>2. CASE UNCHANGED log
    BY <2>1, <2>2, LogKept
  <2>3. CASE log' = Append(log, KillSwitch(torn))
    <3>1. PICK e : e = KillSwitch(torn)
      OBVIOUS
    <3>2. Evident(e)'
      BY <2>1, <3>1, MissingIsNoRow DEF Evident, KillSwitch
    <3> QED
      BY <2>1, <2>3, <3>1, <3>2, LogAppends
  <2> QED
    BY <1>6, <2>2, <2>3 DEF RecordKill, RecordUndrained
<1>7. CASE Tunnels
  <2>1. PICK row \in {"B3", "B4", "B5"}, probes \in {<<"B3">>, <<"B4sni", "B4host">>, <<"B5">>} :
          /\ UNCHANGED <<gw, torn>>
          /\ Served(row, probes) \/ NotServed(row)
    BY <1>7 DEF Tunnels, Tunnel
  <2>2. CASE NotServed(row)
    BY <2>1, <2>2, LogKept DEF NotServed
  <2>3. CASE Served(row, probes)
    <3> DEFINE rec(i) == IF row = "B4"
                         THEN Record("BLOCKED_BY_POLICY", row, probes[i], Nonce(row), FALSE)
                         ELSE Record("ALLOW", row, probes[i], Nonce(row), TRUE)
               T == {rec(i) : i \in DOMAIN probes}
               tail == [i \in DOMAIN probes |-> rec(i)]
    <3>1. log' = log \o tail
      BY <2>3 DEF Served
    <3>2. \A e \in T : Evident(e)'
      BY <2>1 DEF Evident, Record, KillRows
    <3>3. tail \in Seq(T)
      <4>1. DOMAIN probes = 1..Len(probes) /\ Len(probes) \in {1, 2}
        <5>1. CASE probes \in {<<"B3">>, <<"B5">>}
          BY <5>1
        <5>2. CASE probes = <<"B4sni", "B4host">>
          BY <5>2
        <5> QED
          BY <2>1, <5>1, <5>2
      <4> HIDE DEF rec
      <4>2. tail \in [1..Len(probes) -> T]
        BY <4>1
      <4> QED
        BY <4>1, <4>2, SeqDef
    <3> HIDE DEF T, tail
    <3> QED
      BY <2>1, <3>1, <3>2, <3>3, LogGrows
  <2> QED
    BY <2>1, <2>2, <2>3
<1>8. CASE DripConnect
  <2>1. UNCHANGED <<gw, torn>>
    BY <1>8 DEF DripConnect
  <2>2. CASE UNCHANGED log
    BY <2>1, <2>2, LogKept
  <2>3. CASE log' = Append(log, Record("BLOCKED_BY_POLICY", Row, Row, Nonce(Row), FALSE))
    <3>1. PICK e : e = Record("BLOCKED_BY_POLICY", Row, Row, Nonce(Row), FALSE)
      OBVIOUS
    <3>2. Evident(e)'
      BY <3>1 DEF Evident, Record
    <3> QED
      BY <2>1, <2>3, <3>1, <3>2, LogAppends
  <2> QED
    BY <1>8, <2>2, <2>3 DEF DripConnect, NotServed
<1>9. CASE ~(Cancel \/ Exit \/ AuditAndDecide \/ RecordKill \/ RecordUndrained \/ Tunnels
             \/ DripConnect \/ \E r \in KillRows : HandlerEnds(r))
  <2>1. UNCHANGED <<gw, torn, log>>
    BY <1>9 DEF Next, Script, Watcher, PEP, Client, Upstream, Done, vars, gateway,
         StartClient, ClientReturned, RemoveFlags, KillWatcher, CollectAndStamp, VerifyLayerB,
         VerifyPp18, WatcherSees, WatcherTouches, Regression, Probe, Arm, Join,
         WriteArtifacts, ClientCrash, DripBytes, DripEnds
  <2> QED
    BY <1>1, <2>1
<1> QED
  BY <1>2, <1>3, <1>4, <1>5, <1>6, <1>7, <1>8, <1>9

-----------------------------------------------------------------------------
(* The script and its client.  The client runs only inside `docker exec',  *)
(* and what it saw is forgotten when it ends.                              *)
Closing == {"layerb", "pp18", "audit", "done"}

ScriptInv ==
  /\ phase \in {1, 2}
  /\ pc \in {"watch", "client", "rm", "killw", "collect"} \cup Closing
  /\ pc = "watch" => cl = "off"
  /\ pc \in {"rm", "killw", "collect"} => cl = "exit"
  /\ pc \in Closing => cl = "off"
  /\ pc \in {"collect"} \cup Closing => phase = 2

\* A connect that found no way out of the sandbox, or no time to.
Stopped(p) == p \in Leaks(egress) => p \in expired

ObsInv ==
  /\ DOMAIN obs = DOMAIN NoObs
  /\ cl \in {"off", "exit"} => obs = NoObs /\ ~live
  /\ live => bytes
  /\ obs.stack = "REACHABLE" => ~degraded
  /\ obs.direct \in BLOCKING_OBSERVATIONS => Stopped("direct")
  /\ obs.after \in BLOCKING_OBSERVATIONS => Stopped("after")
  /\ obs.drip = "PROVEN" => bytes

\* The position of the script fixes its phase and whether its client runs.
LEMMA ScriptStep == ScriptInv /\ [Next]_vars => ScriptInv'
<1> SUFFICES ASSUME ScriptInv, [Next]_vars PROVE ScriptInv'
  OBVIOUS
<1> USE DEF ScriptInv, Closing
<1>1. CASE Script
  <2>1. CASE StartClient \/ ClientReturned \/ RemoveFlags \/ KillWatcher
    BY <2>1 DEF StartClient, ClientReturned, RemoveFlags, KillWatcher, client
  <2>2. CASE CollectAndStamp \/ VerifyLayerB \/ VerifyPp18 \/ AuditAndDecide
    BY <2>2 DEF CollectAndStamp, VerifyLayerB, VerifyPp18, AuditAndDecide, client
  <2> QED
    BY <1>1, <2>1, <2>2 DEF Script
<1>2. CASE Client
  <2>1. pc' = pc /\ phase' = phase /\ cl \notin {"off", "exit"}
    BY <1>2 DEF Client, Regression, Tunnels, Tunnel, Probe, DripConnect, Arm, Join,
                WriteArtifacts, ClientCrash, script
  <2> QED
    BY <2>1
<1>3. CASE Watcher \/ PEP \/ Upstream \/ Done \/ UNCHANGED vars
  BY <1>3 DEF Watcher, WatcherSees, WatcherTouches, PEP, Cancel, RecordKill, RecordUndrained,
              Exit, HandlerEnds, Upstream, DripBytes, DripEnds, Done, vars, script, client
<1> QED
  BY <1>1, <1>2, <1>3 DEF Next

\* What the client has observed stays backed by the bytes and the egress it saw.
LEMMA ObsStep == ScriptInv /\ ObsInv /\ [Next]_vars => ObsInv'
<1> SUFFICES ASSUME ScriptInv, ObsInv, [Next]_vars PROVE ObsInv'
  OBVIOUS
<1>0. DOMAIN NoObs = {"core", "drip", "B3", "B4", "B5", "stack", "direct", "after"}
  BY DEF NoObs
<1>1. CASE Script
  <2>1. CASE StartClient
    BY <2>1 DEF ScriptInv, ObsInv, StartClient, NoObs, world, BLOCKING_OBSERVATIONS
  <2>2. CASE KillWatcher \/ CollectAndStamp
    BY <2>2 DEF ScriptInv, ObsInv, Stopped, KillWatcher, CollectAndStamp, world
  <2>3. CASE ClientReturned \/ RemoveFlags \/ VerifyLayerB \/ VerifyPp18 \/ AuditAndDecide
    <3>1. UNCHANGED <<cl, obs, live, bytes, degraded, egress, expired>>
      BY <2>3 DEF ClientReturned, RemoveFlags, VerifyLayerB, VerifyPp18, AuditAndDecide,
                  client, world
    <3> QED
      BY <3>1 DEF ObsInv, Stopped
  <2> QED
    BY <1>1, <2>1, <2>2, <2>3 DEF Script
<1>2. CASE Regression
  BY <1>0, <1>2 DEF ObsInv, Stopped, Regression, world
<1>3. CASE Tunnels
  <2>1. PICK row \in {"B3", "B4", "B5"} : obs' = obs \/ obs' = [obs EXCEPT ![row] = TRUE]
    BY <1>3 DEF Tunnels, Tunnel
  <2>2. cl' \notin {"off", "exit"} /\ UNCHANGED <<live, bytes, degraded, egress, expired>>
    BY <1>3 DEF Tunnels, Tunnel, world
  <2>3. /\ DOMAIN obs' = DOMAIN obs
        /\ obs'.stack = obs.stack /\ obs'.direct = obs.direct
        /\ obs'.after = obs.after /\ obs'.drip = obs.drip
    BY <1>0, <2>1 DEF ObsInv
  <2> QED
    BY <2>2, <2>3 DEF ObsInv, Stopped
<1>4. CASE Probe
  <2>1. PICK e \in Egress, late \in SUBSET {"stack", "direct", "after"} :
          /\ egress' = e /\ expired' = late
          /\ \/ Saw(tcp6(e, late))
             \/ \E p \in DOMAIN Path(e) : Saw([tcp6(e, late) EXCEPT ![p] = "LINK_DOWN"])
             \/ Saw([tcp6(e, late) EXCEPT !.after = "NOT_INJECTED"])
    BY <1>4 DEF Probe, Path
  <2> DEFINE probes == {"stack", "direct", "after"}
             seen == tcp6(e, late)
  <2>2. DOMAIN Path(e) = probes /\ DOMAIN seen = probes
    BY DEF Path, tcp6
  <2>3. PICK o : /\ Saw(o)
                 /\ \A p \in probes : o[p] = seen[p] \/ o[p] \in {"LINK_DOWN", "NOT_INJECTED"}
    <3>1. ASSUME NEW p \in probes, NEW v
          PROVE  \A q \in probes : [seen EXCEPT ![p] = v][q] \in {seen[q], v}
      BY <2>2
    <3> HIDE DEF seen
    <3>2. CASE Saw(seen)
      BY <3>2
    <3>3. CASE \E p \in DOMAIN Path(e) : Saw([seen EXCEPT ![p] = "LINK_DOWN"])
      <4>1. PICK p \in probes : Saw([seen EXCEPT ![p] = "LINK_DOWN"])
        BY <2>2, <3>3
      <4>2. PICK o : o = [seen EXCEPT ![p] = "LINK_DOWN"]
        OBVIOUS
      <4>3. \A q \in probes : o[q] \in {seen[q], "LINK_DOWN"}
        BY <3>1, <4>2
      <4> HIDE DEF probes
      <4> QED
        BY <4>1, <4>2, <4>3
    <3>4. CASE Saw([seen EXCEPT !.after = "NOT_INJECTED"])
      <4>1. PICK o : o = [seen EXCEPT !.after = "NOT_INJECTED"]
        OBVIOUS
      <4>2. \A q \in probes : o[q] \in {seen[q], "NOT_INJECTED"}
        BY <3>1, <4>1
      <4> HIDE DEF probes
      <4> QED
        BY <3>4, <4>1, <4>2
    <3> QED
      BY <2>1, <3>2, <3>3, <3>4 DEF seen
  <2>4. /\ DOMAIN obs' = DOMAIN obs
        /\ obs'.stack = o.stack /\ obs'.direct = o.direct /\ obs'.after = o.after
        /\ obs'.drip = obs.drip
    BY <1>0, <2>3 DEF Saw, ObsInv
  <2>5. cl' = "B4" /\ UNCHANGED <<live, bytes, degraded>>
    BY <1>4 DEF Probe
  <2>6. o.stack = "REACHABLE" => ~degraded
    BY <2>2, <2>3 DEF tcp6, Path
  <2>7. ASSUME NEW p \in {"direct", "after"}, o[p] \in BLOCKING_OBSERVATIONS
        PROVE  Stopped(p)'
    <3>1. seen[p] \in BLOCKING_OBSERVATIONS
      BY <2>3, <2>7 DEF BLOCKING_OBSERVATIONS
    <3>2. p \in late \/ Path(e)[p] \in BLOCKING_OBSERVATIONS
      BY <2>2, <3>1 DEF tcp6
    <3>3. Path(e)[p] \in BLOCKING_OBSERVATIONS => p \notin Leaks(e)
      BY DEF Path, Leaks, BLOCKING_OBSERVATIONS
    <3> QED
      BY <2>1, <3>2, <3>3 DEF Stopped
  <2> QED
    BY <2>4, <2>5, <2>6, <2>7 DEF ObsInv
<1>5. CASE Join
  <2>1. /\ DOMAIN obs' = DOMAIN obs
        /\ obs'.stack = obs.stack /\ obs'.direct = obs.direct /\ obs'.after = obs.after
        /\ obs'.drip = "PROVEN" => live
    BY <1>0, <1>5 DEF Join, ObsInv
  <2>2. cl' = "write" /\ UNCHANGED <<live, bytes, degraded, egress, expired>>
    BY <1>5 DEF Join, world
  <2> QED
    BY <2>1, <2>2 DEF ObsInv, Stopped
<1>6. CASE DripConnect \/ Arm
  <2>1. /\ cl' \notin {"off", "exit"} /\ UNCHANGED <<obs, bytes, degraded, egress, expired>>
        /\ live' = live \/ live' = bytes
    BY <1>6 DEF DripConnect, Arm, world
  <2> QED
    BY <2>1 DEF ObsInv, Stopped
<1>7. CASE WriteArtifacts \/ ClientCrash
  BY <1>7 DEF ObsInv, NoObs, WriteArtifacts, ClientCrash, world, BLOCKING_OBSERVATIONS
<1>8. CASE Watcher \/ PEP \/ Upstream \/ Done \/ UNCHANGED vars
  <2>1. /\ UNCHANGED <<cl, obs, live, degraded, egress, expired>>
        /\ bytes' = bytes \/ bytes' = TRUE
    BY <1>8 DEF Watcher, WatcherSees, WatcherTouches, PEP, Cancel, RecordKill, RecordUndrained,
         Exit, HandlerEnds, Upstream, DripBytes, DripEnds, Done, vars, client, world
  <2> QED
    BY <2>1 DEF ObsInv, Stopped
<1> QED
  BY <1>1, <1>2, <1>3, <1>4, <1>5, <1>6, <1>7, <1>8 DEF Next, Client

-----------------------------------------------------------------------------
(* The artifacts.  Until they are collected nobody has bound them, and a   *)
(* row that is PROVEN says something about the run.                        *)
Fields == {"present", "run_id", "source", "conflict", "rows", "partial"}

Unbound(doc) ==
  Fields \subseteq DOMAIN doc /\ doc.conflict = FALSE

Supported(rows) ==
  /\ rows["B1"] = "PROVEN" => ~degraded /\ Stopped("direct")
  /\ rows["B2"] = "PROVEN" => Stopped("after")
  /\ rows["B6"] = "PROVEN" => bytes

OutInv ==
  /\ DOMAIN out = Artifacts
  /\ \A a \in Artifacts : Unbound(out[a])
  /\ out["layerb"].present =>
       /\ phase = 2 /\ pc # "watch" /\ cl \in {"exit", "off"}
       /\ Supported(out["layerb"].rows)

\* The rows of Layer B are supported by what the probes saw.
LEMMA RowsSupported == ObsInv => Supported(LayerBRows)
BY DEF ObsInv, Supported, LayerBRows, enforcement_verdict, BLOCKING_OBSERVATIONS

\* No artifact has been written before the script starts.
LEMMA OutInit == Init => OutInv
BY DEF Init, OutInv, Absent, Unbound, Fields, Artifacts

\* A stamped artifact carries the rows it was given and no binding yet.
LEMMA ArtifactFields ==
  ASSUME NEW rows, NEW partial
  PROVE  /\ Unbound(Artifact(rows, partial))
         /\ Artifact(rows, partial).rows = rows
BY DEF Artifact, Fields, Unbound

\* What a file claims of itself changes neither its rows nor whether it is there.
LEMMA ClaimedFields ==
  ASSUME OutInv, NEW claim, NEW a \in Artifacts
  PROVE  /\ Unbound(Claimed(claim)[a])
         /\ Claimed(claim)[a].present = out[a].present
         /\ Claimed(claim)[a].rows = out[a].rows
BY DEF OutInv, Unbound, Fields, Claimed

\* An artifact is written unbound, and its Layer B rows report only what was observed.
LEMMA OutStep == ScriptInv /\ ObsInv /\ OutInv /\ [Next]_vars => OutInv'
<1> SUFFICES ASSUME ScriptInv, ObsInv, OutInv, [Next]_vars PROVE OutInv'
  OBVIOUS
<1>1. CASE WriteArtifacts
  <2>1. PICK rows : rows = LayerBRows
    OBVIOUS
  <2>2. Supported(rows)'
    <3>1. Supported(rows)
      BY <2>1, RowsSupported
    <3>2. UNCHANGED <<degraded, egress, expired, bytes>>
      BY <1>1 DEF WriteArtifacts, world
    <3> QED
      BY <3>1, <3>2 DEF Supported, Stopped
  <2>3. /\ pc' = pc /\ phase' = phase /\ cl' = "exit" /\ cl = "write"
        /\ pc # "watch"
    BY <1>1 DEF WriteArtifacts, script, ScriptInv
  <2>4. CASE phase = 1
    <3>1. PICK a : /\ out' = [out EXCEPT !["v4"] = a]
                   /\ Unbound(a)
      BY <1>1, <2>4, ArtifactFields DEF WriteArtifacts
    <3> QED
      BY <2>3, <2>4, <3>1 DEF OutInv, Artifacts
  <2>5. CASE phase # 1
    <3>1. PICK a, b : /\ out' = [out EXCEPT !["layerb"] = a, !["b6_client"] = b]
                      /\ Unbound(a) /\ Unbound(b)
                      /\ a.rows = rows
      <4>1. PICK k : k = IF bytes THEN 1 ELSE 0
        OBVIOUS
      <4> DEFINE lb == Artifact(rows, Unknown)
                 b6 == Artifact(<<>>, k)
      <4>2. out' = [out EXCEPT !["layerb"] = lb, !["b6_client"] = b6]
        BY <1>1, <2>1, <2>5, <4>1 DEF WriteArtifacts
      <4>3. Unbound(lb) /\ Unbound(b6) /\ lb.rows = rows
        BY ArtifactFields
      <4> HIDE DEF lb, b6
      <4> QED
        BY <4>2, <4>3, Zenon
    <3>2. phase = 2
      BY <2>5 DEF ScriptInv
    <3> QED
      BY <2>2, <2>3, <3>1, <3>2 DEF OutInv, Artifacts
  <2> QED
    BY <2>4, <2>5
<1>2. CASE CollectAndStamp
  <2>1. PICK claim \in Claims : out' = Claimed(claim)
    BY <1>2 DEF CollectAndStamp
  <2>2. \A a \in Artifacts :
          /\ Unbound(out'[a])
          /\ out'[a].present = out[a].present /\ out'[a].rows = out[a].rows
    BY <2>1, ClaimedFields
  <2>3. /\ DOMAIN out' = Artifacts /\ pc' = "layerb" /\ phase' = phase /\ cl' = "off"
        /\ UNCHANGED <<degraded, egress, expired, bytes>>
    BY <1>2, <2>1 DEF CollectAndStamp, Claimed
  <2> QED
    BY <2>2, <2>3 DEF OutInv, Supported, Stopped, Artifacts
<1>3. CASE StartClient
  <2>1. ~out["layerb"].present /\ out' = out
    BY <1>3 DEF StartClient, OutInv
  <2> QED
    BY <2>1 DEF OutInv
<1>4. CASE KillWatcher
  BY <1>4 DEF KillWatcher, OutInv, ScriptInv, Supported, Stopped
<1>5. CASE ClientReturned \/ RemoveFlags \/ VerifyLayerB \/ VerifyPp18 \/ AuditAndDecide
  <2>1. /\ UNCHANGED <<out, phase, cl, degraded, egress, expired, bytes>>
        /\ pc' # "watch"
    BY <1>5 DEF ClientReturned, RemoveFlags, VerifyLayerB, VerifyPp18, AuditAndDecide,
                client, world
  <2> QED
    BY <2>1 DEF OutInv, Supported, Stopped
<1>6. CASE Client /\ ~WriteArtifacts
  <2>1. /\ UNCHANGED <<out, pc, phase>> /\ cl \notin {"off", "exit"}
    BY <1>6 DEF Client, Regression, Tunnels, Tunnel, Probe, DripConnect, Arm, Join,
                ClientCrash, script
  <2>2. ~out["layerb"].present
    BY <2>1 DEF OutInv
  <2> QED
    BY <2>1, <2>2 DEF OutInv
<1>7. CASE Watcher \/ PEP \/ Upstream \/ Done \/ UNCHANGED vars
  <2>1. /\ UNCHANGED <<out, pc, phase, cl, degraded, egress, expired>>
        /\ bytes' = bytes \/ bytes' = TRUE
    BY <1>7 DEF Watcher, WatcherSees, WatcherTouches, PEP, Cancel, RecordKill, RecordUndrained,
         Exit, HandlerEnds, Upstream, DripBytes, DripEnds, Done, vars, client, world, script
  <2> QED
    BY <2>1 DEF OutInv, Supported, Stopped
<1> QED
  BY <1>1, <1>2, <1>3, <1>4, <1>5, <1>6, <1>7 DEF Next, Script

-----------------------------------------------------------------------------
(* The host's copies.  A copy that is there is the sandbox's file as it    *)
(* was, or the host has bound it, and then it remembers whether the sandbox*)
(* had labelled it; only a rebound file may hide a label, the host's own.  *)
How(a) == IF a \in stamped THEN "stamped"
          ELSE IF a = "layerb" /\ pc # "layerb" THEN "rebound" ELSE "raw"

Labelled(doc, how) == doc.run_id # NoId /\ (how = "stamped" \/ ~already_bound(doc))

Collected(doc, copy, how) ==
  /\ Fields \subseteq DOMAIN copy
  /\ copy.present =>
       /\ doc.present
       /\ IF how = "raw"
          THEN copy.run_id = doc.run_id /\ copy.source = doc.source /\ copy.conflict = FALSE
          ELSE already_bound(copy) /\ (copy.conflict <=> Labelled(doc, how))

ColInv ==
  pc \in Closing =>
    /\ DOMAIN col = Artifacts
    /\ \A a \in Artifacts : Collected(out[a], col[a], How(a))
    /\ col["layerb"].present => Supported(col["layerb"].rows)
    /\ pc # "layerb" /\ col["layerb"].present =>
         (col["layerb"].rows["B9"] = "PROVEN" => "B6" \in torn)

\* stamp() of a file nobody has bound yet, or a copy that was missed or refused.
LEMMA StampCollects ==
  ASSUME NEW doc, Unbound(doc)
  PROVE  /\ Collected(doc, doc, "raw") /\ Collected(doc, Absent, "raw")
         /\ Collected(doc, stamp(doc), "stamped")
         /\ stamp(doc).rows = doc.rows /\ stamp(doc).present = doc.present
BY DEF Unbound, Fields, Collected, Labelled, already_bound, stamp, Bind, Absent

\* rebind() of a copy, stamped or not.
LEMMA RebindCollects ==
  ASSUME NEW doc, NEW copy, NEW how \in {"stamped", "raw"}, Collected(doc, copy, how),
         copy.present, NEW s8, NEW s9
  PROVE  /\ Collected(doc, rebind(copy, s8, s9), IF how = "raw" THEN "rebound" ELSE how)
         /\ rebind(copy, s8, s9).rows = WithB8B9(copy.rows, s8, s9)
         /\ rebind(copy, s8, s9).present
<1> DEFINE again == copy.run_id # NoId /\ ~already_bound(copy)
           rows == WithB8B9(copy.rows, s8, s9)
           bound == Bind(copy, again)
           then == IF how = "raw" THEN "rebound" ELSE how
<1>1. rebind(copy, s8, s9) = [bound EXCEPT !.rows = rows]
  BY DEF rebind
<1> HIDE DEF rows
<1>2. /\ Fields \subseteq DOMAIN bound /\ bound.present = copy.present
      /\ bound.source = "control-plane" /\ bound.run_id = RunId
      /\ bound.conflict <=> copy.conflict \/ again
  BY DEF Bind, Collected, Fields
<1>3. bound.conflict <=> Labelled(doc, then)
  <2>1. CASE how = "raw"
    BY <1>2, <2>1 DEF Collected, Labelled, already_bound
  <2>2. CASE how = "stamped"
    BY <1>2, <2>2 DEF Collected, Labelled, already_bound
  <2> QED
    BY <2>1, <2>2
<1>4. then # "raw" /\ doc.present
  BY DEF Collected
<1> HIDE DEF bound, then
<1>5. /\ Fields \subseteq DOMAIN [bound EXCEPT !.rows = rows]
      /\ [bound EXCEPT !.rows = rows].rows = rows
      /\ [bound EXCEPT !.rows = rows].present = bound.present
      /\ [bound EXCEPT !.rows = rows].source = bound.source
      /\ [bound EXCEPT !.rows = rows].run_id = bound.run_id
      /\ [bound EXCEPT !.rows = rows].conflict = bound.conflict
  BY <1>2 DEF Fields
<1>6. Collected(doc, rebind(copy, s8, s9), then) /\ rebind(copy, s8, s9).present
  BY <1>1, <1>2, <1>3, <1>4, <1>5 DEF Collected, already_bound
<1> QED
  BY <1>1, <1>5, <1>6 DEF rows, then

\* The snapshot is taken once.
KillOnce == gw = "serving" => torn = {}

\* While the gateway serves nothing is torn, and what the kill has torn stays torn.
LEMMA KillOnceStep == KillOnce /\ [Next]_vars => KillOnce' /\ torn \subseteq torn'
<1> SUFFICES ASSUME KillOnce, [Next]_vars PROVE KillOnce' /\ torn \subseteq torn'
  OBVIOUS
<1>1. CASE Cancel
  BY <1>1 DEF KillOnce, Cancel
<1>2. CASE ~Cancel
  <2>1. torn' = torn /\ (gw' = gw \/ gw' # "serving")
    BY <1>2 DEF Next, Script, Watcher, PEP, Client, Upstream, Done, vars, gateway,
         StartClient, ClientReturned, RemoveFlags, KillWatcher, CollectAndStamp, VerifyLayerB,
         VerifyPp18, AuditAndDecide, WatcherSees, WatcherTouches, RecordKill, RecordUndrained,
         Exit, HandlerEnds, Regression, Tunnels, Tunnel, Probe, DripConnect, Arm, Join,
         WriteArtifacts, ClientCrash, DripBytes, DripEnds
  <2> QED
    BY <2>1 DEF KillOnce
<1> QED
  BY <1>1, <1>2

\* A row that is hit was torn down by the kill.
LEMMA HitIsReal ==
  ASSUME EvidenceInv, NEW row \in KillRows, Hit(log, row)
  PROVE  row \in torn
<1>1. PICK S : log \in Seq(S) /\ \A e \in S : Evident(e)
  BY DEF EvidenceInv
<1>2. \A i \in DOMAIN log : Evident(log[i])
  BY <1>1
<1>3. PICK i \in Owners(log, row) : log[i].conn \in Killed(log)
  BY DEF Hit, ConnIds
<1>4. log[i].conn = row
  BY <1>2, <1>3 DEF Owners, Evident
<1>5. PICK k \in Kills(log) : row \in log[k].torn
  BY <1>3, <1>4 DEF Killed
<1> QED
  BY <1>2, <1>5 DEF Kills, Evident

\* The collected copies stay copies of what the script wrote, with the log they were bound to.
LEMMA ColStep ==
  ScriptInv /\ OutInv /\ ColInv /\ EvidenceInv /\ KillOnce /\ [Next]_vars => ColInv'
<1> SUFFICES ASSUME ScriptInv, OutInv, ColInv, EvidenceInv, KillOnce, [Next]_vars
             PROVE  ColInv'
  OBVIOUS
<1>0. torn \subseteq torn'
  BY KillOnceStep
<1>1. CASE CollectAndStamp
  <2>1. PICK claim \in Claims : out' = Claimed(claim)
    BY <1>1 DEF CollectAndStamp
  <2>2. \A a \in Artifacts :
          /\ Unbound(out'[a])
          /\ out'[a].present = out[a].present /\ out'[a].rows = out[a].rows
    BY <2>1, ClaimedFields
  <2>3. /\ DOMAIN col' = Artifacts
        /\ \A a \in Artifacts :
             \/ a \in stamped' /\ col'[a] = stamp(out'[a])
             \/ a \notin stamped' /\ col'[a] \in {Absent, out'[a]}
    BY <1>1 DEF CollectAndStamp
  <2>4. pc' = "layerb" /\ UNCHANGED <<degraded, egress, expired, bytes>>
    BY <1>1 DEF CollectAndStamp
  <2>5. \A a \in Artifacts :
          /\ Collected(out'[a], col'[a], How(a)')
          /\ col'[a].present => out[a].present /\ col'[a].rows = out[a].rows
    <3> TAKE a \in Artifacts
    <3>1. How(a)' = IF a \in stamped' THEN "stamped" ELSE "raw"
      BY <2>4 DEF How
    <3>2. PICK doc : doc = out'[a] /\ Unbound(doc)
      BY <2>2
    <3>3. CASE a \in stamped'
      BY <2>2, <2>3, <3>1, <3>2, <3>3, StampCollects
    <3>4. CASE a \notin stamped'
      <4>1. ~Absent.present
        BY DEF Absent
      <4> QED
        BY <2>2, <2>3, <3>1, <3>2, <3>4, <4>1, StampCollects
    <3> QED
      BY <3>3, <3>4
  <2>6. "layerb" \in Artifacts
    BY DEF Artifacts
  <2>7. (col["layerb"].present => Supported(col["layerb"].rows))'
    BY <2>4, <2>5, <2>6 DEF OutInv, Supported, Stopped
  <2> QED
    BY <2>3, <2>4, <2>5, <2>7 DEF ColInv
<1>2. CASE VerifyLayerB
  <2>1. /\ UNCHANGED <<out, degraded, egress, expired, stamped, bytes, torn>>
        /\ pc = "layerb" /\ pc' = "pp18"
    BY <1>2 DEF VerifyLayerB, client, world, gateway
  <2>2. /\ DOMAIN col = Artifacts /\ \A a \in Artifacts : Collected(out[a], col[a], How(a))
        /\ col["layerb"].present => Supported(col["layerb"].rows)
    BY <2>1 DEF ColInv, Closing
  <2>3. /\ "layerb" \in Artifacts
        /\ \A a \in Artifacts \ {"layerb"} : How(a)' = How(a)
        /\ How("layerb") \in {"stamped", "raw"}
        /\ How("layerb")' = IF How("layerb") = "raw" THEN "rebound" ELSE How("layerb")
    BY <2>1 DEF How, Artifacts
  <2>4. CASE ~col["layerb"].present
    <3>1. col' = col
      BY <1>2, <2>4 DEF VerifyLayerB
    <3>2. Collected(out["layerb"], col["layerb"], How("layerb")')
      BY <2>2, <2>3, <2>4 DEF Collected
    <3> QED
      BY <2>1, <2>2, <2>3, <2>4, <3>1, <3>2 DEF ColInv
  <2>5. CASE col["layerb"].present
    <3>1. PICK bad, s8, s9 :
            /\ s9 = b9(log, bad, col["b6_client"].partial)
            /\ col' = [col EXCEPT !["layerb"] = rebind(@, s8, s9)]
      BY <1>2, <2>5 DEF VerifyLayerB
    <3>2. s9 = "PROVEN" => "B6" \in torn
      <4>1. s9 = "PROVEN" => Hit(log, "B6")
        BY <3>1 DEF b9
      <4> QED
        BY <4>1, HitIsReal DEF KillRows
    <3> DEFINE lb == rebind(col["layerb"], s8, s9)
    <3>3. /\ Collected(out["layerb"], lb, How("layerb")')
          /\ lb.rows = WithB8B9(col["layerb"].rows, s8, s9)
      <4>1. PICK doc, copy, how, then :
              /\ doc = out["layerb"] /\ copy = col["layerb"] /\ how = How("layerb")
              /\ then = How("layerb")'
        OBVIOUS
      <4>2. how \in {"stamped", "raw"} /\ then = IF how = "raw" THEN "rebound" ELSE how
        BY <2>3, <4>1
      <4>3. Collected(doc, copy, how) /\ copy.present
        BY <2>2, <2>3, <2>5, <4>1
      <4> QED
        BY <4>1, <4>2, <4>3, RebindCollects
    <3>4. /\ lb.rows["B9"] = s9 /\ Supported(lb.rows)
      BY <2>2, <2>5, <3>3 DEF WithB8B9, Supported, REQUIRED_B, SandboxRows
    <3>5. col' = [col EXCEPT !["layerb"] = lb]
      BY <3>1
    <3> HIDE DEF lb
    <3>6. PICK rows : rows = lb.rows /\ Supported(rows)'
      <4>1. PICK rows : rows = lb.rows
        OBVIOUS
      <4> QED
        BY <2>1, <3>4, <4>1 DEF Supported, Stopped
    <3>7. /\ DOMAIN col' = Artifacts /\ col'["layerb"] = lb
          /\ \A a \in Artifacts \ {"layerb"} : col'[a] = col[a]
      BY <2>2, <2>3, <3>5
    <3>8. \A a \in Artifacts : Collected(out'[a], col'[a], How(a)')
      BY <2>1, <2>2, <2>3, <3>3, <3>7
    <3> QED
      BY <2>1, <3>2, <3>4, <3>6, <3>7, <3>8 DEF ColInv
  <2> QED
    BY <2>4, <2>5
<1>3. CASE VerifyPp18 \/ AuditAndDecide
  <2>1. /\ UNCHANGED <<out, col, degraded, egress, expired, stamped, bytes, torn>>
        /\ pc \in {"pp18", "audit"} /\ pc' # "layerb"
    BY <1>3 DEF VerifyPp18, AuditAndDecide, client, world, gateway
  <2> QED
    BY <2>1 DEF ColInv, Supported, Stopped, Closing, How
<1>4. CASE StartClient \/ ClientReturned \/ RemoveFlags \/ KillWatcher
  BY <1>4 DEF StartClient, ClientReturned, RemoveFlags, KillWatcher, ColInv, Closing
<1>5. CASE Client
  <2>1. pc' = pc /\ cl \notin {"off", "exit"}
    BY <1>5 DEF Client, Regression, Tunnels, Tunnel, Probe, DripConnect, Arm, Join,
                WriteArtifacts, ClientCrash, script
  <2> QED
    BY <2>1 DEF ScriptInv, ColInv
<1>6. CASE Watcher \/ PEP \/ Upstream \/ Done \/ UNCHANGED vars
  <2>1. /\ UNCHANGED <<out, col, pc, degraded, egress, expired, stamped>>
        /\ bytes' = bytes \/ bytes' = TRUE
    BY <1>6 DEF Watcher, WatcherSees, WatcherTouches, PEP, Cancel, RecordKill, RecordUndrained,
         Exit, HandlerEnds, Upstream, DripBytes, DripEnds, Done, vars, client, world, script
  <2> QED
    BY <1>0, <2>1 DEF ColInv, Supported, Stopped, How
<1> QED
  BY <1>1, <1>2, <1>3, <1>4, <1>5, <1>6 DEF Next, Script

-----------------------------------------------------------------------------
(* The answers.  What they rest on was fixed before they were given: the   *)
(* client is gone, the snapshot taken, the artifacts collected.            *)
Answers == {"b8", "b9", "pp18", "layer_b", "certified", "verdict"}

Decided(r) == r.layer_b \/ r.verdict = "PASSED"

ResInv ==
  /\ Answers \subseteq DOMAIN res
  /\ Decided(res) => pc = "done"
  /\ KillEvidenceIsReal /\ LayerBIsSupported /\ VerdictIsSupported

\* No auditor has answered before the script starts.
LEMMA AnswersStart == Init => ResInv
BY DEF Init, NotRun, Answers, Decided, ResInv, KillEvidenceIsReal, LayerBIsSupported,
       VerdictIsSupported

\* A copy is in conflict exactly when the artifact already named a run.
LEMMA CopiesBind == OutInv /\ ColInv => HonestArtifactsBind
BY DEF ColInv, Collected, Labelled, How, Closing, HonestArtifactsBind

\* The verdict is taken from copies that are supported and bound.
LEMMA DecideStep ==
  ASSUME ScriptInv, OutInv, ColInv, EvidenceInv, ResInv, AuditAndDecide
  PROVE  ResInv'
<1>1. PICK layer_b, certified, verdict :
        /\ layer_b = LayerBPasses(col["layerb"])
        /\ \E bad \in BOOLEAN : certified = Certified(log, bad, col["layerb"], col["v4"], b7)
        /\ verdict = "PASSED" => layer_b /\ certified /\ res.pp18 = "PROVEN"
        /\ res' = [res EXCEPT !.layer_b = layer_b, !.certified = certified,
                              !.verdict = verdict]
  <2>1. PICK bad \in BOOLEAN :
          LET certified == Certified(log, bad, col["layerb"], col["v4"], b7)
              layer_b == LayerBPasses(col["layerb"])
              passed == layer_b /\ V4Passes(col["v4"]) /\ certified /\ res.pp18 = "PROVEN"
          IN  res' = [res EXCEPT !.layer_b = layer_b, !.certified = certified,
                                 !.verdict = IF passed THEN "PASSED" ELSE "NOT PASSED"]
    BY DEF AuditAndDecide
  <2> DEFINE c == Certified(log, bad, col["layerb"], col["v4"], b7)
             b == LayerBPasses(col["layerb"])
             p == b /\ V4Passes(col["v4"]) /\ c /\ res.pp18 = "PROVEN"
             v == IF p THEN "PASSED" ELSE "NOT PASSED"
  <2>2. res' = [res EXCEPT !.layer_b = b, !.certified = c, !.verdict = v]
    BY <2>1
  <2>3. v = "PASSED" => b /\ c /\ res.pp18 = "PROVEN"
    OBVIOUS
  <2> HIDE DEF v
  <2> QED
    BY <2>2, <2>3, Zenon
<1>2. /\ pc = "audit" /\ pc' = "done"
      /\ UNCHANGED <<egress, expired, stamped, degraded, torn, bytes, b7, out>>
  BY DEF AuditAndDecide, world
<1>3. /\ DOMAIN res' = DOMAIN res
      /\ res'.b9 = res.b9 /\ res'.pp18 = res.pp18
      /\ res'.layer_b = layer_b /\ res'.certified = certified
      /\ res'.verdict = verdict
  BY <1>1 DEF ResInv, Answers
<1>4. layer_b => Leaks(egress) \subseteq expired /\ ~degraded /\ "B6" \in torn /\ bytes
  <2>1. layer_b => /\ Stopped("direct") /\ Stopped("after")
                   /\ ~degraded /\ "B6" \in torn /\ bytes
    BY <1>1, <1>2 DEF LayerBPasses, REQUIRED_B, SandboxRows, ColInv, Closing, Supported
  <2>2. Leaks(egress) \subseteq {"direct", "after"}
    BY DEF Leaks
  <2> QED
    BY <2>1, <2>2 DEF Stopped
<1> DEFINE Own(a) == /\ out[a].present
                     /\ out[a].run_id = NoId \/ (a \notin stamped /\ already_bound(out[a]))
<1>5. certified => b7 = "ready" /\ \A a \in {"v4", "layerb"} : Own(a)
  <2>1. certified => b7 = "ready" /\ Bound(col["layerb"]) /\ Bound(col["v4"])
    BY <1>1 DEF Certified, E8, E9
  <2>2. \A a \in Artifacts : Collected(out[a], col[a], How(a))
    BY <1>2 DEF ColInv, Closing
  <2>3. \A a \in {"v4", "layerb"} : Bound(col[a]) => Own(a)
    BY <2>2 DEF Artifacts, Collected, Labelled, How, Bound, already_bound
  <2> QED
    BY <2>1, <2>3
<1>6. res.pp18 = "PROVEN" => "PP18" \in torn
  BY DEF ResInv, KillEvidenceIsReal
<1>7. Answers \subseteq DOMAIN res' /\ KillEvidenceIsReal'
  BY <1>2, <1>3 DEF ResInv, KillEvidenceIsReal
<1>8. LayerBIsSupported'
  BY <1>2, <1>3, <1>4 DEF LayerBIsSupported
<1>9. VerdictIsSupported'
  BY <1>1, <1>2, <1>3, <1>4, <1>5, <1>6 DEF VerdictIsSupported
<1> QED
  BY <1>2, <1>7, <1>8, <1>9 DEF ResInv, Decided

\* The answers of the auditors rest on the collected copies and on the log.
LEMMA ResStep ==
  /\ ScriptInv /\ OutInv /\ ColInv /\ EvidenceInv /\ KillOnce /\ ResInv
  /\ [Next]_vars
  => ResInv'
<1> SUFFICES ASSUME ScriptInv, OutInv, ColInv, EvidenceInv, KillOnce, ResInv, [Next]_vars
             PROVE  ResInv'
  OBVIOUS
<1>0. torn \subseteq torn'
  BY KillOnceStep
<1>1. CASE AuditAndDecide
  BY <1>1, DecideStep
<1>2. CASE VerifyLayerB
  <2>1. \/ res' = res
        \/ \E bad, s8, s9 :
             /\ s9 = b9(log, bad, col["b6_client"].partial)
             /\ res' = [res EXCEPT !.b8 = s8, !.b9 = s9]
    BY <1>2 DEF VerifyLayerB
  <2>2. /\ Answers \subseteq DOMAIN res' /\ res'.pp18 = res.pp18
        /\ res'.layer_b = res.layer_b /\ res'.verdict = res.verdict
        /\ res'.b9 = "PROVEN" => res.b9 = "PROVEN" \/ Hit(log, "B6")
    BY <2>1 DEF ResInv, Answers, b9
  <2>3. res'.b9 = "PROVEN" => "B6" \in torn
    BY <2>2, HitIsReal DEF KillRows, ResInv, KillEvidenceIsReal
  <2>4. ~Decided(res) /\ torn' = torn
    BY <1>2 DEF ResInv, VerifyLayerB, gateway
  <2> QED
    BY <2>2, <2>3, <2>4
       DEF ResInv, Decided, KillEvidenceIsReal, LayerBIsSupported, VerdictIsSupported
<1>3. CASE VerifyPp18
  <2>1. PICK bad, s : s = pp18_status(log, bad) /\ res' = [res EXCEPT !.pp18 = s]
    BY <1>3 DEF VerifyPp18
  <2>2. /\ Answers \subseteq DOMAIN res' /\ res'.b9 = res.b9
        /\ res'.layer_b = res.layer_b /\ res'.verdict = res.verdict
        /\ res'.pp18 = "PROVEN" => Hit(log, "PP18")
    BY <2>1 DEF ResInv, Answers, pp18_status
  <2>3. res'.pp18 = "PROVEN" => "PP18" \in torn
    BY <2>2, HitIsReal DEF KillRows
  <2>4. ~Decided(res) /\ torn' = torn
    BY <1>3 DEF ResInv, VerifyPp18, gateway
  <2> QED
    BY <2>2, <2>3, <2>4
       DEF ResInv, Decided, KillEvidenceIsReal, LayerBIsSupported, VerdictIsSupported
<1>4. CASE StartClient \/ ClientReturned \/ RemoveFlags \/ KillWatcher \/ CollectAndStamp
  <2>1. pc # "done" /\ res' = res
    BY <1>4 DEF StartClient, ClientReturned, RemoveFlags, KillWatcher, CollectAndStamp
  <2> QED
    BY <1>0, <2>1
       DEF ResInv, Decided, KillEvidenceIsReal, LayerBIsSupported, VerdictIsSupported
<1>5. CASE Client
  <2>1. pc # "done" /\ res' = res
    BY <1>5 DEF Client, Regression, Tunnels, Tunnel, Probe, DripConnect, Arm, Join,
                WriteArtifacts, ClientCrash, ScriptInv, Closing
  <2> QED
    BY <1>0, <2>1
       DEF ResInv, Decided, KillEvidenceIsReal, LayerBIsSupported, VerdictIsSupported
<1>6. CASE Watcher \/ PEP \/ Upstream \/ Done \/ UNCHANGED vars
  <2>1. /\ UNCHANGED <<res, pc, out, degraded, egress, expired, stamped, b7>>
        /\ bytes' = bytes \/ bytes' = TRUE
    BY <1>6 DEF Watcher, WatcherSees, WatcherTouches, PEP, Cancel, RecordKill, RecordUndrained,
         Exit, HandlerEnds, Upstream, DripBytes, DripEnds, Done, vars, client, world, script
  <2> QED
    BY <1>0, <2>1
       DEF ResInv, Decided, KillEvidenceIsReal, LayerBIsSupported, VerdictIsSupported
<1> QED
  BY <1>1, <1>2, <1>3, <1>4, <1>5, <1>6 DEF Next, Script

-----------------------------------------------------------------------------
GateInv ==
  /\ EvidenceInv /\ KillOnce
  /\ ScriptInv /\ ObsInv
  /\ OutInv /\ ColInv /\ ResInv

\* The whole inductive invariant of the release gate.
LEMMA GateInvariant == Spec => []GateInv
<1>1. Init => GateInv
  <2>1. Init => KillOnce /\ ScriptInv /\ ObsInv /\ ColInv
    BY DEF Init, KillOnce, ScriptInv, ObsInv, ColInv, Closing, NoObs, BLOCKING_OBSERVATIONS
  <2> QED
    BY <2>1, EvidenceInit, OutInit, AnswersStart DEF GateInv
<1>2. GateInv /\ [Next]_vars => GateInv'
  BY EvidenceStep, KillOnceStep, ScriptStep, ObsStep, OutStep, ColStep, ResStep DEF GateInv
<1> QED
  BY <1>1, <1>2, PTL DEF Spec

(* A kill row that is PROVEN names a connection that was registered when   *)
(* the only kill of the gateway was taken, whatever failed on the way      *)
(* (verify_layerb_audit.py, verify_pp18.py).                               *)
THEOREM KillRowsAreReal == Spec => []KillEvidenceIsReal
<1>1. GateInv => KillEvidenceIsReal
  BY DEF GateInv, ResInv
<1> QED
  BY <1>1, GateInvariant, PTL

(* A full Layer B needs an IPv6 listener, a stream that was live and torn  *)
(* down, and a sandbox whose every way out was closed or answered too late:*)
(* no number of probes that measured nothing, crashes and other expired    *)
(* waits produces one (ipv6_transport.py, ipv6_acceptance.py).             *)
THEOREM LayerBIsReal == Spec => []LayerBIsSupported
<1>1. GateInv => LayerBIsSupported
  BY DEF GateInv, ResInv
<1> QED
  BY <1>1, GateInvariant, PTL

(* The gate passes only with both kill rows, host evidence for UDP and two *)
(* sandbox files without a label, or with the control plane's own on a file*)
(* whose stamp was missed; whatever every file claims, and whichever files *)
(* were refused or left unstamped (run_dualstack_gate.sh).                 *)
THEOREM PassIsReal == Spec => []VerdictIsSupported
<1>1. GateInv => VerdictIsSupported
  BY DEF GateInv, ResInv
<1> QED
  BY <1>1, GateInvariant, PTL

(* Stamping and rebinding agree on which artifacts the sandbox labelled,   *)
(* whatever run_id and source they came with, but for the host's own label *)
(* on a file that was not stamped (stamp_artifacts.py,                     *)
(* verify_layerb_audit.py).                                                *)
THEOREM BindingIsHarmless == Spec => []HonestArtifactsBind
<1>1. GateInv => HonestArtifactsBind
  BY CopiesBind DEF GateInv
<1> QED
  BY <1>1, GateInvariant, PTL
=============================================================================
