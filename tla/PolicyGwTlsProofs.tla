-------------------------- MODULE PolicyGwTlsProofs --------------------------
(***************************************************************************)
(* Proofs about the Phase 2b harness, for every set of connections, assets *)
(* and caps, and for every zone.                                           *)
(*                                                                         *)
(* None of the properties is inductive alone.  The overshoot is bounded    *)
(* because the requests charged and the ones checked but not yet charged   *)
(* are bounded together (ChargesBounded); the one address survives because *)
(* it is fixed from the inner decision on (PeerFixed); and what _live      *)
(* holds follows from the order in which a handler opens, wraps and tracks *)
(* its sockets (SocketsByStage).                                           *)
(***************************************************************************)
EXTENDS PolicyGwTls, FiniteSetTheorems, TLAPS

Stages == {"connect", "charging", "tunnel", "wrapping", "client_tls", "inside",
           "decide", "charging_inner", "connecting", "connected", "upstream",
           "upstream_tls", "sending", "streaming", "ending", "failing", "delivering",
           "closing", "untracked", "done"}

HarnessTypeOK ==
  /\ spend \in [Assets \cup {None} -> Nat]
  /\ stage \in [Handlers -> Stages]
  /\ pinned \in [Handlers -> AuthorizedIps \cup {None}]
  /\ peer \in [Handlers -> AuthorizedIps \cup {None}]
  /\ usable \in [Handlers -> SUBSET Handles]
  /\ live \subseteq Handlers \X Handles
  /\ victims \subseteq Handlers \X Handles

\* The decisions between their check and their charge, under one counter.
Charging(k) ==
  {h \in Handlers : stage[h] \in {"charging", "charging_inner"} /\ k \in Counters(h)}

\* What is charged and what is about to be, together, stay in bounds.
ChargesBounded ==
  \A k \in Assets \cup {None} :
    Cap[k] # None =>
      IF Cap[k] = 0 THEN spend[k] = 0 /\ Charging(k) = {}
      ELSE spend[k] + Cardinality(Charging(k)) < Cap[k] + Cardinality(Handlers)

\* From the inner decision to the end of the response.
PeerFixed ==
  \A h \in Handlers :
    stage[h] \in {"charging_inner", "connecting", "connected", "upstream",
                  "upstream_tls", "sending", "streaming", "ending", "delivering"} =>
      peer[h] = pinned[h] /\ peer[h] \in AuthorizedIps

\* The handles a handler can own at each stage, and which of them are tracked.
Sockets(h) ==
  /\ stage[h] = "wrapping" => usable[h] \subseteq {"raw"} /\ <<h, "raw">> \in live
  /\ stage[h] \in {"connect", "charging", "tunnel"} => usable[h] \subseteq {"raw"}
  /\ stage[h] = "client_tls" => usable[h] \subseteq {"tls"}
  /\ stage[h] \in {"inside", "decide", "charging_inner", "connecting", "delivering"} =>
       usable[h] \subseteq {"tls"} /\ <<h, "tls">> \in live
  /\ stage[h] = "connected" =>
       usable[h] \subseteq {"tls", "plain"} /\ <<h, "tls">> \in live
  /\ stage[h] = "upstream" =>
       /\ usable[h] \subseteq {"tls", "plain"}
       /\ <<h, "tls">> \in live /\ <<h, "plain">> \in live
  /\ stage[h] \in {"upstream_tls", "ending", "failing"} =>
       usable[h] \subseteq {"tls", "up"} /\ <<h, "tls">> \in live
  /\ stage[h] \in {"sending", "streaming"} =>
       /\ usable[h] \subseteq {"tls", "up"}
       /\ <<h, "tls">> \in live /\ <<h, "up">> \in live
  /\ <<h, "up">> \in live => stage[h] \in {"sending", "streaming"}
  /\ stage[h] = "closing" =>
       usable[h] \subseteq {"raw", "tls"} /\ ("tls" \in usable[h] => <<h, "tls">> \in live)
  /\ stage[h] = "untracked" => usable[h] \subseteq {"raw", "tls"}
  /\ stage[h] = "done" => usable[h] = {}
  /\ stage[h] \in {"untracked", "done"} =>
       <<h, "raw">> \notin live /\ <<h, "tls">> \notin live

SocketsByStage == \A h \in Handlers : Sockets(h)

-----------------------------------------------------------------------------
LEMMA HarnessInit == Init => HarnessTypeOK /\ PeerFixed /\ SocketsByStage
BY DEF Init, HarnessTypeOK, Stages, Handles, PeerFixed, SocketsByStage, Sockets

\* Every step of the TLS gateway keeps the variables within their types.
LEMMA HarnessTypeStep == HarnessTypeOK /\ [Next]_vars => HarnessTypeOK'
<1> SUFFICES ASSUME HarnessTypeOK, [Next]_vars PROVE HarnessTypeOK'
  OBVIOUS
<1> USE DEF HarnessTypeOK, Stages, Handles, Goto, Use, Entries, pdpVars, socketVars,
            watchVars
<1>1. ASSUME NEW h \in Handlers, Handler(h) PROVE HarnessTypeOK'
  <2>1. CASE DecideConnect(h)
    BY <2>1 DEF DecideConnect, AnswersAllowed
  <2>2. CASE DecideInner(h)
    BY <2>2 DEF DecideInner
  <2>3. CASE Charge(h)
    BY <2>3 DEF Charge
  <2>4. CASE NoCertificate(h) \/ TrackRaw(h) \/ WrapClient(h) \/ TrackTls(h)
    BY <2>4 DEF NoCertificate, TrackRaw, WrapClient, TrackTls
  <2>5. CASE ReadInner(h) \/ ConnectUpstream(h) \/ TrackPlain(h) \/ WrapUpstream(h) \/ TrackUp(h) \/ Send(h)
    BY <2>5 DEF ReadInner, ConnectUpstream, TrackPlain, WrapUpstream, TrackUp, Send
  <2>6. CASE UntrackUp(h) \/ CloseUpstream(h) \/ Leave(h) \/ UntrackClient(h) \/ Finish(h)
    BY <2>6 DEF UntrackUp, CloseUpstream, Leave, UntrackClient, Finish
  <2> QED
    BY <1>1, <2>1, <2>2, <2>3, <2>4, <2>5, <2>6 DEF Handler
<1>2. CASE Toggle \/ Snapshot \/ TearDown \/ Rearm
  BY <1>2 DEF Toggle, Snapshot, TearDown, Rearm
<1>3. CASE UNCHANGED vars
  BY <1>3 DEF vars
<1> QED
  BY <1>1, <1>2, <1>3 DEF Next

(* The address a connection's upstream gets is written once, by the inner  *)
(* decision, from the pin of the tunnel, and the pin is not written later. *)
LEMMA PeerStep == HarnessTypeOK /\ PeerFixed /\ [Next]_vars => PeerFixed'
<1> SUFFICES ASSUME HarnessTypeOK, PeerFixed, [Next]_vars PROVE PeerFixed'
  OBVIOUS
<1> USE DEF HarnessTypeOK, PeerFixed, Goto, pdpVars
<1>1. ASSUME NEW h \in Handlers, Handler(h) PROVE PeerFixed'
  <2>1. CASE DecideConnect(h) \/ DecideInner(h) \/ NoCertificate(h)
    BY <2>1 DEF DecideConnect, DecideInner, NoCertificate
  <2>2. CASE Charge(h)
    BY <2>2 DEF Charge
  <2>3. CASE TrackRaw(h) \/ WrapClient(h) \/ TrackTls(h) \/ ReadInner(h)
    BY <2>3 DEF TrackRaw, WrapClient, TrackTls, ReadInner
  <2>4. CASE ConnectUpstream(h) \/ TrackPlain(h) \/ WrapUpstream(h) \/ TrackUp(h) \/ Send(h)
    BY <2>4 DEF ConnectUpstream, TrackPlain, WrapUpstream, TrackUp, Send
  <2>5. CASE UntrackUp(h) \/ CloseUpstream(h) \/ Leave(h) \/ UntrackClient(h) \/ Finish(h)
    BY <2>5 DEF UntrackUp, CloseUpstream, Leave, UntrackClient, Finish
  <2> QED
    BY <1>1, <2>1, <2>2, <2>3, <2>4, <2>5 DEF Handler
<1>2. CASE Toggle \/ Snapshot \/ TearDown \/ Rearm
  BY <1>2 DEF Toggle, Snapshot, TearDown, Rearm
<1>3. CASE UNCHANGED vars
  BY <1>3 DEF vars
<1> QED
  BY <1>1, <1>2, <1>3 DEF Next

\* What a step of one handler may do to _live: track() or untrack() its own sockets.
LEMMA OwnSockets ==
  ASSUME HarnessTypeOK, NEW h \in Handlers, Handler(h)
  PROVE  \A g \in Handlers \ {h} :
           /\ stage'[g] = stage[g] /\ usable'[g] = usable[g]
           /\ \A s \in Handles : <<g, s>> \in live' <=> <<g, s>> \in live
<1>1. \A g \in Handlers \ {h} : stage'[g] = stage[g]
  BY DEF HarnessTypeOK, Handler, Goto, DecideConnect, DecideInner, Charge, NoCertificate,
         TrackRaw, WrapClient, TrackTls, ReadInner, ConnectUpstream, TrackPlain, WrapUpstream, TrackUp,
         Send, UntrackUp, CloseUpstream, Leave, UntrackClient, Finish
<1>2. \A g \in Handlers \ {h} : usable'[g] = usable[g]
  BY DEF HarnessTypeOK, Handler, Use, socketVars, DecideConnect, DecideInner, Charge,
         NoCertificate, TrackRaw, WrapClient, TrackTls, ReadInner, ConnectUpstream,
         TrackPlain, WrapUpstream, TrackUp, Send, UntrackUp, CloseUpstream, Leave, UntrackClient, Finish
<1>3. \E S : live' = live \/ live' = live \cup Entries(h, S) \/ live' = live \ Entries(h, S)
  BY DEF Handler, socketVars, DecideConnect, DecideInner, Charge, NoCertificate, TrackRaw,
         WrapClient, TrackTls, ReadInner, ConnectUpstream, TrackPlain, WrapUpstream, TrackUp, Send,
         UntrackUp, CloseUpstream, Leave, UntrackClient, Finish
<1>4. \A g \in Handlers \ {h}, s \in Handles : <<g, s>> \in live' <=> <<g, s>> \in live
  BY <1>3 DEF Entries
<1> QED
  BY <1>1, <1>2, <1>4

\* A handler's own step keeps what its stage says of its handles.
LEMMA SocketsKept ==
  ASSUME HarnessTypeOK, NEW h \in Handlers, Sockets(h), Handler(h)
  PROVE  Sockets(h)'
<1> USE DEF Sockets, Handles, Goto, Use, socketVars
<1>1. h \in DOMAIN stage /\ h \in DOMAIN usable /\ usable[h] \subseteq Handles
  BY DEF HarnessTypeOK
<1>2. CASE DecideConnect(h)
  BY <1>1, <1>2 DEF DecideConnect
<1>3. CASE DecideInner(h)
  BY <1>1, <1>3 DEF DecideInner
<1>4. CASE Charge(h)
  BY <1>1, <1>4 DEF Charge
<1>5. CASE NoCertificate(h)
  BY <1>1, <1>5 DEF NoCertificate
<1>6. CASE TrackRaw(h)
  BY <1>1, <1>6 DEF TrackRaw, Entries
<1>7. CASE WrapClient(h)
  BY <1>1, <1>7 DEF WrapClient
<1>8. CASE TrackTls(h)
  BY <1>1, <1>8 DEF TrackTls, Entries
<1>9. CASE ReadInner(h)
  BY <1>1, <1>9 DEF ReadInner
<1>10. CASE ConnectUpstream(h)
  BY <1>1, <1>10 DEF ConnectUpstream, Entries
<1>11. CASE WrapUpstream(h)
  BY <1>1, <1>11 DEF WrapUpstream
<1>12. CASE TrackUp(h)
  BY <1>1, <1>12 DEF TrackUp, Entries
<1>13. CASE Send(h)
  BY <1>1, <1>13 DEF Send
<1>14. CASE CloseUpstream(h)
  BY <1>1, <1>14 DEF CloseUpstream, Entries
<1>15. CASE Leave(h)
  BY <1>1, <1>15 DEF Leave
<1>16. CASE Finish(h)
  BY <1>1, <1>16 DEF Finish, Entries
<1>17. CASE TrackPlain(h)
  BY <1>1, <1>17 DEF TrackPlain, Entries
<1>18. CASE UntrackUp(h)
  BY <1>1, <1>18 DEF UntrackUp, Entries
<1>19. CASE UntrackClient(h)
  BY <1>1, <1>19 DEF UntrackClient, Entries
<1> QED
  BY <1>2, <1>3, <1>4, <1>5, <1>6, <1>7, <1>8, <1>9, <1>10, <1>11, <1>12, <1>13, <1>14,
     <1>15, <1>16, <1>17, <1>18, <1>19 DEF Handler

(* A handler's stage determines its handles.  A wrapper is tracked when its*)
(* handshake is over; the upstream is untracked and closed before the      *)
(* response is delivered, the client's pair when the handler ends.         *)
LEMMA SocketsStep == HarnessTypeOK /\ SocketsByStage /\ [Next]_vars => SocketsByStage'
<1> SUFFICES ASSUME HarnessTypeOK, SocketsByStage, [Next]_vars, NEW g \in Handlers
             PROVE  Sockets(g)'
  BY DEF SocketsByStage
<1>1. Sockets(g)
  BY DEF SocketsByStage
<1>2. ASSUME NEW h \in Handlers, Handler(h) PROVE Sockets(g)'
  <2>1. CASE g = h
    BY <1>1, <1>2, <2>1, SocketsKept
  <2>2. CASE g # h
    <3>1. /\ stage'[g] = stage[g] /\ usable'[g] = usable[g]
          /\ \A s \in Handles : <<g, s>> \in live' <=> <<g, s>> \in live
      BY <1>2, <2>2, OwnSockets
    <3> QED
      BY <1>1, <3>1 DEF Sockets, Handles
  <2> QED
    BY <2>1, <2>2
<1>3. CASE Toggle \/ Snapshot \/ Rearm \/ UNCHANGED vars
  BY <1>1, <1>3 DEF Toggle, Snapshot, Rearm, vars, socketVars, Sockets
<1>4. CASE TearDown
  <2>1. PICK v \in victims : usable' = [usable EXCEPT ![v[1]] = @ \ {v[2]}]
    BY <1>4 DEF TearDown
  <2>2. usable'[g] \subseteq usable[g]
    BY <2>1 DEF HarnessTypeOK
  <2>3. stage' = stage /\ live' = live
    BY <1>4 DEF TearDown
  <2> QED
    BY <1>1, <2>2, <2>3 DEF Sockets
<1> QED
  BY <1>2, <1>3, <1>4 DEF Next

-----------------------------------------------------------------------------
(* Decisions waiting for their charge are among finitely many handlers.    *)
LEMMA ChargingFinite ==
  ASSUME NEW k
  PROVE  /\ IsFiniteSet(Charging(k)) /\ Cardinality(Charging(k)) \in Nat
         /\ Cardinality(Charging(k)) <= Cardinality(Handlers)
         /\ Cardinality(Handlers) \in Nat
<1>1. Charging(k) \in SUBSET Handlers
  BY DEF Charging
<1> QED
  BY <1>1, HandlersAreFinite, FS_Subset, FS_CardinalityType

\* Nothing has been charged when the TLS gateway starts.
LEMMA ChargesInit == Init => ChargesBounded
<1> SUFFICES ASSUME Init, NEW k \in Assets \cup {None}, Cap[k] # None
             PROVE  IF Cap[k] = 0 THEN spend[k] = 0 /\ Charging(k) = {}
                    ELSE spend[k] + Cardinality(Charging(k)) < Cap[k] + Cardinality(Handlers)
  BY DEF ChargesBounded
<1>1. spend[k] = 0 /\ Charging(k) = {}
  BY DEF Init, Charging
<1>2. Cap[k] \in Nat
  BY CapAssumption
<1> QED
  BY <1>1, <1>2, ChargingFinite, FS_EmptySet

(* A check admits a handler only below the cap, so what is charged and what*)
(* is waiting is then less than the cap and all handlers together; a charge*)
(* moves one request from waiting to charged.                              *)
LEMMA ChargesStep ==
  HarnessTypeOK /\ ChargesBounded /\ [Next]_vars => ChargesBounded'
<1> SUFFICES ASSUME HarnessTypeOK, ChargesBounded, [Next]_vars,
                    NEW k \in Assets \cup {None}, Cap[k] # None
             PROVE  (IF Cap[k] = 0 THEN spend[k] = 0 /\ Charging(k) = {}
                     ELSE spend[k] + Cardinality(Charging(k))
                            < Cap[k] + Cardinality(Handlers))'
  BY DEF ChargesBounded
<1>1. Cap[k] \in Nat /\ spend[k] \in Nat
  BY CapAssumption DEF HarnessTypeOK
<1>2. IF Cap[k] = 0 THEN spend[k] = 0 /\ Charging(k) = {}
      ELSE spend[k] + Cardinality(Charging(k)) < Cap[k] + Cardinality(Handlers)
  BY DEF ChargesBounded
<1>3. CASE spend' = spend /\ Charging(k)' = Charging(k)
  BY <1>2, <1>3
<1>4. ASSUME NEW h \in Handlers, DecideConnect(h) \/ DecideInner(h) PROVE
             \/ Charging(k)' = Charging(k)
             \/ spend[k] < Cap[k] /\ Charging(k)' \in SUBSET Handlers
  <2>1. CASE k \in Counters(h)
    BY <1>4, <2>1 DEF DecideConnect, DecideInner, Admitted, Charging
  <2>2. CASE k \notin Counters(h)
    BY <1>4, <2>2 DEF DecideConnect, DecideInner, Goto, Charging, Counters, HarnessTypeOK
  <2> QED
    BY <2>1, <2>2
<1>5. ASSUME NEW h \in Handlers, DecideConnect(h) \/ DecideInner(h)
      PROVE  (IF Cap[k] = 0 THEN spend[k] = 0 /\ Charging(k) = {}
              ELSE spend[k] + Cardinality(Charging(k)) < Cap[k] + Cardinality(Handlers))'
  <2>1. spend' = spend
    BY <1>5 DEF DecideConnect, DecideInner
  <2>2. CASE Charging(k)' = Charging(k)
    BY <1>3, <2>1, <2>2
  <2>3. CASE spend[k] < Cap[k] /\ Charging(k)' \in SUBSET Handlers
    <3>1. /\ Cardinality(Charging(k)') \in Nat /\ Cardinality(Handlers) \in Nat
          /\ Cardinality(Charging(k)') <= Cardinality(Handlers)
      BY <2>3, HandlersAreFinite, FS_Subset, FS_CardinalityType
    <3> QED
      BY <1>1, <2>1, <2>3, <3>1
  <2> QED
    BY <1>4, <1>5, <2>2, <2>3
<1>6. ASSUME NEW h \in Handlers, Charge(h)
      PROVE  (IF Cap[k] = 0 THEN spend[k] = 0 /\ Charging(k) = {}
              ELSE spend[k] + Cardinality(Charging(k)) < Cap[k] + Cardinality(Handlers))'
  <2>1. CASE k \in Counters(h)
    <3>1. spend'[k] = spend[k] + 1
      BY <1>6, <2>1 DEF Charge, HarnessTypeOK
    <3>2. h \in Charging(k) /\ Charging(k)' = Charging(k) \ {h}
      BY <1>6, <2>1 DEF Charge, Goto, Charging, Counters, HarnessTypeOK
    <3>3. Cardinality(Charging(k)') = Cardinality(Charging(k)) - 1
      BY <3>2, ChargingFinite, FS_RemoveElement
    <3> QED
      BY <1>1, <1>2, <3>1, <3>2, <3>3, ChargingFinite
  <2>2. CASE k \notin Counters(h)
    <3>1. spend'[k] = spend[k] /\ Charging(k)' = Charging(k)
      BY <1>6, <2>2 DEF Charge, Goto, Charging, Counters, HarnessTypeOK
    <3> QED
      BY <1>2, <3>1
  <2> QED
    BY <2>1, <2>2
<1>7. ASSUME NEW h \in Handlers, Handler(h),
             ~DecideConnect(h), ~DecideInner(h), ~Charge(h)
      PROVE  spend' = spend /\ Charging(k)' = Charging(k)
  <2> USE DEF Charging, Counters, Goto, pdpVars, HarnessTypeOK
  <2>1. CASE NoCertificate(h) \/ TrackRaw(h) \/ WrapClient(h) \/ TrackTls(h) \/ ReadInner(h)
    BY <2>1 DEF NoCertificate, TrackRaw, WrapClient, TrackTls, ReadInner
  <2>2. CASE ConnectUpstream(h) \/ TrackPlain(h) \/ WrapUpstream(h) \/ TrackUp(h) \/ Send(h)
    BY <2>2 DEF ConnectUpstream, TrackPlain, WrapUpstream, TrackUp, Send
  <2>3. CASE UntrackUp(h) \/ CloseUpstream(h) \/ Leave(h) \/ UntrackClient(h) \/ Finish(h)
    BY <2>3 DEF UntrackUp, CloseUpstream, Leave, UntrackClient, Finish
  <2> QED
    BY <1>7, <2>1, <2>2, <2>3 DEF Handler
<1>8. CASE Toggle \/ Snapshot \/ TearDown \/ Rearm
  BY <1>3, <1>8 DEF Toggle, Snapshot, TearDown, Rearm, pdpVars, Charging, Counters
<1>9. CASE UNCHANGED vars
  BY <1>3, <1>9 DEF vars, Charging, Counters
<1> QED
  BY <1>3, <1>5, <1>6, <1>7, <1>8, <1>9 DEF Next

-----------------------------------------------------------------------------
(* The parts of the inductive invariant, in every reachable state.         *)
LEMMA HarnessInvariant ==
  Spec => [](HarnessTypeOK /\ PeerFixed /\ SocketsByStage /\ ChargesBounded)
BY HarnessInit, HarnessTypeStep, PeerStep, SocketsStep, ChargesInit, ChargesStep, PTL
   DEF Spec

(* pdp() checks and charges in two critical sections.  However many        *)
(* handlers are between them, a budget is passed by fewer requests than    *)
(* there are handlers, and a budget of zero is never touched.              *)
THEOREM BudgetOvershoot == Spec => []OvershootBounded
<1>1. HarnessTypeOK /\ ChargesBounded => OvershootBounded
  <2> SUFFICES ASSUME HarnessTypeOK, ChargesBounded, NEW k \in Assets \cup {None},
                      Cap[k] # None
               PROVE  IF Cap[k] = 0 THEN spend[k] = 0
                      ELSE spend[k] < Cap[k] + Cardinality(Handlers)
    BY DEF OvershootBounded, HarnessTypeOK
  <2>1. Cap[k] \in Nat /\ spend[k] \in Nat
    BY CapAssumption DEF HarnessTypeOK
  <2> QED
    BY <2>1, ChargingFinite DEF ChargesBounded
<1> QED
  BY <1>1, HarnessInvariant, PTL

(* Whatever the zone answers, a connection's upstream is the one address   *)
(* its tunnel was authorised for.                                          *)
THEOREM AddressFixed == Spec => []OneAddressPerConnection
<1>1. PeerFixed => OneAddressPerConnection
  BY DEF PeerFixed, OneAddressPerConnection
<1> QED
  BY <1>1, HarnessInvariant, PTL

(* What the kill switch can and cannot reach through _live, for any number *)
(* of handlers and any interleaving with a sweep.                          *)
THEOREM RegistryExact == Spec => []RegistryMatchesSockets
<1>1. HarnessTypeOK /\ SocketsByStage => RegistryMatchesSockets
  <2> SUFFICES ASSUME HarnessTypeOK, SocketsByStage, NEW h \in Handlers
               PROVE  /\ Entries(h, usable[h] \ Escapes(h)) \subseteq live
                      /\ stage[h] = "done" =>
                           live \cap Entries(h, Handles) \subseteq Entries(h, {"plain"})
    BY DEF RegistryMatchesSockets
  <2>1. ASSUME NEW s \in usable[h] \ Escapes(h) PROVE <<h, s>> \in live
    <3>1. stage[h] \in Stages /\ Sockets(h)
      BY DEF HarnessTypeOK, SocketsByStage
    <3>2. CASE stage[h] \in {"connect", "charging", "tunnel", "client_tls", "connected",
                             "upstream_tls", "ending", "failing", "closing", "untracked"}
      BY <2>1, <3>1, <3>2 DEF Sockets, Escapes
    <3>3. CASE stage[h] \in {"wrapping", "inside", "decide", "charging_inner",
                             "connecting", "upstream", "sending", "streaming",
                             "delivering", "done"}
      BY <2>1, <3>1, <3>3 DEF Sockets
    <3> QED
      BY <3>1, <3>2, <3>3 DEF Stages
  <2>2. ASSUME stage[h] = "done", NEW s \in Handles, <<h, s>> \in live
        PROVE  s = "plain"
    BY <2>2 DEF SocketsByStage, Sockets, Handles
  <2> QED
    BY <2>1, <2>2 DEF Entries
<1> QED
  BY <1>1, HarnessInvariant, PTL
=============================================================================
