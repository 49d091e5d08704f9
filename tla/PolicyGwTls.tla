---------------------------- MODULE PolicyGwTls ----------------------------
(***************************************************************************)
(* The TLS-intercepting proof harness: phase2b/policy_gw_tls.py on top of  *)
(* pdp() of phase2a/policy_gw.py.  One handler thread takes a connection   *)
(* through CONNECT, interception, the inner request and the upstream; the  *)
(* kill watcher polls the STOP_ALL file and tears down the sockets in      *)
(* _live.  The gateway of pep/ (module Gateway) replaced this design.      *)
(*                                                                         *)
(* pdp() holds _budget_lock twice, once to check and once to charge, with  *)
(* the rest of the decision in between.  The kill file is read just before *)
(* the check; spend only grows, so reading both at once loses no           *)
(* behaviour.  wrap_socket() detaches the socket it wraps, so a handle     *)
(* that is in _live but detached cannot be closed through _live.           *)
(***************************************************************************)
EXTENDS Integers, FiniteSets

CONSTANTS
  Handlers,
  Assets,
  Asset,        \* X-Strix-Asset of each connection, or None
  Cap,          \* max_requests and asset_max_requests, by counter
  Zone,         \* the answer sets a lookup may return: sequences of addresses
  Allowed,      \* the addresses ip_is_allowed() accepts
  AuthorizedIps,
  None          \* no asset, address or cap

ASSUME CapAssumption ==
  /\ Cap \in [Assets \cup {None} -> Nat \cup {None}] /\ Cap[None] # None
  /\ Asset \in [Handlers -> Assets \cup {None}]

\* One handler thread per connection; a process has finitely many.
ASSUME HandlersAreFinite == IsFiniteSet(Handlers)

VARIABLES
  killFile,     \* the STOP_ALL file is there
  spend,        \* _spend: the program's counter (None) and one per asset
  stage,        \* where the handler is
  pinned,       \* d.pinned_ip
  peer,         \* d2.pinned_ip
  usable,       \* the handles that own an open descriptor
  live,         \* _live
  armed,        \* kill_watcher: armed
  victims       \* kill_watcher: sockets still to be torn down

vars == <<killFile, spend, stage, pinned, peer, usable, live, armed, victims>>
pdpVars == <<spend, pinned, peer>>
socketVars == <<usable, live>>
watchVars == <<killFile, armed, victims>>

Handles == {"raw", "tls", "plain", "up"}
Counters(h) == {None, Asset[h]}

Init ==
  /\ killFile = FALSE
  /\ spend = [k \in Assets \cup {None} |-> 0]
  /\ stage = [h \in Handlers |-> "connect"]
  /\ pinned = [h \in Handlers |-> None]
  /\ peer = [h \in Handlers |-> None]
  /\ usable = [h \in Handlers |-> {"raw"}]
  /\ live = {}
  /\ armed = FALSE
  /\ victims = {}

Goto(h, to) == stage' = [stage EXCEPT ![h] = to] /\ UNCHANGED watchVars

-----------------------------------------------------------------------------
(* pdp()                                                                   *)

\* Mutant: a policy without caps is what is checked.
AdmittedUnbudgeted(h) == ~killFile

\* The kill file, then both caps under _budget_lock.
Admitted(h) ==
  /\ ~killFile
  /\ \A k \in Counters(h) : Cap[k] = None \/ spend[k] < Cap[k]

\* The simulated zone: a later lookup may answer differently.
resolve == Zone

\* Loopback, link-local, private (unless exempted) and reserved are not.
ip_is_allowed(ip) == ip \in Allowed

\* Every answer is acceptable and the first one is authorised.
AnswersAllowed(answers) ==
  /\ answers # <<>>
  /\ \A i \in DOMAIN answers : ip_is_allowed(answers[i])
  /\ answers[1] \in AuthorizedIps

(* The tunnel's decision, up to the charge; everything else in pdp() may   *)
(* deny as well (see Leave).                                               *)
DecideConnect(h) ==
  /\ stage[h] = "connect"
  /\ Admitted(h)
  /\ \E answers \in resolve :
       AnswersAllowed(answers) /\ pinned' = [pinned EXCEPT ![h] = answers[1]]
  /\ Goto(h, "charging")
  /\ UNCHANGED <<spend, peer, socketVars>>

\* Mutant: the inner decision looks the name up again.
DecideResolvingAgain(h) ==
  /\ stage[h] = "decide"
  /\ Admitted(h)
  /\ \E answers \in resolve :
       AnswersAllowed(answers) /\ peer' = [peer EXCEPT ![h] = answers[1]]
  /\ Goto(h, "charging_inner")
  /\ UNCHANGED <<spend, pinned, socketVars>>

\* The inner request's decision reuses the pin and does not resolve.
DecideInner(h) ==
  /\ stage[h] = "decide"
  /\ Admitted(h)
  /\ ip_is_allowed(pinned[h]) /\ pinned[h] \in AuthorizedIps
  /\ peer' = [peer EXCEPT ![h] = pinned[h]]
  /\ Goto(h, "charging_inner")
  /\ UNCHANGED <<spend, pinned, socketVars>>

\* The second critical section of pdp().
Charge(h) ==
  /\ \/ stage[h] = "charging" /\ Goto(h, "tunnel")
     \/ stage[h] = "charging_inner" /\ Goto(h, "connecting")
  /\ spend' = [k \in DOMAIN spend |->
                 IF k \in Counters(h) THEN spend[k] + 1 ELSE spend[k]]
  /\ UNCHANGED <<pinned, peer, socketVars>>

-----------------------------------------------------------------------------
(* do_CONNECT()                                                            *)
Use(h, handles) == usable' = [usable EXCEPT ![h] = handles]
Entries(h, handles) == {h} \X handles

\* 200 Connection Established, then track(raw).
TrackRaw(h) ==
  /\ stage[h] = "tunnel"
  /\ live' = live \cup Entries(h, {"raw"})
  /\ Goto(h, "wrapping")
  /\ UNCHANGED <<pdpVars, usable>>

(* No interception certificate for the host: denied after the charge, and  *)
(* the connection is kept for another CONNECT.                             *)
NoCertificate(h) ==
  /\ stage[h] = "tunnel"
  /\ pinned' = [pinned EXCEPT ![h] = None]
  /\ Goto(h, "connect")
  /\ UNCHANGED <<spend, peer, socketVars>>

\* wrap_socket(raw) takes the descriptor over and begins the handshake.
WrapClient(h) ==
  /\ stage[h] = "wrapping"
  /\ "raw" \in usable[h]
  /\ Use(h, {"tls"})
  /\ Goto(h, "client_tls")
  /\ UNCHANGED <<pdpVars, live>>

\* Mutant: the wrapper is not registered.
TrackNothing(h) ==
  /\ stage[h] = "client_tls"
  /\ Goto(h, "inside")
  /\ UNCHANGED <<pdpVars, socketVars>>

\* The handshake is done: track(tls).
TrackTls(h) ==
  /\ stage[h] = "client_tls"
  /\ live' = live \cup Entries(h, {"tls"})
  /\ Goto(h, "inside")
  /\ UNCHANGED <<pdpVars, usable>>

-----------------------------------------------------------------------------
(* _intercepted()                                                          *)

\* The SNI matches and the request is read from the tunnel; so does its Host.
ReadInner(h) ==
  /\ stage[h] = "inside"
  /\ "tls" \in usable[h]
  /\ Goto(h, "decide")
  /\ UNCHANGED <<pdpVars, socketVars>>

\* create_connection(): the upstream socket is open and not yet in _live.
ConnectUpstream(h) ==
  /\ stage[h] = "connecting"
  /\ Use(h, usable[h] \cup {"plain"})
  /\ Goto(h, "connected")
  /\ UNCHANGED <<pdpVars, live>>

TrackPlain(h) ==
  /\ stage[h] = "connected"
  /\ live' = live \cup Entries(h, {"plain"})
  /\ Goto(h, "upstream")
  /\ UNCHANGED <<pdpVars, usable>>

WrapUpstream(h) ==
  /\ stage[h] = "upstream"
  /\ "plain" \in usable[h]
  /\ Use(h, (usable[h] \ {"plain"}) \cup {"up"})
  /\ Goto(h, "upstream_tls")
  /\ UNCHANGED <<pdpVars, live>>

TrackUp(h) ==
  /\ stage[h] = "upstream_tls"
  /\ live' = live \cup Entries(h, {"up"})
  /\ Goto(h, "sending")
  /\ UNCHANGED <<pdpVars, usable>>

Send(h) ==
  /\ stage[h] = "sending"
  /\ "up" \in usable[h]
  /\ Goto(h, "streaming")
  /\ UNCHANGED <<pdpVars, socketVars>>

(* The response ends (an upstream torn down by the watcher also reads as   *)
(* the end) and will be delivered, or sending or reading raised; the       *)
(* upstream is untracked either way, and closed next.                      *)
UntrackUp(h) ==
  /\ \/ stage[h] = "streaming" /\ (Goto(h, "ending") \/ Goto(h, "failing"))
     \/ stage[h] = "sending" /\ Goto(h, "failing")
  /\ live' = live \ Entries(h, {"up"})
  /\ UNCHANGED <<pdpVars, usable>>

(* up.close(), then plain is untracked; closing plain, which wrap_socket() *)
(* detached, does nothing.                                                 *)
CloseUpstream(h) ==
  /\ \/ stage[h] = "ending" /\ Goto(h, "delivering")
     \/ stage[h] = "failing" /\ Goto(h, "closing")
  /\ live' = live \ Entries(h, {"plain"})
  /\ Use(h, usable[h] \ {"up"})
  /\ UNCHANGED pdpVars

(* A denial, a failed handshake, a peer that went away or a handle torn    *)
(* down: the body is over.  wrap_socket() closes a wrapper whose handshake *)
(* fails; nobody untracks plain after a failed upstream handshake.         *)
Leave(h) ==
  /\ stage[h] \in {"connect", "tunnel", "wrapping", "client_tls", "inside",
                   "decide", "connecting", "upstream", "upstream_tls", "delivering"}
  /\ Use(h, usable[h] \ IF stage[h] = "client_tls" THEN Handles
                       ELSE IF stage[h] \in {"upstream", "upstream_tls"}
                       THEN {"plain", "up"} ELSE {})
  /\ Goto(h, "closing")
  /\ UNCHANGED <<pdpVars, live>>

\* The finally of do_CONNECT(): untrack both, then close.
UntrackClient(h) ==
  /\ stage[h] = "closing"
  /\ live' = live \ Entries(h, {"tls", "raw"})
  /\ Goto(h, "untracked")
  /\ UNCHANGED <<pdpVars, usable>>

\* tls.close(); the server closes the connection.
Finish(h) ==
  /\ stage[h] = "untracked"
  /\ Use(h, {})
  /\ Goto(h, "done")
  /\ UNCHANGED <<pdpVars, live>>

Handler(h) ==
  \/ DecideConnect(h) \/ DecideInner(h) \/ Charge(h) \/ NoCertificate(h)
  \/ TrackRaw(h) \/ WrapClient(h) \/ TrackTls(h) \/ ReadInner(h) \/ ConnectUpstream(h)
  \/ TrackPlain(h) \/ WrapUpstream(h) \/ TrackUp(h) \/ Send(h) \/ UntrackUp(h)
  \/ CloseUpstream(h) \/ Leave(h) \/ UntrackClient(h) \/ Finish(h)

-----------------------------------------------------------------------------
(* kill_watcher() and the operator.                                        *)
Toggle ==
  /\ killFile' = ~killFile
  /\ UNCHANGED <<pdpVars, stage, socketVars, armed, victims>>

Snapshot ==
  /\ killFile /\ ~armed /\ victims = {}
  /\ armed' = TRUE
  /\ victims' = live
  /\ UNCHANGED <<pdpVars, stage, socketVars, killFile>>

\* Mutant: the sweep ends at the first socket.
TearDownOne ==
  /\ \E v \in victims :
       /\ usable' = [usable EXCEPT ![v[1]] = @ \ {v[2]}]
       /\ victims' = {}
  /\ UNCHANGED <<pdpVars, stage, live, killFile, armed>>

\* shutdown() and close(); a detached or closed handle is passed over.
TearDown ==
  /\ \E v \in victims :
       /\ usable' = [usable EXCEPT ![v[1]] = @ \ {v[2]}]
       /\ victims' = victims \ {v}
  /\ UNCHANGED <<pdpVars, stage, live, killFile, armed>>

Rearm ==
  /\ ~killFile /\ armed /\ victims = {}
  /\ armed' = FALSE
  /\ UNCHANGED <<pdpVars, stage, socketVars, killFile, victims>>

Next ==
  \/ \E h \in Handlers : Handler(h)
  \/ Toggle \/ Snapshot \/ TearDown \/ Rearm

(* What does not wait for a peer: the client's and the upstream's sockets  *)
(* can stall a handler for as long as they are open.                       *)
Unblocked(h) ==
  /\ \/ stage[h] = "streaming" /\ "up" \notin usable[h]
     \/ stage[h] = "delivering" /\ "tls" \notin usable[h]
     \/ stage[h] \in {"ending", "failing", "closing", "untracked"}
  /\ Handler(h)

Spec ==
  /\ Init /\ [][Next]_vars
  /\ WF_vars(TearDown)
  /\ \A h \in Handlers : WF_vars(Unblocked(h))

-----------------------------------------------------------------------------
(* However many decisions are between their check and their charge, a      *)
(* budget is passed by at most one request per other handler, never by an  *)
(* unbounded number ("BUDGET_EXHAUSTED_ASSET" on the next request).        *)
OvershootBounded ==
  \A k \in DOMAIN spend :
    Cap[k] # None =>
      IF Cap[k] = 0 THEN spend[k] = 0
      ELSE spend[k] < Cap[k] + Cardinality(Handlers)

(* The upstream of a connection is the one address its tunnel was          *)
(* authorised for, whatever the name answers later ("one connection, one   *)
(* resolution, one address").                                              *)
OneAddressPerConnection ==
  \A h \in Handlers :
    stage[h] \in {"connecting", "connected", "upstream", "upstream_tls",
                  "sending", "streaming", "ending", "delivering"} =>
      peer[h] = pinned[h] /\ peer[h] \in AuthorizedIps

(* The open sockets of a handler that _live does not hold: the client's    *)
(* before its tunnel, either end's while its handshake is under way, the   *)
(* upstream's between create_connection() and track(), and any of them     *)
(* between untrack() and close().                                          *)
Escapes(h) ==
  CASE stage[h] \in {"connect", "charging", "tunnel", "closing"} -> {"raw"}
    [] stage[h] = "client_tls" -> {"tls"}
    [] stage[h] = "connected" -> {"plain"}
    [] stage[h] \in {"upstream_tls", "ending", "failing"} -> {"up"}
    [] stage[h] = "untracked" -> {"raw", "tls"}
    [] OTHER -> {}

(* The kill switch reaches, through _live, every open socket but these, and*)
(* a handler that is done leaves at most the detached socket of a failed   *)
(* upstream handshake registered ("tear down every live socket").          *)
RegistryMatchesSockets ==
  \A h \in Handlers :
    /\ Entries(h, usable[h] \ Escapes(h)) \subseteq live
    /\ stage[h] = "done" => live \cap Entries(h, Handles) \subseteq Entries(h, {"plain"})

(* A stream the watcher has among its victims ends, although neither the   *)
(* client nor the upstream does anything ("kill switch tears down LIVE     *)
(* connections, not just new requests").                                   *)
SweptStreamsEnd ==
  \A h \in Handlers :
    stage[h] = "streaming" /\ <<h, "up">> \in victims ~> stage[h] = "done"
=============================================================================
