-------------------------- MODULE ConnectionThreads --------------------------
(***************************************************************************)
(* The two threads that meet in one ConnectionLifecycle: the handler of    *)
(* gateway.py, which walks a connection through its four handles           *)
(* (_connect_flow, _inside), and the kill switch, which marks it terminal  *)
(* and shuts down what it retained (terminate_all).  Decisions and audit   *)
(* records are in module Gateway; here any step may also fail.             *)
(***************************************************************************)
EXTENDS ConnectionLifecycle

VARIABLES
  stage,      \* where the handler is
  kill        \* the kill switch: "none", "marked" terminal, or "shut" down

threadVars == <<terminal, sockets, usable, retained, stage, kill>>

ThreadInit ==
  /\ ConnInit
  /\ stage = [c \in Conns |-> "new"]
  /\ kill = [c \in Conns |-> "none"]

Go(c, to) == stage' = [stage EXCEPT ![c] = to] /\ UNCHANGED kill

Accept(c) == stage[c] = "new" /\ Open(c, "raw") /\ Go(c, "accepted")

\* state.track(raw): the result is ignored, a closed raw fails at settimeout.
TrackRaw(c) == stage[c] = "accepted" /\ Track(c, "raw") /\ Go(c, "tracked")

WrapRaw(c) == stage[c] = "tracked" /\ Wrap(c, "raw", "tls") /\ Go(c, "client_tls")

TransferTls(c) ==
  /\ stage[c] = "client_tls"
  /\ "tls" \in usable[c]
  /\ Transfer(c, "raw", "tls")
  /\ Go(c, IF terminal[c] THEN "closing" ELSE "inside")

OpenPlain(c) == stage[c] = "inside" /\ Open(c, "plain") /\ Go(c, "opened")

TrackPlain(c) ==
  /\ stage[c] = "opened"
  /\ Track(c, "plain")
  /\ Go(c, IF terminal[c] THEN "closing" ELSE "permitted")

\* plain.connect(...) and the start of the upstream wrap_socket.
WrapPlain(c) ==
  /\ stage[c] = "permitted"
  /\ Wrap(c, "plain", "up")
  /\ Go(c, "upstream_tls")

TransferUp(c) ==
  /\ stage[c] = "upstream_tls"
  /\ "up" \in usable[c]
  /\ Transfer(c, "plain", "up")
  /\ Go(c, IF terminal[c] THEN "closing" ELSE "sending")

\* up.sendall(raw_req)
SendRequest(c) ==
  /\ stage[c] = "sending"
  /\ "up" \in usable[c]
  /\ Go(c, "sent")
  /\ UNCHANGED connVars

(* Any socket operation may fail (peer, timeout, a handle torn down under  *)
(* it) and a connection may be denied; a wrapper whose handshake fails is  *)
(* closed by wrap_socket, an untracked raw socket stays with the server.   *)
Fail(c) ==
  /\ stage[c] \in {"accepted", "tracked", "client_tls", "inside", "permitted",
                   "upstream_tls", "sending", "sent"}
  /\ usable' = [usable EXCEPT ![c] = @ \cap (sockets[c] \cup {"raw"})]
  /\ UNCHANGED <<terminal, sockets, retained>>
  /\ Go(c, "closing")

CloseAll(c) ==
  /\ stage[c] \in {"closing", "sent"}
  /\ Terminate(c)
  /\ Go(c, "done")

\* handle() has returned: the server closes the request socket.
Finish(c) == stage[c] = "done" /\ ShutdownClose(c, "raw") /\ Go(c, "finished")

Handler(c) ==
  \/ Accept(c) \/ TrackRaw(c) \/ WrapRaw(c) \/ TransferTls(c)
  \/ OpenPlain(c) \/ TrackPlain(c) \/ WrapPlain(c) \/ TransferUp(c)
  \/ SendRequest(c) \/ Fail(c) \/ CloseAll(c) \/ Finish(c)

\* A victim is registered before its raw socket is tracked (Registry.add).
Mark(c) ==
  /\ kill[c] = "none" /\ stage[c] # "new"
  /\ BeginTermination(c)
  /\ kill' = [kill EXCEPT ![c] = "marked"]
  /\ UNCHANGED stage

Shut(c) ==
  /\ kill[c] = "marked"
  /\ ShutdownRetained(c)
  /\ kill' = [kill EXCEPT ![c] = "shut"]
  /\ UNCHANGED stage

ThreadNext == \E c \in Conns : Handler(c) \/ Mark(c) \/ Shut(c)

\* _deny_tls() reads until its client stops sending: one timeout per recv().
Draining(c) == stage[c] = "closing" /\ "tls" \in usable[c]

(* A handler thread that has been started keeps running: every socket call *)
(* is bounded by IDLE_TIMEOUT or TOTAL_TIMEOUT and then fails.  A denied   *)
(* client that goes on sending keeps its handler until its socket is shut. *)
ThreadSpec ==
  /\ ThreadInit
  /\ [][ThreadNext]_threadVars
  /\ \A c \in Conns :
       WF_threadVars(stage[c] # "new" /\ ~Draining(c) /\ Handler(c))

-----------------------------------------------------------------------------
(* Shape of the handler's and the kill switch's view of a connection.      *)
ThreadTypeOK ==
  /\ terminal \in [Conns -> BOOLEAN]
  /\ sockets \in [Conns -> SUBSET Handles]
  /\ usable \in [Conns -> SUBSET Handles]
  /\ retained \in [Conns -> SUBSET Handles]
  /\ kill \in [Conns -> {"none", "marked", "shut"}]
  /\ stage \in [Conns -> {"new", "accepted", "tracked", "client_tls", "inside",
                          "opened", "permitted", "upstream_tls", "sending",
                          "sent", "closing", "done", "finished"}]

(* Once the kill switch has shut down what it retained, no handle the      *)
(* connection owns is usable, whatever the handler registers afterwards:   *)
(* "a handle is either retained before teardown or rejected and closed".   *)
OwnedHandlesDie ==
  \A c \in Conns : kill[c] = "shut" => sockets[c] \cap usable[c] = {}

(* No request byte leaves on an upstream connection after its teardown: a  *)
(* TLS wrapper finished after the kill is closed by transfer(), never used.*)
NoRequestAfterShutdown ==
  [][\A c \in Conns :
       stage[c] = "sending" /\ stage'[c] = "sent" => kill[c] # "shut"]_threadVars

(* After teardown every descriptor of the connection is closed in the end, *)
(* the unregistered wrappers included.                                     *)
TeardownCompletes ==
  \A c \in Conns : kill[c] = "shut" ~> usable[c] = {}
=============================================================================
