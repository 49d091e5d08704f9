------------------------------- MODULE Gateway -------------------------------
(***************************************************************************)
(* The execution gateway of pep/gateway.py: handler threads, each taking   *)
(* one client connection through one CONNECT attempt, and the kill switch  *)
(* (terminate_all, cancel_and_quiesce, kill_watcher, serve) that cancels   *)
(* the run, tears the connections down, drains and seals the audit log.    *)
(* It composes the permit lock (RunContext), the per-connection socket     *)
(* ownership (ConnectionLifecycle), the audit sink (AuditSink) and, through*)
(* the sink, the verifier that will judge the history (VerifyE10).         *)
(*                                                                         *)
(* A step is one critical section, one audit write, one socket call or one *)
(* policy decision; steps that touch only the thread's own locals are part *)
(* of the step before them.  A handler is named by its attempt: a          *)
(* connection makes at most one.  The policy decision point chooses between*)
(* allow and deny.  The kill file may come and go at any moment, so every  *)
(* check of it (PDP.decide, kill_watcher, serve) may find it or not: it is *)
(* not a variable.                                                         *)
(***************************************************************************)
EXTENDS RunContext, ConnectionLifecycle, AuditSink

CONSTANTS
  MaxConnections,   \* MAX_CONNECTIONS
  MayTimeOut,       \* whether a drain wait may give up (CANCEL_DRAIN_TIMEOUT)
  Spellings         \* how a client may spell method, SNI and credential

ASSUME OneAttemptPerConnection == Conns = Attempts

\* A configured number of places.
ASSUME MaxConnectionsAssumption == MaxConnections \in Nat

VARIABLES
  pc,          \* where each handler is
  todo,        \* records the handler writes next, in order
  raised,      \* an exception has propagated out of _inside
  seen,        \* the epoch read before commit_intent
  spelling,    \* the spelling of this client's request
  logged,      \* history: the attempt's decisions durably written
  slots,       \* free places of Registry._sem
  conns,       \* Registry._conns
  killed,      \* Registry._killed (and not _producer_admission)
  producers,   \* Registry._active_producers
  listener,    \* "off", "serving", "stopping", "stopped", "closed"
  wpc,         \* where serve() / the kill watcher is
  victims,     \* connections snapshotted by terminate_all()
  pending,     \* victims still to be marked, then still to be shut down
  torn,        \* victims with a handle that was still live at shutdown
  evidence,    \* linearization_evidence_durable
  sample       \* stop_started, listener_stopped, effect_ and producer_remaining

handlerVars == <<pc, todo, raised, seen, spelling, logged>>
registryVars == <<slots, conns, killed, producers>>
watcherVars == <<listener, wpc, victims, pending, torn, evidence,
                 sample>>
vars == <<runVars, connVars, sinkVars, handlerVars, registryVars, watcherVars>>

\* The spelling that AUTH_COMMITTED normalises every request to.
Canonical == "canonical"

NoSample ==
  [permits |-> 0, producers |-> 0, stopped |-> FALSE, started |-> FALSE]

Init ==
  /\ RunInit /\ ConnInit /\ SinkInit
  /\ pc = [h \in Attempts |-> "none"]
  /\ todo = [h \in Attempts |-> <<>>]
  /\ raised = [h \in Attempts |-> FALSE]
  /\ seen = [h \in Attempts |-> 0]
  /\ spelling = [h \in Attempts |-> Canonical]
  /\ logged = [h \in Attempts |-> {}]
  /\ slots = MaxConnections
  /\ conns = {}
  /\ killed = FALSE
  /\ producers = 0
  /\ listener = "off"
  /\ wpc = "boot"
  /\ victims = {}
  /\ pending = {}
  /\ torn = {}
  /\ evidence = FALSE
  /\ sample = NoSample

-----------------------------------------------------------------------------
(* The records a handler writes.  AUTH normalises the request facts, ALLOW *)
(* and CONNECTION_TERMINATED repeat them as the client spelled them.       *)
Record(h, decision) ==
  [decision |-> decision, attempt_id |-> h, conn_id |-> h, epoch |-> seen[h],
   lifecycle_seq |-> IF decision = AUTH THEN A(h)
                     ELSE IF decision = PERMIT THEN P(h) ELSE R(h),
   permit_seq |-> P(h), binding |-> "binding", pin |-> "pin",
   facts |-> IF decision = AUTH THEN Canonical ELSE spelling[h],
   response |-> "response"]

Goto(h, to) == pc' = [pc EXCEPT ![h] = to]

\* Continue with a list of records to write.
Writing(h, decisions) ==
  /\ Goto(h, "writing")
  /\ todo' = [todo EXCEPT ![h] = decisions]

\* A handler runs until the process exits; its threads are daemons.
Running(h, at) == pc[h] = at /\ wpc # "exited"

\* The handler changes only its own position and list.
Locally == UNCHANGED <<raised, seen, spelling, logged>>

-----------------------------------------------------------------------------
(* Admission: handle(), do_CONNECT().                                      *)

\* ThreadingHTTPServer accepts and starts a handler thread.
Accept(h) ==
  /\ Running(h, "none")
  /\ listener \in {"serving", "stopping"}
  /\ Open(h, "raw")
  /\ Goto(h, "accepted")
  /\ UNCHANGED <<runVars, sinkVars, todo, registryVars, watcherVars>>
  /\ Locally

\* Mutant: begin_producer() does not look at _killed.
BeginProducerAlways(h) ==
  /\ Running(h, "accepted")
  /\ producers' = producers + 1
  /\ Goto(h, "reading")
  /\ UNCHANGED <<connVars, runVars, sinkVars, todo, slots, conns, killed,
                 watcherVars>>
  /\ Locally

\* begin_producer(); a refused handler writes nothing.
BeginProducer(h) ==
  /\ Running(h, "accepted")
  /\ \/ /\ ~killed
        /\ producers' = producers + 1
        /\ Goto(h, "reading")
        /\ UNCHANGED connVars
     \/ /\ killed
        /\ ShutdownClose(h, "raw")
        /\ Goto(h, "gone")
        /\ UNCHANGED producers
  /\ UNCHANGED <<runVars, sinkVars, todo, slots, conns, killed, watcherVars>>
  /\ Locally

(* The request loop: a CONNECT takes a place of the semaphore; the client  *)
(* may also go away.  There is no read timeout.                            *)
ReadRequest(h) ==
  /\ Running(h, "reading")
  /\ \/ slots > 0 /\ slots' = slots - 1 /\ Goto(h, "adding")
     \/ Goto(h, "ending") /\ UNCHANGED slots
  /\ UNCHANGED <<runVars, connVars, sinkVars, todo, conns, killed, producers,
                 watcherVars>>
  /\ Locally

\* Mutant: a refused CONNECT gives back a place it never took.
RefuseReleasing(h) ==
  /\ Running(h, "reading")
  /\ Appends(Record(h, BLOCKED))
  /\ slots' = slots + 1
  /\ UNCHANGED <<runVars, connVars, pc, todo, conns, killed, producers, watcherVars>>
  /\ Locally

(* _deny() before a ConnectionState exists: another method, a malformed    *)
(* target, or no free place.  The connection is kept alive.                *)
Refuse(h) ==
  /\ Running(h, "reading")
  /\ \/ Appends(Record(h, BLOCKED)) /\ UNCHANGED pc
     \/ Raises(Record(h, BLOCKED)) /\ Goto(h, "ending")
  /\ UNCHANGED <<runVars, connVars, todo, registryVars, watcherVars>>
  /\ Locally

\* Registry.add(): a run already killed is refused with a record.
Add(h) ==
  /\ Running(h, "adding")
  /\ \/ ~killed /\ conns' = conns \cup {h} /\ Goto(h, "deciding") /\ UNCHANGED todo
     \/ killed /\ Writing(h, <<BLOCKED>>) /\ UNCHANGED conns
  /\ UNCHANGED <<runVars, connVars, sinkVars, slots, killed, producers, watcherVars>>
  /\ Locally

-----------------------------------------------------------------------------
(* _connect_flow(): decide on the destination, own the client's TLS.       *)

(* A denied destination is recorded, an answer that cannot be sent raises; *)
(* else state.track(raw), whose result is ignored (see WrapClient).        *)
Decide(h) ==
  /\ Running(h, "deciding")
  /\ \/ Track(h, "raw") /\ Goto(h, "wrapping") /\ UNCHANGED todo
     \/ Writing(h, <<BLOCKED>>) /\ UNCHANGED connVars
     \/ Goto(h, "internal") /\ UNCHANGED <<connVars, todo>>
  /\ UNCHANGED <<runVars, sinkVars, registryVars, watcherVars>>
  /\ Locally

(* raw.settimeout() on a closed socket raises out of _connect_flow; a      *)
(* wrap_socket() that fails is one denial record.                          *)
WrapClient(h) ==
  /\ Running(h, "wrapping")
  /\ \/ Wrap(h, "raw", "tls") /\ Goto(h, "client_tls") /\ UNCHANGED todo
     \/ /\ "raw" \notin usable[h]
        /\ \/ Goto(h, "internal") /\ UNCHANGED todo
           \/ Writing(h, <<BLOCKED>>)
        /\ UNCHANGED connVars
  /\ UNCHANGED <<runVars, sinkVars, registryVars, watcherVars>>
  /\ Locally

\* The handshake succeeds and transfer() decides, or the handshake fails.
OwnClient(h) ==
  /\ Running(h, "client_tls")
  /\ \/ /\ Transfer(h, "raw", "tls")
        /\ Goto(h, IF terminal[h] THEN "closing" ELSE "inside")
        /\ UNCHANGED todo
     \/ /\ ShutdownClose(h, "tls")
        /\ Writing(h, <<BLOCKED>>)
  /\ UNCHANGED <<runVars, sinkVars, registryVars, watcherVars>>
  /\ Locally

-----------------------------------------------------------------------------
(* _inside(): durable intent, permit, durable attempt, effect, outcome.    *)

(* Read the request (which may raise) and decide on the real method; a     *)
(* request read before the connection was torn down is still decided on.   *)
(* Then read the epoch.                                                    *)
DecideInside(h) ==
  /\ Running(h, "inside")
  /\ \/ /\ seen' = [seen EXCEPT ![h] = epoch]
        /\ \E s \in Spellings : spelling' = [spelling EXCEPT ![h] = s]
        /\ Goto(h, "authorizing")
        /\ UNCHANGED todo
     \/ Writing(h, <<BLOCKED>>) /\ UNCHANGED <<seen, spelling>>
     \/ Goto(h, "internal") /\ UNCHANGED <<todo, seen, spelling>>
  /\ UNCHANGED <<runVars, connVars, sinkVars, raised, logged, registryVars,
                 watcherVars>>

\* commit_intent() up to the allocated sequence number.
AllocateAuth(h) ==
  /\ Running(h, "authorizing")
  /\ \/ healthy /\ Authorize(h, seen[h]) /\ Goto(h, "auth") /\ UNCHANGED todo
     \/ /\ ~healthy \/ ~MayAuthorize(h, seen[h])
        /\ Writing(h, <<BLOCKED>>)
        /\ UNCHANGED runVars
  /\ UNCHANGED <<connVars, sinkVars, registryVars, watcherVars>>
  /\ Locally

\* A step that writes record d of attempt h and goes on, or fails to.
WriteOr(h, d, next, Failing) ==
  /\ \/ /\ Appends(Record(h, d))
        /\ logged' = [logged EXCEPT ![h] = @ \cup {d}]
        /\ Goto(h, next)
        /\ UNCHANGED todo
     \/ /\ Raises(Record(h, d))
        /\ UNCHANGED logged
        /\ Failing
  /\ UNCHANGED <<runVars, connVars, raised, seen, spelling, registryVars, watcherVars>>

WriteAuth(h) ==
  /\ Running(h, "auth")
  /\ WriteOr(h, AUTH, "opening", Writing(h, <<BLOCKED>>))

\* Mutant: a terminal connection is denied without settling the attempt.
OpenUpstreamUnsettled(h) ==
  /\ Running(h, "opening")
  /\ OpenTracked(h, "plain")
  /\ IF terminal[h]
     THEN Writing(h, <<BLOCKED>>)
     ELSE Goto(h, "permitting") /\ UNCHANGED todo
  /\ UNCHANGED <<runVars, sinkVars, registryVars, watcherVars>>
  /\ Locally

(* The decision is taken again: any change, or no socket, settles the      *)
(* attempt as FAILED.  A TLS context that cannot be built (PEP_UPSTREAM_CA *)
(* is unreadable, say) raises out of _inside and settles nothing.  The     *)
(* socket is registered before connect.                                    *)
OpenUpstream(h) ==
  /\ Running(h, "opening")
  /\ \/ /\ OpenTracked(h, "plain")
        /\ IF terminal[h]
           THEN Writing(h, <<CANCELLED, BLOCKED>>)
           ELSE Goto(h, "permitting") /\ UNCHANGED todo
        /\ UNCHANGED raised
     \/ /\ Writing(h, <<FAILED, BLOCKED>>)
        /\ UNCHANGED <<connVars, raised>>
     \/ /\ Goto(h, "internal")
        /\ raised' = [raised EXCEPT ![h] = TRUE]
        /\ UNCHANGED <<connVars, todo>>
  /\ UNCHANGED <<runVars, sinkVars, seen, spelling, logged, registryVars,
                 watcherVars>>

(* acquire_permit() up to issue_permit(): the bindings it compares were    *)
(* found equal by the second decision.                                     *)
AcquirePermit(h) ==
  /\ Running(h, "permitting")
  /\ \/ /\ IssuePermit(h, seen[h], terminal[h])
        /\ Goto(h, "permit")
        /\ UNCHANGED todo
     \/ /\ ~MayIssuePermit(h, seen[h], terminal[h])
        /\ Writing(h, <<CANCELLED, BLOCKED>>)
        /\ UNCHANGED runVars
  /\ UNCHANGED <<connVars, sinkVars, registryVars, watcherVars>>
  /\ Locally

WritePermit(h) ==
  /\ Running(h, "permit")
  /\ WriteOr(h, PERMIT, "checking", Goto(h, "abandoning") /\ UNCHANGED todo)

\* Mutant: the permit is dropped without a release transition.
AbandonQuietly(h) ==
  /\ Running(h, "abandoning")
  /\ inflight' = inflight \ {h}
  /\ Writing(h, <<BLOCKED>>)
  /\ UNCHANGED <<epoch, cancelled, sequence, authorizations, permitted, permitSeq,
                 releaseSeq, cancellation, connVars, sinkVars, registryVars, watcherVars>>
  /\ Locally

\* abandon_undurable(): released in memory, no release record.
Abandon(h) ==
  /\ Running(h, "abandoning")
  /\ Release(h)
  /\ Writing(h, <<BLOCKED>>)
  /\ UNCHANGED <<connVars, sinkVars, registryVars, watcherVars>>
  /\ Locally

\* state.is_terminal() between the permit and the durable attempt.
CheckTerminal(h) ==
  /\ Running(h, "checking")
  /\ \/ ~terminal[h] /\ Goto(h, "attempt") /\ UNCHANGED todo
     \/ terminal[h] /\ Writing(h, <<CANCELLED, BLOCKED>>)
  /\ UNCHANGED <<runVars, connVars, sinkVars, registryVars, watcherVars>>
  /\ Locally

\* Mutant: the effect goes on although its record could not be written.
WriteAttemptedOrNot(h) ==
  /\ Running(h, "attempt")
  /\ WriteOr(h, ATTEMPTED, "connecting", Goto(h, "connecting") /\ UNCHANGED todo)

WriteAttempted(h) ==
  /\ Running(h, "attempt")
  /\ WriteOr(h, ATTEMPTED, "connecting", Writing(h, <<BLOCKED>>))

\* plain.connect() and the start of the upstream TLS handshake.
Connect(h) ==
  /\ Running(h, "connecting")
  /\ \/ Wrap(h, "plain", "up") /\ Goto(h, "upstream_tls") /\ UNCHANGED todo
     \/ Writing(h, <<UNKNOWN, BLOCKED>>) /\ UNCHANGED connVars
  /\ UNCHANGED <<runVars, sinkVars, registryVars, watcherVars>>
  /\ Locally

(* The handshake succeeds and transfer() decides, or it fails: an invalid  *)
(* certificate is denied with two records.                                 *)
OwnUpstream(h) ==
  /\ Running(h, "upstream_tls")
  /\ \/ /\ Transfer(h, "plain", "up")
        /\ Goto(h, IF terminal[h] THEN "interrupted" ELSE "sending")
        /\ UNCHANGED todo
     \/ /\ ShutdownClose(h, "up")
        /\ \/ Writing(h, <<UNKNOWN, BLOCKED>>)
           \/ Writing(h, <<UNKNOWN, BLOCKED, BLOCKED>>)
  /\ UNCHANGED <<runVars, sinkVars, registryVars, watcherVars>>
  /\ Locally

(* transfer() refused: the attempt is settled and denied inside the try    *)
(* block, so that a denial which cannot be recorded is caught, settled and *)
(* denied once more.                                                       *)
SettleInterrupted(h) ==
  /\ Running(h, "interrupted")
  /\ WriteOr(h, UNKNOWN, "denying", Goto(h, "denying") /\ UNCHANGED todo)

DenyInterrupted(h) ==
  /\ Running(h, "denying")
  /\ WriteOr(h, BLOCKED, "releasing", Writing(h, <<UNKNOWN, BLOCKED>>))

\* up.sendall(raw_req)
SendRequest(h) ==
  /\ Running(h, "sending")
  /\ \/ "up" \in usable[h] /\ Goto(h, "streaming") /\ UNCHANGED todo
     \/ Writing(h, <<UNKNOWN, BLOCKED>>)
  /\ UNCHANGED <<runVars, connVars, sinkVars, registryVars, watcherVars>>
  /\ Locally

(* The relay loop ends at the first empty recv(), which is also what a     *)
(* TLS socket shut down by another thread returns (ragged EOFs are         *)
(* suppressed), or with an exception.                                      *)
Stream(h) ==
  /\ Running(h, "streaming")
  /\ \/ Writing(h, <<COMPLETED, ALLOW>>)
     \/ Writing(h, <<UNKNOWN, CONN_TERMINATED>>)
  /\ UNCHANGED <<runVars, connVars, sinkVars, registryVars, watcherVars>>
  /\ Locally

-----------------------------------------------------------------------------
(* Outcome records and the way out.                                        *)

\* Mutant: the permit is only released on the normal way out.
LeaveWithoutFinally(h, exc) ==
  Goto(h, IF exc THEN "internal"
          ELSE IF h \in inflight THEN "releasing" ELSE "closing")

\* Where a handler goes when _inside's body is over: finally permit.release().
Leave(h, exc) ==
  Goto(h, IF h \in inflight THEN "releasing"
          ELSE IF exc THEN "internal" ELSE "closing")

(* Write the next record.  settle() swallows a failed outcome record; any  *)
(* other failed write raises and skips the rest.                           *)
WriteNext(h) ==
  /\ Running(h, "writing")
  /\ LET d == Head(todo[h])
         rest == Tail(todo[h])
     IN  \/ /\ Appends(Record(h, d))
            /\ logged' = [logged EXCEPT ![h] = @ \cup {d}]
            /\ todo' = [todo EXCEPT ![h] = rest]
            /\ IF rest = <<>> THEN Leave(h, FALSE) ELSE UNCHANGED pc
            /\ UNCHANGED raised
         \/ /\ Raises(Record(h, d))
            /\ d \in TERMINAL
            /\ todo' = [todo EXCEPT ![h] = rest]
            /\ UNCHANGED <<pc, raised, logged>>
         \/ /\ Raises(Record(h, d))
            /\ d \notin TERMINAL
            /\ todo' = [todo EXCEPT ![h] = <<>>]
            /\ raised' = [raised EXCEPT ![h] = TRUE]
            /\ Leave(h, TRUE)
            /\ UNCHANGED logged
  /\ UNCHANGED <<runVars, connVars, seen, spelling, registryVars, watcherVars>>

\* EffectPermit.release(): memory first, then the durable record.
ReleasePermit(h) ==
  /\ Running(h, "releasing")
  /\ Release(h)
  /\ Goto(h, "release")
  /\ UNCHANGED <<connVars, sinkVars, todo, registryVars, watcherVars>>
  /\ Locally

WriteRelease(h) ==
  /\ Running(h, "release")
  /\ WriteOr(h, PERMIT_RELEASED, IF raised[h] THEN "internal" ELSE "closing",
             Goto(h, "internal") /\ UNCHANGED todo)

\* do_CONNECT's except clause: one INTERNAL_FAILURE record, or not even that.
WriteInternal(h) ==
  /\ Running(h, "internal")
  /\ Appends(Record(h, BLOCKED)) \/ Raises(Record(h, BLOCKED))
  /\ Goto(h, "closing")
  /\ UNCHANGED <<runVars, connVars, todo, registryVars, watcherVars>>
  /\ Locally

\* do_CONNECT's finally clause: close_all(), registry.remove() and release().
CloseAll(h) ==
  /\ Running(h, "closing")
  /\ Terminate(h)
  /\ Goto(h, "removing")
  /\ UNCHANGED <<runVars, sinkVars, todo, registryVars, watcherVars>>
  /\ Locally

\* Mutant: a connection that add() refused does not give its place back.
RemoveRegistered(h) ==
  /\ Running(h, "removing")
  /\ conns' = conns \ {h}
  /\ slots' = IF h \in conns THEN slots + 1 ELSE slots
  /\ Goto(h, "ending")
  /\ UNCHANGED <<runVars, connVars, sinkVars, todo, killed, producers, watcherVars>>
  /\ Locally

Remove(h) ==
  /\ Running(h, "removing")
  /\ conns' = conns \ {h}
  /\ slots' = slots + 1
  /\ Goto(h, "ending")
  /\ UNCHANGED <<runVars, connVars, sinkVars, todo, killed, producers, watcherVars>>
  /\ Locally

\* handle()'s finally clause: end_producer().
EndProducer(h) ==
  /\ Running(h, "ending")
  /\ producers' = producers - 1
  /\ usable' = [usable EXCEPT ![h] = {}]
  /\ Goto(h, "gone")
  /\ UNCHANGED <<runVars, terminal, sockets, retained, sinkVars, todo, slots,
                 conns, killed, watcherVars>>
  /\ Locally

Handler(h) ==
  \/ BeginProducer(h) \/ Add(h) \/ Decide(h)
  \/ WrapClient(h) \/ OwnClient(h) \/ DecideInside(h)
  \/ AllocateAuth(h) \/ WriteAuth(h) \/ OpenUpstream(h)
  \/ AcquirePermit(h) \/ WritePermit(h) \/ Abandon(h) \/ CheckTerminal(h)
  \/ WriteAttempted(h) \/ Connect(h) \/ OwnUpstream(h)
  \/ SettleInterrupted(h) \/ DenyInterrupted(h) \/ SendRequest(h)
  \/ Stream(h) \/ WriteNext(h) \/ ReleasePermit(h) \/ WriteRelease(h)
  \/ WriteInternal(h) \/ CloseAll(h) \/ Remove(h) \/ EndProducer(h)

-----------------------------------------------------------------------------
(* serve(): startup, then the kill watcher.                                *)
WatcherAt(at, to) == wpc = at /\ wpc' = to

\* The steps of the watcher that leave everything but the listed group alone.
WatcherOnly == UNCHANGED <<runVars, connVars, handlerVars, registryVars>>

\* The IPv6 listener is unavailable: a degraded start is recorded first.
BootDegraded ==
  /\ wpc = "boot"
  /\ LET r == [decision |-> STARTUP_DEGRADED]
     IN  \/ Appends(r) /\ wpc' = "bind"
         \/ Raises(r) /\ wpc' = "exited"
  /\ UNCHANGED <<listener, victims, pending, torn, evidence, sample>>
  /\ WatcherOnly

(* STARTUP is durable before anything is accepted; a kill file that is     *)
(* already there closes the listener and cancels at once.  The process     *)
(* also ends when the accept loop does not come up.                        *)
Boot ==
  /\ wpc \in {"boot", "bind"}
  /\ LET r == [decision |-> STARTUP, max_connections |-> MaxConnections]
     IN  \/ /\ Appends(r)
            /\ \/ listener' = "closed" /\ wpc' = "cancelling"
               \/ listener' = "serving" /\ wpc' = "watching"
               \/ listener' = "closed" /\ wpc' = "exited"
         \/ /\ Raises(r)
            /\ wpc' = "exited"
            /\ UNCHANGED listener
  /\ UNCHANGED <<victims, pending, torn, evidence, sample>>
  /\ WatcherOnly

\* kill_watcher() polls and finds the file; it never looks back.
NoticeKillFile ==
  /\ WatcherAt("watching", "cancelling")
  /\ UNCHANGED <<listener, victims, pending, torn, evidence, sample, sinkVars>>
  /\ WatcherOnly

\* terminate_all(): the linearization point.
CancelRun ==
  /\ WatcherAt("cancelling", "killing")
  /\ Cancel
  /\ UNCHANGED <<connVars, sinkVars, handlerVars, registryVars, listener,
                 victims, pending, torn, evidence, sample>>

\* Close admission and take the registered connections, in one lock.
KillRegistry ==
  /\ WatcherAt("killing", "marking")
  /\ killed' = TRUE
  /\ victims' = conns
  /\ pending' = conns
  /\ conns' = {}
  /\ UNCHANGED <<runVars, connVars, sinkVars, handlerVars, slots, producers,
                 listener, torn, evidence, sample>>

\* Every victim is marked terminal before any handle is shut down.
MarkVictim ==
  /\ wpc = "marking"
  /\ \/ \E v \in pending :
          /\ BeginTermination(v)
          /\ pending' = pending \ {v}
          /\ UNCHANGED wpc
     \/ /\ pending = {}
        /\ wpc' = "shutting"
        /\ pending' = victims
        /\ UNCHANGED connVars
  /\ UNCHANGED <<runVars, sinkVars, handlerVars, registryVars, listener,
                 victims, torn, evidence, sample>>

ShutVictim ==
  /\ wpc = "shutting"
  /\ \/ \E v \in pending :
          /\ torn' = IF retained[v] \cap usable[v] # {} THEN torn \cup {v} ELSE torn
          /\ ShutdownRetained(v)
          /\ pending' = pending \ {v}
          /\ UNCHANGED wpc
     \/ /\ pending = {}
        /\ wpc' = "stopping"
        /\ UNCHANGED <<connVars, pending, torn>>
  /\ UNCHANGED <<runVars, sinkVars, handlerVars, registryVars, listener,
                 victims, evidence, sample>>

(* server.shutdown() asks the accept loop to end and waits for it, or      *)
(* raises.  A run killed at startup has no listener to stop.               *)
StopListener ==
  /\ WatcherAt("stopping", "requesting")
  /\ \/ /\ listener' = IF listener = "serving" THEN "stopping" ELSE listener
        /\ sample' = [sample EXCEPT !.started = TRUE]
     \/ listener = "serving" /\ UNCHANGED <<listener, sample>>
  /\ UNCHANGED <<victims, pending, torn, evidence, sinkVars>>
  /\ WatcherOnly

\* serve_forever() returns in its thread; then serve() closes the socket.
ListenerEnds ==
  /\ wpc # "exited"
  /\ \/ listener = "stopping" /\ listener' = "stopped"
     \/ listener = "stopped" /\ listener' = "closed"
  /\ UNCHANGED <<wpc, victims, pending, torn, evidence, sample, sinkVars>>
  /\ WatcherOnly

-----------------------------------------------------------------------------
(* record_linearization(): evidence, after enforcement.                    *)
WatcherWrite(r, ok, failed) ==
  \/ Appends(r) /\ wpc' = ok
  \/ Raises(r) /\ wpc' = failed

RecordRequested ==
  /\ wpc = "requesting"
  /\ listener \in {"stopped", "closed"} \/ ~sample.started
  /\ WatcherWrite([decision |-> CANCEL_REQUESTED, lifecycle_seq |-> C,
                   cancellation_epoch |-> cancellation.new_epoch],
                  "linearizing", "draining")
  /\ UNCHANGED <<listener, victims, pending, torn, evidence, sample>>
  /\ WatcherOnly

RecordLinearized ==
  /\ wpc = "linearizing"
  /\ wpc' = "draining"
  /\ LET r == [decision |-> CANCEL_LINEARIZED, lifecycle_seq |-> C,
               cancelled_epoch |-> cancellation.cancelled_epoch,
               new_epoch |-> cancellation.new_epoch,
               inflight_at_linearization |->
                 cancellation.inflight_at_linearization]
     IN  \/ Appends(r) /\ evidence' = TRUE
         \/ Raises(r) /\ UNCHANGED evidence
  /\ UNCHANGED <<listener, victims, pending, torn, sample>>
  /\ WatcherOnly

-----------------------------------------------------------------------------
(* cancel_and_quiesce(): drain, count, disposition, seal.                  *)

\* wait_for_drain(timeout): its result is not used, the count is read again.
AwaitDrain ==
  /\ WatcherAt("draining", "listening")
  /\ Drained \/ MayTimeOut
  /\ UNCHANGED <<listener, victims, pending, torn, evidence, sample, sinkVars>>
  /\ WatcherOnly

\* Mutant: a wait for the listener that returned is taken for its end.
AwaitListenerAssumed ==
  /\ WatcherAt("listening", "quiescing")
  /\ listener = "closed" \/ MayTimeOut
  /\ sample' = [sample EXCEPT !.stopped = TRUE]
  /\ UNCHANGED <<listener, victims, pending, torn, evidence, sinkVars>>
  /\ WatcherOnly

\* listener_closed.wait(timeout)
AwaitListener ==
  /\ WatcherAt("listening", "quiescing")
  /\ listener = "closed" \/ MayTimeOut
  /\ sample' = [sample EXCEPT !.stopped = (listener = "closed")]
  /\ UNCHANGED <<listener, victims, pending, torn, evidence, sinkVars>>
  /\ WatcherOnly

\* Mutant: the producers are awaited without a timeout.
AwaitProducersForever ==
  /\ WatcherAt("quiescing", "sampling")
  /\ producers = 0
  /\ UNCHANGED <<listener, victims, pending, torn, evidence, sample, sinkVars>>
  /\ WatcherOnly

\* wait_for_producer_drain(timeout)
AwaitProducers ==
  /\ WatcherAt("quiescing", "sampling")
  /\ producers = 0 \/ MayTimeOut
  /\ UNCHANGED <<listener, victims, pending, torn, evidence, sample, sinkVars>>
  /\ WatcherOnly

\* inflight_count(), then producer_count(), under two different locks.
SamplePermits ==
  /\ WatcherAt("sampling", "counting")
  /\ sample' = [sample EXCEPT !.permits = Cardinality(inflight)]
  /\ UNCHANGED <<listener, victims, pending, torn, evidence, sinkVars>>
  /\ WatcherOnly

\* Without durable cancellation evidence nothing more is written.
SampleProducers ==
  /\ WatcherAt("counting", IF evidence THEN "kill_switch" ELSE "done")
  /\ sample' = [sample EXCEPT !.producers = producers]
  /\ UNCHANGED <<listener, victims, pending, torn, evidence, sinkVars>>
  /\ WatcherOnly

listener_down == sample.stopped /\ sample.started

blockers ==
  (IF sample.permits # 0 THEN {"EFFECT_PERMITS_REMAIN"} ELSE {}) \cup
  (IF sample.producers # 0 THEN {"AUDIT_PRODUCERS_REMAIN"} ELSE {}) \cup
  (IF ~listener_down THEN {"LISTENER_NOT_STOPPED"} ELSE {})

quiescent == blockers = {}

DrainRecord(decision) ==
  [decision |-> decision, lifecycle_seq |-> C, cancellation_epoch |-> epoch,
   local_drain_complete |-> quiescent,
   inflight_remaining |-> sample.permits + sample.producers,
   effect_permits_remaining |-> sample.permits,
   audit_producers_remaining |-> sample.producers,
   listener_state |-> IF listener_down THEN "STOPPED" ELSE "NOT_STOPPED",
   terminated_conn_ids |-> torn, registered_at_kill |-> victims,
   closure_blockers |-> blockers]

RecordKillSwitch ==
  /\ wpc = "kill_switch"
  /\ WatcherWrite(DrainRecord(KILL_SWITCH),
                  IF quiescent THEN "acking" ELSE "timing_out", "done")
  /\ UNCHANGED <<listener, victims, pending, torn, evidence, sample>>
  /\ WatcherOnly

RecordDrainTimeout ==
  /\ wpc = "timing_out"
  /\ WatcherWrite(DrainRecord(CANCEL_DRAIN_TIMEOUT), "done", "done")
  /\ UNCHANGED <<listener, victims, pending, torn, evidence, sample>>
  /\ WatcherOnly

RecordAck ==
  /\ wpc = "acking"
  /\ WatcherWrite(DrainRecord(CANCEL_ACK), "sealing", "done")
  /\ UNCHANGED <<listener, victims, pending, torn, evidence, sample>>
  /\ WatcherOnly

SealRun ==
  /\ WatcherAt("sealing", "done")
  /\ LET r == [decision |-> RUN_CLOSED, closure_sequence |-> C,
               inflight_remaining |-> 0, effect_permits_remaining |-> 0,
               audit_producers_remaining |-> 0, listener_state |-> "STOPPED"]
     IN  Seals(r) \/ Raises(r)
  /\ UNCHANGED <<listener, victims, pending, torn, evidence, sample>>
  /\ WatcherOnly

\* serve() returns; the handler threads that are left die with the process.
Exit ==
  /\ WatcherAt("done", "exited")
  /\ listener = "closed"
  /\ UNCHANGED <<listener, victims, pending, torn, evidence, sample, sinkVars>>
  /\ WatcherOnly

Watcher ==
  \/ CancelRun \/ KillRegistry \/ MarkVictim \/ ShutVictim \/ StopListener
  \/ RecordRequested \/ RecordLinearized \/ AwaitDrain \/ AwaitListener
  \/ AwaitProducers \/ SamplePermits \/ SampleProducers \/ RecordKillSwitch
  \/ RecordDrainTimeout \/ RecordAck \/ SealRun \/ Exit

Next ==
  \/ \E h \in Attempts : Accept(h) \/ ReadRequest(h) \/ Refuse(h) \/ Handler(h)
  \/ BootDegraded \/ Boot \/ NoticeKillFile
  \/ ListenerEnds \/ Watcher

Spec == Init /\ [][Next]_vars

(* A wait that a client can stretch without end: _read_head(), and the     *)
(* read loop of _deny_tls() before its record, have a timeout for each     *)
(* recv() and none for the loop.  A shutdown of the socket ends them.      *)
AwaitsClient(h) ==
  /\ "tls" \in usable[h]
  /\ \/ pc[h] \in {"inside", "denying"}
     \/ pc[h] = "writing" /\ todo[h] = <<BLOCKED>>

(* The threads keep running: a socket call ends by IDLE_TIMEOUT and the    *)
(* relay by TOTAL_TIMEOUT, the watcher's waits by CANCEL_DRAIN_TIMEOUT, the*)
(* accept loop polls.  Nothing is assumed of clients (Accept, ReadRequest, *)
(* AwaitsClient) or of the operator (NoticeKillFile).                      *)
FairSpec ==
  /\ Spec
  /\ WF_vars(Watcher)
  /\ WF_vars(ListenerEnds)
  /\ \A h \in Attempts : WF_vars(Handler(h) /\ ~AwaitsClient(h))

-----------------------------------------------------------------------------
\* Where a handler can be.
Positions ==
  {"none", "accepted", "reading", "adding", "deciding", "wrapping", "client_tls",
   "inside", "authorizing", "auth", "opening", "permitting", "permit", "abandoning",
   "checking", "attempt", "connecting", "upstream_tls", "interrupted", "denying",
   "sending", "streaming", "writing", "releasing", "release", "internal", "closing", "removing", "ending",
   "gone"}

(* Shape of the state that is the gateway's own.                           *)
GatewayTypeOK ==
  /\ RunTypeOK /\ VerifyTypeOK
  /\ pc \in [Attempts -> Positions]
  /\ \A h \in Attempts : pc[h] = "writing" <=> todo[h] # <<>>
  /\ slots \in 0..MaxConnections
  /\ producers \in 0..Cardinality(Attempts)
  /\ conns \subseteq Attempts /\ torn \subseteq victims
  /\ listener \in {"off", "serving", "stopping", "stopped", "closed"}

\* The handlers that touch the target, from connect to the last byte.
Effecting == {h \in Attempts :
                pc[h] \in {"connecting", "upstream_tls", "sending", "streaming"}}

(* Intent, permit and attempt are durable before the first target effect,  *)
(* and the permit is in flight for as long as the effect lasts, whatever   *)
(* fails or is cancelled meanwhile ("fsynced before connect runs").        *)
EffectNeedsEvidence ==
  \A h \in Effecting : {AUTH, PERMIT, ATTEMPTED} \subseteq logged[h] /\ h \in inflight

\* terminate_all() has shut down every handle it retained.
Enforced == wpc \notin {"boot", "bind", "watching", "cancelling", "killing",
                        "marking", "shutting"}

(* Once enforcement is complete no handler reaches its target: none        *)
(* connects and none sends a request, not even one that was past every     *)
(* check, in connect or in a TLS handshake, when the kill switch ran.      *)
NoEffectAfterEnforcement ==
  [][\A h \in Attempts :
       /\ pc[h] = "connecting" /\ pc'[h] = "upstream_tls" => ~Enforced
       /\ pc[h] = "sending" /\ pc'[h] = "streaming" => ~Enforced]_vars

(* A sealed log means a quiet gateway: nothing in flight, no audit         *)
(* producer, the listener closed and no handler that could still append    *)
(* or still holds an upstream socket ("drain every producer, then seal").  *)
ClosedMeansQuiet ==
  sealed => /\ inflight = {} /\ producers = 0 /\ listener = "closed"
            /\ \A h \in Attempts : /\ pc[h] \in {"none", "accepted", "gone"}
                                   /\ {"plain", "up"} \cap usable[h] = {}

(* A history the verifier accepts, sealed or not, is that of a gateway that*)
(* is quiet: no drain wait that timed out, no sample taken while a handler *)
(* went on and no record that failed on its way to disk makes a run with   *)
(* work still going on look closed.                                        *)
ValidMeansQuiet ==
  Valid => inflight = {} /\ producers = 0 /\ Effecting = {} /\ listener = "closed"

(* The history of a sealed run is accepted by the verifier, and the ways   *)
(* it may not be are these six: no attempt was ever authorised, an         *)
(* EFFECT_ATTEMPTED lost its race with the cancellation records, an        *)
(* exception left an authorised attempt without an outcome, an ALLOW       *)
(* repeats a request its client did not spell canonically, the gateway was *)
(* configured with no places at all, or an os.open() failure lost a record *)
(* without latching the sink.  Four of them break a promise of the         *)
(* documents (SealedRunIsValid, at the end of this module).                *)
SealedHistoryVerifies ==
  sealed =>
    \/ FinalStatus \in {"LOCAL_HISTORY_VALID", "NO_LIFECYCLE_RECORDS",
                        "POST_CANCELLATION_EFFECT"}
    \/ /\ FinalStatus = "INCOMPLETE_ATTEMPT"
       /\ \E h \in Attempts : raised[h] /\ vatt[h].state = "AUTHORIZED"
    \/ /\ vstatus \in {"BINDING_MISMATCH", "CONNECTION_TERMINATED_BINDING_MISMATCH"}
       /\ \E h \in Attempts : spelling[h] # Canonical
    \/ vstatus = "CONTEXT_BINDING_MISMATCH" /\ MaxConnections = 0
    \/ openFaults < OpenFaults

(* Places of the semaphore and producers are given back on every way out,  *)
(* exceptions included: neither leaks nor underflows.                      *)
AdmissionAccounting ==
  /\ slots = MaxConnections - Cardinality(
       {h \in Attempts : pc[h] \notin {"none", "accepted", "reading",
                                       "ending", "gone"}})
  /\ producers = Cardinality(
       {h \in Attempts : pc[h] \notin {"none", "accepted", "gone"}})

(* The kill switch reaches its disposition although clients may idle in    *)
(* their connections for ever.                                             *)
KillCompletes == wpc = "cancelling" ~> wpc \in {"done", "exited"}

(* Every permit is released, or dies with the process, unless its client   *)
(* keeps a denial from ending for ever; once the kill switch has shut the  *)
(* sockets down not even that can hold it back.                            *)
PermitsDrain ==
  \A h \in Attempts :
    /\ \/ h \in inflight ~> h \notin inflight \/ wpc = "exited"
       \/ <>[]AwaitsClient(h)
    /\ h \in inflight /\ Enforced ~> h \notin inflight \/ wpc = "exited"

-----------------------------------------------------------------------------
(* Claims of the documents that the code does not keep.                    *)

(* E10_V2_TRANSITION_SPEC.md, of gateway-produced histories: every attempt *)
(* has "exactly one" terminal transition, every permit "exactly one durable*)
(* release before ACK or RUN_CLOSED", ALLOW equals the authorized facts and*)
(* nothing but "remaining terminal/release records" follows the            *)
(* cancellation.  So the verifier of that grammar accepts what the gateway *)
(* seals, or finds that nothing was ever authorised.                       *)
SealedRunIsValid ==
  sealed => FinalStatus \in {"LOCAL_HISTORY_VALID", "NO_LIFECYCLE_RECORDS"}

(* F03_F02_LIFECYCLE_DESIGN.md: "Connect/TLS/send/stream interruption      *)
(* after EFFECT_ATTEMPTED is conservatively EFFECT_OUTCOME_UNKNOWN".       *)
InterruptedStreamIsUnknown ==
  [][\A h \in Attempts :
       pc[h] = "streaming" /\ "up" \notin usable[h] /\ pc'[h] = "writing"
         => Head(todo'[h]) = UNKNOWN]_vars
=============================================================================
