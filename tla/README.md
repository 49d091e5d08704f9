# TLA+ models of the secure execution pipeline

The repository puts an untrusted research agent behind a policy enforcement
point: every connection the agent makes is intercepted, decided on by a policy
decision point, executed on its behalf, and written to a hash-chained audit log
that a separate verifier later judges. A release gate runs the whole pipeline and
decides from the evidence it left. These modules model the pipeline and the gate,
check them with TLC on small instances, and prove their central invariants with
TLAPS for every size.

## The system

| Part | Source | State | Operations |
|---|---|---|---|
| Permit lock | `pep/lifecycle.py` `RunContext` | epoch, cancelled flag, one sequence counter, permits in flight, the frozen cancellation | `authorize`, `issue_permit`, `_release`, `cancel`, `wait_for_drain` |
| Effect gate | `pep/lifecycle.py` `EffectGate`, `EffectPermit` | none of its own; writes lifecycle records | `commit_intent`, `acquire_permit`, `mark_attempted`, `settle`, `release`, `abandon_undurable` |
| Connection lifecycle | `pep/lifecycle.py` `ConnectionLifecycle` | terminal flag, owned sockets, sockets retained for teardown | `track_or_reject`, `transfer`, `begin_termination`, `shutdown_retained`, `terminate` |
| Gateway | `pep/gateway.py` | registry of connections, semaphore, producer count, killed flag, listener | `handle`, `do_CONNECT`, `_connect_flow`, `_inside`, `terminate_all`, `cancel_and_quiesce`, `kill_watcher`, `serve` |
| Audit log | `pep/audit.py` | the file, the chain tail, health latch, seal | start and recovery, `write`, `seal_with`, `verify`, `close` |
| Decision point | `pep/pdp.py`, `pep/addressing.py`, `pep/resolver.py` | budget counters; the policy file is re-read at every call | `decide`, `Budgets.reserve` |
| History verifier | `pep/verify_e10.py` | the variables of one scan | one record per iteration, final verdict |
| Close anchor | `pep/e10_anchor.py`, `verify()` | the anchor file | `build_anchor`, `write_anchor`, `verify` |
| Phase 2 harness | `phase2a/policy_gw.py`, `phase2b/policy_gw_tls.py` | budget counters, `_live` set of sockets, `armed` | `pdp`, `do_CONNECT`, `_intercepted`, `kill_watcher` |
| Release gate | `pep/run_dualstack_gate.sh` | the phase, the flags ARM_KILL and STOP_ALL, the ARM_KILL loop, the collected files | two client phases, removal of the flags, collection, verification, verdict |
| Acceptance clients | `pep/pep_client.py`, `pep/ipv6_transport.py` | what each probe saw, the drip thread's bytes | tunnels, raw connects, drip and arming, writing the artifacts |
| Evidence auditors | `pep/verify_layerb_audit.py`, `pep/verify_pp18.py`, `pep/stamp_artifacts.py`, `pep/ipv6_acceptance.py`, `pep/audit_gate_evidence.py` | none of their own; they read the log and the artifacts | B8 and B9, PP18, binding of artifacts, E1 to E9 |
| Targets, adversaries, CA, release verifier | rest of `pep/`, `phase2*/` | none between steps, or files only | not modelled, see below |

How they meet: a handler thread asks the decision point three times (for the
tunnel, for the request inside it, and again after its intent is durable), takes
a permit from the lock, writes a record before and after each step of an
attempt, and hands each socket to its connection lifecycle. The kill watcher
shares the lock, the registry, the sockets and the audit log with all handlers.
The verifier shares nothing but the file. In the gate, the script, the loop that
turns ARM_KILL into STOP_ALL, the clients and the gateway's watcher are ordered by
nothing but the existence of files, bounded waits and a client's return; the
auditors read the log while the gateway may still be writing it.

What is hard: cancellation against handlers in any position, ownership of a
socket across a TLS wrap, audit writes that fail between two records of one
attempt, two counts read under two locks before a seal, a policy file replaced
between decisions, crashes inside a record, a verifier that must accept every
order the gateway can produce and nothing else, and a gate whose kill, clients and
auditors race, and whose probes may have measured nothing. PROJECT.json lists each of
these under "hazards", at its line.

## The modules

| Module | Models | Built on |
|---|---|---|
| `Lifecycle` | record names, terminal outcomes | |
| `RunContext` | the permit lock; an action is one critical section. Also the abstract specification that `Gateway` implements (`RunSpec`) | `Lifecycle` |
| `VerifyE10` | `_validate_history`: the scan's variables, one action per record kind, each an ordered list of checks | `Lifecycle` |
| `ConnectionLifecycle` | operators on one connection's sockets | |
| `ConnectionThreads` | handler thread and kill thread on those sockets, one socket call per step | `ConnectionLifecycle` |
| `AuditSink` | what `write` and `seal_with` promise a running gateway: append or raise | `VerifyE10` |
| `Gateway` | handlers, registry, kill switch, startup | `RunContext`, `ConnectionLifecycle`, `AuditSink` |
| `AuditLog` | the file, its writers, faults, crashes, power loss, restarts | |
| `Anchor` | the control plane's anchor and `verify()` over that file | `AuditLog` |
| `Pdp` | the three decisions of a connection, address classes, reservation, policy reload | |
| `PolicyGwTls` | the Phase 2b harness with Phase 2a's `pdp()` | |
| `Evidence` | the auditors as functions of the log and the artifacts | |
| `Gate` | the gate script with its clients, its ARM_KILL loop and the gateway's kill | `Evidence` |
| `RunContextProofs`, `ConnectionThreadsProofs`, `PdpProofs`, `PolicyGwTlsProofs`, `VerifyE10Proofs`, `GateProofs` | theorems | the module named |
| `AnchorProofs` | theorems about the log and its anchor | `Anchor` |
| `GatewayProofs` | theorems about the gateway, composed with the lock's and the validator's | `Gateway`, `RunContextProofs`, `VerifyE10Proofs` |
| `MC...` | constants for TLC; `MCVerifyE10` also the stream of arbitrary records | |

Notes on correspondence:

* **One history, two readers.** `Gateway` hands each appended record to
  `VerifyE10` as it is written, so the state of the scan is the log as the
  verifier will judge it. "The gateway's sealed history is valid" is then a
  state invariant over both components.
* **Sockets.** A connection has up to four handles: `raw`, its wrapper `tls`,
  `plain`, its wrapper `up`. `wrap_socket()` detaches the wrapped object at the
  start of the handshake (external, CPython), so the old object is dead and the
  new one is not registered until `transfer()`.
* **Data.** Hosts, methods, digests and credentials are abstracted to what a
  comparison can tell apart. `spelling` keeps one distinction: AUTH stores
  normalised facts and ALLOW repeats them as the client sent them.
* **The kill file** may come and go at any moment; in `Gateway` each check of
  it is a free choice, in `PolicyGwTls` it is a variable because the watcher's
  latch depends on it.
* **The audit log** keeps lines as a reader finds them: whole, without their
  newline, partial, or merged with a later append.
* **The policy** of `Pdp` is an element of a constant set; `Reload` replaces it
  between any two steps, and each decision works on the copy it read.
* **An address** of `Pdp` is a family, a class, an identity and the addresses it
  embeds. `unwrap_embedded_v4` and `classify` are the code's; host names and
  wildcards are abstracted to membership of a set.
* **`Gate` reduces the gateway** to what its auditors can see: the two
  connections of the kill rows (PP18 and B6), the snapshot the kill takes of the
  registry, and the records that carry a row. A probe's tunnel and its record are
  one step. A kill row's last record is one `OUTCOME`, because a cut relay may
  look like a finished one and no auditor tells ALLOW from
  CONNECTION_TERMINATED for those rows. The 16 regression rows before PP18 are one
  outcome; so is the B7 harness, with three values.
* **Artifacts of `Gate`** arrive with any `run_id` and `run_id_source` of a set of
  claims, file by file: the sandbox wrote both fields. A refused or failed collect
  leaves no copy, a failed stamp leaves the file as it came.
* **A connection of `Gateway` makes one attempt**, as `_connect_flow` closes the
  client's connection after it; denied requests before that are repeated.

## The runs

| Run | Bounds | Shows |
|---|---|---|
| `verify` | two attempts, numbers 1..5; or one attempt, any one field wrong, numbers 1..4 | an accepted history is settled and is one the permit lock can produce (`RunContext` instantiated over the scan); a verdict is not taken back |
| `connection` | two connections | after the kill thread's shutdown every owned handle is dead, no request leaves, and teardown ends |
| `gateway_kill` | two handlers, no faults | the numbers the handlers draw from the lock are unique and satisfy A < P < R and A, P below C; the frozen count is the permits with P < C < R; no effect after enforcement; a sealed log means a quiet gateway; places and producers balance |
| `gateway_progress` | one handler, one failed write, one failed open, expiring waits, odd spelling | the gateway implements the permit lock (`RunSpec`), cancellation is final in it; no effect without durable intent, permit and attempt; a sealed history verifies, up to six named exceptions; what the verifier accepts is the history of a quiet gateway (`ValidMeansQuiet`), also after a drain that timed out; the kill switch ends; a permit drains unless its client stretches a denial for ever, and after the kill switch's shutdown in any case |
| `audit_log` | two writers, four records, all faults but the newline tear | acknowledged records survive, the chain never forks, damage is preserved, the seal is for ever; a PROVEN verdict is for ever once `write_anchor()` has returned. The anchor is issued in four system calls, its issuer may fail between any two, and a power loss may take what is not synced |
| `pdp` | two connections, four policies, names that answer in two families, forbidden addresses, and IPv6 addresses that embed a loopback or a private one | no overshoot, one charge per connection, a permitted destination is authorised by the last policy read, one program and generation throughout; an injected credential was granted to the charged program for this asset and destination under the recheck's generation, and the recheck still grants one |
| `policy_gw_tls` | two connections, a program cap and an asset cap of 2 | the overshoot of check-then-charge is bounded by the number of handlers, one address per connection, what `_live` misses, swept streams end |
| `gate` | one odd outcome anywhere (`Faults = 1`), waits and connects that may run out of time, a host that an injected route opens, a Layer B file that may arrive with this run's id, under the sandbox's or the control plane's name | a PROVEN kill row names a connection that was registered at the kill; a full Layer B needs an IPv6 listener, a stream that was live when it was torn down, and a sandbox that is contained or whose every leaking connect ran out of its 3 s; PASSED needs both kill rows, host evidence for UDP, and artifacts that arrived without a run_id, but for one that missed its stamp and claims the control plane's binding; binding twice is harmless but for that one |
| `sealed_run`, `interrupted`, `audit_newline`, `gate_release` | one handler; one handler; three records; the gate with no fault and every wait long enough | violations, below |

Why the bounds are enough for these questions: each handler interacts with the
others only through the lock, the registry and the log, and each property
speaks of one attempt, one pair or one count; two handlers give every pair of
positions, and one kill switch exists per process. The validator's checks
compare at most two records of an attempt and one of the run; five numbers give
A, P, R of one attempt, C, and one number of the other on either side. The audit
log needs a record before, at and after a fault, and a closure. The gate has one
gateway and two kill rows by construction; a false certificate would have to come
from one odd outcome that the other checks do not notice, and the races between
the loop, the watcher and the script cost no fault. One labelled artifact is
enough, as one odd outcome can miss one stamp; it is the Layer B file because that
is the one the host binds twice. Its host is one that an injected
route opens: when the connect that would show this runs out of its time, the client
sees what it sees on a contained host, so both kinds of observation occur. A bound that
limits what the code may do (`IoFaults`, `OpenFaults`, `MaxRecords`, `MaxSeq`,
`Faults`) is a named constant. Symmetry is used only in runs without liveness.
`CHECK_DEADLOCK FALSE` stands where the modelled process exits or the stream of
records ends.

Fairness. `FairSpec` of `Gateway` assumes weak fairness of the watcher, of the
accept loop and of each handler: socket calls end by `IDLE_TIMEOUT`, the relay
by `TOTAL_TIMEOUT`, the watcher's waits by `CANCEL_DRAIN_TIMEOUT`. Nothing is
assumed of clients, which may idle in a kept-alive connection for ever, or of
the operator. Two loops of a handler are bounded per `recv()` only, the one that
reads the request head and the one in which `_deny_tls()` drains its client
(gateway.py lines 727-732). While it is in one of them (`AwaitsClient`) a handler
is not assumed to go on, until a shutdown of its socket ends the loop.
`ConnectionThreads` assumes the same of handlers, with `Draining` for the
second loop.
`Gate` states no liveness: the read loops of `tunnel()` and `tunnel6()` have a
timeout for each `recv()` and none for the loop, and `docker exec` and the B7
harness have none at all, so the code does not promise that the gate ends.
In `PolicyGwTls` sockets have no such limits, so only steps that wait for no
peer are fair: the watcher's teardown and a handler whose socket is gone.

## Disagreements between documents and code

Each has a run that TLC refutes, and a finding in PROJECT.json.

* `sealed_run`: a sealed run need not satisfy the grammar of
  `E10_V2_TRANSITION_SPEC.md`. Of the six exceptions that `SealedHistoryVerifies`
  names, four contradict a document, and each is a counterexample (the last two
  with a failed open and with an odd spelling allowed, which this run does not);
  TLC prints the shortest, the first.
  * The upstream's TLS context is built after AUTH_COMMITTED is durable and outside
    every `try` that settles (gateway.py line 543). When that raises, the attempt has
    no outcome, the run is acknowledged and sealed, and the verifier answers
    INCOMPLETE_ATTEMPT; `F03_F02_LIFECYCLE_DESIGN.md` lines 78-81 want every
    terminal record durable before the acknowledgement.
  * Cancellation can be recorded between `is_terminal()` and EFFECT_ATTEMPTED
    (gateway.py lines 581-590); the verifier answers POST_CANCELLATION_EFFECT, against
    `E10_V2_TRANSITION_SPEC.md` line 98.
  * `os.open()` is outside the `try` that latches the sink (`audit.py` line 232), so
    a lost PERMIT_RELEASED does not stop the acknowledgement and the seal;
    `E10_V2_TRANSITION_SPEC.md` lines 74-76 say the sink is then latched and neither
    is written.
  * A request with a lower-case method is executed, and its ALLOW does not match its
    AUTH_COMMITTED, against `E10_V2_TRANSITION_SPEC.md` lines 35-37.
* `interrupted`: a relay cut by the kill switch reads as the end of the response
  and is recorded EFFECT_COMPLETED and ALLOW.
* `audit_newline`: a record torn exactly before its newline is accepted at
  restart and the next, acknowledged, record is glued to it.
* `gate_release`: the first phase's kill ends the only gateway process, and the
  second phase runs against the same gateway. On a contained host where nothing
  fails, the gate ends NOT PASSED, although `RUN_ON_YOUR_HOST.md` lines 86-97
  describe a pass of this script.

Noted while modelling, without a run of their own:

* The recheck compares generations, not secrets. A policy that
  replaces a secret and keeps its generation (one without `policy_generation`
  falls back to `verified_at`, and the policies in the repository have none)
  passes, and the replaced secret is injected, although the comment at gateway.py
  lines 516-518 says credential changes are detected. The run `pdp` has such
  policies; `CredentialStaysBound` says what holds of the injected secret all the
  same.
* The sweep of the Phase 2b watcher misses an upstream between
  `create_connection()` and `track()`, and the wrapper of a handshake under way,
  although its docstring says "tear down every live socket". A connection made
  after the sweep lives on. `Escapes` of `PolicyGwTls` lists, stage by stage, the
  open sockets that are not in `_live`.
* E8 reads `run_id_source` from the artifact. A file that the sandbox labelled
  with this run's id and the control plane's name passes when its stamp was
  missed, which the script ignores; `stamp_artifacts.py` lines 18-19 say it fails
  E8. `VerdictIsSupported` and `HonestArtifactsBind` name the case.
* After CANCELLATION_DRAIN_TIMEOUT handlers still write
  (`E10_V2_TRANSITION_SPEC.md` line 121 says nothing may follow a disposition).
  Nothing is sealed in that case, and nothing is accepted (`ValidMeansQuiet`).
* With `PEP_MAX_CONNECTIONS=0` the gateway starts, refuses every connection and can
  be sealed, but the verifier refuses its STARTUP (`verify_e10.py` line 377): one
  of the six exceptions of `SealedHistoryVerifies`. The runs have places; the proof
  of `SealedVerifies` met it.
* A handshake under way holds a usable descriptor that nobody owns, although
  `F03_F02_LIFECYCLE_DESIGN.md` line 72 says there is none. It is harmless:
  `transfer()` closes it (`OwnedHandlesDie`, `TeardownCompletes`).
* A torn last line makes `verify()` fail and the restarted writer refuses to
  serve; `audit.py` line 10 and `PEP_REPORT.md` line 113 say it re-anchors.
* STARTUP_FAILED is never written: `startup_verify()` fails only when the sink
  is unhealthy, and then the write is refused.
* The verifier accepts a history without a STARTUP record.
* In the run `gate` PASSED is reachable only when the first phase's kill is
  missed (the flags are removed before the gateway polls) and the PP18
  connection outlives the join of its client, so that the second phase's kill
  tears both connections down.
* `audit_gate_evidence.py` lines 42-43 and the E8 row of `DUALSTACK_ENV.md` call
  `b6_client.json` advisory, but B9's NO_LIVE_STREAM_BEFORE_KILL reads it.
* The Phase 2b watcher leaves the detached socket of a failed upstream handshake
  in `_live`. Phase 2a's budget can be passed by one request per other handler
  (`OvershootBounded`).
* When the denial after TERMINAL_DURING_TLS cannot be recorded, the `except
  Exception` at gateway.py line 624 settles the attempt UNKNOWN a second time
  (`DenyInterrupted`). Only a failed `os.open()` lets that second record through, so
  it is part of the third of the ways of `sealed_run`.
* An anchor file torn between `O_EXCL` and the last `os.write()` stays: no later
  `write_anchor()` replaces it.

## What is proved

The proofs are for any sets given as constants, finite or infinite where no
assumption says otherwise, and for histories, logs and executions of any length.

### The gateway

* **The permit lock** (`RunContextProofs`): `SequencesUnique`,
  `SequencesOrdered`, `LinearizedCount`, `PermitsOutstanding`,
  `CancellationFinal`, `RunTypeCorrect`. They rest on `RunInvariant`: the listed
  invariants are not inductive one by one. The order of numbers needs every number
  to be at most the counter, uniqueness needs that a fresh number is above all
  used ones, and the frozen count needs the permits in flight at C to be exactly
  those with P < C that have no release or one after C.
* **The gateway implements it** (`GatewayProofs`, `GatewayImplementsLock`: `Spec
  => RunSpec`). Each of the handler's and the watcher's steps is an action of the
  lock or a stutter, so the invariants of the lock are facts about the gateway
  (`GatewayKeepsEquations`, `GatewayCancelsForGood`).
* **Places and evidence**: `AdmissionIsAccounted` rests on `AdmissionInv`, which
  says which positions hold a place and which are producers; it needs
  `MaxConnections` to be a number and nothing else. `EffectsHaveEvidence` rests
  on `EvidenceInv`: the records each position has behind it, and which positions
  hold a permit.
* **Enforcement**: `EnforcementIsComplete` rests on `EnforceInv`. A handler's
  position determines the handles it owns or is wrapping; the watcher's position
  determines which victims are marked and which are shut down; a handler in its
  flow is registered, and once the kill has begun it is a victim. So whoever could
  still connect or send owns only handles that are dead.
* **Quiet at the seal**: `ClosedIsQuiet`, `ValidIsQuiet`. `QuietInv` follows the
  watcher: from each of its positions on, what it sampled stays true (no
  permit after cancellation, no producer after the listener has closed and the
  count was zero), and a closed history exists only for a gateway at rest.
* **A sealed history verifies**: `SealedVerifies`, the converse of `ValidIsQuiet`.
  Every check of every branch of the validator must succeed on the gateway's
  records, in all orders of handlers and watcher. `TrackInv` says that while no
  record was lost (`OnTrack`), each attempt's entry in the scan is the one its
  handler's position implies, and whether an exception brought it there (`Fits`:
  state, numbers, request facts), the run state
  is the one the watcher's position implies (`RunFits`), and the numbers the scan
  has seen are those the lock has put on disk (`UsedInv`). `PathInv` supplies what
  the control flow guarantees, such as that a number is drawn only by a request
  committed in epoch 0. There is one lemma per kind of record, each resting on the
  validator's acceptance lemma for that kind. An attempt that an exception left
  without outcome is refused as INCOMPLETE_ATTEMPT by the first record that asks
  for settled attempts (`InterruptedTracked`, `IncompleteIsRefused`), and with
  the other five cases that is all that can go wrong. Assumptions: the fault bounds and
  `MaxConnections` are numbers, one attempt per connection.
* **Shape**: `GatewayTypeCorrect`, with the hypothesis that the set of handlers is
  finite (the producer count is a cardinality). `ServeInv` adds to `AdmissionInv`
  how the listener and the victims follow the watcher.

### The validator

* `VerifyE10Proofs`: `ValidIsSettled`, `ValidIsALockHistory`, `FinalVerdict`, for
  every sequence of records that `_schema_error` lets through (`WellFormed`: ids
  are there, sequence numbers are positive). `HistoryInv` has five parts: the
  shape of the entries, what each state of an attempt says of its entry, who owns
  which number and in which order, what each run state says of the cancellation,
  and the count. There is one lemma per kind of record, and one
  (`FaultsAreFailures`) that turns "no status was returned" into "no check of the
  ordered list failed".
* `HistoryTypeCorrect`: the scan keeps its shape and its verdict is one of
  `Statuses`. For each kind of record the gateway writes a lemma says when it is
  accepted, and for those it can have refused with which status; once refused a
  history stays refused (`RefusedStays`). The gateway's proofs use these.
* **Composition** (`GatewayWritesHistories`: `Spec => HistorySpec`): every record
  the gateway appends is well formed, so the theorems about the validator hold of
  the gateway's log (`GatewayHistoriesAreSound`).

### The audit log and its anchor

* `AnchorProofs`: `AcksSurvive`, `ServingExtends`, `DamageStops`, `SealHolds` of
  `LogSpec`; `AnchorKeepsTheLog` (`AnchorSpec => LogSpec`) and `ProvenHolds`.
  `LogInv` relates three versions of the log: what is on disk, what is synced, what
  the one writer remembers. Acknowledged records are in the synced part, which is
  intact; a healthy writer's tail is the file's; a closure is the last line.
  `AnchorInv` adds that an issued anchor is whole and that its issuer is not
  under way; a verdict from a file not yet synced is outside `ProvenHolds`, as a
  power loss may take it.
  Hypothesis: no record is torn exactly before its newline
  (`"newline" \notin Faults`). Run `audit_newline` shows that it is needed.

### Decisions and budgets

* `PdpProofs`: `BudgetsHold`, `ChargedOnce`, `AuthorityIsOne`, `DestinationHolds`,
  `CredentialHolds`. The invariant says, for each stage, which copies of the policy
  the connection has read and what each of them granted, so a reload between two
  decisions cannot mix them. A reservation compares and charges in one step, so the
  counter it raises stays within the cap of the copy read. Assumptions: caps
  are numbers or absent (`CapsAreNumbers`), the connections are finitely many
  (`ConnsAreFinite`), an address has one class, only IPv6 embeds, and answers are of
  the family they were asked for (`AddressAssumption`). `CredentialHolds`
  assumes nothing of generations, and says what the code does guarantee: whose
  credential is injected, where and under which generation, not that it is the
  newest.
* `PolicyGwTlsProofs`: `BudgetOvershoot`, `AddressFixed`, `RegistryExact`. The
  overshoot is bounded because each request over the cap belongs to a handler that
  was between its check and its charge: the invariant bounds the counter plus those
  handlers. `RegistryExact` names what escapes `_live` at each stage of a handler
  (`Escapes`). Assumption: `HandlersAreFinite`.

### Sockets of one connection

* `ConnectionThreadsProofs`: `HandlesDie`, `NoLateRequest`. The invariant is that
  a handler's stage determines which handles it owns or is wrapping, that a
  marked connection retains all it owns, and that a connection shut down owns
  nothing usable. `NoLateRequest` follows: a request needs an owned, usable `up`.

### The release gate

* `GateProofs`: `KillRowsAreReal`, `LayerBIsReal`, `PassIsReal`,
  `BindingIsHarmless`, for any number of odd outcomes (`Faults`), any claims the
  artifacts may carry, any egress and waits that may or may not expire; the run
  covers one odd outcome. A connect that ran out of its 3 s is remembered
  (`expired`), because it looks like a blocked one; a file that missed its stamp is
  remembered too, because what it claims of its binding is then believed.
  `GateInv` follows the evidence backwards: a kill record repeats the one snapshot
  and a kill row's record names the row's own connection (`EvidenceInv`,
  `KillOnce`); a client runs only inside `docker exec` and what it saw is forgotten
  when it ends (`ScriptInv`, `ObsInv`); a PROVEN row of an artifact says something
  about the run that stays true (`OutInv`); a copy on the host is the sandbox's file
  or is bound and remembers its label (`ColInv`); so an answer, once given, stays
  true while the gateway and the loop go on (`ResInv`).

### Only model-checked

* Liveness: `TeardownCompletes`, `KillCompletes`, `PermitsDrain`,
  `SweptStreamsEnd`. Fairness is outside the prover's reach.

Every invariant and every action property of the passing runs has a theorem.

## Not modelled

* `_schema_error`, `_looks_secret`, redaction: checks of one record's fields.
* Canonicalisation of host names and wildcard scopes: text handling; `Pdp` takes
  their result as membership of a set.
* The CA and its leaf cache: success and failure of `leaf_for` are both steps of
  the gateway. What a crash between two openssl calls leaves on disk is left out.
* Layer A of the acceptance suite: pure policy evaluation in one process, over the
  operators `Pdp` models. E5: digests of the verifiers' own sources.
* The raw packet captures behind E9, the two UDP scripts and the inside of the B7
  harness: tools on the host with three outcomes for the gate.
* Lab targets, adversaries, the release verifier: test drivers.
* The plaintext proxy of Phase 2a; its `pdp()` is in `PolicyGwTls`.
* Bytes of HTTP and TLS: a call succeeds or fails.

## Plan

Extend: the plaintext handler of Phase 2a next to `PolicyGwTls`; the leaf directory
of the CA over crashes.
