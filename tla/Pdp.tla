--------------------------------- MODULE Pdp ---------------------------------
(***************************************************************************)
(* The policy decision point of pep/pdp.py, as the gateway uses it: three  *)
(* decide() calls per connection (CONNECT, the request inside the tunnel,  *)
(* and the recheck after the durable intent), each of which re-reads the   *)
(* policy file the operator may replace at any moment, and the Budgets     *)
(* every connection thread reserves from.                                  *)
(*                                                                         *)
(* decide() works on the copy of the policy it read first, so everything up*)
(* to the reservation is one step; reserve() is one critical section and   *)
(* a step of its own.  A target stands for a canonical host and a port, an *)
(* address for an IP with its family, its class (the first one classify()  *)
(* tests that it belongs to) and the IPv4 address it embeds, if any.       *)
(* Denial reasons are left out: every early return of decide() is a        *)
(* conjunct of Admits.                                                     *)
(***************************************************************************)
EXTENDS Integers, FiniteSets, Sequences

CONSTANTS
  Conns,        \* connections, one handler thread each
  Requests,     \* what a client may ask: source, target, asset, cred, method
  Programs, Assets,
  Policies,     \* the contents the policy file may have
  Addresses,    \* the addresses a name may resolve to
  Zone,         \* the answers one lookup may return: [v6, v4], sequences
  None          \* no asset, credential, program, cap, generation, pin, ...

VARIABLES
  policy,       \* the policy file
  n,            \* Budgets._n
  request,      \* each client's request
  stage,        \* how far the handler of the connection is
  read,         \* the policies its three decisions read
  answers,      \* what the name resolved to
  pin,          \* ConnectionState.pin
  program,      \* ConnectionState.program_id
  secret,       \* d.secret of the second decision
  installed     \* history: every policy the file has held

vars == <<policy, n, request, stage, read, answers, pin, program, secret, installed>>

\* Counters: the program's own, and one for each of its assets.
Keys == Programs \X (Assets \cup {None})

specs(prog, asset) ==
  {<<prog, None>>} \cup (IF asset = None THEN {} ELSE {<<prog, asset>>})

Cap(pol, key) ==
  LET p == pol.programs[key[1]]
  IN  IF key[2] = None THEN p.max_requests ELSE p.asset_max_requests[key[2]]

\* One handler thread per connection; a process has finitely many.
ASSUME ConnsAreFinite == IsFiniteSet(Conns)

\* A cap is a number of requests, or absent.
ASSUME CapsAreNumbers ==
  \A pol \in Policies, k \in Keys : Cap(pol, k) \in Nat \cup {None}

Init ==
  /\ policy \in Policies
  /\ n = [k \in Keys |-> 0]
  /\ request \in [Conns -> Requests]
  /\ stage = [c \in Conns |-> "connect"]
  /\ read = [c \in Conns |-> <<>>]
  /\ answers = [c \in Conns |-> None]
  /\ pin = [c \in Conns |-> None]
  /\ program = [c \in Conns |-> None]
  /\ secret = [c \in Conns |-> None]
  /\ installed = {policy}

-----------------------------------------------------------------------------
(* What a decision reads off one copy of the policy.                       *)
ProgramFor(pol, r) == pol.networks[r.source]

\* The authorization record is complete, active and not expired.
Authorized(pol, r) ==
  /\ ProgramFor(pol, r) # None
  /\ pol.programs[ProgramFor(pol, r)].active

\* Hard-denied classes, and those an operator may exempt by address.
NeverPermitted == {"loopback", "link_local", "unspecified", "multicast", "reserved"}
Exemptible == {"site_local", "unique_local", "private"}

(* An address has a family and one class, and only IPv6 embeds an IPv4     *)
(* address; getaddrinfo() answers for each family are of that family.      *)
Classes == {"public"} \cup NeverPermitted \cup Exemptible
OfFamily(family) == {ip \in Addresses : ip.family = family}

ASSUME AddressAssumption ==
  /\ \A ip \in Addresses :
       /\ ip # None /\ ip.family \in {"ipv4", "ipv6"} /\ ip.class \in Classes
       /\ ip.embeds # None => ip.family = "ipv6" /\ ip.embeds.class \in Classes
  /\ Zone \subseteq [v6 : Seq(OfFamily("ipv6")), v4 : Seq(OfFamily("ipv4"))]

(* unwrap_embedded_v4(): a mapped, 6to4, Teredo or NAT64 address is judged *)
(* as the IPv4 address it carries.                                         *)
unwrap_embedded_v4(ip) ==
  IF ip.family = "ipv6" /\ ip.embeds # None THEN ip.embeds ELSE ip

\* Mutant: the address is judged as it is written.
classifyLiteral(p, ip) ==
  /\ ip.class \notin NeverPermitted
  /\ ip.class \in Exemptible => ip \in p.private_ip_exemptions

(* classify(): an exemption may name the address as given or as judged, and*)
(* exempts nothing that is hard-denied.                                    *)
classify(p, ip) ==
  LET judged == unwrap_embedded_v4(ip)
  IN  /\ judged.class \notin NeverPermitted
      /\ judged.class \in Exemptible => {ip, judged} \cap p.private_ip_exemptions # {}

MethodAllowed(p, method) ==
  IF method = "CONNECT" THEN p.allow_connect ELSE method \in p.allowed_methods

CredentialAllowed(pol, r) ==
  r.cred # None =>
    LET c == pol.credentials[r.cred]
    IN  /\ c # None
        /\ c.program_id = ProgramFor(pol, r)
        /\ r.asset \in c.assets
        /\ r.target \in c.destinations

Secret(pol, r) == IF r.cred = None THEN None ELSE pol.credentials[r.cred].secret

(* A connection's own pin is reused: same family rule, same classes, same  *)
(* authorised addresses, no lookup.                                        *)
PinAllowed(p, ip) ==
  /\ ip.family \in p.allowed_families
  /\ classify(p, ip)
  /\ ip \in p.authorized_ips

(* One bad answer in either family refuses the name; an IPv6 answer is     *)
(* never passed over for IPv4.                                             *)
Chosen(res) == IF res.v6 # <<>> THEN res.v6[1] ELSE res.v4[1]

\* Mutant: only the address that would be used is judged.
ChosenAllowed(p, res) ==
  (res.v6 # <<>> \/ res.v4 # <<>>) /\ PinAllowed(p, Chosen(res))

AnswersAllowed(p, res) ==
  /\ res.v6 # <<>> \/ res.v4 # <<>>
  /\ \A i \in DOMAIN res.v6 : classify(p, res.v6[i])
  /\ \A i \in DOMAIN res.v4 : classify(p, res.v4[i])
  /\ Chosen(res).family \in p.allowed_families
  /\ Chosen(res) \in p.authorized_ips

\* decide() up to the destination and after it.
Admits(pol, r, method) ==
  /\ Authorized(pol, r)
  /\ LET p == pol.programs[ProgramFor(pol, r)]
     IN  r.target \in p.targets /\ MethodAllowed(p, method)
  /\ CredentialAllowed(pol, r)

AdmitsPinned(pol, r, method, ip) ==
  /\ Admits(pol, r, method)
  /\ PinAllowed(pol.programs[ProgramFor(pol, r)], ip)

Generation(pol, r) ==
  IF pol.policy_generation # None
  THEN <<"generation", pol.policy_generation>>
  ELSE <<"authorization-verified-at", pol.programs[ProgramFor(pol, r)].verified_at>>

BudgetBinding(pol, r) == <<ProgramFor(pol, r), r.asset>>

\* The authority a decision leaves with the connection.
Binding(pol, r) == <<Generation(pol, r), BudgetBinding(pol, r)>>

-----------------------------------------------------------------------------
Goto(c, to) == stage' = [stage EXCEPT ![c] = to]

(* A decision may always deny: the kill file may be there, the policy      *)
(* unreadable, the record expired, the lookup failed.                      *)
Denies(c) ==
  /\ stage[c] \in {"connect", "inside", "recheck"}
  /\ Goto(c, "denied")
  /\ UNCHANGED <<policy, n, request, read, answers, pin, program, secret, installed>>

\* decide() for CONNECT: read, judge, resolve; the reservation is next.
Connect(c) ==
  /\ stage[c] = "connect"
  /\ \E res \in Zone :
       /\ Admits(policy, request[c], "CONNECT")
       /\ AnswersAllowed(policy.programs[ProgramFor(policy, request[c])], res)
       /\ answers' = [answers EXCEPT ![c] = res]
  /\ read' = [read EXCEPT ![c] = <<policy>>]
  /\ Goto(c, "reserving")
  /\ UNCHANGED <<policy, n, request, pin, program, secret, installed>>

\* Mutant: only the program's cap is checked.
MayReserveProgram(pol, keys) ==
  \A k \in keys : k[2] = None => (Cap(pol, k) = None \/ n[k] < Cap(pol, k))

MayReserve(pol, keys) == \A k \in keys : Cap(pol, k) = None \/ n[k] < Cap(pol, k)

\* Mutant: the counters are charged in turn until one is exhausted.
ReservePartly(c) ==
  LET pol == read[c][1]
      keys == specs(ProgramFor(pol, request[c]), request[c].asset)
  IN  /\ stage[c] = "reserving"
      /\ n' = [k \in Keys |-> IF k \in keys /\ MayReserve(pol, {k})
                              THEN n[k] + 1 ELSE n[k]]
      /\ IF MayReserve(pol, keys)
         THEN /\ pin' = [pin EXCEPT ![c] = Chosen(answers[c])]
              /\ program' = [program EXCEPT ![c] = ProgramFor(pol, request[c])]
              /\ Goto(c, "inside")
         ELSE Goto(c, "denied") /\ UNCHANGED <<pin, program>>
      /\ UNCHANGED <<policy, request, read, answers, secret, installed>>

(* Budgets.reserve() with the caps of the policy read before the lookup:   *)
(* all counters or none, then the connection is pinned.                    *)
Reserve(c) ==
  LET pol == read[c][1]
      keys == specs(ProgramFor(pol, request[c]), request[c].asset)
  IN  /\ stage[c] = "reserving"
      /\ IF MayReserve(pol, keys)
         THEN /\ n' = [k \in Keys |-> IF k \in keys THEN n[k] + 1 ELSE n[k]]
              /\ pin' = [pin EXCEPT ![c] = Chosen(answers[c])]
              /\ program' = [program EXCEPT ![c] = ProgramFor(pol, request[c])]
              /\ Goto(c, "inside")
         ELSE Goto(c, "denied") /\ UNCHANGED <<n, pin, program>>
      /\ UNCHANGED <<policy, request, read, answers, secret, installed>>

\* Mutant: the binding of a later decision is compared with nothing.
AnyBinding(c) == TRUE

\* AUTHORIZATION_BINDING_CHANGED: against the binding the CONNECT left.
SameBinding(c) == Binding(policy, request[c]) = Binding(read[c][1], request[c])

\* Mutant: the request goes from the decision straight to its permit.
DecideWithoutRecheck(c) ==
  /\ stage[c] = "inside"
  /\ AdmitsPinned(policy, request[c], request[c].method, pin[c])
  /\ SameBinding(c)
  /\ read' = [read EXCEPT ![c] = Append(@, policy)]
  /\ secret' = [secret EXCEPT ![c] = Secret(policy, request[c])]
  /\ Goto(c, "permitted")
  /\ UNCHANGED <<policy, n, request, answers, pin, program, installed>>

\* decide() on the real method with the pin, then the binding comparison.
DecideInside(c) ==
  /\ stage[c] = "inside"
  /\ AdmitsPinned(policy, request[c], request[c].method, pin[c])
  /\ SameBinding(c)
  /\ read' = [read EXCEPT ![c] = Append(@, policy)]
  /\ secret' = [secret EXCEPT ![c] = Secret(policy, request[c])]
  /\ Goto(c, "recheck")
  /\ UNCHANGED <<policy, n, request, answers, pin, program, installed>>

\* The recheck between the durable intent and the permit.
Recheck(c) ==
  /\ stage[c] = "recheck"
  /\ AdmitsPinned(policy, request[c], request[c].method, pin[c])
  /\ ProgramFor(policy, request[c]) = program[c]
  /\ SameBinding(c)
  /\ read' = [read EXCEPT ![c] = Append(@, policy)]
  /\ Goto(c, "permitted")
  /\ UNCHANGED <<policy, n, request, answers, pin, program, secret, installed>>

\* The operator replaces the policy file; every decide() re-reads it.
Reload ==
  /\ \E pol \in Policies : policy' = pol
  /\ installed' = installed \cup {policy'}
  /\ UNCHANGED <<n, request, stage, read, answers, pin, program, secret>>

Next ==
  \/ \E c \in Conns : Denies(c) \/ Connect(c) \/ Reserve(c) \/ DecideInside(c) \/ Recheck(c)
  \/ Reload

Spec == Init /\ [][Next]_vars

-----------------------------------------------------------------------------
(* A counter never passes the cap of every policy that was ever in force,  *)
(* however many decisions race between reading a policy and reserving      *)
(* ("Exhaustion halts that scope").                                        *)
NoOvershoot ==
  \A k \in Keys :
    n[k] # 0 => \E pol \in installed : Cap(pol, k) = None \/ n[k] <= Cap(pol, k)

(* Every counter is the number of pinned connections under it: a connection*)
(* is charged once, not once per decide(), and one that a second cap       *)
(* refuses is charged nowhere ("all-or-nothing").                          *)
ChargedOncePerConnection ==
  \A k \in Keys :
    n[k] = Cardinality({c \in Conns : /\ pin[c] # None
                                      /\ k \in specs(program[c], request[c].asset)})

\* Where a packet sent to this address ends up.
Endpoint(ip) == IF ip.embeds = None THEN ip ELSE ip.embeds

(* A permitted request goes to an address the policy of the recheck        *)
(* authorises, chosen from the one lookup of the connection, and never to  *)
(* IPv4 when the name had an IPv6 address.  No answer of that lookup led,  *)
(* in whatever embedding, to an address that is hard-denied, exempted or   *)
(* not, or to a private one that the first decision did not exempt ("stays *)
(* bound to (family, ip, port) for its whole life"; "judged by the         *)
(* embedded IPv4 address").                                                *)
DestinationStaysValid ==
  \A c \in Conns : stage[c] = "permitted" =>
    LET exempt == read[c][1].programs[program[c]].private_ip_exemptions
        last == read[c][3].programs[program[c]]
        res == answers[c]
        every == {res.v6[i] : i \in DOMAIN res.v6} \cup {res.v4[i] : i \in DOMAIN res.v4}
    IN  /\ pin[c] \in every
        /\ \A ip \in every : \/ Endpoint(ip).class = "public"
                             \/ /\ Endpoint(ip).class \in Exemptible
                                /\ ip \in exempt \/ Endpoint(ip) \in exempt
        /\ pin[c].family = "ipv4" => res.v6 = <<>>
        /\ pin[c] \in last.authorized_ips
        /\ pin[c].family \in last.allowed_families

(* A permitted request was decided three times, for the same program and   *)
(* under the same generation, whatever was loaded in between ("Any changed *)
(* decision, program, pin, policy generation or budget binding refuses the *)
(* attempt").                                                              *)
OneAuthority ==
  \A c \in Conns : stage[c] = "permitted" =>
    /\ Len(read[c]) = 3
    /\ \A i \in 1..3 : /\ ProgramFor(read[c][i], request[c]) = program[c]
                       /\ Generation(read[c][i], request[c])
                            = Generation(read[c][1], request[c])

\* The policy gives the credential c asks for to the program c was charged to.
Grants(pol, c) ==
  LET cred == pol.credentials[request[c].cred]
  IN  /\ cred # None /\ cred.program_id = program[c]
      /\ request[c].asset \in cred.assets /\ request[c].target \in cred.destinations

(* The credential that will be injected is the one that some policy, read  *)
(* after the CONNECT and under the recheck's own generation, gave to the   *)
(* program the connection was charged to, for this asset and destination,  *)
(* and the recheck's policy still gives that program a credential there:   *)
(* reassigning it, or moving the source to another program and back, hands *)
(* no program the secret of another ("CREDENTIAL_WRONG_PROGRAM").  That the*)
(* secret is still the same is not said: nothing compares secrets.         *)
CredentialStaysBound ==
  \A c \in Conns : stage[c] = "permitted" /\ request[c].cred # None =>
    /\ Grants(read[c][3], c)
    /\ \E i \in 2..3 : /\ Grants(read[c][i], c)
                       /\ secret[c] = Secret(read[c][i], request[c])
                       /\ Generation(read[c][i], request[c])
                            = Generation(read[c][3], request[c])

=============================================================================
