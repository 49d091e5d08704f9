------------------------------ MODULE PdpProofs ------------------------------
(* The budgets of the policy decision point hold for any number of         *)
(* connections, programs, assets and policies, and so does what its three  *)
(* decisions establish about a permitted request.                          *)
EXTENDS Pdp, FiniteSetTheorems, TLAPS

(* Every decision still under way, and every one that is over, read a      *)
(* policy that was in force when it read it.  A reservation uses the caps  *)
(* of such a policy, which may have been replaced since: that is why       *)
(* NoOvershoot needs it and speaks of the policies ever installed.         *)
ReadsInstalled ==
  /\ policy \in installed
  /\ installed \subseteq Policies
  /\ read \in [Conns -> Seq(installed)]
  /\ stage \in [Conns -> {"connect", "reserving", "inside", "recheck",
                          "permitted", "denied"}]
  /\ \A c \in Conns : stage[c] = "reserving" => read[c] # <<>>

BudgetInv == ReadsInstalled /\ n \in [Keys -> Nat] /\ NoOvershoot

\* A sequence over a set is a sequence over any larger set.
LEMMA SeqGrows ==
  ASSUME NEW S, NEW T, S \subseteq T, NEW s \in Seq(S)
  PROVE  s \in Seq(T)
  OBVIOUS

\* Nothing has been charged before the first request.
LEMMA BudgetInit == Init => BudgetInv
  BY DEF Init, BudgetInv, ReadsInstalled, NoOvershoot

\* The counters of one reservation stay within the caps it checked.
LEMMA ReserveWithinCap ==
  ASSUME BudgetInv, NEW c \in Conns, Reserve(c)
  PROVE  n' \in [Keys -> Nat] /\ NoOvershoot'
  <1> DEFINE pol == read[c][1]
             keys == specs(ProgramFor(pol, request[c]), request[c].asset)
  <1>1. pol \in installed /\ pol \in Policies
    BY DEF BudgetInv, ReadsInstalled, Reserve
  <1>2. n \in [Keys -> Nat] /\ NoOvershoot /\ installed' = installed
    BY DEF BudgetInv, Reserve
  <1>3. CASE ~MayReserve(pol, keys)
    <2>1. n' = n
      BY <1>3 DEF Reserve
    <2> QED
      BY <1>2, <2>1 DEF NoOvershoot
  <1>4. CASE MayReserve(pol, keys)
    <2>1. n' = [k \in Keys |-> IF k \in keys THEN n[k] + 1 ELSE n[k]]
      BY <1>4 DEF Reserve
    <2>2. n' \in [Keys -> Nat]
      BY <1>2, <2>1
    <2>3. ASSUME NEW k \in Keys, n'[k] # 0
          PROVE  \E p \in installed : Cap(p, k) = None \/ n'[k] <= Cap(p, k)
      <3>1. CASE k \in keys
        <4>1. n'[k] = n[k] + 1 /\ n[k] \in Nat
          BY <1>2, <2>1, <3>1
        <4>2. Cap(pol, k) = None \/ n[k] < Cap(pol, k)
          BY <1>4, <3>1 DEF MayReserve
        <4>3. Cap(pol, k) \in Nat \cup {None}
          BY <1>1, CapsAreNumbers
        <4>4. Cap(pol, k) = None \/ n'[k] <= Cap(pol, k)
          BY <4>1, <4>2, <4>3
        <4> HIDE DEF pol
        <4> QED
          BY <1>1, <4>4
      <3>2. CASE k \notin keys
        <4>1. n'[k] = n[k]
          BY <2>1, <3>2
        <4> QED
          BY <1>2, <2>3, <4>1 DEF NoOvershoot
      <3> QED
        BY <3>1, <3>2
    <2> QED
      BY <1>2, <2>2, <2>3 DEF NoOvershoot
  <1> QED
    BY <1>3, <1>4

\* Every step keeps each counter within the cap of some installed policy.
LEMMA BudgetStep == BudgetInv /\ [Next]_vars => BudgetInv'
  <1> SUFFICES ASSUME BudgetInv, [Next]_vars PROVE BudgetInv'
    OBVIOUS
  <1> USE DEF BudgetInv
  <1>1. ASSUME NEW c \in Conns, Denies(c) PROVE BudgetInv'
    BY <1>1 DEF Denies, Goto, ReadsInstalled, NoOvershoot
  <1>2. ASSUME NEW c \in Conns, Connect(c) PROVE BudgetInv'
    BY <1>2 DEF Connect, Goto, ReadsInstalled, NoOvershoot
  <1>3. ASSUME NEW c \in Conns, Reserve(c) PROVE BudgetInv'
    <2>1. n' \in [Keys -> Nat] /\ NoOvershoot'
      BY <1>3, ReserveWithinCap
    <2>2. /\ UNCHANGED <<policy, read, installed>>
          /\ stage' \in {[stage EXCEPT ![c] = "inside"], [stage EXCEPT ![c] = "denied"]}
      BY <1>3 DEF Reserve, Goto
    <2>3. ReadsInstalled'
      BY <2>2 DEF ReadsInstalled
    <2> QED
      BY <2>1, <2>3
  <1>4. ASSUME NEW c \in Conns, DecideInside(c) PROVE BudgetInv'
    <2>1. Append(read[c], policy) \in Seq(installed)
      BY DEF ReadsInstalled
    <2> QED
      BY <1>4, <2>1 DEF DecideInside, Goto, ReadsInstalled, NoOvershoot
  <1>5. ASSUME NEW c \in Conns, Recheck(c) PROVE BudgetInv'
    <2>1. Append(read[c], policy) \in Seq(installed)
      BY DEF ReadsInstalled
    <2> QED
      BY <1>5, <2>1 DEF Recheck, Goto, ReadsInstalled, NoOvershoot
  <1>6. ASSUME Reload PROVE BudgetInv'
    <2>1. /\ policy' \in Policies /\ installed' = installed \cup {policy'}
          /\ UNCHANGED <<n, stage, read>>
      BY <1>6 DEF Reload
    <2>2. read' \in [Conns -> Seq(installed')]
      BY <2>1, SeqGrows DEF ReadsInstalled
    <2> QED
      BY <2>1, <2>2 DEF ReadsInstalled, NoOvershoot
  <1>7. ASSUME UNCHANGED vars PROVE BudgetInv'
    BY <1>7 DEF vars, ReadsInstalled, NoOvershoot
  <1> QED
    BY <1>1, <1>2, <1>3, <1>4, <1>5, <1>6, <1>7 DEF Next

(* However many connection threads race between reading a policy and       *)
(* reserving, and however often the operator replaces the policy, no       *)
(* counter of Budgets passes the caps of all policies that were in force.  *)
THEOREM BudgetsHold == Spec => []NoOvershoot
  <1>1. BudgetInv => NoOvershoot
    BY DEF BudgetInv
  <1> QED
    BY BudgetInit, BudgetStep, <1>1, PTL DEF Spec

-----------------------------------------------------------------------------
(* The three decisions of a connection.  The secret and the program are    *)
(* opaque, so only their being functions on the connections is typed.      *)
ConnTypeOK ==
  /\ answers \in [Conns -> Zone \cup {None}]
  /\ pin \in [Conns -> Addresses \cup {None}]
  /\ program = [c \in Conns |-> program[c]]
  /\ secret = [c \in Conns |-> secret[c]]

First(c) == read[c][1]
Judged(c) == AnswersAllowed(First(c).programs[ProgramFor(First(c), request[c])], answers[c])

\* What the decisions taken so far have fixed.
DecisionsBind ==
  \A c \in Conns :
    /\ stage[c] \in {"connect", "reserving"} => pin[c] = None
    /\ stage[c] \in {"reserving", "inside", "recheck", "permitted"} =>
         answers[c] \in Zone /\ Judged(c)
    /\ stage[c] \in {"inside", "recheck", "permitted"} =>
         pin[c] = Chosen(answers[c]) /\ program[c] = ProgramFor(First(c), request[c])
    /\ stage[c] \in {"reserving", "inside"} => Len(read[c]) = 1
    /\ stage[c] = "recheck" => Len(read[c]) = 2
    /\ stage[c] \in {"recheck", "permitted"} =>
         /\ Binding(read[c][2], request[c]) = Binding(First(c), request[c])
         /\ secret[c] = Secret(read[c][2], request[c])
         /\ CredentialAllowed(read[c][2], request[c])
    /\ stage[c] = "permitted" =>
         /\ Len(read[c]) = 3
         /\ Binding(read[c][3], request[c]) = Binding(First(c), request[c])
         /\ PinAllowed(read[c][3].programs[ProgramFor(read[c][3], request[c])], pin[c])
         /\ CredentialAllowed(read[c][3], request[c])

DecisionInv == BudgetInv /\ ConnTypeOK /\ DecisionsBind

\* The address chosen from the answers is one of them, and not None.
LEMMA ChosenIsAnAnswer ==
  ASSUME NEW p, NEW res \in Zone, AnswersAllowed(p, res)
  PROVE  /\ Chosen(res) \in Addresses /\ Chosen(res) # None
         /\ IF res.v6 # <<>> THEN 1 \in DOMAIN res.v6 /\ Chosen(res) = res.v6[1]
            ELSE 1 \in DOMAIN res.v4 /\ Chosen(res) = res.v4[1]
         /\ Chosen(res).family = "ipv4" => res.v6 = <<>>
<1>1. res.v6 \in Seq(OfFamily("ipv6")) /\ res.v4 \in Seq(OfFamily("ipv4"))
  BY AddressAssumption
<1>2. CASE res.v6 # <<>>
  <2>1. 1 \in DOMAIN res.v6 /\ Chosen(res) = res.v6[1]
    BY <1>1, <1>2 DEF Chosen
  <2>2. res.v6[1] \in OfFamily("ipv6")
    BY <1>1, <2>1
  <2> QED
    BY <1>2, <2>1, <2>2, AddressAssumption DEF OfFamily
<1>3. CASE res.v6 = <<>>
  <2>1. 1 \in DOMAIN res.v4 /\ Chosen(res) = res.v4[1]
    BY <1>1, <1>3 DEF Chosen, AnswersAllowed
  <2>2. res.v4[1] \in OfFamily("ipv4")
    BY <1>1, <2>1
  <2> QED
    BY <1>3, <2>1, <2>2, AddressAssumption DEF OfFamily
<1> QED
  BY <1>2, <1>3

\* No request has been decided at the start.
LEMMA DecisionInit == Init => DecisionInv
<1> SUFFICES ASSUME Init PROVE DecisionInv
  OBVIOUS
<1>1. ConnTypeOK /\ DecisionsBind
  BY DEF Init, ConnTypeOK, DecisionsBind
<1> QED
  BY <1>1, BudgetInit DEF DecisionInv

\* Every step keeps each decision tied to the request and the authority it was made for.
LEMMA DecisionStep == DecisionInv /\ [Next]_vars => DecisionInv'
<1> SUFFICES ASSUME DecisionInv, [Next]_vars PROVE DecisionInv'
  OBVIOUS
<1>1. BudgetInv'
  BY BudgetStep DEF DecisionInv
<1>2. ReadsInstalled
  BY DEF DecisionInv, BudgetInv
<1> USE DEF Goto
<1>3. ASSUME NEW c \in Conns, Denies(c) PROVE ConnTypeOK' /\ DecisionsBind'
  BY <1>2, <1>3 DEF Denies, ReadsInstalled, DecisionInv, ConnTypeOK, DecisionsBind, First, Judged
<1>4. ASSUME NEW c \in Conns, Connect(c) PROVE ConnTypeOK' /\ DecisionsBind'
  <2>1. PICK res \in Zone :
          /\ AnswersAllowed(policy.programs[ProgramFor(policy, request[c])], res)
          /\ answers' = [answers EXCEPT ![c] = res]
    BY <1>4 DEF Connect
  <2>2. ConnTypeOK'
    BY <1>4, <2>1 DEF Connect, DecisionInv, ConnTypeOK
  <2>3. /\ stage[c] = "connect" /\ stage' = [stage EXCEPT ![c] = "reserving"]
        /\ read' = [read EXCEPT ![c] = <<policy>>]
        /\ UNCHANGED <<request, pin, program, secret>>
    BY <1>4 DEF Connect
  <2>4. Judged(c)' /\ Len(read'[c]) = 1 /\ answers'[c] = res
    BY <1>2, <2>1, <2>3 DEF Judged, First, ReadsInstalled, DecisionInv, ConnTypeOK
  <2> QED
    BY <1>2, <2>1, <2>2, <2>3, <2>4
    DEF ReadsInstalled, DecisionInv, ConnTypeOK, DecisionsBind, First, Judged
<1>5. ASSUME NEW c \in Conns, Reserve(c) PROVE ConnTypeOK' /\ DecisionsBind'
  <2>1. UNCHANGED <<request, read, answers, secret>> /\ stage[c] = "reserving"
    BY <1>5 DEF Reserve
  <2>2. CASE stage' = [stage EXCEPT ![c] = "denied"] /\ UNCHANGED <<pin, program>>
    BY <1>2, <2>1, <2>2
    DEF ReadsInstalled, DecisionInv, ConnTypeOK, DecisionsBind, First, Judged
  <2>3. CASE /\ stage' = [stage EXCEPT ![c] = "inside"]
             /\ pin' = [pin EXCEPT ![c] = Chosen(answers[c])]
             /\ program' = [program EXCEPT ![c] = ProgramFor(First(c), request[c])]
    <3>1. answers[c] \in Zone /\ Judged(c)
      BY <2>1 DEF DecisionInv, DecisionsBind
    <3>2. Chosen(answers[c]) \in Addresses
      BY <3>1, ChosenIsAnAnswer DEF Judged
    <3>3. ConnTypeOK'
      BY <2>1, <2>3, <3>2 DEF DecisionInv, ConnTypeOK
    <3>4. \A d \in Conns : First(d)' = First(d) /\ (Judged(d)' <=> Judged(d))
      BY <2>1 DEF First, Judged
    <3>5. /\ stage'[c] = "inside" /\ pin'[c] = Chosen(answers[c])
          /\ program'[c] = ProgramFor(First(c), request[c])
          /\ \A d \in Conns \ {c} : /\ stage'[d] = stage[d] /\ pin'[d] = pin[d]
                                    /\ program'[d] = program[d]
      BY <1>2, <2>3 DEF ReadsInstalled, DecisionInv, ConnTypeOK
    <3> QED
      BY <2>1, <3>1, <3>3, <3>4, <3>5 DEF DecisionInv, DecisionsBind
  <2> QED
    BY <1>5, <2>2, <2>3 DEF Reserve, First
<1>6. ASSUME NEW c \in Conns, DecideInside(c) \/ Recheck(c)
      PROVE  ConnTypeOK' /\ DecisionsBind'
  <2>1. /\ read' = [read EXCEPT ![c] = Append(read[c], policy)]
        /\ Binding(policy, request[c]) = Binding(First(c), request[c])
        /\ UNCHANGED <<request, answers, pin, program>>
        /\ PinAllowed(policy.programs[ProgramFor(policy, request[c])], pin[c])
        /\ CredentialAllowed(policy, request[c])
        /\ \/ /\ stage[c] = "inside" /\ stage' = [stage EXCEPT ![c] = "recheck"]
              /\ secret' = [secret EXCEPT ![c] = Secret(policy, request[c])]
           \/ /\ stage[c] = "recheck" /\ stage' = [stage EXCEPT ![c] = "permitted"]
              /\ secret' = secret
    BY <1>6 DEF DecideInside, Recheck, SameBinding, First, AdmitsPinned, Admits
  <2>2. ConnTypeOK'
    BY <2>1 DEF DecisionInv, ConnTypeOK
  <2>3. /\ \A d \in Conns \ {c} : read'[d] = read[d] /\ stage'[d] = stage[d]
                                  /\ secret'[d] = secret[d]
        /\ read'[c] = Append(read[c], policy) /\ read[c] \in Seq(installed)
        /\ Len(read[c]) = IF stage[c] = "inside" THEN 1 ELSE 2
    BY <1>2, <2>1 DEF ReadsInstalled, DecisionInv, ConnTypeOK, DecisionsBind
  <2>4. /\ Len(read'[c]) = Len(read[c]) + 1 /\ read'[c][Len(read[c]) + 1] = policy
        /\ \A i \in 1..Len(read[c]) : read'[c][i] = read[c][i]
    BY <2>3
  <2>5. First(c)' = First(c) /\ (Judged(c)' <=> Judged(c))
    BY <2>1, <2>3, <2>4 DEF First, Judged
  <2>6. \A d \in Conns \ {c} : First(d)' = First(d) /\ (Judged(d)' <=> Judged(d))
    BY <2>1, <2>3 DEF First, Judged
  <2>7. CASE stage[c] = "inside"
    <3>1. stage'[c] = "recheck"
      BY <1>2, <2>1, <2>7 DEF ReadsInstalled
    <3>2. secret'[c] = Secret(policy, request[c])
      BY <2>1, <2>7 DEF DecisionInv, ConnTypeOK
    <3>3. Len(read'[c]) = 2 /\ read'[c][2] = policy
      BY <2>3, <2>4, <2>7
    <3> QED
      BY <2>1, <2>2, <2>3, <2>5, <2>6, <2>7, <3>1, <3>2, <3>3 DEF DecisionInv, DecisionsBind
  <2>8. CASE stage[c] = "recheck"
    <3>1. /\ stage'[c] = "permitted" /\ secret'[c] = secret[c]
          /\ Len(read'[c]) = 3 /\ read'[c][3] = policy /\ read'[c][2] = read[c][2]
      BY <1>2, <2>1, <2>3, <2>4, <2>8 DEF ReadsInstalled, DecisionInv, ConnTypeOK
    <3> QED
      BY <2>1, <2>2, <2>3, <2>5, <2>6, <2>8, <3>1 DEF DecisionInv, DecisionsBind
  <2> QED
    BY <2>1, <2>7, <2>8
<1>7. ASSUME Reload PROVE ConnTypeOK' /\ DecisionsBind'
  BY <1>7 DEF Reload, DecisionInv, ConnTypeOK, DecisionsBind, First, Judged
<1>8. ASSUME UNCHANGED vars PROVE ConnTypeOK' /\ DecisionsBind'
  BY <1>8 DEF vars, DecisionInv, ConnTypeOK, DecisionsBind, First, Judged
<1> QED
  BY <1>1, <1>3, <1>4, <1>5, <1>6, <1>7, <1>8 DEF Next, DecisionInv

\* Decisions stay tied to their requests in every reachable state.
LEMMA DecisionInvariant == Spec => []DecisionInv
  BY DecisionInit, DecisionStep, PTL DEF Spec

-----------------------------------------------------------------------------
(* A permitted request was decided three times for one program, under one  *)
(* generation, whatever the operator loaded between the decisions.         *)
THEOREM AuthorityIsOne == Spec => []OneAuthority
<1>1. DecisionInv => OneAuthority
  <2> SUFFICES ASSUME DecisionInv, NEW c \in Conns, stage[c] = "permitted"
               PROVE  /\ Len(read[c]) = 3
                      /\ \A i \in 1..3 :
                           /\ ProgramFor(read[c][i], request[c]) = program[c]
                           /\ Generation(read[c][i], request[c])
                                = Generation(read[c][1], request[c])
    BY DEF OneAuthority
  <2>1. /\ Len(read[c]) = 3 /\ program[c] = ProgramFor(First(c), request[c])
        /\ Binding(read[c][2], request[c]) = Binding(First(c), request[c])
        /\ Binding(read[c][3], request[c]) = Binding(First(c), request[c])
    BY DEF DecisionInv, DecisionsBind
  <2>2. \A i \in 1..3 : Binding(read[c][i], request[c]) = Binding(First(c), request[c])
    BY <2>1 DEF First
  <2>3. \A i \in 1..3 : /\ Generation(read[c][i], request[c]) = Generation(First(c), request[c])
                        /\ ProgramFor(read[c][i], request[c]) = ProgramFor(First(c), request[c])
    BY <2>2 DEF Binding, BudgetBinding
  <2> QED
    BY <2>1, <2>3 DEF First
<1> QED
  BY <1>1, DecisionInvariant, PTL

\* What classify() accepts is public, or private and exempted, at its endpoint.
LEMMA ClassifyJudgesTheEndpoint ==
  ASSUME NEW p, NEW ip \in Addresses, classify(p, ip)
  PROVE  \/ Endpoint(ip).class = "public"
         \/ /\ Endpoint(ip).class \in Exemptible
            /\ ip \in p.private_ip_exemptions \/ Endpoint(ip) \in p.private_ip_exemptions
<1>1. Endpoint(ip) = unwrap_embedded_v4(ip)
  BY AddressAssumption DEF Endpoint, unwrap_embedded_v4
<1>2. Endpoint(ip).class \in Classes
  BY AddressAssumption DEF Endpoint
<1> QED
  BY <1>1, <1>2 DEF classify, Classes

(* A permitted request goes to an address of its one lookup that the last  *)
(* policy read authorises; every answer of that lookup was acceptable at   *)
(* the endpoint it leads to, and IPv6 was not passed over.                 *)
THEOREM DestinationHolds == Spec => []DestinationStaysValid
<1>1. DecisionInv => DestinationStaysValid
  <2> SUFFICES ASSUME DecisionInv, NEW c \in Conns, stage[c] = "permitted"
               PROVE  LET exempt == read[c][1].programs[program[c]].private_ip_exemptions
                          last == read[c][3].programs[program[c]]
                          res == answers[c]
                          every == {res.v6[i] : i \in DOMAIN res.v6}
                                     \cup {res.v4[i] : i \in DOMAIN res.v4}
                      IN  /\ pin[c] \in every
                          /\ \A ip \in every :
                               \/ Endpoint(ip).class = "public"
                               \/ /\ Endpoint(ip).class \in Exemptible
                                  /\ ip \in exempt \/ Endpoint(ip) \in exempt
                          /\ pin[c].family = "ipv4" => res.v6 = <<>>
                          /\ pin[c] \in last.authorized_ips
                          /\ pin[c].family \in last.allowed_families
    BY DEF DestinationStaysValid
  <2> DEFINE p == First(c).programs[program[c]]
             res == answers[c]
             every == {res.v6[i] : i \in DOMAIN res.v6} \cup {res.v4[i] : i \in DOMAIN res.v4}
  <2>1. /\ res \in Zone /\ AnswersAllowed(p, res) /\ pin[c] = Chosen(res)
        /\ Binding(read[c][3], request[c]) = Binding(First(c), request[c])
        /\ program[c] = ProgramFor(First(c), request[c])
        /\ PinAllowed(read[c][3].programs[ProgramFor(read[c][3], request[c])], pin[c])
    BY DEF DecisionInv, DecisionsBind, Judged
  <2>2. ProgramFor(read[c][3], request[c]) = program[c]
    BY <2>1 DEF Binding, BudgetBinding
  <2>3. /\ pin[c] \in read[c][3].programs[program[c]].authorized_ips
        /\ pin[c].family \in read[c][3].programs[program[c]].allowed_families
    BY <2>1, <2>2 DEF PinAllowed
  <2>4. pin[c] \in every /\ (pin[c].family = "ipv4" => res.v6 = <<>>)
    <3> HIDE DEF p, res
    <3> QED BY <2>1, ChosenIsAnAnswer
  <2>5. \A ip \in every : ip \in Addresses /\ classify(p, ip)
    <3> HIDE DEF p, res
    <3>1. res.v6 \in Seq(OfFamily("ipv6")) /\ res.v4 \in Seq(OfFamily("ipv4"))
      BY <2>1, AddressAssumption
    <3>2. \A i \in DOMAIN res.v6 : res.v6[i] \in Addresses /\ classify(p, res.v6[i])
      BY <2>1, <3>1 DEF AnswersAllowed, OfFamily
    <3>3. \A i \in DOMAIN res.v4 : res.v4[i] \in Addresses /\ classify(p, res.v4[i])
      BY <2>1, <3>1 DEF AnswersAllowed, OfFamily
    <3> QED
      BY <3>2, <3>3
  <2>6. \A ip \in every : \/ Endpoint(ip).class = "public"
                          \/ /\ Endpoint(ip).class \in Exemptible
                             /\ \/ ip \in p.private_ip_exemptions
                                \/ Endpoint(ip) \in p.private_ip_exemptions
    <3> HIDE DEF p, every
    <3> QED BY <2>5, ClassifyJudgesTheEndpoint
  <2> QED
    BY <2>3, <2>4, <2>6 DEF First
<1> QED
  BY <1>1, DecisionInvariant, PTL

(* The injected credential was given to the charged program under the      *)
(* generation of the recheck, which still gives that program one.          *)
THEOREM CredentialHolds == Spec => []CredentialStaysBound
<1>1. DecisionInv => CredentialStaysBound
  <2> SUFFICES ASSUME DecisionInv, NEW c \in Conns, stage[c] = "permitted",
                      request[c].cred # None
               PROVE  /\ Grants(read[c][3], c)
                      /\ \E i \in 2..3 : /\ Grants(read[c][i], c)
                                         /\ secret[c] = Secret(read[c][i], request[c])
                                         /\ Generation(read[c][i], request[c])
                                              = Generation(read[c][3], request[c])
    BY DEF CredentialStaysBound
  <2>1. /\ secret[c] = Secret(read[c][2], request[c])
        /\ program[c] = ProgramFor(First(c), request[c])
        /\ \A i \in 2..3 : /\ Binding(read[c][i], request[c]) = Binding(First(c), request[c])
                           /\ CredentialAllowed(read[c][i], request[c])
    BY DEF DecisionInv, DecisionsBind
  <2>2. \A i \in 2..3 : /\ Generation(read[c][i], request[c]) = Generation(First(c), request[c])
                        /\ ProgramFor(read[c][i], request[c]) = program[c]
    BY <2>1 DEF Binding, BudgetBinding
  <2>3. \A i \in 2..3 : Grants(read[c][i], c)
    BY <2>1, <2>2 DEF CredentialAllowed, Grants
  <2> QED
    BY <2>1, <2>2, <2>3
<1> QED
  BY <1>1, DecisionInvariant, PTL

-----------------------------------------------------------------------------
Charged(k) == {c \in Conns : pin[c] # None /\ k \in specs(program[c], request[c].asset)}

(* A reservation that succeeds pins the connection, which had no pin, and  *)
(* adds it to the charged connections of exactly its keys.                 *)
LEMMA ReserveCharges ==
  ASSUME DecisionInv, ChargedOncePerConnection, NEW c \in Conns, Reserve(c)
  PROVE  ChargedOncePerConnection'
<1> DEFINE keys == specs(ProgramFor(First(c), request[c]), request[c].asset)
<1>1. n \in [Keys -> Nat] /\ stage[c] = "reserving" /\ request' = request
  BY DEF DecisionInv, BudgetInv, Reserve
<1>2. CASE UNCHANGED <<n, pin, program>>
  BY <1>1, <1>2 DEF ChargedOncePerConnection
<1>3. CASE /\ n' = [k \in Keys |-> IF k \in keys THEN n[k] + 1 ELSE n[k]]
           /\ pin' = [pin EXCEPT ![c] = Chosen(answers[c])]
           /\ program' = [program EXCEPT ![c] = ProgramFor(First(c), request[c])]
  <2>1. pin[c] = None /\ Chosen(answers[c]) # None
    <3>1. pin[c] = None /\ answers[c] \in Zone /\ Judged(c)
      BY <1>1 DEF DecisionInv, DecisionsBind
    <3> QED
      BY <3>1, ChosenIsAnAnswer DEF Judged
  <2>2. /\ pin'[c] # None /\ program'[c] = ProgramFor(First(c), request[c])
        /\ \A d \in Conns \ {c} : pin'[d] = pin[d] /\ program'[d] = program[d]
    BY <1>3, <2>1 DEF DecisionInv, ConnTypeOK
  <2>3. ASSUME NEW k \in Keys PROVE n'[k] = Cardinality(Charged(k)')
    <3>1. n[k] = Cardinality(Charged(k)) /\ c \notin Charged(k) /\ IsFiniteSet(Charged(k))
      <4>1. n[k] = Cardinality(Charged(k)) /\ c \notin Charged(k)
        BY <2>1 DEF ChargedOncePerConnection, Charged
      <4>2. Charged(k) \in SUBSET Conns
        BY DEF Charged
      <4> QED
        BY <4>1, <4>2, ConnsAreFinite, FS_Subset
    <3>2. CASE k \in keys
      <4>1. Charged(k)' = Charged(k) \cup {c}
        BY <1>1, <2>2, <3>2 DEF Charged
      <4>2. n'[k] = n[k] + 1
        BY <1>3, <3>2
      <4> QED
        BY <3>1, <4>1, <4>2, FS_AddElement
    <3>3. CASE k \notin keys
      <4>1. Charged(k)' = Charged(k)
        BY <1>1, <2>1, <2>2, <3>3 DEF Charged
      <4>2. n'[k] = n[k]
        BY <1>3, <3>3
      <4> QED
        BY <3>1, <4>1, <4>2
    <3> QED
      BY <3>2, <3>3
  <2> QED
    BY <2>3 DEF ChargedOncePerConnection, Charged
<1> QED
  BY <1>2, <1>3 DEF Reserve, First

(* Every counter is the number of pinned connections under it: a request   *)
(* that is decided three times is charged once, and a refused one nowhere. *)
THEOREM ChargedOnce == Spec => []ChargedOncePerConnection
<1>1. Init => ChargedOncePerConnection
  <2> SUFFICES ASSUME Init, NEW k \in Keys PROVE n[k] = Cardinality(Charged(k))
    BY DEF ChargedOncePerConnection, Charged
  <2>1. n[k] = 0 /\ Charged(k) = {}
    BY DEF Init, Charged
  <2> QED
    BY <2>1, FS_EmptySet
<1>2. DecisionInv /\ ChargedOncePerConnection /\ [Next]_vars => ChargedOncePerConnection'
  <2> SUFFICES ASSUME DecisionInv, ChargedOncePerConnection, [Next]_vars
               PROVE  ChargedOncePerConnection'
    OBVIOUS
  <2>1. CASE UNCHANGED <<n, pin, program, request>>
    BY <2>1 DEF ChargedOncePerConnection
  <2>2. ASSUME NEW c \in Conns, Denies(c) \/ Connect(c) \/ DecideInside(c) \/ Recheck(c)
        PROVE  UNCHANGED <<n, pin, program, request>>
    BY <2>2 DEF Denies, Connect, DecideInside, Recheck
  <2>3. Reload \/ UNCHANGED vars => UNCHANGED <<n, pin, program, request>>
    BY DEF Reload, vars
  <2> QED
    BY <2>1, <2>2, <2>3, ReserveCharges DEF Next
<1> QED
  BY <1>1, <1>2, DecisionInvariant, PTL DEF Spec
=============================================================================
