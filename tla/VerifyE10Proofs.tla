--------------------------- MODULE VerifyE10Proofs ---------------------------
(***************************************************************************)
(* Proofs about the history validator, for histories of any length, with   *)
(* any attempts and any numbers.                                           *)
(***************************************************************************)
EXTENDS VerifyE10, FiniteSetTheorems, SequenceTheorems, WellFoundedInduction, TLAPS

-----------------------------------------------------------------------------
(* The ordered checks of a branch.                                         *)
Failing(checks, i) == checks[i][1]
Status(checks, i) == checks[i][2]

\* A list of checks, each with a status of its own to return when it fails.
Checks(checks) ==
  /\ \E S : checks \in Seq(S)
  /\ \A i \in 1..Len(checks) :
       Failing(checks, i) => Status(checks, i) \notin {NoFault, "LOCAL_HISTORY_VALID"}

\* The check that FirstFault reports.
First(checks) ==
  CHOOSE i \in DOMAIN checks :
    Failing(checks, i) /\ \A j \in 1..(i - 1) : ~Failing(checks, j)

\* The verdict of a list of checks is the status of its first failing check, if any.
LEMMA FirstFaultIsFirst ==
  ASSUME NEW checks
  PROVE  FirstFault(checks) = IF \E i \in DOMAIN checks : Failing(checks, i)
                              THEN Status(checks, First(checks)) ELSE NoFault
BY DEF FirstFault, Failing, Status, First

\* The positions of a list of checks are the numbers up to its length.
LEMMA ChecksDomain ==
  ASSUME NEW checks, Checks(checks)
  PROVE  Len(checks) \in Nat /\ DOMAIN checks = 1..Len(checks)
BY DEF Checks

\* When checks fail, the status returned is that of one of them.
LEMMA FaultIsAStatus ==
  ASSUME NEW checks, Checks(checks), \E i \in 1..Len(checks) : Failing(checks, i)
  PROVE  \E i \in 1..Len(checks) : Failing(checks, i) /\ FirstFault(checks) = Status(checks, i)
<1> DEFINE T == {i \in 1..Len(checks) : Failing(checks, i)}
<1>1. T # {}
  OBVIOUS
<1>2. Len(checks) \in Nat /\ DOMAIN checks = 1..Len(checks)
  BY ChecksDomain
<1>3. T \in SUBSET Nat
  BY <1>2
<1>4. PICK i \in T : \A j \in T : ~(j < i)
  <2> HIDE DEF T
  <2>1. PICK i \in T : \A j \in T : <<j, i>> \notin OpToRel(<, Nat)
    BY <1>1, <1>3, WFMin, NatLessThanWellFounded
  <2>2. \A j \in T : ~(j < i)
    BY <1>3, <2>1, Zenon DEF OpToRel
  <2> QED
    BY <2>2
<1>5. /\ i \in DOMAIN checks /\ Failing(checks, i)
      /\ \A j \in 1..(i - 1) : ~Failing(checks, j)
  BY <1>2, <1>4
<1>6. First(checks) \in DOMAIN checks /\ Failing(checks, First(checks))
  BY <1>5 DEF First
<1>7. FirstFault(checks) = Status(checks, First(checks))
  BY <1>5, FirstFaultIsFirst
<1> QED
  BY <1>2, <1>6, <1>7

\* A status is returned exactly when a check fails, and never "valid".
LEMMA FaultsAreFailures ==
  ASSUME NEW checks, Checks(checks)
  PROVE  IF \E i \in 1..Len(checks) : Failing(checks, i)
         THEN FirstFault(checks) \notin {NoFault, "LOCAL_HISTORY_VALID"}
         ELSE FirstFault(checks) = NoFault
<1>1. DOMAIN checks = 1..Len(checks)
  BY ChecksDomain
<1>2. CASE \E i \in 1..Len(checks) : Failing(checks, i)
  BY <1>2, FaultIsAStatus DEF Checks
<1>3. CASE ~\E i \in 1..Len(checks) : Failing(checks, i)
  BY <1>1, <1>3, FirstFaultIsFirst
<1> QED
  BY <1>2, <1>3

\* A failing first check decides.
LEMMA FirstCheckDecides ==
  ASSUME NEW checks, Checks(checks), Len(checks) # 0, Failing(checks, 1)
  PROVE  FirstFault(checks) = Status(checks, 1)
<1>1. Len(checks) \in Nat /\ DOMAIN checks = 1..Len(checks)
  BY ChecksDomain
<1>2. 1 \in DOMAIN checks /\ \A j \in 1..(1 - 1) : ~Failing(checks, j)
  BY <1>1
<1>3. \A k \in DOMAIN checks :
        Failing(checks, k) /\ (\A j \in 1..(k - 1) : ~Failing(checks, j)) => k = 1
  BY <1>1
<1>4. First(checks) = 1
  BY <1>2, <1>3 DEF First
<1> QED
  BY <1>2, <1>4, FirstFaultIsFirst

\* The guards at the head of the loop come before those of the branch.
LEMMA HeadFirst ==
  ASSUME NEW r, NEW checks, Checks(checks)
  PROVE  /\ Checks(HeadChecks(r) \o checks)
         /\ Len(HeadChecks(r) \o checks) = 2 + Len(checks)
         /\ \A i \in 1..2 : Failing(HeadChecks(r) \o checks, i) = Failing(HeadChecks(r), i)
         /\ \A i \in 1..2 : Status(HeadChecks(r) \o checks, i) = Status(HeadChecks(r), i)
         /\ \A i \in 1..Len(checks) :
              /\ Failing(HeadChecks(r) \o checks, 2 + i) = Failing(checks, i)
              /\ Status(HeadChecks(r) \o checks, 2 + i) = Status(checks, i)
<1> DEFINE head == HeadChecks(r)
           all == head \o checks
           Bad == {NoFault, "LOCAL_HISTORY_VALID"}
<1>1. PICK S0 : checks \in Seq(S0)
  BY DEF Checks
<1> DEFINE S == S0 \cup {head[1], head[2]}
<1>2. head \in Seq(S) /\ Len(head) = 2
  BY DEF HeadChecks
<1>3. checks \in Seq(S) /\ Len(checks) \in Nat
  BY <1>1
<1>4. Status(head, 1) \notin Bad /\ Status(head, 2) \notin Bad
  BY DEF HeadChecks, Status, NoFault
<1> HIDE DEF head, S
<1>5. /\ all \in Seq(S) /\ Len(all) = 2 + Len(checks)
      /\ \A i \in 1..2 : all[i] = head[i]
      /\ \A i \in 1..Len(checks) : all[2 + i] = checks[i]
  <2>1. /\ all \in Seq(S) /\ Len(all) = 2 + Len(checks)
        /\ \A i \in 1..(2 + Len(checks)) : all[i] = IF i <= 2 THEN head[i] ELSE checks[i - 2]
    <3>1. /\ all \in Seq(S) /\ Len(all) = Len(head) + Len(checks)
          /\ \A i \in 1..(Len(head) + Len(checks)) :
               all[i] = IF i <= Len(head) THEN head[i] ELSE checks[i - Len(head)]
      BY <1>2, <1>3, ConcatProperties, Zenon
    <3> QED
      BY <1>2, <3>1, Zenon
  <2> HIDE DEF all
  <2>2. ASSUME NEW i \in 1..Len(checks) PROVE all[2 + i] = checks[i]
    <3>1. 2 + i \in 1..(2 + Len(checks)) /\ ~(2 + i <= 2) /\ (2 + i) - 2 = i
      BY <1>3
    <3> QED
      BY <2>1, <3>1
  <2> QED
    BY <1>3, <2>1, <2>2
<1> HIDE DEF all
<1>6. /\ \A i \in 1..2 : Failing(all, i) = Failing(head, i)
      /\ \A i \in 1..2 : Status(all, i) = Status(head, i)
      /\ \A i \in 1..Len(checks) : Failing(all, 2 + i) = Failing(checks, i)
      /\ \A i \in 1..Len(checks) : Status(all, 2 + i) = Status(checks, i)
  BY <1>5 DEF Failing, Status
<1>7. ASSUME NEW i \in 1..Len(all), Failing(all, i) PROVE Status(all, i) \notin Bad
  <2> HIDE DEF Bad
  <2>1. CASE i = 1 \/ i = 2
    BY <1>4, <1>6, <2>1
  <2>2. CASE i > 2
    <3>1. i - 2 \in 1..Len(checks) /\ i = 2 + (i - 2)
      BY <1>3, <1>5, <2>2
    <3>2. Failing(checks, i - 2) /\ Status(all, i) = Status(checks, i - 2)
      BY <1>6, <1>7, <3>1
    <3> QED
      BY <3>1, <3>2 DEF Checks, Bad
  <2> QED
    BY <1>3, <1>5, <2>1, <2>2
<1>8. Checks(all)
  BY <1>5, <1>7 DEF Checks
<1> QED
  BY <1>5, <1>6, <1>8 DEF all, head

\* Going on means that the head and the branch have passed; a fault is never "valid".
LEMMA JudgeSound ==
  ASSUME NEW r, NEW checks, Checks(checks)
  PROVE  /\ FirstFault(HeadChecks(r) \o checks) # "LOCAL_HISTORY_VALID"
         /\ vrun = "CLOSED" =>
              FirstFault(HeadChecks(r) \o checks) = "RECORD_AFTER_RUN_CLOSURE"
         /\ FirstFault(HeadChecks(r) \o checks) = NoFault =>
              /\ vrun \in {"ACKNOWLEDGED", "DRAIN_TIMEOUT", "STARTUP_FAILED"} =>
                   vrun = "ACKNOWLEDGED" /\ r.decision = RUN_CLOSED
              /\ \A i \in 1..Len(checks) : ~Failing(checks, i)
<1> DEFINE all == HeadChecks(r) \o checks
<1>1. /\ Checks(all) /\ Len(all) = 2 + Len(checks) /\ Len(checks) \in Nat
      /\ \A i \in 1..2 : Failing(all, i) = Failing(HeadChecks(r), i)
      /\ \A i \in 1..2 : Status(all, i) = Status(HeadChecks(r), i)
      /\ \A i \in 1..Len(checks) : Failing(all, 2 + i) = Failing(checks, i)
  BY HeadFirst, ChecksDomain
<1> HIDE DEF all
<1>2. /\ FirstFault(all) # "LOCAL_HISTORY_VALID"
      /\ FirstFault(all) = NoFault => \A i \in 1..Len(all) : ~Failing(all, i)
  BY <1>1, FaultsAreFailures DEF NoFault
<1>3. ASSUME vrun = "CLOSED" PROVE FirstFault(all) = "RECORD_AFTER_RUN_CLOSURE"
  <2>1. Failing(all, 1) /\ Status(all, 1) = "RECORD_AFTER_RUN_CLOSURE"
    <3>1. /\ Failing(HeadChecks(r), 1)
          /\ Status(HeadChecks(r), 1) = "RECORD_AFTER_RUN_CLOSURE"
      BY <1>3 DEF HeadChecks, Failing, Status
    <3> QED
      BY <1>1, <3>1
  <2> QED
    BY <1>1, <2>1, FirstCheckDecides
<1>4. ASSUME FirstFault(all) = NoFault
      PROVE  /\ vrun \in {"ACKNOWLEDGED", "DRAIN_TIMEOUT", "STARTUP_FAILED"} =>
                  vrun = "ACKNOWLEDGED" /\ r.decision = RUN_CLOSED
             /\ \A i \in 1..Len(checks) : ~Failing(checks, i)
  <2>1. \A i \in 1..(2 + Len(checks)) : ~Failing(all, i)
    BY <1>1, <1>2, <1>4
  <2>2. ~Failing(HeadChecks(r), 2)
    BY <1>1, <2>1
  <2>3. \A i \in 1..Len(checks) : ~Failing(checks, i)
    BY <1>1, <2>1
  <2> QED
    BY <2>2, <2>3 DEF HeadChecks, Failing
<1> QED
  BY <1>2, <1>3, <1>4 DEF all

\* The head lets a record of a run that has not ended pass.
HeadPasses(r) == ~Failing(HeadChecks(r), 1) /\ ~Failing(HeadChecks(r), 2)

\* A record that the head lets pass is judged by the checks of its branch alone.
LEMMA HeadPassed ==
  ASSUME NEW r, NEW checks, Checks(checks), HeadPasses(r),
         NEW i \in 1..Len(HeadChecks(r) \o checks), Failing(HeadChecks(r) \o checks, i)
  PROVE  /\ i - 2 \in 1..Len(checks) /\ Failing(checks, i - 2)
         /\ Status(HeadChecks(r) \o checks, i) = Status(checks, i - 2)
<1> DEFINE all == HeadChecks(r) \o checks
<1>1. /\ Len(all) = 2 + Len(checks) /\ Len(checks) \in Nat
      /\ \A j \in 1..2 : Failing(all, j) = Failing(HeadChecks(r), j)
      /\ \A j \in 1..Len(checks) : /\ Failing(all, 2 + j) = Failing(checks, j)
                                   /\ Status(all, 2 + j) = Status(checks, j)
  BY HeadFirst, ChecksDomain
<1> HIDE DEF all
<1>2. i \in 1..(2 + Len(checks)) /\ Failing(all, i)
  BY <1>1 DEF all
<1>3. i # 1 /\ i # 2
  BY <1>1, <1>2 DEF HeadPasses
<1>4. i - 2 \in 1..Len(checks) /\ 2 + (i - 2) = i
  BY <1>1, <1>2, <1>3
<1> QED
  BY <1>1, <1>2, <1>4 DEF all

\* A record that passes the head and every check of its branch is taken.
LEMMA JudgeComplete ==
  ASSUME NEW r, NEW checks, Checks(checks), HeadPasses(r),
         \A i \in 1..Len(checks) : ~Failing(checks, i)
  PROVE  FirstFault(HeadChecks(r) \o checks) = NoFault
<1> DEFINE all == HeadChecks(r) \o checks
<1>1. Checks(all)
  BY HeadFirst
<1>2. \A i \in 1..Len(all) : ~Failing(all, i)
  BY HeadPassed
<1> QED
  BY <1>1, <1>2, FaultsAreFailures

\* A record that passes the head is refused for the first check of its branch that fails.
LEMMA JudgeFirst ==
  ASSUME NEW r, NEW checks, Checks(checks), HeadPasses(r), NEW i \in 1..Len(checks),
         Failing(checks, i), \A j \in 1..(i - 1) : ~Failing(checks, j)
  PROVE  FirstFault(HeadChecks(r) \o checks) = Status(checks, i)
<1> DEFINE all == HeadChecks(r) \o checks
<1>1. /\ Checks(all) /\ Len(all) = 2 + Len(checks) /\ Len(checks) \in Nat
      /\ DOMAIN all = 1..Len(all)
      /\ Failing(all, 2 + i) /\ Status(all, 2 + i) = Status(checks, i)
  BY HeadFirst, ChecksDomain
<1>2. \A j \in 1..Len(all) : Failing(all, j) => j >= 2 + i
  <2> SUFFICES ASSUME NEW j \in 1..Len(all), Failing(all, j) PROVE j >= 2 + i
    OBVIOUS
  <2>1. j - 2 \in 1..Len(checks) /\ Failing(checks, j - 2)
    BY HeadPassed
  <2>2. j - 2 \notin 1..(i - 1)
    BY <2>1
  <2> QED
    BY <1>1, <2>1, <2>2
<1> HIDE DEF all
<1>3. 2 + i \in DOMAIN all /\ \A j \in 1..((2 + i) - 1) : ~Failing(all, j)
  BY <1>1, <1>2
<1>4. \A k \in DOMAIN all :
        Failing(all, k) /\ (\A j \in 1..(k - 1) : ~Failing(all, j)) => k = 2 + i
  BY <1>1, <1>2
<1>5. First(all) = 2 + i
  BY <1>1, <1>3, <1>4 DEF First
<1> QED
  BY <1>1, <1>3, <1>5, FirstFaultIsFirst DEF all

\* Every status of the list is one of the verifier's.
Worded(checks) == \A i \in 1..Len(checks) : Status(checks, i) \in Statuses

\* The status returned for a record is one of the verifier's.
LEMMA JudgeWorded ==
  ASSUME NEW r, NEW checks, Checks(checks), Worded(checks)
  PROVE  FirstFault(HeadChecks(r) \o checks) \in Statuses
<1> DEFINE all == HeadChecks(r) \o checks
<1>1. /\ Checks(all) /\ Len(all) = 2 + Len(checks) /\ Len(checks) \in Nat
      /\ \A i \in 1..2 : Status(all, i) = Status(HeadChecks(r), i)
      /\ \A i \in 1..Len(checks) : Status(all, 2 + i) = Status(checks, i)
  BY HeadFirst, ChecksDomain
<1>2. Status(HeadChecks(r), 1) \in Statuses /\ Status(HeadChecks(r), 2) \in Statuses
  BY DEF HeadChecks, Status, Statuses
<1> HIDE DEF all
<1>3. ASSUME NEW i \in 1..Len(all) PROVE Status(all, i) \in Statuses
  <2>1. CASE i = 1 \/ i = 2
    BY <1>1, <1>2, <2>1
  <2>2. CASE i > 2
    <3>1. i - 2 \in 1..Len(checks) /\ i = 2 + (i - 2)
      BY <1>1, <2>2
    <3> QED
      BY <1>1, <3>1 DEF Worded
  <2> QED
    BY <1>1, <2>1, <2>2
<1>4. CASE \E i \in 1..Len(all) : Failing(all, i)
  BY <1>1, <1>3, <1>4, FaultIsAStatus DEF all
<1>5. CASE ~\E i \in 1..Len(all) : Failing(all, i)
  BY <1>1, <1>5, FaultsAreFailures DEF all, Statuses
<1> QED
  BY <1>4, <1>5 DEF all

-----------------------------------------------------------------------------
(* The lists of checks of the branches.                                    *)

\* The checks of StartupChecks form a list of that length.
LEMMA StartupChecksList ==
  Checks(StartupChecks) /\ Len(StartupChecks) = 1 /\ Worded(StartupChecks)
<1> DEFINE S == {StartupChecks[1]}
<1>1. StartupChecks \in Seq(S) /\ Len(StartupChecks) = 1
  BY DEF StartupChecks
<1>2. \A i \in 1..1 : Failing(StartupChecks, i) =>
        Status(StartupChecks, i) \notin {NoFault, "LOCAL_HISTORY_VALID"}
  BY DEF StartupChecks, Failing, Status, NoFault
<1>3. \A i \in 1..1 : Status(StartupChecks, i) \in Statuses
  BY DEF StartupChecks, Status, Statuses
<1> QED
  BY <1>1, <1>2, <1>3 DEF Checks, Worded

\* The checks of StartChecks form a list of that length.
LEMMA StartChecksList ==
  ASSUME NEW r
  PROVE  Checks(StartChecks(r)) /\ Len(StartChecks(r)) = 2 /\ Worded(StartChecks(r))
<1> DEFINE S == {StartChecks(r)[1], StartChecks(r)[2]}
<1>1. StartChecks(r) \in Seq(S) /\ Len(StartChecks(r)) = 2
  BY DEF StartChecks
<1>2. \A i \in 1..2 : Failing(StartChecks(r), i) =>
        Status(StartChecks(r), i) \notin {NoFault, "LOCAL_HISTORY_VALID"}
  BY DEF StartChecks, Failing, Status, NoFault
<1>3. \A i \in 1..2 : Status(StartChecks(r), i) \in Statuses
  BY DEF StartChecks, Status, Statuses
<1> QED
  BY <1>1, <1>2, <1>3 DEF Checks, Worded

\* The checks of AuthChecks form a list of that length.
LEMMA AuthChecksList ==
  ASSUME NEW r
  PROVE  Checks(AuthChecks(r)) /\ Len(AuthChecks(r)) = 4 /\ Worded(AuthChecks(r))
<1> DEFINE S == {AuthChecks(r)[1], AuthChecks(r)[2], AuthChecks(r)[3],
                AuthChecks(r)[4]}
<1>1. AuthChecks(r) \in Seq(S) /\ Len(AuthChecks(r)) = 4
  BY DEF AuthChecks
<1>2. \A i \in 1..4 : Failing(AuthChecks(r), i) =>
        Status(AuthChecks(r), i) \notin {NoFault, "LOCAL_HISTORY_VALID"}
  BY DEF AuthChecks, Failing, Status, NoFault
<1>3. \A i \in 1..4 : Status(AuthChecks(r), i) \in Statuses
  BY DEF AuthChecks, Status, Statuses
<1> QED
  BY <1>1, <1>2, <1>3 DEF Checks, Worded

\* The checks of PermitChecks form a list of that length.
LEMMA PermitChecksList ==
  ASSUME NEW r
  PROVE  Checks(PermitChecks(r)) /\ Len(PermitChecks(r)) = 7 /\ Worded(PermitChecks(r))
<1> DEFINE S == {PermitChecks(r)[1], PermitChecks(r)[2], PermitChecks(r)[3],
                PermitChecks(r)[4], PermitChecks(r)[5], PermitChecks(r)[6],
                PermitChecks(r)[7]}
<1>1. PermitChecks(r) \in Seq(S) /\ Len(PermitChecks(r)) = 7
  BY DEF PermitChecks
<1>2. \A i \in 1..7 : Failing(PermitChecks(r), i) =>
        Status(PermitChecks(r), i) \notin {NoFault, "LOCAL_HISTORY_VALID"}
  BY DEF PermitChecks, Failing, Status, NoFault
<1>3. \A i \in 1..7 : Status(PermitChecks(r), i) \in Statuses
  BY DEF PermitChecks, Status, Statuses
<1> QED
  BY <1>1, <1>2, <1>3 DEF Checks, Worded

\* The checks of AttemptedChecks form a list of that length.
LEMMA AttemptedChecksList ==
  ASSUME NEW r
  PROVE  Checks(AttemptedChecks(r)) /\ Len(AttemptedChecks(r)) = 3 /\ Worded(AttemptedChecks(r))
<1> DEFINE S == {AttemptedChecks(r)[1], AttemptedChecks(r)[2], AttemptedChecks(r)[3]}
<1>1. AttemptedChecks(r) \in Seq(S) /\ Len(AttemptedChecks(r)) = 3
  BY DEF AttemptedChecks
<1>2. \A i \in 1..3 : Failing(AttemptedChecks(r), i) =>
        Status(AttemptedChecks(r), i) \notin {NoFault, "LOCAL_HISTORY_VALID"}
  BY DEF AttemptedChecks, Failing, Status, NoFault
<1>3. \A i \in 1..3 : Status(AttemptedChecks(r), i) \in Statuses
  BY DEF AttemptedChecks, Status, Statuses
<1> QED
  BY <1>1, <1>2, <1>3 DEF Checks, Worded

\* The checks of TerminalChecks form a list of that length.
LEMMA TerminalChecksList ==
  ASSUME NEW r
  PROVE  Checks(TerminalChecks(r)) /\ Len(TerminalChecks(r)) = 4 /\ Worded(TerminalChecks(r))
<1> DEFINE S == {TerminalChecks(r)[1], TerminalChecks(r)[2], TerminalChecks(r)[3],
                TerminalChecks(r)[4]}
<1>1. TerminalChecks(r) \in Seq(S) /\ Len(TerminalChecks(r)) = 4
  BY DEF TerminalChecks
<1>2. \A i \in 1..4 : Failing(TerminalChecks(r), i) =>
        Status(TerminalChecks(r), i) \notin {NoFault, "LOCAL_HISTORY_VALID"}
  BY DEF TerminalChecks, Failing, Status, NoFault
<1>3. \A i \in 1..4 : Status(TerminalChecks(r), i) \in Statuses
  BY DEF TerminalChecks, Status, Statuses
<1> QED
  BY <1>1, <1>2, <1>3 DEF Checks, Worded

\* The checks of AllowChecks form a list of that length.
LEMMA AllowChecksList ==
  ASSUME NEW r
  PROVE  Checks(AllowChecks(r)) /\ Len(AllowChecks(r)) = 4 /\ Worded(AllowChecks(r))
<1> DEFINE S == {AllowChecks(r)[1], AllowChecks(r)[2], AllowChecks(r)[3],
                AllowChecks(r)[4]}
<1>1. AllowChecks(r) \in Seq(S) /\ Len(AllowChecks(r)) = 4
  BY DEF AllowChecks
<1>2. \A i \in 1..4 : Failing(AllowChecks(r), i) =>
        Status(AllowChecks(r), i) \notin {NoFault, "LOCAL_HISTORY_VALID"}
  BY DEF AllowChecks, Failing, Status, NoFault
<1>3. \A i \in 1..4 : Status(AllowChecks(r), i) \in Statuses
  BY DEF AllowChecks, Status, Statuses
<1> QED
  BY <1>1, <1>2, <1>3 DEF Checks, Worded

\* The checks of ReleaseChecks form a list of that length.
LEMMA ReleaseChecksList ==
  ASSUME NEW r
  PROVE  Checks(ReleaseChecks(r)) /\ Len(ReleaseChecks(r)) = 8 /\ Worded(ReleaseChecks(r))
<1> DEFINE S == {ReleaseChecks(r)[1], ReleaseChecks(r)[2], ReleaseChecks(r)[3],
                ReleaseChecks(r)[4], ReleaseChecks(r)[5], ReleaseChecks(r)[6],
                ReleaseChecks(r)[7], ReleaseChecks(r)[8]}
<1>1. ReleaseChecks(r) \in Seq(S) /\ Len(ReleaseChecks(r)) = 8
  BY DEF ReleaseChecks
<1>2. \A i \in 1..8 : Failing(ReleaseChecks(r), i) =>
        Status(ReleaseChecks(r), i) \notin {NoFault, "LOCAL_HISTORY_VALID"}
  BY DEF ReleaseChecks, Failing, Status, NoFault
<1>3. \A i \in 1..8 : Status(ReleaseChecks(r), i) \in Statuses
  BY DEF ReleaseChecks, Status, Statuses
<1> QED
  BY <1>1, <1>2, <1>3 DEF Checks, Worded

\* The checks of TerminatedChecks form a list of that length.
LEMMA TerminatedChecksList ==
  ASSUME NEW r
  PROVE  Checks(TerminatedChecks(r)) /\ Len(TerminatedChecks(r)) = 4 /\ Worded(TerminatedChecks(r))
<1> DEFINE S == {TerminatedChecks(r)[1], TerminatedChecks(r)[2], TerminatedChecks(r)[3],
                TerminatedChecks(r)[4]}
<1>1. TerminatedChecks(r) \in Seq(S) /\ Len(TerminatedChecks(r)) = 4
  BY DEF TerminatedChecks
<1>2. \A i \in 1..4 : Failing(TerminatedChecks(r), i) =>
        Status(TerminatedChecks(r), i) \notin {NoFault, "LOCAL_HISTORY_VALID"}
  BY DEF TerminatedChecks, Failing, Status, NoFault
<1>3. \A i \in 1..4 : Status(TerminatedChecks(r), i) \in Statuses
  BY DEF TerminatedChecks, Status, Statuses
<1> QED
  BY <1>1, <1>2, <1>3 DEF Checks, Worded

\* The checks of BlockedChecks form a list of that length.
LEMMA BlockedChecksList ==
  Checks(BlockedChecks) /\ Len(BlockedChecks) = 1 /\ Worded(BlockedChecks)
<1> DEFINE S == {BlockedChecks[1]}
<1>1. BlockedChecks \in Seq(S) /\ Len(BlockedChecks) = 1
  BY DEF BlockedChecks
<1>2. \A i \in 1..1 : Failing(BlockedChecks, i) =>
        Status(BlockedChecks, i) \notin {NoFault, "LOCAL_HISTORY_VALID"}
  BY DEF BlockedChecks, Failing, Status, NoFault
<1>3. \A i \in 1..1 : Status(BlockedChecks, i) \in Statuses
  BY DEF BlockedChecks, Status, Statuses
<1> QED
  BY <1>1, <1>2, <1>3 DEF Checks, Worded

\* The checks of CancelRequestedChecks form a list of that length.
LEMMA CancelRequestedChecksList ==
  Checks(CancelRequestedChecks) /\ Len(CancelRequestedChecks) = 1 /\ Worded(CancelRequestedChecks)
<1> DEFINE S == {CancelRequestedChecks[1]}
<1>1. CancelRequestedChecks \in Seq(S) /\ Len(CancelRequestedChecks) = 1
  BY DEF CancelRequestedChecks
<1>2. \A i \in 1..1 : Failing(CancelRequestedChecks, i) =>
        Status(CancelRequestedChecks, i) \notin {NoFault, "LOCAL_HISTORY_VALID"}
  BY DEF CancelRequestedChecks, Failing, Status, NoFault
<1>3. \A i \in 1..1 : Status(CancelRequestedChecks, i) \in Statuses
  BY DEF CancelRequestedChecks, Status, Statuses
<1> QED
  BY <1>1, <1>2, <1>3 DEF Checks, Worded

\* The checks of LinearizedChecks form a list of that length.
LEMMA LinearizedChecksList ==
  ASSUME NEW r
  PROVE  Checks(LinearizedChecks(r)) /\ Len(LinearizedChecks(r)) = 7 /\ Worded(LinearizedChecks(r))
<1> DEFINE S == {LinearizedChecks(r)[1], LinearizedChecks(r)[2], LinearizedChecks(r)[3],
                LinearizedChecks(r)[4], LinearizedChecks(r)[5], LinearizedChecks(r)[6],
                LinearizedChecks(r)[7]}
<1>1. LinearizedChecks(r) \in Seq(S) /\ Len(LinearizedChecks(r)) = 7
  BY DEF LinearizedChecks
<1>2. \A i \in 1..7 : Failing(LinearizedChecks(r), i) =>
        Status(LinearizedChecks(r), i) \notin {NoFault, "LOCAL_HISTORY_VALID"}
  BY DEF LinearizedChecks, Failing, Status, NoFault
<1>3. \A i \in 1..7 : Status(LinearizedChecks(r), i) \in Statuses
  BY DEF LinearizedChecks, Status, Statuses
<1> QED
  BY <1>1, <1>2, <1>3 DEF Checks, Worded

\* The checks of KillSwitchChecks form a list of that length.
LEMMA KillSwitchChecksList ==
  ASSUME NEW r
  PROVE  Checks(KillSwitchChecks(r)) /\ Len(KillSwitchChecks(r)) = 8 /\ Worded(KillSwitchChecks(r))
<1> DEFINE S == {KillSwitchChecks(r)[1], KillSwitchChecks(r)[2], KillSwitchChecks(r)[3],
                KillSwitchChecks(r)[4], KillSwitchChecks(r)[5], KillSwitchChecks(r)[6],
                KillSwitchChecks(r)[7], KillSwitchChecks(r)[8]}
<1>1. KillSwitchChecks(r) \in Seq(S) /\ Len(KillSwitchChecks(r)) = 8
  BY DEF KillSwitchChecks
<1>2. \A i \in 1..8 : Failing(KillSwitchChecks(r), i) =>
        Status(KillSwitchChecks(r), i) \notin {NoFault, "LOCAL_HISTORY_VALID"}
  BY DEF KillSwitchChecks, Failing, Status, NoFault
<1>3. \A i \in 1..8 : Status(KillSwitchChecks(r), i) \in Statuses
  BY DEF KillSwitchChecks, Status, Statuses
<1> QED
  BY <1>1, <1>2, <1>3 DEF Checks, Worded

\* The checks of DispositionChecks form a list of that length.
LEMMA DispositionChecksList ==
  ASSUME NEW r, NEW invalid \in BOOLEAN
  PROVE  Checks(DispositionChecks(r, invalid)) /\ Len(DispositionChecks(r, invalid)) = 3 /\ Worded(DispositionChecks(r, invalid))
<1> DEFINE S == {DispositionChecks(r, invalid)[1], DispositionChecks(r, invalid)[2], DispositionChecks(r, invalid)[3]}
<1>1. DispositionChecks(r, invalid) \in Seq(S) /\ Len(DispositionChecks(r, invalid)) = 3
  BY DEF DispositionChecks
<1>2. \A i \in 1..3 : Failing(DispositionChecks(r, invalid), i) =>
        Status(DispositionChecks(r, invalid), i) \notin {NoFault, "LOCAL_HISTORY_VALID"}
  BY DEF DispositionChecks, Failing, Status, NoFault
<1>3. \A i \in 1..3 : Status(DispositionChecks(r, invalid), i) \in Statuses
  BY DEF DispositionChecks, Status, Statuses
<1> QED
  BY <1>1, <1>2, <1>3 DEF Checks, Worded

\* The checks of RunClosedChecks form a list of that length.
LEMMA RunClosedChecksList ==
  ASSUME NEW r
  PROVE  Checks(RunClosedChecks(r)) /\ Len(RunClosedChecks(r)) = 2 /\ Worded(RunClosedChecks(r))
<1> DEFINE S == {RunClosedChecks(r)[1], RunClosedChecks(r)[2]}
<1>1. RunClosedChecks(r) \in Seq(S) /\ Len(RunClosedChecks(r)) = 2
  BY DEF RunClosedChecks
<1>2. \A i \in 1..2 : Failing(RunClosedChecks(r), i) =>
        Status(RunClosedChecks(r), i) \notin {NoFault, "LOCAL_HISTORY_VALID"}
  BY DEF RunClosedChecks, Failing, Status, NoFault
<1>3. \A i \in 1..2 : Status(RunClosedChecks(r), i) \in Statuses
  BY DEF RunClosedChecks, Status, Statuses
<1> QED
  BY <1>1, <1>2, <1>3 DEF Checks, Worded

\* The checks of FinalChecks form a list of that length.
LEMMA FinalChecksList == ASSUME vstatus # "LOCAL_HISTORY_VALID" PROVE Checks(FinalChecks) /\ Len(FinalChecks) = 10
<1> DEFINE S == {FinalChecks[1], FinalChecks[2], FinalChecks[3],
                FinalChecks[4], FinalChecks[5], FinalChecks[6],
                FinalChecks[7], FinalChecks[8], FinalChecks[9],
                FinalChecks[10]}
<1>1. FinalChecks \in Seq(S) /\ Len(FinalChecks) = 10
  BY DEF FinalChecks
<1>2. \A i \in 2..10 : Status(FinalChecks, i) \notin {NoFault, "LOCAL_HISTORY_VALID"}
  BY DEF FinalChecks, Status, NoFault
<1>3. Failing(FinalChecks, 1) =>
        Status(FinalChecks, 1) \notin {NoFault, "LOCAL_HISTORY_VALID"}
  BY DEF FinalChecks, Failing, Status
<1> QED
  BY <1>1, <1>2, <1>3 DEF Checks

-----------------------------------------------------------------------------
(* One record.                                                             *)

\* Every branch is a list of checks behind the head's.
LEMMA TakeJudges ==
  ASSUME NEW r, Take(r)
  PROVE  \E checks : /\ Checks(checks) /\ Worded(checks)
                     /\ vstatus' = FirstFault(HeadChecks(r) \o checks)
<1> USE DEF Judge
<1>1. CASE TakeStartupDegraded(r) \/ TakeStartupFailed(r) \/ TakeStartup(r)
  BY <1>1, StartupChecksList, StartChecksList
  DEF TakeStartupDegraded, TakeStartupFailed, TakeStartup
<1>2. CASE TakeAuth(r) \/ TakePermit(r) \/ TakeAttempted(r)
  BY <1>2, AuthChecksList, PermitChecksList, AttemptedChecksList
  DEF TakeAuth, TakePermit, TakeAttempted
<1>3. CASE TakeTerminal(r) \/ TakeAllow(r) \/ TakeRelease(r)
  BY <1>3, TerminalChecksList, AllowChecksList, ReleaseChecksList
  DEF TakeTerminal, TakeAllow, TakeRelease
<1>4. CASE TakeConnectionTerminated(r) \/ TakeBlocked(r)
  BY <1>4, TerminatedChecksList, BlockedChecksList DEF TakeConnectionTerminated, TakeBlocked
<1>5. CASE TakeCancelRequested(r) \/ TakeCancelLinearized(r) \/ TakeKillSwitch(r)
  BY <1>5, CancelRequestedChecksList, LinearizedChecksList, KillSwitchChecksList
  DEF TakeCancelRequested, TakeCancelLinearized, TakeKillSwitch
<1>6. CASE TakeAck(r) \/ TakeDrainTimeout(r)
  BY <1>6, DispositionChecksList DEF TakeAck, TakeDrainTimeout, Disposition
<1>7. CASE TakeRunClosed(r)
  BY <1>7, RunClosedChecksList DEF TakeRunClosed
<1> QED
  BY <1>1, <1>2, <1>3, <1>4, <1>5, <1>6, <1>7 DEF Take

\* What is appended to a history that has ended is refused.
LEMMA EndedIsRefused ==
  ASSUME NEW r, Take(r)
  PROVE  /\ vstatus' # "LOCAL_HISTORY_VALID"
         /\ vrun = "CLOSED" => vstatus' = "RECORD_AFTER_RUN_CLOSURE"
         /\ vrun \in {"DRAIN_TIMEOUT", "STARTUP_FAILED"} => vstatus' # NoFault
<1>1. PICK checks : Checks(checks) /\ vstatus' = FirstFault(HeadChecks(r) \o checks)
  BY TakeJudges
<1> QED
  BY <1>1, JudgeSound

\* A history that is valid is a closed one with nothing left open.
LEMMA ValidIsComplete ==
  ASSUME vstatus # "LOCAL_HISTORY_VALID", Valid
  PROVE  /\ vstatus = NoFault /\ Authorized # {}
         /\ incomplete_attempts = {} /\ missing_allows = {} /\ missing_releases = {}
         /\ Linearized => Killed
         /\ vrun \notin {"RUNNING", "CANCEL_REQUESTED", "CANCEL_LINEARIZED",
                         "DRAIN_TIMEOUT", "ACKNOWLEDGED"}
<1>1. Checks(FinalChecks) /\ Len(FinalChecks) = 10
  BY FinalChecksList
<1>2. FirstFault(FinalChecks) = NoFault
  BY <1>1, FaultsAreFailures DEF Valid, FinalStatus, NoFault
<1>3. \A i \in 1..10 : ~Failing(FinalChecks, i)
  BY <1>1, <1>2, FaultsAreFailures
<1>4. /\ ~Failing(FinalChecks, 1) /\ ~Failing(FinalChecks, 2) /\ ~Failing(FinalChecks, 3)
      /\ ~Failing(FinalChecks, 4) /\ ~Failing(FinalChecks, 5) /\ ~Failing(FinalChecks, 6)
      /\ ~Failing(FinalChecks, 7) /\ ~Failing(FinalChecks, 8) /\ ~Failing(FinalChecks, 9)
      /\ ~Failing(FinalChecks, 10)
  BY <1>3
<1> QED
  BY <1>4 DEF FinalChecks, Failing

\* A history that was refused on the way ends with what it was refused for.
LEMMA RefusedStays ==
  ASSUME vstatus # NoFault, vstatus # "LOCAL_HISTORY_VALID"
  PROVE  FinalStatus = vstatus
<1>1. Checks(FinalChecks) /\ Len(FinalChecks) = 10
  BY FinalChecksList
<1>2. Failing(FinalChecks, 1) /\ Status(FinalChecks, 1) = vstatus
  BY DEF FinalChecks, Failing, Status
<1>3. FirstFault(FinalChecks) = vstatus
  BY <1>1, <1>2, FirstCheckDecides
<1> QED
  BY <1>3 DEF FinalStatus

\* A history that ends with an attempt open is refused for that.
LEMMA IncompleteIsRefused ==
  ASSUME vstatus = NoFault, incomplete_attempts # {}
  PROVE  FinalStatus = "INCOMPLETE_ATTEMPT"
<1>1. Checks(FinalChecks) /\ Len(FinalChecks) = 10
  BY FinalChecksList DEF NoFault
<1>2. Authorized # {}
  BY DEF Authorized, incomplete_attempts
<1>3. /\ ~Failing(FinalChecks, 1) /\ ~Failing(FinalChecks, 2) /\ Failing(FinalChecks, 3)
      /\ Status(FinalChecks, 3) = "INCOMPLETE_ATTEMPT"
  BY <1>2 DEF FinalChecks, Failing, Status
<1>4. DOMAIN FinalChecks = 1..10
  BY <1>1, ChecksDomain
<1>5. /\ 3 \in DOMAIN FinalChecks /\ \A j \in 1..(3 - 1) : ~Failing(FinalChecks, j)
      /\ \A k \in DOMAIN FinalChecks :
           Failing(FinalChecks, k) /\ (\A j \in 1..(k - 1) : ~Failing(FinalChecks, j)) => k = 3
  <2>1. \A j \in 1..(3 - 1) : ~Failing(FinalChecks, j)
    BY <1>3
  <2>2. ASSUME NEW k \in 1..10, Failing(FinalChecks, k),
               \A j \in 1..(k - 1) : ~Failing(FinalChecks, j)
        PROVE  k = 3
    <3>1. ~(k < 3)
      BY <1>3, <2>2
    <3>2. ~(k > 3)
      BY <1>3, <2>2
    <3> QED
      BY <3>1, <3>2
  <2> QED
    BY <1>4, <2>1, <2>2
<1>6. First(FinalChecks) = 3
  BY <1>3, <1>5 DEF First
<1>7. FirstFault(FinalChecks) = "INCOMPLETE_ATTEMPT"
  BY <1>3, <1>5, <1>6, FirstFaultIsFirst
<1> QED
  BY <1>7 DEF FinalStatus, NoFault

\* A closed history with nothing left open is valid, unless no attempt was authorized.
LEMMA CompleteIsValid ==
  ASSUME vstatus = NoFault, vrun = "CLOSED", Killed,
         incomplete_attempts = {}, missing_allows = {}, missing_releases = {}
  PROVE  FinalStatus \in {"LOCAL_HISTORY_VALID", "NO_LIFECYCLE_RECORDS"}
<1>1. Checks(FinalChecks) /\ Len(FinalChecks) = 10
  BY FinalChecksList DEF NoFault
<1>2. /\ ~Failing(FinalChecks, 1) /\ ~Failing(FinalChecks, 3) /\ ~Failing(FinalChecks, 4)
      /\ ~Failing(FinalChecks, 5) /\ ~Failing(FinalChecks, 6) /\ ~Failing(FinalChecks, 7)
      /\ ~Failing(FinalChecks, 8) /\ ~Failing(FinalChecks, 9) /\ ~Failing(FinalChecks, 10)
      /\ Status(FinalChecks, 2) = "NO_LIFECYCLE_RECORDS"
  BY DEF FinalChecks, Failing, Status
<1>3. \A i \in 1..10 : Failing(FinalChecks, i) => i = 2
  BY <1>2
<1>4. CASE \E i \in 1..10 : Failing(FinalChecks, i)
  <2>1. PICK i \in 1..10 : Failing(FinalChecks, i) /\ FirstFault(FinalChecks) = Status(FinalChecks, i)
    BY <1>1, <1>4, FaultIsAStatus
  <2>2. FirstFault(FinalChecks) = "NO_LIFECYCLE_RECORDS"
    BY <1>2, <1>3, <2>1
  <2> QED
    BY <2>2 DEF FinalStatus, NoFault
<1>5. CASE ~\E i \in 1..10 : Failing(FinalChecks, i)
  BY <1>1, <1>5, FaultsAreFailures DEF FinalStatus
<1> QED
  BY <1>4, <1>5

-----------------------------------------------------------------------------
(* What a record that is taken must have been.                             *)

\* An accepted STARTUP_FAILED record comes before the run is active.
LEMMA StartupFailedTaken ==
  ASSUME NEW r, TakeStartupFailed(r), vstatus' = NoFault
  PROVE  ~vactive /\ vrun = "RUNNING"
<1>1. Checks(StartupChecks) /\ Len(StartupChecks) = 1
  BY StartupChecksList
<1>2. FirstFault(HeadChecks(r) \o StartupChecks) = NoFault
  BY DEF TakeStartupFailed, Judge
<1>3. \A i \in 1..1 : ~Failing(StartupChecks, i)
  BY <1>1, <1>2, JudgeSound
<1>4. ~Failing(StartupChecks, 1)
  BY <1>3
<1> QED
  BY <1>4 DEF StartupChecks, OutsideStartup, Failing

\* An accepted authorization is the first record of its attempt, with a fresh number before the cancel.
LEMMA AuthTaken ==
  ASSUME NEW r, TakeAuth(r), vstatus' = NoFault
  PROVE  /\ Of(r).state = "NONE" /\ r.lifecycle_seq \notin vseqs
         /\ vrun # "RUNNING" /\ Linearized => ~NotBeforeCancel(r)
<1>1. Checks(AuthChecks(r)) /\ Len(AuthChecks(r)) = 4
  BY AuthChecksList
<1>2. FirstFault(HeadChecks(r) \o AuthChecks(r)) = NoFault
  BY DEF TakeAuth, Judge
<1>3. \A i \in 1..4 : ~Failing(AuthChecks(r), i)
  BY <1>1, <1>2, JudgeSound
<1>4. /\ ~Failing(AuthChecks(r), 2) /\ ~Failing(AuthChecks(r), 3)
      /\ ~Failing(AuthChecks(r), 4)
  BY <1>3
<1> QED
  BY <1>4 DEF AuthChecks, Failing

\* An accepted permit follows its authorization, with a fresh number before the cancel.
LEMMA PermitTaken ==
  ASSUME NEW r, TakePermit(r), vstatus' = NoFault
  PROVE  /\ ~NotDraining /\ Of(r).state = "AUTHORIZED"
         /\ ~(Of(r).auth_seq >= r.lifecycle_seq) /\ r.lifecycle_seq \notin vseqs
         /\ Linearized => ~NotBeforeCancel(r)
<1>1. Checks(PermitChecks(r)) /\ Len(PermitChecks(r)) = 7
  BY PermitChecksList
<1>2. FirstFault(HeadChecks(r) \o PermitChecks(r)) = NoFault
  BY DEF TakePermit, Judge
<1>3. \A i \in 1..7 : ~Failing(PermitChecks(r), i)
  BY <1>1, <1>2, JudgeSound
<1>4. /\ ~Failing(PermitChecks(r), 1) /\ ~Failing(PermitChecks(r), 3)
      /\ ~Failing(PermitChecks(r), 5) /\ ~Failing(PermitChecks(r), 6)
      /\ ~Failing(PermitChecks(r), 7)
  BY <1>3
<1> QED
  BY <1>4 DEF PermitChecks, Failing

\* An accepted attempt record follows its permit.
LEMMA AttemptedTaken ==
  ASSUME NEW r, TakeAttempted(r), vstatus' = NoFault
  PROVE  Of(r).state = "PERMITTED"
<1>1. Checks(AttemptedChecks(r)) /\ Len(AttemptedChecks(r)) = 3
  BY AttemptedChecksList
<1>2. FirstFault(HeadChecks(r) \o AttemptedChecks(r)) = NoFault
  BY DEF TakeAttempted, Judge
<1>3. \A i \in 1..3 : ~Failing(AttemptedChecks(r), i)
  BY <1>1, <1>2, JudgeSound
<1>4. ~Failing(AttemptedChecks(r), 2)
  BY <1>3
<1> QED
  BY <1>4 DEF AttemptedChecks, Failing

\* An accepted terminal record is legal in the state of its attempt.
LEMMA TerminalTaken ==
  ASSUME NEW r, TakeTerminal(r), vstatus' = NoFault
  PROVE  LegalTerminal(Of(r).state, r.decision)
<1>1. Checks(TerminalChecks(r)) /\ Len(TerminalChecks(r)) = 4
  BY TerminalChecksList
<1>2. FirstFault(HeadChecks(r) \o TerminalChecks(r)) = NoFault
  BY DEF TakeTerminal, Judge
<1>3. \A i \in 1..4 : ~Failing(TerminalChecks(r), i)
  BY <1>1, <1>2, JudgeSound
<1>4. ~Failing(TerminalChecks(r), 3)
  BY <1>3
<1> QED
  BY <1>4 DEF TerminalChecks, Failing

\* An accepted ALLOW follows a completed attempt.
LEMMA AllowTaken ==
  ASSUME NEW r, TakeAllow(r), vstatus' = NoFault
  PROVE  Of(r).state = COMPLETED
<1>1. Checks(AllowChecks(r)) /\ Len(AllowChecks(r)) = 4
  BY AllowChecksList
<1>2. FirstFault(HeadChecks(r) \o AllowChecks(r)) = NoFault
  BY DEF TakeAllow, Judge
<1>3. \A i \in 1..4 : ~Failing(AllowChecks(r), i)
  BY <1>1, <1>2, JudgeSound
<1>4. ~Failing(AllowChecks(r), 2)
  BY <1>3
<1> QED
  BY <1>4 DEF AllowChecks, Failing

\* An accepted release is the only one of its permit, with a fresh number after the permit.
LEMMA ReleaseTaken ==
  ASSUME NEW r, TakeRelease(r), vstatus' = NoFault
  PROVE  /\ ~NotDraining /\ Of(r).permit_seq # 0 /\ Of(r).release_seq = 0
         /\ ~(Of(r).permit_seq >= r.lifecycle_seq) /\ r.lifecycle_seq \notin vseqs
<1>1. Checks(ReleaseChecks(r)) /\ Len(ReleaseChecks(r)) = 8
  BY ReleaseChecksList
<1>2. FirstFault(HeadChecks(r) \o ReleaseChecks(r)) = NoFault
  BY DEF TakeRelease, Judge
<1>3. \A i \in 1..8 : ~Failing(ReleaseChecks(r), i)
  BY <1>1, <1>2, JudgeSound
<1>4. /\ ~Failing(ReleaseChecks(r), 1) /\ ~Failing(ReleaseChecks(r), 2)
      /\ ~Failing(ReleaseChecks(r), 5) /\ ~Failing(ReleaseChecks(r), 7)
      /\ ~Failing(ReleaseChecks(r), 8)
  BY <1>3
<1> QED
  BY <1>4 DEF ReleaseChecks, Failing

\* An accepted connection termination follows an unknown outcome.
LEMMA ConnectionTerminatedTaken ==
  ASSUME NEW r, TakeConnectionTerminated(r), vstatus' = NoFault
  PROVE  Of(r).state = UNKNOWN
<1>1. Checks(TerminatedChecks(r)) /\ Len(TerminatedChecks(r)) = 4
  BY TerminatedChecksList
<1>2. FirstFault(HeadChecks(r) \o TerminatedChecks(r)) = NoFault
  BY DEF TakeConnectionTerminated, Judge
<1>3. \A i \in 1..4 : ~Failing(TerminatedChecks(r), i)
  BY <1>1, <1>2, JudgeSound
<1>4. ~Failing(TerminatedChecks(r), 2)
  BY <1>3
<1> QED
  BY <1>4 DEF TerminatedChecks, Failing

\* An accepted cancel request finds the run running.
LEMMA CancelRequestedTaken ==
  ASSUME NEW r, TakeCancelRequested(r), vstatus' = NoFault
  PROVE  vrun = "RUNNING"
<1>1. Checks(CancelRequestedChecks) /\ Len(CancelRequestedChecks) = 1
  BY CancelRequestedChecksList
<1>2. FirstFault(HeadChecks(r) \o CancelRequestedChecks) = NoFault
  BY DEF TakeCancelRequested, Judge
<1>3. \A i \in 1..1 : ~Failing(CancelRequestedChecks, i)
  BY <1>1, <1>2, JudgeSound
<1>4. ~Failing(CancelRequestedChecks, 1)
  BY <1>3
<1> QED
  BY <1>4 DEF CancelRequestedChecks, Failing

\* An accepted linearization follows the request and has a number above every earlier one it bounds.
LEMMA LinearizedTaken ==
  ASSUME NEW r, TakeCancelLinearized(r), vstatus' = NoFault
  PROVE  /\ vrun = "CANCEL_REQUESTED" /\ r.lifecycle_seq \notin vseqs
         /\ \A a \in Authorized : /\ ~(vatt[a].auth_seq >= r.lifecycle_seq)
                                 /\ ~(vatt[a].permit_seq >= r.lifecycle_seq)
<1>1. Checks(LinearizedChecks(r)) /\ Len(LinearizedChecks(r)) = 7
  BY LinearizedChecksList
<1>2. FirstFault(HeadChecks(r) \o LinearizedChecks(r)) = NoFault
  BY DEF TakeCancelLinearized, Judge
<1>3. \A i \in 1..7 : ~Failing(LinearizedChecks(r), i)
  BY <1>1, <1>2, JudgeSound
<1>4. /\ ~Failing(LinearizedChecks(r), 1) /\ ~Failing(LinearizedChecks(r), 4)
      /\ ~Failing(LinearizedChecks(r), 6) /\ ~Failing(LinearizedChecks(r), 7)
  BY <1>3
<1> QED
  BY <1>4 DEF LinearizedChecks, Failing

\* An accepted kill record has the count and the number of the linearization.
LEMMA KillSwitchTaken ==
  ASSUME NEW r, TakeKillSwitch(r), vstatus' = NoFault
  PROVE  /\ vrun = "CANCEL_LINEARIZED" /\ ~Killed /\ missing_releases = {}
         /\ Cardinality(logical_inflight) = vcancel.inflight_at_linearization
         /\ r.lifecycle_seq = vcancel.lifecycle_seq
<1>1. Checks(KillSwitchChecks(r)) /\ Len(KillSwitchChecks(r)) = 8
  BY KillSwitchChecksList
<1>2. FirstFault(HeadChecks(r) \o KillSwitchChecks(r)) = NoFault
  BY DEF TakeKillSwitch, Judge
<1>3. \A i \in 1..8 : ~Failing(KillSwitchChecks(r), i)
  BY <1>1, <1>2, JudgeSound
<1>4. /\ ~Failing(KillSwitchChecks(r), 1) /\ ~Failing(KillSwitchChecks(r), 4)
      /\ ~Failing(KillSwitchChecks(r), 6) /\ ~Failing(KillSwitchChecks(r), 7)
  BY <1>3
<1> QED
  BY <1>4 DEF KillSwitchChecks, Failing

\* An accepted closing record follows an acknowledgement.
LEMMA RunClosedTaken ==
  ASSUME NEW r, TakeRunClosed(r), vstatus' = NoFault
  PROVE  vrun = "ACKNOWLEDGED"
<1>1. Checks(RunClosedChecks(r)) /\ Len(RunClosedChecks(r)) = 2
  BY RunClosedChecksList
<1>2. FirstFault(HeadChecks(r) \o RunClosedChecks(r)) = NoFault
  BY DEF TakeRunClosed, Judge
<1>3. \A i \in 1..2 : ~Failing(RunClosedChecks(r), i)
  BY <1>1, <1>2, JudgeSound
<1>4. ~Failing(RunClosedChecks(r), 1)
  BY <1>3
<1> QED
  BY <1>4 DEF RunClosedChecks, Failing

\* An accepted acknowledgement or drain timeout follows the linearization and the kill.
LEMMA DispositionTaken ==
  ASSUME NEW r, TakeAck(r) \/ TakeDrainTimeout(r), vstatus' = NoFault
  PROVE  vrun = "CANCEL_LINEARIZED" /\ Killed
<1>1. ASSUME NEW invalid \in BOOLEAN,
             FirstFault(HeadChecks(r) \o DispositionChecks(r, invalid)) = NoFault
      PROVE  vrun = "CANCEL_LINEARIZED" /\ Killed
  <2>1. Checks(DispositionChecks(r, invalid)) /\ Len(DispositionChecks(r, invalid)) = 3
    BY DispositionChecksList
  <2>2. ~Failing(DispositionChecks(r, invalid), 1)
    BY <1>1, <2>1, JudgeSound
  <2> QED
    BY <2>2 DEF DispositionChecks, Failing
<1> QED
  BY <1>1 DEF TakeAck, TakeDrainTimeout, Disposition, Judge

-----------------------------------------------------------------------------
(* What a record must be to be taken, and what the others are refused for. *)

\* Before the kill record of a run that has not ended the head lets every record pass.
LEMMA DrainingPasses == ASSUME NEW r, ~NotDraining PROVE HeadPasses(r)
  BY DEF NotDraining, HeadPasses, HeadChecks, Failing

\* After the acknowledgement it lets the closing record pass.
LEMMA ClosingPasses ==
  ASSUME NEW r, TakeRunClosed(r), vrun = "ACKNOWLEDGED" PROVE HeadPasses(r)
<1>1. r.decision = RUN_CLOSED
  BY DEF TakeRunClosed
<1> QED
  BY <1>1 DEF HeadPasses, HeadChecks, Failing

\* A record is judged by the branch of its decision.
LEMMA TakeBranch ==
  ASSUME NEW r, Take(r)
  PROVE  /\ r.decision = STARTUP_DEGRADED => TakeStartupDegraded(r)
         /\ r.decision = STARTUP => TakeStartup(r)
         /\ r.decision = AUTH => TakeAuth(r)
         /\ r.decision = PERMIT => TakePermit(r)
         /\ r.decision = ATTEMPTED => TakeAttempted(r)
         /\ r.decision \in TERMINAL => TakeTerminal(r)
         /\ r.decision = ALLOW => TakeAllow(r)
         /\ r.decision = PERMIT_RELEASED => TakeRelease(r)
         /\ r.decision = CONN_TERMINATED => TakeConnectionTerminated(r)
         /\ r.decision = BLOCKED => TakeBlocked(r)
         /\ r.decision = CANCEL_REQUESTED => TakeCancelRequested(r)
         /\ r.decision = CANCEL_LINEARIZED => TakeCancelLinearized(r)
         /\ r.decision = KILL_SWITCH => TakeKillSwitch(r)
         /\ r.decision = CANCEL_ACK => TakeAck(r)
         /\ r.decision = RUN_CLOSED => TakeRunClosed(r)
<1>1. /\ TakeStartupDegraded(r) => r.decision = STARTUP_DEGRADED
      /\ TakeStartupFailed(r) => r.decision = STARTUP_FAILED
      /\ TakeStartup(r) => r.decision = STARTUP
      /\ TakeAuth(r) => r.decision = AUTH
      /\ TakePermit(r) => r.decision = PERMIT
      /\ TakeAttempted(r) => r.decision = ATTEMPTED
      /\ TakeTerminal(r) => r.decision \in TERMINAL
      /\ TakeAllow(r) => r.decision = ALLOW
      /\ TakeRelease(r) => r.decision = PERMIT_RELEASED
  BY DEF TakeStartupDegraded, TakeStartupFailed, TakeStartup, TakeAuth, TakePermit,
         TakeAttempted, TakeTerminal, TakeAllow, TakeRelease
<1>2. /\ TakeConnectionTerminated(r) => r.decision = CONN_TERMINATED
      /\ TakeBlocked(r) => r.decision = BLOCKED
      /\ TakeCancelRequested(r) => r.decision = CANCEL_REQUESTED
      /\ TakeCancelLinearized(r) => r.decision = CANCEL_LINEARIZED
      /\ TakeKillSwitch(r) => r.decision = KILL_SWITCH
      /\ TakeAck(r) => r.decision = CANCEL_ACK
      /\ TakeDrainTimeout(r) => r.decision = CANCEL_DRAIN_TIMEOUT
      /\ TakeRunClosed(r) => r.decision = RUN_CLOSED
  BY DEF TakeConnectionTerminated, TakeBlocked, TakeCancelRequested, TakeCancelLinearized,
         TakeKillSwitch, TakeAck, TakeDrainTimeout, TakeRunClosed
<1> QED
  BY <1>1, <1>2
  DEF Take, STARTUP_DEGRADED, STARTUP_FAILED, STARTUP, AUTH, PERMIT, ATTEMPTED, TERMINAL,
      COMPLETED, FAILED, UNKNOWN, CANCELLED, ALLOW, PERMIT_RELEASED, CONN_TERMINATED, BLOCKED,
      CANCEL_REQUESTED, CANCEL_LINEARIZED, KILL_SWITCH, CANCEL_ACK, CANCEL_DRAIN_TIMEOUT,
      RUN_CLOSED

\* A degraded start is taken before anything else has been recorded.
LEMMA StartupDegradedAccepted ==
  ASSUME NEW r, TakeStartupDegraded(r),
         ~NotDraining, ~OutsideStartup
  PROVE  vstatus' = NoFault /\ UNCHANGED <<vrun, vstartup, vactive, vatt, vseqs, vreq, vcancel, vkill>>
<1>1. Checks(StartupChecks) /\ Len(StartupChecks) = 1 /\ HeadPasses(r)
  BY StartupChecksList, DrainingPasses
<1>2. ~Failing(StartupChecks, 1)
  BY DEF StartupChecks, Failing
<1>3. \A i \in 1..1 : ~Failing(StartupChecks, i)
  BY <1>2
<1>4. FirstFault(HeadChecks(r) \o StartupChecks) = NoFault
  BY <1>1, <1>3, JudgeComplete
<1> QED
  BY <1>4 DEF TakeStartupDegraded, Judge

\* A start with places is taken before anything else has been recorded.
LEMMA StartupAccepted ==
  ASSUME NEW r, TakeStartup(r),
         ~NotDraining, ~OutsideStartup, r.max_connections # 0
  PROVE  vstatus' = NoFault /\ vstartup' = TRUE
         /\ UNCHANGED <<vrun, vactive, vatt, vseqs, vreq, vcancel, vkill>>
<1>1. Checks(StartChecks(r)) /\ Len(StartChecks(r)) = 2 /\ HeadPasses(r)
  BY StartChecksList, DrainingPasses
<1>2. ~Failing(StartChecks(r), 1) /\ ~Failing(StartChecks(r), 2)
  BY DEF StartChecks, Failing
<1>3. \A i \in 1..2 : ~Failing(StartChecks(r), i)
  BY <1>2
<1>4. FirstFault(HeadChecks(r) \o StartChecks(r)) = NoFault
  BY <1>1, <1>3, JudgeComplete
<1> QED
  BY <1>4 DEF TakeStartup, Judge

\* An authorization is taken as the first of its attempt, with a fresh number before the cancel.
LEMMA AuthAccepted ==
  ASSUME NEW r, TakeAuth(r),
         ~NotDraining, Of(r).state = "NONE", r.lifecycle_seq \notin vseqs,
         Linearized => ~NotBeforeCancel(r)
  PROVE  vstatus' = NoFault /\ UpdateAttempt(r.attempt_id,
           [NoAttempt EXCEPT !.state = "AUTHORIZED", !.late_auth = vrun # "RUNNING",
              !.conn_id = r.conn_id, !.epoch = r.epoch, !.auth_seq = r.lifecycle_seq,
              !.binding = r.binding, !.pin = r.pin, !.facts = r.facts],
           {r.lifecycle_seq})
<1>1. Checks(AuthChecks(r)) /\ Len(AuthChecks(r)) = 4 /\ HeadPasses(r)
  BY AuthChecksList, DrainingPasses
<1>2. /\ ~Failing(AuthChecks(r), 1) /\ ~Failing(AuthChecks(r), 2) /\ ~Failing(AuthChecks(r), 3)
      /\ ~Failing(AuthChecks(r), 4)
  BY DEF AuthChecks, Failing
<1>3. \A i \in 1..4 : ~Failing(AuthChecks(r), i)
  BY <1>2
<1>4. FirstFault(HeadChecks(r) \o AuthChecks(r)) = NoFault
  BY <1>1, <1>3, JudgeComplete
<1> QED
  BY <1>4 DEF TakeAuth, Judge

\* A permit is taken after a timely authorization it repeats, with a fresh number.
LEMMA PermitAccepted ==
  ASSUME NEW r, TakePermit(r),
         ~NotDraining, Of(r).state = "AUTHORIZED", ~Of(r).late_auth,
         r.conn_id = Of(r).conn_id, r.epoch = Of(r).epoch, r.binding = Of(r).binding,
         ~(Of(r).auth_seq >= r.lifecycle_seq), r.lifecycle_seq \notin vseqs,
         Linearized => ~NotBeforeCancel(r)
  PROVE  vstatus' = NoFault /\ UpdateAttempt(r.attempt_id,
           [Of(r) EXCEPT !.state = "PERMITTED", !.permit_seq = r.lifecycle_seq],
           {r.lifecycle_seq})
<1>1. Checks(PermitChecks(r)) /\ Len(PermitChecks(r)) = 7 /\ HeadPasses(r)
  BY PermitChecksList, DrainingPasses
<1>2. /\ ~Failing(PermitChecks(r), 1) /\ ~Failing(PermitChecks(r), 2) /\ ~Failing(PermitChecks(r), 3)
      /\ ~Failing(PermitChecks(r), 4) /\ ~Failing(PermitChecks(r), 5) /\ ~Failing(PermitChecks(r), 6)
      /\ ~Failing(PermitChecks(r), 7)
  BY DEF PermitChecks, Failing
<1>3. \A i \in 1..7 : ~Failing(PermitChecks(r), i)
  BY <1>2
<1>4. FirstFault(HeadChecks(r) \o PermitChecks(r)) = NoFault
  BY <1>1, <1>3, JudgeComplete
<1> QED
  BY <1>4 DEF TakePermit, Judge

\* A timely attempt is taken after the permit it repeats.
LEMMA AttemptedAccepted ==
  ASSUME NEW r, TakeAttempted(r),
         ~NotDraining, vrun = "RUNNING", Of(r).state = "PERMITTED",
         r.permit_seq = Of(r).permit_seq, r.conn_id = Of(r).conn_id, r.epoch = Of(r).epoch,
         r.pin = Of(r).pin
  PROVE  vstatus' = NoFault /\ UpdateAttempt(r.attempt_id, [Of(r) EXCEPT !.state = "ATTEMPTED"], {})
<1>1. Checks(AttemptedChecks(r)) /\ Len(AttemptedChecks(r)) = 3 /\ HeadPasses(r)
  BY AttemptedChecksList, DrainingPasses
<1>2. ~Failing(AttemptedChecks(r), 1) /\ ~Failing(AttemptedChecks(r), 2) /\ ~Failing(AttemptedChecks(r), 3)
  BY DEF AttemptedChecks, Failing
<1>3. \A i \in 1..3 : ~Failing(AttemptedChecks(r), i)
  BY <1>2
<1>4. FirstFault(HeadChecks(r) \o AttemptedChecks(r)) = NoFault
  BY <1>1, <1>3, JudgeComplete
<1> QED
  BY <1>4 DEF TakeAttempted, Judge

\* An outcome is taken when it is legal for its attempt and repeats its permit.
LEMMA TerminalAccepted ==
  ASSUME NEW r, TakeTerminal(r),
         ~NotDraining, Of(r).state # "NONE", LegalTerminal(Of(r).state, r.decision),
         r.conn_id = Of(r).conn_id, r.epoch = Of(r).epoch, r.permit_seq = Of(r).permit_seq
  PROVE  vstatus' = NoFault /\ UpdateAttempt(r.attempt_id,
           [Of(r) EXCEPT !.state = r.decision, !.response = r.response], {})
<1>1. Checks(TerminalChecks(r)) /\ Len(TerminalChecks(r)) = 4 /\ HeadPasses(r)
  BY TerminalChecksList, DrainingPasses
<1>2. /\ ~Failing(TerminalChecks(r), 1) /\ ~Failing(TerminalChecks(r), 2) /\ ~Failing(TerminalChecks(r), 3)
      /\ ~Failing(TerminalChecks(r), 4)
  BY DEF TerminalChecks, Failing
<1>3. \A i \in 1..4 : ~Failing(TerminalChecks(r), i)
  BY <1>2
<1>4. FirstFault(HeadChecks(r) \o TerminalChecks(r)) = NoFault
  BY <1>1, <1>3, JudgeComplete
<1> QED
  BY <1>4 DEF TakeTerminal, Judge

\* An ALLOW is taken after the completion it repeats.
LEMMA AllowAccepted ==
  ASSUME NEW r, TakeAllow(r),
         ~NotDraining, Of(r).state = COMPLETED, ~Of(r).allow, r.conn_id = Of(r).conn_id,
         r.pin = Of(r).pin, r.facts = Of(r).facts, r.response = Of(r).response
  PROVE  vstatus' = NoFault /\ UpdateAttempt(r.attempt_id, [Of(r) EXCEPT !.allow = TRUE], {})
<1>1. Checks(AllowChecks(r)) /\ Len(AllowChecks(r)) = 4 /\ HeadPasses(r)
  BY AllowChecksList, DrainingPasses
<1>2. /\ ~Failing(AllowChecks(r), 1) /\ ~Failing(AllowChecks(r), 2) /\ ~Failing(AllowChecks(r), 3)
      /\ ~Failing(AllowChecks(r), 4)
  BY DEF AllowChecks, Failing
<1>3. \A i \in 1..4 : ~Failing(AllowChecks(r), i)
  BY <1>2
<1>4. FirstFault(HeadChecks(r) \o AllowChecks(r)) = NoFault
  BY <1>1, <1>3, JudgeComplete
<1> QED
  BY <1>4 DEF TakeAllow, Judge

\* A release is taken once, after the outcome, with a fresh number above the permit.
LEMMA ReleaseAccepted ==
  ASSUME NEW r, TakeRelease(r),
         ~NotDraining, Of(r).permit_seq # 0, Of(r).state \in TERMINAL,
         Of(r).state = COMPLETED => Of(r).allow, Of(r).release_seq = 0,
         r.conn_id = Of(r).conn_id, r.epoch = Of(r).epoch, r.permit_seq = Of(r).permit_seq,
         ~(Of(r).permit_seq >= r.lifecycle_seq), r.lifecycle_seq \notin vseqs
  PROVE  vstatus' = NoFault /\ UpdateAttempt(r.attempt_id, [Of(r) EXCEPT !.release_seq = r.lifecycle_seq],
                      {r.lifecycle_seq})
<1>1. Checks(ReleaseChecks(r)) /\ Len(ReleaseChecks(r)) = 8 /\ HeadPasses(r)
  BY ReleaseChecksList, DrainingPasses
<1>2. /\ ~Failing(ReleaseChecks(r), 1) /\ ~Failing(ReleaseChecks(r), 2) /\ ~Failing(ReleaseChecks(r), 3)
      /\ ~Failing(ReleaseChecks(r), 4) /\ ~Failing(ReleaseChecks(r), 5) /\ ~Failing(ReleaseChecks(r), 6)
      /\ ~Failing(ReleaseChecks(r), 7) /\ ~Failing(ReleaseChecks(r), 8)
  BY DEF ReleaseChecks, Failing
<1>3. \A i \in 1..8 : ~Failing(ReleaseChecks(r), i)
  BY <1>2
<1>4. FirstFault(HeadChecks(r) \o ReleaseChecks(r)) = NoFault
  BY <1>1, <1>3, JudgeComplete
<1> QED
  BY <1>4 DEF TakeRelease, Judge

\* A connection termination is taken once, after the unknown outcome it repeats.
LEMMA TerminatedAccepted ==
  ASSUME NEW r, TakeConnectionTerminated(r),
         ~NotDraining, Of(r).state = UNKNOWN, ~Of(r).terminated, r.conn_id = Of(r).conn_id,
         r.pin = Of(r).pin, r.facts = Of(r).facts, r.response = Of(r).response
  PROVE  vstatus' = NoFault /\ UpdateAttempt(r.attempt_id, [Of(r) EXCEPT !.terminated = TRUE], {})
<1>1. Checks(TerminatedChecks(r)) /\ Len(TerminatedChecks(r)) = 4 /\ HeadPasses(r)
  BY TerminatedChecksList, DrainingPasses
<1>2. /\ ~Failing(TerminatedChecks(r), 1) /\ ~Failing(TerminatedChecks(r), 2) /\ ~Failing(TerminatedChecks(r), 3)
      /\ ~Failing(TerminatedChecks(r), 4)
  BY DEF TerminatedChecks, Failing
<1>3. \A i \in 1..4 : ~Failing(TerminatedChecks(r), i)
  BY <1>2
<1>4. FirstFault(HeadChecks(r) \o TerminatedChecks(r)) = NoFault
  BY <1>1, <1>3, JudgeComplete
<1> QED
  BY <1>4 DEF TakeConnectionTerminated, Judge

\* A denial is taken at any time before the kill record.
LEMMA BlockedAccepted ==
  ASSUME NEW r, TakeBlocked(r),
         ~NotDraining
  PROVE  vstatus' = NoFault /\ vactive' = TRUE
         /\ UNCHANGED <<vrun, vstartup, vatt, vseqs, vreq, vcancel, vkill>>
<1>1. Checks(BlockedChecks) /\ Len(BlockedChecks) = 1 /\ HeadPasses(r)
  BY BlockedChecksList, DrainingPasses
<1>2. ~Failing(BlockedChecks, 1)
  BY DEF BlockedChecks, Failing
<1>3. \A i \in 1..1 : ~Failing(BlockedChecks, i)
  BY <1>2
<1>4. FirstFault(HeadChecks(r) \o BlockedChecks) = NoFault
  BY <1>1, <1>3, JudgeComplete
<1> QED
  BY <1>4 DEF TakeBlocked, Judge

\* A cancel request is taken while the run is running.
LEMMA CancelRequestedAccepted ==
  ASSUME NEW r, TakeCancelRequested(r),
         ~NotDraining, vrun = "RUNNING"
  PROVE  vstatus' = NoFault /\ vreq' = [lifecycle_seq |-> r.lifecycle_seq,
                    cancellation_epoch |-> r.cancellation_epoch]
         /\ vrun' = "CANCEL_REQUESTED" /\ vactive' = TRUE
         /\ UNCHANGED <<vstartup, vatt, vseqs, vcancel, vkill>>
<1>1. Checks(CancelRequestedChecks) /\ Len(CancelRequestedChecks) = 1 /\ HeadPasses(r)
  BY CancelRequestedChecksList, DrainingPasses
<1>2. ~Failing(CancelRequestedChecks, 1)
  BY DEF CancelRequestedChecks, Failing
<1>3. \A i \in 1..1 : ~Failing(CancelRequestedChecks, i)
  BY <1>2
<1>4. FirstFault(HeadChecks(r) \o CancelRequestedChecks) = NoFault
  BY <1>1, <1>3, JudgeComplete
<1> QED
  BY <1>4 DEF TakeCancelRequested, Judge

\* A linearization is taken after its request, above every number it bounds.
LEMMA LinearizedAccepted ==
  ASSUME NEW r, TakeCancelLinearized(r),
         ~NotDraining, vrun = "CANCEL_REQUESTED", r.new_epoch = r.cancelled_epoch + 1,
         vreq.lifecycle_seq = r.lifecycle_seq, vreq.cancellation_epoch = r.new_epoch,
         r.lifecycle_seq \notin vseqs,
         \A a \in Authorized : /\ vatt[a].epoch = r.cancelled_epoch
                                /\ ~(vatt[a].auth_seq >= r.lifecycle_seq)
                                /\ ~(vatt[a].permit_seq >= r.lifecycle_seq)
  PROVE  vstatus' = NoFault /\ vcancel' = [cancelled_epoch |-> r.cancelled_epoch, new_epoch |-> r.new_epoch,
                       lifecycle_seq |-> r.lifecycle_seq,
                       inflight_at_linearization |-> r.inflight_at_linearization]
         /\ vrun' = "CANCEL_LINEARIZED" /\ vseqs' = vseqs \cup {r.lifecycle_seq}
         /\ vactive' = TRUE /\ UNCHANGED <<vstartup, vatt, vreq, vkill>>
<1>1. Checks(LinearizedChecks(r)) /\ Len(LinearizedChecks(r)) = 7 /\ HeadPasses(r)
  BY LinearizedChecksList, DrainingPasses
<1>2. /\ ~Failing(LinearizedChecks(r), 1) /\ ~Failing(LinearizedChecks(r), 2) /\ ~Failing(LinearizedChecks(r), 3)
      /\ ~Failing(LinearizedChecks(r), 4) /\ ~Failing(LinearizedChecks(r), 5) /\ ~Failing(LinearizedChecks(r), 6)
      /\ ~Failing(LinearizedChecks(r), 7)
  BY DEF LinearizedChecks, Failing
<1>3. \A i \in 1..7 : ~Failing(LinearizedChecks(r), i)
  BY <1>2
<1>4. FirstFault(HeadChecks(r) \o LinearizedChecks(r)) = NoFault
  BY <1>1, <1>3, JudgeComplete
<1> QED
  BY <1>4 DEF TakeCancelLinearized, Judge

\* A kill record is taken when it tells the truth of a drained history.
LEMMA KillSwitchAccepted ==
  ASSUME NEW r, TakeKillSwitch(r),
         ~NotDraining, vrun = "CANCEL_LINEARIZED", incomplete_attempts = {}, missing_allows = {},
         missing_releases = {}, ~count_error(r),
         Cardinality(logical_inflight) = vcancel.inflight_at_linearization,
         r.lifecycle_seq = vcancel.lifecycle_seq, r.cancellation_epoch = vcancel.new_epoch,
         r.effect_permits_remaining = 0, r.terminated_conn_ids \subseteq r.registered_at_kill,
         r.local_drain_complete = (r.inflight_remaining = 0 /\ r.listener_state = "STOPPED")
  PROVE  vstatus' = NoFault /\ vkill' = Common(r) /\ vactive' = TRUE
         /\ UNCHANGED <<vrun, vstartup, vatt, vseqs, vreq, vcancel>>
<1>1. Checks(KillSwitchChecks(r)) /\ Len(KillSwitchChecks(r)) = 8 /\ HeadPasses(r)
  BY KillSwitchChecksList, DrainingPasses
<1>2. /\ ~Failing(KillSwitchChecks(r), 1) /\ ~Failing(KillSwitchChecks(r), 2) /\ ~Failing(KillSwitchChecks(r), 3)
      /\ ~Failing(KillSwitchChecks(r), 4) /\ ~Failing(KillSwitchChecks(r), 5) /\ ~Failing(KillSwitchChecks(r), 6)
      /\ ~Failing(KillSwitchChecks(r), 7) /\ ~Failing(KillSwitchChecks(r), 8)
  BY DEF KillSwitchChecks, Failing, NotDraining
<1>3. \A i \in 1..8 : ~Failing(KillSwitchChecks(r), i)
  BY <1>2
<1>4. FirstFault(HeadChecks(r) \o KillSwitchChecks(r)) = NoFault
  BY <1>1, <1>3, JudgeComplete
<1> QED
  BY <1>4 DEF TakeKillSwitch, Judge

\* A closing record is taken after the acknowledgement, with the number of the cancel.
LEMMA RunClosedAccepted ==
  ASSUME NEW r, TakeRunClosed(r),
         vrun = "ACKNOWLEDGED", r.closure_sequence = vcancel.lifecycle_seq,
         r.inflight_remaining = 0, r.effect_permits_remaining = 0,
         r.audit_producers_remaining = 0, r.listener_state = "STOPPED"
  PROVE  vstatus' = NoFault /\ vrun' = "CLOSED" /\ vactive' = TRUE
         /\ UNCHANGED <<vstartup, vatt, vseqs, vreq, vcancel, vkill>>
<1>1. Checks(RunClosedChecks(r)) /\ Len(RunClosedChecks(r)) = 2 /\ HeadPasses(r)
  BY RunClosedChecksList, ClosingPasses
<1>2. ~Failing(RunClosedChecks(r), 1) /\ ~Failing(RunClosedChecks(r), 2)
  BY DEF RunClosedChecks, Failing
<1>3. \A i \in 1..2 : ~Failing(RunClosedChecks(r), i)
  BY <1>2
<1>4. FirstFault(HeadChecks(r) \o RunClosedChecks(r)) = NoFault
  BY <1>1, <1>3, JudgeComplete
<1> QED
  BY <1>4 DEF TakeRunClosed, Judge

\* An acknowledgement is taken when it repeats a kill record with nothing remaining.
LEMMA AckAccepted ==
  ASSUME NEW r, TakeAck(r), vrun = "CANCEL_LINEARIZED", Killed, Common(r) = vkill,
         r.local_drain_complete = TRUE, r.inflight_remaining = 0,
         r.effect_permits_remaining = 0,
         r.audit_producers_remaining = 0, r.listener_state = "STOPPED"
  PROVE  vstatus' = NoFault /\ vrun' = "ACKNOWLEDGED" /\ vactive' = TRUE
         /\ UNCHANGED <<vstartup, vatt, vseqs, vreq, vcancel, vkill>>
<1> DEFINE invalid == \/ ~r.local_drain_complete
                      \/ r.inflight_remaining # 0
                      \/ r.effect_permits_remaining # 0
                      \/ r.audit_producers_remaining # 0
                      \/ r.listener_state # "STOPPED"
           checks == DispositionChecks(r, invalid)
<1>1. HeadPasses(r)
  BY DEF HeadPasses, HeadChecks, Failing
<1>2. invalid = FALSE
  OBVIOUS
<1>3. Disposition(r, invalid, "ACKNOWLEDGED")
  BY DEF TakeAck
<1> HIDE DEF invalid
<1>4. Checks(checks) /\ Len(checks) = 3
  BY <1>2, DispositionChecksList
<1>5. ~count_error(r)
  BY DEF count_error
<1>8. ~Failing(checks, 1) /\ ~Failing(checks, 2) /\ ~Failing(checks, 3)
  BY <1>2, <1>5 DEF DispositionChecks, Failing
<1> HIDE DEF checks
<1>6. \A i \in 1..3 : ~Failing(checks, i)
  BY <1>8
<1>7. FirstFault(HeadChecks(r) \o checks) = NoFault
  BY <1>1, <1>4, <1>6, JudgeComplete
<1> QED
  BY <1>3, <1>7 DEF Disposition, Judge, checks

\* A start without places is refused for that.
LEMMA StartupRefused ==
  ASSUME NEW r, TakeStartup(r), ~NotDraining, ~OutsideStartup, r.max_connections = 0
  PROVE  vstatus' = "CONTEXT_BINDING_MISMATCH"
<1> DEFINE checks == StartChecks(r)
<1>1. Checks(checks) /\ Len(checks) = 2 /\ HeadPasses(r)
  BY StartChecksList, DrainingPasses
<1>2. /\ ~Failing(checks, 1) /\ Failing(checks, 2)
      /\ Status(checks, 2) = "CONTEXT_BINDING_MISMATCH"
  BY DEF StartChecks, Failing, Status
<1> HIDE DEF checks
<1>3. 2 \in 1..Len(checks) /\ \A j \in 1..(2 - 1) : ~Failing(checks, j)
  BY <1>1, <1>2
<1>4. FirstFault(HeadChecks(r) \o checks) = Status(checks, 2)
  BY <1>1, <1>2, <1>3, JudgeFirst, Zenon
<1> QED
  BY <1>2, <1>4 DEF TakeStartup, Judge, checks

\* An attempt recorded after the cancel request is refused for that.
LEMMA AttemptedRefused ==
  ASSUME NEW r, TakeAttempted(r), ~NotDraining, vrun # "RUNNING"
  PROVE  vstatus' = "POST_CANCELLATION_EFFECT"
<1> DEFINE checks == AttemptedChecks(r)
<1>1. Checks(checks) /\ Len(checks) = 3 /\ HeadPasses(r)
  BY AttemptedChecksList, DrainingPasses
<1>2. /\ Failing(checks, 1)
      /\ Status(checks, 1) = "POST_CANCELLATION_EFFECT"
  BY DEF AttemptedChecks, Failing, Status
<1> HIDE DEF checks
<1>3. 1 \in 1..Len(checks) /\ \A j \in 1..(1 - 1) : ~Failing(checks, j)
  BY <1>1, <1>2
<1>4. FirstFault(HeadChecks(r) \o checks) = Status(checks, 1)
  BY <1>1, <1>2, <1>3, JudgeFirst, Zenon
<1> QED
  BY <1>2, <1>4 DEF TakeAttempted, Judge, checks

\* An ALLOW that repeats another request than the authorized one is refused for that.
LEMMA AllowRefused ==
  ASSUME NEW r, TakeAllow(r), ~NotDraining, Of(r).state = COMPLETED, ~Of(r).allow,
         r.facts # Of(r).facts
  PROVE  vstatus' = "BINDING_MISMATCH"
<1> DEFINE checks == AllowChecks(r)
<1>1. Checks(checks) /\ Len(checks) = 4 /\ HeadPasses(r)
  BY AllowChecksList, DrainingPasses
<1>2. /\ ~Failing(checks, 1) /\ ~Failing(checks, 2) /\ ~Failing(checks, 3) /\ Failing(checks, 4)
      /\ Status(checks, 4) = "BINDING_MISMATCH"
  BY DEF AllowChecks, Failing, Status
<1> HIDE DEF checks
<1>3. 4 \in 1..Len(checks) /\ \A j \in 1..(4 - 1) : ~Failing(checks, j)
  BY <1>1, <1>2
<1>4. FirstFault(HeadChecks(r) \o checks) = Status(checks, 4)
  BY <1>1, <1>2, <1>3, JudgeFirst, Zenon
<1> QED
  BY <1>2, <1>4 DEF TakeAllow, Judge, checks

\* So is such a connection termination.
LEMMA TerminatedRefused ==
  ASSUME NEW r, TakeConnectionTerminated(r), ~NotDraining, Of(r).state = UNKNOWN,
         ~Of(r).terminated, r.facts # Of(r).facts
  PROVE  vstatus' = "CONNECTION_TERMINATED_BINDING_MISMATCH"
<1> DEFINE checks == TerminatedChecks(r)
<1>1. Checks(checks) /\ Len(checks) = 4 /\ HeadPasses(r)
  BY TerminatedChecksList, DrainingPasses
<1>2. /\ ~Failing(checks, 1) /\ ~Failing(checks, 2) /\ ~Failing(checks, 3) /\ Failing(checks, 4)
      /\ Status(checks, 4) = "CONNECTION_TERMINATED_BINDING_MISMATCH"
  BY DEF TerminatedChecks, Failing, Status
<1> HIDE DEF checks
<1>3. 4 \in 1..Len(checks) /\ \A j \in 1..(4 - 1) : ~Failing(checks, j)
  BY <1>1, <1>2
<1>4. FirstFault(HeadChecks(r) \o checks) = Status(checks, 4)
  BY <1>1, <1>2, <1>3, JudgeFirst, Zenon
<1> QED
  BY <1>2, <1>4 DEF TakeConnectionTerminated, Judge, checks

\* A kill record with an attempt still open is refused for that.
LEMMA KillSwitchRefused ==
  ASSUME NEW r, TakeKillSwitch(r), ~NotDraining, vrun = "CANCEL_LINEARIZED",
         incomplete_attempts # {}
  PROVE  vstatus' = "INCOMPLETE_ATTEMPT" /\ vatt' = vatt
<1> DEFINE checks == KillSwitchChecks(r)
<1>1. Checks(checks) /\ Len(checks) = 8 /\ HeadPasses(r)
  BY KillSwitchChecksList, DrainingPasses
<1>2. /\ ~Failing(checks, 1) /\ Failing(checks, 2)
      /\ Status(checks, 2) = "INCOMPLETE_ATTEMPT"
  BY DEF KillSwitchChecks, Failing, Status, NotDraining
<1> HIDE DEF checks
<1>3. 2 \in 1..Len(checks) /\ \A j \in 1..(2 - 1) : ~Failing(checks, j)
  BY <1>1, <1>2
<1>4. FirstFault(HeadChecks(r) \o checks) = Status(checks, 2)
  BY <1>1, <1>2, <1>3, JudgeFirst, Zenon
<1>5. FirstFault(HeadChecks(r) \o checks) = "INCOMPLETE_ATTEMPT"
  BY <1>2, <1>4
<1> QED
  BY <1>5 DEF TakeKillSwitch, Judge, checks, NoFault

-----------------------------------------------------------------------------
(* Histories.  _schema_error() has been called on every record before the  *)
(* scan: ids are there and a lifecycle_seq is a positive integer.          *)
WellFormed(r) ==
  /\ r.decision \in {AUTH, PERMIT, ATTEMPTED, ALLOW, PERMIT_RELEASED, CONN_TERMINATED}
                    \cup TERMINAL
       => r.attempt_id \in Attempts
  /\ r.decision \in {AUTH, PERMIT, PERMIT_RELEASED, CANCEL_LINEARIZED}
       => r.lifecycle_seq \in Nat \ {0}

HistoryNext == \E r : WellFormed(r) /\ Take(r)

HistorySpec == VerifyInit /\ [][HistoryNext]_verifyVars

\* The numbers the history gives to an attempt and to the cancellation.
AuthSeq(a) == vatt[a].auth_seq
PermitSeq(a) == vatt[a].permit_seq
ReleaseSeq(a) == vatt[a].release_seq
CancelSeq == vcancel.lifecycle_seq

\* A number that has been given is owned.
Owned ==
  /\ \A a \in Attempts : {AuthSeq(a), PermitSeq(a), ReleaseSeq(a)} \subseteq vseqs \cup {0}
  /\ CancelSeq \in vseqs \cup {0}

\* No number has two owners.
Unique ==
  /\ \A a, b \in Attempts :
       /\ AuthSeq(a) # 0 => AuthSeq(a) # PermitSeq(b) /\ AuthSeq(a) # ReleaseSeq(b)
       /\ PermitSeq(a) # 0 => PermitSeq(a) # ReleaseSeq(b)
       /\ a # b => /\ AuthSeq(a) # 0 => AuthSeq(a) # AuthSeq(b)
                   /\ PermitSeq(a) # 0 => PermitSeq(a) # PermitSeq(b)
                   /\ ReleaseSeq(a) # 0 => ReleaseSeq(a) # ReleaseSeq(b)
  /\ CancelSeq # 0 => \A a \in Attempts : CancelSeq \notin {AuthSeq(a), PermitSeq(a), ReleaseSeq(a)}

\* Intent, permit, release; intents and permits below the cancellation.
Ordered ==
  \A a \in Attempts :
    /\ PermitSeq(a) # 0 => 0 < AuthSeq(a) /\ AuthSeq(a) < PermitSeq(a)
    /\ ReleaseSeq(a) # 0 => 0 < PermitSeq(a) /\ PermitSeq(a) < ReleaseSeq(a)
    /\ CancelSeq # 0 => AuthSeq(a) < CancelSeq /\ PermitSeq(a) < CancelSeq

NumbersInv ==
  /\ \A a \in Attempts : AuthSeq(a) \in Nat /\ PermitSeq(a) \in Nat /\ ReleaseSeq(a) \in Nat
  /\ CancelSeq \in Nat
  /\ Owned /\ Unique /\ Ordered

\* What a state of the attempt state machine says about its numbers.
StateInv ==
  \A a \in Attempts :
    /\ vatt[a].state \in TERMINAL \cup {"NONE", "AUTHORIZED", "PERMITTED", "ATTEMPTED"}
    /\ vatt[a].state = "NONE" => AuthSeq(a) = 0 /\ PermitSeq(a) = 0 /\ ReleaseSeq(a) = 0
    /\ vatt[a].state = "AUTHORIZED" => AuthSeq(a) # 0 /\ PermitSeq(a) = 0
    /\ vatt[a].state \in {"PERMITTED", "ATTEMPTED", COMPLETED, UNKNOWN} => PermitSeq(a) # 0
    /\ vatt[a].allow = TRUE => vatt[a].state = COMPLETED
    /\ vatt[a].allow \in BOOLEAN

\* An entry has the fields the invariant is about.
Fields == {"state", "auth_seq", "permit_seq", "release_seq", "allow"}
Entry(t) == Fields \subseteq DOMAIN t

\* The entry of an attempt that has no record is well formed.
LEMMA EmptyEntry == Entry(NoAttempt)
BY DEF Entry, Fields, NoAttempt

EntriesInv == vatt = [a \in Attempts |-> vatt[a]] /\ \A a \in Attempts : Entry(vatt[a])

\* What the state of the run says about cancellation, kill switch and attempts.
Cancelling == {"CANCEL_LINEARIZED", "ACKNOWLEDGED", "DRAIN_TIMEOUT", "CLOSED"}
RunStateInv ==
  /\ vrun \in {"RUNNING", "CANCEL_REQUESTED", "STARTUP_FAILED"} \cup Cancelling
  /\ Linearized <=> vrun \in Cancelling
  /\ Killed => Linearized
  /\ vrun \in {"ACKNOWLEDGED", "DRAIN_TIMEOUT", "CLOSED"} => Killed
  /\ ~vactive \/ vrun = "STARTUP_FAILED" => \A a \in Attempts : vatt[a].state = "NONE"
  /\ vstatus # "LOCAL_HISTORY_VALID"

\* After the kill switch the count at the linearization is settled.
CountInv ==
  Killed => /\ missing_releases = {}
            /\ Cardinality(logical_inflight) = vcancel.inflight_at_linearization

HistoryInv == EntriesInv /\ StateInv /\ NumbersInv /\ RunStateInv /\ CountInv

\* The empty history satisfies the invariant.
LEMMA HistoryInit == VerifyInit => HistoryInv
<1> SUFFICES ASSUME VerifyInit PROVE HistoryInv
  OBVIOUS
<1> USE DEF VerifyInit, NoAttempt, NoCancel, NoKill
<1>1. EntriesInv
  BY EmptyEntry DEF EntriesInv
<1>2. StateInv /\ NumbersInv
  <2>1. /\ \A a \in Attempts : /\ vatt[a].state = "NONE" /\ vatt[a].allow = FALSE
                              /\ AuthSeq(a) = 0 /\ PermitSeq(a) = 0 /\ ReleaseSeq(a) = 0
        /\ CancelSeq = 0
    BY DEF AuthSeq, PermitSeq, ReleaseSeq, CancelSeq
  <2>2. StateInv
    BY <2>1 DEF StateInv, COMPLETED, UNKNOWN
  <2>3. NumbersInv
    BY <2>1 DEF NumbersInv, Owned, Unique, Ordered
  <2> QED
    BY <2>2, <2>3
<1>3. RunStateInv /\ CountInv
  BY DEF RunStateInv, CountInv, Linearized, Killed, NoFault, Cancelling
<1> QED
  BY <1>1, <1>2, <1>3 DEF HistoryInv

-----------------------------------------------------------------------------
(* Numbers.  A record that is taken gives at most one attempt at most one  *)
(* number, and that number is fresh.                                       *)
SameNumbers(a) ==
  AuthSeq(a)' = AuthSeq(a) /\ PermitSeq(a)' = PermitSeq(a) /\ ReleaseSeq(a)' = ReleaseSeq(a)

\* A record that sets no number keeps the order of the numbers.
LEMMA NumbersKept ==
  ASSUME NumbersInv, vcancel' = vcancel, vseqs \subseteq vseqs',
         \A a \in Attempts : SameNumbers(a)
  PROVE  NumbersInv'
<1>1. CancelSeq' = CancelSeq
  BY DEF CancelSeq
<1> QED
  BY <1>1 DEF NumbersInv, Owned, Unique, Ordered, SameNumbers

\* A fresh authorization number keeps the order of the numbers.
LEMMA AuthNumbered ==
  ASSUME NumbersInv, NEW a \in Attempts, NEW n \in Nat \ {0}, n \notin vseqs,
         vcancel' = vcancel, vseqs' = vseqs \cup {n},
         \A b \in Attempts \ {a} : SameNumbers(b),
         AuthSeq(a) = 0, PermitSeq(a) = 0, ReleaseSeq(a) = 0,
         AuthSeq(a)' = n, PermitSeq(a)' = 0, ReleaseSeq(a)' = 0,
         CancelSeq # 0 => n < CancelSeq
  PROVE  NumbersInv'
<1>1. CancelSeq' = CancelSeq
  BY DEF CancelSeq
<1>2. \A b \in Attempts : /\ AuthSeq(b)' = IF b = a THEN n ELSE AuthSeq(b)
                          /\ PermitSeq(b)' = PermitSeq(b) /\ ReleaseSeq(b)' = ReleaseSeq(b)
  BY DEF SameNumbers
<1>3. /\ n \in Nat /\ CancelSeq \in Nat /\ n # CancelSeq
      /\ \A b \in Attempts : /\ n \notin {AuthSeq(b), PermitSeq(b), ReleaseSeq(b)}
                             /\ AuthSeq(b) \in Nat /\ PermitSeq(b) \in Nat /\ ReleaseSeq(b) \in Nat
  BY DEF NumbersInv, Owned
<1>4. Owned'
  BY <1>1, <1>2 DEF NumbersInv, Owned
<1>5. Unique'
  BY <1>1, <1>2, <1>3 DEF NumbersInv, Unique
<1>6. Ordered'
  BY <1>1, <1>2, <1>3 DEF NumbersInv, Ordered
<1> QED
  BY <1>1, <1>2, <1>3, <1>4, <1>5, <1>6 DEF NumbersInv

\* A fresh permit number above its authorization keeps the order of the numbers.
LEMMA PermitNumbered ==
  ASSUME NumbersInv, NEW a \in Attempts, NEW n \in Nat \ {0}, n \notin vseqs,
         vcancel' = vcancel, vseqs' = vseqs \cup {n},
         \A b \in Attempts \ {a} : SameNumbers(b),
         AuthSeq(a) # 0, PermitSeq(a) = 0, AuthSeq(a) < n,
         AuthSeq(a)' = AuthSeq(a), PermitSeq(a)' = n, ReleaseSeq(a)' = ReleaseSeq(a),
         CancelSeq # 0 => n < CancelSeq
  PROVE  NumbersInv'
<1>1. CancelSeq' = CancelSeq
  BY DEF CancelSeq
<1>2. \A b \in Attempts : /\ PermitSeq(b)' = IF b = a THEN n ELSE PermitSeq(b)
                          /\ AuthSeq(b)' = AuthSeq(b) /\ ReleaseSeq(b)' = ReleaseSeq(b)
  BY DEF SameNumbers
<1>3. /\ n \in Nat /\ CancelSeq \in Nat /\ n # CancelSeq
      /\ \A b \in Attempts : /\ n \notin {AuthSeq(b), PermitSeq(b), ReleaseSeq(b)}
                             /\ AuthSeq(b) \in Nat /\ PermitSeq(b) \in Nat /\ ReleaseSeq(b) \in Nat
  BY DEF NumbersInv, Owned
<1>4. Owned'
  BY <1>1, <1>2 DEF NumbersInv, Owned
<1>5. Unique'
  BY <1>1, <1>2, <1>3 DEF NumbersInv, Unique
<1>6. Ordered'
  BY <1>1, <1>2, <1>3 DEF NumbersInv, Ordered
<1> QED
  BY <1>1, <1>2, <1>3, <1>4, <1>5, <1>6 DEF NumbersInv

\* A fresh release number above its permit keeps the order of the numbers.
LEMMA ReleaseNumbered ==
  ASSUME NumbersInv, NEW a \in Attempts, NEW n \in Nat \ {0}, n \notin vseqs,
         vcancel' = vcancel, vseqs' = vseqs \cup {n},
         \A b \in Attempts \ {a} : SameNumbers(b),
         PermitSeq(a) # 0, ReleaseSeq(a) = 0, PermitSeq(a) < n,
         AuthSeq(a)' = AuthSeq(a), PermitSeq(a)' = PermitSeq(a), ReleaseSeq(a)' = n
  PROVE  NumbersInv'
<1>1. CancelSeq' = CancelSeq
  BY DEF CancelSeq
<1>2. \A b \in Attempts : /\ ReleaseSeq(b)' = IF b = a THEN n ELSE ReleaseSeq(b)
                          /\ AuthSeq(b)' = AuthSeq(b) /\ PermitSeq(b)' = PermitSeq(b)
  BY DEF SameNumbers
<1>3. /\ n \in Nat /\ CancelSeq \in Nat /\ n # CancelSeq
      /\ \A b \in Attempts : /\ n \notin {AuthSeq(b), PermitSeq(b), ReleaseSeq(b)}
                             /\ AuthSeq(b) \in Nat /\ PermitSeq(b) \in Nat /\ ReleaseSeq(b) \in Nat
  BY DEF NumbersInv, Owned
<1>4. Owned'
  BY <1>1, <1>2 DEF NumbersInv, Owned
<1>5. Unique'
  BY <1>1, <1>2, <1>3 DEF NumbersInv, Unique
<1>6. Ordered'
  BY <1>1, <1>2, <1>3 DEF NumbersInv, Ordered
<1> QED
  BY <1>1, <1>2, <1>3, <1>4, <1>5, <1>6 DEF NumbersInv

\* A fresh cancel number above every authorization and permit keeps the order of the numbers.
LEMMA CancelNumbered ==
  ASSUME NumbersInv, NEW n \in Nat \ {0}, n \notin vseqs, CancelSeq = 0,
         CancelSeq' = n, vseqs' = vseqs \cup {n}, vatt' = vatt,
         \A a \in Attempts : AuthSeq(a) < n /\ PermitSeq(a) < n
  PROVE  NumbersInv'
<1>1. \A a \in Attempts : SameNumbers(a)
  BY DEF SameNumbers, AuthSeq, PermitSeq, ReleaseSeq
<1>2. Owned' /\ Ordered'
  BY <1>1 DEF NumbersInv, Owned, Ordered, SameNumbers
<1>3. Unique'
  BY <1>1 DEF NumbersInv, Owned, Unique, SameNumbers
<1> QED
  BY <1>1, <1>2, <1>3 DEF NumbersInv, SameNumbers

\* Replacing one attempt's entry, as UpdateAttempt does.
LEMMA EntryReplaced ==
  ASSUME EntriesInv, NEW a \in Attempts, NEW e, NEW seqs, Entry(e), UpdateAttempt(a, e, seqs)
  PROVE  /\ EntriesInv'
         /\ vatt'[a] = e /\ \A b \in Attempts \ {a} : vatt'[b] = vatt[b] /\ SameNumbers(b)
         /\ vseqs' = vseqs \cup seqs /\ vactive' = TRUE
         /\ UNCHANGED <<vrun, vstartup, vreq, vcancel, vkill>>
<1>1. vatt' = [vatt EXCEPT ![a] = e]
  BY DEF UpdateAttempt
<1>2. /\ vatt'[a] = e /\ \A b \in Attempts \ {a} : vatt'[b] = vatt[b]
      /\ vatt' = [b \in Attempts |-> vatt'[b]]
  BY <1>1 DEF EntriesInv
<1>3. EntriesInv'
  BY <1>2 DEF EntriesInv
<1>4. \A b \in Attempts \ {a} : SameNumbers(b)
  BY <1>2 DEF SameNumbers, AuthSeq, PermitSeq, ReleaseSeq
<1> QED
  BY <1>2, <1>3, <1>4 DEF UpdateAttempt

-----------------------------------------------------------------------------
(* Each record that is taken preserves the invariant.                      *)
LEMMA RunKept ==
  ASSUME RunStateInv, UNCHANGED <<vrun, vcancel, vkill>>, vrun # "STARTUP_FAILED",
         vactive' = TRUE, vstatus' = NoFault
  PROVE  RunStateInv'
BY DEF RunStateInv, Linearized, Killed, NoFault

\* Records that move no permit or release after the kill keep its in-flight count.
LEMMA CountKept ==
  ASSUME CountInv, UNCHANGED <<vcancel, vkill>>,
         Killed => \A a \in Attempts : /\ PermitSeq(a)' = PermitSeq(a)
                                      /\ ReleaseSeq(a)' = ReleaseSeq(a)
  PROVE  CountInv'
<1> SUFFICES ASSUME Killed' PROVE /\ (missing_releases = {})'
                                  /\ (Cardinality(logical_inflight)
                                        = vcancel.inflight_at_linearization)'
  BY DEF CountInv
<1>1. Killed
  BY DEF Killed
<1>2. missing_releases' = missing_releases /\ logical_inflight' = logical_inflight
  BY <1>1 DEF missing_releases, logical_inflight, PermitSeq, ReleaseSeq
<1> QED
  BY <1>1, <1>2 DEF CountInv

\* Replacing one entry by a consistent one keeps every entry consistent.
LEMMA StateKept ==
  ASSUME StateInv, NEW a \in Attempts, NEW e, vatt'[a] = e,
         \A b \in Attempts \ {a} : vatt'[b] = vatt[b],
         e.state \in TERMINAL \cup {"AUTHORIZED", "PERMITTED", "ATTEMPTED"},
         e.state = "AUTHORIZED" => e.auth_seq # 0 /\ e.permit_seq = 0,
         e.state \in {"PERMITTED", "ATTEMPTED", COMPLETED, UNKNOWN} => e.permit_seq # 0,
         e.allow \in BOOLEAN, e.allow = TRUE => e.state = COMPLETED
  PROVE  StateInv'
BY DEF StateInv, AuthSeq, PermitSeq, ReleaseSeq, TERMINAL, COMPLETED, FAILED, UNKNOWN, CANCELLED

\* An accepted authorization preserves the invariant.
LEMMA AuthStep ==
  ASSUME HistoryInv, NEW r, WellFormed(r), TakeAuth(r), vstatus' = NoFault
  PROVE  HistoryInv'
<1> DEFINE a == r.attempt_id
           n == r.lifecycle_seq
           t == Of(r)
           e == [NoAttempt EXCEPT !.state = "AUTHORIZED", !.late_auth = vrun # "RUNNING",
                    !.conn_id = r.conn_id, !.epoch = r.epoch,
                    !.auth_seq = r.lifecycle_seq, !.binding = r.binding,
                    !.pin = r.pin, !.facts = r.facts]
<1>1. a \in Attempts /\ n \in Nat \ {0}
  BY DEF WellFormed, TakeAuth
<1>2. UpdateAttempt(a, e, {n})
  BY DEF TakeAuth, Judge
<1>3. /\ Entry(e) /\ e.state = "AUTHORIZED" /\ e.auth_seq = n /\ e.permit_seq = 0 /\ e.release_seq = 0
      /\ e.allow = FALSE
  <2>1. DOMAIN e = DOMAIN NoAttempt
    OBVIOUS
  <2>2. Entry(e)
    BY <2>1, EmptyEntry DEF Entry
  <2>3. e.state = "AUTHORIZED" /\ e.auth_seq = n
    BY DEF NoAttempt
  <2>4. e.permit_seq = 0 /\ e.release_seq = 0 /\ e.allow = FALSE
    BY DEF NoAttempt
  <2> QED
    BY <2>2, <2>3, <2>4
<1> HIDE DEF e
<1>4. /\ EntriesInv' /\ vatt'[a] = e
      /\ \A b \in Attempts \ {a} : vatt'[b] = vatt[b] /\ SameNumbers(b)
      /\ vseqs' = vseqs \cup {n} /\ vactive' = TRUE
      /\ UNCHANGED <<vrun, vcancel, vkill>>
  BY <1>1, <1>2, <1>3, EntryReplaced DEF HistoryInv
<1>5. AuthSeq(a)' = n /\ PermitSeq(a)' = 0 /\ ReleaseSeq(a)' = 0
  BY <1>3, <1>4 DEF AuthSeq, PermitSeq, ReleaseSeq
<1>6. /\ AuthSeq(a) = 0 /\ PermitSeq(a) = 0 /\ ReleaseSeq(a) = 0 /\ n \notin vseqs
      /\ CancelSeq # 0 => n < CancelSeq
  BY <1>1, AuthTaken DEF HistoryInv, StateInv, RunStateInv, NumbersInv, Of, Linearized, CancelSeq,
         NotBeforeCancel, Cancelling
<1>7. NumbersInv'
  BY <1>1, <1>4, <1>5, <1>6, AuthNumbered DEF HistoryInv
<1>8. CountInv'
  BY <1>1, <1>4, <1>5, <1>6, CountKept DEF HistoryInv, SameNumbers
<1>9. StateInv'
  BY <1>1, <1>3, <1>4, StateKept DEF HistoryInv, COMPLETED, UNKNOWN
<1>10. RunStateInv'
  BY <1>4, EndedIsRefused, RunKept DEF HistoryInv, Take
<1> QED
  BY <1>4, <1>7, <1>8, <1>9, <1>10 DEF HistoryInv

\* An accepted permit preserves the invariant.
LEMMA PermitStep ==
  ASSUME HistoryInv, NEW r, WellFormed(r), TakePermit(r), vstatus' = NoFault
  PROVE  HistoryInv'
<1> DEFINE a == r.attempt_id
           n == r.lifecycle_seq
           t == Of(r)
           e == [Of(r) EXCEPT !.state = "PERMITTED", !.permit_seq = r.lifecycle_seq]
<1>1. a \in Attempts /\ n \in Nat \ {0}
  BY DEF WellFormed, TakePermit
<1>2. UpdateAttempt(a, e, {n})
  BY DEF TakePermit, Judge
<1>3. /\ Entry(e) /\ e.state = "PERMITTED" /\ e.auth_seq = t.auth_seq /\ e.permit_seq = n
      /\ e.release_seq = t.release_seq /\ e.allow = t.allow
  BY <1>1 DEF HistoryInv, EntriesInv, Entry, Fields, Of
<1> HIDE DEF e
<1>4. /\ EntriesInv' /\ vatt'[a] = e
      /\ \A b \in Attempts \ {a} : vatt'[b] = vatt[b] /\ SameNumbers(b)
      /\ vseqs' = vseqs \cup {n} /\ vactive' = TRUE
      /\ UNCHANGED <<vrun, vcancel, vkill>>
  BY <1>1, <1>2, <1>3, EntryReplaced DEF HistoryInv
<1>5. AuthSeq(a)' = AuthSeq(a) /\ PermitSeq(a)' = n /\ ReleaseSeq(a)' = ReleaseSeq(a)
  BY <1>3, <1>4 DEF AuthSeq, PermitSeq, ReleaseSeq, Of
<1>6. /\ AuthSeq(a) # 0 /\ PermitSeq(a) = 0 /\ AuthSeq(a) < n /\ n \notin vseqs
      /\ CancelSeq # 0 => n < CancelSeq
      /\ ~Killed
  BY <1>1, PermitTaken DEF HistoryInv, StateInv, NumbersInv, Of, Linearized, CancelSeq, AuthSeq,
         NotBeforeCancel, NotDraining
<1>7. NumbersInv'
  BY <1>1, <1>4, <1>5, <1>6, PermitNumbered DEF HistoryInv
<1>8. CountInv'
  BY <1>4, <1>6, CountKept DEF HistoryInv
<1>9. StateInv'
  <2>1. e.allow = FALSE /\ e.permit_seq # 0
    BY <1>1, <1>3, PermitTaken DEF HistoryInv, StateInv, Of, COMPLETED
  <2> QED
    BY <1>1, <1>3, <1>4, <2>1, StateKept DEF HistoryInv
<1>10. RunStateInv'
  BY <1>4, EndedIsRefused, RunKept DEF HistoryInv, Take
<1> QED
  BY <1>4, <1>7, <1>8, <1>9, <1>10 DEF HistoryInv

\* An accepted release preserves the invariant.
LEMMA ReleaseStep ==
  ASSUME HistoryInv, NEW r, WellFormed(r), TakeRelease(r), vstatus' = NoFault
  PROVE  HistoryInv'
<1> DEFINE a == r.attempt_id
           n == r.lifecycle_seq
           t == Of(r)
           e == [Of(r) EXCEPT !.release_seq = r.lifecycle_seq]
<1>1. a \in Attempts /\ n \in Nat \ {0}
  BY DEF WellFormed, TakeRelease
<1>2. UpdateAttempt(a, e, {n})
  BY DEF TakeRelease, Judge
<1>3. /\ Entry(e) /\ e.state = t.state /\ e.auth_seq = t.auth_seq /\ e.permit_seq = t.permit_seq
      /\ e.release_seq = n /\ e.allow = t.allow
  BY <1>1 DEF HistoryInv, EntriesInv, Entry, Fields, Of
<1> HIDE DEF e
<1>4. /\ EntriesInv' /\ vatt'[a] = e
      /\ \A b \in Attempts \ {a} : vatt'[b] = vatt[b] /\ SameNumbers(b)
      /\ vseqs' = vseqs \cup {n} /\ vactive' = TRUE
      /\ UNCHANGED <<vrun, vcancel, vkill>>
  BY <1>1, <1>2, <1>3, EntryReplaced DEF HistoryInv
<1>5. AuthSeq(a)' = AuthSeq(a) /\ PermitSeq(a)' = PermitSeq(a) /\ ReleaseSeq(a)' = n
  BY <1>3, <1>4 DEF AuthSeq, PermitSeq, ReleaseSeq, Of
<1>6. /\ PermitSeq(a) # 0 /\ ReleaseSeq(a) = 0 /\ PermitSeq(a) < n /\ n \notin vseqs
      /\ ~Killed
  BY <1>1, ReleaseTaken DEF HistoryInv, NumbersInv, Of, PermitSeq, ReleaseSeq, NotDraining
<1>7. NumbersInv'
  BY <1>1, <1>4, <1>5, <1>6, ReleaseNumbered DEF HistoryInv
<1>8. CountInv'
  BY <1>4, <1>6, CountKept DEF HistoryInv
<1>9. StateInv'
  <2>1. /\ t.state \in TERMINAL \cup {"AUTHORIZED", "PERMITTED", "ATTEMPTED"}
        /\ t.state = "AUTHORIZED" => t.auth_seq # 0 /\ t.permit_seq = 0
        /\ t.permit_seq # 0
        /\ t.allow \in BOOLEAN /\ (t.allow = TRUE => t.state = COMPLETED)
    BY <1>1, <1>6 DEF HistoryInv, StateInv, Of, AuthSeq, PermitSeq
  <2> HIDE DEF t
  <2> QED
    BY <1>1, <1>3, <1>4, <2>1, StateKept DEF HistoryInv
<1>10. RunStateInv'
  BY <1>4, EndedIsRefused, RunKept DEF HistoryInv, Take
<1> QED
  BY <1>4, <1>7, <1>8, <1>9, <1>10 DEF HistoryInv

\* An accepted attempt record preserves the invariant.
LEMMA AttemptedStep ==
  ASSUME HistoryInv, NEW r, WellFormed(r), TakeAttempted(r), vstatus' = NoFault
  PROVE  HistoryInv'
<1> DEFINE a == r.attempt_id
           n == r.lifecycle_seq
           t == Of(r)
           e == [Of(r) EXCEPT !.state = "ATTEMPTED"]
<1>1. a \in Attempts
  BY DEF WellFormed, TakeAttempted
<1>2. UpdateAttempt(a, e, {})
  BY DEF TakeAttempted, Judge
<1>3. /\ Entry(e) /\ e.state = "ATTEMPTED" /\ e.auth_seq = t.auth_seq /\ e.permit_seq = t.permit_seq
      /\ e.release_seq = t.release_seq /\ e.allow = t.allow
  BY <1>1 DEF HistoryInv, EntriesInv, Entry, Fields, Of
<1> HIDE DEF e
<1>4. /\ EntriesInv' /\ vatt'[a] = e
      /\ \A b \in Attempts \ {a} : vatt'[b] = vatt[b] /\ SameNumbers(b)
      /\ vseqs' = vseqs \cup {} /\ vactive' = TRUE
      /\ UNCHANGED <<vrun, vcancel, vkill>>
  BY <1>1, <1>2, <1>3, EntryReplaced DEF HistoryInv
<1>5. \A b \in Attempts : SameNumbers(b)
  BY <1>1, <1>3, <1>4 DEF SameNumbers, AuthSeq, PermitSeq, ReleaseSeq, Of
<1>7. NumbersInv'
  BY <1>4, <1>5, NumbersKept DEF HistoryInv
<1>8. CountInv'
  BY <1>4, <1>5, CountKept DEF HistoryInv, SameNumbers
<1>9. StateInv'
  <2>1. e.permit_seq # 0 /\ e.allow = FALSE
    BY <1>1, <1>3, AttemptedTaken DEF HistoryInv, StateInv, PermitSeq, Of, COMPLETED
  <2> QED
    BY <1>1, <1>3, <1>4, <2>1, StateKept DEF HistoryInv
<1>10. RunStateInv'
  BY <1>4, EndedIsRefused, RunKept DEF HistoryInv, Take
<1> QED
  BY <1>4, <1>7, <1>8, <1>9, <1>10 DEF HistoryInv

\* An accepted terminal record preserves the invariant.
LEMMA TerminalStep ==
  ASSUME HistoryInv, NEW r, WellFormed(r), TakeTerminal(r), vstatus' = NoFault
  PROVE  HistoryInv'
<1> DEFINE a == r.attempt_id
           n == r.lifecycle_seq
           t == Of(r)
           e == [Of(r) EXCEPT !.state = r.decision, !.response = r.response]
<1>1. a \in Attempts
  BY DEF WellFormed, TakeTerminal, TERMINAL
<1>2. UpdateAttempt(a, e, {})
  BY DEF TakeTerminal, Judge
<1>3. /\ Entry(e) /\ e.state = r.decision /\ e.auth_seq = t.auth_seq /\ e.permit_seq = t.permit_seq
      /\ e.release_seq = t.release_seq /\ e.allow = t.allow
  BY <1>1 DEF HistoryInv, EntriesInv, Entry, Fields, Of
<1> HIDE DEF e
<1>4. /\ EntriesInv' /\ vatt'[a] = e
      /\ \A b \in Attempts \ {a} : vatt'[b] = vatt[b] /\ SameNumbers(b)
      /\ vseqs' = vseqs \cup {} /\ vactive' = TRUE
      /\ UNCHANGED <<vrun, vcancel, vkill>>
  BY <1>1, <1>2, <1>3, EntryReplaced DEF HistoryInv
<1>5. \A b \in Attempts : SameNumbers(b)
  BY <1>1, <1>3, <1>4 DEF SameNumbers, AuthSeq, PermitSeq, ReleaseSeq, Of
<1>7. NumbersInv'
  BY <1>4, <1>5, NumbersKept DEF HistoryInv
<1>8. CountInv'
  BY <1>4, <1>5, CountKept DEF HistoryInv, SameNumbers
<1>9. StateInv'
  <2>1. /\ r.decision \in TERMINAL /\ t.state \notin TERMINAL
        /\ r.decision \in {COMPLETED, UNKNOWN} => t.permit_seq # 0
    BY <1>1, TerminalTaken DEF TakeTerminal, LegalTerminal, HistoryInv, StateInv, PermitSeq, Of,
           TERMINAL, COMPLETED, FAILED, UNKNOWN, CANCELLED
  <2>2. t.allow = FALSE
    BY <1>1, <2>1 DEF HistoryInv, StateInv, Of, TERMINAL
  <2> QED
    BY <1>1, <1>3, <1>4, <2>1, <2>2, StateKept
    DEF HistoryInv, TERMINAL, COMPLETED, FAILED, UNKNOWN, CANCELLED
<1>10. RunStateInv'
  BY <1>4, EndedIsRefused, RunKept DEF HistoryInv, Take
<1> QED
  BY <1>4, <1>7, <1>8, <1>9, <1>10 DEF HistoryInv

\* An accepted ALLOW preserves the invariant.
LEMMA AllowStep ==
  ASSUME HistoryInv, NEW r, WellFormed(r), TakeAllow(r), vstatus' = NoFault
  PROVE  HistoryInv'
<1> DEFINE a == r.attempt_id
           n == r.lifecycle_seq
           t == Of(r)
           e == [Of(r) EXCEPT !.allow = TRUE]
<1>1. a \in Attempts
  BY DEF WellFormed, TakeAllow
<1>2. UpdateAttempt(a, e, {})
  BY DEF TakeAllow, Judge
<1>3. /\ Entry(e) /\ e.state = t.state /\ e.auth_seq = t.auth_seq /\ e.permit_seq = t.permit_seq
      /\ e.release_seq = t.release_seq /\ e.allow = TRUE
  BY <1>1 DEF HistoryInv, EntriesInv, Entry, Fields, Of
<1> HIDE DEF e
<1>4. /\ EntriesInv' /\ vatt'[a] = e
      /\ \A b \in Attempts \ {a} : vatt'[b] = vatt[b] /\ SameNumbers(b)
      /\ vseqs' = vseqs \cup {} /\ vactive' = TRUE
      /\ UNCHANGED <<vrun, vcancel, vkill>>
  BY <1>1, <1>2, <1>3, EntryReplaced DEF HistoryInv
<1>5. \A b \in Attempts : SameNumbers(b)
  BY <1>1, <1>3, <1>4 DEF SameNumbers, AuthSeq, PermitSeq, ReleaseSeq, Of
<1>7. NumbersInv'
  BY <1>4, <1>5, NumbersKept DEF HistoryInv
<1>8. CountInv'
  BY <1>4, <1>5, CountKept DEF HistoryInv, SameNumbers
<1>9. StateInv'
  <2>1. e.permit_seq # 0 /\ e.state = COMPLETED
    BY <1>1, <1>3, AllowTaken DEF HistoryInv, StateInv, PermitSeq, Of, COMPLETED
  <2>2. COMPLETED \in TERMINAL /\ COMPLETED # "AUTHORIZED"
    BY DEF TERMINAL, COMPLETED
  <2> QED
    BY <1>1, <1>3, <1>4, <2>1, <2>2, StateKept DEF HistoryInv
<1>10. RunStateInv'
  BY <1>4, EndedIsRefused, RunKept DEF HistoryInv, Take
<1> QED
  BY <1>4, <1>7, <1>8, <1>9, <1>10 DEF HistoryInv

\* An accepted connection termination preserves the invariant.
LEMMA ConnectionTerminatedStep ==
  ASSUME HistoryInv, NEW r, WellFormed(r), TakeConnectionTerminated(r), vstatus' = NoFault
  PROVE  HistoryInv'
<1> DEFINE a == r.attempt_id
           n == r.lifecycle_seq
           t == Of(r)
           e == [Of(r) EXCEPT !.terminated = TRUE]
<1>1. a \in Attempts
  BY DEF WellFormed, TakeConnectionTerminated
<1>2. UpdateAttempt(a, e, {})
  BY DEF TakeConnectionTerminated, Judge
<1>3. /\ Entry(e) /\ e.state = t.state /\ e.auth_seq = t.auth_seq /\ e.permit_seq = t.permit_seq
      /\ e.release_seq = t.release_seq /\ e.allow = t.allow
  BY <1>1 DEF HistoryInv, EntriesInv, Entry, Fields, Of
<1> HIDE DEF e
<1>4. /\ EntriesInv' /\ vatt'[a] = e
      /\ \A b \in Attempts \ {a} : vatt'[b] = vatt[b] /\ SameNumbers(b)
      /\ vseqs' = vseqs \cup {} /\ vactive' = TRUE
      /\ UNCHANGED <<vrun, vcancel, vkill>>
  BY <1>1, <1>2, <1>3, EntryReplaced DEF HistoryInv
<1>5. \A b \in Attempts : SameNumbers(b)
  BY <1>1, <1>3, <1>4 DEF SameNumbers, AuthSeq, PermitSeq, ReleaseSeq, Of
<1>7. NumbersInv'
  BY <1>4, <1>5, NumbersKept DEF HistoryInv
<1>8. CountInv'
  BY <1>4, <1>5, CountKept DEF HistoryInv, SameNumbers
<1>9. StateInv'
  <2>1. e.permit_seq # 0 /\ e.state = UNKNOWN /\ e.allow = FALSE
    BY <1>1, <1>3, ConnectionTerminatedTaken
    DEF HistoryInv, StateInv, PermitSeq, Of, UNKNOWN, COMPLETED
  <2>2. UNKNOWN \in TERMINAL /\ UNKNOWN # "AUTHORIZED"
    BY DEF TERMINAL, UNKNOWN
  <2> QED
    BY <1>1, <1>3, <1>4, <2>1, <2>2, StateKept DEF HistoryInv
<1>10. RunStateInv'
  BY <1>4, EndedIsRefused, RunKept DEF HistoryInv, Take
<1> QED
  BY <1>4, <1>7, <1>8, <1>9, <1>10 DEF HistoryInv

\* Records that leave the attempts and their numbers alone.
LEMMA AttemptsKept ==
  ASSUME EntriesInv, StateInv, NumbersInv, UNCHANGED <<vatt, vcancel, vseqs>>
  PROVE  EntriesInv' /\ StateInv' /\ NumbersInv'
<1>1. \A a \in Attempts : SameNumbers(a)
  BY DEF SameNumbers, AuthSeq, PermitSeq, ReleaseSeq
<1>2. NumbersInv'
  BY <1>1, NumbersKept
<1> QED
  BY <1>1, <1>2 DEF EntriesInv, StateInv, SameNumbers

\* A record that touches neither the entries nor the cancel and kill keeps the count.
LEMMA CountUnmoved ==
  ASSUME CountInv, UNCHANGED <<vatt, vcancel, vkill>>
  PROVE  CountInv'
BY CountKept DEF PermitSeq, ReleaseSeq

\* An accepted startup record of any kind preserves the invariant.
LEMMA StartupStep ==
  ASSUME HistoryInv, NEW r, TakeStartupDegraded(r) \/ TakeStartupFailed(r) \/ TakeStartup(r),
         vstatus' = NoFault
  PROVE  HistoryInv'
<1>1. /\ UNCHANGED <<vatt, vcancel, vseqs, vkill, vactive>>
      /\ vrun' = vrun \/ (TakeStartupFailed(r) /\ vrun' = "STARTUP_FAILED")
  BY DEF TakeStartupDegraded, TakeStartupFailed, TakeStartup, Judge
<1>2. EntriesInv' /\ StateInv' /\ NumbersInv' /\ CountInv'
  BY <1>1, AttemptsKept, CountUnmoved DEF HistoryInv
<1>3. RunStateInv'
  <2>1. CASE vrun' = vrun
    BY <1>1, <2>1 DEF HistoryInv, RunStateInv, Linearized, Killed, NoFault
  <2>2. CASE TakeStartupFailed(r) /\ vrun' = "STARTUP_FAILED"
    BY <1>1, <2>2, StartupFailedTaken
    DEF HistoryInv, RunStateInv, Linearized, Killed, NoFault, Cancelling
  <2> QED
    BY <1>1, <2>1, <2>2
<1> QED
  BY <1>2, <1>3 DEF HistoryInv

\* An accepted BLOCKED preserves the invariant.
LEMMA BlockedStep ==
  ASSUME HistoryInv, NEW r, TakeBlocked(r), vstatus' = NoFault
  PROVE  HistoryInv'
<1>1. UNCHANGED <<vatt, vcancel, vseqs, vkill, vrun>> /\ vactive' = TRUE
  BY DEF TakeBlocked, Judge
<1>2. EntriesInv' /\ StateInv' /\ NumbersInv' /\ CountInv'
  BY <1>1, AttemptsKept, CountUnmoved DEF HistoryInv
<1>3. RunStateInv'
  BY <1>1, EndedIsRefused, RunKept DEF HistoryInv, Take
<1> QED
  BY <1>2, <1>3 DEF HistoryInv

\* An accepted cancel request preserves the invariant.
LEMMA CancelRequestedStep ==
  ASSUME HistoryInv, NEW r, TakeCancelRequested(r), vstatus' = NoFault
  PROVE  HistoryInv'
<1>1. /\ UNCHANGED <<vatt, vcancel, vseqs, vkill>> /\ vactive' = TRUE
      /\ vrun' = "CANCEL_REQUESTED" /\ vrun = "RUNNING"
  BY CancelRequestedTaken DEF TakeCancelRequested, Judge
<1>2. EntriesInv' /\ StateInv' /\ NumbersInv' /\ CountInv'
  BY <1>1, AttemptsKept, CountUnmoved DEF HistoryInv
<1>3. RunStateInv'
  BY <1>1 DEF HistoryInv, RunStateInv, Linearized, Killed, NoFault, Cancelling
<1> QED
  BY <1>2, <1>3 DEF HistoryInv

\* An accepted linearization preserves the invariant.
LEMMA CancelLinearizedStep ==
  ASSUME HistoryInv, NEW r, WellFormed(r), TakeCancelLinearized(r), vstatus' = NoFault
  PROVE  HistoryInv'
<1> DEFINE n == r.lifecycle_seq
<1>1. /\ UNCHANGED <<vatt, vkill>> /\ vactive' = TRUE /\ vseqs' = vseqs \cup {n}
      /\ vrun' = "CANCEL_LINEARIZED" /\ CancelSeq' = n
  BY DEF TakeCancelLinearized, Judge, CancelSeq
<1>2. n \in Nat \ {0}
  BY DEF WellFormed, TakeCancelLinearized
<1>3. /\ vrun = "CANCEL_REQUESTED" /\ n \notin vseqs /\ ~Linearized
      /\ \A a \in Authorized : ~(vatt[a].auth_seq >= n) /\ ~(vatt[a].permit_seq >= n)
  BY LinearizedTaken DEF HistoryInv, RunStateInv, Cancelling
<1>4. \A a \in Attempts : AuthSeq(a) < n /\ PermitSeq(a) < n
  <2> SUFFICES ASSUME NEW a \in Attempts PROVE AuthSeq(a) < n /\ PermitSeq(a) < n
    OBVIOUS
  <2>1. CASE a \in Authorized
    BY <1>2, <1>3, <2>1 DEF HistoryInv, NumbersInv, AuthSeq, PermitSeq
  <2>2. CASE a \notin Authorized
    BY <1>2, <2>2 DEF Authorized, HistoryInv, StateInv
  <2> QED
    BY <2>1, <2>2
<1>5. NumbersInv'
  BY <1>1, <1>2, <1>3, <1>4, CancelNumbered DEF HistoryInv, Linearized, CancelSeq
<1>6. EntriesInv' /\ StateInv'
  BY <1>1 DEF HistoryInv, EntriesInv, StateInv, AuthSeq, PermitSeq, ReleaseSeq
<1>7. ~Killed /\ ~Killed'
  BY <1>1, <1>3 DEF HistoryInv, RunStateInv, Killed
<1>8. RunStateInv'
  BY <1>1, <1>2, <1>7 DEF HistoryInv, RunStateInv, Linearized, CancelSeq, NoFault, Cancelling
<1> QED
  BY <1>5, <1>6, <1>7, <1>8 DEF HistoryInv, CountInv

\* An accepted kill record preserves the invariant.
LEMMA KillSwitchStep ==
  ASSUME HistoryInv, NEW r, TakeKillSwitch(r), vstatus' = NoFault
  PROVE  HistoryInv'
<1>1. /\ UNCHANGED <<vatt, vseqs, vcancel, vrun>> /\ vactive' = TRUE
      /\ vkill'.lifecycle_seq = r.lifecycle_seq
  BY DEF TakeKillSwitch, Judge, Common
<1>2. /\ vrun = "CANCEL_LINEARIZED" /\ missing_releases = {}
      /\ Cardinality(logical_inflight) = vcancel.inflight_at_linearization
      /\ r.lifecycle_seq = vcancel.lifecycle_seq
  BY KillSwitchTaken
<1>3. EntriesInv' /\ StateInv' /\ NumbersInv'
  BY <1>1, AttemptsKept DEF HistoryInv
<1>4. CountInv'
  BY <1>1, <1>2 DEF CountInv, missing_releases, logical_inflight
<1>5. RunStateInv'
  BY <1>1, <1>2 DEF HistoryInv, RunStateInv, Linearized, Killed, NoFault, Cancelling
<1> QED
  BY <1>3, <1>4, <1>5 DEF HistoryInv

\* An accepted acknowledgement, drain timeout or closing record preserves the invariant.
LEMMA ClosureStep ==
  ASSUME HistoryInv, NEW r, TakeAck(r) \/ TakeDrainTimeout(r) \/ TakeRunClosed(r),
         vstatus' = NoFault
  PROVE  HistoryInv'
<1>1. /\ UNCHANGED <<vatt, vcancel, vseqs, vkill>> /\ vactive' = TRUE
      /\ vrun' \in {"ACKNOWLEDGED", "DRAIN_TIMEOUT", "CLOSED"}
  BY DEF TakeAck, TakeDrainTimeout, TakeRunClosed, Disposition, Judge
<1>2. Killed
  BY DispositionTaken, RunClosedTaken DEF HistoryInv, RunStateInv
<1>3. EntriesInv' /\ StateInv' /\ NumbersInv' /\ CountInv'
  BY <1>1, AttemptsKept, CountUnmoved DEF HistoryInv
<1>4. RunStateInv'
  BY <1>1, <1>2 DEF HistoryInv, RunStateInv, Linearized, Killed, NoFault, Cancelling
<1> QED
  BY <1>3, <1>4 DEF HistoryInv

-----------------------------------------------------------------------------
\* A record that is refused changes nothing but the status.
LEMMA RefusedStep ==
  ASSUME NEW r, Take(r), vstatus' # NoFault
  PROVE  UNCHANGED <<vrun, vstartup, vactive, vatt, vseqs, vreq, vcancel, vkill>>
<1> USE DEF Judge
<1>1. CASE TakeStartupDegraded(r) \/ TakeStartupFailed(r) \/ TakeStartup(r)
  BY <1>1 DEF TakeStartupDegraded, TakeStartupFailed, TakeStartup
<1>2. CASE TakeAuth(r) \/ TakePermit(r) \/ TakeAttempted(r)
  BY <1>2 DEF TakeAuth, TakePermit, TakeAttempted
<1>3. CASE TakeTerminal(r) \/ TakeAllow(r) \/ TakeRelease(r)
  BY <1>3 DEF TakeTerminal, TakeAllow, TakeRelease
<1>4. CASE TakeConnectionTerminated(r) \/ TakeBlocked(r)
  BY <1>4 DEF TakeConnectionTerminated, TakeBlocked
<1>5. CASE TakeCancelRequested(r) \/ TakeCancelLinearized(r) \/ TakeKillSwitch(r)
  BY <1>5 DEF TakeCancelRequested, TakeCancelLinearized, TakeKillSwitch
<1>6. CASE TakeAck(r) \/ TakeDrainTimeout(r) \/ TakeRunClosed(r)
  <2>1. ASSUME NEW invalid, NEW run, Disposition(r, invalid, run)
        PROVE  UNCHANGED <<vrun, vstartup, vactive, vatt, vseqs, vreq, vcancel, vkill>>
    BY <2>1 DEF Disposition
  <2>2. CASE TakeRunClosed(r)
    BY <2>2 DEF TakeRunClosed
  <2> QED
    BY <1>6, <2>1, <2>2, Zenon DEF TakeAck, TakeDrainTimeout
<1> QED
  BY <1>1, <1>2, <1>3, <1>4, <1>5, <1>6 DEF Take

\* Every record, accepted or not, preserves the invariant.
LEMMA HistoryStep == HistoryInv /\ [HistoryNext]_verifyVars => HistoryInv'
<1> SUFFICES ASSUME HistoryInv, [HistoryNext]_verifyVars PROVE HistoryInv'
  OBVIOUS
<1>1. CASE UNCHANGED verifyVars
  <2>1. EntriesInv' /\ StateInv' /\ NumbersInv' /\ CountInv'
    BY <1>1, AttemptsKept, CountUnmoved DEF HistoryInv, verifyVars
  <2>2. RunStateInv'
    BY <1>1 DEF HistoryInv, verifyVars, RunStateInv, Linearized, Killed
  <2> QED
    BY <2>1, <2>2 DEF HistoryInv
<1>2. ASSUME NEW r, WellFormed(r), Take(r), vstatus' # NoFault
      PROVE  HistoryInv'
  <2>1. UNCHANGED <<vrun, vactive, vatt, vseqs, vcancel, vkill>>
        /\ vstatus' # "LOCAL_HISTORY_VALID"
    BY <1>2, RefusedStep, EndedIsRefused
  <2>2. EntriesInv' /\ StateInv' /\ NumbersInv' /\ CountInv'
    BY <2>1, AttemptsKept, CountUnmoved DEF HistoryInv
  <2>3. RunStateInv'
    BY <2>1 DEF HistoryInv, RunStateInv, Linearized, Killed
  <2> QED
    BY <2>2, <2>3 DEF HistoryInv
<1>3. ASSUME NEW r, WellFormed(r), Take(r), vstatus' = NoFault
      PROVE  HistoryInv'
  BY <1>3, StartupStep, AuthStep, PermitStep, AttemptedStep, TerminalStep, AllowStep, ReleaseStep,
     ConnectionTerminatedStep, BlockedStep, CancelRequestedStep, CancelLinearizedStep,
     KillSwitchStep, ClosureStep, Zenon DEF Take
<1> QED
  BY <1>1, <1>2, <1>3 DEF HistoryNext

\* The invariant holds of every history scanned so far.
LEMMA HistoryInvariant == HistorySpec => []HistoryInv
BY HistoryInit, HistoryStep, PTL DEF HistorySpec

\* What one record may make of the status, the flags and the numbers in use.
LEMMA TakeTyped ==
  ASSUME NEW r, WellFormed(r), Take(r)
  PROVE  /\ vstatus' \in Statuses
         /\ vstartup' \in {vstartup, TRUE} /\ vactive' \in {vactive, TRUE}
         /\ vseqs' \subseteq vseqs \cup Nat
<1>1. vstatus' \in Statuses
  <2>1. PICK checks : /\ Checks(checks) /\ Worded(checks)
                      /\ vstatus' = FirstFault(HeadChecks(r) \o checks)
    BY TakeJudges
  <2> QED
    BY <2>1, JudgeWorded
<1> DEFINE Kept == /\ vstartup' \in {vstartup, TRUE} /\ vactive' \in {vactive, TRUE}
                   /\ vseqs' \subseteq vseqs \cup Nat
<1>3. CASE TakeStartupDegraded(r) \/ TakeStartupFailed(r) \/ TakeStartup(r) \/ TakeBlocked(r)
  <2>1. Kept
    BY <1>3 DEF TakeStartupDegraded, TakeStartupFailed, TakeStartup, TakeBlocked, Judge
  <2> QED
    BY <1>1, <2>1
<1>4. CASE TakeCancelRequested(r) \/ TakeKillSwitch(r) \/ TakeRunClosed(r)
  <2>1. Kept
    BY <1>4 DEF TakeCancelRequested, TakeKillSwitch, TakeRunClosed, Judge
  <2> QED
    BY <1>1, <2>1
<1>5. CASE TakeAck(r) \/ TakeDrainTimeout(r)
  <2>1. Kept
    BY <1>5 DEF TakeAck, TakeDrainTimeout, Disposition, Judge
  <2> QED
    BY <1>1, <2>1
<1>6. ASSUME NEW entry, NEW seqs \in SUBSET Nat,
             \/ UpdateAttempt(r.attempt_id, entry, seqs)
             \/ UNCHANGED <<vrun, vstartup, vactive, vatt, vseqs, vreq, vcancel, vkill>>
      PROVE  Kept
  BY <1>6 DEF UpdateAttempt
<1>7. CASE TakeAuth(r) \/ TakePermit(r) \/ TakeRelease(r)
  <2>1. {r.lifecycle_seq} \in SUBSET Nat
    BY <1>7 DEF WellFormed, TakeAuth, TakePermit, TakeRelease
  <2> HIDE DEF Kept
  <2>2. Kept
    BY <1>6, <1>7, <2>1, Zenon DEF TakeAuth, TakePermit, TakeRelease, Judge
  <2> QED
    BY <1>1, <2>2 DEF Kept
<1>8. CASE \/ TakeAttempted(r) \/ TakeTerminal(r) \/ TakeAllow(r)
           \/ TakeConnectionTerminated(r)
  <2>1. {} \in SUBSET Nat
    OBVIOUS
  <2> HIDE DEF Kept
  <2>2. Kept
    BY <1>6, <1>8, <2>1, Zenon
    DEF TakeAttempted, TakeTerminal, TakeAllow, TakeConnectionTerminated, Judge
  <2> QED
    BY <1>1, <2>2 DEF Kept
<1>9. CASE TakeCancelLinearized(r)
  <2>1. r.lifecycle_seq \in Nat
    BY <1>9 DEF WellFormed, TakeCancelLinearized
  <2>2. Kept
    BY <1>9, <2>1 DEF TakeCancelLinearized, Judge
  <2> QED
    BY <1>1, <2>2
<1> QED
  BY <1>3, <1>4, <1>5, <1>7, <1>8, <1>9 DEF Take

(* Whatever records a history consists of, the scan is in a state of its   *)
(* type: it ends with a status of the verifier, every attempt is in a      *)
(* state of the attempt machine and its numbers are among those in use.    *)
THEOREM HistoryTypeCorrect == HistorySpec => []VerifyTypeOK
<1> DEFINE Typed == /\ vstatus \in Statuses /\ vstartup \in BOOLEAN /\ vactive \in BOOLEAN
                    /\ vseqs \subseteq Nat
<1>1. VerifyInit => Typed
  BY DEF VerifyInit, Statuses
<1>2. Typed /\ [HistoryNext]_verifyVars => Typed'
  <2> SUFFICES ASSUME Typed, [HistoryNext]_verifyVars PROVE Typed'
    OBVIOUS
  <2>1. CASE UNCHANGED verifyVars
    BY <2>1 DEF verifyVars
  <2>2. CASE HistoryNext
    <3>1. PICK r : WellFormed(r) /\ Take(r)
      BY <2>2 DEF HistoryNext
    <3> QED
      BY <3>1, TakeTyped
  <2> QED
    BY <2>1, <2>2
<1>3. HistoryInv /\ Typed => VerifyTypeOK
  BY DEF VerifyTypeOK, HistoryInv, RunStateInv, Cancelling, StateInv, NumbersInv, Owned,
         AuthSeq, PermitSeq, ReleaseSeq
<1> QED
  BY <1>1, <1>2, <1>3, HistoryInvariant, PTL DEF HistorySpec

-----------------------------------------------------------------------------
(* What a valid history is.                                                *)

\* A valid history is one that was closed after its kill switch.
LEMMA ValidIsClosed ==
  ASSUME HistoryInv, Valid
  PROVE  /\ vrun = "CLOSED" /\ Linearized /\ Killed
         /\ incomplete_attempts = {} /\ missing_allows = {} /\ missing_releases = {}
<1>1. /\ Authorized # {} /\ incomplete_attempts = {} /\ missing_allows = {}
      /\ missing_releases = {}
      /\ vrun \notin {"RUNNING", "CANCEL_REQUESTED", "CANCEL_LINEARIZED",
                      "DRAIN_TIMEOUT", "ACKNOWLEDGED"}
  BY ValidIsComplete DEF HistoryInv, RunStateInv
<1>2. vrun # "STARTUP_FAILED"
  BY <1>1 DEF Authorized, HistoryInv, RunStateInv
<1> QED
  BY <1>1, <1>2 DEF HistoryInv, RunStateInv, Cancelling

(* Whatever well-formed records a history consists of, if the verifier     *)
(* finds it LOCAL_HISTORY_VALID then every attempt has an outcome; one     *)
(* that may have reached its target has a permit numbered below C and a    *)
(* release; ALLOW stands for exactly the completed attempts.               *)
THEOREM ValidIsSettled == HistorySpec => []ValidAttemptsAreSettled
<1>1. HistoryInv => ValidAttemptsAreSettled
  <2> SUFFICES ASSUME HistoryInv, Valid, NEW a \in Authorized
               PROVE  /\ vatt[a].state \in TERMINAL
                      /\ vatt[a].state \in {COMPLETED, UNKNOWN} =>
                           /\ 0 < vatt[a].permit_seq
                           /\ vatt[a].permit_seq < vcancel.lifecycle_seq
                           /\ 0 < vatt[a].release_seq
                      /\ vatt[a].allow <=> vatt[a].state = COMPLETED
    BY DEF ValidAttemptsAreSettled
  <2>1. /\ Linearized /\ incomplete_attempts = {} /\ missing_allows = {}
        /\ missing_releases = {} /\ a \in Attempts /\ vatt[a].state # "NONE"
    BY ValidIsClosed DEF Authorized
  <2>2. vatt[a].state \in TERMINAL
    BY <2>1 DEF HistoryInv, StateInv, incomplete_attempts
  <2>3. vatt[a].state \in {COMPLETED, UNKNOWN} =>
           PermitSeq(a) # 0 /\ ReleaseSeq(a) # 0 /\ PermitSeq(a) < CancelSeq
    BY <2>1 DEF HistoryInv, StateInv, NumbersInv, Ordered, Linearized, CancelSeq,
                missing_releases, PermitSeq, ReleaseSeq
  <2>4. PermitSeq(a) \in Nat /\ ReleaseSeq(a) \in Nat
    BY <2>1 DEF HistoryInv, NumbersInv
  <2>5. vatt[a].allow <=> vatt[a].state = COMPLETED
    BY <2>1 DEF HistoryInv, StateInv, missing_allows
  <2> QED
    BY <2>2, <2>3, <2>4, <2>5 DEF PermitSeq, ReleaseSeq, CancelSeq
<1> QED
  BY <1>1, HistoryInvariant, PTL

(* A LOCAL_HISTORY_VALID history carries the numbers of a possible run of  *)
(* the permit lock (RunContext), for any number of attempts and any        *)
(* sequence numbers.                                                       *)
THEOREM ValidIsALockHistory == HistorySpec => []ValidHistoryIsALockHistory
<1>1. ASSUME HistoryInv, Valid
      PROVE  /\ Lock!UniqueSequences /\ Lock!SequenceEquations
             /\ Lock!CountAtLinearization /\ Lock!Drained
  <2>1. /\ Linearized /\ Killed /\ missing_releases = {}
    BY <1>1, ValidIsClosed
  <2>2. /\ \A a \in Attempts : /\ Lock!A(a) = AuthSeq(a) /\ Lock!P(a) = PermitSeq(a)
                               /\ Lock!R(a) = ReleaseSeq(a)
        /\ Lock!C = CancelSeq
    BY DEF Lock!A, Lock!P, Lock!R, Lock!C, AuthSeq, PermitSeq, ReleaseSeq, CancelSeq
  <2>3. Lock!UniqueSequences
    BY <1>1, <2>2 DEF HistoryInv, NumbersInv, Unique, Lock!UniqueSequences
  <2>4. Lock!SequenceEquations
    BY <1>1, <2>2 DEF HistoryInv, NumbersInv, Ordered, Lock!SequenceEquations
  <2>5. Lock!InflightAtC = logical_inflight
    BY <1>1, <2>1, <2>2
    DEF HistoryInv, NumbersInv, Lock!InflightAtC, logical_inflight, missing_releases,
        PermitSeq, ReleaseSeq, CancelSeq
  <2>6. Lock!CountAtLinearization
    <3>1. Lock!Cardinality(logical_inflight) = Cardinality(logical_inflight)
      BY DEF Lock!Cardinality, Cardinality
    <3> QED
      BY <1>1, <2>1, <2>5, <3>1 DEF HistoryInv, CountInv, Lock!CountAtLinearization
  <2>7. Lock!Drained
    BY <2>1 DEF Lock!Drained
  <2> QED
    BY <2>3, <2>4, <2>6, <2>7
<1>2. HistoryInv => ValidHistoryIsALockHistory
  BY <1>1 DEF ValidHistoryIsALockHistory
<1> QED
  BY <1>2, HistoryInvariant, PTL

(* No record appended to a valid history leaves it valid, and none repairs *)
(* a drain timeout or a failed startup.                                    *)
THEOREM FinalVerdict == HistorySpec => VerdictIsFinal
<1>1. HistoryInv /\ [HistoryNext]_verifyVars
        => [/\ Valid => vstatus' = "RECORD_AFTER_RUN_CLOSURE"
            /\ vrun \in {"DRAIN_TIMEOUT", "STARTUP_FAILED"} => vstatus' # NoFault]_verifyVars
  <2> SUFFICES ASSUME HistoryInv, NEW r, Take(r)
               PROVE  /\ Valid => vstatus' = "RECORD_AFTER_RUN_CLOSURE"
                      /\ vrun \in {"DRAIN_TIMEOUT", "STARTUP_FAILED"} => vstatus' # NoFault
    BY DEF HistoryNext
  <2> QED
    BY EndedIsRefused, ValidIsClosed
<1> QED
  BY <1>1, HistoryInvariant, PTL DEF HistorySpec, VerdictIsFinal
=============================================================================
