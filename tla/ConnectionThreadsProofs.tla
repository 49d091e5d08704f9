----------------------- MODULE ConnectionThreadsProofs -----------------------
(***************************************************************************)
(* Proofs about one connection's handles under the handler and the kill    *)
(* switch, for every set of connections.                                   *)
(*                                                                         *)
(* OwnedHandlesDie is not inductive: between the two halves of the kill    *)
(* switch the handles still usable must all be retained (MarkedRetains),   *)
(* and a handle that becomes usable later must not be owned already, which *)
(* follows from the order in which the handler takes its handles           *)
(* (StageOwns).                                                            *)
(***************************************************************************)
EXTENDS ConnectionThreads, TLAPS

\* What a connection can own at each stage of its handler.
StageOwns ==
  \A c \in Conns :
    /\ stage[c] \in {"new", "accepted"} => sockets[c] = {}
    /\ stage[c] \in {"tracked", "client_tls"} => sockets[c] \subseteq {"raw"}
    /\ stage[c] \in {"inside", "opened"} => sockets[c] \subseteq {"raw", "tls"}
    /\ stage[c] \in {"permitted", "upstream_tls"} =>
         sockets[c] \subseteq {"raw", "tls", "plain"}
    /\ stage[c] = "sending" => "up" \in sockets[c]

\* From the mark on the connection is terminal and the list is complete.
MarkedRetains ==
  \A c \in Conns :
    /\ kill[c] # "none" => terminal[c]
    /\ kill[c] = "marked" => sockets[c] \cap usable[c] \subseteq retained[c]

ThreadInv == ThreadTypeOK /\ StageOwns /\ MarkedRetains /\ OwnedHandlesDie

-----------------------------------------------------------------------------
(* A connection that nobody has accepted yet.                              *)
LEMMA ThreadInitInv == ThreadInit => ThreadInv
BY DEF ThreadInit, ConnInit, ThreadInv, ThreadTypeOK, StageOwns, MarkedRetains,
       OwnedHandlesDie, Handles

(* Each step of the handler: a handle is owned by a connection that is not *)
(* terminal, or made usable while nobody owns it.                          *)
LEMMA HandlerInv ==
  ASSUME ThreadInv, NEW c \in Conns, Handler(c)
  PROVE  ThreadInv'
<1> USE DEF ThreadInv, ThreadTypeOK, StageOwns, MarkedRetains, OwnedHandlesDie,
            Go, Handles
<1>1. CASE Accept(c)
  BY <1>1 DEF Accept, Open
<1>2. CASE TrackRaw(c)
  BY <1>2 DEF TrackRaw, Track, ShutdownClose
<1>3. CASE WrapRaw(c)
  BY <1>3 DEF WrapRaw, Wrap
<1>4. CASE TransferTls(c)
  BY <1>4 DEF TransferTls, Transfer, ShutdownClose
<1>5. CASE OpenPlain(c)
  BY <1>5 DEF OpenPlain, Open
<1>6. CASE TrackPlain(c)
  BY <1>6 DEF TrackPlain, Track, ShutdownClose
<1>7. CASE WrapPlain(c)
  BY <1>7 DEF WrapPlain, Wrap
<1>8. CASE TransferUp(c)
  BY <1>8 DEF TransferUp, Transfer, ShutdownClose
<1>9. CASE SendRequest(c)
  BY <1>9 DEF SendRequest, connVars
<1>10. CASE Fail(c)
  BY <1>10 DEF Fail
<1>11. CASE CloseAll(c)
  BY <1>11 DEF CloseAll, Terminate
<1>12. CASE Finish(c)
  BY <1>12 DEF Finish, ShutdownClose
<1> QED
  BY <1>1, <1>2, <1>3, <1>4, <1>5, <1>6, <1>7, <1>8, <1>9, <1>10, <1>11, <1>12
     DEF Handler

(* begin_termination() retains everything owned.                           *)
LEMMA MarkInv ==
  ASSUME ThreadInv, NEW c \in Conns, Mark(c)
  PROVE  ThreadInv'
BY DEF ThreadInv, ThreadTypeOK, StageOwns, MarkedRetains, OwnedHandlesDie,
       Handles, Mark, BeginTermination

(* shutdown_retained() leaves nothing owned usable.                        *)
LEMMA ShutInv ==
  ASSUME ThreadInv, NEW c \in Conns, Shut(c)
  PROVE  ThreadInv'
BY DEF ThreadInv, ThreadTypeOK, StageOwns, MarkedRetains, OwnedHandlesDie,
       Handles, Shut, ShutdownRetained

(* Every step of the two threads preserves the invariant.                  *)
LEMMA ThreadStepInv == ThreadInv /\ [ThreadNext]_threadVars => ThreadInv'
<1> SUFFICES ASSUME ThreadInv, [ThreadNext]_threadVars PROVE ThreadInv'
  OBVIOUS
<1>1. ASSUME NEW c \in Conns, Handler(c) PROVE ThreadInv'
  BY <1>1, HandlerInv
<1>2. ASSUME NEW c \in Conns, Mark(c) PROVE ThreadInv'
  BY <1>2, MarkInv
<1>3. ASSUME NEW c \in Conns, Shut(c) PROVE ThreadInv'
  BY <1>3, ShutInv
<1>4. CASE UNCHANGED threadVars
  BY <1>4 DEF threadVars, ThreadInv, ThreadTypeOK, StageOwns, MarkedRetains,
              OwnedHandlesDie
<1> QED
  BY <1>1, <1>2, <1>3, <1>4 DEF ThreadNext

-----------------------------------------------------------------------------
(* The inductive invariant holds in every reachable state.                 *)
THEOREM ThreadInvariant == ThreadSpec => []ThreadInv
BY ThreadInitInv, ThreadStepInv, PTL DEF ThreadSpec

(* After shutdown_retained() no handle the connection owns is usable,      *)
(* however the handler was interleaved with the kill switch.               *)
THEOREM HandlesDie == ThreadSpec => []OwnedHandlesDie
<1>1. ThreadInv => OwnedHandlesDie
  BY DEF ThreadInv
<1> QED
  BY <1>1, ThreadInvariant, PTL

(* No sendall() of a request succeeds after the connection's teardown.     *)
THEOREM NoLateRequest == ThreadSpec => NoRequestAfterShutdown
<1> DEFINE Quiet == \A c \in Conns : stage[c] = "sending" /\ stage'[c] = "sent"
                                       => kill[c] # "shut"
<1>1. ASSUME ThreadInv, ThreadNext PROVE Quiet
  <2> SUFFICES ASSUME NEW c \in Conns, stage[c] = "sending", stage'[c] = "sent"
               PROVE  kill[c] # "shut"
    OBVIOUS
  <2>1. "up" \in usable[c]
    BY <1>1 DEF ThreadInv, ThreadTypeOK, ThreadNext, Handler, Go, Accept,
       TrackRaw, WrapRaw, TransferTls, OpenPlain, TrackPlain, WrapPlain,
       TransferUp, SendRequest, Fail, CloseAll, Finish, Mark, Shut
  <2>2. "up" \in sockets[c]
    BY <1>1 DEF ThreadInv, StageOwns
  <2> QED
    BY <1>1, <2>1, <2>2 DEF ThreadInv, OwnedHandlesDie
<1>2. ThreadInv /\ [ThreadNext]_threadVars => [Quiet]_threadVars
  BY <1>1
<1> QED
  BY <1>2, ThreadInvariant, PTL DEF ThreadSpec, NoRequestAfterShutdown
=============================================================================
