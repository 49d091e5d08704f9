------------------------- MODULE ConnectionLifecycle -------------------------
(***************************************************************************)
(* ConnectionLifecycle of pep/lifecycle.py: the terminal flag of one       *)
(* client connection and the socket handles it owns, under its own lock.   *)
(* A connection uses at most four handles:                                 *)
(*   raw    the accepted client socket      tls  its TLS wrapper           *)
(*   plain  the upstream socket             up   its TLS wrapper           *)
(* usable[c] are the handles whose descriptor is open and not shut down.   *)
(* retained[c] is the list begin_termination() returned to the kill        *)
(* switch, which shuts those handles down later, outside the lock.         *)
(***************************************************************************)
EXTENDS Naturals, FiniteSets

CONSTANT Conns          \* client connections

VARIABLES
  terminal,   \* ConnectionLifecycle._terminal
  sockets,    \* ConnectionLifecycle._sockets
  usable,     \* handles with an open, connected-or-connectable descriptor
  retained    \* handles returned by begin_termination(), not yet shut down

connVars == <<terminal, sockets, usable, retained>>

Handles == {"raw", "tls", "plain", "up"}

ConnInit ==
  /\ terminal = [c \in Conns |-> FALSE]
  /\ sockets = [c \in Conns |-> {}]
  /\ usable = [c \in Conns |-> {}]
  /\ retained = [c \in Conns |-> {}]

\* accept() or socket.socket(): a descriptor nobody has registered yet.
Open(c, h) ==
  /\ usable' = [usable EXCEPT ![c] = @ \cup {h}]
  /\ UNCHANGED <<terminal, sockets, retained>>

\* _shutdown_close(sock) by the thread that still holds the handle alone.
ShutdownClose(c, h) ==
  /\ usable' = [usable EXCEPT ![c] = @ \ {h}]
  /\ UNCHANGED <<terminal, sockets, retained>>

\* Mutant: a terminal connection still takes ownership.
TrackAlways(c, h) ==
  /\ sockets' = [sockets EXCEPT ![c] = @ \cup {h}]
  /\ UNCHANGED <<terminal, usable, retained>>

(* track_or_reject(sock): owned from now on, or closed because the         *)
(* connection is terminal.  It returns ~terminal[c].                       *)
Track(c, h) ==
  \/ /\ ~terminal[c]
     /\ sockets' = [sockets EXCEPT ![c] = @ \cup {h}]
     /\ UNCHANGED <<terminal, usable, retained>>
  \/ /\ terminal[c]
     /\ ShutdownClose(c, h)

\* socket.socket() and track() of a handle no other thread can see between.
OpenTracked(c, h) ==
  \/ /\ ~terminal[c]
     /\ sockets' = [sockets EXCEPT ![c] = @ \cup {h}]
     /\ usable' = [usable EXCEPT ![c] = @ \cup {h}]
     /\ UNCHANGED <<terminal, retained>>
  \/ terminal[c] /\ UNCHANGED connVars

(* SSLContext.wrap_socket(old) moves the descriptor into the wrapper       *)
(* (socket.detach) before the handshake starts: old is dead, and the       *)
(* wrapper is unknown to the connection until transfer().                  *)
Wrap(c, old, new) ==
  /\ old \in usable[c]
  /\ usable' = [usable EXCEPT ![c] = (@ \ {old}) \cup {new}]
  /\ UNCHANGED <<terminal, sockets, retained>>

\* Mutant: the wrapper is not registered in place of the socket.
TransferNothing(c, old, new) ==
  \/ ~terminal[c] /\ UNCHANGED connVars
  \/ terminal[c] /\ ShutdownClose(c, new)

\* Mutant: a terminal connection rejects the wrapper without closing it.
TransferWithoutClose(c, old, new) ==
  \/ /\ ~terminal[c]
     /\ sockets' = [sockets EXCEPT ![c] = @ \cup {old, new}]
     /\ UNCHANGED <<terminal, usable, retained>>
  \/ terminal[c] /\ UNCHANGED connVars

\* transfer(old, new) returns ~terminal[c]; old stays registered.
Transfer(c, old, new) ==
  \/ /\ ~terminal[c]
     /\ sockets' = [sockets EXCEPT ![c] = @ \cup {old, new}]
     /\ UNCHANGED <<terminal, usable, retained>>
  \/ /\ terminal[c]
     /\ ShutdownClose(c, new)

\* begin_termination(): no socket I/O, so every victim is marked first.
BeginTermination(c) ==
  /\ terminal' = [terminal EXCEPT ![c] = TRUE]
  /\ retained' = [retained EXCEPT ![c] = sockets[c]]
  /\ UNCHANGED <<sockets, usable>>

\* shutdown_retained(socks).
ShutdownRetained(c) ==
  /\ usable' = [usable EXCEPT ![c] = @ \ retained[c]]
  /\ retained' = [retained EXCEPT ![c] = {}]
  /\ UNCHANGED <<terminal, sockets>>

(* terminate(), as close_all() by the handler itself: it is the only thread*)
(* that adds handles, so its two halves are one step.                      *)
Terminate(c) ==
  /\ terminal' = [terminal EXCEPT ![c] = TRUE]
  /\ usable' = [usable EXCEPT ![c] = @ \ sockets[c]]
  /\ UNCHANGED <<sockets, retained>>
=============================================================================
