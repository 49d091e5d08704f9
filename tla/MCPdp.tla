------------------------------- MODULE MCPdp -------------------------------
(* Two programs, one asset, one credential; the operator rotates the       *)
(* credential, moves the source to another program and withdraws an        *)
(* address or an exemption.  The lookup may answer in one family, in both, *)
(* with one forbidden address (which the operator even exempts), or with   *)
(* IPv6 addresses that embed a forbidden or a private IPv4 one.            *)
EXTENDS Pdp

CONSTANTS c1, c2

Address(family, class, id, embeds) ==
  [family |-> family, class |-> class, id |-> id, embeds |-> embeds]

six == Address("ipv6", "unique_local", 6, None)
four == Address("ipv4", "public", 4, None)
loopback == Address("ipv4", "loopback", 127, None)
lan == Address("ipv4", "private", 10, None)
\* As they are written, the ones with an IPv4 address inside look public.
sixToLoopback == Address("ipv6", "public", 2002, loopback)
mappedLan == Address("ipv6", "public", 65535, lan)

McAddresses == {six, four, loopback, lan, sixToLoopback, mappedLan}

McZone == {[v6 |-> <<six>>, v4 |-> <<four>>], [v6 |-> <<>>, v4 |-> <<four>>],
           [v6 |-> <<six>>, v4 |-> <<four, loopback>>], [v6 |-> <<>>, v4 |-> <<>>],
           [v6 |-> <<six, sixToLoopback>>, v4 |-> <<>>],
           [v6 |-> <<mappedLan>>, v4 |-> <<four>>]}

McRequests ==
  {[source |-> "sandbox", target |-> "target", asset |-> "asset", cred |-> "cred",
    method |-> "GET"],
   [source |-> "sandbox", target |-> "target", asset |-> None, cred |-> None,
    method |-> "GET"]}

Program(cap, assetCap, ips, exempt) ==
  [active |-> TRUE, verified_at |-> "monday", targets |-> {"target"},
   allow_connect |-> TRUE, allowed_methods |-> {"GET"},
   allowed_families |-> {"ipv4", "ipv6"}, private_ip_exemptions |-> exempt,
   authorized_ips |-> ips, max_requests |-> cap,
   asset_max_requests |-> [a \in Assets |-> assetCap]]

\* The source's program is the one that holds the credential.
Policy(generation, prog, A, B, key) ==
  [policy_generation |-> generation, networks |-> [s \in {"sandbox"} |-> prog],
   programs |-> [p \in Programs |-> IF p = "A" THEN A ELSE B],
   credentials |-> [k \in {"cred"} |->
     [program_id |-> prog, assets |-> Assets, destinations |-> {"target"},
      secret |-> key]]]

Lab == {six, lan, loopback}
Wide(assetCap) == Program(2, assetCap, {six, four, mappedLan}, Lab)

(* All but one carry no policy_generation, as the repository's own: their  *)
(* verified_at stands in for it, and an edit need not change it.           *)
Base == Policy(None, "A", Wide(1), Wide(None), "key1")
Rotated == Policy("g2", "A", Program(1, None, {six, four, mappedLan}, {six}), Wide(1), "key2")
Moved == Policy(None, "B", Wide(1), Wide(None), "key3")
Narrowed == Policy(None, "A", Program(2, 1, {four}, Lab), Wide(None), "key4")

Issued == {Base, Rotated, Moved, Narrowed}
=============================================================================
