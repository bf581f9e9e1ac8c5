---------------------------- MODULE MCConnections ----------------------------
(***************************************************************************)
(* Instances of Connections for TLC: a proxy, two clients in one network   *)
(* block and one elsewhere.                                                *)
(***************************************************************************)
EXTENDS Connections, TLC

CONSTANTS proxy, near, next, far,   \* addresses
          block                     \* the key near and next share

AllAddrs == {proxy, near, next, far}
AllKeys  == {proxy, block, far}

SourceKey == [a \in Addrs |-> IF a \in {near, next} THEN block ELSE a]

\* Every port behind the proxy; none; or the plaintext port open to the world
\* and the TLS port in the middle of its cutover.
Proxied == [l \in Listeners |-> "required"]
Unproxied == [l \in Listeners |-> "off"]
Cutover == [l \in Listeners |-> IF l = "tls" THEN "optional" ELSE "off"]

NearMask == {{near}}

Symmetry == Permutations(Conns)

=============================================================================
