------------------------------ MODULE MCParts ------------------------------
(***************************************************************************)
(* A small instance of each part.                                          *)
(***************************************************************************)
EXTENDS Parts

CONSTANTS t1, t2, k1, c1, c2, c3, q1, q2, q3, q4, p1, p2,
          h1, h2, a1, a2, n1, n2, o1, r1, read, del

\* Two ids, one of them sent with two keys, and two names.
MCManifests ==
  {[id |-> a1, key |-> 1, name |-> n1], [id |-> a1, key |-> 2, name |-> n2],
   [id |-> a2, key |-> 2, name |-> n1]}

\* The breaker of Redis as the registry configures it, and one for which a single
\* success does not close the circuit.
MCBrConfigs ==
  {BrPresets["redis"], [failures |-> 3, window |-> 2, recovery |-> 1, successes |-> 2]}
=============================================================================
