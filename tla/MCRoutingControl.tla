-------------------------- MODULE MCRoutingControl --------------------------
(* One probed upstream with a ring of two, one without ring and probe.      *)
EXTENDS RoutingControl
CONSTANTS u1, u2
MCRingSize == [u \in {u1, u2} |-> IF u = u1 THEN 2 ELSE 0]
=============================================================================
