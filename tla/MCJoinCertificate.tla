------------------------- MODULE MCJoinCertificate --------------------------
(* Values for the constants of JoinCertificate: one nominator, one node.    *)
EXTENDS JoinCertificate, TLC

CONSTANTS u1, n1

MCOneUser == {u1}
MCNodes == {n1}
=============================================================================
