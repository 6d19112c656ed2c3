---------------------------- MODULE MCSocketLink ----------------------------
(* Bounds for SocketLink: three sockets, so that an orphan can outlive two  *)
(* replacements, and three attempts instead of ten.  The finite set of     *)
(* sockets is what bounds reconnectAttempts.                               *)
EXTENDS SocketLink, TLC

CONSTANTS s1, s2, s3
MCSockets == {s1, s2, s3}
Symmetry == Permutations(MCSockets)
=============================================================================
