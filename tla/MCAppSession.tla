---------------------------- MODULE MCAppSession ----------------------------
(* Bounds for AppSession: three sockets for the restarts two user objects   *)
(* and a logout can cause.  When they are used up Setup is disabled, which *)
(* ends the exploration of restarts and nothing else.                      *)
EXTENDS AppSession

CONSTANTS s1, s2, s3, u1, u2
MCSockets == {s1, s2, s3}
MCUsers == {u1, u2}
=============================================================================
