---------------------------- MODULE MCAuthStore ----------------------------
(* Bounds for AuthStore: three logins of two users, so that a login can be  *)
(* answered after a later one and a logout; two reloads.                   *)
EXTENDS AuthStore

CONSTANTS k1, k2, k3, u1, u2
MCLogins == {k1, k2, k3}
MCUsers == {u1, u2}
=============================================================================
