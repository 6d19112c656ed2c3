---------------------------- MODULE MCAuthService ----------------------------
(* Bounds for AuthService: one account with a session and one that does not *)
(* exist yet, a weak and a strong password, and as many requests as two    *)
(* racing calls and the call that set them up need.                        *)
EXTENDS AuthService, TLC

CONSTANTS r1, r2, r3, a1, a2, weak, strong
ThreeRequests == {r1, r2, r3}
MCAccounts == {a1, a2}
MCProvisioned == {a1}
MCPasswords == {weak, strong}
MCStrong == {strong}
Symmetry == Permutations(Requests)
=============================================================================
