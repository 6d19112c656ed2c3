---------------------------- MODULE TokenLedger ----------------------------
(***************************************************************************)
(* What auth.service.ts promises about refresh tokens, without requests,   *)
(* tables or clocks: a token is issued once, dies once, and is exchanged   *)
(* for another only when it is dead.                                       *)
(***************************************************************************)
CONSTANTS Tokens, Initial, None

VARIABLES state,   \* "unissued", "live" or "dead"
          parent   \* the token each token was issued in exchange for, or None

vars == <<state, parent>>

Init ==
  /\ state = [t \in Tokens |-> IF t \in Initial THEN "live" ELSE "unissued"]
  /\ parent = [t \in Tokens |-> None]

Issue(t, p) ==
  /\ state[t] = "unissued"
  /\ p = None \/ (p \in Tokens /\ state[p] = "dead")
  /\ state' = [state EXCEPT ![t] = "live"]
  /\ parent' = [parent EXCEPT ![t] = p]

\* Any number of live tokens die together.
Kill(dying) ==
  /\ \A t \in dying : state[t] = "live"
  /\ state' = [t \in Tokens |-> IF t \in dying THEN "dead" ELSE state[t]]
  /\ UNCHANGED parent

Next ==
  \/ \E t \in Tokens, p \in Tokens \cup {None} : Issue(t, p)
  \/ \E dying \in SUBSET Tokens : Kill(dying)

Spec == Init /\ [][Next]_vars
=============================================================================
