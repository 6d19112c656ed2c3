--------------------------- MODULE MCContactSearch ---------------------------
(* Bounds for ContactSearch: two queries and the empty one, and four runs   *)
(* of the timer, so that three requests can be on their way at once.        *)
EXTENDS ContactSearch

CONSTANTS a, ab, blank
MCQueries == {a, ab, blank}
=============================================================================
