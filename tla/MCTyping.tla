------------------------------ MODULE MCTyping ------------------------------
(* Bounds for Typing: two peers, so that the timer can move from one to the *)
(* other; two mounts, so that two timers can run; three keystrokes.         *)
EXTENDS Typing

CONSTANTS ann, bob
MCPeers == {ann, bob}
=============================================================================
