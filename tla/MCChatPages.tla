---------------------------- MODULE MCChatPages ----------------------------
(* Bounds for ChatPages: two users, one of them with a page, and three      *)
(* calls, enough for two first contacts that race and a message typed in    *)
(* one of the two conversations they leave, or for a conversation with      *)
(* oneself next to another one and a note.                                  *)
EXTENDS ChatPages, TLC

CONSTANTS ann, bob, pa, l1, r1, r2, r3
MCUsers == {ann, bob}
MCContacts == {<<ann, bob>>, <<bob, ann>>, <<ann, ann>>}
MCPages == {pa}
MCLoads == {l1}
MCCalls == {r1, r2, r3}
MCPageCalls == {r3}
CallSymmetry == Permutations(MCCalls \ MCPageCalls)
=============================================================================
