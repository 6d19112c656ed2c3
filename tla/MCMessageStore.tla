--------------------------- MODULE MCMessageStore ---------------------------
(* Bounds for MessageStore: one conversation of three messages with pages   *)
(* of two, so that a page can miss old as well as new messages, and two     *)
(* loads, which may overlap and answer out of order.                        *)
EXTENDS MessageStore

CONSTANTS c1, m1, m2, o1, l1, l2
MCConversations == {c1}
MCIncoming == {m1, m2}
MCOutgoing == {o1}
MCLoads == {l1, l2}
MCConversationOf == [m \in Incoming \cup Outgoing |-> c1]
AllOutcomes == {"rejects", "sent"}
=============================================================================
