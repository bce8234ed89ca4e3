--------------------------- MODULE MCChatservice ---------------------------
(* Instances of Chatservice for TLC.                                       *)
EXTENDS Chatservice, TLC

CONSTANTS s1, s2, c1, c2, c3, a, b, m1, m2, g1

\* Two servers behind the load balancer: c1 on s1, every other one on s2.
OneAndTwo == [c \in Conns |-> IF c = c1 THEN s1 ELSE s2]
AllOnS1 == [c \in Conns |-> s1]
ToB == [m \in ChatMsgs |-> b]
Both == [m \in GroupMsgs |-> {a, b}]
OnlyA == [m \in GroupMsgs |-> {a}]
============================================================================
