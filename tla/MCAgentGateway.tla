--------------------------- MODULE MCAgentGateway ---------------------------
(* Instances of AgentGateway for TLC.                                      *)
EXTENDS AgentGateway

CONSTANTS c1, c2, c3, s1, s2, link

\* Both sessions belong to one Link, which reconnects.
OneLink == [s \in Sessions |-> link]

\* Every call is proposed by a chat turn of its own.
OwnTurn == [c \in Calls |-> c]

\* All calls are proposals of one chat turn, made one after the other.
OneTurn == [c \in Calls |-> c1]

\* Everything Link can send, and the two messages of an ordinary execution.
AllKinds == EventKinds \cup ResultKinds
PlainKinds == {"approved", "completed"}
=============================================================================
