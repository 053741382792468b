-------------------------- MODULE MCToolRepository --------------------------
(* The instance of ToolRepository for TLC: one chat turn that may create two *)
(* of its three calls, a Link that reconnects (s1, s2) and another one (s3). *)
EXTENDS ToolRepository, TLC

CONSTANTS c1, c2, c3, s1, s2, s3, link, other, turn

TwoLinks == s1 :> link @@ s2 :> link @@ s3 :> other
OneTurn == [c \in Calls |-> turn]
CallSymmetry == Permutations(Calls)
=============================================================================
