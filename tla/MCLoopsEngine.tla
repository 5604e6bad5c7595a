---------------------------- MODULE MCLoopsEngine ----------------------------
(***************************************************************************)
(* Small networks on which TLC checks LoopsEngine.                         *)
(***************************************************************************)
EXTENDS LoopsEngine

CONSTANTS a, b, c

(* Three nodes in a circle. *)
Triangle == {<<a, b>>, <<b, c>>, <<c, a>>}

NoNumbers == <<>>

Meets(m, n) == hand[m][n] = "none" /\ hand'[m][n] = "talking"

(* Every command delivers all messages before it ends. *)
MeetWhenQuiet == (\E m, n \in Nodes : Meets(m, n)) => Probing!Quiet

=============================================================================
