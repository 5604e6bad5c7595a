--------------------------- MODULE MCTracesEngine ---------------------------
(***************************************************************************)
(* Small networks on which TLC checks TracesEngine.                        *)
(***************************************************************************)
EXTENDS TracesEngine

CONSTANTS a, b, c, d

(* A circle of three and a node that hangs off it. *)
Kite == {<<a, b>>, <<b, c>>, <<c, a>>, <<d, a>>}

NoNumbers == <<>>

(* For Numbered in MCTracesKite.cfg, where BounceTurnsRound is false then: all names are
   integers, as in testnet-10.csv, and the node that hangs off the circle has the smallest. *)
OutsiderFirst == <<d, a, b, c>>

Meets(m, n) == hand[m][n] = "none" /\ hand'[m][n] = "talking"

(* Every command delivers all messages before it ends. *)
MeetWhenQuiet == (\E m, n \in Nodes : Meets(m, n)) => Probing!Quiet

=============================================================================
