--------------------------- MODULE MCProbesEngine ---------------------------
(***************************************************************************)
(* Small networks on which TLC checks ProbesEngine.                        *)
(***************************************************************************)
EXTENDS ProbesEngine

CONSTANTS a, b, c

(* Three nodes, every two of which are introduced from one end, in a circle:
   links, a chain and a loop, made in every order and at any time. *)
Triangle == {<<a, b>>, <<b, c>>, <<c, a>>}

=============================================================================
