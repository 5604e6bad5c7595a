---------------------------- MODULE MCCommandLine ----------------------------
(***************************************************************************)
(* Small networks on which TLC checks CommandLine.                         *)
(***************************************************************************)
EXTENDS CommandLine

CONSTANTS a, b, c

(* The circle of the README's example. *)
Circle == {<<a, b>>, <<b, c>>, <<c, a>>}

NoNumbers == <<>>

(* Both ends of the first trustline. *)
BothEnds == {<<a, b>>, <<b, a>>}

(* What init reads. *)
Chain == << <<a, b>>, <<b, c>> >>

=============================================================================
