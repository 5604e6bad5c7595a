---------------------------- MODULE MessageFilter ----------------------------
(***************************************************************************)
(* The messages of some engines among those of others.  The engines of a   *)
(* node share one stream of messages to each friend (src/src/saiga.ts:     *)
(* process tells them apart by their type); what an engine sees of it is   *)
(* the stream without the messages of the engines above.                   *)
(***************************************************************************)
EXTENDS Naturals, Sequences

(* The messages of s that are of none of the types, in their order. *)
Without(s, types) ==
  LET kept[i \in 0..Len(s)] ==
        IF i = 0 THEN <<>>
        ELSE IF s[i].type \in types THEN kept[i - 1]
        ELSE Append(kept[i - 1], s[i])
  IN kept[Len(s)]

(* The network without them. *)
Filtered(net, types) ==
  [m \in DOMAIN net |-> [n \in DOMAIN net[m] |-> Without(net[m][n], types)]]

=============================================================================
