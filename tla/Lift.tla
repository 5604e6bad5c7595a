-------------------------------- MODULE Lift --------------------------------
(***************************************************************************)
(* What a lift promises, without messages, legs or the loop: who joins is  *)
(* promised something by one neighbour and promises the same to the other, *)
(* under the hash of a secret.  Nobody but the initiator has the secret    *)
(* before the circle of promises is closed, nobody joins afterwards, and   *)
(* then everybody gets it, so that either all promises are redeemed or     *)
(* none is.                                                                *)
(***************************************************************************)
CONSTANTS
  Nodes,    \* the names of the nodes
  Lifts     \* the lifts there may be; the initiator of h is h.initiator

VARIABLES
  joined,   \* the pairs <<n, h>> such that n takes part in the lift h
  closed,   \* the lifts whose proposal has come home
  knowing   \* the pairs <<n, h>> such that n has the secret of h

vars == <<joined, closed, knowing>>

Init == joined = {} /\ closed = {} /\ knowing = {}

Close(h) ==
  /\ <<h.initiator, h>> \in joined
  /\ closed' = closed \cup {h}
  /\ UNCHANGED <<joined, knowing>>

Learn(n, h) ==
  /\ h \in closed
  /\ knowing' = knowing \cup {<<n, h>>}
  /\ UNCHANGED <<joined, closed>>

Join(n, h) ==
  /\ h \notin closed
  /\ joined' = joined \cup {<<n, h>>}
  /\ UNCHANGED <<closed, knowing>>

Start(h) ==
  /\ \A n \in Nodes : <<n, h>> \notin joined
  /\ joined' = joined \cup {<<h.initiator, h>>}
  /\ knowing' = knowing \cup {<<h.initiator, h>>}
  /\ UNCHANGED closed

SomeoneLearns == \E member \in joined \ knowing : Learn(member[1], member[2])

Next ==
  \/ SomeoneLearns
  \/ \E member \in joined :
       \/ Close(member[2])
       \/ \E n \in Nodes : Join(n, member[2])
  \/ \E member \in joined' \ joined : member[2] \in Lifts /\ Start(member[2])

Spec == Init /\ [][Next]_vars

(* What is promised when the circle is closed is redeemed. *)
FairSpec == Spec /\ WF_vars(SomeoneLearns)

-----------------------------------------------------------------------------
(***************************************************************************)
(* What follows for who takes part.                                        *)
(***************************************************************************)

(* Who has the secret started the lift, or the circle is closed: then the initiator has
   joined and has the secret, so that there is somebody to learn it from. *)
SecretFromHome ==
  /\ \A member \in knowing : member[1] = member[2].initiator \/ member[2] \in closed
  /\ \A h \in closed : <<h.initiator, h>> \in knowing

(* Nobody joins a circle that is closed, and nobody leaves one. *)
CircleStays ==
  [][/\ joined \subseteq joined'
     /\ \A member \in joined' \ joined : member[2] \notin closed]_vars

=============================================================================
