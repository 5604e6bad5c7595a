----------------------------- MODULE ProbeFlood -----------------------------
(***************************************************************************)
(* What the probes of LedgerLoops promise, without messages, queues or     *)
(* raised hands: links appear, every new link mints a probe at its first   *)
(* party, and every probe crosses every link it reaches exactly once, in   *)
(* one of the two directions.  A probe that crosses to a node which knows  *)
(* it has closed a loop.                                                   *)
(***************************************************************************)
EXTENDS FiniteSets

CONSTANTS
  Nodes,          \* the names of the nodes
  Introductions   \* the pairs <<first, second>> that may be linked

(* A probe goes by the link that mints it. *)
Probes == Introductions

VARIABLES
  links,    \* the pairs <<first, second>> of the links made so far
  known,    \* known[n]: the probes that have reached n
  crossed   \* crossed[p]: the <<m, n>> such that p crossed their link from m to n

vars == <<links, known, crossed>>

Linked(m, n) == <<m, n>> \in links \/ <<n, m>> \in links

Init ==
  /\ links = {}
  /\ known = [n \in Nodes |-> {}]
  /\ crossed = [p \in Probes |-> {}]

(* Nodes a and b become friends, at the initiative of a, which mints a probe. *)
Introduce(a, b) ==
  /\ <<a, b>> \in Introductions
  /\ ~Linked(a, b)
  /\ links' = links \cup {<<a, b>>}
  /\ known' = [known EXCEPT ![a] = @ \cup {<<a, b>>}]
  /\ UNCHANGED crossed

(* Probe p crosses the link between m and n, from m to n. *)
Cross(m, n, p) ==
  /\ Linked(m, n)
  /\ p \in known[m]
  /\ <<m, n>> \notin crossed[p]
  /\ <<n, m>> \notin crossed[p]
  /\ known' = [known EXCEPT ![n] = @ \cup {p}]
  /\ crossed' = [crossed EXCEPT ![p] = @ \cup {<<m, n>>}]
  /\ UNCHANGED links

Next ==
  \/ \E a, b \in Nodes : Introduce(a, b)
  \/ \E m, n \in Nodes, p \in Probes : Cross(m, n, p)

Spec == Init /\ [][Next]_vars

(* As long as some probe may still cross some link, one does. *)
FairSpec == Spec /\ WF_vars(\E m, n \in Nodes, p \in Probes : Cross(m, n, p))

=============================================================================
