-------------------------------- MODULE Saiga --------------------------------
(***************************************************************************)
(* A LedgerLoops node (src/src/saiga.ts): its probes, traces and loops     *)
(* engines, and its friends engine (src/src/engine/friendsengine.ts), which*)
(* keeps the trust and the balance of each trustline.                      *)
(*                                                                         *)
(* Who is told to trust a stranger meets it.  Who is told to set a balance *)
(* sets it at its own end and tells the other end to do the same.          *)
(***************************************************************************)
EXTENDS Integers, Sequences, FiniteSets, Functions

CONSTANTS
  Nodes, Introductions, Numbered,   \* as in LoopsEngine
  Trusts,      \* the amounts that nodes may be told to trust each other for
  Accounts,    \* the pairs <<n, f>> such that n may be told to set its balance with f
  Balances     \* the amounts that balances may be set to

VARIABLES
  hand, known, from, to, offer, loopbacks, network, created, forwarded, found, lifts,
  completed,   \* of the other engines
  trust,       \* trust[n][f]: friends[f].maxBalance at n; 0 for a stranger
  balance      \* balance[n][f]: friends[f].balance at n; 0 for a stranger

Loops == INSTANCE LoopsEngine

handled == <<hand, known, from, to, offer, loopbacks, created, forwarded, found, lifts, completed>>

engines == <<handled, network>>

vars == <<engines, trust, balance>>

SetBalanceMessage(amount) == [type |-> "set-balance", amount |-> amount]

(* Both engines that keep friends add them in the same steps. *)
AreFriends(n, f) == hand[n][f] # "none"

(* The friends engine's setBalance: nothing happens for a stranger. *)
Credit(n, f, amount) ==
  balance' = IF AreFriends(n, f) THEN [balance EXCEPT ![n][f] = amount] ELSE balance

-----------------------------------------------------------------------------
(***************************************************************************)
(* Mutants: the ways in which a plausible bug changes the actions below.   *)
(***************************************************************************)

(* HandleEngines that starts a friend over when 'meet' arrives once more. *)
HandleEnginesAnew(m, n) ==
  /\ Loops!Handle(m, n)
  /\ balance' = IF Loops!Probing!Arrives(m, n, Loops!Probing!MeetMessage)
                THEN [balance EXCEPT ![n][m] = 0] ELSE balance
  /\ UNCHANGED trust

-----------------------------------------------------------------------------
Init ==
  /\ Loops!Init
  /\ trust = [n \in Nodes |-> [f \in Nodes |-> 0]]
  /\ balance = [n \in Nodes |-> [f \in Nodes |-> 0]]

(* meet: a new friend, whom a trusts for amount. *)
Meet(a, b, amount) ==
  /\ Loops!Meet(a, b)
  /\ trust' = [trust EXCEPT ![a][b] = amount]
  /\ UNCHANGED balance

(* setTrust of a friend, who is not told. *)
ChangeTrust(a, b, amount) ==
  /\ AreFriends(a, b)
  /\ trust' = [trust EXCEPT ![a][b] = amount]
  /\ UNCHANGED <<engines, balance>>

(* setBalance: b is told whether or not a has it for a friend. *)
SetBalance(a, b, amount) ==
  /\ <<a, b>> \in Accounts
  /\ Credit(a, b, amount)
  /\ network' = Loops!Probing!Sent(network, a, b, <<SetBalanceMessage(amount)>>)
  /\ UNCHANGED <<handled, trust>>

(* The messages for the other engines. 'meet' also adds a friend here, unless the
   sender is one already: with trust and balance 0. *)
HandleEngines(m, n) == Loops!Handle(m, n) /\ UNCHANGED <<trust, balance>>

(* 'set-balance' from m: n takes the same amount. *)
HandleSetBalance(m, n) ==
  \E message \in Loops!Arriving(m, n, "set-balance") :
    /\ Credit(n, m, message.amount)
    /\ network' = Loops!Probing!Taken(m, n)
    /\ UNCHANGED <<handled, trust>>

Handle(m, n) == HandleEngines(m, n) \/ HandleSetBalance(m, n)

Next ==
  \/ \E a, b \in Nodes :
       \/ \E amount \in Trusts : Meet(a, b, amount) \/ ChangeTrust(a, b, amount)
       \/ \E amount \in Balances : SetBalance(a, b, amount)
  \/ \E m, n \in Nodes : Handle(m, n)

Spec == Init /\ [][Next]_vars

-----------------------------------------------------------------------------
(***************************************************************************)
(* What the trustlines promise.                                            *)
(***************************************************************************)
TypeOK ==
  /\ trust \in [Nodes -> [Nodes -> Trusts \cup {0}]]
  /\ balance \in [Nodes -> [Nodes -> Balances \cup {0}]]

(* n and f have yet to hear of each other, or of each other's balance. *)
Settling(n, f) ==
  \E message \in Range(network[n][f]) \cup Range(network[f][n]) :
    message.type \in {"meet", "set-balance"}

(* The ends of a trustline agree on what it stands at, whichever way their signs go, once
   they have heard of each other: also when both were told to meet the other and one has
   set the balance in between. *)
EndsAgree ==
  \A n, f \in Nodes :
    AreFriends(n, f) /\ ~Settling(n, f) => balance[n][f] \in {balance[f][n], -balance[f][n]}

(* What one end lends, the other end borrows (README.md:27-31: "Alice's balance on the
   Alice-Bob trustline is 7 XCH" and "Bob's balance on the Alice-Bob trustline is -7 XCH"
   are equivalent): false, for who hears of a balance takes it as it is. *)
OppositeSigns ==
  \A n, f \in Nodes : AreFriends(n, f) /\ ~Settling(n, f) => balance[n][f] = -balance[f][n]

=============================================================================
