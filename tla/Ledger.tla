------------------------------- MODULE Ledger -------------------------------
(***************************************************************************)
(* What the commands of LedgerLoops promise of the snapshot file, without  *)
(* nodes, messages or restarts: a table with an entry for each end of each *)
(* trustline.  A command changes what it is about and keeps the rest, or   *)
(* changes nothing, when it is killed.  Only a command that is killed in   *)
(* the middle of writing takes everything with it, and the next command    *)
(* starts with an empty table.                                             *)
(*                                                                         *)
(* It says which end each command changes, as the code does it.  The       *)
(* README would have both ends change (README.md:27-31, 53-70): see        *)
(* NettingStarts in CommandLine and OppositeSigns in Saiga, which fail.    *)
(***************************************************************************)
CONSTANTS
  Nodes,      \* the names of the agents
  Trusts,     \* the amounts that agents trust each other for
  Balances    \* the amounts that balances are set to

VARIABLES
  command,    \* the command that is running, or "none"
  account,    \* account[n][f]: the end of n of its trustline with f
  agents,     \* the agents that a command has named
  readable    \* whether the file can be read

vars == <<command, account, agents, readable>>

Empty == [n \in Nodes |-> [f \in Nodes |-> [friend |-> FALSE, trust |-> 0, balance |-> 0]]]

Trusted(end, amount) == [end EXCEPT !.friend = TRUE, !.trust = amount]

Credited(end, amount) == IF end.friend THEN [end EXCEPT !.balance = amount] ELSE end

Init == command = "none" /\ account = Empty /\ agents = {} /\ readable = FALSE

Start(c) ==
  /\ command = "none"
  /\ command' = c
  /\ UNCHANGED <<account, agents, readable>>

(* The command c, which is about some agents, has written the file. *)
Write(c, names) ==
  /\ command = c
  /\ command' = "none"
  /\ agents' = agents \cup names
  /\ readable' = TRUE

(* a trusts b.  b hears of a only when this is the first command that names a: an agent
   that comes from the file speaks to nobody. *)
SetTrust(a, b, amount) ==
  /\ Write("set-trust", {a, b})
  /\ account' = [account EXCEPT
       ![a][b] = Trusted(@, amount),
       ![b][a] = IF a \in agents THEN @ ELSE [@ EXCEPT !.friend = TRUE]]

(* a sets its balance with b, if b is a friend.  b never hears of it: either a comes from
   the file and speaks to nobody, or b has not heard of a. *)
SetBalance(a, b, amount) ==
  /\ Write("set-balance", {a, b})
  /\ account' = [account EXCEPT ![a][b] = Credited(@, amount)]

GetBalances(a) == Write("get-balances", {a}) /\ UNCHANGED account

New ==
  /\ command = "new"
  /\ command' = "none"
  /\ account' = Empty /\ agents' = {} /\ readable' = TRUE

(* The command is killed, or was about other files. *)
Leave ==
  /\ command # "none"
  /\ command' = "none"
  /\ UNCHANGED <<account, agents, readable>>

(* The command is killed while it writes. *)
Lose ==
  /\ command \notin {"none", "init", "sim"}
  /\ command' = "none"
  /\ account' = Empty /\ agents' = {} /\ readable' = FALSE

Next ==
  \/ \E c \in {"new", "set-trust", "set-balance", "get-balances", "init", "sim"} : Start(c)
  \/ \E a, b \in Nodes :
       \/ \E amount \in Trusts : SetTrust(a, b, amount)
       \/ \E amount \in Balances : SetBalance(a, b, amount)
  \/ \E a \in Nodes : GetBalances(a)
  \/ New
  \/ Leave
  \/ Lose

Spec == Init /\ [][Next]_vars

(* Every command ends. *)
FairSpec == Spec /\ WF_command(command # "none" /\ command' = "none")

=============================================================================
