----------------------------- MODULE CommandLine -----------------------------
(***************************************************************************)
(* The commands (src/src/cmd.ts, init.ts, sim.ts).  Each is a process of   *)
(* its own: it restores a network from a file, does what it is told, lets  *)
(* the nodes exchange messages until none is under way, and writes the     *)
(* network back.  A process may be killed at any time, and a file that was *)
(* being written then cannot be read any more.                             *)
(*                                                                         *)
(* The snapshot of a node leaves out the probes it has queued; a restored  *)
(* node is not heard by the simulator; the messages under way are saved    *)
(* and never restored.                                                     *)
(***************************************************************************)
EXTENDS Naturals, Sequences, FiniteSets

CONSTANTS
  Nodes, Introductions, Numbered, Trusts, Accounts, Balances,   \* as in Saiga
  Lines,       \* the lines of the file of links that init reads
  MaxCommands  \* bound on the number of commands

(* No command names the same agent for both ends of a trustline. *)
ASSUME NetworkAssumption ==
  /\ IsFiniteSet(Nodes)
  /\ Introductions \subseteq Nodes \X Nodes
  /\ \A n \in Nodes : <<n, n>> \notin Introductions \cup Accounts

ASSUME LinesAssumption == Lines \in Seq(Introductions)

VARIABLES
  hand, known, from, to, offer, loopbacks, network, created, forwarded, found, lifts,
  completed, trust, balance, nodes, heard, batch,   \* of the network in memory
  command,   \* the command whose process is running, or "none"
  stage,     \* "before" it has done what it was told, or "after"
  disk,      \* disk[file]: what is in the file
  count      \* the number of commands started, for the bound

Net == INSTANCE BatchedNetworkSimulator

node == <<hand, known, from, to, offer, loopbacks, network, created, forwarded, found, lifts,
          completed, trust, balance>>

vars == <<node, nodes, heard, batch, command, stage, disk, count>>

Commands == {"new", "set-trust", "set-balance", "get-balances", "init", "sim"}

Files == {"snapshot", "post-init", "post-run"}

Missing == [status |-> "missing"]
Torn == [status |-> "torn"]

(* toSnapshot of the engines: probesToOffer is not part of it. *)
ProbesSnapshot == [hand |-> hand, known |-> known, from |-> from, to |-> to]
TracesSnapshot == [created |-> created, forwarded |-> forwarded]
LoopsSnapshot == [found |-> found, lifts |-> lifts]
FriendsSnapshot == [trust |-> trust, balance |-> balance]

(* toSnapshot of the simulator and its nodes.  The batch is written too and never read. *)
Snapshot ==
  [status |-> "saved", nodes |-> nodes, probes |-> ProbesSnapshot, traces |-> TracesSnapshot,
   loops |-> LoopsSnapshot, friends |-> FriendsSnapshot]

(* The snapshot of a simulator without nodes. *)
Blank ==
  [status |-> "saved", nodes |-> {},
   probes |-> [hand |-> [n \in Nodes |-> [f \in Nodes |-> "none"]],
               known |-> [n \in Nodes |-> {}],
               from |-> [n \in Nodes |-> [p \in Introductions |-> {}]],
               to |-> [n \in Nodes |-> [p \in Introductions |-> {}]]],
   traces |-> [created |-> [n \in Nodes |-> {}], forwarded |-> [n \in Nodes |-> <<>>]],
   loops |-> [found |-> [n \in Nodes |-> {}], lifts |-> [n \in Nodes |-> <<>>]],
   friends |-> [trust |-> [n \in Nodes |-> [f \in Nodes |-> 0]],
                balance |-> [n \in Nodes |-> [f \in Nodes |-> 0]]]]

Target == CASE command = "init" -> "post-init" [] command = "sim" -> "post-run" [] OTHER -> "snapshot"

-----------------------------------------------------------------------------
(* fromSnapshot of the engines: nothing is queued. *)
RestoreProbes(s) ==
  /\ hand' = s.hand /\ known' = s.known /\ from' = s.from /\ to' = s.to
  /\ offer' = [n \in Nodes |-> [f \in Nodes |-> {}]]

RestoreTraces(s) == created' = s.created /\ forwarded' = s.forwarded

RestoreLoops(s) == found' = s.found /\ lifts' = s.lifts

(* A mutant of RestoreFriends: balances start over. *)
RestoreFriendsAnew(s) == trust' = s.trust /\ balance' = Blank.friends.balance

RestoreFriends(s) == trust' = s.trust /\ balance' = s.balance

(* fromSnapshot of a new simulator, which does not listen to the nodes.  loopbacks and
   completed are the events of this process. *)
Restore(s) ==
  /\ nodes' = s.nodes /\ heard' = {}
  /\ RestoreProbes(s.probes) /\ RestoreTraces(s.traces)
  /\ RestoreLoops(s.loops) /\ RestoreFriends(s.friends)
  /\ batch' = <<>> /\ network' = [m \in Nodes |-> [n \in Nodes |-> <<>>]]
  /\ loopbacks' = [n \in Nodes |-> {}] /\ completed' = [n \in Nodes |-> {}]

(* before: a file that cannot be read or parsed counts as empty. *)
Load(file) == Restore(IF disk[file].status = "saved" THEN disk[file] ELSE Blank)

(* The process ends, and what it has in memory is gone. *)
Exit ==
  /\ command' = "none"
  /\ stage' = "before"
  /\ Restore(Blank)
  /\ UNCHANGED count

Start(c) ==
  /\ command = "none"
  /\ count < MaxCommands
  /\ count' = count + 1
  /\ command' = c
  /\ UNCHANGED disk

-----------------------------------------------------------------------------
Init ==
  /\ Net!Init
  /\ command = "none"
  /\ stage = "before"
  /\ disk = [f \in Files |-> Missing]
  /\ count = 0

(* setTrust, setBalance and getBalances read the snapshot before they do anything. *)
StartOnSnapshot(c) ==
  /\ Start(c)
  /\ Load("snapshot")
  /\ stage' = "before"

(* newSim starts with no nodes and has nothing to do. *)
StartNew ==
  /\ Start("new")
  /\ Restore(Blank)
  /\ stage' = "after"

StartInit ==
  /\ Start("init")
  /\ Restore(Blank)
  /\ stage' = "before"

(* sim throws when there is no file, and does nothing but let messages through. *)
StartSim ==
  /\ disk["post-init"].status # "missing"
  /\ Start("sim")
  /\ Load("post-init")
  /\ stage' = "after"

Do(c) ==
  /\ command = c
  /\ stage = "before"
  /\ stage' = "after"
  /\ UNCHANGED <<command, disk, count>>

SetTrust(a, b, amount) ==
  /\ Do("set-trust")
  /\ Net!Meet(a, b, amount) \/ Net!ChangeTrust(a, b, amount)

SetBalance(a, b, amount) ==
  /\ Do("set-balance")
  /\ Net!SetBalance(a, b, amount)

(* An agent that is asked for its balances is added if there is none of its name. *)
GetBalances(a) ==
  /\ Do("get-balances")
  /\ Net!Ensure({a})
  /\ UNCHANGED <<node, batch>>

(* init: the next line that has not been read.  A line that was there before tells
   a to meet a friend, and does nothing. *)
ReadLine(a, b) ==
  /\ command = "init"
  /\ \E i \in DOMAIN Lines :
       /\ Lines[i] = <<a, b>>
       /\ \A j \in 1..(i - 1) : hand[Lines[j][1]][Lines[j][2]] # "none"
  /\ Net!Meet(a, b, 0)
  /\ UNCHANGED <<command, stage, disk, count>>

(* after: flush as long as anything is delivered. *)
Flush ==
  /\ stage = "after"
  /\ Net!Receive
  /\ UNCHANGED <<command, stage, disk, count>>

(* Nothing is left to do but to write the file: init does not flush. *)
Ready ==
  IF command = "init"
  THEN \A i \in DOMAIN Lines : hand[Lines[i][1]][Lines[i][2]] # "none"
  ELSE stage = "after" /\ batch = <<>>

Save ==
  /\ command # "none"
  /\ Ready
  /\ disk' = [disk EXCEPT ![Target] = Snapshot]
  /\ Exit

(* The process is killed while it writes the file. *)
Tear ==
  /\ command # "none"
  /\ Ready
  /\ disk' = [disk EXCEPT ![Target] = Torn]
  /\ Exit

(* The process is killed, or the command is about another unit than XCH. *)
Kill ==
  /\ command # "none"
  /\ Exit
  /\ UNCHANGED disk

Run ==
  \/ \E a, b \in Nodes :
       \/ \E amount \in Trusts : SetTrust(a, b, amount)
       \/ \E amount \in Balances : SetBalance(a, b, amount)
       \/ ReadLine(a, b)
  \/ \E a \in Nodes : GetBalances(a)
  \/ Flush
  \/ Save

Next ==
  \/ \E c \in {"set-trust", "set-balance", "get-balances"} : StartOnSnapshot(c)
  \/ StartNew
  \/ StartInit
  \/ StartSim
  \/ Run
  \/ Tear
  \/ Kill

Spec == Init /\ [][Next]_vars

(* A process that is not killed goes on. *)
FairSpec == Spec /\ WF_vars(Run)

-----------------------------------------------------------------------------
(***************************************************************************)
(* What the commands promise.                                              *)
(***************************************************************************)
TypeOK ==
  /\ Net!TypeOK
  /\ command \in Commands \cup {"none"}
  /\ stage \in {"before", "after"}
  /\ \A f \in Files : disk[f].status \in {"missing", "torn", "saved"}
  /\ \A f \in Files : disk[f].status = "saved" => DOMAIN disk[f] = DOMAIN Blank

(* A flush delivers to nodes that are there, and what a node gets from one that it
   does not know is 'meet' or 'set-balance': no handler throws, which would end the
   command before it has saved anything. *)
NothingThrows ==
  \A i \in DOMAIN batch :
    LET m == batch[i][1]
        n == batch[i][2]
    IN /\ n \in nodes
       /\ hand[n][m] = "none" => Head(network[m][n]).type \in {"meet", "set-balance"}

(* Agents start netting: once the trustlines on file are all those of Introductions, and
   these close a loop, some agent has found one. *)
NettingStarts ==
  /\ disk["snapshot"].status = "saved"
  /\ \A l \in Introductions : disk["snapshot"].probes.hand[l[1]][l[2]] # "none"
  => \E n \in Nodes : disk["snapshot"].loops.found[n] # {}

(* The file is the ledger. *)
Entries ==
  [n \in Nodes |-> [f \in Nodes |->
     IF disk["snapshot"].status = "saved"
     THEN [friend |-> disk["snapshot"].probes.hand[n][f] # "none",
           trust |-> disk["snapshot"].friends.trust[n][f],
           balance |-> disk["snapshot"].friends.balance[n][f]]
     ELSE [friend |-> FALSE, trust |-> 0, balance |-> 0]]]

Agents == IF disk["snapshot"].status = "saved" THEN disk["snapshot"].nodes ELSE {}

OnFile == INSTANCE Ledger WITH
  account <- Entries,
  agents <- Agents,
  readable <- disk["snapshot"].status = "saved"

(* A command that ends has done what it is about, to the end of the agent that it is
   given to, and nothing else to what is in the file: set-trust, to the other end only if
   no command had named the agent before, and set-balance never.  A command that is killed
   has done nothing or, if it was writing, has lost everything; and every command ends. *)
ImplementsLedger == OnFile!FairSpec

=============================================================================
