--------------------------- MODULE CommandLineProofs ---------------------------
(***************************************************************************)
(* Proofs about CommandLine, for any number of commands on any network:    *)
(* the snapshot file is a ledger, and no handler throws.                   *)
(***************************************************************************)
EXTENDS CommandLine, MessageFilterProofs, FiniteSetTheorems

-----------------------------------------------------------------------------
(***************************************************************************)
(* What is restored and saved.                                             *)
(***************************************************************************)
Statuses == {"none", "listening", "waiting", "talking"}

Hands(h) == h \in [Nodes -> [Nodes -> Statuses]]
Row(status) == status \in [Nodes -> Statuses]
ProbeSets(k) == k \in [Nodes -> SUBSET Introductions]
Records(r) == r \in [Nodes -> [Introductions -> SUBSET Nodes]]
Amounts(table, S) == table \in [Nodes -> [Nodes -> S \cup {0}]]

(* A name that is not in the table is nobody's friend and has met no probe. *)
Newcomer(n, h, k, fr, t) ==
  /\ k[n] = {}
  /\ \A p \in Introductions : fr[n][p] = {} /\ t[n][p] = {}
  /\ \A f \in Nodes : h[n][f] = "none" /\ h[f][n] = "none"

(* A table of nodes with their engines: nobody is its own friend. *)
Sound(names, h, k, fr, t, tr, bal) ==
  /\ names \subseteq Nodes
  /\ Hands(h) /\ ProbeSets(k) /\ Records(fr) /\ Records(t)
  /\ Amounts(tr, Trusts) /\ Amounts(bal, Balances)
  /\ \A n \in Nodes : h[n][n] = "none"
  /\ \A n \in Nodes \ names : Newcomer(n, h, k, fr, t)

(* Every file that can be read holds such a table. *)
FilesInv ==
  /\ DOMAIN disk = Files
  /\ \A f \in Files :
       /\ disk[f].status \in {"missing", "torn", "saved"}
       /\ disk[f].status = "saved" =>
            LET s == disk[f]
            IN Sound(s.nodes, s.probes.hand, s.probes.known, s.probes.from, s.probes.to,
                     s.friends.trust, s.friends.balance)

Offers(o) == o \in [Nodes -> [Nodes -> SUBSET Introductions]]

(* A network with all its links. *)
Rows(net) == DOMAIN net = Nodes /\ \A n \in Nodes : DOMAIN net[n] = Nodes

(* So does the memory. *)
MemoryInv ==
  /\ Sound(nodes, hand, known, from, to, trust, balance)
  /\ Offers(offer)
  /\ Rows(network)
  /\ heard \subseteq nodes

-----------------------------------------------------------------------------
(***************************************************************************)
(* What each command is at.                                                *)
(***************************************************************************)
(* The table in memory, as Ledger has it. *)
AccountOf(h, tr, bal) ==
  [n \in Nodes |-> [f \in Nodes |->
     [friend |-> h[n][f] # "none", trust |-> tr[n][f], balance |-> bal[n][f]]]]

Account == AccountOf(hand, trust, balance)

Silent(n) == \A f \in Nodes : network[n][f] = <<>>

(* Nothing has happened since the network was restored. *)
Restored ==
  /\ batch = <<>>
  /\ heard = {}
  /\ \A n \in Nodes : Silent(n) /\ \A f \in Nodes : offer[n][f] = {}

(* b is restored, so that nobody hears what it says, or it has nothing to say but to a. *)
Reticent(a, b) ==
  b \in heard => known[b] = {} /\ Silent(b) /\ \A f \in Nodes \ {a} : hand[b][f] = "none"

(* The probe of a and b. *)
ProbeOf(a, b) == Net!Node!Loops!Tracing!Probing!ProbeMessage(<<a, b>>)
Greeting == Net!Node!Loops!Tracing!Probing!MeetMessage
Balance(amount) == Net!Node!SetBalanceMessage(amount)

(* a is about to be heard of by b: 'meet' and the probe are under way. *)
Introducing(a, b) ==
  /\ a \in nodes /\ b \in nodes
  /\ Reticent(a, b)
  /\ batch = <<<<a, b>>, <<a, b>>>> /\ network[a][b] = <<Greeting, ProbeOf(a, b)>>

(* b has heard of a, and the probe is under way. *)
Introduced(a, b) ==
  /\ a \in nodes /\ b \in nodes
  /\ Reticent(a, b)
  /\ batch = <<<<a, b>>>> /\ network[a][b] = <<ProbeOf(a, b)>>
  /\ hand[b][a] # "none"

(* One table comes from another by what happens to the trustline of a and b. *)
Becomes(old, new, a, b, end, other) ==
  /\ a # b
  /\ new[a][b] = end
  /\ new[b][a] = other
  /\ \A n, f \in Nodes : <<n, f>> \notin {<<a, b>>, <<b, a>>} => new[n][f] = old[n][f]

(* a trusts b, and b has not heard of it. *)
TrustedAccount(old, new, a, b, amount) ==
  Becomes(old, new, a, b, OnFile!Trusted(old[a][b], amount), old[b][a])

(* a trusts b, and b has heard of it. *)
SharedAccount(old, new, a, b, amount) ==
  Becomes(old, new, a, b, OnFile!Trusted(old[a][b], amount), [old[b][a] EXCEPT !.friend = TRUE])

(* a has set its balance with b. *)
CreditedAccount(old, new, a, b, amount) ==
  Becomes(old, new, a, b, OnFile!Credited(old[a][b], amount), old[b][a])

(* set-trust: b hears of an agent that was not on file. *)
Trusting(a, b, amount) ==
  /\ nodes = Agents \cup {a, b}
  /\ IF a \in Agents
     THEN TrustedAccount(Entries, Account, a, b, amount) /\ batch = <<>>
     ELSE \/ TrustedAccount(Entries, Account, a, b, amount) /\ Introducing(a, b)
          \/ /\ SharedAccount(Entries, Account, a, b, amount)
             /\ batch = <<>> \/ Introduced(a, b)

(* b, which does not have a for a friend, is about to hear of a's balance. *)
Telling(a, b, amount) ==
  /\ a \in nodes /\ b \in nodes /\ (b \in heard => Silent(b))
  /\ batch = <<<<a, b>>>>
  /\ network[a][b] = <<Balance(amount)>>
  /\ hand[b][a] = "none"

(* set-balance: b hears of it to no effect. *)
Crediting(a, b, amount) ==
  /\ nodes = Agents \cup {a, b}
  /\ CreditedAccount(Entries, Account, a, b, amount)
  /\ batch = <<>> \/ Telling(a, b, amount)

Wired(net) == \A m, n \in Nodes : net[m][n] \in Seq(Net!Node!Loops!Tracing!Probing!Messages)

Friendships(h) == {l \in Nodes \X Nodes : h[l[1]][l[2]] # "none"}

(* init: everybody who has a friend has greeted it first, and nothing else is in the
   batch than what goes to friends. *)
Greeted ==
  /\ stage = "before"
  /\ Wired(network)
  /\ \A m, n \in Nodes :
       IF hand[m][n] = "none" THEN network[m][n] = <<>>
       ELSE network[m][n] # <<>> /\ Head(network[m][n]) = Greeting
  /\ batch \in Seq(Friendships(hand))

CommandInv ==
  /\ command \in Commands \cup {"none"}
  /\ command \in {"none", "new", "sim", "get-balances"} => batch = <<>>
  /\ command \in {"set-trust", "set-balance", "get-balances"} /\ stage = "before" => Restored
  /\ command \in {"set-trust", "set-balance", "get-balances"} /\ stage = "before" =>
       Account = Entries /\ nodes = Agents
  /\ command = "get-balances" /\ stage # "before" =>
       Account = Entries /\ \E a \in Nodes : nodes = Agents \cup {a}
  /\ command = "new" => Account = OnFile!Empty /\ nodes = {}
  /\ command = "set-trust" /\ stage # "before" =>
       \E a, b \in Nodes, amount \in Trusts : Trusting(a, b, amount)
  /\ command = "set-balance" /\ stage # "before" =>
       \E a, b \in Nodes, amount \in Balances : Crediting(a, b, amount)
  /\ command = "init" => Greeted

SnapshotInv == FilesInv /\ MemoryInv /\ CommandInv

-----------------------------------------------------------------------------
(***************************************************************************)
(* What is pushed.                                                         *)
(***************************************************************************)
(* The simulator flattens in the same way. *)
LEMMA SameFlatten == \A s : Net!FlattenSeq(s) = Flattened(s)
BY DEF Net!FlattenSeq, Flattened

(* Nothing is pushed for nobody. *)
LEMMA NoPackages ==
  ASSUME NEW n, NEW order \in Net!SetToSeqs({}), NEW sizes
  PROVE  Net!Packages(n, order, sizes) = <<>>
<1>1. Net!Cardinality({}) = 0
  BY FS_EmptySet DEF Net!Cardinality, Cardinality
<1>2. DOMAIN order = 1..0
  BY <1>1 DEF Net!SetToSeqs
<1> DEFINE all == [i \in DOMAIN order |-> [j \in 1..sizes[order[i]] |-> <<n, order[i]>>]]
<1>3. all = <<>>
  BY <1>2
<1> HIDE DEF all
<1>4. Net!FlattenSeq(all) = <<>>
  BY <1>3 DEF Net!FlattenSeq
<1> QED BY <1>4 DEF Net!Packages, all

(* One package for one friend. *)
LEMMA OnePackage ==
  ASSUME NEW n, NEW f, NEW order \in Net!SetToSeqs({f}), NEW sizes, sizes[f] = 1
  PROVE  Net!Packages(n, order, sizes) = <<<<n, f>>>>
<1>1. Net!Cardinality({f}) = 1
  BY FS_Singleton DEF Net!Cardinality, Cardinality
<1>2. order \in [1..1 -> {f}]
  BY <1>1 DEF Net!SetToSeqs
<1> DEFINE all == [i \in DOMAIN order |-> [j \in 1..sizes[order[i]] |-> <<n, order[i]>>]]
<1>3. DOMAIN order = 1..1 /\ order[1] = f
  BY <1>2
<1>4. all[1] = [j \in 1..1 |-> <<n, f>>]
  BY <1>3
<1>5. [j \in 1..1 |-> <<n, f>>] = <<<<n, f>>>>
  OBVIOUS
<1>6. all = [i \in 1..1 |-> all[1]]
  <2>1. \A i \in 1..1 : i = 1
    OBVIOUS
  <2>2. DOMAIN all = 1..1
    BY <1>3
  <2>3. all = [i \in DOMAIN all |-> all[i]]
    OBVIOUS
  <2> HIDE DEF all
  <2> QED BY <2>1, <2>2, <2>3
<1> HIDE DEF all
<1>7. Flattened(all) = <<<<n, f>>>>
  BY <1>4, <1>5, <1>6, FlattenOne
<1> QED BY <1>7, SameFlatten DEF Net!Packages, all

(* What goes to some friends. *)
LEMMA PackagesTo ==
  ASSUME NEW n, NEW S \in SUBSET Nodes, NEW order \in Net!SetToSeqs(S), NEW sizes,
         \A f \in S : sizes[f] \in Nat
  PROVE  Net!Packages(n, order, sizes) \in Seq({<<n, f>> : f \in S})
<1> DEFINE M == {<<n, f>> : f \in S}
<1>1. Net!Cardinality(S) \in Nat
  <2>1. Cardinality(S) \in Nat
    BY NetworkAssumption, FS_Subset, FS_CardinalityType
  <2>2. Net!Cardinality(S) = Cardinality(S)
    BY DEF Net!Cardinality, Cardinality
  <2> QED BY <2>1, <2>2
<1>2. order \in [1..Net!Cardinality(S) -> S]
  BY DEF Net!SetToSeqs
<1> DEFINE all == [i \in DOMAIN order |-> [j \in 1..sizes[order[i]] |-> <<n, order[i]>>]]
<1>3. ASSUME NEW i \in DOMAIN order
      PROVE  [j \in 1..sizes[order[i]] |-> <<n, order[i]>>] \in Seq(M)
  <2>1. order[i] \in S /\ sizes[order[i]] \in Nat
    BY <1>2
  <2>2. \A f \in S : <<n, f>> \in M
    OBVIOUS
  <2>3. <<n, order[i]>> \in M
    BY <2>1, <2>2
  <2> HIDE DEF M
  <2> QED BY <2>1, <2>3
<1>4. all \in [1..Net!Cardinality(S) -> Seq(M)]
  <2> HIDE DEF M
  <2> QED BY <1>2, <1>3
<1>5. all \in Seq(Seq(M))
  <2> HIDE DEF all, M
  <2> QED BY <1>1, <1>4
<1> HIDE DEF all, M
<1>6. Flattened(all) \in Seq(M)
  BY <1>5, FlattenType
<1> QED BY <1>6, SameFlatten DEF Net!Packages, all, M

(* One thing after another. *)
LEMMA Pair == ASSUME NEW x, NEW y PROVE <<x>> \o <<y>> = <<x, y>>
<1> DEFINE s == <<x>>
           t == <<x, y>>
           M == {x, y}
<1>1. y \in M /\ s \in Seq(M) /\ t \in Seq(M) /\ Len(s) = 1 /\ Len(t) = 2
  OBVIOUS
<1>2. s[1] = x /\ t[1] = x /\ t[2] = y
  OBVIOUS
<1>3. s \o <<y>> = Append(s, y)
  OBVIOUS
<1> HIDE DEF s, t, M
<1>4. /\ Append(s, y) \in Seq(M)
      /\ Len(Append(s, y)) = Len(s) + 1
      /\ \A i \in 1..Len(s) : Append(s, y)[i] = s[i]
      /\ Append(s, y)[Len(s) + 1] = y
  <2>1. y \in M /\ s \in Seq(M)
    BY <1>1
  <2> QED BY <2>1, AppendProperties
<1>5. Len(s) + 1 = 2 /\ 1 \in 1..Len(s)
  BY <1>1
<1>6. Len(Append(s, y)) = 2 /\ Append(s, y)[1] = x /\ Append(s, y)[2] = y
  BY <1>2, <1>4, <1>5
<1>7. \A i \in 1..2 : Append(s, y)[i] = t[i]
  <2>1. \A i \in 1..2 : i = 1 \/ i = 2
    OBVIOUS
  <2> QED BY <1>2, <1>6, <2>1
<1>8. Append(s, y) = t
  BY <1>1, <1>4, <1>6, <1>7, SeqEqual
<1> QED BY <1>3, <1>8 DEF s, t

(* Nothing is sent, or nobody listens. *)
LEMMA PushesNothing ==
  ASSUME NEW n \in Nodes, NEW M, NEW rest \in Seq(M), Net!Push(n, rest),
         n \in heard' => \A f \in Nodes : network[n][f] = <<>> /\ network'[n][f] = <<>>
  PROVE  batch' = rest
<1> DEFINE sizes == [f \in Nodes |-> IF n \in heard' THEN Net!Emitted(n, f) ELSE 0]
<1>1. PICK order \in Net!SetToSeqs({f \in Nodes : sizes[f] > 0}) :
        batch' = rest \o Net!Packages(n, order, sizes)
  BY DEF Net!Push
<1>2. \A f \in Nodes : sizes[f] = 0
  BY DEF Net!Emitted
<1>3. {f \in Nodes : sizes[f] > 0} = {}
  <2> HIDE DEF sizes
  <2> QED BY <1>2
<1> HIDE DEF sizes
<1>4. Net!Packages(n, order, sizes) = <<>>
  BY <1>1, <1>3, NoPackages
<1> QED BY <1>1, <1>4

(* n has sent one message in all, to f. *)
SentFirst(n, f, messages) ==
  /\ \A g \in Nodes : network[n][g] = <<>>
  /\ network'[n][f] = messages
  /\ \A g \in Nodes \ {f} : network'[n][g] = <<>>

LEMMA PushesOne ==
  ASSUME NEW n \in Nodes, NEW f \in Nodes, NEW message, n \in heard',
         SentFirst(n, f, <<message>>), Net!Push(n, <<>>)
  PROVE  batch' = <<<<n, f>>>>
<1> DEFINE sizes == [g \in Nodes |-> IF n \in heard' THEN Net!Emitted(n, g) ELSE 0]
<1>1. PICK order \in Net!SetToSeqs({g \in Nodes : sizes[g] > 0}) :
        batch' = <<>> \o Net!Packages(n, order, sizes)
  BY DEF Net!Push
<1>2. Net!Emitted(n, f) = 1 /\ \A g \in Nodes \ {f} : Net!Emitted(n, g) = 0
  BY DEF Net!Emitted, SentFirst
<1>3. sizes[f] = 1 /\ \A g \in Nodes \ {f} : sizes[g] = 0
  BY <1>2
<1>4. {g \in Nodes : sizes[g] > 0} = {f}
  <2> HIDE DEF sizes
  <2> QED BY <1>3
<1> HIDE DEF sizes
<1>5. Net!Packages(n, order, sizes) = <<<<n, f>>>>
  BY <1>1, <1>3, <1>4, OnePackage
<1> QED BY <1>1, <1>5

(* a meets b and nobody listens to a. *)
LEMMA MeetsUnheard ==
  ASSUME NEW a \in Nodes, NEW b \in Nodes, NEW amount, batch = <<>>, a \notin heard',
         Net!Meet(a, b, amount)
  PROVE  batch' = <<>>
<1> DEFINE last == [f \in Nodes |-> IF a \in heard' /\ Net!Emitted(a, f) > 0 THEN 1 ELSE 0]
           first == IF a \in heard' THEN Net!Emitted(a, b) - 1 ELSE 0
<1>1. PICK order \in Net!SetToSeqs({f \in Nodes : last[f] > 0}) :
        batch' = batch \o [j \in 1..first |-> <<a, b>>] \o Net!Packages(a, order, last)
  BY DEF Net!Meet
<1>2. first = 0 /\ \A f \in Nodes : last[f] = 0
  OBVIOUS
<1>3. {f \in Nodes : last[f] > 0} = {}
  <2> HIDE DEF last
  <2> QED BY <1>2
<1>4. [j \in 1..first |-> <<a, b>>] = <<>>
  <2> HIDE DEF first
  <2>1. 1..first = 1..0
    BY <1>2
  <2> QED BY <2>1
<1> HIDE DEF last, first
<1>5. Net!Packages(a, order, last) = <<>>
  BY <1>1, <1>3, NoPackages
<1> QED BY <1>1, <1>4, <1>5

(* a greets b and sends it one probe, and its friends nothing. *)
LEMMA MeetsHeard ==
  ASSUME NEW a \in Nodes, NEW b \in Nodes, NEW amount, NEW x, NEW y,
         batch = <<>>, a \in heard',
         SentFirst(a, b, <<x, y>>), Net!Meet(a, b, amount)
  PROVE  batch' = <<<<a, b>>, <<a, b>>>>
<1> DEFINE last == [f \in Nodes |-> IF a \in heard' /\ Net!Emitted(a, f) > 0 THEN 1 ELSE 0]
           first == IF a \in heard' THEN Net!Emitted(a, b) - 1 ELSE 0
<1>1. PICK order \in Net!SetToSeqs({f \in Nodes : last[f] > 0}) :
        batch' = batch \o [j \in 1..first |-> <<a, b>>] \o Net!Packages(a, order, last)
  BY DEF Net!Meet
<1>2. Net!Emitted(a, b) = 2 /\ \A f \in Nodes \ {b} : Net!Emitted(a, f) = 0
  BY DEF Net!Emitted, SentFirst
<1>3. first = 1 /\ last[b] = 1 /\ \A f \in Nodes \ {b} : last[f] = 0
  BY <1>2
<1>4. {f \in Nodes : last[f] > 0} = {b}
  <2> HIDE DEF last
  <2> QED BY <1>3
<1>5. [j \in 1..first |-> <<a, b>>] = <<<<a, b>>>>
  <2> HIDE DEF first
  <2>1. 1..first = 1..1
    BY <1>3
  <2> QED BY <2>1
<1> HIDE DEF last, first
<1>6. Net!Packages(a, order, last) = <<<<a, b>>>>
  BY <1>1, <1>3, <1>4, OnePackage
<1> DEFINE package == <<a, b>>
<1>7. batch' = <<>> \o <<package>> \o <<package>>
  BY <1>1, <1>5, <1>6
<1> HIDE DEF package
<1>8. <<>> \o <<package>> = <<package>>
  OBVIOUS
<1>9. batch' = <<package, package>>
  BY <1>7, <1>8, Pair
<1> QED BY <1>9 DEF package

(* What goes out when a meets b goes to those it has sent something. *)
LEMMA MeetsSome ==
  ASSUME NEW a \in Nodes, NEW b \in Nodes, NEW amount, NEW M, NEW T \in SUBSET Nodes,
         batch \in Seq(M), \A f \in T : <<a, f>> \in M, b \in T,
         \A f \in Nodes : Net!Emitted(a, f) \in Int,
         \A f \in Nodes \ T : Net!Emitted(a, f) = 0,
         Net!Meet(a, b, amount)
  PROVE  batch' \in Seq(M)
<1> DEFINE last == [f \in Nodes |-> IF a \in heard' /\ Net!Emitted(a, f) > 0 THEN 1 ELSE 0]
           first == IF a \in heard' THEN Net!Emitted(a, b) - 1 ELSE 0
           S == {f \in Nodes : last[f] > 0}
<1>1. PICK order \in Net!SetToSeqs(S) :
        batch' = batch \o [j \in 1..first |-> <<a, b>>] \o Net!Packages(a, order, last)
  BY DEF Net!Meet
<1>2. first \in Int /\ \A f \in Nodes : last[f] \in Nat
  OBVIOUS
<1>3. S \subseteq T
  OBVIOUS
<1>4. S \subseteq Nodes
  OBVIOUS
<1> HIDE DEF last, first, S
<1>5. Net!Packages(a, order, last) \in Seq({<<a, f>> : f \in S})
  BY <1>1, <1>2, <1>4, PackagesTo
<1>6. {<<a, f>> : f \in S} \subseteq M
  BY <1>3
<1>7. Net!Packages(a, order, last) \in Seq(M)
  BY <1>5, <1>6
<1>8. [j \in 1..first |-> <<a, b>>] \in Seq(M)
  <2>1. <<a, b>> \in M
    OBVIOUS
  <2>2. CASE first \in Nat
    BY <2>1, <2>2
  <2>3. CASE first < 0
    <3>1. 1..first = 1..0
      BY <2>3, <1>2
    <3>2. [j \in 1..0 |-> <<a, b>>] \in Seq(M)
      BY <2>1
    <3> QED BY <3>1, <3>2
  <2> QED BY <1>2, <2>2, <2>3
<1>9. batch \o [j \in 1..first |-> <<a, b>>] \in Seq(M)
  BY <1>8
<1> QED BY <1>1, <1>7, <1>9

-----------------------------------------------------------------------------
(***************************************************************************)
(* What the engines do to their tables and to the network.                 *)
(***************************************************************************)
(* Nothing is sent for no probe, and one message for one. *)
LEMMA NoBurst == Net!Node!Loops!Tracing!Probing!Burst({}) = <<>>
<1>1. Net!Node!Loops!Tracing!Probing!Cardinality({}) = 0
  BY FS_EmptySet DEF Net!Node!Loops!Tracing!Probing!Cardinality, Cardinality
<1> QED BY <1>1 DEF Net!Node!Loops!Tracing!Probing!Burst

LEMMA OneBurst ==
  ASSUME NEW a, NEW b
  PROVE  Net!Node!Loops!Tracing!Probing!Burst({<<a, b>>}) = <<ProbeOf(a, b)>>
<1> DEFINE p == <<a, b>>
           order == Net!Node!Loops!Tracing!Probing!AnOrder({p})
           message(x) == Net!Node!Loops!Tracing!Probing!ProbeMessage(x)
<1> HIDE DEF p
<1>1. Net!Node!Loops!Tracing!Probing!Cardinality({p}) = 1
  BY FS_Singleton DEF Net!Node!Loops!Tracing!Probing!Cardinality, Cardinality
<1>2. order \in [1..1 -> {p}]
  <2>1. [i \in 1..1 |-> p] \in [1..1 -> {p}]
    OBVIOUS
  <2>2. Net!Node!Loops!Tracing!Probing!IsInjective([i \in 1..1 |-> p])
    <3>1. \A i \in 1..1 : i = 1
      OBVIOUS
    <3> QED BY <3>1 DEF Net!Node!Loops!Tracing!Probing!IsInjective
  <2> QED BY <1>1, <2>1, <2>2 
   DEF Net!Node!Loops!Tracing!Probing!AnOrder, Net!Node!Loops!Tracing!Probing!Orders,
     Net!Node!Loops!Tracing!Probing!Injection
<1>3. order[1] = p
  BY <1>2
<1> HIDE DEF order, message
<1>4. Net!Node!Loops!Tracing!Probing!Burst({p}) = [i \in 1..1 |-> message(order[i])]
  BY <1>1 DEF Net!Node!Loops!Tracing!Probing!Burst, order, message
<1>5. [i \in 1..1 |-> message(order[i])] = <<message(order[1])>>
  OBVIOUS
<1> QED BY <1>3, <1>4, <1>5 DEF message, p, ProbeOf

(* What is sent for some probes are messages of the probes engine. *)
LEMMA BurstType ==
  ASSUME NEW S \in SUBSET Introductions
  PROVE  Net!Node!Loops!Tracing!Probing!Burst(S) \in Seq(Net!Node!Loops!Tracing!Probing!Messages)
<1> DEFINE k == Net!Node!Loops!Tracing!Probing!Cardinality(S)
           order == Net!Node!Loops!Tracing!Probing!AnOrder(S)
           M == Net!Node!Loops!Tracing!Probing!Messages
           message(x) == Net!Node!Loops!Tracing!Probing!ProbeMessage(x)
<1>1. IsFiniteSet(S)
  <2>1. IsFiniteSet(Nodes \X Nodes)
    BY NetworkAssumption, FS_Product
  <2> QED BY <2>1, NetworkAssumption, FS_Subset
<1>2. k = Cardinality(S)
  BY DEF Net!Node!Loops!Tracing!Probing!Cardinality, Cardinality
<1>3. Cardinality(S) \in Nat /\ ExistsBijection(1..Cardinality(S), S)
  BY <1>1, FS_CardinalityType
<1>4. PICK g \in [1..Cardinality(S) -> S] :
        \A i, j \in 1..Cardinality(S) : g[i] = g[j] => i = j
  BY <1>3 DEF ExistsBijection, Bijection, Injection, IsInjective
<1>5. Net!Node!Loops!Tracing!Probing!IsInjective(g)
  BY <1>4 DEF Net!Node!Loops!Tracing!Probing!IsInjective
<1>6. order \in [1..k -> S]
  BY <1>2, <1>4, <1>5 
   DEF Net!Node!Loops!Tracing!Probing!AnOrder, Net!Node!Loops!Tracing!Probing!Orders,
     Net!Node!Loops!Tracing!Probing!Injection
<1>7. \A p \in S : message(p) \in M
  BY DEF Net!Node!Loops!Tracing!Probing!Messages, Net!Node!Loops!Tracing!Probing!Probes
<1> HIDE DEF k, order, M, message
<1>8. [i \in 1..k |-> message(order[i])] \in Seq(M)
  BY <1>2, <1>3, <1>6, <1>7
<1> QED BY <1>8 DEF k, order, M, message, Net!Node!Loops!Tracing!Probing!Burst

(* n queues probes: its own rows change, and nobody is made a friend. *)
LEMMA Queueing ==
  ASSUME NEW n \in Nodes, NEW status, NEW queued, NEW net, Row(status), ProbeSets(queued),
         Rows(net), Hands(hand), Offers(offer), Records(to),
         Net!Node!Loops!Tracing!Probing!QueueProbes(n, status, queued, net)
  PROVE  /\ Hands(hand') /\ Offers(offer') /\ Records(to') /\ Rows(network')
         /\ \A f \in Nodes : hand'[n][f] = "none" <=> status[f] = "none"
         /\ \A m \in Nodes \ {n} :
              hand'[m] = hand[m] /\ to'[m] = to[m] /\ network'[m] = net[m]
         /\ \A f \in Nodes :
              network'[n][f] =
                net[n][f] \o Net!Node!Loops!Tracing!Probing!Queued(n, status, queued, f)
<1> DEFINE raised(f) == Net!Node!Loops!Tracing!Probing!Raises(status, queued, f)
           sent(f) == Net!Node!Loops!Tracing!Probing!Queued(n, status, queued, f)
           crossed(p) == {f \in Nodes :
             p \in Net!Node!Loops!Tracing!Probing!Flushed(n, status, queued, f)}
           hands == [f \in Nodes |-> IF raised(f) THEN "waiting" ELSE status[f]]
<1>1. /\ hand' = [hand EXCEPT ![n] = hands]
      /\ offer' = [offer EXCEPT ![n] = [f \in Nodes |-> @[f] \cup queued[f]]]
      /\ to' = [to EXCEPT ![n] = [p \in Introductions |-> @[p] \cup crossed(p)]]
      /\ network' = [net EXCEPT ![n] = [f \in Nodes |-> @[f] \o sent(f)]]
  BY DEF Net!Node!Loops!Tracing!Probing!QueueProbes, Net!Node!Loops!Tracing!Probing!Probes
<1>2. \A p : crossed(p) \subseteq Nodes
  OBVIOUS
<1>3. \A f \in Nodes : raised(f) => status[f] = "listening"
  BY DEF Net!Node!Loops!Tracing!Probing!Raises
<1> HIDE DEF raised, sent, crossed
<1>4. hands \in [Nodes -> Statuses] /\ \A f \in Nodes : hands[f] = "none" <=> status[f] = "none"
  BY <1>3 DEF Row, Statuses
<1> HIDE DEF hands
<1>5. /\ Hands(hand')
      /\ \A f \in Nodes : hand'[n][f] = "none" <=> status[f] = "none"
      /\ \A m \in Nodes \ {n} : hand'[m] = hand[m]
  BY <1>1, <1>4 DEF Hands
<1>6. Offers(offer')
  BY <1>1 DEF Offers, ProbeSets
<1>7. Records(to') /\ \A m \in Nodes \ {n} : to'[m] = to[m]
  BY <1>1, <1>2 DEF Records
<1>8. /\ Rows(network')
      /\ \A m \in Nodes \ {n} : network'[m] = net[m]
      /\ \A f \in Nodes : network'[n][f] = net[n][f] \o sent(f)
  BY <1>1 DEF Rows
<1> QED BY <1>5, <1>6, <1>7, <1>8 DEF sent

(* What n sends to f: nothing if nothing is queued. *)
LEMMA QueuedNothing ==
  ASSUME NEW n, NEW status, NEW queued, NEW f, queued[f] = {}
  PROVE  Net!Node!Loops!Tracing!Probing!Queued(n, status, queued, f) = <<>>
<1>1. Net!Node!Loops!Tracing!Probing!Flushed(n, status, queued, f) = {}
  BY DEF Net!Node!Loops!Tracing!Probing!Flushed
<1>2. ~Net!Node!Loops!Tracing!Probing!Raises(status, queued, f)
  BY DEF Net!Node!Loops!Tracing!Probing!Raises
<1>3. <<>> \o <<>> = <<>>
  OBVIOUS
<1> QED BY <1>1, <1>2, <1>3, NoBurst DEF Net!Node!Loops!Tracing!Probing!Queued

(* The probe of a and b, if a has none but that and talks to b. *)
LEMMA QueuedOne ==
  ASSUME NEW a \in Nodes, NEW b \in Nodes, NEW status, NEW queued,
         status[b] = "talking", queued[b] = {<<a, b>>}, offer[a][b] = {},
         from[a][<<a, b>>] = {}, to[a][<<a, b>>] = {}
  PROVE  Net!Node!Loops!Tracing!Probing!Queued(a, status, queued, b) = <<ProbeOf(a, b)>>
<1> DEFINE p == <<a, b>>
           probe == ProbeOf(a, b)
<1>1. Net!Node!Loops!Tracing!Probing!Virgin(a, b, {p}) = {p}
  <2> HIDE DEF p
  <2>1. from[a][p] = {} /\ to[a][p] = {}
    BY DEF p
  <2> QED BY <2>1 DEF Net!Node!Loops!Tracing!Probing!Virgin
<1>2. Net!Node!Loops!Tracing!Probing!Flushed(a, status, queued, b) = {p}
  <2> HIDE DEF p
  <2>1. queued[b] = {p} /\ offer[a][b] \cup {p} = {p}
    BY DEF p
  <2> QED BY <1>1, <2>1 DEF Net!Node!Loops!Tracing!Probing!Flushed
<1>3. ~Net!Node!Loops!Tracing!Probing!Raises(status, queued, b)
  BY DEF Net!Node!Loops!Tracing!Probing!Raises
<1>4. Net!Node!Loops!Tracing!Probing!Burst({p}) = <<probe>>
  BY OneBurst
<1> HIDE DEF p, probe
<1>5. <<probe>> \o <<>> = <<probe>>
  OBVIOUS
<1> QED BY <1>2, <1>3, <1>4, <1>5 DEF Net!Node!Loops!Tracing!Probing!Queued, probe

(* Messages of the probes engine in any case. *)
LEMMA QueuedType ==
  ASSUME NEW n \in Nodes, NEW status, NEW queued, NEW f \in Nodes, ProbeSets(queued), Offers(offer)
  PROVE  Net!Node!Loops!Tracing!Probing!Queued(n, status, queued, f)
           \in Seq(Net!Node!Loops!Tracing!Probing!Messages)
<1> DEFINE M == Net!Node!Loops!Tracing!Probing!Messages
           S == Net!Node!Loops!Tracing!Probing!Flushed(n, status, queued, f)
           burst == Net!Node!Loops!Tracing!Probing!Burst(S)
           rest == IF Net!Node!Loops!Tracing!Probing!Raises(status, queued, f)
                   THEN <<Net!Node!Loops!Tracing!Probing!HaveProbes>> ELSE <<>>
<1>1. S \subseteq Introductions
  BY DEF Net!Node!Loops!Tracing!Probing!Flushed, Net!Node!Loops!Tracing!Probing!Virgin, ProbeSets,
     Offers
<1>2. burst \in Seq(M)
  <2> HIDE DEF S
  <2> QED BY <1>1, BurstType
<1>3. rest \in Seq(M)
  <2>1. Net!Node!Loops!Tracing!Probing!HaveProbes \in M
    BY DEF Net!Node!Loops!Tracing!Probing!Messages
  <2> HIDE DEF M
  <2> QED BY <2>1
<1> HIDE DEF burst, rest, M
<1>4. burst \o rest \in Seq(M)
  BY <1>2, <1>3
<1> QED BY <1>4 DEF burst, rest, M, S, Net!Node!Loops!Tracing!Probing!Queued

-----------------------------------------------------------------------------
(***************************************************************************)
(* The commands and the handlers, one table at a time.                     *)
(***************************************************************************)
(* a meets b. *)
MeetStatus(a, b) == [hand[a] EXCEPT ![b] = "talking"]

MeetQueue(a, b) ==
  [f \in Nodes |-> IF f = b THEN known[a] \cup {<<a, b>>}
                   ELSE IF hand[a][f] # "none" THEN {<<a, b>>} ELSE {}]

GreetingSent(a, b) == [network EXCEPT ![a][b] = @ \o <<Greeting>>]

LEMMA MeetUnfolded ==
  ASSUME NEW a \in Nodes, NEW b \in Nodes, NEW amount, Net!Meet(a, b, amount)
  PROVE  /\ <<a, b>> \in Introductions /\ hand[a][b] = "none"
         /\ nodes' = nodes \cup {a, b} /\ heard' = heard \cup ({a, b} \ nodes)
         /\ known' = [known EXCEPT ![a] = @ \cup {<<a, b>>}]
         /\ Net!Node!Loops!Tracing!Probing!QueueProbes(a, MeetStatus(a, b), MeetQueue(a, b),
              GreetingSent(a, b))
         /\ trust' = [trust EXCEPT ![a][b] = amount]
         /\ from' = from /\ balance' = balance
<1> DEFINE queue == [f \in Nodes |-> IF f = b THEN known[a] \cup {<<a, b>>}
                       ELSE IF f \in Net!Node!Loops!Tracing!Probing!Friends(a) THEN {<<a, b>>}
                       ELSE {}]
<1>1. /\ Net!Ensure({a, b})
      /\ Net!Node!Loops!Tracing!Probing!Meet(a, b)
      /\ trust' = [trust EXCEPT ![a][b] = amount] /\ balance' = balance
  BY DEF Net!Meet, Net!Node!Meet, Net!Node!Loops!Meet, Net!Node!Loops!Tracing!Meet
<1>2. queue = MeetQueue(a, b)
  BY DEF MeetQueue, Net!Node!Loops!Tracing!Probing!Friends
<1>3. Net!Node!Loops!Tracing!Probing!Sent(network, a, b, <<Greeting>>) = GreetingSent(a, b)
  BY DEF GreetingSent, Net!Node!Loops!Tracing!Probing!Sent
<1>4. /\ <<a, b>> \in Introductions /\ hand[a][b] = "none"
      /\ known' = [known EXCEPT ![a] = @ \cup {<<a, b>>}]
      /\ Net!Node!Loops!Tracing!Probing!QueueProbes(a, MeetStatus(a, b), queue,
           Net!Node!Loops!Tracing!Probing!Sent(network, a, b, <<Greeting>>))
      /\ from' = from
  BY <1>1 DEF Net!Node!Loops!Tracing!Probing!Meet, MeetStatus, Greeting
<1> HIDE DEF queue
<1> QED BY <1>1, <1>2, <1>3, <1>4 DEF Net!Ensure

LEMMA Meets ==
  ASSUME MemoryInv, NEW a \in Nodes, NEW b \in Nodes, NEW amount \in Trusts \cup {0},
         Net!Meet(a, b, amount)
  PROVE  /\ MemoryInv'
         /\ a # b /\ hand'[a][b] # "none"
         /\ \A m, f \in Nodes : <<m, f>> # <<a, b>> => (hand'[m][f] = "none" <=> hand[m][f] = "none")
         /\ \A m \in Nodes \ {a} : network'[m] = network[m] /\ known'[m] = known[m]
         /\ \A f \in Nodes :
              network'[a][f] =
                (IF f = b THEN network[a][b] \o <<Greeting>> ELSE network[a][f])
                  \o Net!Node!Loops!Tracing!Probing!Queued(a, MeetStatus(a, b), MeetQueue(a, b), f)
         /\ ProbeSets(MeetQueue(a, b)) /\ Offers(offer)
<1>1. /\ <<a, b>> \in Introductions
      /\ nodes' = nodes \cup {a, b} /\ heard' = heard \cup ({a, b} \ nodes)
      /\ known' = [known EXCEPT ![a] = @ \cup {<<a, b>>}]
      /\ Net!Node!Loops!Tracing!Probing!QueueProbes(a, MeetStatus(a, b), MeetQueue(a, b),
           GreetingSent(a, b))
      /\ trust' = [trust EXCEPT ![a][b] = amount]
      /\ from' = from /\ balance' = balance
  BY MeetUnfolded
<1>2. /\ nodes \subseteq Nodes
      /\ Hands(hand) /\ ProbeSets(known) /\ Records(from) /\ Records(to)
      /\ Amounts(trust, Trusts) /\ Amounts(balance, Balances)
      /\ Offers(offer) /\ Rows(network) /\ heard \subseteq nodes
      /\ \A n \in Nodes : hand[n][n] = "none"
      /\ \A n \in Nodes \ nodes : Newcomer(n, hand, known, from, to)
  BY DEF MemoryInv, Sound
<1>3. a # b
  BY <1>1, NetworkAssumption
<1>4. Row(MeetStatus(a, b)) /\ \A f \in Nodes :
        MeetStatus(a, b)[f] = IF f = b THEN "talking" ELSE hand[a][f]
  BY <1>2 DEF Row, MeetStatus, Hands, Statuses
<1>5. ProbeSets(MeetQueue(a, b))
  BY <1>1, <1>2 DEF MeetQueue, ProbeSets
<1>6. /\ Rows(GreetingSent(a, b))
      /\ \A m \in Nodes \ {a} : GreetingSent(a, b)[m] = network[m]
      /\ \A f \in Nodes : GreetingSent(a, b)[a][f] =
           IF f = b THEN network[a][b] \o <<Greeting>> ELSE network[a][f]
  BY <1>2 DEF GreetingSent, Rows
<1>7. /\ Hands(hand') /\ Offers(offer') /\ Records(to') /\ Rows(network')
      /\ \A f \in Nodes : hand'[a][f] = "none" <=> MeetStatus(a, b)[f] = "none"
      /\ \A m \in Nodes \ {a} :
           hand'[m] = hand[m] /\ to'[m] = to[m] /\ network'[m] = GreetingSent(a, b)[m]
      /\ \A f \in Nodes :
           network'[a][f] = GreetingSent(a, b)[a][f]
             \o Net!Node!Loops!Tracing!Probing!Queued(a, MeetStatus(a, b), MeetQueue(a, b), f)
  BY <1>1, <1>2, <1>4, <1>5, <1>6, Queueing
<1>8. ProbeSets(known') /\ \A m \in Nodes \ {a} : known'[m] = known[m]
  BY <1>1, <1>2 DEF ProbeSets
<1>9. Amounts(trust', Trusts)
  BY <1>1, <1>2 DEF Amounts
<1>10. \A m, f \in Nodes : <<m, f>> # <<a, b>> => (hand'[m][f] = "none" <=> hand[m][f] = "none")
  BY <1>4, <1>7
<1>11. \A n \in Nodes : hand'[n][n] = "none"
  BY <1>2, <1>3, <1>10
<1>12. ASSUME NEW n \in Nodes \ nodes' PROVE Newcomer(n, hand', known', from', to')
  <2>1. n \in Nodes \ nodes /\ n # a /\ n # b
    BY <1>1, <1>12
  <2>2. Newcomer(n, hand, known, from, to) /\ known'[n] = known[n] /\ to'[n] = to[n]
    BY <1>2, <1>7, <1>8, <2>1
  <2>3. \A f \in Nodes : hand'[n][f] = "none" /\ hand'[f][n] = "none"
    BY <1>10, <2>1, <2>2 DEF Newcomer
  <2> QED BY <1>1, <2>2, <2>3 DEF Newcomer
<1>13. MemoryInv'
  BY <1>1, <1>2, <1>7, <1>8, <1>9, <1>11, <1>12 DEF MemoryInv, Sound
<1> QED
  BY <1>2, <1>3, <1>4, <1>5, <1>6, <1>7, <1>8, <1>10, <1>13

(* n takes a message from m and does no more than to its own rows. *)
LEMMA KeepsMemory ==
  ASSUME MemoryInv, NEW m \in nodes, NEW n \in nodes, m # n, nodes' = nodes, heard' = heard,
         Hands(hand'), \A x \in Nodes \ {n} : hand'[x] = hand[x],
         \A f \in Nodes \ {m} : hand'[n][f] = "none" <=> hand[n][f] = "none",
         ProbeSets(known'), \A x \in Nodes \ {n} : known'[x] = known[x],
         Records(from'), \A x \in Nodes \ {n} : from'[x] = from[x],
         Records(to'), \A x \in Nodes \ {n} : to'[x] = to[x],
         Offers(offer'), Rows(network'), Amounts(trust', Trusts), Amounts(balance', Balances)
  PROVE  MemoryInv'
<1>1. /\ nodes \subseteq Nodes /\ heard \subseteq nodes
      /\ \A x \in Nodes : hand[x][x] = "none"
      /\ \A x \in Nodes \ nodes : Newcomer(x, hand, known, from, to)
  BY DEF MemoryInv, Sound
<1>2. n \in Nodes /\ m \in Nodes
  BY <1>1
<1>3. ASSUME NEW x \in Nodes PROVE hand'[x][x] = "none"
  BY <1>1, <1>2
<1>4. ASSUME NEW x \in Nodes \ nodes' PROVE Newcomer(x, hand', known', from', to')
  <2>1. x \in Nodes \ nodes /\ x # m /\ x # n
    BY <1>4
  <2>2. Newcomer(x, hand, known, from, to)
    BY <1>1, <2>1
  <2>3. \A f \in Nodes : hand'[x][f] = "none" /\ hand'[f][x] = "none"
    <3> TAKE f \in Nodes
    <3>1. hand'[x][f] = "none"
      BY <2>1, <2>2 DEF Newcomer
    <3>2. CASE f = n
      BY <3>1, <3>2, <2>1, <2>2, <1>2 DEF Newcomer
    <3>3. CASE f # n
      BY <3>1, <3>3, <2>2 DEF Newcomer
    <3> QED BY <3>2, <3>3
  <2> QED BY <2>1, <2>2, <2>3 DEF Newcomer
<1> QED BY <1>1, <1>3, <1>4 DEF MemoryInv, Sound

(* What is in memory, piece by piece. *)
LEMMA MemoryFacts ==
  ASSUME MemoryInv
  PROVE  /\ nodes \subseteq Nodes
         /\ Hands(hand) /\ ProbeSets(known) /\ Records(from) /\ Records(to)
         /\ Amounts(trust, Trusts) /\ Amounts(balance, Balances)
         /\ Offers(offer) /\ Rows(network) /\ heard \subseteq nodes
         /\ \A n \in Nodes : hand[n][n] = "none"
         /\ \A n \in Nodes \ nodes : Newcomer(n, hand, known, from, to)
BY DEF MemoryInv, Sound

(* The oldest message of m to n is gone, and n's own messages are those of rows. *)
TakenFrom(m, n) == [network EXCEPT ![m][n] = Tail(@)]

LEMMA Takes ==
  ASSUME Rows(network), NEW m \in Nodes, NEW n \in Nodes
  PROVE  /\ Rows(TakenFrom(m, n))
         /\ TakenFrom(m, n)[m][n] = Tail(network[m][n])
         /\ \A x \in Nodes \ {m} : TakenFrom(m, n)[x] = network[x]
BY DEF Rows, TakenFrom

(* 'meet' from m. *)
LEMMA HandlesMeet ==
  ASSUME MemoryInv, NEW m \in nodes, NEW n \in nodes, m # n, nodes' = nodes, heard' = heard,
         trust' = trust, balance' = balance, Net!Node!Loops!Tracing!Probing!HandleMeet(m, n)
  PROVE  /\ MemoryInv' /\ known' = known
         /\ hand'[n][m] # "none"
         /\ \A x, f \in Nodes : <<x, f>> # <<n, m>> => (hand'[x][f] = "none" <=> hand[x][f] = "none")
         /\ network'[m][n] = Tail(network[m][n])
         /\ known[n] = {} /\ Silent(n) => \A f \in Nodes : network'[n][f] = <<>>
<1> DEFINE status == [hand[n] EXCEPT ![m] = "listening"]
           queue == [f \in Nodes |-> IF f = m THEN known[n] ELSE {}]
<1>1. /\ Net!Node!Loops!Tracing!Probing!QueueProbes(n, status, queue, TakenFrom(m, n))
      /\ known' = known /\ from' = from
  BY DEF Net!Node!Loops!Tracing!Probing!HandleMeet, Net!Node!Loops!Tracing!Probing!Taken, TakenFrom
<1>2. m \in Nodes /\ n \in Nodes
  BY MemoryFacts
<1>3. Row(status) /\ \A f \in Nodes : status[f] = IF f = m THEN "listening" ELSE hand[n][f]
  BY <1>2, MemoryFacts DEF Row, Hands, Statuses
<1>4. ProbeSets(queue) /\ \A f \in Nodes : known[n] = {} => queue[f] = {}
  BY <1>2, MemoryFacts DEF ProbeSets
<1>5. /\ Rows(TakenFrom(m, n)) /\ TakenFrom(m, n)[m][n] = Tail(network[m][n])
      /\ \A x \in Nodes \ {m} : TakenFrom(m, n)[x] = network[x]
  BY <1>2, MemoryFacts, Takes
<1> HIDE DEF status, queue
<1>6. /\ Hands(hand') /\ Offers(offer') /\ Records(to') /\ Rows(network')
      /\ \A f \in Nodes : hand'[n][f] = "none" <=> status[f] = "none"
      /\ \A x \in Nodes \ {n} :
           hand'[x] = hand[x] /\ to'[x] = to[x] /\ network'[x] = TakenFrom(m, n)[x]
      /\ \A f \in Nodes :
           network'[n][f] = TakenFrom(m, n)[n][f]
             \o Net!Node!Loops!Tracing!Probing!Queued(n, status, queue, f)
  BY <1>1, <1>2, <1>3, <1>4, <1>5, MemoryFacts, Queueing
<1>7. MemoryInv'
  <2>1. \A f \in Nodes \ {m} : hand'[n][f] = "none" <=> hand[n][f] = "none"
    BY <1>3, <1>6
  <2> QED BY <1>1, <1>6, <2>1, MemoryFacts, KeepsMemory
<1>8. ASSUME known[n] = {}, Silent(n), NEW f \in Nodes PROVE network'[n][f] = <<>>
  <2>1. Net!Node!Loops!Tracing!Probing!Queued(n, status, queue, f) = <<>>
    BY <1>4, <1>8, QueuedNothing
  <2>2. TakenFrom(m, n)[n][f] = <<>>
    BY <1>2, <1>5, <1>8 DEF Silent
  <2>3. network'[n][f] = <<>> \o <<>>
    BY <1>6, <2>1, <2>2
  <2> QED BY <2>3
<1> QED BY <1>1, <1>2, <1>3, <1>5, <1>6, <1>7, <1>8

(* A new probe from m. *)
LEMMA Floods ==
  ASSUME MemoryInv, NEW m \in nodes, NEW n \in nodes, m # n, NEW p \in Introductions,
         nodes' = nodes, heard' = heard, trust' = trust, balance' = balance,
         Net!Node!Loops!Tracing!Probing!FloodNewProbe(m, n, p)
  PROVE  /\ MemoryInv'
         /\ \A x, f \in Nodes : hand'[x][f] = "none" <=> hand[x][f] = "none"
         /\ (\A f \in Nodes \ {m} : hand[n][f] = "none") /\ Silent(n)
              => \A f \in Nodes : network'[n][f] = <<>>
<1> DEFINE status == hand[n]
           friends == Net!Node!Loops!Tracing!Probing!Friends(n) \ {m}
           queue == [f \in Nodes |-> IF f \in friends THEN {p} ELSE {}]
<1>1. /\ Net!Node!Loops!Tracing!Probing!QueueProbes(n, status, queue, TakenFrom(m, n))
      /\ known' = [known EXCEPT ![n] = @ \cup {p}]
      /\ from' = [from EXCEPT ![n][p] = @ \cup {m}]
  BY DEF Net!Node!Loops!Tracing!Probing!FloodNewProbe, Net!Node!Loops!Tracing!Probing!Taken,
     TakenFrom
<1>2. m \in Nodes /\ n \in Nodes
  BY MemoryFacts
<1>3. Row(status) /\ status = hand[n]
  BY <1>2, MemoryFacts DEF Row, Hands
<1>4. (\A f \in Nodes \ {m} : hand[n][f] = "none") => friends = {}
  BY DEF Net!Node!Loops!Tracing!Probing!Friends
<1> HIDE DEF friends
<1>5. ProbeSets(queue) /\ \A f \in Nodes : friends = {} => queue[f] = {}
  BY DEF ProbeSets
<1>6. /\ Rows(TakenFrom(m, n)) /\ TakenFrom(m, n)[m][n] = Tail(network[m][n])
      /\ \A x \in Nodes \ {m} : TakenFrom(m, n)[x] = network[x]
  BY <1>2, MemoryFacts, Takes
<1> HIDE DEF queue, status
<1>7. /\ Hands(hand') /\ Offers(offer') /\ Records(to') /\ Rows(network')
      /\ \A f \in Nodes : hand'[n][f] = "none" <=> status[f] = "none"
      /\ \A x \in Nodes \ {n} :
           hand'[x] = hand[x] /\ to'[x] = to[x] /\ network'[x] = TakenFrom(m, n)[x]
      /\ \A f \in Nodes :
           network'[n][f] = TakenFrom(m, n)[n][f]
             \o Net!Node!Loops!Tracing!Probing!Queued(n, status, queue, f)
  <2>1. /\ Hands(hand) /\ Offers(offer) /\ Records(to)
        /\ Row(status) /\ ProbeSets(queue) /\ Rows(TakenFrom(m, n))
    BY <1>3, <1>5, <1>6, MemoryFacts
  <2>2. Net!Node!Loops!Tracing!Probing!QueueProbes(n, status, queue, TakenFrom(m, n))
    BY <1>1
  <2> QED BY <1>2, <2>1, <2>2, Queueing
<1>8. ProbeSets(known') /\ \A x \in Nodes \ {n} : known'[x] = known[x]
  BY <1>1, <1>2, MemoryFacts DEF ProbeSets
<1>9. Records(from') /\ \A x \in Nodes \ {n} : from'[x] = from[x]
  BY <1>1, <1>2, MemoryFacts DEF Records
<1>10. MemoryInv'
  <2>1. \A f \in Nodes \ {m} : hand'[n][f] = "none" <=> hand[n][f] = "none"
    BY <1>3, <1>7
  <2> QED BY <1>7, <1>8, <1>9, <2>1, MemoryFacts, KeepsMemory
<1>11. ASSUME friends = {}, Silent(n), NEW f \in Nodes PROVE network'[n][f] = <<>>
  <2>1. Net!Node!Loops!Tracing!Probing!Queued(n, status, queue, f) = <<>>
    BY <1>5, <1>11, QueuedNothing
  <2>2. TakenFrom(m, n)[n][f] = <<>>
    BY <1>2, <1>6, <1>11 DEF Silent
  <2>3. network'[n][f] = <<>> \o <<>>
    BY <1>7, <2>1, <2>2
  <2> QED BY <2>3
<1> QED BY <1>2, <1>3, <1>4, <1>7, <1>10, <1>11

(* A probe that has come before, from another friend or on the same link. *)
LEMMA LoopsBack ==
  ASSUME MemoryInv, NEW m \in nodes, NEW n \in nodes, m # n, NEW p \in Introductions,
         nodes' = nodes, heard' = heard, trust' = trust, balance' = balance,
         Net!Node!Loops!Tracing!HandleProbeLoopback(m, n, p)
  PROVE  MemoryInv' /\ hand' = hand /\ p \in known[n]
<1> DEFINE sent(net) == [f \in Nodes |->
             IF f \in DOMAIN net THEN Append(TakenFrom(m, n)[n][f], net[f]) ELSE TakenFrom(m, n)[n][f]]
           traces == [f \in from[n][p] \cup {m} |->
                        Net!Node!Loops!Tracing!TraceMessage(<<p, n, m>>, f)]
<1>1. /\ p \in known[n]
      /\ hand' = hand /\ known' = known /\ to' = to /\ offer' = offer
      /\ from' = [from EXCEPT ![n][p] = @ \cup {m}]
  BY DEF Net!Node!Loops!Tracing!HandleProbeLoopback,
     Net!Node!Loops!Tracing!Probing!RecordLoopback
<1>2. network' = [TakenFrom(m, n) EXCEPT ![n] = sent(traces)]
  BY DEF Net!Node!Loops!Tracing!HandleProbeLoopback, Net!Node!Loops!Tracing!Broadcast,
     Net!Node!Loops!Tracing!Probing!Taken, TakenFrom
<1>3. m \in Nodes /\ n \in Nodes
  BY MemoryFacts
<1>4. Rows(TakenFrom(m, n))
  BY <1>3, MemoryFacts, Takes
<1>5. DOMAIN sent(traces) = Nodes
  OBVIOUS
<1> HIDE DEF sent, traces
<1>6. Rows(network')
  BY <1>2, <1>4, <1>5 DEF Rows
<1>7. Records(from') /\ \A x \in Nodes \ {n} : from'[x] = from[x]
  BY <1>1, <1>3, MemoryFacts DEF Records
<1>8. Hands(hand') /\ ProbeSets(known') /\ Records(to') /\ Offers(offer')
  BY <1>1, MemoryFacts
<1> QED BY <1>1, <1>6, <1>7, <1>8, MemoryFacts, KeepsMemory

LEMMA Ignores ==
  ASSUME MemoryInv, NEW m \in nodes, NEW n \in nodes, m # n, NEW p,
         nodes' = nodes, heard' = heard, trust' = trust, balance' = balance,
         Net!Node!Loops!Tracing!Probing!IgnoreProbe(m, n, p)
  PROVE  MemoryInv' /\ hand' = hand /\ p \in known[n]
<1>1. /\ p \in known[n] /\ network' = TakenFrom(m, n)
      /\ hand' = hand /\ known' = known /\ from' = from /\ to' = to /\ offer' = offer
  BY DEF Net!Node!Loops!Tracing!Probing!IgnoreProbe, Net!Node!Loops!Tracing!Probing!Taken, TakenFrom
<1>2. m \in Nodes /\ n \in Nodes
  BY MemoryFacts
<1>3. Rows(network')
  BY <1>1, <1>2, MemoryFacts, Takes
<1> QED BY <1>1, <1>3, MemoryFacts, KeepsMemory

(* The friends engine sets a balance. *)
CreditedTable(n, f, amount) ==
  IF hand[n][f] # "none" THEN [balance EXCEPT ![n][f] = amount] ELSE balance

LEMMA Credits ==
  ASSUME MemoryInv, NEW n \in Nodes, NEW f \in Nodes, NEW amount \in Balances,
         balance' = CreditedTable(n, f, amount)
  PROVE  /\ Amounts(balance', Balances)
         /\ \A x, g \in Nodes : balance'[x][g] =
              IF <<x, g>> = <<n, f>> /\ hand[n][f] # "none" THEN amount ELSE balance[x][g]
BY MemoryFacts DEF CreditedTable, Amounts

(* 'set-balance' from m. *)
LEMMA HandlesBalance ==
  ASSUME MemoryInv, NEW m \in nodes, NEW n \in nodes, m # n, NEW amount \in Balances,
         nodes' = nodes, heard' = heard, trust' = trust,
         balance' = CreditedTable(n, m, amount), network' = TakenFrom(m, n),
         hand' = hand, known' = known, from' = from, to' = to, offer' = offer
  PROVE  MemoryInv' /\ \A f \in Nodes : network'[n][f] = network[n][f]
<1>1. m \in Nodes /\ n \in Nodes
  BY MemoryFacts
<1>2. Rows(network') /\ \A f \in Nodes : network'[n][f] = network[n][f]
  BY <1>1, MemoryFacts, Takes
<1>3. Amounts(balance', Balances)
  BY <1>1, Credits
<1> QED BY <1>2, <1>3, MemoryFacts, KeepsMemory

-----------------------------------------------------------------------------
(***************************************************************************)
(* Which handler takes a message.                                          *)
(***************************************************************************)
Oldest(m, n, message) == network[m][n] # <<>> /\ Head(network[m][n]) = message

(* Every handler of the probes engine takes messages of one type. *)
LEMMA HandlerTypes ==
  ASSUME NEW m, NEW n, NEW type, Head(network[m][n]).type = type
  PROVE  /\ \A p : Net!Node!Loops!Tracing!Probing!FloodNewProbe(m, n, p) => type = "probe"
         /\ \A p : Net!Node!Loops!Tracing!Probing!IgnoreProbe(m, n, p) => type = "probe"
         /\ \A p : Net!Node!Loops!Tracing!HandleProbeLoopback(m, n, p) => type = "probe"
         /\ Net!Node!Loops!Tracing!Probing!HandleMeet(m, n) => type = "meet"
         /\ Net!Node!Loops!Tracing!Probing!HandleHaveProbes(m, n) => type = "have-probes"
         /\ Net!Node!Loops!Tracing!Probing!HandleOkayToSendProbes(m, n)
              => type = "okay-to-send-probes"
<1>1. ASSUME NEW p, Net!Node!Loops!Tracing!Probing!Arrives(m, n,
               Net!Node!Loops!Tracing!Probing!ProbeMessage(p))
      PROVE  type = "probe"
  BY <1>1 DEF Net!Node!Loops!Tracing!Probing!Arrives, Net!Node!Loops!Tracing!Probing!ProbeMessage
<1>2. \A p : Net!Node!Loops!Tracing!Probing!FloodNewProbe(m, n, p) => type = "probe"
  BY <1>1 DEF Net!Node!Loops!Tracing!Probing!FloodNewProbe
<1>3. \A p : Net!Node!Loops!Tracing!Probing!IgnoreProbe(m, n, p) => type = "probe"
  BY <1>1 DEF Net!Node!Loops!Tracing!Probing!IgnoreProbe
<1>4. \A p : Net!Node!Loops!Tracing!HandleProbeLoopback(m, n, p) => type = "probe"
  BY <1>1 DEF Net!Node!Loops!Tracing!HandleProbeLoopback,
     Net!Node!Loops!Tracing!Probing!RecordLoopback
<1>5. Net!Node!Loops!Tracing!Probing!HandleMeet(m, n) => type = "meet"
  BY DEF Net!Node!Loops!Tracing!Probing!HandleMeet, Net!Node!Loops!Tracing!Probing!Arrives,
     Net!Node!Loops!Tracing!Probing!MeetMessage
<1>6. Net!Node!Loops!Tracing!Probing!HandleHaveProbes(m, n) => type = "have-probes"
  BY DEF Net!Node!Loops!Tracing!Probing!HandleHaveProbes,
     Net!Node!Loops!Tracing!Probing!Arrives, Net!Node!Loops!Tracing!Probing!HaveProbes
<1>7. Net!Node!Loops!Tracing!Probing!HandleOkayToSendProbes(m, n)
        => type = "okay-to-send-probes"
  BY DEF Net!Node!Loops!Tracing!Probing!HandleOkayToSendProbes,
     Net!Node!Loops!Tracing!Probing!Arrives, Net!Node!Loops!Tracing!Probing!OkayToSendProbes
<1> QED BY <1>2, <1>3, <1>4, <1>5, <1>6, <1>7

LEMMA TakesMeet ==
  ASSUME NEW m, NEW n, Oldest(m, n, Greeting), Net!Node!Handle(m, n)
  PROVE  Net!Node!Loops!Tracing!Probing!HandleMeet(m, n) /\ trust' = trust /\ balance' = balance
<1>1. Greeting.type = "meet"
  BY DEF Greeting, Net!Node!Loops!Tracing!Probing!MeetMessage
<1>2. Net!Node!Loops!Tracing!Arriving(m, n) = {}
  BY <1>1 DEF Oldest, Net!Node!Loops!Tracing!Arriving, Net!Node!Loops!Tracing!TraceMessages,
     Net!Node!Loops!Tracing!TraceMessage
<1>3. /\ Net!Node!Loops!Arriving(m, n, "propose") = {}
      /\ Net!Node!Loops!Arriving(m, n, "commit") = {}
      /\ Net!Node!Loops!Arriving(m, n, "set-balance") = {}
  BY <1>1 DEF Oldest, Net!Node!Loops!Arriving
<1>4. /\ ~\E p \in Introductions : Net!Node!Loops!Tracing!Probing!FloodNewProbe(m, n, p)
      /\ ~\E p \in Introductions : Net!Node!Loops!Tracing!Probing!IgnoreProbe(m, n, p)
      /\ ~\E p \in Introductions : Net!Node!Loops!Tracing!HandleProbeLoopback(m, n, p)
      /\ ~Net!Node!Loops!Tracing!Probing!HandleHaveProbes(m, n)
      /\ ~Net!Node!Loops!Tracing!Probing!HandleOkayToSendProbes(m, n)
  BY <1>1, HandlerTypes DEF Oldest
<1>5. Net!Node!HandleEngines(m, n)
  BY <1>3 DEF Net!Node!Handle, Net!Node!HandleSetBalance
<1>6. Net!Node!Loops!HandleTraces(m, n)
  BY <1>2, <1>3, <1>5 DEF Net!Node!HandleEngines, Net!Node!Loops!Handle,
     Net!Node!Loops!HandleLoopFound, Net!Node!Loops!ForwardPropose, Net!Node!Loops!DecideOnLift,
     Net!Node!Loops!HandleCommit, Net!Node!Loops!DropLoopMessage
<1>7. Net!Node!Loops!Tracing!HandleProbes(m, n)
  BY <1>2, <1>4, <1>6 DEF Net!Node!Loops!HandleTraces, Net!Node!Loops!Tracing!HandleOwn,
     Net!Node!Loops!Tracing!PassTrace
<1> QED BY <1>4, <1>5, <1>7 DEF Net!Node!Loops!Tracing!HandleProbes, Net!Node!HandleEngines

LEMMA TakesProbe ==
  ASSUME NEW m, NEW n, NEW a, NEW b, Oldest(m, n, ProbeOf(a, b)), Net!Node!Handle(m, n)
  PROVE  /\ \E p \in Introductions :
              \/ Net!Node!Loops!Tracing!Probing!FloodNewProbe(m, n, p)
              \/ Net!Node!Loops!Tracing!HandleProbeLoopback(m, n, p)
              \/ Net!Node!Loops!Tracing!Probing!IgnoreProbe(m, n, p)
         /\ trust' = trust /\ balance' = balance
<1> DEFINE q == <<a, b>>
<1> HIDE DEF q
<1>1. ProbeOf(a, b).type = "probe"
  BY DEF ProbeOf, Net!Node!Loops!Tracing!Probing!ProbeMessage
<1>2. Net!Node!Loops!Tracing!Arriving(m, n) = {}
  BY <1>1 DEF Oldest, Net!Node!Loops!Tracing!Arriving, Net!Node!Loops!Tracing!TraceMessages,
     Net!Node!Loops!Tracing!TraceMessage
<1>3. /\ Net!Node!Loops!Arriving(m, n, "propose") = {}
      /\ Net!Node!Loops!Arriving(m, n, "commit") = {}
      /\ Net!Node!Loops!Arriving(m, n, "set-balance") = {}
  BY <1>1 DEF Oldest, Net!Node!Loops!Arriving
<1>4. /\ ~Net!Node!Loops!Tracing!Probing!HandleMeet(m, n)
      /\ ~Net!Node!Loops!Tracing!Probing!HandleHaveProbes(m, n)
      /\ ~Net!Node!Loops!Tracing!Probing!HandleOkayToSendProbes(m, n)
  BY <1>1, HandlerTypes DEF Oldest
<1>5. Net!Node!HandleEngines(m, n)
  BY <1>3 DEF Net!Node!Handle, Net!Node!HandleSetBalance
<1>6. Net!Node!Loops!HandleTraces(m, n)
  BY <1>2, <1>3, <1>5 DEF Net!Node!HandleEngines, Net!Node!Loops!Handle,
     Net!Node!Loops!HandleLoopFound, Net!Node!Loops!ForwardPropose, Net!Node!Loops!DecideOnLift,
     Net!Node!Loops!HandleCommit, Net!Node!Loops!DropLoopMessage
<1>7. \/ Net!Node!Loops!Tracing!HandleProbes(m, n)
      \/ \E p \in Introductions : Net!Node!Loops!Tracing!HandleProbeLoopback(m, n, p)
  BY <1>2, <1>6 DEF Net!Node!Loops!HandleTraces, Net!Node!Loops!Tracing!HandleOwn,
     Net!Node!Loops!Tracing!PassTrace
<1> QED BY <1>4, <1>5, <1>7 DEF Net!Node!Loops!Tracing!HandleProbes, Net!Node!HandleEngines

LEMMA TakesBalance ==
  ASSUME NEW m, NEW n, NEW amount, Oldest(m, n, Balance(amount)), Net!Node!Handle(m, n)
  PROVE  /\ balance' = CreditedTable(n, m, amount) /\ network' = TakenFrom(m, n) /\ trust' = trust
         /\ hand' = hand /\ known' = known /\ from' = from /\ to' = to /\ offer' = offer
<1>1. Balance(amount).type = "set-balance" /\ Balance(amount).amount = amount
  BY DEF Balance, Net!Node!SetBalanceMessage
<1>2. Net!Node!Loops!Tracing!Arriving(m, n) = {}
  BY <1>1 DEF Oldest, Net!Node!Loops!Tracing!Arriving, Net!Node!Loops!Tracing!TraceMessages,
     Net!Node!Loops!Tracing!TraceMessage
<1>3. /\ Net!Node!Loops!Arriving(m, n, "propose") = {}
      /\ Net!Node!Loops!Arriving(m, n, "commit") = {}
      /\ Net!Node!Loops!Arriving(m, n, "set-balance") \subseteq {Balance(amount)}
  BY <1>1 DEF Oldest, Net!Node!Loops!Arriving
<1>4. /\ ~\E p \in Introductions : Net!Node!Loops!Tracing!Probing!FloodNewProbe(m, n, p)
      /\ ~\E p \in Introductions : Net!Node!Loops!Tracing!Probing!IgnoreProbe(m, n, p)
      /\ ~\E p \in Introductions : Net!Node!Loops!Tracing!HandleProbeLoopback(m, n, p)
      /\ ~Net!Node!Loops!Tracing!Probing!HandleMeet(m, n)
      /\ ~Net!Node!Loops!Tracing!Probing!HandleHaveProbes(m, n)
      /\ ~Net!Node!Loops!Tracing!Probing!HandleOkayToSendProbes(m, n)
  BY <1>1, HandlerTypes DEF Oldest
<1>5. ~Net!Node!Loops!HandleTraces(m, n)
  BY <1>2, <1>4 DEF Net!Node!Loops!HandleTraces, Net!Node!Loops!Tracing!HandleOwn,
     Net!Node!Loops!Tracing!PassTrace, Net!Node!Loops!Tracing!HandleProbes
<1>6. ~Net!Node!HandleEngines(m, n)
  BY <1>2, <1>3, <1>5 DEF Net!Node!HandleEngines, Net!Node!Loops!Handle,
     Net!Node!Loops!HandleLoopFound, Net!Node!Loops!ForwardPropose, Net!Node!Loops!DecideOnLift,
     Net!Node!Loops!HandleCommit, Net!Node!Loops!DropLoopMessage
<1>7. Net!Node!HandleSetBalance(m, n)
  BY <1>6 DEF Net!Node!Handle
<1> DEFINE message == Balance(amount)
<1> HIDE DEF message
<1>8. /\ Net!Node!Credit(n, m, amount)
      /\ network' = Net!Node!Loops!Probing!Taken(m, n)
      /\ UNCHANGED <<Net!Node!handled, trust>>
  BY <1>1, <1>3, <1>7 DEF Net!Node!HandleSetBalance
<1> QED
  BY <1>8 DEF Net!Node!Credit, Net!Node!AreFriends, CreditedTable, TakenFrom,
     Net!Node!Loops!Probing!Taken, Net!Node!handled

-----------------------------------------------------------------------------
(***************************************************************************)
(* What a flush of set-trust or set-balance does.                          *)
(***************************************************************************)
LEMMA Delivers ==
  ASSUME NEW a, NEW b, NEW rest, Head(batch) = <<a, b>>, Tail(batch) = rest, Net!Receive
  PROVE  Net!Node!Handle(a, b) /\ nodes' = nodes /\ heard' = heard /\ Net!Push(b, rest)
<1> DEFINE first == Head(batch)
<1>1. first[1] = a /\ first[2] = b
  OBVIOUS
<1>2. /\ Net!Node!Handle(first[1], first[2]) /\ nodes' = nodes /\ heard' = heard
      /\ Net!Push(first[2], rest)
  BY DEF Net!Receive
<1> HIDE DEF first
<1> QED BY <1>1, <1>2

(* b takes a's greeting. *)
LEMMA Greets ==
  ASSUME MemoryInv, NEW a \in Nodes, NEW b \in Nodes, a # b, a \in nodes, b \in nodes,
         Reticent(a, b), batch = <<<<a, b>>, <<a, b>>>>,
         network[a][b] = <<Greeting, ProbeOf(a, b)>>, Net!Receive
  PROVE  /\ MemoryInv' /\ trust' = trust /\ balance' = balance
         /\ Introduced(a, b)' /\ nodes' = nodes
         /\ hand'[b][a] # "none"
         /\ \A x, f \in Nodes : <<x, f>> # <<b, a>> => (hand'[x][f] = "none" <=> hand[x][f] = "none")
<1> DEFINE package == <<a, b>>
           greeting == Greeting
           probe == ProbeOf(a, b)
<1>1. Head(batch) = package /\ Tail(batch) = <<package>>
  <2> HIDE DEF package
  <2>1. batch = <<package, package>>
    BY DEF package
  <2> QED BY <2>1
<1>2. network[a][b] # <<>> /\ Head(network[a][b]) = greeting /\ Tail(network[a][b]) = <<probe>>
  <2> HIDE DEF greeting, probe
  <2>1. network[a][b] = <<greeting, probe>>
    BY DEF greeting, probe
  <2> QED BY <2>1
<1> DEFINE rest == <<package>>
<1>3. rest \in Seq({package})
  <2> HIDE DEF package
  <2> QED OBVIOUS
<1>4. Net!Node!Handle(a, b) /\ nodes' = nodes /\ heard' = heard /\ Net!Push(b, rest)
  <2> HIDE DEF rest
  <2>1. Head(batch) = <<a, b>> /\ Tail(batch) = rest
    BY <1>1 DEF rest
  <2> QED BY <2>1, Delivers
<1>5. Net!Node!Loops!Tracing!Probing!HandleMeet(a, b) /\ trust' = trust /\ balance' = balance
  BY <1>2, <1>4, TakesMeet DEF Oldest
<1>6. /\ MemoryInv' /\ known' = known
      /\ hand'[b][a] # "none"
      /\ \A x, f \in Nodes : <<x, f>> # <<b, a>> => (hand'[x][f] = "none" <=> hand[x][f] = "none")
      /\ network'[a][b] = Tail(network[a][b])
      /\ known[b] = {} /\ Silent(b) => \A f \in Nodes : network'[b][f] = <<>>
  BY <1>4, <1>5, HandlesMeet
<1>7. b \in heard' => /\ \A f \in Nodes : network[b][f] = <<>> /\ network'[b][f] = <<>>
                      /\ known'[b] = {}
                      /\ \A f \in Nodes \ {a} : hand'[b][f] = "none"
  BY <1>4, <1>6 DEF Reticent, Silent
<1> HIDE DEF rest
<1>8. batch' = rest
  BY <1>3, <1>4, <1>7, PushesNothing
<1>9. Introduced(a, b)'
  <2>1. Reticent(a, b)'
    BY <1>7 DEF Reticent, Silent
  <2>2. batch' = <<<<a, b>>>> /\ network'[a][b] = <<ProbeOf(a, b)>>
    BY <1>2, <1>6, <1>8 DEF rest
  <2>3. ProbeOf(a, b)' = ProbeOf(a, b)
    BY DEF ProbeOf, Net!Node!Loops!Tracing!Probing!ProbeMessage
  <2> QED BY <1>4, <1>6, <2>1, <2>2, <2>3 DEF Introduced
<1> QED BY <1>4, <1>5, <1>6, <1>9

(* b takes a's probe. *)
LEMMA HearsProbe ==
  ASSUME MemoryInv, NEW a \in Nodes, NEW b \in Nodes, a # b, a \in nodes, b \in nodes,
         Reticent(a, b), batch = <<<<a, b>>>>, network[a][b] = <<ProbeOf(a, b)>>, Net!Receive
  PROVE  /\ MemoryInv' /\ trust' = trust /\ balance' = balance
         /\ batch' = <<>> /\ nodes' = nodes
         /\ \A x, f \in Nodes : hand'[x][f] = "none" <=> hand[x][f] = "none"
<1> DEFINE package == <<a, b>>
           probe == ProbeOf(a, b)
<1>1. Head(batch) = package /\ Tail(batch) = <<>>
  <2> HIDE DEF package
  <2>1. batch = <<package>>
    BY DEF package
  <2> QED BY <2>1
<1>2. network[a][b] # <<>> /\ Head(network[a][b]) = probe
  <2> HIDE DEF probe
  <2>1. network[a][b] = <<probe>>
    BY DEF probe
  <2> QED BY <2>1
<1>3. Net!Node!Handle(a, b) /\ nodes' = nodes /\ heard' = heard /\ Net!Push(b, <<>>)
  BY <1>1, Delivers
<1>4. trust' = trust /\ balance' = balance
  BY <1>2, <1>3, TakesProbe DEF Oldest
<1>5. PICK p \in Introductions :
        \/ Net!Node!Loops!Tracing!Probing!FloodNewProbe(a, b, p)
        \/ Net!Node!Loops!Tracing!HandleProbeLoopback(a, b, p)
        \/ Net!Node!Loops!Tracing!Probing!IgnoreProbe(a, b, p)
  BY <1>2, <1>3, TakesProbe DEF Oldest
<1>6. /\ MemoryInv'
      /\ \A x, f \in Nodes : hand'[x][f] = "none" <=> hand[x][f] = "none"
      /\ Reticent(a, b) /\ b \in heard => \A f \in Nodes : network'[b][f] = <<>>
  <2>1. CASE Net!Node!Loops!Tracing!Probing!FloodNewProbe(a, b, p)
    BY <2>1, <1>3, <1>4, Floods DEF Reticent
  <2>2. CASE Net!Node!Loops!Tracing!HandleProbeLoopback(a, b, p)
    BY <2>2, <1>3, <1>4, LoopsBack DEF Reticent
  <2>3. CASE Net!Node!Loops!Tracing!Probing!IgnoreProbe(a, b, p)
    BY <2>3, <1>3, <1>4, Ignores DEF Reticent
  <2> QED BY <1>5, <2>1, <2>2, <2>3
<1>7. b \in heard' => \A f \in Nodes : network[b][f] = <<>> /\ network'[b][f] = <<>>
  BY <1>3, <1>6 DEF Reticent, Silent
<1>8. <<>> \in Seq({})
  OBVIOUS
<1>9. batch' = <<>>
  BY <1>3, <1>7, <1>8, PushesNothing
<1> QED BY <1>3, <1>4, <1>6, <1>9

(* b takes a's balance. *)
LEMMA HearsBalance ==
  ASSUME MemoryInv, NEW a \in Nodes, NEW b \in Nodes, a # b, a \in nodes, b \in nodes,
         NEW amount \in Balances, b \in heard => Silent(b),
         batch = <<<<a, b>>>>, network[a][b] = <<Balance(amount)>>, Net!Receive
  PROVE  /\ MemoryInv' /\ trust' = trust /\ hand' = hand
         /\ batch' = <<>> /\ nodes' = nodes
         /\ balance' = CreditedTable(b, a, amount)
<1> DEFINE package == <<a, b>>
           message == Balance(amount)
<1>1. Head(batch) = package /\ Tail(batch) = <<>>
  <2> HIDE DEF package
  <2>1. batch = <<package>>
    BY DEF package
  <2> QED BY <2>1
<1>2. network[a][b] # <<>> /\ Head(network[a][b]) = message
  <2> HIDE DEF message
  <2>1. network[a][b] = <<message>>
    BY DEF message
  <2> QED BY <2>1
<1>3. Net!Node!Handle(a, b) /\ nodes' = nodes /\ heard' = heard /\ Net!Push(b, <<>>)
  BY <1>1, Delivers
<1>4. /\ balance' = CreditedTable(b, a, amount) /\ network' = TakenFrom(a, b) /\ trust' = trust
      /\ hand' = hand /\ known' = known /\ from' = from /\ to' = to /\ offer' = offer
  BY <1>2, <1>3, TakesBalance DEF Oldest
<1>5. MemoryInv' /\ \A f \in Nodes : network'[b][f] = network[b][f]
  BY <1>3, <1>4, HandlesBalance
<1>6. b \in heard' => \A f \in Nodes : network[b][f] = <<>> /\ network'[b][f] = <<>>
  BY <1>3, <1>5 DEF Silent
<1>7. <<>> \in Seq({})
  OBVIOUS
<1>8. batch' = <<>>
  BY <1>3, <1>6, <1>7, PushesNothing
<1> QED BY <1>3, <1>4, <1>5, <1>8

-----------------------------------------------------------------------------
(***************************************************************************)
(* What set-trust and set-balance send from a network that was restored.   *)
(***************************************************************************)
(* A newcomer that is told to trust b sends 'meet' and one probe, to b alone; a node that
   was restored is not heard. *)
LEMMA Introduces ==
  ASSUME MemoryInv, Restored, NEW a \in Nodes, NEW b \in Nodes, NEW amount \in Trusts \cup {0},
         Net!Meet(a, b, amount)
  PROVE  /\ a \in nodes => batch' = <<>>
         /\ a \notin nodes => Introducing(a, b)'
<1>1. /\ MemoryInv'
      /\ a # b /\ hand'[a][b] # "none"
      /\ \A m, f \in Nodes : <<m, f>> # <<a, b>> => (hand'[m][f] = "none" <=> hand[m][f] = "none")
      /\ \A m \in Nodes \ {a} : network'[m] = network[m] /\ known'[m] = known[m]
      /\ \A f \in Nodes :
           network'[a][f] =
             (IF f = b THEN network[a][b] \o <<Greeting>> ELSE network[a][f])
               \o Net!Node!Loops!Tracing!Probing!Queued(a, MeetStatus(a, b), MeetQueue(a, b), f)
  BY Meets
<1>2. /\ <<a, b>> \in Introductions
      /\ nodes' = nodes \cup {a, b} /\ heard' = heard \cup ({a, b} \ nodes)
  BY MeetUnfolded
<1>3. /\ batch = <<>> /\ heard = {}
      /\ \A n \in Nodes : Silent(n) /\ \A f \in Nodes : offer[n][f] = {}
  BY DEF Restored
<1>4. CASE a \in nodes
  <2>1. a \notin heard'
    BY <1>2, <1>3, <1>4
  <2>2. batch' = <<>>
    BY <1>3, <2>1, MeetsUnheard
  <2> QED BY <1>4, <2>2
<1>5. CASE a \notin nodes
  <2>1. Newcomer(a, hand, known, from, to)
    BY <1>5, MemoryFacts
  <2>2. a \in heard'
    BY <1>2, <1>5
  <2>3. MeetQueue(a, b)[b] = {<<a, b>>} /\ \A f \in Nodes \ {b} : MeetQueue(a, b)[f] = {}
    BY <2>1 DEF MeetQueue, Newcomer
  <2>4. MeetStatus(a, b)[b] = "talking"
    BY MemoryFacts DEF MeetStatus, Hands
  <2>5. Net!Node!Loops!Tracing!Probing!Queued(a, MeetStatus(a, b), MeetQueue(a, b), b)
          = <<ProbeOf(a, b)>>
    <3>1. from[a][<<a, b>>] = {} /\ to[a][<<a, b>>] = {} /\ offer[a][b] = {}
      BY <1>2, <1>3, <2>1 DEF Newcomer
    <3> QED BY <2>3, <2>4, <3>1, QueuedOne
  <2>6. \A f \in Nodes \ {b} :
          Net!Node!Loops!Tracing!Probing!Queued(a, MeetStatus(a, b), MeetQueue(a, b), f) = <<>>
    BY <2>3, QueuedNothing
  <2> DEFINE greeting == Greeting
             probe == ProbeOf(a, b)
  <2>7. network'[a][b] = <<greeting, probe>>
    <3>1. network'[a][b] = (<<>> \o <<greeting>>) \o <<probe>>
      BY <1>1, <1>3, <2>5 DEF Silent
    <3> HIDE DEF greeting, probe
    <3>2. <<>> \o <<greeting>> = <<greeting>>
      OBVIOUS
    <3> QED BY <3>1, <3>2, Pair
  <2>8. \A f \in Nodes \ {b} : network'[a][f] = <<>>
    <3> TAKE f \in Nodes \ {b}
    <3>1. network'[a][f] = <<>> \o <<>>
      BY <1>1, <1>3, <2>6 DEF Silent
    <3> QED BY <3>1
  <2>9. batch' = <<<<a, b>>, <<a, b>>>>
    <3>1. SentFirst(a, b, <<greeting, probe>>)
      BY <1>3, <2>7, <2>8 DEF SentFirst, Silent
    <3> HIDE DEF greeting, probe
    <3> QED BY <1>3, <2>2, <3>1, MeetsHeard
  <2>10. Reticent(a, b)'
    <3>1. ASSUME b \in heard'
          PROVE  /\ known'[b] = {} /\ \A f \in Nodes : network'[b][f] = <<>>
                 /\ \A f \in Nodes \ {a} : hand'[b][f] = "none"
      <4>1. b \notin nodes
        BY <1>2, <1>3, <3>1
      <4>2. Newcomer(b, hand, known, from, to)
        BY <4>1, MemoryFacts
      <4>3. known'[b] = {} /\ \A f \in Nodes : network'[b][f] = <<>>
        BY <1>1, <1>3, <4>2 DEF Newcomer, Silent
      <4>4. \A f \in Nodes \ {a} : hand'[b][f] = "none"
        BY <1>1, <4>2 DEF Newcomer
      <4> QED BY <4>3, <4>4
    <3> QED BY <3>1 DEF Reticent, Silent
  <2>11. ProbeOf(a, b)' = ProbeOf(a, b)
    BY DEF ProbeOf, Net!Node!Loops!Tracing!Probing!ProbeMessage
  <2>12. Introducing(a, b)'
    BY <1>2, <2>7, <2>9, <2>10, <2>11 DEF Introducing
  <2> QED BY <1>5, <2>12
<1> QED BY <1>4, <1>5

(* Nobody else's friend is made or forgotten, and a trusts b. *)
ChangesTrust(a, b, amount) ==
  /\ hand'[a][b] # "none"
  /\ \A m, f \in Nodes : <<m, f>> # <<a, b>> => (hand'[m][f] = "none" <=> hand[m][f] = "none")
  /\ trust' = [trust EXCEPT ![a][b] = amount]
  /\ balance' = balance

(* setTrust of a friend. *)
LEMMA ChangesOnlyTrust ==
  ASSUME MemoryInv, NEW a \in Nodes, NEW b \in Nodes, NEW amount \in Trusts,
         Net!ChangeTrust(a, b, amount)
  PROVE  /\ MemoryInv' /\ a # b /\ a \in nodes /\ batch' = batch /\ ChangesTrust(a, b, amount)
         /\ nodes' = nodes \cup {a, b}
<1>1. /\ hand[a][b] # "none"
      /\ trust' = [trust EXCEPT ![a][b] = amount]
      /\ nodes' = nodes \cup {a, b} /\ heard' = heard \cup ({a, b} \ nodes)
      /\ batch' = batch /\ balance' = balance /\ network' = network
      /\ hand' = hand /\ known' = known /\ from' = from /\ to' = to /\ offer' = offer
  BY DEF Net!ChangeTrust, Net!Ensure, Net!Node!ChangeTrust, Net!Node!AreFriends,
     Net!Node!engines, Net!Node!handled
<1>2. a # b /\ a \in nodes
  BY <1>1, MemoryFacts DEF Newcomer
<1>3. Amounts(trust', Trusts)
  BY <1>1, MemoryFacts DEF Amounts
<1>4. MemoryInv'
  BY <1>1, <1>3, MemoryFacts DEF MemoryInv, Sound
<1> QED BY <1>1, <1>2, <1>4 DEF ChangesTrust

(* a sets its balance, and tells b if anybody listens: then b is a stranger. *)
LEMMA SetsBalance ==
  ASSUME MemoryInv, Restored, NEW a \in Nodes, NEW b \in Nodes, NEW amount \in Balances,
         Net!SetBalance(a, b, amount)
  PROVE  /\ MemoryInv' /\ a # b
         /\ hand' = hand /\ trust' = trust /\ balance' = CreditedTable(a, b, amount)
         /\ nodes' = nodes \cup {a, b}
         /\ batch' = <<>> \/ Telling(a, b, amount)'
<1> DEFINE message == Balance(amount)
<1>1. /\ <<a, b>> \in Accounts
      /\ balance' = CreditedTable(a, b, amount)
      /\ nodes' = nodes \cup {a, b} /\ heard' = heard \cup ({a, b} \ nodes)
      /\ network' = [network EXCEPT ![a][b] = @ \o <<message>>]
      /\ Net!Push(a, batch) /\ trust' = trust
      /\ hand' = hand /\ known' = known /\ from' = from /\ to' = to /\ offer' = offer
  BY DEF Net!SetBalance, Net!Ensure, Net!Node!SetBalance, Net!Node!Credit, Net!Node!AreFriends,
     CreditedTable, Net!Node!handled, Net!Node!Loops!Probing!Sent, Balance
<1> HIDE DEF message
<1>2. a # b
  BY <1>1, NetworkAssumption
<1>3. /\ batch = <<>> /\ heard = {} /\ \A n, f \in Nodes : network[n][f] = <<>>
  BY DEF Restored, Silent
<1>4. /\ Rows(network')
      /\ network'[a][b] = <<>> \o <<message>>
      /\ \A f \in Nodes \ {b} : network'[a][f] = <<>>
      /\ \A n \in Nodes \ {a} : network'[n] = network[n]
  BY <1>1, <1>3, MemoryFacts DEF Rows
<1>5. <<>> \o <<message>> = <<message>>
  OBVIOUS
<1>6. Amounts(balance', Balances)
  BY <1>1, Credits
<1>7. MemoryInv'
  BY <1>1, <1>4, <1>6, MemoryFacts DEF MemoryInv, Sound
<1>8. CASE a \notin heard'
  <2>1. <<>> \in Seq({})
    OBVIOUS
  <2>2. batch' = <<>>
    BY <1>1, <1>3, <1>8, <2>1, PushesNothing
  <2> QED BY <1>1, <1>2, <1>7, <2>2
<1>9. CASE a \in heard'
  <2>1. SentFirst(a, b, <<message>>)
    BY <1>3, <1>4, <1>5 DEF SentFirst
  <2>2. batch' = <<<<a, b>>>>
    BY <1>1, <1>3, <1>9, <2>1, PushesOne
  <2>3. \A f \in Nodes : network'[b][f] = <<>>
    BY <1>2, <1>3, <1>4
  <2>4. network'[a][b] = <<Balance(amount)>>
    BY <1>4, <1>5 DEF message
  <2>5. Balance(amount)' = Balance(amount)
    BY DEF Balance, Net!Node!SetBalanceMessage
  <2>6. hand'[b][a] = "none"
    <3>1. a \notin nodes
      BY <1>1, <1>3, <1>9
    <3> QED BY <1>1, <3>1, MemoryFacts DEF Newcomer
  <2> QED BY <1>1, <1>2, <1>7, <2>2, <2>3, <2>4, <2>5, <2>6 DEF Telling, Silent
<1> QED BY <1>8, <1>9

-----------------------------------------------------------------------------
(***************************************************************************)
(* Files.                                                                  *)
(***************************************************************************)
(* The names and the table in a file. *)
AgentsIn(s) == IF s.status = "saved" THEN s.nodes ELSE {}

AccountIn(s) ==
  IF s.status = "saved" THEN AccountOf(s.probes.hand, s.friends.trust, s.friends.balance)
  ELSE OnFile!Empty

LEMMA EntriesRead == Entries = AccountIn(disk["snapshot"])
BY DEF Entries, AccountIn, AccountOf, OnFile!Empty

LEMMA EntriesReadNext == Entries' = AccountIn(disk'["snapshot"])
BY DEF Entries, AccountIn, AccountOf, OnFile!Empty

LEMMA EntriesKept == disk' = disk => Entries' = Entries /\ Agents' = Agents
BY EntriesRead, EntriesReadNext DEF Agents

SoundIn(s) ==
  Sound(s.nodes, s.probes.hand, s.probes.known, s.probes.from, s.probes.to,
        s.friends.trust, s.friends.balance)

(* The snapshot of a simulator without nodes. *)
LEMMA BlankFacts ==
  /\ Blank.status = "saved" /\ Blank.nodes = {} /\ SoundIn(Blank)
  /\ AccountOf(Blank.probes.hand, Blank.friends.trust, Blank.friends.balance) = OnFile!Empty
<1> DEFINE hands == [n \in Nodes |-> [f \in Nodes |-> "none"]]
           sets == [n \in Nodes |-> {}]
           records == [n \in Nodes |-> [p \in Introductions |-> {}]]
           amounts == [n \in Nodes |-> [f \in Nodes |-> 0]]
           probes == [hand |-> hands, known |-> sets, from |-> records, to |-> records]
           friends == [trust |-> amounts, balance |-> amounts]
<1>1. Sound({}, hands, sets, records, records, amounts, amounts)
  BY DEF Sound, Hands, Statuses, ProbeSets, Records, Amounts, Newcomer
<1>2. AccountOf(hands, amounts, amounts) = OnFile!Empty
  BY DEF AccountOf, OnFile!Empty
<1>3. Blank.status = "saved" /\ Blank.nodes = {} /\ Blank.probes = probes /\ Blank.friends = friends
  BY DEF Blank
<1> HIDE DEF hands, sets, records, amounts
<1>4. /\ probes.hand = hands /\ probes.known = sets /\ probes.from = records /\ probes.to = records
      /\ friends.trust = amounts /\ friends.balance = amounts
  OBVIOUS
<1> HIDE DEF probes, friends
<1> QED BY <1>1, <1>2, <1>3, <1>4 DEF SoundIn

LEMMA SnapshotFields ==
  /\ Snapshot.status = "saved" /\ Snapshot.nodes = nodes
  /\ Snapshot.probes.hand = hand /\ Snapshot.probes.known = known
  /\ Snapshot.probes.from = from /\ Snapshot.probes.to = to
  /\ Snapshot.friends.trust = trust /\ Snapshot.friends.balance = balance
BY DEF Snapshot, ProbesSnapshot, FriendsSnapshot

(* What is saved is sound, and the table in memory. *)
LEMMA SnapshotFacts ==
  /\ Snapshot.status = "saved"
  /\ MemoryInv => SoundIn(Snapshot)
  /\ AccountIn(Snapshot) = Account /\ AgentsIn(Snapshot) = nodes
BY SnapshotFields DEF MemoryInv, SoundIn, AccountIn, AgentsIn, Account

(* What is restored is sound, and nothing has happened to it. *)
LEMMA Restores ==
  ASSUME NEW s, Restore(s), SoundIn(s)
  PROVE  /\ MemoryInv' /\ Restored' /\ batch' = <<>> /\ nodes' = s.nodes
         /\ Account' = AccountOf(s.probes.hand, s.friends.trust, s.friends.balance)
         /\ hand' = s.probes.hand
         /\ network' = [m \in Nodes |-> [n \in Nodes |-> <<>>]]
<1>1. /\ nodes' = s.nodes /\ heard' = {} /\ batch' = <<>>
      /\ hand' = s.probes.hand /\ known' = s.probes.known
      /\ from' = s.probes.from /\ to' = s.probes.to
      /\ trust' = s.friends.trust /\ balance' = s.friends.balance
      /\ offer' = [n \in Nodes |-> [f \in Nodes |-> {}]]
      /\ network' = [m \in Nodes |-> [n \in Nodes |-> <<>>]]
  BY DEF Restore, RestoreProbes, RestoreFriends
<1>2. Offers(offer') /\ Rows(network') /\ \A n, f \in Nodes : offer'[n][f] = {} /\ network'[n][f] = <<>>
  BY <1>1 DEF Offers, Rows
<1>3. Sound(nodes', hand', known', from', to', trust', balance')
  BY <1>1 DEF SoundIn
<1>4. MemoryInv'
  BY <1>1, <1>2, <1>3 DEF MemoryInv
<1>5. Restored'
  BY <1>1, <1>2 DEF Restored, Silent
<1> QED BY <1>1, <1>4, <1>5 DEF Account

LEMMA Loads ==
  ASSUME FilesInv, NEW file \in Files, Load(file)
  PROVE  /\ MemoryInv' /\ Restored' /\ batch' = <<>>
         /\ Account' = AccountIn(disk[file]) /\ nodes' = AgentsIn(disk[file])
<1>1. disk[file].status = "saved" => SoundIn(disk[file])
  BY DEF FilesInv, SoundIn
<1>2. CASE disk[file].status = "saved"
  <2>1. Restore(disk[file])
    BY <1>2 DEF Load
  <2> QED BY <1>1, <1>2, <2>1, Restores DEF AccountIn, AgentsIn
<1>3. CASE disk[file].status # "saved"
  <2>1. Restore(Blank)
    BY <1>3 DEF Load
  <2> QED BY <1>3, <2>1, BlankFacts, Restores DEF AccountIn, AgentsIn
<1> QED BY <1>2, <1>3


-----------------------------------------------------------------------------
(***************************************************************************)
(* What a step does to the ledger.                                         *)
(***************************************************************************)
(* A step that leaves the files and the command alone is none of the ledger. *)
LEMMA Stutters ==
  ASSUME command' = command, disk' = disk
  PROVE  UNCHANGED OnFile!vars
BY EntriesKept DEF OnFile!vars

LEMMA Starts ==
  ASSUME NEW c \in Commands, Start(c)
  PROVE  OnFile!Next
BY EntriesKept DEF OnFile!Next, OnFile!Start, Start, Commands

LEMMA FilesKept ==
  ASSUME FilesInv, disk' = disk
  PROVE  FilesInv'
BY DEF FilesInv

(* A file is written, whole or in part. *)
Writes(x) == disk' = [disk EXCEPT ![Target] = x]
Writable(x) == x.status \in {"torn", "saved"} /\ (x.status = "saved" => SoundIn(x))

LEMMA FilesWritten ==
  ASSUME FilesInv, NEW x, Writable(x), Writes(x)
  PROVE  /\ FilesInv'
         /\ command \in {"init", "sim"} => disk'["snapshot"] = disk["snapshot"]
         /\ command \notin {"init", "sim"} => disk'["snapshot"] = x
<1>1. /\ Target \in Files
      /\ command \in {"init", "sim"} => Target # "snapshot"
      /\ command \notin {"init", "sim"} => Target = "snapshot"
  BY DEF Target, Files
<1>2. /\ DOMAIN disk = Files
      /\ \A f \in Files : /\ disk[f].status \in {"missing", "torn", "saved"}
                          /\ disk[f].status = "saved" => SoundIn(disk[f])
  BY DEF FilesInv, SoundIn
<1>3. DOMAIN disk' = Files /\ \A f \in Files : disk'[f] = IF f = Target THEN x ELSE disk[f]
  BY <1>1, <1>2 DEF Writes
<1>4. \A f \in Files : /\ disk'[f].status \in {"missing", "torn", "saved"}
                       /\ disk'[f].status = "saved" => SoundIn(disk'[f])
  BY <1>2, <1>3 DEF Writable
<1>5. FilesInv'
  BY <1>3, <1>4 DEF FilesInv, SoundIn
<1>6. "snapshot" \in Files
  BY DEF Files
<1> QED BY <1>1, <1>3, <1>5, <1>6

(* Nothing is left of a process that has ended. *)
LEMMA Ends ==
  ASSUME FilesInv', Exit
  PROVE  SnapshotInv' /\ command' = "none"
<1>1. Restore(Blank) /\ command' = "none"
  BY DEF Exit
<1>2. MemoryInv' /\ batch' = <<>>
  BY <1>1, BlankFacts, Restores
<1>3. CommandInv'
  BY <1>1, <1>2 DEF CommandInv
<1> QED BY <1>1, <1>2, <1>3 DEF SnapshotInv

(* Tables are functions of both ends. *)
IsTable(t) == t = [n \in Nodes |-> [f \in Nodes |-> t[n][f]]]

LEMMA TableRows ==
  ASSUME NEW t, IsTable(t)
  PROVE  DOMAIN t = Nodes /\ \A n \in Nodes : DOMAIN t[n] = Nodes
<1> DEFINE copy == [n \in Nodes |-> [f \in Nodes |-> t[n][f]]]
<1>1. DOMAIN copy = Nodes /\ \A n \in Nodes : DOMAIN copy[n] = Nodes
  OBVIOUS
<1>2. t = copy
  BY DEF IsTable
<1> HIDE DEF copy
<1> QED BY <1>1, <1>2

LEMMA IsTableRow ==
  ASSUME NEW t, IsTable(t), NEW n \in Nodes
  PROVE  t[n] = [f \in Nodes |-> t[n][f]]
<1> DEFINE row(m) == [f \in Nodes |-> t[m][f]]
           copy == [m \in Nodes |-> row(m)]
<1>1. copy[n] = row(n)
  OBVIOUS
<1>2. t = copy
  BY DEF IsTable
<1> HIDE DEF copy, row
<1>3. t[n] = row(n)
  BY <1>1, <1>2
<1> QED BY <1>3 DEF row

LEMMA SameTable ==
  ASSUME NEW s, NEW t, IsTable(s), IsTable(t), \A n, f \in Nodes : s[n][f] = t[n][f]
  PROVE  s = t
<1>1. [n \in Nodes |-> [f \in Nodes |-> s[n][f]]] = [n \in Nodes |-> [f \in Nodes |-> t[n][f]]]
  OBVIOUS
<1> QED BY <1>1 DEF IsTable

LEMMA Tables == IsTable(Account) /\ IsTable(Entries)
<1>1. IsTable(Account)
  BY DEF IsTable, Account, AccountOf
<1>2. IsTable(Entries)
  BY DEF IsTable, Entries
<1> QED BY <1>1, <1>2

(* One entry is rewritten. *)
Put(t, a, b, x) == [t EXCEPT ![a][b] = x]

LEMMA Rewritten ==
  ASSUME NEW t, IsTable(t), NEW a \in Nodes, NEW b \in Nodes, NEW x
  PROVE  /\ IsTable(Put(t, a, b, x))
         /\ \A n, f \in Nodes : Put(t, a, b, x)[n][f] = IF n = a /\ f = b THEN x ELSE t[n][f]
<1> DEFINE next == [t EXCEPT ![a][b] = x]
<1>1. DOMAIN t = Nodes /\ \A n \in Nodes : DOMAIN t[n] = Nodes
  BY TableRows
<1>2. next = [n \in Nodes |-> IF n = a THEN [t[a] EXCEPT ![b] = x] ELSE t[n]]
  BY <1>1
<1>3. ASSUME NEW n \in Nodes PROVE t[n] = [f \in Nodes |-> t[n][f]]
  BY IsTableRow
<1>4. [t[a] EXCEPT ![b] = x] = [f \in Nodes |-> IF f = b THEN x ELSE t[a][f]]
  BY <1>1
<1>5. \A n, f \in Nodes : next[n][f] = IF n = a /\ f = b THEN x ELSE t[n][f]
  <2> HIDE DEF next
  <2> QED BY <1>2, <1>4
<1>6. IsTable(next)
  <2> DEFINE row(n) == [f \in Nodes |-> next[n][f]]
  <2>1. ASSUME NEW n \in Nodes PROVE next[n] = row(n)
    <3>1. CASE n = a
      <4>1. next[n] = [f \in Nodes |-> IF f = b THEN x ELSE t[a][f]]
        BY <1>2, <1>4, <3>1
      <4> HIDE DEF next
      <4> QED BY <4>1
    <3>2. CASE n # a
      <4>1. next[n] = t[n]
        BY <1>2, <3>2
      <4> HIDE DEF next
      <4> QED BY <1>3, <4>1
    <3> HIDE DEF next, row
    <3> QED BY <3>1, <3>2
  <2>2. next = [n \in Nodes |-> next[n]]
    BY <1>1
  <2>3. next = [n \in Nodes |-> row(n)]
    <3> HIDE DEF next, row
    <3> QED BY <2>1, <2>2
  <2> HIDE DEF next
  <2> QED BY <2>3 DEF IsTable
<1> QED BY <1>5, <1>6 DEF Put

(* The ends of the other trustlines are as they were. *)
Rewriting(old, new, a, b, end, other) == new = [old EXCEPT ![a][b] = end, ![b][a] = other]

RewritingOne(old, new, a, b, end) == new = [old EXCEPT ![a][b] = end]

LEMMA Rewrites ==
  ASSUME NEW old, NEW new, NEW a \in Nodes, NEW b \in Nodes, NEW end, NEW other,
         IsTable(old), IsTable(new), Becomes(old, new, a, b, end, other)
  PROVE  /\ Rewriting(old, new, a, b, end, other)
         /\ other = old[b][a] => RewritingOne(old, new, a, b, end)
<1> DEFINE first == Put(old, a, b, end)
           next == Put(first, b, a, other)
<1>1. a # b
  BY DEF Becomes
<1>2. /\ IsTable(first)
      /\ \A n, f \in Nodes : first[n][f] = IF n = a /\ f = b THEN end ELSE old[n][f]
  BY Rewritten
<1>3. /\ IsTable(next)
      /\ \A n, f \in Nodes : next[n][f] = IF n = b /\ f = a THEN other ELSE first[n][f]
  <2> HIDE DEF first
  <2> QED BY <1>2, Rewritten
<1>4. new = next
  <2>1. \A n, f \in Nodes : new[n][f] = next[n][f]
    <3> HIDE DEF first, next
    <3> QED BY <1>1, <1>2, <1>3 DEF Becomes
  <2> HIDE DEF first, next
  <2> QED BY <1>3, <2>1, SameTable
<1>5. ASSUME other = old[b][a] PROVE new = first
  <2>1. \A n, f \in Nodes : new[n][f] = first[n][f]
    <3> HIDE DEF first, next
    <3> QED BY <1>1, <1>2, <1>5 DEF Becomes
  <2> HIDE DEF first, next
  <2> QED BY <1>2, <2>1, SameTable
<1>6. next = [old EXCEPT ![a][b] = end, ![b][a] = other]
  BY <1>1 DEF Put
<1>7. first = [old EXCEPT ![a][b] = end]
  BY DEF Put
<1> HIDE DEF next, first
<1> QED BY <1>4, <1>5, <1>6, <1>7 DEF Rewriting, RewritingOne

-----------------------------------------------------------------------------
(***************************************************************************)
(* Each step keeps the invariant and is a step of the ledger, or none.     *)
(***************************************************************************)
(* setTrust, setBalance and getBalances begin with the table in the file. *)
LEMMA StepStartOnSnapshot ==
  ASSUME SnapshotInv, NEW c \in {"set-trust", "set-balance", "get-balances"}, StartOnSnapshot(c)
  PROVE  SnapshotInv' /\ OnFile!Next
<1>1. Start(c) /\ Load("snapshot") /\ stage' = "before"
  BY DEF StartOnSnapshot
<1>2. command' = c /\ disk' = disk
  BY <1>1 DEF Start
<1>3. FilesInv /\ FilesInv' /\ Entries' = Entries /\ Agents' = Agents
  BY <1>2, FilesKept, EntriesKept DEF SnapshotInv
<1>4. /\ MemoryInv' /\ Restored' /\ batch' = <<>>
      /\ Account' = AccountIn(disk["snapshot"]) /\ nodes' = AgentsIn(disk["snapshot"])
  <2>1. "snapshot" \in Files
    BY DEF Files
  <2> QED BY <1>1, <1>3, <2>1, Loads
<1>5. Account' = Entries' /\ nodes' = Agents'
  BY <1>3, <1>4, EntriesRead DEF Agents, AgentsIn
<1>6. CommandInv'
  <2>1. command' \in {"set-trust", "set-balance", "get-balances"} /\ stage' = "before"
    BY <1>1, <1>2
  <2> QED BY <1>4, <1>5, <2>1 DEF CommandInv, Commands
<1>7. OnFile!Next
  <2>1. c \in Commands
    BY DEF Commands
  <2> QED BY <1>1, <2>1, Starts
<1> QED BY <1>3, <1>4, <1>6, <1>7 DEF SnapshotInv

LEMMA StepStartNew ==
  ASSUME SnapshotInv, StartNew
  PROVE  SnapshotInv' /\ OnFile!Next
<1>1. Start("new") /\ Restore(Blank)
  BY DEF StartNew
<1>2. command' = "new" /\ disk' = disk
  BY <1>1 DEF Start
<1>3. FilesInv'
  BY <1>2, FilesKept DEF SnapshotInv
<1>4. MemoryInv' /\ batch' = <<>> /\ Account' = OnFile!Empty /\ nodes' = {}
  BY <1>1, BlankFacts, Restores
<1>5. (OnFile!Empty)' = OnFile!Empty
  BY DEF OnFile!Empty
<1>6. CommandInv'
  BY <1>2, <1>4, <1>5 DEF CommandInv, Commands
<1>7. OnFile!Next
  <2>1. "new" \in Commands
    BY DEF Commands
  <2> QED BY <1>1, <2>1, Starts
<1> QED BY <1>3, <1>4, <1>6, <1>7 DEF SnapshotInv

(* Messages are what they are. *)
LEMMA SameMessages ==
  (Net!Node!Loops!Tracing!Probing!Messages)' = Net!Node!Loops!Tracing!Probing!Messages
BY DEF Net!Node!Loops!Tracing!Probing!Messages, Net!Node!Loops!Tracing!Probing!MeetMessage,
   Net!Node!Loops!Tracing!Probing!HaveProbes, Net!Node!Loops!Tracing!Probing!OkayToSendProbes,
   Net!Node!Loops!Tracing!Probing!ProbeMessage

LEMMA StepStartInit ==
  ASSUME SnapshotInv, StartInit
  PROVE  SnapshotInv' /\ OnFile!Next
<1>1. Start("init") /\ Restore(Blank) /\ stage' = "before"
  BY DEF StartInit
<1>2. command' = "init" /\ disk' = disk
  BY <1>1 DEF Start
<1>3. FilesInv'
  BY <1>2, FilesKept DEF SnapshotInv
<1>4. /\ MemoryInv' /\ batch' = <<>> /\ hand' = Blank.probes.hand
      /\ network' = [m \in Nodes |-> [n \in Nodes |-> <<>>]]
  BY <1>1, BlankFacts, Restores
<1>5. Blank.probes.hand = [n \in Nodes |-> [f \in Nodes |-> "none"]]
  BY DEF Blank
<1>6. \A m, n \in Nodes : hand'[m][n] = "none" /\ network'[m][n] = <<>>
  BY <1>4, <1>5
<1>7. Wired(network')
  <2> DEFINE M == Net!Node!Loops!Tracing!Probing!Messages
  <2>1. <<>> \in Seq(M)
    OBVIOUS
  <2> HIDE DEF M
  <2>2. \A m, n \in Nodes : network'[m][n] \in Seq(M)
    BY <1>6, <2>1
  <2> QED BY <2>2 DEF Wired, M
<1>8. Wired(network)' = Wired(network')
  BY SameMessages DEF Wired
<1>9. batch' \in Seq(Friendships(hand'))
  <2> DEFINE M == Friendships(hand')
  <2> HIDE DEF M
  <2>1. batch' \in Seq(M)
    BY <1>4
  <2> QED BY <2>1 DEF M
<1>10. Greeted'
  <2>1. Friendships(hand)' = Friendships(hand')
    BY DEF Friendships
  <2> QED BY <1>1, <1>6, <1>7, <1>8, <1>9, <2>1 DEF Greeted
<1>11. CommandInv'
  BY <1>2, <1>10 DEF CommandInv, Commands
<1>12. OnFile!Next
  <2>1. "init" \in Commands
    BY DEF Commands
  <2> QED BY <1>1, <2>1, Starts
<1> QED BY <1>3, <1>4, <1>11, <1>12 DEF SnapshotInv

LEMMA StepStartSim ==
  ASSUME SnapshotInv, StartSim
  PROVE  SnapshotInv' /\ OnFile!Next
<1>1. Start("sim") /\ Load("post-init")
  BY DEF StartSim
<1>2. command' = "sim" /\ disk' = disk
  BY <1>1 DEF Start
<1>3. FilesInv /\ FilesInv'
  BY <1>2, FilesKept DEF SnapshotInv
<1>4. MemoryInv' /\ batch' = <<>>
  <2>1. "post-init" \in Files
    BY DEF Files
  <2> QED BY <1>1, <1>3, <2>1, Loads
<1>5. CommandInv'
  BY <1>2, <1>4 DEF CommandInv, Commands
<1>6. OnFile!Next
  <2>1. "sim" \in Commands
    BY DEF Commands
  <2> QED BY <1>1, <2>1, Starts
<1> QED BY <1>3, <1>4, <1>5, <1>6 DEF SnapshotInv

(* A process that is killed leaves the files alone. *)
LEMMA StepKill ==
  ASSUME SnapshotInv, Kill
  PROVE  SnapshotInv' /\ OnFile!Next
<1>1. command # "none" /\ Exit /\ disk' = disk
  BY DEF Kill
<1>2. FilesInv' /\ Entries' = Entries /\ Agents' = Agents
  BY <1>1, FilesKept, EntriesKept DEF SnapshotInv
<1>3. SnapshotInv' /\ command' = "none"
  BY <1>1, <1>2, Ends
<1>4. OnFile!Leave
  BY <1>1, <1>2, <1>3 DEF OnFile!Leave
<1> QED BY <1>3, <1>4 DEF OnFile!Next

(* A process that is killed while it writes the snapshot loses all of it. *)
LEMMA StepTear ==
  ASSUME SnapshotInv, Tear
  PROVE  SnapshotInv' /\ OnFile!Next
<1>1. command # "none" /\ Exit /\ disk' = [disk EXCEPT ![Target] = Torn]
  BY DEF Tear
<1>2. Torn.status = "torn"
  BY DEF Torn
<1>3. /\ FilesInv'
      /\ command \in {"init", "sim"} => disk'["snapshot"] = disk["snapshot"]
      /\ command \notin {"init", "sim"} => disk'["snapshot"] = Torn
  <2>1. Writable(Torn) /\ Writes(Torn)
    BY <1>1, <1>2 DEF Writable, Writes
  <2> QED BY <2>1, FilesWritten DEF SnapshotInv
<1>4. SnapshotInv' /\ command' = "none"
  BY <1>1, <1>3, Ends
<1>5. CASE command \in {"init", "sim"}
  <2>1. Entries' = Entries /\ Agents' = Agents
    BY <1>3, <1>5, EntriesRead, EntriesReadNext DEF Agents
  <2>2. OnFile!Leave
    BY <1>1, <1>3, <1>4, <1>5, <2>1 DEF OnFile!Leave
  <2> QED BY <1>4, <2>2 DEF OnFile!Next
<1>6. CASE command \notin {"init", "sim"}
  <2>1. disk'["snapshot"] = Torn /\ disk'["snapshot"].status = "torn"
    BY <1>2, <1>3, <1>6
  <2>2. Entries' = OnFile!Empty /\ Agents' = {}
    BY <2>1, EntriesReadNext DEF AccountIn, Agents
  <2>3. OnFile!Lose
    BY <1>1, <1>4, <1>6, <2>1, <2>2 DEF OnFile!Lose
  <2> QED BY <1>4, <2>3 DEF OnFile!Next
<1> QED BY <1>5, <1>6

(* A process that ends writes the table it has in memory. *)
LEMMA StepSave ==
  ASSUME SnapshotInv, Save
  PROVE  SnapshotInv' /\ OnFile!Next
<1>1. command # "none" /\ Ready /\ Exit /\ disk' = [disk EXCEPT ![Target] = Snapshot]
  BY DEF Save
<1>2. /\ FilesInv'
      /\ command \in {"init", "sim"} => disk'["snapshot"] = disk["snapshot"]
      /\ command \notin {"init", "sim"} => disk'["snapshot"] = Snapshot
  <2>1. Writable(Snapshot) /\ Writes(Snapshot)
    BY <1>1, SnapshotFacts DEF SnapshotInv, Writable, Writes
  <2> QED BY <2>1, FilesWritten DEF SnapshotInv
<1>3. SnapshotInv' /\ command' = "none"
  BY <1>1, <1>2, Ends
<1>4. CASE command \in {"init", "sim"}
  <2>1. Entries' = Entries /\ Agents' = Agents
    BY <1>2, <1>4, EntriesRead, EntriesReadNext DEF Agents
  <2>2. OnFile!Leave
    BY <1>1, <1>2, <1>3, <1>4, <2>1 DEF OnFile!Leave
  <2> QED BY <1>3, <2>2 DEF OnFile!Next
<1>5. CASE command \notin {"init", "sim"}
  <2>1. disk'["snapshot"].status = "saved" /\ Entries' = Account /\ Agents' = nodes
    BY <1>2, <1>5, SnapshotFacts, SnapshotFields, EntriesReadNext DEF Agents
  <2>2. ASSUME NEW names, nodes = Agents \cup names PROVE OnFile!Write(command, names)
    BY <1>3, <2>1, <2>2 DEF OnFile!Write
  <2>3. stage # "before" \/ command \in {"none", "new"}
    BY <1>1, <1>5 DEF Ready
  <2>4. CommandInv
    BY DEF SnapshotInv
  <2>5. CASE command = "new"
    <3>1. OnFile!New
      BY <1>3, <2>1, <2>4, <2>5 DEF CommandInv, OnFile!New
    <3> QED BY <1>3, <3>1 DEF OnFile!Next
  <2>6. CASE command = "get-balances"
    <3>1. PICK a \in Nodes : nodes = Agents \cup {a}
      BY <2>3, <2>4, <2>6 DEF CommandInv
    <3>2. OnFile!GetBalances(a)
      BY <2>1, <2>2, <2>3, <2>4, <2>6, <3>1 DEF CommandInv, OnFile!GetBalances
    <3> QED BY <1>3, <3>2 DEF OnFile!Next
  <2>7. CASE command = "set-trust"
    <3>1. PICK a \in Nodes, b \in Nodes, amount \in Trusts : Trusting(a, b, amount)
      BY <2>3, <2>4, <2>7 DEF CommandInv
    <3>2. batch = <<>>
      BY <1>1, <1>5, <2>7 DEF Ready
    <3> DEFINE mine == OnFile!Trusted(Entries[a][b], amount)
               theirs == IF a \in Agents THEN Entries[b][a]
                         ELSE [Entries[b][a] EXCEPT !.friend = TRUE]
    <3>3. Becomes(Entries, Account, a, b, mine, theirs)
      BY <3>1, <3>2 DEF Trusting, Introducing, TrustedAccount, SharedAccount
    <3>4. Account = [Entries EXCEPT ![a][b] = mine, ![b][a] = theirs]
      <4> HIDE DEF mine, theirs
      <4>1. Rewriting(Entries, Account, a, b, mine, theirs)
        BY <3>3, Tables, Rewrites
      <4> QED BY <4>1 DEF Rewriting
    <3>5. OnFile!Write("set-trust", {a, b})
      BY <2>2, <2>7, <3>1 DEF Trusting
    <3>6. a # b
      BY <3>3 DEF Becomes
    <3>7. OnFile!SetTrust(a, b, amount)
      BY <2>1, <3>4, <3>5, <3>6 DEF OnFile!SetTrust
    <3> QED BY <1>3, <3>7 DEF OnFile!Next
  <2>8. CASE command = "set-balance"
    <3>1. PICK a \in Nodes, b \in Nodes, amount \in Balances : Crediting(a, b, amount)
      BY <2>3, <2>4, <2>8 DEF CommandInv
    <3> DEFINE mine == OnFile!Credited(Entries[a][b], amount)
               theirs == Entries[b][a]
    <3>2. Becomes(Entries, Account, a, b, mine, theirs)
      BY <3>1 DEF Crediting, CreditedAccount
    <3>3. Account = [Entries EXCEPT ![a][b] = mine]
      <4>1. theirs = Entries[b][a]
        OBVIOUS
      <4> HIDE DEF mine, theirs
      <4>2. RewritingOne(Entries, Account, a, b, mine)
        BY <3>2, <4>1, Tables, Rewrites
      <4> QED BY <4>2 DEF RewritingOne
    <3>4. OnFile!Write("set-balance", {a, b})
      BY <2>2, <2>8, <3>1 DEF Crediting
    <3>5. OnFile!SetBalance(a, b, amount)
      BY <2>1, <3>3, <3>4 DEF OnFile!SetBalance
    <3> QED BY <1>3, <3>5 DEF OnFile!Next
  <2> QED BY <1>1, <1>5, <2>4, <2>5, <2>6, <2>7, <2>8 DEF CommandInv, Commands
<1> QED BY <1>4, <1>5

-----------------------------------------------------------------------------
(***************************************************************************)
(* The ends of trustlines.                                                 *)
(***************************************************************************)
IsEnd(end, friend, line, sum) == end = [friend |-> friend, trust |-> line, balance |-> sum]

LEMMA FriendEnd ==
  ASSUME NEW end, NEW x, NEW y, NEW z, IsEnd(end, x, y, z)
  PROVE  [end EXCEPT !.friend = TRUE] = [friend |-> TRUE, trust |-> y, balance |-> z]
<1> DEFINE yes == TRUE
<1> HIDE DEF yes
<1>1. [end EXCEPT !.friend = yes] = [friend |-> yes, trust |-> y, balance |-> z]
  BY DEF IsEnd
<1> QED BY <1>1 DEF yes

LEMMA TrustedEnd ==
  ASSUME NEW end, NEW x, NEW y, NEW z, NEW amount, IsEnd(end, x, y, z)
  PROVE  OnFile!Trusted(end, amount) = [friend |-> TRUE, trust |-> amount, balance |-> z]
<1> DEFINE yes == TRUE
           mid == [end EXCEPT !.friend = yes]
<1>1. OnFile!Trusted(end, amount) = [mid EXCEPT !.trust = amount]
  BY DEF OnFile!Trusted
<1> HIDE DEF yes
<1>2. mid = [friend |-> yes, trust |-> y, balance |-> z]
  BY DEF IsEnd
<1> HIDE DEF mid
<1>3. [mid EXCEPT !.trust = amount] = [friend |-> yes, trust |-> amount, balance |-> z]
  BY <1>2
<1> QED BY <1>1, <1>3 DEF yes

LEMMA BalancedEnd ==
  ASSUME NEW end, NEW x, NEW y, NEW z, NEW amount, IsEnd(end, x, y, z)
  PROVE  [end EXCEPT !.balance = amount] = [friend |-> x, trust |-> y, balance |-> amount]
BY DEF IsEnd

LEMMA AccountTables == IsTable(Account) /\ IsTable(Account')
BY DEF IsTable, Account, AccountOf

(* Nothing has happened to this end. *)
LEMMA SameEnd ==
  ASSUME NEW n \in Nodes, NEW f \in Nodes, hand'[n][f] = "none" <=> hand[n][f] = "none",
         trust'[n][f] = trust[n][f], balance'[n][f] = balance[n][f]
  PROVE  Account'[n][f] = Account[n][f]
<1> DEFINE old == hand[n][f] # "none"
           new == hand'[n][f] # "none"
<1>1. new = old
  OBVIOUS
<1>2. /\ Account[n][f] = [friend |-> old, trust |-> trust[n][f], balance |-> balance[n][f]]
      /\ Account'[n][f] = [friend |-> new, trust |-> trust'[n][f], balance |-> balance'[n][f]]
  BY DEF Account, AccountOf
<1> HIDE DEF old, new
<1> QED BY <1>1, <1>2

(* This end has got a friend. *)
LEMMA FriendlyEnd ==
  ASSUME NEW n \in Nodes, NEW f \in Nodes, hand'[n][f] # "none", balance'[n][f] = balance[n][f]
  PROVE  /\ trust'[n][f] = trust[n][f] => Account'[n][f] = [Account[n][f] EXCEPT !.friend = TRUE]
         /\ \A amount : trust'[n][f] = amount => Account'[n][f] = OnFile!Trusted(Account[n][f], amount)
<1> DEFINE old == hand[n][f] # "none"
           new == hand'[n][f] # "none"
<1>1. new = TRUE
  OBVIOUS
<1>2. /\ Account[n][f] = [friend |-> old, trust |-> trust[n][f], balance |-> balance[n][f]]
      /\ Account'[n][f] = [friend |-> new, trust |-> trust'[n][f], balance |-> balance'[n][f]]
  BY DEF Account, AccountOf
<1>3. Account'[n][f] = [friend |-> TRUE, trust |-> trust'[n][f], balance |-> balance[n][f]]
  <2> HIDE DEF old, new
  <2> QED BY <1>1, <1>2
<1> DEFINE end == Account[n][f]
           line == trust[n][f]
           sum == balance[n][f]
<1> HIDE DEF old, end, line, sum
<1>4. IsEnd(end, old, line, sum)
  BY <1>2 DEF IsEnd, end, line, sum
<1>5. [end EXCEPT !.friend = TRUE] = [friend |-> TRUE, trust |-> line, balance |-> sum]
  BY <1>4, FriendEnd
<1>6. ASSUME NEW amount
      PROVE  OnFile!Trusted(end, amount) = [friend |-> TRUE, trust |-> amount, balance |-> sum]
  BY <1>4, TrustedEnd
<1> QED BY <1>3, <1>5, <1>6 DEF end, line, sum

(* The balance of this end is set, if it has a friend. *)
LEMMA CreditedEnd ==
  ASSUME NEW n \in Nodes, NEW f \in Nodes, NEW amount, hand' = hand, trust' = trust,
         balance'[n][f] = IF hand[n][f] # "none" THEN amount ELSE balance[n][f]
  PROVE  Account'[n][f] = OnFile!Credited(Account[n][f], amount)
<1> DEFINE friend == hand[n][f] # "none"
<1>1. /\ Account[n][f] = [friend |-> friend, trust |-> trust[n][f], balance |-> balance[n][f]]
      /\ Account'[n][f] = [friend |-> friend, trust |-> trust[n][f], balance |-> balance'[n][f]]
  BY DEF Account, AccountOf
<1>2. balance'[n][f] = IF friend THEN amount ELSE balance[n][f]
  OBVIOUS
<1>3. friend \in BOOLEAN
  OBVIOUS
<1> HIDE DEF friend
<1>4. Account[n][f].friend = friend
  BY <1>1
<1>5. CASE friend = TRUE
  <2> DEFINE end == Account[n][f]
             line == trust[n][f]
             sum == balance[n][f]
  <2>1. IsEnd(end, TRUE, line, sum)
    BY <1>1, <1>5 DEF IsEnd
  <2>2. Account'[n][f] = [friend |-> TRUE, trust |-> line, balance |-> amount]
    BY <1>1, <1>2, <1>5
  <2> HIDE DEF end, line, sum
  <2>3. [end EXCEPT !.balance = amount] = [friend |-> TRUE, trust |-> line, balance |-> amount]
    BY <2>1, BalancedEnd
  <2>4. OnFile!Credited(Account[n][f], amount) = [Account[n][f] EXCEPT !.balance = amount]
    BY <1>4, <1>5 DEF OnFile!Credited
  <2> QED BY <2>2, <2>3, <2>4 DEF end
<1>6. CASE friend = FALSE
  <2>1. OnFile!Credited(Account[n][f], amount) = Account[n][f]
    BY <1>4, <1>6 DEF OnFile!Credited
  <2>2. balance'[n][f] = balance[n][f]
    BY <1>2, <1>6
  <2> QED BY <1>1, <2>1, <2>2
<1> QED BY <1>3, <1>5, <1>6

-----------------------------------------------------------------------------
(***************************************************************************)
(* set-trust and set-balance.                                              *)
(***************************************************************************)
LEMMA MakesTrust ==
  ASSUME MemoryInv, MemoryInv', NEW a \in Nodes, NEW b \in Nodes, NEW amount, a # b,
         ChangesTrust(a, b, amount)
  PROVE  TrustedAccount(Account, Account', a, b, amount)
<1>1. /\ hand'[a][b] # "none"
      /\ \A n, f \in Nodes : <<n, f>> # <<a, b>> => (hand'[n][f] = "none" <=> hand[n][f] = "none")
      /\ trust' = [trust EXCEPT ![a][b] = amount]
      /\ balance' = balance
  BY DEF ChangesTrust
<1>2. trust'[a][b] = amount /\ \A n, f \in Nodes : <<n, f>> # <<a, b>> => trust'[n][f] = trust[n][f]
  BY <1>1, MemoryFacts DEF Amounts
<1>3. Account'[a][b] = OnFile!Trusted(Account[a][b], amount)
  <2>1. hand'[a][b] # "none" /\ balance'[a][b] = balance[a][b]
    BY <1>1
  <2>2. \A x : trust'[a][b] = x => Account'[a][b] = OnFile!Trusted(Account[a][b], x)
    BY <2>1, FriendlyEnd
  <2> QED BY <1>2, <2>2
<1>4. ASSUME NEW n \in Nodes, NEW f \in Nodes, <<n, f>> # <<a, b>>
      PROVE  Account'[n][f] = Account[n][f]
  <2>1. /\ hand'[n][f] = "none" <=> hand[n][f] = "none"
        /\ trust'[n][f] = trust[n][f] /\ balance'[n][f] = balance[n][f]
    BY <1>1, <1>2, <1>4
  <2> QED BY <2>1, SameEnd
<1>5. Account'[b][a] = Account[b][a]
  BY <1>4
<1> QED BY <1>3, <1>4, <1>5 DEF TrustedAccount, Becomes

LEMMA MakesBalance ==
  ASSUME MemoryInv, NEW a \in Nodes, NEW b \in Nodes, NEW amount \in Balances, a # b,
         hand' = hand, trust' = trust, balance' = CreditedTable(a, b, amount)
  PROVE  /\ Account'[a][b] = OnFile!Credited(Account[a][b], amount)
         /\ \A n, f \in Nodes : <<n, f>> # <<a, b>> => Account'[n][f] = Account[n][f]
<1>1. \A n, f \in Nodes : balance'[n][f] =
        IF <<n, f>> = <<a, b>> /\ hand[a][b] # "none" THEN amount ELSE balance[n][f]
  BY Credits
<1>2. Account'[a][b] = OnFile!Credited(Account[a][b], amount)
  <2>1. balance'[a][b] = IF hand[a][b] # "none" THEN amount ELSE balance[a][b]
    BY <1>1
  <2> QED BY <2>1, CreditedEnd
<1>3. ASSUME NEW n \in Nodes, NEW f \in Nodes, <<n, f>> # <<a, b>>
      PROVE  Account'[n][f] = Account[n][f]
  <2>1. balance'[n][f] = balance[n][f]
    BY <1>1, <1>3
  <2> QED BY <2>1, SameEnd
<1> QED BY <1>2, <1>3

(* What is said of the tables is said of them afterwards. *)
LEMMA TablesNext ==
  ASSUME NEW a, NEW b, NEW amount
  PROVE  /\ TrustedAccount(Entries, Account, a, b, amount)' =
              TrustedAccount(Entries', Account', a, b, amount)
         /\ SharedAccount(Entries, Account, a, b, amount)' =
              SharedAccount(Entries', Account', a, b, amount)
         /\ CreditedAccount(Entries, Account, a, b, amount)' =
              CreditedAccount(Entries', Account', a, b, amount)
BY DEF TrustedAccount, SharedAccount, CreditedAccount, Becomes, OnFile!Trusted, OnFile!Credited

LEMMA StepSetTrust ==
  ASSUME SnapshotInv, NEW a \in Nodes, NEW b \in Nodes, NEW amount \in Trusts,
         SetTrust(a, b, amount)
  PROVE  SnapshotInv' /\ UNCHANGED OnFile!vars
<1>1. /\ command = "set-trust" /\ stage = "before" /\ stage' = "after"
      /\ command' = command /\ disk' = disk
      /\ Net!Meet(a, b, amount) \/ Net!ChangeTrust(a, b, amount)
  BY DEF SetTrust, Do
<1>2. FilesInv' /\ Entries' = Entries /\ Agents' = Agents /\ UNCHANGED OnFile!vars
  BY <1>1, FilesKept, EntriesKept, Stutters DEF SnapshotInv
<1>3. MemoryInv /\ Restored /\ Account = Entries /\ nodes = Agents /\ batch = <<>>
  BY <1>1 DEF SnapshotInv, CommandInv, Restored
<1>4. /\ MemoryInv' /\ a # b /\ ChangesTrust(a, b, amount) /\ nodes' = nodes \cup {a, b}
      /\ a \in nodes => batch' = <<>>
      /\ a \notin nodes => Introducing(a, b)'
  <2>1. CASE Net!ChangeTrust(a, b, amount)
    BY <1>3, <2>1, ChangesOnlyTrust
  <2>2. CASE Net!Meet(a, b, amount)
    <3>1. amount \in Trusts \cup {0}
      OBVIOUS
    <3>2. /\ MemoryInv' /\ a # b /\ hand'[a][b] # "none"
          /\ \A n, f \in Nodes : <<n, f>> # <<a, b>> => (hand'[n][f] = "none" <=> hand[n][f] = "none")
      BY <1>3, <2>2, <3>1, Meets
    <3>3. /\ trust' = [trust EXCEPT ![a][b] = amount] /\ balance' = balance
          /\ nodes' = nodes \cup {a, b}
      BY <2>2 DEF Net!Meet, Net!Node!Meet, Net!Ensure
    <3>4. (a \in nodes => batch' = <<>>) /\ (a \notin nodes => Introducing(a, b)')
      BY <1>3, <2>2, <3>1, Introduces
    <3> QED BY <3>2, <3>3, <3>4 DEF ChangesTrust
  <2> QED BY <1>1, <2>1, <2>2
<1>5. TrustedAccount(Account, Account', a, b, amount)
  BY <1>3, <1>4, MakesTrust
<1>6. TrustedAccount(Entries, Account, a, b, amount)'
  BY <1>2, <1>3, <1>5, TablesNext
<1>7. Trusting(a, b, amount)'
  BY <1>2, <1>3, <1>4, <1>6 DEF Trusting
<1>8. CommandInv'
  BY <1>1, <1>7 DEF CommandInv, Commands
<1> QED BY <1>2, <1>4, <1>8 DEF SnapshotInv

LEMMA StepSetBalance ==
  ASSUME SnapshotInv, NEW a \in Nodes, NEW b \in Nodes, NEW amount \in Balances,
         SetBalance(a, b, amount)
  PROVE  SnapshotInv' /\ UNCHANGED OnFile!vars
<1>1. /\ command = "set-balance" /\ stage = "before" /\ stage' = "after"
      /\ command' = command /\ disk' = disk
      /\ Net!SetBalance(a, b, amount)
  BY DEF SetBalance, Do
<1>2. FilesInv' /\ Entries' = Entries /\ Agents' = Agents /\ UNCHANGED OnFile!vars
  BY <1>1, FilesKept, EntriesKept, Stutters DEF SnapshotInv
<1>3. MemoryInv /\ Restored /\ Account = Entries /\ nodes = Agents
  BY <1>1 DEF SnapshotInv, CommandInv
<1>4. /\ MemoryInv' /\ a # b
      /\ hand' = hand /\ trust' = trust /\ balance' = CreditedTable(a, b, amount)
      /\ nodes' = nodes \cup {a, b}
      /\ batch' = <<>> \/ Telling(a, b, amount)'
  BY <1>1, <1>3, SetsBalance
<1>5. /\ Account'[a][b] = OnFile!Credited(Account[a][b], amount)
      /\ \A n, f \in Nodes : <<n, f>> # <<a, b>> => Account'[n][f] = Account[n][f]
  BY <1>3, <1>4, MakesBalance
<1>6. Account'[b][a] = Account[b][a]
  BY <1>4, <1>5
<1>7. CreditedAccount(Entries, Account, a, b, amount)'
  <2>1. CreditedAccount(Entries', Account', a, b, amount)
    BY <1>2, <1>3, <1>4, <1>5, <1>6 DEF CreditedAccount, Becomes
  <2> QED BY <2>1, TablesNext
<1>8. Crediting(a, b, amount)'
  BY <1>2, <1>3, <1>4, <1>7 DEF Crediting
<1>9. CommandInv'
  BY <1>1, <1>8 DEF CommandInv, Commands
<1> QED BY <1>2, <1>4, <1>9 DEF SnapshotInv

(* getBalances may add a name to the table of nodes. *)
LEMMA StepGetBalances ==
  ASSUME SnapshotInv, NEW a \in Nodes, GetBalances(a)
  PROVE  SnapshotInv' /\ UNCHANGED OnFile!vars
<1>1. /\ command = "get-balances" /\ stage = "before" /\ stage' = "after"
      /\ command' = command /\ disk' = disk /\ batch' = batch
      /\ nodes' = nodes \cup {a} /\ heard' = heard \cup ({a} \ nodes)
      /\ hand' = hand /\ known' = known /\ from' = from /\ to' = to /\ offer' = offer
      /\ network' = network /\ trust' = trust /\ balance' = balance
  BY DEF GetBalances, Do, Net!Ensure, node
<1>2. FilesInv' /\ Entries' = Entries /\ Agents' = Agents /\ UNCHANGED OnFile!vars
  BY <1>1, FilesKept, EntriesKept, Stutters DEF SnapshotInv
<1>3. MemoryInv'
  <2>1. MemoryInv
    BY DEF SnapshotInv
  <2> QED BY <1>1, <2>1 DEF MemoryInv, Sound
<1>4. batch = <<>> /\ Account' = Account /\ Account = Entries /\ nodes = Agents
  BY <1>1 DEF SnapshotInv, CommandInv, Account
<1>5. Account' = Entries' /\ \E x \in Nodes : nodes' = Agents' \cup {x}
  BY <1>1, <1>2, <1>4
<1>6. CommandInv'
  BY <1>1, <1>4, <1>5 DEF CommandInv, Commands
<1> QED BY <1>2, <1>3, <1>6 DEF SnapshotInv

-----------------------------------------------------------------------------
(***************************************************************************)
(* Flushes, and the lines of init.                                         *)
(***************************************************************************)
LEMMA FlushTrusting ==
  ASSUME MemoryInv, Entries' = Entries, Agents' = Agents,
         NEW a \in Nodes, NEW b \in Nodes, NEW amount \in Trusts,
         Trusting(a, b, amount), Net!Receive
  PROVE  MemoryInv' /\ Trusting(a, b, amount)'
<1>1. batch # <<>>
  BY DEF Net!Receive
<1>2. /\ nodes = Agents \cup {a, b} /\ a \notin Agents
      /\ \/ TrustedAccount(Entries, Account, a, b, amount) /\ Introducing(a, b)
         \/ SharedAccount(Entries, Account, a, b, amount) /\ Introduced(a, b)
  BY <1>1 DEF Trusting
<1>3. CASE TrustedAccount(Entries, Account, a, b, amount) /\ Introducing(a, b)
  <2>1. /\ a # b /\ a \in nodes /\ b \in nodes /\ Reticent(a, b)
        /\ batch = <<<<a, b>>, <<a, b>>>> /\ network[a][b] = <<Greeting, ProbeOf(a, b)>>
        /\ Account[a][b] = OnFile!Trusted(Entries[a][b], amount)
        /\ Account[b][a] = Entries[b][a]
        /\ \A n, f \in Nodes : <<n, f>> \notin {<<a, b>>, <<b, a>>} => Account[n][f] = Entries[n][f]
    BY <1>3 DEF TrustedAccount, Becomes, Introducing
  <2>2. /\ MemoryInv' /\ trust' = trust /\ balance' = balance
        /\ Introduced(a, b)' /\ nodes' = nodes
        /\ hand'[b][a] # "none"
        /\ \A x, f \in Nodes : <<x, f>> # <<b, a>> => (hand'[x][f] = "none" <=> hand[x][f] = "none")
    BY <2>1, Greets
  <2>3. Account'[b][a] = [Entries[b][a] EXCEPT !.friend = TRUE]
    BY <2>1, <2>2, FriendlyEnd
  <2>4. ASSUME NEW n \in Nodes, NEW f \in Nodes, <<n, f>> # <<b, a>>
        PROVE  Account'[n][f] = Account[n][f]
    <3>1. /\ hand'[n][f] = "none" <=> hand[n][f] = "none"
          /\ trust'[n][f] = trust[n][f] /\ balance'[n][f] = balance[n][f]
      BY <2>2, <2>4
    <3> QED BY <3>1, SameEnd
  <2>5. SharedAccount(Entries, Account, a, b, amount)'
    <3>1. Account'[a][b] = Account[a][b]
      BY <2>1, <2>4
    <3>2. SharedAccount(Entries', Account', a, b, amount)
      BY <2>1, <2>3, <2>4, <3>1 DEF SharedAccount, Becomes
    <3> QED BY <3>2, TablesNext
  <2> QED BY <1>2, <2>2, <2>5 DEF Trusting
<1>4. CASE SharedAccount(Entries, Account, a, b, amount) /\ Introduced(a, b)
  <2>1. /\ a # b /\ a \in nodes /\ b \in nodes /\ Reticent(a, b)
        /\ batch = <<<<a, b>>>> /\ network[a][b] = <<ProbeOf(a, b)>>
    BY <1>4 DEF SharedAccount, Becomes, Introduced
  <2>2. /\ MemoryInv' /\ trust' = trust /\ balance' = balance
        /\ batch' = <<>> /\ nodes' = nodes
        /\ \A x, f \in Nodes : hand'[x][f] = "none" <=> hand[x][f] = "none"
    BY <2>1, HearsProbe
  <2>3. ASSUME NEW n \in Nodes, NEW f \in Nodes
        PROVE  Account'[n][f] = Account[n][f]
    <3>1. /\ hand'[n][f] = "none" <=> hand[n][f] = "none"
          /\ trust'[n][f] = trust[n][f] /\ balance'[n][f] = balance[n][f]
      BY <2>2
    <3> QED BY <3>1, SameEnd
  <2>4. SharedAccount(Entries, Account, a, b, amount)'
    <3>1. SharedAccount(Entries', Account', a, b, amount)
      BY <1>4, <2>3 DEF SharedAccount, Becomes
    <3> QED BY <3>1, TablesNext
  <2> QED BY <1>2, <2>2, <2>4 DEF Trusting
<1> QED BY <1>2, <1>3, <1>4

LEMMA FlushCrediting ==
  ASSUME MemoryInv, Entries' = Entries, Agents' = Agents,
         NEW a \in Nodes, NEW b \in Nodes, NEW amount \in Balances,
         Crediting(a, b, amount), Net!Receive
  PROVE  MemoryInv' /\ Crediting(a, b, amount)'
<1>1. batch # <<>>
  BY DEF Net!Receive
<1>2. /\ nodes = Agents \cup {a, b}
      /\ CreditedAccount(Entries, Account, a, b, amount) /\ a # b
      /\ a \in nodes /\ b \in nodes /\ (b \in heard => Silent(b))
      /\ batch = <<<<a, b>>>> /\ network[a][b] = <<Balance(amount)>>
      /\ hand[b][a] = "none"
  BY <1>1 DEF Crediting, CreditedAccount, Becomes, Telling
<1>3. /\ MemoryInv' /\ trust' = trust /\ hand' = hand
      /\ batch' = <<>> /\ nodes' = nodes
      /\ balance' = CreditedTable(b, a, amount)
  BY <1>2, HearsBalance
<1>4. Account' = Account
  <2>1. balance' = balance
    BY <1>2, <1>3 DEF CreditedTable
  <2> QED BY <1>3, <2>1 DEF Account
<1>5. CreditedAccount(Entries, Account, a, b, amount)'
  BY <1>2, <1>4, TablesNext
<1> QED BY <1>2, <1>3, <1>5 DEF Crediting

LEMMA StepFlush ==
  ASSUME SnapshotInv, Flush
  PROVE  SnapshotInv' /\ UNCHANGED OnFile!vars
<1>1. /\ stage = "after" /\ stage' = stage /\ Net!Receive
      /\ command' = command /\ disk' = disk
  BY DEF Flush
<1>2. FilesInv' /\ Entries' = Entries /\ Agents' = Agents /\ UNCHANGED OnFile!vars
  BY <1>1, FilesKept, EntriesKept, Stutters DEF SnapshotInv
<1>3. MemoryInv /\ CommandInv
  BY DEF SnapshotInv
<1>4. batch # <<>>
  BY <1>1 DEF Net!Receive
<1>5. command \in {"set-trust", "set-balance"}
  BY <1>1, <1>3, <1>4 DEF CommandInv, Commands, Greeted
<1>6. CASE command = "set-trust"
  <2>1. PICK a \in Nodes, b \in Nodes, amount \in Trusts : Trusting(a, b, amount)
    BY <1>1, <1>3, <1>6 DEF CommandInv
  <2>2. MemoryInv' /\ Trusting(a, b, amount)'
    BY <1>1, <1>2, <1>3, <2>1, FlushTrusting
  <2>3. CommandInv'
    BY <1>1, <1>6, <2>2 DEF CommandInv, Commands
  <2> QED BY <1>2, <2>2, <2>3 DEF SnapshotInv
<1>7. CASE command = "set-balance"
  <2>1. PICK a \in Nodes, b \in Nodes, amount \in Balances : Crediting(a, b, amount)
    BY <1>1, <1>3, <1>7 DEF CommandInv
  <2>2. MemoryInv' /\ Crediting(a, b, amount)'
    BY <1>1, <1>2, <1>3, <2>1, FlushCrediting
  <2>3. CommandInv'
    BY <1>1, <1>7, <2>2 DEF CommandInv, Commands
  <2> QED BY <1>2, <2>2, <2>3 DEF SnapshotInv
<1> QED BY <1>5, <1>6, <1>7

(* What is said behind a message changes nothing about the first. *)
LEMMA Behind ==
  ASSUME NEW M, NEW s \in Seq(M), s # <<>>, NEW t \in Seq(M)
  PROVE  s \o t \in Seq(M) /\ s \o t # <<>> /\ Head(s \o t) = Head(s)
OBVIOUS

(* A line of the file makes two strangers friends. *)
LEMMA StepReadLine ==
  ASSUME SnapshotInv, NEW a \in Nodes, NEW b \in Nodes, ReadLine(a, b)
  PROVE  SnapshotInv' /\ UNCHANGED OnFile!vars
<1>1. /\ command = "init" /\ command' = command /\ stage' = stage /\ disk' = disk
      /\ Net!Meet(a, b, 0)
  BY DEF ReadLine
<1>2. FilesInv' /\ UNCHANGED OnFile!vars
  BY <1>1, FilesKept, Stutters DEF SnapshotInv
<1>3. MemoryInv /\ Greeted
  BY <1>1 DEF SnapshotInv, CommandInv
<1> DEFINE queued(f) == Net!Node!Loops!Tracing!Probing!Queued(a, MeetStatus(a, b), MeetQueue(a, b), f)
           M == Net!Node!Loops!Tracing!Probing!Messages
           greeting == Greeting
<1>4. /\ MemoryInv' /\ a # b /\ hand'[a][b] # "none"
      /\ \A m, f \in Nodes : <<m, f>> # <<a, b>> => (hand'[m][f] = "none" <=> hand[m][f] = "none")
      /\ \A m \in Nodes \ {a} : network'[m] = network[m]
      /\ \A f \in Nodes :
           network'[a][f] = (IF f = b THEN network[a][b] \o <<greeting>> ELSE network[a][f]) \o queued(f)
      /\ ProbeSets(MeetQueue(a, b)) /\ Offers(offer)
  <2>1. 0 \in Trusts \cup {0}
    OBVIOUS
  <2> QED BY <1>1, <1>3, <2>1, Meets
<1>5. hand[a][b] = "none"
  BY <1>1, MeetUnfolded
<1>6. \A f \in Nodes : queued(f) \in Seq(M)
  BY <1>4, QueuedType
<1>7. \A f \in Nodes \ {b} : hand[a][f] = "none" => queued(f) = <<>>
  <2>1. \A f \in Nodes \ {b} : hand[a][f] = "none" => MeetQueue(a, b)[f] = {}
    BY DEF MeetQueue
  <2> QED BY <2>1, QueuedNothing
<1>8. greeting \in M
  BY DEF Greeting, Net!Node!Loops!Tracing!Probing!Messages
<1> HIDE DEF queued, M, greeting
<1>9. \A m, n \in Nodes :
        /\ network[m][n] \in Seq(M)
        /\ IF hand[m][n] = "none" THEN network[m][n] = <<>>
           ELSE network[m][n] # <<>> /\ Head(network[m][n]) = greeting
  BY <1>3 DEF Greeted, Wired, M, greeting
<1>10. network'[a][b] \in Seq(M) /\ network'[a][b] # <<>> /\ Head(network'[a][b]) = greeting
  <2>1. network'[a][b] = (<<>> \o <<greeting>>) \o queued(b)
    BY <1>4, <1>5, <1>9
  <2> DEFINE first == <<greeting>>
  <2>2. /\ <<>> \o <<greeting>> = first /\ first \in Seq(M) /\ first # <<>>
        /\ Head(first) = greeting
    BY <1>8
  <2> HIDE DEF first
  <2>3. network'[a][b] = first \o queued(b)
    BY <2>1, <2>2
  <2> DEFINE last == queued(b)
  <2>4. last \in Seq(M)
    BY <1>6
  <2> HIDE DEF last
  <2>5. first \o last \in Seq(M) /\ first \o last # <<>> /\ Head(first \o last) = greeting
    BY <2>2, <2>4, Behind
  <2> QED BY <2>3, <2>5 DEF last
<1>11. ASSUME NEW f \in Nodes \ {b}, hand[a][f] = "none"
       PROVE  network'[a][f] = <<>>
  <2>1. network'[a][f] = <<>> \o <<>>
    BY <1>4, <1>7, <1>9, <1>11
  <2> QED BY <2>1
<1>12. ASSUME NEW f \in Nodes \ {b}, hand[a][f] # "none"
       PROVE  network'[a][f] \in Seq(M) /\ network'[a][f] # <<>> /\ Head(network'[a][f]) = greeting
  <2> DEFINE first == network[a][f]
             last == queued(f)
  <2>1. first \in Seq(M) /\ first # <<>> /\ Head(first) = greeting /\ last \in Seq(M)
    BY <1>6, <1>9, <1>12
  <2>2. network'[a][f] = first \o last
    BY <1>4
  <2> HIDE DEF first, last
  <2>3. first \o last \in Seq(M) /\ first \o last # <<>> /\ Head(first \o last) = greeting
    BY <2>1, Behind
  <2> QED BY <2>2, <2>3
<1>13. <<>> \in Seq(M)
  OBVIOUS
<1>14. ASSUME NEW m \in Nodes, NEW n \in Nodes
       PROVE  /\ network'[m][n] \in Seq(M)
              /\ IF hand'[m][n] = "none" THEN network'[m][n] = <<>>
                 ELSE network'[m][n] # <<>> /\ Head(network'[m][n]) = greeting
  <2>1. CASE m # a
    <3>1. network'[m] = network[m] /\ (hand'[m][n] = "none" <=> hand[m][n] = "none")
      BY <1>4, <2>1
    <3> QED BY <1>9, <3>1
  <2>2. CASE m = a /\ n = b
    BY <1>4, <1>10, <2>2
  <2>3. CASE m = a /\ n # b
    <3>1. hand'[a][n] = "none" <=> hand[a][n] = "none"
      BY <1>4, <2>3
    <3> QED BY <1>11, <1>12, <1>13, <2>3, <3>1
  <2> QED BY <2>1, <2>2, <2>3
<1>15. batch' \in Seq(Friendships(hand'))
  <2> DEFINE S == Friendships(hand')
             T == {f \in Nodes : hand'[a][f] # "none"}
  <2>1. Friendships(hand) \subseteq S
    BY <1>4 DEF Friendships
  <2>2. batch \in Seq(S)
    <3>1. batch \in Seq(Friendships(hand))
      BY <1>3 DEF Greeted
    <3> DEFINE R == Friendships(hand)
    <3> HIDE DEF S, R
    <3>2. batch \in Seq(R) /\ R \subseteq S
      BY <2>1, <3>1 DEF R
    <3> QED BY <3>2
  <2>3. \A f \in T : <<a, f>> \in S
    BY DEF Friendships
  <2>4. b \in T /\ T \in SUBSET Nodes
    BY <1>4
  <2>5. \A f \in Nodes : Net!Emitted(a, f) \in Int
    BY <1>9, <1>14 DEF Net!Emitted
  <2>6. ASSUME NEW f \in Nodes \ T PROVE Net!Emitted(a, f) = 0
    <3>1. hand'[a][f] = "none" /\ f # b /\ hand[a][f] = "none"
      BY <1>4
    <3>2. network[a][f] = <<>> /\ network'[a][f] = <<>>
      BY <1>9, <1>14, <3>1
    <3> QED BY <3>2 DEF Net!Emitted
  <2> HIDE DEF S, T
  <2>7. batch' \in Seq(S)
    BY <1>1, <2>2, <2>3, <2>4, <2>5, <2>6, MeetsSome
  <2> QED BY <2>7 DEF S
<1>16. Greeted'
  <2>1. Wired(network)'
    BY <1>14, SameMessages DEF Wired, M
  <2>2. Friendships(hand)' = Friendships(hand') /\ Greeting' = Greeting
    BY DEF Friendships, Greeting, Net!Node!Loops!Tracing!Probing!MeetMessage
  <2>3. stage' = "before"
    BY <1>1, <1>3 DEF Greeted
  <2> QED BY <1>14, <1>15, <2>1, <2>2, <2>3 DEF Greeted, greeting
<1>17. CommandInv'
  BY <1>1, <1>16 DEF CommandInv, Commands
<1> QED BY <1>2, <1>4, <1>17 DEF SnapshotInv

-----------------------------------------------------------------------------
(***************************************************************************)
(* All steps.                                                              *)
(***************************************************************************)
LEMMA InvInit == Init => SnapshotInv /\ OnFile!Init
<1> SUFFICES ASSUME Init PROVE SnapshotInv /\ OnFile!Init
  OBVIOUS
<1>1. /\ command = "none" /\ disk = [f \in Files |-> Missing]
      /\ nodes = {} /\ heard = {} /\ batch = <<>>
      /\ hand = [n \in Nodes |-> [f \in Nodes |-> "none"]]
      /\ known = [n \in Nodes |-> {}]
      /\ from = [n \in Nodes |-> [p \in Introductions |-> {}]]
      /\ to = [n \in Nodes |-> [p \in Introductions |-> {}]]
      /\ offer = [n \in Nodes |-> [f \in Nodes |-> {}]]
      /\ network = [m \in Nodes |-> [n \in Nodes |-> <<>>]]
      /\ trust = [n \in Nodes |-> [f \in Nodes |-> 0]]
      /\ balance = [n \in Nodes |-> [f \in Nodes |-> 0]]
  BY DEF Init, Net!Init, Net!Node!Init, Net!Node!Loops!Init, Net!Node!Loops!Tracing!Init,
     Net!Node!Loops!Tracing!Probing!Init, Net!Node!Loops!Tracing!Probing!Probes
<1>2. Missing.status = "missing"
  BY DEF Missing
<1>3. /\ DOMAIN disk = Files
      /\ \A f \in Files : disk[f].status = "missing"
  BY <1>1, <1>2
<1>4. FilesInv
  BY <1>3 DEF FilesInv
<1>5. Offers(offer) /\ Rows(network)
  BY <1>1 DEF Offers, Rows
<1>6. Sound(nodes, hand, known, from, to, trust, balance)
  BY <1>1 DEF Sound, Hands, Statuses, ProbeSets, Records, Amounts, Newcomer
<1>7. MemoryInv
  BY <1>1, <1>5, <1>6 DEF MemoryInv
<1>8. CommandInv
  BY <1>1 DEF CommandInv
<1>9. disk["snapshot"].status = "missing"
  BY <1>3 DEF Files
<1>10. Entries = OnFile!Empty /\ Agents = {}
  BY <1>9, EntriesRead DEF AccountIn, Agents
<1>11. OnFile!Init
  BY <1>1, <1>9, <1>10 DEF OnFile!Init
<1> QED BY <1>4, <1>7, <1>8, <1>11 DEF SnapshotInv

(* A step that changes nothing. *)
LEMMA StepStutter ==
  ASSUME SnapshotInv, UNCHANGED vars
  PROVE  SnapshotInv' /\ UNCHANGED OnFile!vars
<1>1. /\ nodes' = nodes /\ heard' = heard /\ batch' = batch /\ command' = command
      /\ stage' = stage /\ disk' = disk
      /\ hand' = hand /\ known' = known /\ from' = from /\ to' = to /\ offer' = offer
      /\ network' = network /\ trust' = trust /\ balance' = balance
  BY DEF vars, node
<1>2. FilesInv' /\ Entries' = Entries /\ Agents' = Agents /\ UNCHANGED OnFile!vars
  BY <1>1, FilesKept, EntriesKept, Stutters DEF SnapshotInv
<1>3. MemoryInv'
  <2>1. MemoryInv
    BY DEF SnapshotInv
  <2> QED BY <1>1, <2>1 DEF MemoryInv
<1>4. CommandInv
  BY DEF SnapshotInv
<1>5. Account' = Account /\ (OnFile!Empty)' = OnFile!Empty
  BY <1>1 DEF Account, OnFile!Empty
<1>6. Restored => Restored'
  BY <1>1 DEF Restored, Silent
<1>7. ASSUME NEW a \in Nodes, NEW b \in Nodes, NEW amount \in Trusts, Trusting(a, b, amount)
      PROVE  Trusting(a, b, amount)'
  <2>1. /\ TrustedAccount(Entries, Account, a, b, amount) =>
             TrustedAccount(Entries, Account, a, b, amount)'
        /\ SharedAccount(Entries, Account, a, b, amount) =>
             SharedAccount(Entries, Account, a, b, amount)'
    BY <1>2, <1>5, TablesNext
  <2>2. ProbeOf(a, b)' = ProbeOf(a, b) /\ Greeting' = Greeting
    BY DEF ProbeOf, Greeting, Net!Node!Loops!Tracing!Probing!ProbeMessage,
       Net!Node!Loops!Tracing!Probing!MeetMessage
  <2>3. /\ Introducing(a, b) => Introducing(a, b)'
        /\ Introduced(a, b) => Introduced(a, b)'
    BY <1>1, <2>2 DEF Introducing, Introduced, Reticent, Silent
  <2> QED BY <1>1, <1>2, <1>7, <2>1, <2>3 DEF Trusting
<1>8. ASSUME NEW a \in Nodes, NEW b \in Nodes, NEW amount \in Balances, Crediting(a, b, amount)
      PROVE  Crediting(a, b, amount)'
  <2>1. CreditedAccount(Entries, Account, a, b, amount)'
    BY <1>2, <1>5, <1>8, TablesNext DEF Crediting
  <2>2. Balance(amount)' = Balance(amount)
    BY DEF Balance, Net!Node!SetBalanceMessage
  <2>3. Telling(a, b, amount) => Telling(a, b, amount)'
    BY <1>1, <2>2 DEF Telling, Silent
  <2> QED BY <1>1, <1>2, <1>8, <2>1, <2>3 DEF Crediting
<1>9. Greeted => Greeted'
  <2>1. Friendships(hand)' = Friendships(hand) /\ Greeting' = Greeting
    BY <1>1 DEF Friendships, Greeting, Net!Node!Loops!Tracing!Probing!MeetMessage
  <2>2. Wired(network)' = Wired(network)
    BY <1>1, SameMessages DEF Wired
  <2> QED BY <1>1, <2>1, <2>2 DEF Greeted
<1>10. CommandInv'
  <2>1. /\ command' \in Commands \cup {"none"}
        /\ command' \in {"none", "new", "sim", "get-balances"} => batch' = <<>>
        /\ command' \in {"set-trust", "set-balance", "get-balances"} /\ stage' = "before" => Restored'
        /\ command' \in {"set-trust", "set-balance", "get-balances"} /\ stage' = "before" =>
             Account' = Entries' /\ nodes' = Agents'
        /\ command' = "get-balances" /\ stage' # "before" =>
             Account' = Entries' /\ \E a \in Nodes : nodes' = Agents' \cup {a}
        /\ command' = "new" => Account' = (OnFile!Empty)' /\ nodes' = {}
        /\ command' = "init" => Greeted'
    BY <1>1, <1>2, <1>4, <1>5, <1>6, <1>9 DEF CommandInv
  <2>2. ASSUME command = "set-trust" /\ stage # "before"
        PROVE  \E a, b \in Nodes, amount \in Trusts : Trusting(a, b, amount)'
    <3>1. PICK a \in Nodes, b \in Nodes, amount \in Trusts : Trusting(a, b, amount)
      BY <1>4, <2>2 DEF CommandInv
    <3> QED BY <1>7, <3>1
  <2>3. ASSUME command = "set-balance" /\ stage # "before"
        PROVE  \E a, b \in Nodes, amount \in Balances : Crediting(a, b, amount)'
    <3>1. PICK a \in Nodes, b \in Nodes, amount \in Balances : Crediting(a, b, amount)
      BY <1>4, <2>3 DEF CommandInv
    <3> QED BY <1>8, <3>1
  <2>4. Commands' = Commands
    BY DEF Commands
  <2> QED BY <1>1, <2>1, <2>2, <2>3, <2>4 DEF CommandInv
<1> QED BY <1>2, <1>3, <1>10 DEF SnapshotInv

LEMMA Steps ==
  SnapshotInv /\ [Next]_vars => SnapshotInv' /\ [OnFile!Next]_(OnFile!vars)
<1> SUFFICES ASSUME SnapshotInv, [Next]_vars
             PROVE  SnapshotInv' /\ (OnFile!Next \/ UNCHANGED OnFile!vars)
  OBVIOUS
<1>1. CASE UNCHANGED vars
  BY <1>1, StepStutter
<1>2. ASSUME NEW c \in {"set-trust", "set-balance", "get-balances"}, StartOnSnapshot(c)
      PROVE  SnapshotInv' /\ OnFile!Next
  BY <1>2, StepStartOnSnapshot
<1>3. CASE StartNew
  BY <1>3, StepStartNew
<1>4. CASE StartInit
  BY <1>4, StepStartInit
<1>5. CASE StartSim
  BY <1>5, StepStartSim
<1>6. ASSUME NEW a \in Nodes, NEW b \in Nodes, NEW amount \in Trusts, SetTrust(a, b, amount)
      PROVE  SnapshotInv' /\ UNCHANGED OnFile!vars
  BY <1>6, StepSetTrust
<1>7. ASSUME NEW a \in Nodes, NEW b \in Nodes, NEW amount \in Balances, SetBalance(a, b, amount)
      PROVE  SnapshotInv' /\ UNCHANGED OnFile!vars
  BY <1>7, StepSetBalance
<1>8. ASSUME NEW a \in Nodes, NEW b \in Nodes, ReadLine(a, b)
      PROVE  SnapshotInv' /\ UNCHANGED OnFile!vars
  BY <1>8, StepReadLine
<1>9. ASSUME NEW a \in Nodes, GetBalances(a)
      PROVE  SnapshotInv' /\ UNCHANGED OnFile!vars
  BY <1>9, StepGetBalances
<1>10. CASE Flush
  BY <1>10, StepFlush
<1>11. CASE Save
  BY <1>11, StepSave
<1>12. CASE Tear
  BY <1>12, StepTear
<1>13. CASE Kill
  BY <1>13, StepKill
<1> QED BY <1>1, <1>2, <1>3, <1>4, <1>5, <1>6, <1>7, <1>8, <1>9, <1>10, <1>11, <1>12, <1>13
        DEF Next, Run

-----------------------------------------------------------------------------
(***************************************************************************)
(* The theorems.                                                           *)
(***************************************************************************)
(* What is on file and in memory is always a table of nodes that has an entry for every
   name, in which nobody is its own friend and nobody knows a name that is not in the
   table; and a command that has started holds the ledger it read, with no more than its
   own change made. *)
THEOREM SnapshotsCorrect == Spec => []SnapshotInv
<1>1. Init => SnapshotInv
  BY InvInit
<1>2. SnapshotInv /\ [Next]_vars => SnapshotInv'
  BY Steps
<1> QED BY <1>1, <1>2, PTL DEF Spec

(* Safety of the refinement: set-trust, set-balance, get-balances and new have done to the
   table in the file what they are about and nothing else, the other end of a trustline
   changing only when set-trust names its first agent for the first time, or, killed,
   nothing, or, killed while they write, have emptied it; init and sim do not touch it. *)
THEOREM ImplementsLedgerSteps == Spec => OnFile!Spec
<1>1. Init => OnFile!Init
  BY InvInit
<1>2. SnapshotInv /\ [Next]_vars => [OnFile!Next]_(OnFile!vars)
  BY Steps
<1> QED BY <1>1, <1>2, SnapshotsCorrect, PTL DEF Spec, OnFile!Spec

(* Who is greeted, or told of a balance, has nothing to throw about. *)
LEMMA Acceptable ==
  /\ \A x : x = Greeting => x.type \in {"meet", "set-balance"}
  /\ \A x, amount : x = Balance(amount) => x.type \in {"meet", "set-balance"}
BY DEF Greeting, Balance, Net!Node!SetBalanceMessage, Net!Node!Loops!Tracing!Probing!MeetMessage

LEMMA NothingThrown == SnapshotInv => NothingThrows
<1> SUFFICES ASSUME SnapshotInv, NEW i \in DOMAIN batch
             PROVE  LET m == batch[i][1]
                        n == batch[i][2]
                    IN /\ n \in nodes
                       /\ hand[n][m] = "none" => Head(network[m][n]).type \in {"meet", "set-balance"}
  BY DEF NothingThrows
<1>1. MemoryInv /\ CommandInv
  BY DEF SnapshotInv
<1>2. batch # <<>>
  OBVIOUS
<1>3. command \in {"set-trust", "set-balance", "init"}
  BY <1>1, <1>2 DEF CommandInv, Commands
<1>4. CASE command = "set-trust"
  <2>1. stage # "before"
    BY <1>1, <1>2, <1>4 DEF CommandInv, Restored
  <2>2. PICK a \in Nodes, b \in Nodes, amount \in Trusts : Trusting(a, b, amount)
    BY <1>1, <1>4, <2>1 DEF CommandInv
  <2>3. Introducing(a, b) \/ Introduced(a, b)
    BY <1>2, <2>2 DEF Trusting
  <2> DEFINE package == <<a, b>>
             greeting == Greeting
             probe == ProbeOf(a, b)
  <2>4. package[1] = a /\ package[2] = b
    OBVIOUS
  <2>5. batch[i] = package
    <3>1. batch = <<package, package>> \/ batch = <<package>>
      BY <2>3 DEF Introducing, Introduced
    <3> HIDE DEF package
    <3> QED BY <3>1
  <2>6. hand[b][a] = "none" => network[a][b] = <<greeting, probe>>
    BY <2>3 DEF Introducing, Introduced
  <2>7. hand[b][a] = "none" => network[a][b] # <<>> /\ Head(network[a][b]) = greeting
    <3> SUFFICES ASSUME hand[b][a] = "none"
                 PROVE  network[a][b] # <<>> /\ Head(network[a][b]) = greeting
      OBVIOUS
    <3>1. network[a][b] = <<greeting, probe>>
      BY <2>6
    <3> HIDE DEF greeting, probe
    <3> QED BY <3>1
  <2>8. b \in nodes /\ greeting.type \in {"meet", "set-balance"}
    BY <2>3, Acceptable DEF Introducing, Introduced
  <2>9. /\ b \in nodes
        /\ hand[b][a] = "none" => Head(network[a][b]).type \in {"meet", "set-balance"}
    <3> HIDE DEF greeting
    <3> QED BY <2>7, <2>8
  <2> HIDE DEF package
  <2> QED BY <2>4, <2>5, <2>9
<1>5. CASE command = "set-balance"
  <2>1. stage # "before"
    BY <1>1, <1>2, <1>5 DEF CommandInv, Restored
  <2>2. PICK a \in Nodes, b \in Nodes, amount \in Balances : Crediting(a, b, amount)
    BY <1>1, <1>5, <2>1 DEF CommandInv
  <2>3. Telling(a, b, amount)
    BY <1>2, <2>2 DEF Crediting
  <2> DEFINE package == <<a, b>>
             message == Balance(amount)
  <2>4. package[1] = a /\ package[2] = b
    OBVIOUS
  <2>5. batch[i] = package
    <3>1. batch = <<package>>
      BY <2>3 DEF Telling
    <3> HIDE DEF package
    <3> QED BY <3>1
  <2>6. network[a][b] = <<message>> /\ b \in nodes
    BY <2>3 DEF Telling
  <2>7. network[a][b] # <<>> /\ Head(network[a][b]) = message
    <3> HIDE DEF message
    <3> QED BY <2>6
  <2>8. /\ b \in nodes
        /\ hand[b][a] = "none" => Head(network[a][b]).type \in {"meet", "set-balance"}
    BY <2>6, <2>7, Acceptable DEF message
  <2> HIDE DEF package
  <2> QED BY <2>4, <2>5, <2>8
<1>6. CASE command = "init"
  <2>1. Greeted
    BY <1>1, <1>6 DEF CommandInv
  <2>2. batch[i] \in Friendships(hand)
    <3> DEFINE S == Friendships(hand)
    <3>1. batch \in Seq(S)
      BY <2>1 DEF Greeted
    <3> HIDE DEF S
    <3>2. batch[i] \in S
      BY <3>1
    <3> QED BY <3>2 DEF S
  <2>3. PICK m \in Nodes, n \in Nodes : batch[i] = <<m, n>> /\ hand[m][n] # "none"
    BY <2>2 DEF Friendships
  <2>4. n \in nodes
    <3>1. SUFFICES ASSUME n \in Nodes \ nodes PROVE FALSE
      OBVIOUS
    <3>2. Newcomer(n, hand, known, from, to)
      BY <1>1, <3>1, MemoryFacts
    <3> QED BY <2>3, <3>2 DEF Newcomer
  <2>5. network[m][n] # <<>> /\ Head(network[m][n]) = Greeting
    BY <2>1, <2>3 DEF Greeted
  <2>6. /\ n \in nodes
        /\ hand[n][m] = "none" => Head(network[m][n]).type \in {"meet", "set-balance"}
    BY <2>4, <2>5, Acceptable
  <2> DEFINE package == <<m, n>>
  <2>7. package[1] = m /\ package[2] = n
    OBVIOUS
  <2>8. batch[i] = package
    BY <2>3
  <2> HIDE DEF package
  <2> QED BY <2>6, <2>7, <2>8
<1> QED BY <1>3, <1>4, <1>5, <1>6

(* No handler throws: a flush delivers to nodes that are there, and what a node gets from
   one that it does not know is 'meet' or 'set-balance'. *)
THEOREM NothingThrowsCorrect == Spec => []NothingThrows
BY SnapshotsCorrect, NothingThrown, PTL
================================================================================
