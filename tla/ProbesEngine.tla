---------------------------- MODULE ProbesEngine ----------------------------
(***************************************************************************)
(* The probes engine of a LedgerLoops node (src/src/engine/probesengine.ts)*)
(* with the part of the node that feeds it (src/src/saiga.ts: meet, and the*)
(* 'meet', 'probe', 'have-probes' and 'okay-to-send-probes' cases of       *)
(* process), for a network of nodes whose messages arrive in the order in  *)
(* which one node sent them to another.                                    *)
(*                                                                         *)
(* Every link that is made floods the network with one probe, a random     *)
(* nonce.  A node passes a probe that is new to it on to all its other     *)
(* friends; a probe that comes back to a node that knows it has closed a   *)
(* loop ("probe-loopback").  Two copies of one probe that pass each other  *)
(* on a link would hide the loop, so a link has a hand-raising protocol:   *)
(* only its talking end may send probes, the other end asks first.         *)
(***************************************************************************)
EXTENDS Naturals, Sequences, FiniteSets, Functions

CONSTANTS
  Nodes,          \* the names of the nodes
  Introductions   \* the pairs <<first, second>> that may be told to meet

ASSUME NodesAssumption == IsFiniteSet(Nodes)

ASSUME IntroductionsAssumption ==
  /\ Introductions \subseteq Nodes \X Nodes
  /\ \A n \in Nodes : <<n, n>> \notin Introductions

(* A meeting mints one probe under a nonce of its own (genRanHex), and no two
   nodes meet twice: a probe goes by the meeting that mints it. *)
Probes == Introductions

VARIABLES
  hand,       \* hand[n][f]: friends[f].handRaisingStatus at n; "none": f is no friend of n
  known,      \* known[n]: the probes in the probes table of n
  from,       \* from[n][p]: the friends that sent probe p to n
  to,         \* to[n][p]: the friends that n sent probe p to
  offer,      \* offer[n][f]: the probes in probesToOffer[f] of n
  loopbacks,  \* loopbacks[n]: the <<probe, sender>> of the 'probe-loopback' events at n
  network     \* network[m][n]: the messages from m to n under way, oldest first

vars == <<hand, known, from, to, offer, loopbacks, network>>

-----------------------------------------------------------------------------
(***************************************************************************)
(* Hand-raising statuses and messages.                                     *)
(***************************************************************************)
HandRaisingStatus == {"none", "listening", "waiting", "talking"}

MeetMessage == [type |-> "meet"]
HaveProbes == [type |-> "have-probes"]
OkayToSendProbes == [type |-> "okay-to-send-probes"]
ProbeMessage(p) == [type |-> "probe", probe |-> p]

Messages == {MeetMessage, HaveProbes, OkayToSendProbes} \cup {ProbeMessage(p) : p \in Probes}

Friends(n) == {f \in Nodes : hand[n][f] # "none"}

(***************************************************************************)
(* The network: n takes the oldest message of m, and sends to its friends. *)
(***************************************************************************)
Arrives(m, n, message) == network[m][n] # <<>> /\ Head(network[m][n]) = message

Taken(m, n) == [network EXCEPT ![m][n] = Tail(@)]

Sent(net, n, f, messages) == [net EXCEPT ![n][f] = @ \o messages]

-----------------------------------------------------------------------------
(***************************************************************************)
(* Offering probes to friends.                                             *)
(***************************************************************************)

(* Mutants of Virgin: one direction is not looked at, or neither is. *)
VirginUnlessSent(n, f, S) == {p \in S : f \notin to[n][p]}
VirginAlways(n, f, S) == S

(* The probes of S that have not crossed the link between n and f in either
   direction: Probe.isVirginFor. *)
Virgin(n, f, S) == {p \in S : f \notin from[n][p] /\ f \notin to[n][p]}

(* The orders in which the members of S may come. *)
Orders(S) == Injection(1..Cardinality(S), S)

(* The 'probe' messages for S, in an arbitrary order: that of the queue is the
   order in which random nonces came in. *)
AnOrder(S) == CHOOSE order \in Orders(S) : TRUE

Burst(S) == [i \in 1..Cardinality(S) |-> ProbeMessage(AnOrder(S)[i])]

(* What flushProbesQueue sends to f once n, whose hand-raising statuses are
   status, has queued the probes queued[f] for f; nothing unless n talks to f. *)
Flushed(n, status, queued, f) ==
  IF status[f] = "talking" /\ queued[f] # {}
  THEN Virgin(n, f, offer[n][f] \cup queued[f])
  ELSE {}

Raises(status, queued, f) == status[f] = "listening" /\ queued[f] # {}

(* The messages queueProbe sends to f. *)
Queued(n, status, queued, f) ==
  Burst(Flushed(n, status, queued, f)) \o
    (IF Raises(status, queued, f) THEN <<HaveProbes>> ELSE <<>>)

(* queueProbe with tryToSendProbes, for every friend f of n and every probe of
   queued[f]: a talking end flushes its queue, a listening end raises its hand
   and waits, a waiting end only queues.  net is the network before it sends. *)
QueueProbes(n, status, queued, net) ==
  /\ hand' = [hand EXCEPT ![n] =
       [f \in Nodes |-> IF Raises(status, queued, f) THEN "waiting" ELSE status[f]]]
  /\ offer' = [offer EXCEPT ![n] = [f \in Nodes |-> @[f] \cup queued[f]]]
  /\ to' = [to EXCEPT ![n] =
       [p \in Probes |-> @[p] \cup {f \in Nodes : p \in Flushed(n, status, queued, f)}]]
  /\ network' = [net EXCEPT ![n] =
       [f \in Nodes |-> @[f] \o Queued(n, status, queued, f)]]

-----------------------------------------------------------------------------
(***************************************************************************)
(* Mutants: the ways in which a plausible bug changes the actions below.   *)
(***************************************************************************)

(* Meet that does not send 'meet', so that b hears from a stranger. *)
MeetUnannounced(a, b) ==
  /\ <<a, b>> \in Introductions
  /\ hand[a][b] = "none"
  /\ known' = [known EXCEPT ![a] = @ \cup {<<a, b>>}]
  /\ QueueProbes(a, [hand[a] EXCEPT ![b] = "talking"],
       [f \in Nodes |-> IF f = b THEN known[a] \cup {<<a, b>>}
                        ELSE IF f \in Friends(a) THEN {<<a, b>>} ELSE {}],
       network)
  /\ UNCHANGED <<from, loopbacks>>

(* HandleMeet that does not offer the probes n knows. *)
HandleMeetEmptyHanded(m, n) ==
  /\ Arrives(m, n, MeetMessage)
  /\ hand' = [hand EXCEPT ![n][m] = "listening"]
  /\ network' = Taken(m, n)
  /\ UNCHANGED <<known, from, to, offer, loopbacks>>

(* HandleMeet where the second party talks, like the first. *)
HandleMeetTalking(m, n) ==
  /\ Arrives(m, n, MeetMessage)
  /\ QueueProbes(n, [hand[n] EXCEPT ![m] = "talking"],
       [f \in Nodes |-> IF f = m THEN known[n] ELSE {}], Taken(m, n))
  /\ UNCHANGED <<known, from, loopbacks>>

(* FloodNewProbe that records the probe where the sender belongs. *)
FloodRecordingProbe(m, n, p) ==
  /\ Arrives(m, n, ProbeMessage(p))
  /\ p \notin known[n]
  /\ known' = [known EXCEPT ![n] = @ \cup {p}]
  /\ from' = [from EXCEPT ![n][p] = @ \cup {p}]
  /\ QueueProbes(n, hand[n],
       [f \in Nodes |-> IF f \in Friends(n) \ {m} THEN {p} ELSE {}], Taken(m, n))
  /\ UNCHANGED loopbacks

(* FloodNewProbe that keeps the probe to itself. *)
KeepNewProbe(m, n, p) ==
  /\ Arrives(m, n, ProbeMessage(p))
  /\ p \notin known[n]
  /\ known' = [known EXCEPT ![n] = @ \cup {p}]
  /\ from' = [from EXCEPT ![n][p] = @ \cup {m}]
  /\ network' = Taken(m, n)
  /\ UNCHANGED <<hand, to, offer, loopbacks>>

(* RecordLoopback that reports a loop only where the probe was minted. *)
RecordLoopbackAtMinter(m, n, p) ==
  /\ Arrives(m, n, ProbeMessage(p))
  /\ p \in known[n]
  /\ Virgin(n, m, {p}) # {}
  /\ from' = [from EXCEPT ![n][p] = @ \cup {m}]
  /\ loopbacks' = [loopbacks EXCEPT ![n] = IF p[1] = n THEN @ \cup {<<p, m>>} ELSE @]
  /\ UNCHANGED <<hand, known, to, offer>>

(* HandleHaveProbes that lets the other end talk and goes on talking. *)
HandleHaveProbesTalkingOn(m, n) ==
  /\ Arrives(m, n, HaveProbes)
  /\ network' = Sent(Taken(m, n), n, m, <<OkayToSendProbes>>)
  /\ UNCHANGED <<hand, known, from, to, offer, loopbacks>>

(* HandleHaveProbes that asks to talk again at once. *)
HandleHaveProbesAgain(m, n) ==
  /\ Arrives(m, n, HaveProbes)
  /\ hand' = [hand EXCEPT ![n][m] = "waiting"]
  /\ network' = Sent(Taken(m, n), n, m, <<OkayToSendProbes, HaveProbes>>)
  /\ UNCHANGED <<known, from, to, offer, loopbacks>>

(* HandleOkayToSendProbes that flushes the queue and goes on waiting. *)
HandleOkayWaitingOn(m, n) ==
  LET flushed == Virgin(n, m, offer[n][m])
  IN /\ Arrives(m, n, OkayToSendProbes)
     /\ to' = [to EXCEPT ![n] =
          [p \in Probes |-> IF p \in flushed THEN @[p] \cup {m} ELSE @[p]]]
     /\ network' = Sent(Taken(m, n), n, m, Burst(flushed))
     /\ UNCHANGED <<hand, known, from, offer, loopbacks>>

(* HandleHaveProbes that lets the other end wait when n waits itself. *)
HandleHaveProbesUnlessWaiting(m, n) ==
  /\ Arrives(m, n, HaveProbes)
  /\ IF hand[n][m] = "waiting"
     THEN network' = Taken(m, n) /\ UNCHANGED hand
     ELSE /\ hand' = [hand EXCEPT ![n][m] = "listening"]
          /\ network' = Sent(Taken(m, n), n, m, <<OkayToSendProbes>>)
  /\ UNCHANGED <<known, from, to, offer, loopbacks>>

(* HandleOkayToSendProbes that leaves the queue for the next new probe. *)
HandleOkayIdle(m, n) ==
  /\ Arrives(m, n, OkayToSendProbes)
  /\ hand' = [hand EXCEPT ![n][m] = "talking"]
  /\ network' = Taken(m, n)
  /\ UNCHANGED <<known, from, to, offer, loopbacks>>

(* HandleOkayToSendProbes that records probes as sent and does not send them. *)
HandleOkayUnsent(m, n) ==
  LET flushed == Virgin(n, m, offer[n][m])
  IN /\ Arrives(m, n, OkayToSendProbes)
     /\ hand' = [hand EXCEPT ![n][m] = "talking"]
     /\ to' = [to EXCEPT ![n] =
          [p \in Probes |-> IF p \in flushed THEN @[p] \cup {m} ELSE @[p]]]
     /\ network' = Taken(m, n)
     /\ UNCHANGED <<known, from, offer, loopbacks>>

-----------------------------------------------------------------------------
(***************************************************************************)
(* The commands and the message handlers.                                  *)
(***************************************************************************)
Init ==
  /\ hand = [n \in Nodes |-> [f \in Nodes |-> "none"]]
  /\ known = [n \in Nodes |-> {}]
  /\ from = [n \in Nodes |-> [p \in Probes |-> {}]]
  /\ to = [n \in Nodes |-> [p \in Probes |-> {}]]
  /\ offer = [n \in Nodes |-> [f \in Nodes |-> {}]]
  /\ loopbacks = [n \in Nodes |-> {}]
  /\ network = [m \in Nodes |-> [n \in Nodes |-> <<>>]]

(* Node a is told to meet b, which is no friend of it yet (meet, or setTrust
   towards a stranger).  It sends 'meet', talks to b, queues all its probes for
   b, mints a probe and queues that for all its friends. *)
Meet(a, b) ==
  /\ <<a, b>> \in Introductions
  /\ hand[a][b] = "none"
  /\ known' = [known EXCEPT ![a] = @ \cup {<<a, b>>}]
  /\ QueueProbes(a, [hand[a] EXCEPT ![b] = "talking"],
       [f \in Nodes |-> IF f = b THEN known[a] \cup {<<a, b>>}
                        ELSE IF f \in Friends(a) THEN {<<a, b>>} ELSE {}],
       Sent(network, a, b, <<MeetMessage>>))
  /\ UNCHANGED <<from, loopbacks>>

(* 'meet' from m: n takes m for a friend that may talk, whatever it took it for
   before, and queues all its probes for m. *)
HandleMeet(m, n) ==
  /\ Arrives(m, n, MeetMessage)
  /\ QueueProbes(n, [hand[n] EXCEPT ![m] = "listening"],
       [f \in Nodes |-> IF f = m THEN known[n] ELSE {}], Taken(m, n))
  /\ UNCHANGED <<known, from, loopbacks>>

(* 'probe' from m, of a probe new to n: queue it for all other friends. *)
FloodNewProbe(m, n, p) ==
  /\ Arrives(m, n, ProbeMessage(p))
  /\ p \notin known[n]
  /\ known' = [known EXCEPT ![n] = @ \cup {p}]
  /\ from' = [from EXCEPT ![n][p] = @ \cup {m}]
  /\ QueueProbes(n, hand[n],
       [f \in Nodes |-> IF f \in Friends(n) \ {m} THEN {p} ELSE {}], Taken(m, n))
  /\ UNCHANGED loopbacks

(* 'probe' from m, of a probe n knows and has not exchanged with m: a loop.
   What the listener to the event sends is left open. *)
RecordLoopback(m, n, p) ==
  /\ Arrives(m, n, ProbeMessage(p))
  /\ p \in known[n]
  /\ Virgin(n, m, {p}) # {}
  /\ from' = [from EXCEPT ![n][p] = @ \cup {m}]
  /\ loopbacks' = [loopbacks EXCEPT ![n] = @ \cup {<<p, m>>}]
  /\ UNCHANGED <<hand, known, to, offer>>

(* The same without a listener. *)
ProbeLoopback(m, n, p) ==
  /\ RecordLoopback(m, n, p)
  /\ network' = Taken(m, n)

(* 'probe' from m, of a probe that crossed the link before: ignored. *)
IgnoreProbe(m, n, p) ==
  /\ Arrives(m, n, ProbeMessage(p))
  /\ p \in known[n]
  /\ Virgin(n, m, {p}) = {}
  /\ network' = Taken(m, n)
  /\ UNCHANGED <<hand, known, from, to, offer, loopbacks>>

(* 'probe' from m: the whole handler, with one of its three branches. *)
HandleProbe(m, n, p) ==
  /\ Arrives(m, n, ProbeMessage(p))
  /\ FloodNewProbe(m, n, p) \/ ProbeLoopback(m, n, p) \/ IgnoreProbe(m, n, p)

(* 'have-probes' from m: n stops talking, whatever it was doing. *)
HandleHaveProbes(m, n) ==
  /\ Arrives(m, n, HaveProbes)
  /\ hand' = [hand EXCEPT ![n][m] = "listening"]
  /\ network' = Sent(Taken(m, n), n, m, <<OkayToSendProbes>>)
  /\ UNCHANGED <<known, from, to, offer, loopbacks>>

(* 'okay-to-send-probes' from m: n talks, and sends what is still virgin of the
   probes it had queued. *)
HandleOkayToSendProbes(m, n) ==
  LET flushed == Virgin(n, m, offer[n][m])
  IN /\ Arrives(m, n, OkayToSendProbes)
     /\ hand' = [hand EXCEPT ![n][m] = "talking"]
     /\ to' = [to EXCEPT ![n] =
          [p \in Probes |-> IF p \in flushed THEN @[p] \cup {m} ELSE @[p]]]
     /\ network' = Sent(Taken(m, n), n, m, Burst(flushed))
     /\ UNCHANGED <<known, from, offer, loopbacks>>

Handle(m, n) ==
  \/ HandleMeet(m, n)
  \/ \E p \in Probes : HandleProbe(m, n, p)
  \/ HandleHaveProbes(m, n)
  \/ HandleOkayToSendProbes(m, n)

Next ==
  \/ \E a, b \in Nodes : Meet(a, b)
  \/ \E m, n \in Nodes : Handle(m, n)

Spec == Init /\ [][Next]_vars

(* The flush loop goes on delivering messages as long as there are any; nobody
   has to introduce anyone. *)
FairSpec == Spec /\ WF_vars(\E m, n \in Nodes : Handle(m, n))

-----------------------------------------------------------------------------
(***************************************************************************)
(* What the engine promises.                                               *)
(***************************************************************************)
Statuses == [Nodes -> HandRaisingStatus]

Queues == [Nodes -> SUBSET Probes]

Records == [Probes -> SUBSET Nodes]

Networks == [Nodes -> [Nodes -> Seq(Messages)]]

(* Every node keeps a status and a queue for each friend, and a record of
   senders and receivers for each probe. *)
TypeOK ==
  /\ hand \in [Nodes -> Statuses]
  /\ known \in [Nodes -> SUBSET Probes]
  /\ from \in [Nodes -> Records]
  /\ to \in [Nodes -> Records]
  /\ offer \in [Nodes -> Queues]
  /\ loopbacks \in [Nodes -> SUBSET (Probes \X Nodes)]
  /\ network \in Networks

(* No pair of nodes is introduced from both ends. *)
OneSided == \A a, b \in Nodes : <<a, b>> \in Introductions => <<b, a>> \notin Introductions

InTransit(m, n, message) == message \in Range(network[m][n])

Quiet == \A m, n \in Nodes : network[m][n] = <<>>

(* The nodes that may send probes to f now, or will once they have taken what
   is on its way: n talks, or an 'okay-to-send-probes' is on its way to n. *)
MayTalk(n, f) == hand[n][f] = "talking" \/ InTransit(f, n, OkayToSendProbes)

(* Every link has exactly one end that may talk, from the moment it is made:
   the right to talk is neither duplicated (DLD.md: only one of the two nodes
   is in talking mode) nor lost, which would leave both ends waiting for ever. *)
OneTalker ==
  \A a, b \in Nodes : hand[a][b] # "none" => (MayTalk(a, b) <=> ~MayTalk(b, a))

(* No probe is sent over a link by both ends (DLD.md: pass in mid-air), so
   none of the two ends takes it for one it has sent itself and ignores it. *)
NoMidAirCrossing ==
  \A a, b \in Nodes, p \in Probes : ~(b \in to[a][p] /\ a \in to[b][p])

(* The first message a node gets from a stranger is 'meet'.  'have-probes' or
   'okay-to-send-probes' would make it read the hand-raising status of an undefined
   friend and throw; a probe would come in over a link that it does not have. *)
NoStranger ==
  \A m, n \in Nodes :
    network[m][n] # <<>> /\ hand[n][m] = "none" => Head(network[m][n]) = MeetMessage

(* A probe that a node knows and has not exchanged with a friend is in the
   queue for that friend, and the node has asked to talk: nothing is held back
   at a talking or a listening end, where no later message would release it. *)
NothingForgotten ==
  \A n \in Nodes : \A f \in Friends(n) :
    \A p \in Virgin(n, f, known[n]) : hand[n][f] = "waiting" /\ p \in offer[n][f]

(* Once no message is under way every link has been crossed by every probe
   that one of its ends knows, and both ends know it. *)
FloodedWhenQuiet ==
  Quiet => \A n \in Nodes : \A f \in Friends(n) :
             /\ n \in Friends(f)
             /\ known[n] = known[f]
             /\ Virgin(n, f, known[n]) = {}

(* A link other than that of n and m leaves S. *)
LeftElsewhere(S, n, m) ==
  \E x \in S, y \in Nodes \ S :
    {x, y} # {n, m} /\ (hand[x][y] # "none" \/ hand[y][x] # "none")

(* A probe loops back only where there is a loop: if n got p a second time from
   m, then n and m are connected without the link between them. Said with
   cuts: every set of nodes that holds n and not m is left by another link. *)
LoopbackMeansLoop ==
  \A n, m \in Nodes, p \in Probes : <<p, m>> \in loopbacks[n] =>
    \A S \in SUBSET Nodes : n \in S /\ m \notin S => LeftElsewhere(S, n, m)

LinksAmong(S) == {link \in SUBSET S : \E x, y \in S : hand[x][y] # "none" /\ link = {x, y}}

LoopbacksOf(p) == {l \in Nodes \X Nodes : <<p, l[1]>> \in loopbacks[l[2]]}

(* Every loop is found: once no message is under way, each probe has looped
   back once for every independent loop of the part of the network it reached
   (its links less the links of a spanning tree). *)
EveryLoopFound ==
  Quiet => \A p \in Probes :
    LET reached == {n \in Nodes : p \in known[n]}
    IN reached # {} =>
         Cardinality(LoopbacksOf(p)) + Cardinality(reached) = Cardinality(LinksAmong(reached)) + 1

(* Every message exchange ends: the ends of a link do not go on raising hands. *)
EventuallyQuiet == []<>Quiet

(* No end waits for ever for its turn to talk, however often it is asked to let the other
   end talk.  With its okay it goes on to talking in the code (probesengine.ts:163), and to
   listening in the words of DLD.md:22; either way it has stopped waiting. *)
EveryHandIsTaken ==
  \A n \in Nodes : \A f \in Nodes \ {n} : hand[n][f] = "waiting" ~> hand[n][f] # "waiting"

-----------------------------------------------------------------------------
(***************************************************************************)
(* The engine implements the flood: a probe crosses a link when the        *)
(* receiving end records it.                                               *)
(***************************************************************************)
LinksMade == {l \in Introductions : hand[l[1]][l[2]] # "none"}

Crossed == [p \in Probes |-> {l \in Nodes \X Nodes : l[1] \in from[l[2]][p]}]

Flood == INSTANCE ProbeFlood WITH links <- LinksMade, crossed <- Crossed

ImplementsFlood == Flood!FairSpec

-----------------------------------------------------------------------------
(***************************************************************************)
(* Why the promises hold: the states a link can be in when its ends are    *)
(* introduced from one side.  t is the end that may talk, o the other.     *)
(***************************************************************************)
ProbeMessages == {ProbeMessage(p) : p \in Probes}

(* The messages of s are probes and then those of rest. *)
ProbesThen(s, rest) ==
  /\ Len(rest) <= Len(s)
  /\ \A i \in 1..Len(s) :
       IF i <= Len(s) - Len(rest) THEN s[i] \in ProbeMessages
       ELSE s[i] = rest[i - (Len(s) - Len(rest))]

Strangers(x, y) ==
  /\ hand[x][y] = "none" /\ hand[y][x] = "none"
  /\ network[x][y] = <<>> /\ network[y][x] = <<>>

(* t has met o, which does not know yet. *)
Meeting(t, o) ==
  /\ <<t, o>> \in Introductions
  /\ hand[t][o] = "talking" /\ hand[o][t] = "none"
  /\ network[t][o] # <<>> /\ Head(network[t][o]) = MeetMessage
  /\ ProbesThen(Tail(network[t][o]), <<>>)
  /\ network[o][t] = <<>>

(* t talks, and o has asked to talk or not. *)
Talking(t, o) ==
  /\ hand[t][o] = "talking"
  /\ ProbesThen(network[t][o], <<>>)
  /\ \/ hand[o][t] = "listening" /\ network[o][t] = <<>>
     \/ hand[o][t] = "waiting" /\ network[o][t] = <<HaveProbes>>

(* t has let o talk, which does not know yet; t may have asked to talk again. *)
Passing(t, o) ==
  /\ hand[o][t] = "waiting"
  /\ network[o][t] = <<>>
  /\ \/ hand[t][o] = "listening" /\ ProbesThen(network[t][o], <<OkayToSendProbes>>)
     \/ hand[t][o] = "waiting" /\ ProbesThen(network[t][o], <<OkayToSendProbes, HaveProbes>>)

Led(t, o) == Meeting(t, o) \/ Talking(t, o) \/ Passing(t, o)

LinkOK(x, y) == Strangers(x, y) \/ Led(x, y) \/ Led(y, x)

LinkInv ==
  /\ \A n \in Nodes : hand[n][n] = "none" /\ network[n][n] = <<>>
  /\ \A x, y \in Nodes : x # y => LinkOK(x, y)

(* Nothing goes to a stranger, and to a friend that does not know yet 'meet' goes first:
   so it is in every network, whatever the shapes of its links. *)
MetInv ==
  \A x, y \in Nodes :
    /\ network[x][y] # <<>> => hand[x][y] # "none"
    /\ hand[x][y] # "none" /\ hand[y][x] = "none" =>
         network[x][y] # <<>> /\ Head(network[x][y]) = MeetMessage

(* A node has queued for a friend what has not crossed the link, and has been or will be
   allowed to send it, however the two ends' hands cross: so it is in every network. *)
RaisedInv ==
  \A n \in Nodes : \A f \in Friends(n) :
    /\ Virgin(n, f, known[n]) \subseteq offer[n][f]
    /\ hand[n][f] = "waiting" \/ Virgin(n, f, known[n]) # {} =>
         InTransit(n, f, HaveProbes) \/ InTransit(f, n, OkayToSendProbes)

(* A probe that was sent is under way or known at the other end, which need not have
   recorded it if it has sent it as well. *)
SpreadInv ==
  \A x, y \in Nodes, p \in Probes : y \in to[x][p] =>
    p \in known[x] /\ (p \in known[y] \/ InTransit(x, y, ProbeMessage(p)))

(* A probe that was sent is under way or has arrived. *)
SentInv ==
  \A x, y \in Nodes, p \in Probes :
    y \in to[x][p] => x \in from[y][p] \/ InTransit(x, y, ProbeMessage(p))

(* Only known probes are offered and under way, and only friends exchange them. *)
KnownInv ==
  /\ \A x, y \in Nodes : offer[x][y] \subseteq known[x]
  /\ \A x, y \in Nodes, p \in Probes :
       /\ InTransit(x, y, ProbeMessage(p)) => p \in known[x] /\ y \in to[x][p]
       /\ x \in from[y][p] =>
            p \in known[x] /\ p \in known[y] /\ hand[y][x] # "none" /\ y \in to[x][p]
       /\ y \in to[x][p] => hand[x][y] # "none"

(* Any set of nodes that some probe has entered without being minted there was
   entered over a link. *)
EnteredInv ==
  \A p \in Probes : \A S \in SUBSET Nodes :
    p[1] \notin S /\ (\E y \in S : p \in known[y]) =>
      \E y \in S, x \in Nodes \ S : x \in from[y][p]

(* The nodes that know a probe are a tree rooted where it was minted, which is at one
   end of its link: each has got the probe from one friend, and over every other link
   that the probe came by it looped back. *)
TreeInv ==
  \A p \in Probes, n \in Nodes :
    /\ p \in known[n] => p \in known[p[1]] /\ hand[p[1]][p[2]] # "none"
    /\ \A m \in Nodes : <<p, m>> \in loopbacks[n] => m \in from[n][p]
    /\ p \in known[n] /\ n # p[1] =>
         \E m \in Nodes : m \in from[n][p] /\ <<p, m>> \notin loopbacks[n]
    /\ \A m, k \in Nodes :
         /\ m \in from[n][p] /\ <<p, m>> \notin loopbacks[n]
         /\ k \in from[n][p] /\ <<p, k>> \notin loopbacks[n]
         => m = k /\ n # p[1]

=============================================================================
