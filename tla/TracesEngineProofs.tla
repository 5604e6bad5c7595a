-------------------------- MODULE TracesEngineProofs --------------------------
(***************************************************************************)
(* No trace is stray, for every set of nodes and introductions, one-sided  *)
(* or not, and however the nodes meet: a node that gets a trace has        *)
(* exchanged the probe with the friend that it comes from.                 *)
(***************************************************************************)
EXTENDS TracesEngine, MessageFilterProofs, FiniteSetTheorems

-----------------------------------------------------------------------------
(***************************************************************************)
(* Messages.                                                               *)
(***************************************************************************)
Wire == Probing!Messages \cup TraceMessages

(* A message tells what it is. *)
LEMMA MessageFacts ==
  /\ \A p, q : Probing!ProbeMessage(p) = Probing!ProbeMessage(q) => p = q
  /\ \A p : /\ Probing!ProbeMessage(p) # Probing!HaveProbes
            /\ Probing!ProbeMessage(p) # Probing!MeetMessage
            /\ Probing!ProbeMessage(p) # Probing!OkayToSendProbes
            /\ Probing!ProbeMessage(p) \notin TraceMessages
  /\ Probing!Messages \cap TraceMessages = {}
  /\ \A t, leg : TraceMessage(t, leg).trace = t /\ TraceMessage(t, leg).leg = leg
  /\ \A message \in TraceMessages :
       /\ message.trace \in Traces /\ message.leg \in Nodes
       /\ message = TraceMessage(message.trace, message.leg)
  /\ \A t \in Traces : t[1] \in Introductions
<1>1. /\ \A message \in Probing!Messages : message.type # "trace"
      /\ \A p : Probing!ProbeMessage(p).type = "probe"
      /\ \A message \in TraceMessages : message.type = "trace"
  BY DEF Probing!Messages, Probing!MeetMessage, Probing!HaveProbes, Probing!OkayToSendProbes,
    Probing!ProbeMessage, TraceMessages, TraceMessage
<1>2. /\ Probing!HaveProbes.type = "have-probes"
      /\ Probing!MeetMessage.type = "meet"
      /\ Probing!OkayToSendProbes.type = "okay-to-send-probes"
  BY DEF Probing!MeetMessage, Probing!HaveProbes, Probing!OkayToSendProbes
<1>3. \A p, q : Probing!ProbeMessage(p) = Probing!ProbeMessage(q) => p = q
  BY DEF Probing!ProbeMessage
<1>4. \A t, leg : TraceMessage(t, leg).trace = t /\ TraceMessage(t, leg).leg = leg
  BY DEF TraceMessage
<1>5. \A message \in TraceMessages :
       /\ message.trace \in Traces /\ message.leg \in Nodes
       /\ message = TraceMessage(message.trace, message.leg)
  BY <1>4 DEF TraceMessages
<1>6. \A t \in Traces : t[1] \in Introductions
  BY DEF Traces
<1> QED
  BY <1>1, <1>2, <1>3, <1>4, <1>5, <1>6

(* The sequence s holds the message of p. *)
Has(s, p) == \E i \in 1..Len(s) : s[i] = Probing!ProbeMessage(p)

(* A trace in s is about a probe of P, or comes behind it. *)
Covered(s, P) ==
  \A i \in 1..Len(s) : \A t \in Traces, leg \in Nodes :
    s[i] = TraceMessage(t, leg) =>
      t[1] \in P \/ \E j \in 1..(i - 1) : s[j] = Probing!ProbeMessage(t[1])

LEMMA TailFacts ==
  ASSUME NEW M, NEW s \in Seq(M), s # <<>>
  PROVE  /\ Head(s) = s[1] /\ Tail(s) \in Seq(M) /\ Len(s) \in Nat /\ Len(s) >= 1
         /\ Len(Tail(s)) = Len(s) - 1
         /\ \A i \in 1..(Len(s) - 1) : Tail(s)[i] = s[i + 1]
OBVIOUS

(* What is left of the probes when a message is taken. *)
LEMMA HasTail ==
  ASSUME NEW M, NEW s \in Seq(M), s # <<>>
  PROVE  \A p : /\ Has(Tail(s), p) => Has(s, p)
                /\ Has(s, p) => Head(s) = Probing!ProbeMessage(p) \/ Has(Tail(s), p)
                /\ Head(s) = Probing!ProbeMessage(p) => Has(s, p)
<1> SUFFICES ASSUME NEW p
             PROVE  /\ Has(Tail(s), p) => Has(s, p)
                    /\ Has(s, p) => Head(s) = Probing!ProbeMessage(p) \/ Has(Tail(s), p)
                    /\ Head(s) = Probing!ProbeMessage(p) => Has(s, p)
  OBVIOUS
<1> DEFINE k == Len(s)
           rest == Tail(s)
<1>1. /\ Head(s) = s[1] /\ k \in Nat /\ k >= 1 /\ Len(rest) = k - 1
      /\ \A i \in 1..(k - 1) : rest[i] = s[i + 1]
  BY TailFacts
<1> HIDE DEF k, rest
<1>2. ASSUME Has(rest, p) PROVE Has(s, p)
  <2>1. PICK i \in 1..(k - 1) : rest[i] = Probing!ProbeMessage(p)
    BY <1>1, <1>2 DEF Has
  <2>2. i + 1 \in 1..k /\ s[i + 1] = Probing!ProbeMessage(p)
    BY <1>1, <2>1
  <2> QED
    BY <2>2 DEF Has, k
<1>3. ASSUME Has(s, p), Head(s) # Probing!ProbeMessage(p) PROVE Has(rest, p)
  <2>1. PICK i \in 1..k : s[i] = Probing!ProbeMessage(p)
    BY <1>3 DEF Has, k
  <2>2. i # 1 /\ i - 1 \in 1..(k - 1) /\ (i - 1) + 1 = i
    BY <1>1, <1>3, <2>1
  <2>3. rest[i - 1] = Probing!ProbeMessage(p)
    BY <1>1, <2>1, <2>2
  <2> QED
    BY <1>1, <2>2, <2>3 DEF Has
<1>4. Head(s) = Probing!ProbeMessage(p) => Has(s, p)
  BY <1>1 DEF Has, k
<1> QED
  BY <1>2, <1>3, <1>4 DEF rest

(* And when messages are sent. *)
LEMMA HasConcat ==
  ASSUME NEW M, NEW s \in Seq(M), NEW u \in Seq(M)
  PROVE  \A p : Has(s \o u, p) <=> Has(s, p) \/ Has(u, p)
<1> SUFFICES ASSUME NEW p PROVE Has(s \o u, p) <=> Has(s, p) \/ Has(u, p)
  OBVIOUS
<1> DEFINE k == Len(s)
           l == Len(u)
           both == s \o u
<1>1. /\ k \in Nat /\ l \in Nat /\ Len(both) = k + l
      /\ \A i \in 1..k : both[i] = s[i]
      /\ \A i \in 1..l : both[k + i] = u[i]
  OBVIOUS
<1> HIDE DEF k, l, both
<1>2. ASSUME NEW i \in 1..(k + l), both[i] = Probing!ProbeMessage(p)
      PROVE  Has(s, p) \/ Has(u, p)
  <2>1. CASE i <= k
    BY <1>1, <1>2, <2>1 DEF Has, k
  <2>2. CASE i > k
    <3>1. i - k \in 1..l /\ k + (i - k) = i
      BY <1>1, <2>2
    <3> QED
      BY <1>1, <1>2, <3>1 DEF Has, l
  <2> QED
    BY <1>1, <2>1, <2>2
<1>3. ASSUME NEW i \in 1..k, s[i] = Probing!ProbeMessage(p)
      PROVE  Has(both, p)
  BY <1>1, <1>3 DEF Has
<1>4. ASSUME NEW i \in 1..l, u[i] = Probing!ProbeMessage(p)
      PROVE  Has(both, p)
  <2>1. k + i \in 1..Len(both) /\ both[k + i] = u[i]
    BY <1>1
  <2> QED
    BY <1>4, <2>1 DEF Has
<1> QED
  BY <1>1, <1>2, <1>3, <1>4 DEF Has, k, l, both

(* The oldest message is taken: traces behind it are about probes exchanged now. *)
LEMMA CoveredTail ==
  ASSUME NEW M, NEW s \in Seq(M), s # <<>>, NEW P, NEW Q, Covered(s, P), P \subseteq Q,
         \A p \in Introductions : Head(s) = Probing!ProbeMessage(p) => p \in Q
  PROVE  Covered(Tail(s), Q)
<1> DEFINE k == Len(s)
           rest == Tail(s)
<1>1. /\ Head(s) = s[1] /\ k \in Nat /\ k >= 1 /\ Len(rest) = k - 1
      /\ \A i \in 1..(k - 1) : rest[i] = s[i + 1]
  BY TailFacts
<1> HIDE DEF k, rest
<1> SUFFICES ASSUME NEW i \in 1..Len(rest), NEW t \in Traces, NEW leg \in Nodes,
                    rest[i] = TraceMessage(t, leg), t[1] \notin Q
             PROVE  \E j \in 1..(i - 1) : rest[j] = Probing!ProbeMessage(t[1])
  BY DEF Covered, rest
<1>2. i + 1 \in 1..k /\ s[i + 1] = TraceMessage(t, leg)
  BY <1>1
<1>3. PICK j \in 1..i : s[j] = Probing!ProbeMessage(t[1])
  <2>1. (i + 1) - 1 = i
    BY <1>1
  <2> QED
    BY <1>2, <2>1 DEF Covered, k
<1>4. j # 1
  BY <1>1, <1>3, MessageFacts
<1>5. j - 1 \in 1..(i - 1) /\ j - 1 \in 1..(k - 1) /\ (j - 1) + 1 = j
  BY <1>1, <1>3, <1>4
<1> QED
  BY <1>1, <1>3, <1>5

(* Messages are sent: new traces are about probes of Q, or probes that are under way. *)
LEMMA CoveredConcat ==
  ASSUME NEW M, NEW s \in Seq(M), NEW u \in Seq(M), NEW P, NEW Q, Covered(s, P), P \subseteq Q,
         \A i \in 1..Len(u) : \A t \in Traces, leg \in Nodes :
           u[i] = TraceMessage(t, leg) => t[1] \in Q \/ Has(s, t[1])
  PROVE  Covered(s \o u, Q)
<1> DEFINE k == Len(s)
           l == Len(u)
           both == s \o u
<1>1. /\ k \in Nat /\ l \in Nat /\ Len(both) = k + l
      /\ \A i \in 1..k : both[i] = s[i]
      /\ \A i \in 1..l : both[k + i] = u[i]
  OBVIOUS
<1> HIDE DEF k, l, both
<1> SUFFICES ASSUME NEW i \in 1..Len(both), NEW t \in Traces, NEW leg \in Nodes,
                    both[i] = TraceMessage(t, leg), t[1] \notin Q
             PROVE  \E j \in 1..(i - 1) : both[j] = Probing!ProbeMessage(t[1])
  BY DEF Covered, both
<1>2. CASE i <= k
  <2>1. i \in 1..k /\ s[i] = TraceMessage(t, leg) /\ t[1] \notin P
    BY <1>1, <1>2
  <2>2. PICK j \in 1..(i - 1) : s[j] = Probing!ProbeMessage(t[1])
    BY <2>1 DEF Covered, k
  <2>3. j \in 1..k
    BY <1>1, <1>2
  <2> QED
    BY <1>1, <2>2, <2>3
<1>3. CASE i > k
  <2>1. i - k \in 1..l /\ k + (i - k) = i
    BY <1>1, <1>3
  <2>2. u[i - k] = TraceMessage(t, leg)
    BY <1>1, <2>1
  <2>3. Has(s, t[1])
    BY <2>1, <2>2 DEF l
  <2>4. PICK j \in 1..k : s[j] = Probing!ProbeMessage(t[1])
    BY <2>3 DEF Has, k
  <2>5. j \in 1..(i - 1)
    BY <1>1, <1>3
  <2> QED
    BY <1>1, <2>4, <2>5
<1> QED
  BY <1>1, <1>2, <1>3

-----------------------------------------------------------------------------
(***************************************************************************)
(* One link, in one direction: s is under way, of the probes R is received *)
(* and S sent, and the receiver has sent T itself.                         *)
(***************************************************************************)
LinkOK(s, R, T, S) ==
  /\ R \subseteq S
  /\ \A p \in Introductions : Has(s, p) => p \in S
  /\ \A p \in S : p \in R \cup T \/ Has(s, p)
  /\ Covered(s, R \cup T)

(* The oldest message is taken; if it is a probe, then that is received now unless it
   crossed the link before. *)
LEMMA LinkTake ==
  ASSUME NEW M, NEW s \in Seq(M), s # <<>>, NEW R, NEW T, NEW S, NEW R2, LinkOK(s, R, T, S),
         R \subseteq R2, R2 \subseteq Introductions,
         \A p \in R2 : p \in R \/ Head(s) = Probing!ProbeMessage(p),
         \A p \in S : Head(s) = Probing!ProbeMessage(p) => p \in R2 \cup T,
         S \subseteq Introductions
  PROVE  LinkOK(Tail(s), R2, T, S)
<1>1. \A p : /\ Has(Tail(s), p) => Has(s, p)
             /\ Has(s, p) => Head(s) = Probing!ProbeMessage(p) \/ Has(Tail(s), p)
             /\ Head(s) = Probing!ProbeMessage(p) => Has(s, p)
  BY HasTail
<1>2. \A p \in Introductions : Head(s) = Probing!ProbeMessage(p) => p \in R2 \cup T
  BY <1>1 DEF LinkOK
<1>3. Covered(Tail(s), R2 \cup T)
  <2> DEFINE P == R \cup T
             Q == R2 \cup T
  <2>1. Covered(s, P) /\ P \subseteq Q /\ \A p \in Introductions : Head(s) = Probing!ProbeMessage(p) => p \in Q
    BY <1>2 DEF LinkOK
  <2> HIDE DEF P, Q
  <2>2. Covered(Tail(s), Q)
    BY <2>1, CoveredTail
  <2> QED
    BY <2>2 DEF Q
<1>4. R2 \subseteq S
  <2> SUFFICES ASSUME NEW p \in R2 PROVE p \in S
    OBVIOUS
  <2> QED
    BY <1>1 DEF LinkOK
<1>5. \A p \in Introductions : Has(Tail(s), p) => p \in S
  BY <1>1 DEF LinkOK
<1>6. \A p \in S : p \in R2 \cup T \/ Has(Tail(s), p)
  BY <1>1 DEF LinkOK
<1> QED
  BY <1>3, <1>4, <1>5, <1>6 DEF LinkOK

(* Messages u are sent: the probes in them are those that are sent more, and the traces
   are about probes that have been exchanged or are under way. *)
LEMMA LinkSend ==
  ASSUME NEW M, NEW s \in Seq(M), NEW u \in Seq(M), NEW R, NEW T, NEW S, NEW T2, NEW S2,
         LinkOK(s, R, T, S), T \subseteq T2, S \subseteq S2, S2 \subseteq Introductions,
         \A p \in Introductions : Has(u, p) => p \in S2,
         \A p \in S2 : p \in S \/ Has(u, p),
         \A i \in 1..Len(u) : \A t \in Traces, leg \in Nodes :
           u[i] = TraceMessage(t, leg) => t[1] \in R \cup T \/ Has(s, t[1])
  PROVE  LinkOK(s \o u, R, T2, S2)
<1>1. \A p : Has(s \o u, p) <=> Has(s, p) \/ Has(u, p)
  BY HasConcat
<1>2. Covered(s \o u, R \cup T2)
  <2> DEFINE P == R \cup T
             Q == R \cup T2
  <2>1. /\ Covered(s, P) /\ P \subseteq Q
        /\ \A i \in 1..Len(u) : \A t \in Traces, leg \in Nodes :
             u[i] = TraceMessage(t, leg) => t[1] \in Q \/ Has(s, t[1])
    BY DEF LinkOK
  <2> HIDE DEF P, Q
  <2>2. Covered(s \o u, Q)
    BY <2>1, CoveredConcat
  <2> QED
    BY <2>2 DEF Q
<1>3. R \subseteq S2 /\ \A p \in Introductions : Has(s \o u, p) => p \in S2
  BY <1>1 DEF LinkOK
<1>4. \A p \in S2 : p \in R \cup T2 \/ Has(s \o u, p)
  BY <1>1 DEF LinkOK
<1> QED
  BY <1>2, <1>3, <1>4 DEF LinkOK

-----------------------------------------------------------------------------
(***************************************************************************)
(* All links, when a node takes a message and when it sends some.          *)
(***************************************************************************)
Wires == NetworksOf(Nodes, Wire)

(* The probes that y has recorded in r for x. *)
Crossed(r, y, x) == {p \in Introductions : x \in r[y][p]}

Links(net, fr, tt) ==
  \A x, y \in Nodes :
    LinkOK(net[x][y], Crossed(fr, y, x), Crossed(tt, y, x), Crossed(tt, x, y))

LEMMA WiresFacts ==
  ASSUME NEW net \in Wires, NEW m \in Nodes, NEW n \in Nodes
  PROVE  /\ net[m][n] \in Seq(Wire)
         /\ net[m][n] # <<>> =>
              /\ FirstTaken(net, m, n) \in Wires
              /\ \A x, y \in Nodes :
                   FirstTaken(net, m, n)[x][y] = IF x = m /\ y = n THEN Tail(net[m][n]) ELSE net[x][y]
<1>1. net \in [Nodes -> [Nodes -> Seq(Wire)]]
  BY DEF Wires, NetworksOf
<1>2. ASSUME net[m][n] # <<>> PROVE Tail(net[m][n]) \in Seq(Wire)
  <2>1. net[m][n] \in Seq(Wire)
    BY <1>1
  <2> QED
    BY <1>2, <2>1
<1> QED
  BY <1>1, <1>2 DEF FirstTaken, Wires, NetworksOf

LEMMA MoreFacts ==
  ASSUME NEW net \in Wires, NEW n \in Nodes, NEW more \in SendingsOf(Nodes, Wire)
  PROVE  /\ MoreSent(Nodes, net, n, more) \in Wires
         /\ \A f \in Nodes : more[f] \in Seq(Wire)
         /\ \A x, y \in Nodes :
              MoreSent(Nodes, net, n, more)[x][y] = IF x = n THEN net[n][y] \o more[y] ELSE net[x][y]
<1>1. net \in [Nodes -> [Nodes -> Seq(Wire)]] /\ more \in [Nodes -> Seq(Wire)]
  BY DEF Wires, NetworksOf, SendingsOf
<1>2. \A f \in Nodes : net[n][f] \in Seq(Wire) /\ more[f] \in Seq(Wire)
  BY <1>1
<1>3. \A f \in Nodes : net[n][f] \o more[f] \in Seq(Wire)
  BY <1>2
<1> QED
  BY <1>1, <1>2, <1>3 DEF MoreSent, Wires, NetworksOf

(* n takes the oldest message of m. *)
LEMMA TakeLinks ==
  ASSUME NEW net \in Wires, NEW m \in Nodes, NEW n \in Nodes, net[m][n] # <<>>,
         NEW fr, NEW fr2, NEW tt, Links(net, fr, tt),
         \A x, y \in Nodes, p \in Introductions : x \in fr[y][p] => x \in fr2[y][p],
         \A x, y \in Nodes, p \in Introductions :
           x \in fr2[y][p] =>
             x \in fr[y][p] \/ (x = m /\ y = n /\ Head(net[m][n]) = Probing!ProbeMessage(p)),
         \A p \in Introductions :
           Head(net[m][n]) = Probing!ProbeMessage(p) => m \in fr2[n][p] \cup tt[n][p]
  PROVE  FirstTaken(net, m, n) \in Wires /\ Links(FirstTaken(net, m, n), fr2, tt)
<1> DEFINE after == FirstTaken(net, m, n)
<1>1. /\ after \in Wires /\ net[m][n] \in Seq(Wire)
      /\ \A x, y \in Nodes : after[x][y] = IF x = m /\ y = n THEN Tail(net[m][n]) ELSE net[x][y]
  BY WiresFacts
<1> HIDE DEF after
<1> SUFFICES ASSUME NEW x \in Nodes, NEW y \in Nodes
             PROVE  LinkOK(after[x][y], Crossed(fr2, y, x), Crossed(tt, y, x), Crossed(tt, x, y))
  BY <1>1 DEF Links, after
<1>2. LinkOK(net[x][y], Crossed(fr, y, x), Crossed(tt, y, x), Crossed(tt, x, y))
  BY DEF Links
<1>3. CASE x = m /\ y = n
  <2> DEFINE s == net[m][n]
             R == Crossed(fr, n, m)
             T == Crossed(tt, n, m)
             S == Crossed(tt, m, n)
             R2 == Crossed(fr2, n, m)
  <2>1. s \in Seq(Wire) /\ s # <<>> /\ LinkOK(s, R, T, S)
    BY <1>1, <1>2, <1>3
  <2>2. /\ R \subseteq R2 /\ R2 \subseteq Introductions /\ S \subseteq Introductions
        /\ \A p \in R2 : p \in R \/ Head(s) = Probing!ProbeMessage(p)
        /\ \A p \in S : Head(s) = Probing!ProbeMessage(p) => p \in R2 \cup T
    BY DEF Crossed
  <2> HIDE DEF s, R, T, S, R2
  <2>3. LinkOK(Tail(s), R2, T, S)
    BY <2>1, <2>2, LinkTake
  <2> QED
    BY <1>1, <1>3, <2>3 DEF s, R2, T, S
<1>4. CASE ~(x = m /\ y = n)
  <2>1. after[x][y] = net[x][y]
    BY <1>1, <1>4
  <2>2. Crossed(fr2, y, x) = Crossed(fr, y, x)
    BY <1>4 DEF Crossed
  <2> QED
    BY <1>2, <2>1, <2>2
<1> QED
  BY <1>3, <1>4

(* n sends more[f] to each f: what it sends of probes it records, and traces only about
   probes that it has exchanged with f. *)
LEMMA SendLinks ==
  ASSUME NEW net \in Wires, NEW n \in Nodes, NEW more \in SendingsOf(Nodes, Wire),
         NEW fr, NEW tt, NEW tt2, Links(net, fr, tt),
         \A x, y \in Nodes, p \in Introductions :
           x \in tt2[y][p] <=> x \in tt[y][p] \/ (y = n /\ Has(more[x], p)),
         \A f \in Nodes : \A i \in 1..Len(more[f]) : \A t \in Traces, leg \in Nodes :
           more[f][i] = TraceMessage(t, leg) => f \in fr[n][t[1]] \cup tt[n][t[1]]
  PROVE  MoreSent(Nodes, net, n, more) \in Wires /\ Links(MoreSent(Nodes, net, n, more), fr, tt2)
<1> DEFINE after == MoreSent(Nodes, net, n, more)
<1>1. /\ after \in Wires
      /\ \A f \in Nodes : more[f] \in Seq(Wire)
      /\ \A x, y \in Nodes : after[x][y] = IF x = n THEN net[n][y] \o more[y] ELSE net[x][y]
  BY MoreFacts
<1> HIDE DEF after
<1> SUFFICES ASSUME NEW x \in Nodes, NEW y \in Nodes
             PROVE  LinkOK(after[x][y], Crossed(fr, y, x), Crossed(tt2, y, x), Crossed(tt2, x, y))
  BY <1>1 DEF Links, after
<1>2. LinkOK(net[x][y], Crossed(fr, y, x), Crossed(tt, y, x), Crossed(tt, x, y))
  BY DEF Links
<1>3. /\ Crossed(tt, y, x) \subseteq Crossed(tt2, y, x) /\ Crossed(tt, x, y) \subseteq Crossed(tt2, x, y)
      /\ Crossed(tt2, x, y) \subseteq Introductions
  BY DEF Crossed
<1>4. CASE x = n
  <2> DEFINE s == net[n][y]
             u == more[y]
             R == Crossed(fr, y, n)
             T == Crossed(tt, y, n)
             S == Crossed(tt, n, y)
             T2 == Crossed(tt2, y, n)
             S2 == Crossed(tt2, n, y)
  <2>1. s \in Seq(Wire) /\ u \in Seq(Wire)
    BY <1>1, WiresFacts
  <2>2. LinkOK(s, R, T, S) /\ T \subseteq T2 /\ S \subseteq S2 /\ S2 \subseteq Introductions
    BY <1>2, <1>3, <1>4
  <2>3. /\ \A p \in Introductions : Has(u, p) => p \in S2
        /\ \A p \in S2 : p \in S \/ Has(u, p)
    BY DEF Crossed
  <2>4. ASSUME NEW i \in 1..Len(u), NEW t \in Traces, NEW leg \in Nodes, u[i] = TraceMessage(t, leg)
        PROVE  t[1] \in R \cup T \/ Has(s, t[1])
    <3>1. t[1] \in Introductions /\ y \in fr[n][t[1]] \cup tt[n][t[1]]
      BY <2>4, MessageFacts
    <3>2. CASE y \in tt[n][t[1]]
      <4>1. t[1] \in S
        BY <3>1, <3>2 DEF Crossed
      <4> QED
        BY <2>2, <4>1 DEF LinkOK
    <3>3. CASE y \in fr[n][t[1]]
      <4>1. LinkOK(net[y][n], Crossed(fr, n, y), Crossed(tt, n, y), Crossed(tt, y, n))
        BY DEF Links
      <4>2. t[1] \in Crossed(fr, n, y)
        BY <3>1, <3>3 DEF Crossed
      <4>3. t[1] \in T
        BY <4>1, <4>2 DEF LinkOK
      <4> QED
        BY <4>3
    <3> QED
      BY <3>1, <3>2, <3>3
  <2>5. \A i \in 1..Len(u) : \A t \in Traces, leg \in Nodes :
          u[i] = TraceMessage(t, leg) => t[1] \in R \cup T \/ Has(s, t[1])
    BY <2>4
  <2> HIDE DEF s, u, R, T, S, T2, S2
  <2>6. LinkOK(s \o u, R, T2, S2)
    BY <2>1, <2>2, <2>3, <2>5, LinkSend
  <2> QED
    BY <1>1, <1>4, <2>6 DEF s, u, R, T2, S2
<1>5. CASE x # n
  <2>1. after[x][y] = net[x][y] /\ Crossed(tt2, x, y) = Crossed(tt, x, y)
    BY <1>1, <1>5 DEF Crossed
  <2> DEFINE s == net[x][y]
             P == Crossed(fr, y, x) \cup Crossed(tt, y, x)
             Q == Crossed(fr, y, x) \cup Crossed(tt2, y, x)
  <2>2. Covered(s, P) /\ P \subseteq Q
    BY <1>2, <1>3 DEF LinkOK
  <2> HIDE DEF s, P, Q
  <2>3. Covered(s, Q)
    BY <2>2 DEF Covered
  <2> QED
    BY <1>2, <1>3, <2>1, <2>3 DEF LinkOK, s, Q
<1> QED
  BY <1>4, <1>5

-----------------------------------------------------------------------------
(***************************************************************************)
(* What is sent.                                                           *)
(***************************************************************************)

(* The message goes to one friend. *)
LEMMA SentMore ==
  ASSUME NEW net \in Wires, NEW n \in Nodes, NEW f \in Nodes, NEW messages \in Seq(Wire)
  PROVE  \E more \in SendingsOf(Nodes, Wire) :
           /\ Probing!Sent(net, n, f, messages) = MoreSent(Nodes, net, n, more)
           /\ more[f] = messages
           /\ \A g \in Nodes \ {f} : more[g] = <<>>
<1> DEFINE more == [g \in Nodes |-> IF g = f THEN messages ELSE <<>>]
<1>1. more \in SendingsOf(Nodes, Wire) /\ more[f] = messages /\ \A g \in Nodes \ {f} : more[g] = <<>>
  BY DEF SendingsOf
<1>2. net[n] \in [Nodes -> Seq(Wire)]
  BY DEF Wires, NetworksOf
<1>3. \A g \in Nodes : net[n][g] \o <<>> = net[n][g]
  BY <1>2
<1>4. [g \in Nodes |-> net[n][g] \o more[g]] = [net[n] EXCEPT ![f] = @ \o messages]
  BY <1>2, <1>3
<1>5. Probing!Sent(net, n, f, messages) = MoreSent(Nodes, net, n, more)
  BY <1>4 DEF Wires, NetworksOf, MoreSent, Probing!Sent
<1> QED
  BY <1>1, <1>5

(* No message has no probe and no trace. *)
LEMMA HasNone == \A p : ~ Has(<<>>, p)
BY DEF Has

(* One friend is sent messages of the probes engine. *)
LEMMA SentLinks ==
  ASSUME NEW net \in Wires, NEW n \in Nodes, NEW f \in Nodes, NEW messages \in Seq(Probing!Messages),
         NEW fr, NEW tt, NEW tt2, Links(net, fr, tt),
         \A x, y \in Nodes, p \in Introductions :
           x \in tt2[y][p] <=> x \in tt[y][p] \/ (y = n /\ x = f /\ Has(messages, p))
  PROVE  Probing!Sent(net, n, f, messages) \in Wires /\ Links(Probing!Sent(net, n, f, messages), fr, tt2)
<1>1. messages \in Seq(Wire) /\ \A i \in 1..Len(messages) : messages[i] \notin TraceMessages
  <2>1. \A i \in 1..Len(messages) : messages[i] \in Probing!Messages
    OBVIOUS
  <2> QED
    BY <2>1, MessageFacts DEF Wire
<1>2. PICK more \in SendingsOf(Nodes, Wire) :
        /\ Probing!Sent(net, n, f, messages) = MoreSent(Nodes, net, n, more)
        /\ more[f] = messages
        /\ \A g \in Nodes \ {f} : more[g] = <<>>
  BY <1>1, SentMore
<1>3. ASSUME NEW x \in Nodes, NEW y \in Nodes, NEW p \in Introductions
      PROVE  x \in tt2[y][p] <=> x \in tt[y][p] \/ (y = n /\ Has(more[x], p))
  <2>1. CASE x = f
    BY <1>2, <2>1
  <2>2. CASE x # f
    BY <1>2, <2>2, HasNone
  <2> QED
    BY <2>1, <2>2
<1>4. ASSUME NEW g \in Nodes, NEW i \in 1..Len(more[g]), NEW t \in Traces, NEW leg \in Nodes,
             more[g][i] = TraceMessage(t, leg)
      PROVE  FALSE
  <2>1. CASE g = f
    BY <1>1, <1>2, <1>4, <2>1 DEF TraceMessages
  <2>2. CASE g # f
    <3>1. more[g] = <<>>
      BY <1>2, <2>2
    <3> QED
      BY <3>1
  <2> QED
    BY <2>1, <2>2
<1>5. MoreSent(Nodes, net, n, more) \in Wires /\ Links(MoreSent(Nodes, net, n, more), fr, tt2)
  BY <1>3, <1>4, SendLinks
<1> QED
  BY <1>2, <1>5

(* Traces are sent to some friends. *)
LEMMA BroadcastLinks ==
  ASSUME NEW net \in Wires, NEW n \in Nodes, NEW friends, NEW trace \in [friends -> TraceMessages],
         NEW fr, NEW tt, Links(net, fr, tt),
         \A f \in friends \cap Nodes : f \in fr[n][trace[f].trace[1]] \cup tt[n][trace[f].trace[1]]
  PROVE  Broadcast(net, n, trace) \in Wires /\ Links(Broadcast(net, n, trace), fr, tt)
<1> DEFINE more == [f \in Nodes |-> IF f \in friends THEN <<trace[f]>> ELSE <<>>]
<1>1. more \in SendingsOf(Nodes, Wire)
  <2>1. \A f \in Nodes : f \in friends => trace[f] \in Wire
    BY DEF Wire
  <2>2. \A f \in Nodes : (IF f \in friends THEN <<trace[f]>> ELSE <<>>) \in Seq(Wire)
    BY <2>1
  <2> QED
    BY <2>2 DEF SendingsOf
<1>2. ASSUME NEW g \in Nodes, NEW i \in 1..Len(more[g])
      PROVE  g \in friends /\ more[g][i] = trace[g] /\ trace[g] \in TraceMessages
  <2>1. CASE g \in friends
    BY <1>2, <2>1
  <2>2. CASE g \notin friends
    BY <1>2, <2>2
  <2> QED
    BY <2>1, <2>2
<1>3. Broadcast(net, n, trace) = MoreSent(Nodes, net, n, more)
  <2>1. ASSUME NEW f \in Nodes
        PROVE  (IF f \in DOMAIN trace THEN Append(net[n][f], trace[f]) ELSE net[n][f])
                 = net[n][f] \o more[f]
    <3>1. net[n][f] \in Seq(Wire) /\ DOMAIN trace = friends
      BY WiresFacts
    <3>2. CASE f \in friends
      <4>1. trace[f] \in Wire
        BY <3>2 DEF Wire
      <4> QED
        BY <3>1, <3>2, <4>1
    <3>3. CASE f \notin friends
      BY <3>1, <3>3
    <3> QED
      BY <3>2, <3>3
  <2>2. [f \in Nodes |-> IF f \in DOMAIN trace THEN Append(net[n][f], trace[f]) ELSE net[n][f]]
          = [f \in Nodes |-> net[n][f] \o more[f]]
    BY <2>1
  <2> QED
    BY <2>2 DEF Broadcast, MoreSent
<1> HIDE DEF more
<1>4. ASSUME NEW x \in Nodes, NEW p \in Introductions
      PROVE  ~ Has(more[x], p)
  BY <1>2, MessageFacts DEF Has
<1>5. ASSUME NEW g \in Nodes, NEW i \in 1..Len(more[g]), NEW t \in Traces, NEW leg \in Nodes,
             more[g][i] = TraceMessage(t, leg)
      PROVE  g \in fr[n][t[1]] \cup tt[n][t[1]]
  <2>1. g \in friends \cap Nodes /\ trace[g] = TraceMessage(t, leg)
    BY <1>2, <1>5
  <2>2. trace[g].trace = t
    BY <2>1, MessageFacts
  <2> QED
    BY <2>1, <2>2
<1>6. \A x, y \in Nodes, p \in Introductions :
        x \in tt[y][p] <=> x \in tt[y][p] \/ (y = n /\ Has(more[x], p))
  BY <1>4
<1>7. MoreSent(Nodes, net, n, more) \in Wires /\ Links(MoreSent(Nodes, net, n, more), fr, tt)
  BY <1>1, <1>5, <1>6, SendLinks
<1> QED
  BY <1>3, <1>7

(* The probes of S are sent in some order. *)
LEMMA BurstFacts ==
  ASSUME NEW S \in SUBSET Introductions
  PROVE  /\ Probing!Burst(S) \in Seq(Probing!Messages)
         /\ \A p \in Introductions : Has(Probing!Burst(S), p) <=> p \in S
<1>1. IsFiniteSet(S)
  <2>1. IsFiniteSet(Nodes \X Nodes)
    BY NetworkAssumption, FS_Product
  <2> QED
    BY <2>1, NetworkAssumption, FS_Subset
<1> DEFINE k == Cardinality(S)
           order == Probing!AnOrder(S)
<1>2. k \in Nat /\ ExistsBijection(1..k, S)
  BY <1>1, FS_CardinalityType
<1>3. Probing!Cardinality(S) = k
  BY DEF Probing!Cardinality, Cardinality
<1>4. PICK g \in [1..k -> S] : \A a, b \in 1..k : g[a] = g[b] => a = b
  BY <1>2 DEF ExistsBijection, Bijection, Injection, IsInjective
<1>5. order \in [1..k -> S] /\ \A a, b \in 1..k : order[a] = order[b] => a = b
  <2> HIDE DEF k
  <2>1. Probing!IsInjective(g)
    BY <1>4 DEF Probing!IsInjective
  <2>2. order \in [1..k -> S] /\ Probing!IsInjective(order)
    BY <1>3, <1>4, <2>1 DEF Probing!AnOrder, Probing!Orders, Probing!Injection
  <2> QED
    BY <2>2 DEF Probing!IsInjective
<1>6. \A p \in S : \E i \in 1..k : order[i] = p
  <2>1. order \in Injection(1..k, S)
    <3> HIDE DEF k, order
    <3> QED
      BY <1>5 DEF Injection, IsInjective
  <2>2. IsFiniteSet(1..k) /\ Cardinality(1..k) = k
    <3> HIDE DEF k
    <3> QED
      BY <1>2, FS_Interval
  <2> HIDE DEF order
  <2>3. order \in Surjection(1..k, S)
    BY <1>1, <2>1, <2>2, FS_Injection
  <2> QED
    BY <2>3 DEF Surjection
<1>7. Probing!Burst(S) = [i \in 1..k |-> Probing!ProbeMessage(order[i])]
  BY <1>3 DEF Probing!Burst
<1> HIDE DEF k, order
<1>8. \A i \in 1..k : Probing!ProbeMessage(order[i]) \in Probing!Messages
  BY <1>5 DEF Probing!Messages, Probing!Probes
<1>9. Probing!Burst(S) \in Seq(Probing!Messages) /\ Len(Probing!Burst(S)) = k
  BY <1>2, <1>7, <1>8
<1>10. ASSUME NEW p \in Introductions PROVE Has(Probing!Burst(S), p) <=> p \in S
  <2>1. ASSUME Has(Probing!Burst(S), p) PROVE p \in S
    <3>1. PICK i \in 1..k : Probing!Burst(S)[i] = Probing!ProbeMessage(p)
      BY <1>9, <2>1 DEF Has
    <3>2. Probing!ProbeMessage(order[i]) = Probing!ProbeMessage(p)
      BY <1>7, <3>1
    <3>3. order[i] = p
      BY <3>2, MessageFacts
    <3> QED
      BY <1>5, <3>3
  <2>2. ASSUME p \in S PROVE Has(Probing!Burst(S), p)
    <3>1. PICK i \in 1..k : order[i] = p
      BY <1>6, <2>2
    <3>2. Probing!Burst(S)[i] = Probing!ProbeMessage(p)
      BY <1>7, <3>1
    <3> QED
      BY <1>9, <3>2 DEF Has
  <2> QED
    BY <2>1, <2>2
<1> QED
  BY <1>9, <1>10

LEMMA QueuedFacts ==
  ASSUME NEW n \in Nodes, NEW status, NEW queued \in [Nodes -> SUBSET Introductions], NEW f \in Nodes,
         offer \in [Nodes -> [Nodes -> SUBSET Introductions]]
  PROVE  /\ Probing!Queued(n, status, queued, f) \in Seq(Probing!Messages)
         /\ \A p \in Introductions :
              Has(Probing!Queued(n, status, queued, f), p) <=> p \in Probing!Flushed(n, status, queued, f)
<1> DEFINE S == Probing!Flushed(n, status, queued, f)
           burst == Probing!Burst(S)
           hail == IF Probing!Raises(status, queued, f) THEN <<Probing!HaveProbes>> ELSE <<>>
<1>1. S \in SUBSET Introductions
  BY DEF Probing!Flushed, Probing!Virgin
<1>2. burst \in Seq(Probing!Messages) /\ \A p \in Introductions : Has(burst, p) <=> p \in S
  <2> HIDE DEF S
  <2> QED
    BY <1>1, BurstFacts
<1>3. Probing!HaveProbes \in Probing!Messages
  BY DEF Probing!Messages
<1>4. hail \in Seq(Probing!Messages) /\ \A p : ~ Has(hail, p)
  <2>1. CASE Probing!Raises(status, queued, f)
    <3>1. hail = <<Probing!HaveProbes>>
      BY <2>1
    <3>2. \A p : ~ Has(<<Probing!HaveProbes>>, p)
      BY MessageFacts DEF Has
    <3> QED
      BY <1>3, <3>1, <3>2
  <2>2. CASE ~ Probing!Raises(status, queued, f)
    BY <2>2, HasNone
  <2> QED
    BY <2>1, <2>2
<1>5. Probing!Queued(n, status, queued, f) = burst \o hail
  BY DEF Probing!Queued
<1> HIDE DEF burst, hail, S
<1>6. burst \o hail \in Seq(Probing!Messages)
  BY <1>2, <1>4
<1>7. \A p : Has(burst \o hail, p) <=> Has(burst, p) \/ Has(hail, p)
  BY <1>2, <1>4, HasConcat
<1> QED
  BY <1>2, <1>4, <1>5, <1>6, <1>7 DEF S

(* The records of the nodes. *)
Tables == [Nodes -> [Introductions -> SUBSET Nodes]]

LEMMA QueueLinks ==
  ASSUME NEW n \in Nodes, NEW status, NEW net \in Wires,
         NEW queued \in [Nodes -> SUBSET Introductions],
         offer \in [Nodes -> [Nodes -> SUBSET Introductions]], to \in Tables,
         NEW fr, Links(net, fr, to), Probing!QueueProbes(n, status, queued, net)
  PROVE  /\ network' \in Wires /\ Links(network', fr, to')
         /\ offer' \in [Nodes -> [Nodes -> SUBSET Introductions]] /\ to' \in Tables
         /\ \A y \in Nodes, p \in Introductions : to[y][p] \subseteq to'[y][p]
<1> DEFINE more == [f \in Nodes |-> Probing!Queued(n, status, queued, f)]
<1>1. \A f \in Nodes :
        /\ more[f] \in Seq(Probing!Messages) /\ more[f] \in Seq(Wire)
        /\ \A p \in Introductions : Has(more[f], p) <=> p \in Probing!Flushed(n, status, queued, f)
  <2> SUFFICES ASSUME NEW f \in Nodes
               PROVE  /\ more[f] \in Seq(Probing!Messages) /\ more[f] \in Seq(Wire)
                      /\ \A p \in Introductions : Has(more[f], p) <=> p \in Probing!Flushed(n, status, queued, f)
    OBVIOUS
  <2>1. /\ more[f] \in Seq(Probing!Messages)
        /\ \A p \in Introductions : Has(more[f], p) <=> p \in Probing!Flushed(n, status, queued, f)
    BY QueuedFacts
  <2> QED
    BY <2>1 DEF Wire
<1>2. more \in SendingsOf(Nodes, Wire)
  BY <1>1 DEF SendingsOf
<1>3. /\ network' = MoreSent(Nodes, net, n, more)
      /\ offer' = [offer EXCEPT ![n] = [f \in Nodes |-> @[f] \cup queued[f]]]
      /\ to' = [to EXCEPT ![n] = [p \in Introductions |->
                 @[p] \cup {f \in Nodes : p \in Probing!Flushed(n, status, queued, f)}]]
  BY DEF Probing!QueueProbes, MoreSent, Probing!Probes
<1> HIDE DEF more
<1>4. offer' \in [Nodes -> [Nodes -> SUBSET Introductions]]
  BY <1>3
<1>5. to' \in Tables
  BY <1>3 DEF Tables
<1>6. \A y \in Nodes, p \in Introductions :
        to'[y][p] = IF y = n THEN to[y][p] \cup {f \in Nodes : p \in Probing!Flushed(n, status, queued, f)}
                    ELSE to[y][p]
  BY <1>3 DEF Tables
<1>7. \A x, y \in Nodes, p \in Introductions :
        x \in to'[y][p] <=> x \in to[y][p] \/ (y = n /\ Has(more[x], p))
  <2> SUFFICES ASSUME NEW x \in Nodes, NEW y \in Nodes, NEW p \in Introductions
               PROVE  x \in to'[y][p] <=> x \in to[y][p] \/ (y = n /\ Has(more[x], p))
    OBVIOUS
  <2>1. Has(more[x], p) <=> p \in Probing!Flushed(n, status, queued, x)
    BY <1>1
  <2>2. to'[y][p] = IF y = n THEN to[y][p] \cup {f \in Nodes : p \in Probing!Flushed(n, status, queued, f)}
                    ELSE to[y][p]
    BY <1>6
  <2> QED
    BY <2>1, <2>2
<1>8. ASSUME NEW f \in Nodes, NEW i \in 1..Len(more[f]), NEW t \in Traces, NEW leg \in Nodes,
             more[f][i] = TraceMessage(t, leg)
      PROVE  FALSE
  <2>1. more[f][i] \in Probing!Messages
    BY <1>1
  <2> QED
    BY <1>8, <2>1, MessageFacts DEF TraceMessages
<1>9. MoreSent(Nodes, net, n, more) \in Wires /\ Links(MoreSent(Nodes, net, n, more), fr, to')
  <2> DEFINE tt == to
             tt2 == to'
  <2>1. /\ Links(net, fr, tt)
        /\ \A x, y \in Nodes, p \in Introductions :
             x \in tt2[y][p] <=> x \in tt[y][p] \/ (y = n /\ Has(more[x], p))
        /\ \A f \in Nodes : \A i \in 1..Len(more[f]) : \A t \in Traces, leg \in Nodes :
             more[f][i] = TraceMessage(t, leg) => f \in fr[n][t[1]] \cup tt[n][t[1]]
    BY <1>7, <1>8
  <2> HIDE DEF tt, tt2
  <2>2. MoreSent(Nodes, net, n, more) \in Wires /\ Links(MoreSent(Nodes, net, n, more), fr, tt2)
    BY <1>2, <2>1, SendLinks
  <2> QED
    BY <2>2 DEF tt2
<1> QED
  BY <1>3, <1>4, <1>5, <1>6, <1>9

-----------------------------------------------------------------------------
(***************************************************************************)
(* The steps of the probes engine.                                         *)
(***************************************************************************)
Base ==
  /\ network \in Wires
  /\ known \in [Nodes -> SUBSET Introductions]
  /\ from \in Tables
  /\ to \in Tables
  /\ offer \in [Nodes -> [Nodes -> SUBSET Introductions]]
  /\ Links(network, from, to)

(* Nothing is struck from the records. *)
Grows ==
  \A y \in Nodes, p \in Introductions : from[y][p] \subseteq from'[y][p] /\ to[y][p] \subseteq to'[y][p]

(* n takes a message that changes no record. *)
LEMMA TakenSame ==
  ASSUME Base, NEW m \in Nodes, NEW n \in Nodes, NEW message, Probing!Arrives(m, n, message),
         \A p \in Introductions : message = Probing!ProbeMessage(p) => m \in from[n][p] \cup to[n][p]
  PROVE  Probing!Taken(m, n) \in Wires /\ Links(Probing!Taken(m, n), from, to)
<1> DEFINE net == network
           fr == from
           tt == to
<1>1. net \in Wires /\ Links(net, fr, tt) /\ net[m][n] # <<>> /\ Head(net[m][n]) = message
  BY DEF Base, Probing!Arrives
<1>2. \A p \in Introductions : Head(net[m][n]) = Probing!ProbeMessage(p) => m \in fr[n][p] \cup tt[n][p]
  BY <1>1
<1> HIDE DEF net, fr, tt
<1>3. FirstTaken(net, m, n) \in Wires /\ Links(FirstTaken(net, m, n), fr, tt)
  BY <1>1, <1>2, TakeLinks
<1> QED
  BY <1>3 DEF net, fr, tt, FirstTaken, Probing!Taken

(* n takes a probe and records its sender. *)
LEMMA TakenProbe ==
  ASSUME Base, NEW m \in Nodes, NEW n \in Nodes, NEW p \in Introductions,
         Probing!Arrives(m, n, Probing!ProbeMessage(p)),
         from' = [from EXCEPT ![n][p] = @ \cup {m}]
  PROVE  /\ Probing!Taken(m, n) \in Wires /\ Links(Probing!Taken(m, n), from', to)
         /\ from' \in Tables
         /\ \A y \in Nodes, q \in Introductions : from[y][q] \subseteq from'[y][q]
<1> DEFINE net == network
           fr == from
           fr2 == from'
           tt == to
<1>1. net \in Wires /\ Links(net, fr, tt) /\ net[m][n] # <<>> /\ Head(net[m][n]) = Probing!ProbeMessage(p)
  BY DEF Base, Probing!Arrives
<1>2. /\ fr2 \in Tables
      /\ \A y \in Nodes, q \in Introductions :
           fr2[y][q] = IF y = n /\ q = p THEN fr[y][q] \cup {m} ELSE fr[y][q]
  <2>1. fr \in Tables /\ fr2 = [fr EXCEPT ![n][p] = @ \cup {m}]
    BY DEF Base
  <2> HIDE DEF fr, fr2
  <2>2. fr[n][p] \cup {m} \in SUBSET Nodes
    BY <2>1 DEF Tables
  <2> QED
    BY <2>1, <2>2 DEF Tables
<1> HIDE DEF net, fr, fr2, tt
<1>3. \A x, y \in Nodes, q \in Introductions : x \in fr[y][q] => x \in fr2[y][q]
  BY <1>2
<1>4. \A x, y \in Nodes, q \in Introductions :
        x \in fr2[y][q] => x \in fr[y][q] \/ (x = m /\ y = n /\ Head(net[m][n]) = Probing!ProbeMessage(q))
  BY <1>1, <1>2
<1>5. \A q \in Introductions : Head(net[m][n]) = Probing!ProbeMessage(q) => m \in fr2[n][q] \cup tt[n][q]
  BY <1>1, <1>2, MessageFacts
<1>6. FirstTaken(net, m, n) \in Wires /\ Links(FirstTaken(net, m, n), fr2, tt)
  BY <1>1, <1>3, <1>4, <1>5, TakeLinks
<1>7. \A y \in Nodes, q \in Introductions : fr[y][q] \subseteq fr2[y][q]
  BY <1>2
<1> QED
  BY <1>2, <1>6, <1>7 DEF net, fr, fr2, tt, FirstTaken, Probing!Taken

(* The messages that open a sequence of their own. *)
LEMMA Signals ==
  /\ <<Probing!MeetMessage>> \in Seq(Probing!Messages) /\ \A p : ~ Has(<<Probing!MeetMessage>>, p)
  /\ <<Probing!OkayToSendProbes>> \in Seq(Probing!Messages)
  /\ \A p : ~ Has(<<Probing!OkayToSendProbes>>, p)
<1>1. Probing!MeetMessage \in Probing!Messages /\ Probing!OkayToSendProbes \in Probing!Messages
  BY DEF Probing!Messages
<1> QED
  BY <1>1, MessageFacts DEF Has

LEMMA MeetBase ==
  ASSUME Base, NEW a \in Nodes, NEW b \in Nodes, Probing!Meet(a, b)
  PROVE  Base' /\ Grows
<1> DEFINE queued == [f \in Nodes |-> IF f = b THEN known[a] \cup {<<a, b>>}
                        ELSE IF f \in Probing!Friends(a) THEN {<<a, b>>} ELSE {}]
           hail == <<Probing!MeetMessage>>
           net == Probing!Sent(network, a, b, hail)
           status == [hand[a] EXCEPT ![b] = "talking"]
<1>1. <<a, b>> \in Introductions /\ known[a] \in SUBSET Introductions
  BY DEF Probing!Meet, Base
<1>2. queued \in [Nodes -> SUBSET Introductions]
  BY <1>1
<1>3. net \in Wires /\ Links(net, from, to)
  <2> DEFINE fr == from
             tt == to
             old == network
  <2>1. /\ old \in Wires /\ Links(old, fr, tt) /\ hail \in Seq(Probing!Messages)
        /\ \A p : ~ Has(hail, p)
    BY Signals DEF Base
  <2> HIDE DEF fr, tt, hail, old
  <2>2. \A x, y \in Nodes, p \in Introductions :
          x \in tt[y][p] <=> x \in tt[y][p] \/ (y = a /\ x = b /\ Has(hail, p))
    BY <2>1
  <2>3. Probing!Sent(old, a, b, hail) \in Wires /\ Links(Probing!Sent(old, a, b, hail), fr, tt)
    BY <2>1, <2>2, SentLinks
  <2> QED
    BY <2>3 DEF fr, tt, old
<1>4. /\ Probing!QueueProbes(a, status, queued, net)
      /\ known' = [known EXCEPT ![a] = @ \cup {<<a, b>>}]
      /\ from' = from
  BY DEF Probing!Meet
<1> HIDE DEF queued, net, status
<1>5. /\ network' \in Wires /\ Links(network', from, to')
      /\ offer' \in [Nodes -> [Nodes -> SUBSET Introductions]] /\ to' \in Tables
      /\ \A y \in Nodes, p \in Introductions : to[y][p] \subseteq to'[y][p]
  BY <1>2, <1>3, <1>4, QueueLinks DEF Base
<1>6. known' \in [Nodes -> SUBSET Introductions]
  BY <1>1, <1>4 DEF Base
<1> QED
  BY <1>4, <1>5, <1>6 DEF Base, Grows

LEMMA ProbesBase ==
  ASSUME Base, NEW m \in Nodes, NEW n \in Nodes, HandleProbes(m, n)
  PROVE  Base' /\ Grows
<1>1. CASE Probing!HandleMeet(m, n)
  <2> DEFINE queued == [f \in Nodes |-> IF f = m THEN known[n] ELSE {}]
             net == Probing!Taken(m, n)
             status == [hand[n] EXCEPT ![m] = "listening"]
  <2>1. queued \in [Nodes -> SUBSET Introductions]
    BY DEF Base
  <2>2. net \in Wires /\ Links(net, from, to)
    BY <1>1, TakenSame, MessageFacts DEF Probing!HandleMeet
  <2>3. Probing!QueueProbes(n, status, queued, net) /\ known' = known /\ from' = from
    BY <1>1 DEF Probing!HandleMeet
  <2> HIDE DEF queued, net, status
  <2>4. /\ network' \in Wires /\ Links(network', from, to')
        /\ offer' \in [Nodes -> [Nodes -> SUBSET Introductions]] /\ to' \in Tables
        /\ \A y \in Nodes, p \in Introductions : to[y][p] \subseteq to'[y][p]
    BY <2>1, <2>2, <2>3, QueueLinks DEF Base
  <2> QED
    BY <2>3, <2>4 DEF Base, Grows
<1>2. ASSUME NEW p \in Introductions, Probing!FloodNewProbe(m, n, p)
      PROVE  Base' /\ Grows
  <2> DEFINE queued == [f \in Nodes |-> IF f \in Probing!Friends(n) \ {m} THEN {p} ELSE {}]
             net == Probing!Taken(m, n)
             status == hand[n]
             fr2 == from'
  <2>1. queued \in [Nodes -> SUBSET Introductions]
    OBVIOUS
  <2>2. /\ net \in Wires /\ Links(net, fr2, to) /\ fr2 \in Tables
        /\ \A y \in Nodes, q \in Introductions : from[y][q] \subseteq fr2[y][q]
    BY <1>2, TakenProbe DEF Probing!FloodNewProbe
  <2>3. Probing!QueueProbes(n, status, queued, net) /\ known' = [known EXCEPT ![n] = @ \cup {p}]
    BY <1>2 DEF Probing!FloodNewProbe
  <2> HIDE DEF queued, net, status, fr2
  <2>4. /\ network' \in Wires /\ Links(network', fr2, to')
        /\ offer' \in [Nodes -> [Nodes -> SUBSET Introductions]] /\ to' \in Tables
        /\ \A y \in Nodes, q \in Introductions : to[y][q] \subseteq to'[y][q]
    BY <2>1, <2>2, <2>3, QueueLinks DEF Base
  <2>5. known' \in [Nodes -> SUBSET Introductions]
    BY <2>3 DEF Base
  <2> QED
    BY <2>2, <2>4, <2>5 DEF Base, Grows, fr2
<1>3. ASSUME NEW p \in Introductions, Probing!IgnoreProbe(m, n, p)
      PROVE  Base' /\ Grows
  <2>1. \A q \in Introductions : Probing!ProbeMessage(p) = Probing!ProbeMessage(q) => m \in from[n][q] \cup to[n][q]
    BY <1>3, MessageFacts DEF Probing!IgnoreProbe, Probing!Virgin
  <2>2. Probing!Taken(m, n) \in Wires /\ Links(Probing!Taken(m, n), from, to)
    BY <1>3, <2>1, TakenSame DEF Probing!IgnoreProbe
  <2> QED
    BY <1>3, <2>2 DEF Probing!IgnoreProbe, Base, Grows
<1>4. CASE Probing!HandleHaveProbes(m, n)
  <2> DEFINE net == Probing!Taken(m, n)
             hail == <<Probing!OkayToSendProbes>>
             fr == from
             tt == to
  <2>1. net \in Wires /\ Links(net, fr, tt)
    BY <1>4, TakenSame, MessageFacts DEF Probing!HandleHaveProbes
  <2>2. hail \in Seq(Probing!Messages) /\ \A p : ~ Has(hail, p)
    BY Signals
  <2>3. network' = Probing!Sent(net, n, m, hail) /\ UNCHANGED <<known, from, to, offer>>
    BY <1>4 DEF Probing!HandleHaveProbes
  <2> HIDE DEF net, hail, fr, tt
  <2>4. \A x, y \in Nodes, p \in Introductions :
          x \in tt[y][p] <=> x \in tt[y][p] \/ (y = n /\ x = m /\ Has(hail, p))
    BY <2>2
  <2>5. Probing!Sent(net, n, m, hail) \in Wires /\ Links(Probing!Sent(net, n, m, hail), fr, tt)
    BY <2>1, <2>2, <2>4, SentLinks
  <2> QED
    BY <2>3, <2>5 DEF Base, Grows, fr, tt
<1>5. CASE Probing!HandleOkayToSendProbes(m, n)
  <2> DEFINE net == Probing!Taken(m, n)
             flushed == Probing!Virgin(n, m, offer[n][m])
             burst == Probing!Burst(flushed)
             fr == from
             tt == to
             tt2 == to'
  <2>1. net \in Wires /\ Links(net, fr, tt)
    BY <1>5, TakenSame, MessageFacts DEF Probing!HandleOkayToSendProbes
  <2>2. flushed \in SUBSET Introductions
    BY DEF Probing!Virgin, Base
  <2>3. burst \in Seq(Probing!Messages) /\ \A p \in Introductions : Has(burst, p) <=> p \in flushed
    <3> HIDE DEF flushed
    <3> QED
      BY <2>2, BurstFacts
  <2>4. network' = Probing!Sent(net, n, m, burst) /\ UNCHANGED <<known, from, offer>>
    BY <1>5 DEF Probing!HandleOkayToSendProbes
  <2>5. /\ tt2 \in Tables
        /\ \A y \in Nodes, p \in Introductions :
             tt2[y][p] = IF y = n /\ p \in flushed THEN tt[y][p] \cup {m} ELSE tt[y][p]
    <3>1. to' = [to EXCEPT ![n] = [p \in Introductions |-> IF p \in flushed THEN @[p] \cup {m} ELSE @[p]]]
      BY <1>5 DEF Probing!HandleOkayToSendProbes, Probing!Probes
    <3> HIDE DEF flushed
    <3> QED
      BY <3>1 DEF Base, Tables
  <2> HIDE DEF net, flushed, burst, fr, tt, tt2
  <2>6. \A x, y \in Nodes, p \in Introductions :
          x \in tt2[y][p] <=> x \in tt[y][p] \/ (y = n /\ x = m /\ Has(burst, p))
    <3> SUFFICES ASSUME NEW x \in Nodes, NEW y \in Nodes, NEW p \in Introductions
                 PROVE  x \in tt2[y][p] <=> x \in tt[y][p] \/ (y = n /\ x = m /\ Has(burst, p))
      OBVIOUS
    <3>1. Has(burst, p) <=> p \in flushed
      BY <2>3
    <3>2. tt2[y][p] = IF y = n /\ p \in flushed THEN tt[y][p] \cup {m} ELSE tt[y][p]
      BY <2>5
    <3> QED
      BY <3>1, <3>2
  <2>7. Probing!Sent(net, n, m, burst) \in Wires /\ Links(Probing!Sent(net, n, m, burst), fr, tt2)
    BY <2>1, <2>3, <2>6, SentLinks
  <2>8. \A y \in Nodes, p \in Introductions : tt[y][p] \subseteq tt2[y][p]
    BY <2>5
  <2> QED
    BY <2>4, <2>5, <2>7, <2>8 DEF Base, Grows, fr, tt, tt2
<1> QED
  BY <1>1, <1>2, <1>3, <1>4, <1>5 DEF HandleProbes

-----------------------------------------------------------------------------
(***************************************************************************)
(* The steps of the traces engine.                                         *)
(***************************************************************************)
Ends(n, p) == from[n][p] \cup to[n][p]

(* A trace that arrives is about a probe that was exchanged. *)
LEMMA ArrivingFacts ==
  ASSUME Base, NEW m \in Nodes, NEW n \in Nodes, NEW message \in Arriving(m, n)
  PROVE  /\ message \in TraceMessages /\ message.trace \in Traces /\ message.leg \in Nodes
         /\ message = TraceMessage(message.trace, message.leg)
         /\ message.trace[1] \in Introductions
         /\ Probing!Arrives(m, n, message)
         /\ m \in Ends(n, message.trace[1])
<1>1. /\ message \in TraceMessages /\ message.trace \in Traces /\ message.leg \in Nodes
      /\ message = TraceMessage(message.trace, message.leg)
      /\ message.trace[1] \in Introductions
  BY MessageFacts DEF Arriving
<1>2. network[m][n] # <<>> /\ Head(network[m][n]) = message
  BY DEF Arriving
<1>3. network[m][n] \in Seq(Wire)
  BY WiresFacts DEF Base
<1>4. Len(network[m][n]) >= 1 /\ Len(network[m][n]) \in Nat /\ network[m][n][1] = message
  BY <1>2, <1>3
<1>5. Covered(network[m][n], Crossed(from, n, m) \cup Crossed(to, n, m))
  BY DEF Base, Links, LinkOK
<1>6. message.trace[1] \in Crossed(from, n, m) \cup Crossed(to, n, m)
  <2>1. 1 \in 1..Len(network[m][n]) /\ ~ \E j \in 1..(1 - 1) : TRUE
    BY <1>4
  <2> QED
    BY <1>1, <1>4, <1>5, <2>1 DEF Covered
<1> QED
  BY <1>1, <1>2, <1>6 DEF Probing!Arrives, Crossed, Ends

(* A loopback sends traces to those that the probe has come from. *)
LEMMA LoopbackBase ==
  ASSUME Base, NEW m \in Nodes, NEW n \in Nodes, NEW p \in Introductions, HandleProbeLoopback(m, n, p)
  PROVE  Base' /\ Grows
<1> DEFINE t == <<p, n, m>>
           senders == from[n][p] \cup {m}
           trace == [f \in senders |-> TraceMessage(t, f)]
           net == Probing!Taken(m, n)
           fr2 == from'
           tt == to
<1>1. /\ Probing!Arrives(m, n, Probing!ProbeMessage(p))
      /\ from' = [from EXCEPT ![n][p] = @ \cup {m}]
      /\ network' = Broadcast(net, n, trace)
      /\ UNCHANGED <<known, to, offer>>
  BY DEF HandleProbeLoopback, Probing!RecordLoopback
<1>2. /\ net \in Wires /\ Links(net, fr2, tt) /\ fr2 \in Tables
      /\ \A y \in Nodes, q \in Introductions : from[y][q] \subseteq fr2[y][q]
  BY <1>1, TakenProbe
<1>3. t \in Traces /\ t[1] = p
  BY DEF Traces
<1>4. senders \subseteq Nodes /\ senders = fr2[n][p]
  BY <1>1 DEF Base, Tables
<1>5. trace \in [senders -> TraceMessages] /\ \A f \in senders : trace[f].trace = t
  <2> HIDE DEF t, senders
  <2> QED
    BY <1>3, <1>4, MessageFacts DEF TraceMessages
<1>6. Broadcast(net, n, trace) \in Wires /\ Links(Broadcast(net, n, trace), fr2, tt)
  <2>1. \A f \in senders \cap Nodes : f \in fr2[n][trace[f].trace[1]] \cup tt[n][trace[f].trace[1]]
    <3> HIDE DEF trace, fr2, tt, t, senders
    <3> QED
      BY <1>3, <1>4, <1>5
  <2> HIDE DEF trace, net, fr2, tt, t, senders
  <2> QED
    BY <1>2, <1>5, <2>1, BroadcastLinks
<1> QED
  BY <1>1, <1>2, <1>6 DEF Base, Grows

-----------------------------------------------------------------------------
(***************************************************************************)
(* What is logged.                                                         *)
(***************************************************************************)
LogsOK ==
  /\ forwarded = [n \in Nodes |-> forwarded[n]]
  /\ \A n \in Nodes : \A t \in DOMAIN forwarded[n] :
       t \in Traces /\ forwarded[n][t] \in Seq(Legs) /\ Keys(forwarded[n][t]) \subseteq Ends(n, t[1])

LEMMA LogFacts ==
  ASSUME LogsOK, NEW n \in Nodes, NEW t \in Traces
  PROVE  Log(n, t) \in Seq(Legs) /\ Keys(Log(n, t)) \subseteq Ends(n, t[1])
<1>1. CASE t \in DOMAIN forwarded[n]
  BY <1>1 DEF LogsOK, Log
<1>2. CASE t \notin DOMAIN forwarded[n]
  <2>1. Log(n, t) = <<>> /\ Keys(<<>>) = {} /\ <<>> \in Seq(Legs)
    BY <1>2 DEF Log, Keys
  <2> QED
    BY <2>1
<1> QED
  BY <1>1, <1>2

LEMMA WritingLog ==
  ASSUME LogsOK, NEW n \in Nodes, NEW t \in Traces, NEW log \in Seq(Legs),
         Keys(log) \subseteq Ends(n, t[1]), WriteLog(n, t, log), UNCHANGED <<from, to>>
  PROVE  LogsOK'
<1>1. /\ forwarded' = [x \in Nodes |-> forwarded'[x]]
      /\ forwarded'[n] = [u \in DOMAIN forwarded[n] \cup {t} |-> IF u = t THEN log ELSE forwarded[n][u]]
      /\ \A x \in Nodes \ {n} : forwarded'[x] = forwarded[x]
  BY DEF LogsOK, WriteLog
<1>2. \A x \in Nodes : \A p : Ends(x, p)' = Ends(x, p)
  BY DEF Ends
<1>3. ASSUME NEW x \in Nodes, NEW u \in DOMAIN forwarded'[x]
      PROVE  u \in Traces /\ forwarded'[x][u] \in Seq(Legs) /\ Keys(forwarded'[x][u]) \subseteq Ends(x, u[1])
  <2>1. CASE x = n /\ u = t
    BY <1>1, <2>1
  <2>2. CASE ~ (x = n /\ u = t)
    <3>1. u \in DOMAIN forwarded[x] /\ forwarded'[x][u] = forwarded[x][u]
      BY <1>1, <2>2
    <3> QED
      BY <3>1 DEF LogsOK
  <2> QED
    BY <2>1, <2>2
<1> QED
  BY <1>1, <1>2, <1>3 DEF LogsOK

(* The keys of a log, when some are written: order are the new ones. *)
LEMMA LoggedFacts ==
  ASSUME NEW log \in Seq(Legs), NEW friends \in SUBSET Nodes, NEW order \in Seq(friends), NEW leg \in Nodes
  PROVE  /\ LoggedAll(log, friends, order, leg) \in Seq(Legs)
         /\ Keys(LoggedAll(log, friends, order, leg)) \subseteq Keys(log) \cup friends
<1> DEFINE k == Len(log)
           l == Len(order)
           old == [i \in DOMAIN log |-> IF log[i].friend \in friends THEN [log[i] EXCEPT !.leg = leg] ELSE log[i]]
           new == [i \in DOMAIN order |-> [friend |-> order[i], leg |-> leg]]
<1>1. /\ k \in Nat /\ l \in Nat /\ DOMAIN log = 1..k /\ DOMAIN order = 1..l
      /\ \A i \in 1..k : log[i] \in Legs
      /\ \A i \in 1..l : order[i] \in friends
  OBVIOUS
<1>2. \A i \in 1..k : [log[i] EXCEPT !.leg = leg] \in Legs /\ [log[i] EXCEPT !.leg = leg].friend = log[i].friend
  <2> HIDE DEF k
  <2> QED
    BY <1>1 DEF Legs
<1>3. \A i \in 1..l : [friend |-> order[i], leg |-> leg] \in Legs
  <2> HIDE DEF l
  <2> QED
    BY <1>1 DEF Legs
<1>4. \A i \in 1..k : old[i] \in Legs /\ old[i].friend = log[i].friend
  BY <1>1, <1>2
<1>5. \A i \in 1..l : new[i] \in Legs /\ new[i].friend = order[i]
  BY <1>1, <1>3
<1>6. old = [i \in 1..k |-> old[i]] /\ new = [i \in 1..l |-> new[i]]
  BY <1>1
<1>7. LoggedAll(log, friends, order, leg) = old \o new
  BY DEF LoggedAll
<1> HIDE DEF k, l, old, new
<1>8. old \in Seq(Legs) /\ new \in Seq(Legs) /\ Len(old) = k /\ Len(new) = l
  BY <1>1, <1>4, <1>5, <1>6
<1> DEFINE both == old \o new
<1>9. /\ both \in Seq(Legs) /\ DOMAIN both = 1..(k + l)
      /\ \A i \in 1..k : both[i] = old[i]
      /\ \A i \in 1..(k + l) : ~(i <= k) => both[i] = new[i - k]
  <2>1. \A x, y \in Seq(Legs) :
          /\ x \o y \in Seq(Legs) /\ DOMAIN (x \o y) = 1..(Len(x) + Len(y))
          /\ \A i \in 1..Len(x) : (x \o y)[i] = x[i]
          /\ \A i \in 1..(Len(x) + Len(y)) : ~(i <= Len(x)) => (x \o y)[i] = y[i - Len(x)]
    OBVIOUS
  <2> QED
    BY <1>8, <2>1
<1> HIDE DEF both
<1>10. ASSUME NEW i \in 1..(k + l) PROVE both[i].friend \in Keys(log) \cup friends
  <2>1. CASE i <= k
    <3>1. i \in 1..k
      BY <1>1, <2>1
    <3> QED
      BY <1>1, <1>4, <1>9, <3>1 DEF Keys
  <2>2. CASE ~(i <= k)
    <3>1. i - k \in 1..l
      BY <1>1, <2>2
    <3> QED
      BY <1>1, <1>5, <1>9, <2>2, <3>1
  <2> QED
    BY <2>1, <2>2
<1>11. Keys(both) \subseteq Keys(log) \cup friends
  BY <1>9, <1>10 DEF Keys
<1> QED
  BY <1>7, <1>9, <1>11 DEF both

(* One key is written. *)
LEMMA OneLogged ==
  ASSUME NEW log \in Seq(Legs), NEW f \in Nodes, NEW leg \in Nodes
  PROVE  Logged(log, f, leg) \in Seq(Legs) /\ Keys(Logged(log, f, leg)) \subseteq Keys(log) \cup {f}
<1> DEFINE friends == {f}
           order == IF f \in Keys(log) THEN <<>> ELSE <<f>>
<1>1. friends \in SUBSET Nodes /\ order \in Seq(friends)
  <2>1. <<>> \in Seq({f}) /\ <<f>> \in Seq({f}) /\ {f} \in SUBSET Nodes
    OBVIOUS
  <2>2. order = <<>> \/ order = <<f>>
    OBVIOUS
  <2> QED
    BY <2>1, <2>2
<1>2. Logged(log, f, leg) = LoggedAll(log, friends, order, leg)
  BY DEF Logged
<1> HIDE DEF order, friends
<1>3. /\ LoggedAll(log, friends, order, leg) \in Seq(Legs)
      /\ Keys(LoggedAll(log, friends, order, leg)) \subseteq Keys(log) \cup friends
  BY <1>1, LoggedFacts
<1> QED
  BY <1>2, <1>3 DEF friends

(* The first of some keys is one of them. *)
LEMMA FirstKeyFacts ==
  ASSUME NEW log \in Seq(Legs), NEW friends, friends \subseteq Keys(log), friends # {}
  PROVE  FirstKey(log, friends) \in friends
<1>1. ASSUME NEW f \in friends PROVE Rank(log, f) \in Nat
  <2> DEFINE keys == [i \in DOMAIN log |-> log[i].friend]
  <2>1. Len(Numbered) \in Nat /\ DOMAIN Numbered = 1..Len(Numbered) /\ DOMAIN keys = 1..Len(log)
    BY NumberedAssumption
  <2>2. \A i \in 1..Len(Numbered) : i \in Nat
    BY <2>1
  <2>3. CASE f \in Range(Numbered)
    <3>1. \E i \in DOMAIN Numbered : Numbered[i] = f
      BY <2>3 DEF Range
    <3>2. Place(Numbered, f) \in DOMAIN Numbered
      BY <3>1 DEF Place
    <3> QED
      BY <2>1, <2>2, <2>3, <3>2 DEF Rank
  <2>4. CASE f \notin Range(Numbered)
    <3>1. \E i \in DOMAIN keys : keys[i] = f
      BY <1>1 DEF Keys
    <3>2. Place(keys, f) \in DOMAIN keys
      <4> HIDE DEF keys
      <4> QED
        BY <3>1 DEF Place
    <3>3. Rank(log, f) = Len(Numbered) + Place(keys, f)
      BY <2>4 DEF Rank
    <3>4. Place(keys, f) \in Nat
      <4> HIDE DEF keys
      <4>1. \A i \in 1..Len(log) : i \in Nat
        OBVIOUS
      <4> QED
        BY <2>1, <3>2, <4>1
    <3> QED
      BY <2>1, <3>3, <3>4
  <2> QED
    BY <2>3, <2>4
<1> DEFINE T == {Rank(log, f) : f \in friends}
<1>2. T \in SUBSET Nat /\ T # {}
  BY <1>1
<1>3. PICK r \in T : \A y \in T : r <= y
  <2> HIDE DEF T
  <2> QED
    BY <1>2, LeastMember
<1>4. \E f \in friends : \A g \in friends \ {f} : Rank(log, f) <= Rank(log, g)
  BY <1>3
<1> QED
  BY <1>4 DEF FirstKey

(* The keys that are new are inserted in some order. *)
LEMMA OrderFacts ==
  ASSUME NEW S \in SUBSET Nodes, NEW order \in Probing!Orders(S)
  PROVE  order \in Seq(S)
<1>1. IsFiniteSet(S)
  BY NetworkAssumption, FS_Subset
<1>2. Cardinality(S) \in Nat
  BY <1>1, FS_CardinalityType
<1>3. order \in [1..Cardinality(S) -> S]
  BY DEF Probing!Orders, Probing!Injection, Probing!Cardinality, Cardinality
<1> QED
  BY <1>2, <1>3

-----------------------------------------------------------------------------
(***************************************************************************)
(* A trace is passed on, or comes home.                                    *)
(***************************************************************************)

(* The same trace goes to some friends that the probe was exchanged with. *)
LEMMA PassingLinks ==
  ASSUME Base, NEW m \in Nodes, NEW n \in Nodes, NEW message \in Arriving(m, n),
         NEW hops \in SUBSET Ends(n, message.trace[1])
  PROVE  /\ Probing!Taken(m, n) \in Wires /\ Links(Probing!Taken(m, n), from, to)
         /\ Broadcast(Probing!Taken(m, n), n, [f \in hops |-> TraceMessage(message.trace, message.leg)]) \in Wires
         /\ Links(Broadcast(Probing!Taken(m, n), n, [f \in hops |-> TraceMessage(message.trace, message.leg)]),
                  from, to)
<1> DEFINE net == Probing!Taken(m, n)
           trace == [f \in hops |-> TraceMessage(message.trace, message.leg)]
           fr == from
           tt == to
<1>1. /\ message \in TraceMessages
      /\ message = TraceMessage(message.trace, message.leg)
      /\ Probing!Arrives(m, n, message)
  BY ArrivingFacts
<1>2. net \in Wires /\ Links(net, fr, tt)
  BY <1>1, TakenSame, MessageFacts
<1>3. trace \in [hops -> TraceMessages] /\ \A f \in hops : trace[f].trace = message.trace
  BY <1>1
<1>4. \A f \in hops \cap Nodes : f \in fr[n][trace[f].trace[1]] \cup tt[n][trace[f].trace[1]]
  BY <1>3 DEF Ends
<1>5. Broadcast(net, n, trace) \in Wires /\ Links(Broadcast(net, n, trace), fr, tt)
  <2> HIDE DEF net, trace, fr, tt
  <2> QED
    BY <1>2, <1>3, <1>4, BroadcastLinks
<1> QED
  BY <1>2, <1>5

LEMMA PassBase ==
  ASSUME Base, LogsOK, NEW m \in Nodes, NEW n \in Nodes, PassTrace(m, n)
  PROVE  Base' /\ LogsOK' /\ UNCHANGED <<from, to, created, found>>
<1>1. PICK message \in Arriving(m, n) :
        /\ \/ IgnoreTrace(m, n, message.trace, message.leg)
           \/ ForwardTrace(m, n, message.trace, message.leg)
           \/ BounceTrace(m, n, message.trace, message.leg)
        /\ UNCHANGED probing
  BY DEF PassTrace
<1> DEFINE t == message.trace
           leg == message.leg
           log == Logged(Log(n, t), m, leg)
           ends == Ends(n, t[1])
<1>2. t \in Traces /\ leg \in Nodes /\ t[1] \in Introductions /\ m \in ends /\ ends \subseteq Nodes
  BY ArrivingFacts DEF Base, Tables, Ends
<1>3. UNCHANGED <<known, from, to, offer>>
  BY <1>1 DEF probing
<1>4. log \in Seq(Legs) /\ Keys(log) \subseteq ends
  <2>1. Log(n, t) \in Seq(Legs) /\ Keys(Log(n, t)) \subseteq ends
    BY <1>2, LogFacts
  <2> DEFINE old == Log(n, t)
  <2>2. Logged(old, m, leg) \in Seq(Legs) /\ Keys(Logged(old, m, leg)) \subseteq Keys(old) \cup {m}
    <3>1. old \in Seq(Legs)
      BY <2>1
    <3> HIDE DEF old, leg
    <3> QED
      BY <1>2, <3>1, OneLogged
  <2> QED
    BY <1>2, <2>1, <2>2
<1>5. \A hops \in SUBSET ends :
        /\ Probing!Taken(m, n) \in Wires /\ Links(Probing!Taken(m, n), from, to)
        /\ Broadcast(Probing!Taken(m, n), n, [f \in hops |-> TraceMessage(t, leg)]) \in Wires
        /\ Links(Broadcast(Probing!Taken(m, n), n, [f \in hops |-> TraceMessage(t, leg)]), from, to)
  BY PassingLinks
<1>6. CASE IgnoreTrace(m, n, t, leg)
  <2>1. network' = Probing!Taken(m, n) /\ UNCHANGED <<created, forwarded, found>>
    BY <1>6 DEF IgnoreTrace
  <2>2. LogsOK'
    BY <1>3, <2>1 DEF LogsOK, Ends
  <2>3. Probing!Taken(m, n) \in Wires /\ Links(Probing!Taken(m, n), from, to)
    BY <1>5
  <2> QED
    BY <1>3, <2>1, <2>2, <2>3 DEF Base
<1>7. CASE ForwardTrace(m, n, t, leg)
  <2> DEFINE hops == Opposite(m, n, t[1])
  <2>1. PICK order \in Probing!Orders(hops \ Keys(log)) : WriteLog(n, t, LoggedAll(log, hops, order, leg))
    BY <1>7 DEF ForwardTrace
  <2>2. /\ network' = Broadcast(Probing!Taken(m, n), n, [f \in hops |-> TraceMessage(t, leg)])
        /\ UNCHANGED <<created, found>>
    BY <1>7 DEF ForwardTrace
  <2>3. hops \subseteq ends
    BY DEF Opposite, Ends
  <2>4. /\ LoggedAll(log, hops, order, leg) \in Seq(Legs)
        /\ Keys(LoggedAll(log, hops, order, leg)) \subseteq ends
    <3> DEFINE S == hops \ Keys(log)
    <3>1. S \in SUBSET Nodes /\ S \subseteq hops /\ hops \in SUBSET Nodes
      BY <1>2, <2>3
    <3>2. order \in Seq(S)
      <4> HIDE DEF S
      <4> QED
        BY <2>1, <3>1, OrderFacts DEF S
    <3> HIDE DEF S
    <3>3. order \in Seq(hops)
      BY <3>1, <3>2
    <3> HIDE DEF log, hops, leg, ends
    <3>4. /\ LoggedAll(log, hops, order, leg) \in Seq(Legs)
          /\ Keys(LoggedAll(log, hops, order, leg)) \subseteq Keys(log) \cup hops
      BY <1>2, <1>4, <3>1, <3>3, LoggedFacts
    <3> QED
      BY <1>4, <2>3, <3>4
  <2>5. LogsOK'
    <3> DEFINE more == LoggedAll(log, hops, order, leg)
    <3>1. more \in Seq(Legs) /\ Keys(more) \subseteq Ends(n, t[1]) /\ WriteLog(n, t, more)
      BY <2>1, <2>4
    <3> HIDE DEF more, t
    <3> QED
      BY <1>2, <1>3, <3>1, WritingLog
  <2>6. network' \in Wires /\ Links(network', from, to)
    BY <1>5, <2>2, <2>3
  <2> QED
    BY <1>3, <2>2, <2>5, <2>6 DEF Base
<1>8. CASE BounceTrace(m, n, t, leg)
  <2> DEFINE others == Bounces(m, n, t, leg)
             hops == {FirstKey(log, others)}
  <2>1. /\ others # {} /\ WriteLog(n, t, log)
        /\ network' = Broadcast(Probing!Taken(m, n), n, [f \in hops |-> TraceMessage(t, leg)])
        /\ UNCHANGED <<created, found>>
    BY <1>8 DEF BounceTrace
  <2>2. others \subseteq Keys(log)
    BY DEF Bounces, OtherLegs
  <2>3. hops \in SUBSET ends
    <3>1. FirstKey(log, others) \in others
      <4> HIDE DEF log, others
      <4> QED
        BY <1>4, <2>1, <2>2, FirstKeyFacts
    <3> QED
      BY <1>4, <2>2, <3>1
  <2>4. LogsOK'
    <3> HIDE DEF log, t
    <3> QED
      BY <1>2, <1>3, <1>4, <2>1, WritingLog DEF ends
  <2>5. network' \in Wires /\ Links(network', from, to)
    BY <1>5, <2>1, <2>3
  <2> QED
    BY <1>3, <2>1, <2>4, <2>5 DEF Base
<1> QED
  BY <1>1, <1>6, <1>7, <1>8

-----------------------------------------------------------------------------
(***************************************************************************)
(* The invariant of the engine.                                            *)
(***************************************************************************)
Inv == Base /\ LogsOK /\ TypeOK

LEMMA InvInit == Init => Inv
<1> SUFFICES ASSUME Init PROVE Inv
  OBVIOUS
<1>1. /\ network = [m \in Nodes |-> [n \in Nodes |-> <<>>]]
      /\ known = [n \in Nodes |-> {}]
      /\ from = [n \in Nodes |-> [p \in Introductions |-> {}]]
      /\ to = [n \in Nodes |-> [p \in Introductions |-> {}]]
      /\ offer = [n \in Nodes |-> [f \in Nodes |-> {}]]
      /\ created = [n \in Nodes |-> {}]
      /\ forwarded = [n \in Nodes |-> <<>>]
      /\ found = [n \in Nodes |-> {}]
  BY DEF Init, Probing!Init, Probing!Probes
<1>2. network \in Wires
  <2>1. <<>> \in Seq(Wire)
    OBVIOUS
  <2> QED
    BY <1>1, <2>1 DEF Wires, NetworksOf
<1>3. Links(network, from, to)
  <2> SUFFICES ASSUME NEW x \in Nodes, NEW y \in Nodes
               PROVE  LinkOK(network[x][y], Crossed(from, y, x), Crossed(to, y, x), Crossed(to, x, y))
    BY DEF Links
  <2>1. Crossed(from, y, x) = {} /\ Crossed(to, y, x) = {} /\ Crossed(to, x, y) = {}
    BY <1>1 DEF Crossed
  <2>2. network[x][y] = <<>>
    BY <1>1
  <2>3. Covered(<<>>, {})
    BY DEF Covered
  <2> QED
    BY <2>1, <2>2, <2>3, HasNone DEF LinkOK
<1>4. DOMAIN <<>> = {} /\ Range(<<>>) = {}
  BY DEF Range
<1> QED
  BY <1>1, <1>2, <1>3, <1>4 DEF Inv, Base, LogsOK, TypeOK, Tables

(* The logs are right as long as the records grow. *)
LEMMA LogsGrow ==
  ASSUME LogsOK, Base, Grows, UNCHANGED forwarded
  PROVE  LogsOK'
<1> SUFFICES ASSUME NEW n \in Nodes, NEW t \in DOMAIN forwarded[n]
             PROVE  t \in Traces /\ forwarded[n][t] \in Seq(Legs) /\ Keys(forwarded[n][t]) \subseteq Ends(n, t[1])'
  BY DEF LogsOK
<1>1. t \in Traces /\ forwarded[n][t] \in Seq(Legs) /\ Keys(forwarded[n][t]) \subseteq Ends(n, t[1])
  BY DEF LogsOK
<1>2. t[1] \in Introductions
  BY <1>1, MessageFacts
<1>3. Ends(n, t[1]) \subseteq Ends(n, t[1])'
  BY <1>2 DEF Grows, Ends
<1> QED
  BY <1>1, <1>3

LEMMA InvStep == Inv /\ [Next]_vars => Inv'
<1> SUFFICES ASSUME Inv, [Next]_vars PROVE Inv'
  OBVIOUS
<1>1. Base /\ LogsOK /\ TypeOK
  BY DEF Inv
<1>2. ASSUME NEW a \in Nodes, NEW b \in Nodes, Meet(a, b) PROVE Inv'
  <2>1. Base' /\ Grows /\ UNCHANGED <<created, forwarded, found>>
    BY <1>1, <1>2, MeetBase DEF Meet
  <2>2. LogsOK'
    BY <1>1, <2>1, LogsGrow
  <2> QED
    BY <1>1, <2>1, <2>2 DEF Inv, TypeOK
<1>3. ASSUME NEW m \in Nodes, NEW n \in Nodes, HandleProbes(m, n) PROVE Inv'
  <2>1. Base' /\ Grows /\ UNCHANGED <<created, forwarded, found>>
    BY <1>1, <1>3, ProbesBase DEF HandleProbes
  <2>2. LogsOK'
    BY <1>1, <2>1, LogsGrow
  <2> QED
    BY <1>1, <2>1, <2>2 DEF Inv, TypeOK
<1>4. ASSUME NEW m \in Nodes, NEW n \in Nodes, NEW p \in Introductions, HandleProbeLoopback(m, n, p)
      PROVE  Inv'
  <2> DEFINE t == <<p, n, m>>
             senders == from[n][p] \cup {m}
             more == {<<t, f>> : f \in senders}
  <2>1. /\ Base' /\ Grows /\ UNCHANGED <<forwarded, found>>
        /\ created' = [created EXCEPT ![n] = @ \cup more]
    BY <1>1, <1>4, LoopbackBase DEF HandleProbeLoopback
  <2>2. LogsOK'
    BY <1>1, <2>1, LogsGrow
  <2>3. more \subseteq Traces \X Nodes
    <3>1. t \in Traces /\ senders \subseteq Nodes
      BY <1>1 DEF Traces, Base, Tables
    <3> HIDE DEF t, senders
    <3> QED
      BY <3>1
  <2>4. created' \in [Nodes -> SUBSET (Traces \X Nodes)]
    <3> HIDE DEF more
    <3> QED
      BY <1>1, <2>1, <2>3 DEF TypeOK
  <2> QED
    BY <1>1, <2>1, <2>2, <2>4 DEF Inv, TypeOK
<1>5. ASSUME NEW m \in Nodes, NEW n \in Nodes, PassTrace(m, n) PROVE Inv'
  <2>1. Base' /\ LogsOK' /\ UNCHANGED <<created, found>>
    BY <1>1, <1>5, PassBase
  <2>2. (\A x \in Nodes : DOMAIN forwarded[x] \subseteq Traces /\ Range(forwarded[x]) \subseteq Seq(Legs))'
    BY <2>1 DEF LogsOK, Range
  <2> QED
    BY <1>1, <2>1, <2>2 DEF Inv, TypeOK
<1>6. ASSUME NEW m \in Nodes, NEW n \in Nodes, NEW message \in Arriving(m, n),
             TraceHome(m, n, message.trace, message.leg)
      PROVE  Inv'
  <2>1. /\ message \in TraceMessages /\ message.trace \in Traces /\ message.leg \in Nodes
        /\ Probing!Arrives(m, n, message)
    BY <1>1, ArrivingFacts
  <2>2. /\ network' = Probing!Taken(m, n)
        /\ UNCHANGED <<known, from, to, offer, created, forwarded>>
        /\ found' = [found EXCEPT ![n] =
             @ \cup {[trace |-> message.trace, outgoing |-> message.leg, incoming |-> m]}]
    BY <1>6 DEF TraceHome, RecordLoop, probing
  <2>3. Probing!Taken(m, n) \in Wires /\ Links(Probing!Taken(m, n), from, to)
    BY <1>1, <2>1, TakenSame, MessageFacts
  <2>4. Base' /\ LogsOK'
    BY <1>1, <2>2, <2>3 DEF Base, LogsOK, Ends
  <2>5. found' \in [Nodes -> SUBSET [trace : Traces, outgoing : Nodes, incoming : Nodes]]
    BY <1>1, <2>1, <2>2 DEF TypeOK
  <2> QED
    BY <1>1, <2>2, <2>4, <2>5 DEF Inv, TypeOK
<1>7. CASE UNCHANGED vars
  BY <1>1, <1>7 DEF Inv, Base, LogsOK, TypeOK, Ends, vars, probing
<1> QED
  BY <1>2, <1>3, <1>4, <1>5, <1>6, <1>7 DEF Next, Handle, HandleOwn

(* Legs, logs and loops are of traces, which are about introductions and nodes (TypeOK),
   whatever is logged. *)
THEOREM TraceTypeCorrect == Spec => []TypeOK
<1>1. Inv => TypeOK
  BY DEF Inv
<1> QED
  BY <1>1, InvInit, InvStep, PTL DEF Spec

(* No trace is stray (NoStrayTrace): the message handler of a node gets a trace only from
   a friend that the probe of the trace was exchanged with, whatever the nodes do in
   between. *)
THEOREM NoStrayTraceCorrect == Spec => []NoStrayTrace
<1>1. Inv => NoStrayTrace
  <2> SUFFICES ASSUME Inv, NEW m \in Nodes, NEW n \in Nodes, NEW message \in Arriving(m, n)
               PROVE  m \in from[n][message.trace[1]] \cup to[n][message.trace[1]]
    BY DEF NoStrayTrace
  <2> QED
    BY ArrivingFacts DEF Inv, Ends
<1> QED
  BY <1>1, InvInit, InvStep, PTL DEF Spec

(* The two ends of a link agree about the probes that crossed it up to those that are
   under way, and no trace overtakes its probe. *)
THEOREM RecordsCorrect == Spec => []TraceInv
<1>1. Inv => RecordsAgree
  <2> SUFFICES ASSUME Inv, NEW m \in Nodes, NEW n \in Nodes, NEW p \in Introductions
               PROVE  /\ m \in from[n][p] \/ UnderWay(m, n, p) => n \in to[m][p]
                      /\ n \in to[m][p] => p \in Exchanged(m, n) \/ UnderWay(m, n, p)
    BY DEF RecordsAgree
  <2>1. LinkOK(network[m][n], Crossed(from, n, m), Crossed(to, n, m), Crossed(to, m, n))
    BY DEF Inv, Base, Links
  <2>2. UnderWay(m, n, p) <=> Has(network[m][n], p)
    <3>1. network[m][n] \in Seq(Wire)
      BY WiresFacts DEF Inv, Base
    <3> QED
      BY <3>1 DEF UnderWay, Probing!InTransit, Probing!Range, Has
  <2> QED
    BY <2>1, <2>2 DEF LinkOK, Crossed, Exchanged
<1>2. Inv => TracesBehind
  <2> SUFFICES ASSUME Inv, NEW m \in Nodes, NEW n \in Nodes, NEW i \in DOMAIN network[m][n],
                      network[m][n][i] \in TraceMessages
               PROVE  LET p == network[m][n][i].trace[1]
                      IN p \in Exchanged(m, n) \/ \E j \in 1..(i - 1) : network[m][n][j] = Probing!ProbeMessage(p)
    BY DEF TracesBehind
  <2> DEFINE message == network[m][n][i]
  <2>1. i \in 1..Len(network[m][n])
    <3>1. network[m][n] \in Seq(Wire)
      BY WiresFacts DEF Inv, Base
    <3> QED
      BY <3>1
  <2>2. message.trace \in Traces /\ message.leg \in Nodes /\ message = TraceMessage(message.trace, message.leg)
    BY MessageFacts
  <2>3. Covered(network[m][n], Crossed(from, n, m) \cup Crossed(to, n, m))
    BY DEF Inv, Base, Links, LinkOK
  <2>4. \/ message.trace[1] \in Crossed(from, n, m) \cup Crossed(to, n, m)
        \/ \E j \in 1..(i - 1) : network[m][n][j] = Probing!ProbeMessage(message.trace[1])
    BY <2>1, <2>2, <2>3 DEF Covered
  <2> QED
    BY <2>4 DEF Crossed, Exchanged
<1>3. Inv => LogsExchanged
  <2> SUFFICES ASSUME Inv, NEW n \in Nodes, NEW t \in DOMAIN forwarded[n], NEW f \in Keys(forwarded[n][t])
               PROVE  t[1] \in Exchanged(f, n)
    BY DEF LogsExchanged
  <2>1. t \in Traces /\ f \in Ends(n, t[1])
    BY DEF Inv, LogsOK
  <2>2. t[1] \in Introductions
    BY <2>1, MessageFacts
  <2> QED
    BY <2>1, <2>2 DEF Exchanged, Ends
<1> QED
  BY <1>1, <1>2, <1>3, InvInit, InvStep, PTL DEF Spec, TraceInv

=============================================================================
