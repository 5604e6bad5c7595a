# A TLA+ verification of LedgerLoops

LedgerLoops finds loops in a network of trustlines and proposes lifts along
them, so that debts cancel.  This directory holds a TLA+ specification of its
node program (`src/src`, TypeScript), TLC configurations that model-check it on
small networks, and theorems that TLAPS proves for every network.

## 1. The system

| component | source | state | operations | talks to |
|---|---|---|---|---|
| probes engine | `src/src/engine/probesengine.ts` | a hand-raising status and a queue of probes for each friend; for each probe the friends it came from and went to | `addFriend`, `handleProbeMessage`, `handleHaveProbesMessage`, `handleOkayToSendProbesMessage` | other probes engines (`probe`, `have-probes`, `okay-to-send-probes`); tells the traces engine of loopbacks (an event) |
| traces engine | `src/src/engine/tracesengine.ts` | the legs it created and forwarded, per probe and trace | `handleProbeLoopback`, `handleTraceMessage`, `getOtherParty` | other traces engines (`trace`); looks probes up in the probes engine (a callback); tells the loops engine of loops (an event) |
| loops engine | `src/src/engine/loopsengine.ts` | the loops found, the lifts by hash | `handleLoopFound`, `handleProposeMessage`, `handleCommitMessage` | other loops engines (`propose`, `commit`), over the legs the traces engine remembers |
| friends engine | `src/src/engine/friendsengine.ts` | name, balance, trust and exchange rate of each friend | `addFriend`, `setTrust`, `setBalance` | read by the node and the loops engine |
| Saiga node | `src/src/saiga.ts` | the four engines | `meet`, `setTrust`, `setBalance`, `process` | dispatches messages to the engines, sends what they emit |
| network simulators | `src/src/simulator/networksimulator.ts` | the nodes, which of them it listens to, a batch of messages, a log | `flush` (batched), synchronous delivery (basic), `toSnapshot`, `fromSnapshot` | calls `process` of the nodes |
| command line | `src/src/cmd.ts`, `cli.ts`, `init.ts`, `sim.ts` | three snapshot files | `new`, `set-trust`, `set-balance`, `get-balances`, `init`, `sim` | restores a simulator, does one command, flushes until quiet, saves |
| measurement locks | six scripts, `with_lock.py`, `with_measurement_lock.py` and `locked.py` under `src/benchmarks` | a directory, `owner.json` in it, a priority marker | wait for the directory, run a command, release | each other only, through the file system |
| benchmark harnesses | `src/benchmarks` | of the systems they measure | replay a LedgerLoops workload on other synchronisation systems | nothing of the above |

A link of the network is made when one node is told to `meet` another, by
`set-trust` towards a stranger or by a line of the csv file of `init`.  The node
sends `meet`, takes the *talking* end of the link, queues all the probes it
knows for the new friend, and mints a new probe for all its friends.  The other
node takes the *listening* end.  A node passes a probe it did not know on to all
its other friends.  A probe that reaches a node that knows it has closed a loop;
the node then sends traces along the way the probe came to find the loop's
members, and the members negotiate a lift with `propose` and `commit`.

### What is hard about it

* **Interleaving.**  The ends of a link learn of probes independently, and two
  copies of one probe that pass each other on the link hide the loop (DLD.md).
  A semaphore per link prevents that: only the talking end sends probes, the
  other raises its hand (`have-probes`) and waits for `okay-to-send-probes`.
  The semaphore depends on first-in first-out delivery.  It is reset by every
  `meet`, also when both ends were told to meet each other.
* **Stale state.**  What is queued when it is fit to be sent may not be when it
  is its turn; traces use the probe's records at the time the trace comes by.
* **Liveness.**  A probe in the queue of a waiting end moves only if the hand
  has really been raised and the right to talk really comes.
* **Crash and restart.**  Commands are separate processes that meet through a
  snapshot file, which is written in place, which does not hold the queues, and
  from which nodes come back to whom the simulator does not listen: they receive,
  and whatever they send is lost.
* **Partial failure.**  A lift is committed node by node, a balance is set at one
  end before the other, and a benchmark wrapper may be killed with the lock in
  its hands while its command goes on.

`PROJECT.json` lists each hazard at its line with the properties that would
catch it.

### What makes each component correct

* probes engine: one talker per link, no crossing in mid-air, no message to a
  stranger, nothing left in a queue that nobody will empty, every link crossed
  once by every probe, a loopback for every independent loop and for nothing
  else, and an end to every exchange of messages;
* traces engine: a trace comes home only along a loop, every loopback's trace
  comes home, trace messages end, and the legs that the nodes of a loop remember
  lead a proposal round the loop;
* loops engine: nobody but the initiator has the secret of a lift before the
  proposal is home, nobody joins a lift after that, and then everybody who joined
  gets the secret;
* friends engine and node: the ends of a trustline agree on its balance, whichever way
  its signs go, once they have heard of each other;
* command line: the file is the ledger: a command does to it what it is about and
  nothing else, or nothing at all; and the network it restores can go on;
* measurement locks: one holder, one command at a time, also when a wrapper is
  killed, and the lock never released under a command but by a signal; only who made
  the directory removes it; and every wait ends.

## 2. Modules

| module | models |
|---|---|
| `ProbesEngine` | the probes engines of a network of nodes with the part of the node that feeds them |
| `ProbeFlood` | what they promise: probes that cross every link they reach, once |
| `TracesEngine` | the traces engines, on top of `ProbesEngine` |
| `LoopsEngine` | the loops engines, on top of `TracesEngine` |
| `Lift` | what they promise: a circle of promises that all get redeemed |
| `Saiga` | the node: `LoopsEngine` with the friends engine, trust and balances |
| `BatchedNetworkSimulator` | the nodes of `Saiga` in the simulator, on its one queue |
| `CommandLine` | the commands, as processes around a `BatchedNetworkSimulator`, and the snapshot files |
| `Ledger` | what they promise: a table of trustlines that commands change |
| `MeasurementLock` | the lock of the benchmarks and the six wrappers that take it |
| `MessageFilter` | a network without the messages of some engines, for the refinements between the modules above |
| `ProbesEngineProofs`, `TracesEngineProofs`, `LoopsEngineProofs`, `SaigaProofs`, `BatchedNetworkSimulatorProofs`, `CommandLineProofs`, `MeasurementLockProofs`, `MessageFilterProofs` | theorems and lemmas about the modules they are named for, and that one implements another |
| `MC...` | the networks and workers that TLC checks the modules on |

Each module has the variables of those below it and takes their actions by
`INSTANCE`, as the code wires the engines together: a handler that emits an event
is one action with what the listener does.  `RecordLoopback` is all of
`handleProbeMessage` on a loopback but what the listener sends, `RecordLoop` the
same for `handleTraceMessage` on a loop.

### ProbesEngine

A state holds, for every node, what its probes engine holds, and the messages
under way.

| variable | code |
|---|---|
| `hand[n][f]` | `friends[f].handRaisingStatus` at `n`; `"none"` when `f` is no friend |
| `known[n]` | the keys of the table `probes` |
| `from[n][p]`, `to[n][p]` | `from` and `to` of the `Probe` |
| `offer[n][f]` | `probesToOffer[f]`, as a set: a probe that is in it twice is virgin once |
| `loopbacks[n]` | the `probe-loopback` events, with the sender that caused each |
| `network[m][n]` | the messages from `m` to `n` in the batch of the simulator |

`Meet` is `Saiga.meet` with the `addFriend` of both engines.  The actions of
`Handle` are the cases of `Saiga.process` for the probes engine; each takes the
oldest message of a sender, changes the engine and sends what the handler emits,
in one step, because nothing else runs while a handler does.
`HandleProbe` is `handleProbeMessage`, with its three branches: `FloodNewProbe`,
`ProbeLoopback` and `IgnoreProbe`.  The last is taken where both ends of a link were told
to meet (`batch_crossing`).  `QueueProbes` is `queueProbe` for a number of friends and probes
at once, with what `tryToSendProbes`, `raiseHand` and `flushProbesQueue` do.

What the model leaves out, and why that is sound:

* The batch of the simulator is one queue; the model has one for each ordered
  pair of nodes, so it delivers in every order in which the simulator does and
  in more.  A safety property that holds here holds there.
* A probe is a random nonce of eight hexadecimal digits; the model takes nonces
  to be different.  `meet` returns at once for a friend, so a pair of nodes
  mints at most one probe from each side, and the pair names it.
* The probes of one burst go out in the order of the queue, that is, in the
  order in which random nonces came in.  `Burst` fixes one, `AnOrder`.  The
  handlers treat the probes of a burst independently, so the order is immaterial to
  the state after the burst has been taken.
* `homeMinted` and the kind of a loopback (root, internal, leaf) only go into
  the event, and the only listener reads the probe alone.
* A node is not introduced to itself.

`ProbeFlood` has no messages: `Introduce` makes a link and mints a probe at its
first party, and `Cross` takes a probe over a link that it has not crossed in
either direction.  `ProbesEngine` implements it under the mapping in which a
link is made when its first party meets, and a probe has crossed when the
receiving end has recorded it.

### TracesEngine

| variable | code |
|---|---|
| `created[n]` | `tracesCreated`, as pairs of a trace and the friend of a leg |
| `forwarded[n][t]` | `tracesForwarded` for one trace: its entries, in the order in which the keys were inserted |
| `found[n]` | the `loop-found` events |

`handleProbeLoopback` and `handleTraceMessage` are `HandleProbeLoopback` and four
actions: `TraceHome`, `IgnoreTrace`, `ForwardTrace` and `BounceTrace`.

* The nonces of traces and legs are taken to be different.  A friend's copy of a
  probe loops back at most once, so node, probe and friend name a trace, and the
  friend it is sent to names a leg.
* The log of a trace is an object, and which other leg a node finds depends on
  the order of its keys.  `Logged` keeps the place of a key that is assigned
  again, and `FirstKey` ranks keys that are integers before all others, in
  numeric order, as JavaScript does.  `Numbered` says which names are integers.
  `OtherLegs` is the set of keys that `getOtherLeg` looks for; it takes the first.
* The order in which a leg is logged for the friends it goes to follows the
  records of the probe; `ForwardTrace` allows every order.

`TraceInv` is the inductive invariant of the proofs: what two friends have recorded
of the probes between them agrees up to what is under way, a trace comes behind its
probe, and legs are logged only for friends with whom the probe was exchanged.

### LoopsEngine

| variable | code |
|---|---|
| `lifts[n][h]` | `lifts[hash]`: whether `incomingAmount` and `secret` are there |
| `completed[n]` | the lifts reported as `lift was successfully completed` |

`handleProposeMessage` is `ForwardPropose` and `DecideOnLift`; `HandleCommit` is
`handleCommitMessage`; the early returns of `handleLoopMessage` and of
`handleCommitMessage` are `DropLoopMessage`.  A relay decides whether it is the
initiator as the code does, by whether it knows the hash.  Every amount is 1: the
initiator proposes 1, exchange rates are 1 and `SaigaLoopsEngine` takes no profit;
so the comparison of amounts never fails and amounts are left out.  Lifts do not
touch balances, in the code or here.

`Lift` has no messages, legs or loops: nodes join a lift, its circle is closed, and
then those who joined learn the secret.  `LoopsEngine` implements it under the
mapping in which a node has joined when it knows the hash, and the circle is closed
when the initiator has an incoming amount itself.  In the code the hash of a lift is
that of a random secret; in the model it goes by the initiator, the loop, and a number
that makes it new to the initiator, for a loop that is found again.

`KeepsProbesEngine` takes the messages of the traces and loops engines out of the network
(`MessageFilter`): what is left is a behaviour of `ProbesEngine`.

### Saiga

| variable | code |
|---|---|
| `trust[n][f]` | `friends[f].maxBalance` |
| `balance[n][f]` | `friends[f].balance` |

`setTrust` is `Meet` towards a stranger and `ChangeTrust` towards a friend, who is not
told.  `SetBalance` sets the balance at one end, if the other is a friend, and tells
the other, if it is or not; `HandleSetBalance` sets the same amount with the same sign
at the other end.  `EndsAgree` leaves the sign open.  `OppositeSigns` has it as
`README.md:27-31` does, and fails (section 5).  `friendsengine.ts` and `probesengine.ts` add friends in the same steps,
so the two tables have one set of keys.  Exchange rates are always 1.

### BatchedNetworkSimulator

| variable | code |
|---|---|
| `nodes` | the keys of the table `nodes` |
| `heard` | the nodes to whose `message` events the simulator listens: those it has added itself, not those of a snapshot |
| `batch` | sender and receiver of the packages in the queue; the message is the head of `network[sender][receiver]` |

`Receive` is one step of the `forEach` in `flush`; messages that a handler sends go
behind all others, grouped by friend in any order.  A flush puts the new messages in a
new array and the next flush takes them up, which is the same order.  What a node that
is not heard sends stays in `network` for good: nobody receives it.

### CommandLine

| variable | code |
|---|---|
| `command` | the process that is running |
| `stage` | whether it has done what it was told, and only flushes |
| `disk[f]` | what `snapshot.json`, `post-init.json` and `post-run.json` hold: nothing, a snapshot, or the beginning of one |

A process is `Start`, an action that does what the command is about, `Flush` until the
batch is empty, and `Save`.  `Snapshot` and `Restore` go engine by engine, as
`toSnapshot` and `fromSnapshot` do, and leave out what those leave out: queued probes,
listeners, and, on the way back, the batch.  `Kill` ends a process at any step, and
`Tear` while it writes the file, which `writeFileSync` does in place; a file that was
torn counts as empty, as `before` has it.  `init` reads its lines one by one and does
not flush; `sim` restores and flushes.  The limit of 100,000 flushes is left out: with
`EventuallyQuiet` the flushes of the networks here end long before.

`Ledger` has the file only: a table of trustlines that a command changes at once, or
leaves alone, or, when it is killed while it writes, loses.  It leaves no choice of what
a command that ends does to the table.  `set-trust` changes the end of its first agent, and
makes the other end a friend only when it is the first command to name the first agent (the
variable `agents`); `set-balance` changes the end of its first agent, if the two are friends,
and never the other.  That is what nodes that come from a file and are not heard amount to,
and less than the repository's README wants (section 5): `Ledger` is what a user of the
commands gets.  `CommandLine` implements it with its fairness: a process that is not killed
comes to an end.

### MeasurementLock

| variable | code |
|---|---|
| `pc[w]` | where the wrapper of `w` stands |
| `late` | those who have waited for as long as they may |
| `child` | those whose command is running, also when the wrapper is not |
| `stopped` | those whom a signal has made release the lock under their command: for the properties |
| `lock`, `owner` | the directory, and whom `owner.json` in it names |
| `marker` | a file that says that the Atomic engine wants to go first |
| `maker` | who made the directory, which nothing records: for the properties |

The six wrappers do the same in the same order, but for this:

* Atomic's looks for no marker, and lists the files of a lock that it could not get,
  which may be gone by then (`FailToRead`);
* PowerSync's looks for a marker again when it has the lock, and gives it back
  (`Recheck`);
* Jazz's looks at the time when it has the lock, and leaves it behind when it is late
  (`GiveUpLate`); and when it is stopped it passes the signal on to its command and
  releases the lock without waiting for the command (`Abandon` at `"run"`).

Each access to the file system is a step of its own, and so is what `Popen` does: it
starts the command (`StartCommand`), and only when it has returned, and in Zero's wrapper
when the handlers are set, does the wrapper know of the command (`Attend`).  A signal
makes a wrapper

* release the lock before there is a command (`FailToStart`);
* release it under its command, while `Popen` executes, in every wrapper (`Abandon` at
  `"popen"`): the exception leaves `child` unset, so that the `finally` block finds nothing
  to wait for;
* end the command and wait for it, or only wait (`Finish` after `ChildEnds`), later, in
  every wrapper but Jazz's;
* leave all as it is, where it does not run a `finally` block (`Kill`).

External are the clock, the command, the marker, a wrapper that is killed, and a file that
cannot be written.
PowerSync's courtesy towards Atomic, which makes it wait longer, and all that is only
printed or recorded are left out.

## 3. What TLC checks

| run | network | what happens when | states | shows |
|---|---|---|---|---|
| `triangle` | a, b, c in a circle | meetings at any time | 17,794 | the semaphore, the flood, the detection of the loop, two of the inductive invariants of the proofs; exchanges end, raised hands are taken, `ProbeFlood` is implemented with its fairness |
| `traces_kite` | a, b, c in a circle, and d | meetings when the network is quiet | 262,084 | both legs of a trace pass a node with a way out of the circle, and the trace comes home, along the loop only; the inductive invariant of the proofs about traces |
| `lifts_triangle` | a, b, c in a circle | meetings when the network is quiet | 58,669 | `Lift` is implemented, with its fairness; `ProbesEngine` is implemented with its fairness |
| `batch_diamond` | two circles with a link in common | meetings in a given order, when quiet | 55,110 | every independent loop is found, branches of a leg meet again, every trace comes home |
| `batch_crossing` | a and b are told to meet each other; c meets a, b meets c | a's and b's meetings at any time, the others when quiet, and one end of the link sets the balance at any time | 56,232 | although both ends of a link talk and a probe crosses itself, every probe reaches everybody, and `KnownInv` holds; the ends agree on the balance although each takes the other's `meet` when it has a balance already; traces come home, exchanges end, hands are taken |
| `commands` | a, b, c in a circle | every sequence of five commands, killed at any step | 47,979 | `Ledger` is implemented with its fairness, the end each command changes included; no handler of a restored network throws |
| `locks` | the wrappers of Atomic, Jazz and PowerSync | late, stopped, failing or killed at any step | 48,608 | one holder, one command at a time but for signals, only the maker removes the lock, every wait ends |
| `batch_false_loop` | a circle of four and a circle of three with a link in common | meetings in a given order, when quiet | | a violation: see section 5 |
| `batch_lifts` | the circle | meetings when quiet | | a violation: see section 5 |
| `batch_signs` | one link | one end sets the balance | | a violation: see section 5 |
| `commands_netting` | the circle | three commands | | a violation: see section 5 |
| `locks_signal` | the wrappers of Replicache and Zero | late, stopped, failing or killed at any step | | a violation: see section 5 |

`triangle`, `traces_kite` and `lifts_triangle` deliver in every order
that keeps the messages of one node to another in sequence, the `batch` and `commands`
runs in that of the simulator's queue.

**Bounds.**  For the network, the number of nodes and the pairs that may be
introduced; nothing else of it is cut off.  A circle of three nodes has a chain, a
loop, a node that joins two others, a probe that comes from both sides, a node that is
first party and second party, and hands raised against each other on a link.  The kite
adds a way out of the circle.  The diamond is the smallest network in which a node has
the same leg come in from two friends; its links are made in one order, the one in
which that happens, because with every order the states are too many.  The house of
`batch_false_loop` is the smallest network that was found to announce a loop that is
none.  Four nodes with
all six links between them were explored for a million states, without end and without
an error.

The runs whose meetings wait for a quiet network behave as the command line does,
which flushes until nothing is under way before a command ends; the others also cover
`init`, which introduces everybody first.

Balances are set once in `batch_crossing` (`SetOnce`) and by one command after the
other in `commands`: two that are set at the two ends at the same time pass each other
and the ends keep each other's amounts, which is not a question.  `Trusts` has two
values in `commands`, so that trust can change.  `MaxCommands` is 5: a trustline, a
second one, a balance, a command that is killed, and one that reads what is left; the
states of a shorter bound are among those of a longer one, so that a command is also
looked at after every history of up to four others.

The lock has no numbers.  Three workers have the wrappers that do something that the
others do not; Replicache's, Zero's and Anytype's do what these three do, each in some
other place: they look for a marker like Jazz's and PowerSync's, and take the lock and go on
like Atomic's.  `locks_signal` has two of those, which wait for their commands whenever they
know of them.  The theorems about the lock are for any number of workers with any wrappers.

**Deadlock.**  A network in which everybody has met and no message is under way does
nothing more, and after the last of `MaxCommands` there is no other: these runs do not
report deadlock.  `FloodedWhenQuiet`, `NothingForgotten` and `EveryHandIsTaken` say
that the network does not stop too early, and `ImplementsLedger` that every command
ends.  `locks` reports deadlock, but its marker can always come or go, so that it is
`EveryWaitEnds` that speaks of waiting.

**Fairness.**

* The network has weak fairness of delivery: `after` in `cmd.ts` and `sim` flush as
  long as a flush delivers anything.  It asks for nothing about meetings, and not that
  a given pair of nodes is ever served, which one delivery queue would give as well.
* A command has weak fairness of all its steps together (`WF_vars(Run)`): a process
  that is not killed goes on.  Nothing is asked of the next command.
* A worker at the lock has weak fairness of its own steps, which an operating system
  gives it, and of the passing of its time limit.  Its command need not end, a worker
  that was killed need not be noticed, and the marker may come and go as it likes; so
  `EveryWaitEnds` holds by the time limit alone.

Every property is broken by a mutant: a definition changed as a plausible bug would
change it.  The mutants stand in the modules, before the definitions they are of.

## 4. What TLAPS proves

**`ProbesEngineProofs`**, for every finite set of nodes and every set of introductions
without a node that meets itself.

Some theorems hold in every such network, also where two nodes are told to meet each
other: `TypeCorrect`, `NoStrangerCorrect`, `KnownCorrect`, `FloodedWhenQuietCorrect` and
`LoopbackMeansLoopCorrect`.  The others assume `OneSided`, that no pair of nodes is
introduced from both ends, as in the csv files in the repository.  They need it: in the
network of `batch_crossing` both copies of a probe that pass each other are ignored, so that
`OneTalker`, `NoMidAirCrossing`, `SentInv`, `NothingForgotten` and `EveryLoopFound` are
all false there (section 5).

The argument goes in layers, each an inductive invariant relative to the ones before
it.

1. `TypeOK`.
2. `LinkInv`: every two nodes are strangers, or one of them, `t`, leads the link.  `t`
   has sent a `meet` that has not arrived (*Meeting*); or it talks and the other end
   listens or has raised its hand (*Talking*); or it has let the other end talk, which
   does not know yet (*Passing*).  Each shape says exactly which messages may be under
   way and in which order, which is what first-in first-out delivery is for.
   `OneTalker` says that something of the kind holds, but not enough of the queues to be
   inductive.  For `NoStranger` less will do, and without `OneSided`: `MetInv`, that
   nothing goes to a stranger and that `meet` is the oldest message to a friend who does
   not know yet.
3. `SentInv` with `NoMidAirCrossing`: a probe recorded as sent is under way or has been
   recorded at the other end; so when the right to talk has passed, the end that gets
   it has seen everything the other end sent.
4. `KnownInv`: nodes only send and offer what they know, to friends.
5. `NothingForgotten`.  `FloodedWhenQuiet` needs less, and holds in every network:
   `RaisedInv` and `SpreadInv`.  The hands of two ends that were both told to meet may
   cross, and copies of a probe may pass each other, but what is still to be sent is
   queued at an end for which a `have-probes` or an `okay-to-send-probes` is under way,
   and what was sent is known at the other end or under way to it.  When nothing is under
   way, nothing is left to be sent.
6. `EnteredInv`: a set of nodes that knows a probe it has not minted was entered over a
   link.  `LoopbackMeansLoop` follows: of two nodes that a probe reached one after the
   other, each set that separates them was entered by another link than theirs.

7. `TreeInv`: every node that knows a probe has got it from one friend, its parent, except
   the node that minted it, and over every other link that it came by it looped back.
   `EveryLoopFound` follows: in a quiet network each link was crossed once, so that its
   crossings are the loopbacks and the links to parents, and of those there is one for
   each node but the first.  The sets are counted by bijections (`CrossingsCounted`,
   `LinksCounted`).

8. `ImplementsFloodSteps`.  Each step of `ProbesEngine` introduces one link, takes one
   probe over one link, or changes nothing of the flood; that a link is crossed once is
   `SentInv` with `NoMidAirCrossing`.

**`TracesEngineProofs`**, for every finite set of nodes and every set of introductions,
one-sided or not: `TraceTypeCorrect`, `RecordsCorrect` and `NoStrayTraceCorrect`.  The
invariant speaks of one direction of a link at a time (`LinkOK`): of what the sender has
recorded as sent, what the receiver has recorded, and the messages between them.  A probe
that was sent has been received, was sent back, or is under way; and a trace has its probe
before it, here or under way.  What a handler does to a link is to take its first message
or to put messages behind the others, so there are two lemmas of which each step is an
instance (`LinkTake`, `LinkSend`).  `meet` starts a link over when both ends were told to
meet, but leaves the records of its probes alone, so that nothing of this needs one-sided
introductions, other than the semaphore.  That a bounced trace can be followed takes one
more fact: who is in the log has exchanged the probe (`LogsExchanged`).

**`LoopsEngineProofs`**, for every finite set of nodes and every set of introductions,
one-sided or not, for every order of delivery, and whatever loops are found how often:
`ImplementsLiftSteps`, that every step of `LoopsEngine` is a step of `Lift` or changes
nothing of it, what follows for who has the secret (`SecretCorrect`) and who takes part
(`CircleStaysInLoops`), and `LiftTypeCorrect`.

The mapping is not enough for an induction, since it forgets the messages.  The
invariant, `LiftInv`, says of them:

* a proposal is a token: of each lift at most one is under way (`OneProposal`), because
  a node sends one when it takes one, or when it starts the lift;
* as long as a proposal is under way its circle is open (`ProposalsOpen`), so that who
  takes it up joins a lift that is not closed; and when it comes to its initiator it
  was the last one;
* a commit carries the secret only after the circle was closed (`CommitsClosed`).  A
  relay that a proposal comes to twice, because the walk over the legs has met itself,
  takes itself for the initiator and commits: without a secret, so that its commit is
  dropped;
* who knows a lift or is sent a proposal of it knows that the initiator has started it
  (`MembersStarted`), so that a lift that starts is new to everybody.

**`MeasurementLockProofs`**, for any number of workers of any engines and without any
other assumption: `LockInv`, which is inductive as it stands, and from it `OneHolder`,
`SerialWork` and `OnlyMakerRemoves`.  The heart of it is that a wrapper releases the
lock only after it has read its own name in it, and that the name is there only after
its maker has made the directory, so that a wrapper that is killed, or fails between
the two, leaves a lock that stays.  So the directory stays for as long as a command runs
(`ChildrenGuarded`), unless a signal has made the wrapper release it under the command, by
`Abandon`, which any wrapper may do while `Popen` executes and Jazz's later too; and
commands overlap (`SerialWork`) only when that has happened to one of them.  That it does
happen is what `OneCommand` reports (section 5).

Under the loops engines, `KeepsProbesEngineSteps`: every step of `LoopsEngine` is a step of
`ProbesEngine`, or none, once the messages of the engines above are taken out of the
network.  With it the theorems of `ProbesEngineProofs` hold there, those for every network
in `FloodUnderneath`, those for one-sided introductions in `TalkingUnderneath`.
`MessageFilterProofs` has what the filter does to a message that is sent or taken, and to
what is behind it.  The filter is a recursive function on sequences; that it is one, and
what it does, is proved by the absence of a least counterexample, since the induction
theorems of the library cannot be used here.

**`SaigaProofs`**, for every finite set of nodes and any introductions (`Small`).
`KeepsLoopsEngineSteps` takes the messages about balances out of the network, in the same
way; what is left is a behaviour of `LoopsEngine`.  So the theorems of the layers below are
theorems of nodes: `LiftsOfNodes`, `FloodOfNodes` and `TalkingOfNodes`.  `NoStranger` is not
among them: a node may set its balance with a stranger, and the `set-balance` goes out.

`EndsAgreeCorrect` is about the friends engines: the ends of a trustline agree on the
balance as soon as nothing about it is under way.  It has two hypotheses that say how a
trustline is used.  One end of it sets the balance (`OneSetter`); two that do so at the
same time keep each other's amounts.  And it does so when it has the other end for a
friend (`SetsOfFriends`), as in `README.md`, where trust is set first; the balance of a
stranger is set at the stranger's end only, if that has the sender for a friend.  Which
end meets the other, or whether both do, does not matter, nor how often the balance is set
or trust changes.  The invariant, `BalanceInv`, says of the setter's end and the queue from it:

* as long as the other end does not know the setter, a `meet` is ahead of every
  `set-balance` and the other end has the balance 0; so no `set-balance` is dropped:
  `setBalance` (`friendsengine.ts:35`) does nothing with one from a stranger;
* the last `set-balance` under way carries the balance of the setter, and if none is under
  way the two balances are equal;
* the other end sends none.

For that, no handler of an engine may take or send a `set-balance`, send a `meet`, or make
a friend but by a `meet` (`RoutineHandle`), and a friend stays one.  `NodeTypesCorrect` is
the type of the two tables.

**`BatchedNetworkSimulatorProofs`**, for every finite set of nodes and any introductions:
`ImplementsNodes`, that every step of the simulator is a step of `Saiga`.  So what was proved
for every order of delivery holds for the order of the batch, with nodes to which nobody
listens: `FloodOfSimulator`, `TalkingOfSimulator` with `EveryLoopFound`,
`EndsAgreeInSimulator` and `NodeTypesInSimulator`.

**`CommandLineProofs`**, for every finite set of nodes, any introductions and accounts
between two different agents, any csv file with lines from the introductions, any sequence
of commands, and a process that is killed at any step: `SnapshotsCorrect`,
`ImplementsLedgerSteps` and `NothingThrowsCorrect`.  The engines restored by a command have
lost their queues and their listeners, so that none of the invariants above can be used.
`SnapshotInv` follows the processes instead:

* every file that can be read holds a table of nodes that fits together: nobody is its own
  friend, and a name that is not in the table is nobody's friend and has met no probe
  (`FilesInv`); and so does the memory (`MemoryInv`);
* `CommandInv` says what each command is at.  Before it does what it is about, the network
  is as in the file and silent (`Restored`).  `set-trust` sends at most `meet` and one
  probe, which nobody passes on, since whoever could is not heard (`Trusting`);
  `set-balance` sends at most the one message (`Crediting`); and `init` only sends
  (`Greeted`).

That a flush ends with a table that differs from that in the file in one trustline is then
read off the few states it goes through (`Trusting`, `Telling` and `Crediting` say of the two
ends what they are, with the names in the file as the ledger's `agents`: `AgentsIn`), and that
no handler throws from the messages that can be there.

**Only model-checked**:

* the liveness properties, and the fairness of the refinements `ImplementsFlood`,
  `ImplementsLift`, `ImplementsLedger` and `KeepsProbesEngine`, which the prover cannot
  treat;
* `LoopFoundMeansLoop`, `EveryTraceComesHome` and `BounceTurnsRound`.  They are not
  theorems: the first is false in the house, the other two where names are integers
  (section 5).  TLC shows them where they hold, in small networks
  and in the orders of delivery of the runs;
* in `TypeOK` of the simulator and of the commands, that the packages in the batch are
  the messages under way.

## 5. Where the code and its documents disagree

`batch_signs`: README.md:27-31 has the two ends of a trustline carry opposite signs: what
one lends, the other borrows; and README.md:69-71 does so in its example.  `set-balance`
puts one amount into the message and into the sender's table (saiga.ts:65-66), and the
receiver sets it as it comes (saiga.ts:167): both ends lend.

`batch_false_loop`: DLD.md:60 has traces do the final detection of loops.  The log of a
trace has room for one leg for each friend (tracesengine.ts:45), so that a node forgets a
leg when another passes between it and the same friend.  A branch of the first that comes
by later is taken for new, is passed on, and can come home from the friend to which the
leg was sent: a loop is announced, and a lift proposed, over one and the same link.
`LoopFoundMeansLoop` holds in the kite and the diamond, where no leg has two branches that
come by a node with another leg in between.

`batch_lifts`: README.md:68 says of the circle that it triggers a lift.  No lift is ever
reported as completed, for two reasons, each of which would be enough.

* A leg that bounces is logged for the friend it came from and not for the friend it
  goes to (tracesengine.ts:95), so `getOtherParty` leads the proposal no further than
  that node.  A loop all of whose traces bounce gets no lift.
* `getOtherParty` (tracesengine.ts:123) knows one friend for each leg that the node
  created.  The proposal comes home from the other friend and is found to have another
  party; the commit comes home from the one it knows and is not.  It is dropped
  (loopsengine.ts:110).  The branch of `HandleCommit` for it is never taken.

`commands_netting`: README.md:51 says that agents start netting on their own once
trustlines are set, and README.md:57-59 makes a circle with three commands.  The
simulator of the second command has restored its nodes and does not listen to them
(networksimulator.ts:55).  The nodes that a command adds itself are heard, so `meet` of a
new agent to an old one arrives; whatever the old one sends is lost.  With the third
trustline both ends are old: the second agent never hears of it, and no loop is ever
found.  When the model listens to restored nodes, `NettingStarts` holds.  A balance that
is set by a later command changes at one end only, for the same reason:
`EndsAgree` holds within a process, and `Ledger.SetBalance` says that between processes
the other end never hears of it.

`locks_signal`: the wrappers say that they serialize work (zero's with_lock.py:2,
anytype's with_lock.py:2), REPORT.md:70 of Zero says that the lock does so, and
FAIRNESS-AUDIT.md:96 of Jazz asks for serial work "so orphan work cannot overlap the next
worker".  A signal that comes while `Popen` executes, when the command has been started
and is not yet known to the wrapper, releases the lock under it: in Zero's (with_lock.py:29-39)
a SIGINT before `signal.signal`, in PowerSync's (with_measurement_lock.py:50-57) and Anytype's
(with_lock.py:65-75) any of the two signals while `child` is `None`, in Replicache's and
Atomic's a SIGINT in `subprocess`.  The next wrapper then takes the lock and starts its
command beside the first.  Jazz's wrapper (locked.py:24-34) does so whenever it is stopped.
`SerialWork` says that nothing else does: no failure, kill or lateness.

What follows has no run that is expected to fail.

* DLD.md:22 has a waiting node go to *listening* when its okay arrives, and send its
  probes from there; `handleOkayToSendProbesMessage` (probesengine.ts:163) makes it talk,
  and the semaphore needs that: with the words of DLD.md both ends of the link would
  listen, and `OneTalker` and `LinkInv` would be false.  `EveryHandIsTaken` asks of both
  only that it stops waiting.
* DLD.md:105-107 has a leg that meets another one forwarded to where the other came from.
  `getOtherLeg` (tracesengine.ts:36) takes the first key of the log that has another leg,
  and the log also holds the friends a leg was sent to (tracesengine.ts:51).  The key that
  was inserted first is the right one, but when names are integers, as in
  `testnet-10.csv`, the smallest comes first.  The leg then goes on where the other went,
  and the trace need not come home.  With `Numbered <- OutsiderFirst` in
  `MCTracesKite.cfg`, which makes all names integers, and that of the node outside the
  circle the smallest, TLC finds `BounceTurnsRound` violated.
* DLD.md:15-18 says that only one of the two nodes of a link is in talking mode, so that
  two copies of a probe do not pass in mid-air.  When two nodes are told to meet each
  other before either `meet` has arrived, both have sent their probes as talkers when
  `process` (saiga.ts:157-160) handles the other's `meet`: it ignores that `addFriend`
  found the friend and lets the probes engine start over as listener.  A probe then
  crosses itself and both ends ignore it: `batch_crossing` gets there (`IgnoreProbe`), and
  neither `NoMidAirCrossing` nor `OneTalker` holds in it.  With one command at a time and
  a flush after each, this does not come up; with `init` and a csv file that names a pair
  in both directions it does.
* A lift moves no balance (README.md:68-71, loopsengine.ts:108-115), and nobody ever says
  no to one, whatever the balances (README.md:34-48).
* `getBalances` names the balances by position and not by friend (saiga.ts:70).
* `sim` delivers nothing: `init` leaves all its messages in the batch, which no snapshot
  brings back.
* The comment at saiga.ts:176, that what `meet` emits only waits for the next round of
  messages, is wrong for `BasicNetworkSimulator`.
* Wrappers that look for the marker once take the lock when it appears in between;
  PowerSync's looks again.
* Jazz's wrapper leaves the lock behind when its time is up at the moment at which it has
  made the directory (locked.py:15-21).
* Atomic's wrapper says that it waits up to 30 minutes, and ends with an error when
  `owner.json` or the lock is removed while it reads its files
  (with_measurement_lock.py:13).

## 6. The plan

Done, in this order: `ProbesEngine` and `ProbeFlood` with the safety proofs;
`TracesEngine`, `LoopsEngine` and `BatchedNetworkSimulator`; `Lift` with the proof that
its steps are implemented; `Saiga`; `CommandLine` and `Ledger`; `MeasurementLock` with
its proofs; the refinements between the layers, in `LoopsEngineProofs`, `SaigaProofs` and
`BatchedNetworkSimulatorProofs`, and with them the theorems of each layer for those above;
the steps of `ImplementsLedger`; `EndsAgree`.

What is left are proofs: the packages of the batch, one for each message under way, and
the records of the traces engines underneath the loops engines.

### Not modelled

* `BasicNetworkSimulator`, which delivers a message inside the call that sends it: it is
  exported and nothing in the repository uses it.
* Two commands at a time: each reads the snapshot and writes it, and the one that writes
  last wins.
* The amounts of lifts, which are all 1, and what a command does with an amount that is
  no number.
* Wrappers that are started anew after they gave up.
* Log and PlantUML formatting, which keep no state (`util.ts`); the npm build.
* The benchmark harnesses: what they exercise is the state of other synchronisation
  systems.  Fixtures and reports: scripts that turn files into files.
