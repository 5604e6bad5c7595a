--------------------------- MODULE MeasurementLock ---------------------------
(***************************************************************************)
(* The lock that serializes the benchmarks (src/benchmarks): a directory,  *)
(* which only one process can make, with a file in it that says who its    *)
(* owner is.  Each engine has a wrapper of its own that waits for the lock,*)
(* runs a command and releases the lock.  All but that of the Atomic engine*)
(* wait while a marker says that Atomic wants to go first.                 *)
(***************************************************************************)
EXTENDS Naturals, FiniteSets

CONSTANTS
  Workers,   \* the processes that run a wrapper
  Engine     \* Engine[w]: the engine whose wrapper w is

Engines == {"atomic", "jazz", "powersync", "replicache", "zero", "anytype"}

ASSUME EngineAssumption == Engine \in [Workers -> Engines] /\ "nobody" \notin Workers

VARIABLES
  pc,        \* pc[w]: what w does next
  late,      \* the workers that have waited for as long as they may
  child,     \* the workers whose command is running
  lock,      \* whether the directory is there
  owner,     \* the worker that owner.json names, or "nobody" when there is no such file
  marker,    \* whether there is a marker of Atomic
  maker,     \* the worker that made the directory, which nothing records
  stopped    \* the workers that a signal has made release the lock under their command,
             \* which nothing records

vars == <<pc, late, child, lock, owner, marker, maker, stopped>>

files == <<lock, owner, maker>>

Steps == {"look", "mkdir", "decide", "recheck", "write", "start", "popen", "run", "unlink",
          "rmdir", "gone", "dead"}

(* The steps of a worker that has made the directory and goes on. *)
Holding == {"recheck", "write", "start", "popen", "run", "unlink", "rmdir"}

Waiting == {"look", "mkdir", "decide", "recheck"}

(* The Atomic wrapper does not look for markers. *)
First(w) == IF Engine[w] = "atomic" THEN "mkdir" ELSE "look"

At(w, step) == pc[w] = step

Goto(w, step) == pc' = [pc EXCEPT ![w] = step]

Remove == lock' = FALSE /\ maker' = "nobody"

(* The cleanup of all wrappers: the lock is released if the file names the worker. *)
Release(w) == Goto(w, IF owner = w THEN "unlink" ELSE "gone")

-----------------------------------------------------------------------------
(***************************************************************************)
(* Mutants: the ways in which a plausible bug changes the actions below.   *)
(***************************************************************************)

(* Mkdir with exist_ok. *)
MkdirExistOk(w) ==
  /\ At(w, "mkdir")
  /\ Goto(w, IF Engine[w] \in {"jazz", "powersync"} THEN "recheck" ELSE "write")
  /\ lock' = TRUE /\ maker' = w
  /\ UNCHANGED <<late, child, owner, marker, stopped>>

(* Decide that never looks at the time. *)
DecideToGoOn(w) ==
  /\ At(w, "decide")
  /\ Goto(w, First(w))
  /\ UNCHANGED <<late, child, files, marker, stopped>>

(* Decide that takes a lock for stale after a long wait, and removes it. *)
DecideToSteal(w) ==
  /\ At(w, "decide")
  /\ Goto(w, First(w))
  /\ IF w \in late THEN Remove /\ owner' = "nobody" ELSE UNCHANGED files
  /\ UNCHANGED <<late, child, marker, stopped>>

(* Finish that does not wait for the command. *)
FinishAtOnce(w) ==
  /\ At(w, "run")
  /\ Release(w)
  /\ UNCHANGED <<late, child, files, marker, stopped>>

(* Finish that forgets to release. *)
FinishUnreleased(w) ==
  /\ At(w, "run")
  /\ w \notin child
  /\ Goto(w, "gone")
  /\ UNCHANGED <<late, child, files, marker, stopped>>

-----------------------------------------------------------------------------
Init ==
  /\ pc = [w \in Workers |-> First(w)]
  /\ late = {} /\ child = {} /\ stopped = {}
  /\ lock = FALSE /\ owner = "nobody" /\ maker = "nobody"
  /\ marker \in BOOLEAN

(* A worker other than Atomic's goes on only when there is no marker. *)
Look(w) ==
  /\ At(w, "look")
  /\ Goto(w, IF marker THEN "decide" ELSE "mkdir")
  /\ UNCHANGED <<late, child, files, marker, stopped>>

(* Jazz's wrapper then looks at the time, and PowerSync's for a marker again. *)
Mkdir(w) ==
  /\ At(w, "mkdir")
  /\ IF lock
     THEN Goto(w, "decide") /\ UNCHANGED files
     ELSE /\ Goto(w, IF Engine[w] \in {"jazz", "powersync"} THEN "recheck" ELSE "write")
          /\ lock' = TRUE /\ maker' = w
          /\ UNCHANGED owner
  /\ UNCHANGED <<late, child, marker, stopped>>

(* A worker that has not got the lock gives up when it is late. *)
Decide(w) ==
  /\ At(w, "decide")
  /\ Goto(w, IF w \in late THEN "gone" ELSE First(w))
  /\ UNCHANGED <<late, child, files, marker, stopped>>

(* The Atomic wrapper reads the files of a lock that it could not get, and fails when
   one of them has been removed since. *)
FailToRead(w) ==
  /\ At(w, "decide")
  /\ Engine[w] = "atomic"
  /\ ~lock \/ owner = "nobody"
  /\ Goto(w, "gone")
  /\ UNCHANGED <<late, child, files, marker, stopped>>

(* PowerSync's wrapper gives the lock back when there is a marker. *)
Recheck(w) ==
  /\ At(w, "recheck")
  /\ Engine[w] = "powersync"
  /\ IF marker
     THEN Goto(w, "decide") /\ Remove
     ELSE Goto(w, "write") /\ UNCHANGED <<lock, maker>>
  /\ UNCHANGED <<late, child, owner, marker, stopped>>

(* Jazz's wrapper gives up when it is late, also if it has just got the lock: it says
   nowhere that it has, and does not release it. *)
GiveUpLate(w) ==
  /\ At(w, "recheck")
  /\ Engine[w] = "jazz"
  /\ Goto(w, IF w \in late THEN "gone" ELSE "write")
  /\ UNCHANGED <<late, child, files, marker, stopped>>

WriteOwner(w) ==
  /\ At(w, "write")
  /\ Goto(w, "start")
  /\ owner' = w
  /\ UNCHANGED <<late, child, lock, maker, marker, stopped>>

(* The file cannot be written: no wrapper removes a lock that does not say whose it is. *)
FailToWrite(w) ==
  /\ At(w, "write")
  /\ Goto(w, "gone")
  /\ UNCHANGED <<late, child, files, marker, stopped>>

(* Popen has started the command, and has not returned. *)
StartCommand(w) ==
  /\ At(w, "start")
  /\ Goto(w, "popen")
  /\ child' = child \cup {w}
  /\ UNCHANGED <<late, files, marker, stopped>>

(* There is no such command, or a signal comes before it has been started. *)
FailToStart(w) ==
  /\ At(w, "start")
  /\ Release(w)
  /\ UNCHANGED <<late, child, files, marker, stopped>>

(* Popen has returned, and the worker is set to wait for the command and, in Zero's
   wrapper, to pass signals on. *)
Attend(w) ==
  /\ At(w, "popen")
  /\ Goto(w, "run")
  /\ UNCHANGED <<late, child, files, marker, stopped>>

(* The command has ended, or a signal has made the worker kill it and wait for its end. *)
Finish(w) ==
  /\ At(w, "run")
  /\ w \notin child
  /\ Release(w)
  /\ UNCHANGED <<late, child, files, marker, stopped>>

(* A signal ends Popen with an exception when the command has been started: no wrapper
   knows of a command then that it should wait for.  Jazz's does not wait for its
   command later either. *)
Abandon(w) ==
  /\ At(w, "popen") \/ (At(w, "run") /\ Engine[w] = "jazz")
  /\ Release(w)
  /\ stopped' = stopped \cup (child \cap {w})
  /\ UNCHANGED <<late, child, files, marker>>

Unlink(w) ==
  /\ At(w, "unlink")
  /\ Goto(w, "rmdir")
  /\ owner' = "nobody"
  /\ UNCHANGED <<late, child, lock, maker, marker, stopped>>

Rmdir(w) ==
  /\ At(w, "rmdir")
  /\ Goto(w, "gone")
  /\ Remove
  /\ UNCHANGED <<late, child, owner, marker, stopped>>

(* What a worker does by itself. *)
Step(w) ==
  \/ Look(w)
  \/ Mkdir(w)
  \/ Decide(w)
  \/ FailToRead(w)
  \/ Recheck(w)
  \/ GiveUpLate(w)
  \/ WriteOwner(w)
  \/ FailToWrite(w)
  \/ StartCommand(w)
  \/ FailToStart(w)
  \/ Attend(w)
  \/ Finish(w)
  \/ Unlink(w)
  \/ Rmdir(w)

ChildEnds(w) ==
  /\ w \in child
  /\ child' = child \ {w}
  /\ UNCHANGED <<pc, late, files, marker, stopped>>

Elapse(w) ==
  /\ w \notin late
  /\ late' = late \cup {w}
  /\ UNCHANGED <<pc, child, files, marker, stopped>>

(* A worker is killed, or a signal comes where its wrapper does not release the lock:
   its command goes on. *)
Kill(w) ==
  /\ pc[w] \notin {"gone", "dead"}
  /\ Goto(w, "dead")
  /\ UNCHANGED <<late, child, files, marker, stopped>>

(* Atomic's marker comes or goes. *)
Mark == marker' = ~marker /\ UNCHANGED <<pc, late, child, files, stopped>>

Next ==
  \/ \E w \in Workers : Step(w) \/ Abandon(w) \/ ChildEnds(w) \/ Elapse(w) \/ Kill(w)
  \/ Mark

Spec == Init /\ [][Next]_vars

(* Workers go on, and time does; commands need not end, and signals need not come. *)
FairSpec == Spec /\ \A w \in Workers : WF_vars(Step(w)) /\ WF_vars(Elapse(w))

-----------------------------------------------------------------------------
(***************************************************************************)
(* What the lock promises.                                                 *)
(***************************************************************************)
TypeOK ==
  /\ pc \in [Workers -> Steps]
  /\ late \subseteq Workers /\ child \subseteq Workers /\ stopped \subseteq Workers
  /\ lock \in BOOLEAN /\ marker \in BOOLEAN
  /\ owner \in Workers \cup {"nobody"} /\ maker \in Workers \cup {"nobody"}

(* Who is at work has made the directory. *)
HoldersMade == \A w \in Workers : pc[w] \in Holding => lock /\ maker = w

(* The file names a worker that made the directory and is at work, or was killed. *)
OwnerAtWork ==
  owner # "nobody" =>
    lock /\ maker = owner /\ pc[owner] \in {"start", "popen", "run", "unlink", "dead"}

(* A command that runs does so for the maker of the directory, which stays, whether the
   maker is at work or was killed, until the command has ended or a signal has made the
   maker release it. *)
ChildrenGuarded ==
  \A w \in child : w \notin stopped => lock /\ maker = w /\ pc[w] \in {"popen", "run", "dead"}

(* The file names a worker at work until the worker has unlinked it. *)
FileInTime == \A w \in Workers : pc[w] \in {"start", "popen", "run", "unlink"} => owner = w

(* The directory, its file, the commands and the workers fit together: in particular a
   file that stays behind names a worker that was killed, as the wrappers report it. *)
LockInv == TypeOK /\ HoldersMade /\ OwnerAtWork /\ ChildrenGuarded /\ FileInTime

(* At most one worker holds the lock. *)
OneHolder == \A v, w \in Workers : pc[v] \in Holding /\ pc[w] \in Holding => v = w

(* No two commands run at the same time, not even when workers are killed, fail or end
   their commands, unless a signal has made a worker release the lock under one of them.
   That this happens is what OneCommand reports. *)
SerialWork == \A v, w \in child : v = w \/ v \in stopped \/ w \in stopped

(* No two commands ever run at the same time, as the wrappers say ("Serialize sustained
   work", zero's with_lock.py:2): false, for any two wrappers, when a signal comes while
   one of them executes Popen. *)
OneCommand == \A v, w \in child : v = w

(* Only the worker that made the directory removes it, by a step of its own. *)
OnlyMakerRemoves ==
  [][lock /\ ~lock' => \E w \in Workers : maker = w /\ pc[w] \in Holding /\ pc'[w] # pc[w]]_vars

(* Every wait for the lock ends, whatever the others and the marker do. *)
EveryWaitEnds == \A w \in Workers : pc[w] \in Waiting ~> pc[w] \notin Waiting

=============================================================================
