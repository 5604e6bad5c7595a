------------------------ MODULE MeasurementLockProofs ------------------------
(***************************************************************************)
(* Theorems about MeasurementLock, for every set of workers, of whatever   *)
(* engines.  LockInv is inductive as it stands: it says of every step of a *)
(* worker what the directory and the file are then, so nothing is left to  *)
(* remember.                                                               *)
(***************************************************************************)
EXTENDS MeasurementLock, TLAPS

(* The lock is free at first, and nobody has anything to do with it. *)
LEMMA InitLock == Init => LockInv
  BY EngineAssumption DEF Init, LockInv, TypeOK, HoldersMade, OwnerAtWork, ChildrenGuarded,
    FileInTime, First, Holding, Steps

(* A step of a worker keeps the invariant. *)
LEMMA StepLock ==
  ASSUME NEW w \in Workers, LockInv, Step(w)
  PROVE  LockInv'
<1> USE EngineAssumption DEF LockInv, TypeOK, HoldersMade, OwnerAtWork, ChildrenGuarded,
      FileInTime, First, Holding, Steps, At, Goto, files
<1>1. CASE Look(w)
  BY <1>1 DEF Look
<1>2. CASE Mkdir(w)
  BY <1>2 DEF Mkdir
<1>3. CASE Decide(w)
  BY <1>3 DEF Decide
<1>4. CASE FailToRead(w)
  BY <1>4 DEF FailToRead
<1>5. CASE Recheck(w)
  BY <1>5 DEF Recheck, Remove
<1>6. CASE GiveUpLate(w)
  BY <1>6 DEF GiveUpLate
<1>7. CASE WriteOwner(w)
  BY <1>7 DEF WriteOwner
<1>8. CASE FailToWrite(w)
  BY <1>8 DEF FailToWrite
<1>9. CASE StartCommand(w)
  BY <1>9 DEF StartCommand
<1>10. CASE FailToStart(w)
  BY <1>10 DEF FailToStart, Release
<1>11. CASE Attend(w)
  BY <1>11 DEF Attend
<1>12. CASE Finish(w)
  BY <1>12 DEF Finish, Release
<1>13. CASE Unlink(w)
  BY <1>13 DEF Unlink
<1>14. CASE Rmdir(w)
  BY <1>14 DEF Rmdir, Remove
<1> QED
  BY <1>1, <1>2, <1>3, <1>4, <1>5, <1>6, <1>7, <1>8, <1>9, <1>10, <1>11, <1>12, <1>13, <1>14
    DEF Step

(* So does a signal that ends Popen: what the worker releases is its own. *)
LEMMA AbandonLock ==
  ASSUME NEW w \in Workers, LockInv, Abandon(w)
  PROVE  LockInv'
  BY EngineAssumption DEF Abandon, Release, LockInv, TypeOK, HoldersMade, OwnerAtWork,
    ChildrenGuarded, FileInTime, Holding, Steps, At, Goto, files

(* So does every step of the system. *)
LEMMA NextLock == LockInv /\ [Next]_vars => LockInv'
<1> SUFFICES ASSUME LockInv, [Next]_vars PROVE LockInv'
  OBVIOUS
<1> USE EngineAssumption DEF LockInv, TypeOK, HoldersMade, OwnerAtWork, ChildrenGuarded,
      FileInTime, Holding, Steps, Goto, files
<1>1. ASSUME NEW w \in Workers, Step(w) PROVE LockInv'
  BY <1>1, StepLock
<1>2. ASSUME NEW w \in Workers, ChildEnds(w) PROVE LockInv'
  BY <1>2 DEF ChildEnds
<1>3. ASSUME NEW w \in Workers, Elapse(w) PROVE LockInv'
  BY <1>3 DEF Elapse
<1>4. ASSUME NEW w \in Workers, Kill(w) PROVE LockInv'
  BY <1>4 DEF Kill
<1>5. CASE Mark
  BY <1>5 DEF Mark
<1>6. CASE UNCHANGED vars
  BY <1>6 DEF vars
<1>7. ASSUME NEW w \in Workers, Abandon(w) PROVE LockInv'
  BY <1>7, AbandonLock
<1> QED
  BY <1>1, <1>2, <1>3, <1>4, <1>5, <1>6, <1>7 DEF Next

(* The directory, its file, the commands and the workers always fit together. *)
THEOREM LockInvCorrect == Spec => []LockInv
  BY InitLock, NextLock, PTL DEF Spec

-----------------------------------------------------------------------------
(* At most one worker holds the lock, also when workers are killed, give up after they
   have made the directory, or cannot write the file. *)
THEOREM OneHolderCorrect == Spec => []OneHolder
<1>1. LockInv => OneHolder
  BY DEF LockInv, HoldersMade, OneHolder
<1> QED
  BY <1>1, LockInvCorrect, PTL

(* No two commands run at the same time unless a signal has made a worker release the
   lock under one of them: the directory stays until the command of its maker has ended,
   whichever wrapper that is and also when it was killed. *)
THEOREM SerialWorkCorrect == Spec => []SerialWork
<1>1. ASSUME LockInv, NEW v \in child, NEW w \in child, v \notin stopped, w \notin stopped
      PROVE  v = w
  <2>1. maker = v /\ maker = w
    BY <1>1 DEF LockInv, ChildrenGuarded
  <2> QED
    BY <2>1
<1>2. LockInv => SerialWork
  BY <1>1 DEF SerialWork
<1> QED
  BY <1>2, LockInvCorrect, PTL

(* Only the worker that made the directory removes it. *)
THEOREM OnlyMakerRemovesCorrect == Spec => OnlyMakerRemoves
<1> DEFINE ByMaker ==
      lock /\ ~lock' => \E w \in Workers : maker = w /\ pc[w] \in Holding /\ pc'[w] # pc[w]
<1>1. ASSUME LockInv, Next, lock, ~lock'
      PROVE  \E w \in Workers : maker = w /\ pc[w] \in Holding /\ pc'[w] # pc[w]
  <2>1. PICK w \in Workers : Step(w) \/ Abandon(w) \/ ChildEnds(w) \/ Elapse(w) \/ Kill(w) \/ Mark
    BY <1>1 DEF Next, Mark, files
  <2>2. Recheck(w) \/ Rmdir(w)
    BY <1>1, <2>1 DEF Step, Look, Mkdir, Decide, FailToRead, GiveUpLate, WriteOwner,
      FailToWrite, StartCommand, FailToStart, Attend, Finish, Abandon, Unlink, ChildEnds, Elapse, Kill, Mark, files
  <2>3. pc[w] \in {"recheck", "rmdir"} /\ pc'[w] \in {"decide", "gone"}
    BY <1>1, <2>2 DEF Recheck, Rmdir, At, Goto, LockInv, TypeOK
  <2>4. maker = w /\ pc[w] \in Holding
    BY <1>1, <2>3 DEF LockInv, HoldersMade, Holding
  <2> QED
    BY <2>3, <2>4
<1>2. LockInv /\ [Next]_vars => [ByMaker]_vars
  BY <1>1
<1> QED
  BY <1>2, LockInvCorrect, PTL DEF Spec, OnlyMakerRemoves

=============================================================================
