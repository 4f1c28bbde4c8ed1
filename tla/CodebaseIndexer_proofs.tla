---------------------- MODULE CodebaseIndexer_proofs ----------------------
(***************************************************************************)
(* The invariants of CodebaseIndexer, for every set of windows and calls   *)
(* and every timing with Heartbeat + MaxLag <= Stale.                      *)
(***************************************************************************)
EXTENDS CodebaseIndexer, TLAPS

\* The places of a run: which sets of them contain which.
LEMMA PCsLemma ==
    /\ Running \subseteq PCs /\ Dead \subseteq PCs
    /\ Beating \subseteq Holding /\ Holding \subseteq Running
    /\ Running \cap Dead = {}
BY DEF PCs, Running, Dead, Beating, Holding, Waiting, FilesPhase

\* A counted step is one more, or the bound that is not reached.
LEMMA CountLemma ==
    ASSUME TypeOK, NEW r \in Runs, CountLate(r)
    PROVE  /\ late' \in [Runs -> 0..LateCap]
           /\ \A o \in Runs : o # r => late'[o] = late[o]
           /\ ~aborted[r] => late'[r] = late[r]
           /\ late'[r] <= late[r] + 1
BY BoundAssumption DEF TypeOK, CountLate, LateCap

\* The generators of some runs end: their history is forgotten.
LEMMA ForgetLemma ==
    ASSUME TypeOK, NEW gone, Forget(gone)
    PROVE  /\ dirsLeft' \in [Runs -> 0..MaxDirs - 1]
           /\ late' \in [Runs -> 0..LateCap]
           /\ empty' \in [Runs -> 0..MaxDirs]
           /\ \A o \in Runs :
                 \/ dirsLeft'[o] = 0 /\ late'[o] = 0 /\ empty'[o] = 0
                 \/ /\ dirsLeft'[o] = dirsLeft[o] /\ late'[o] = late[o]
                    /\ empty'[o] = empty[o] /\ o \notin gone
<1> USE BoundAssumption DEF TypeOK, LateCap
<1>1. dirsLeft' \in [Runs -> 0..MaxDirs - 1]
  BY DEF Forget
<1>2. late' \in [Runs -> 0..LateCap]
  BY DEF Forget
<1>3. empty' \in [Runs -> 0..MaxDirs]
  BY DEF Forget
<1>4. QED
  BY <1>1, <1>2, <1>3 DEF Forget

\* A loop body goes on, waits or leaves; only leaving changes the histories.
LEMMA CheckLemma ==
    ASSUME TypeOK, NEW r \in Runs, NEW from, NEW pausedAt, NEW on,
           CheckYield(r, from, pausedAt, on)
    PROVE  /\ dirsLeft' \in [Runs -> 0..MaxDirs - 1]
           /\ late' \in [Runs -> 0..LateCap]
           /\ empty' \in [Runs -> 0..MaxDirs]
           /\ pc[r] \in from
           /\ pausedAt \in PCs /\ on \in PCs => pc' \in [Runs -> PCs]
           /\ \/ pc' = [pc EXCEPT ![r] = "unlock"] /\ aborted[r] /\ Forget({r})
              \/ /\ pc' = [pc EXCEPT ![r] = pausedAt] \/ pc' = [pc EXCEPT ![r] = on]
                 /\ ~aborted[r]
                 /\ UNCHANGED <<dirsLeft, late, empty>>
<1>1. CASE Leave(r, from) /\ aborted[r]
  BY <1>1, ForgetLemma DEF Leave, Goto, TypeOK, PCs, Running, Holding
<1>2. CASE /\ Stay(r, from, pausedAt) \/ Stay(r, from, on)
           /\ ~aborted[r]
  BY <1>2 DEF Stay, Goto, walkVars, TypeOK
<1>3. QED
  BY <1>1, <1>2 DEF CheckYield

(* Every variable keeps its type. *)
THEOREM Typing == Spec => []TypeOK
<1>1. Init => TypeOK
  BY RunsAssumption, BoundAssumption DEF Init, TypeOK, PCs, LateCap
<1>2. TypeOK /\ [Next]_vars => TypeOK'
  <2> SUFFICES ASSUME TypeOK, [Next]_vars PROVE TypeOK'
    OBVIOUS
  <2> USE RunsAssumption, BoundAssumption DEF walkVars
  <2>1. ASSUME NEW r \in Runs, CodebaseStep(r) PROVE TypeOK'
    <3>1. CASE StartCodebase(r)
      BY <3>1 DEF StartCodebase, Goto, TakeOver, TypeOK, PCs, Running, Waiting, lockVars, envVars
    <3>2. CASE PollLock(r)
      BY <3>2 DEF PollLock, Goto, TypeOK, PCs, Running, Waiting, lockVars, envVars
    <3>3. CASE BreakLock(r)
      BY <3>3 DEF BreakLock, DeleteRows, Goto, TypeOK, PCs, Running, Waiting, lockVars, envVars
    <3>4. CASE AcquireLock(r)
      BY <3>4 DEF AcquireLock, Goto, TypeOK, PCs, Running, Holding, Beating, lockVars, envVars
    <3>5. CASE UpdateTimestamp(r)
      BY <3>5 DEF UpdateTimestamp, TypeOK, lockVars, envVars
    <3>6. CASE WalkFile(r)
      <4>1. CheckYield(r, {"walk"}, "walkPaused", "walk")
        BY <3>6 DEF WalkFile
      <4>2. "walkPaused" \in PCs /\ "walk" \in PCs
        BY DEF PCs, Running, Holding, Beating
      <4>3. /\ dirsLeft' \in [Runs -> 0..MaxDirs - 1]
            /\ late' \in [Runs -> 0..LateCap]
            /\ empty' \in [Runs -> 0..MaxDirs]
            /\ pc' \in [Runs -> PCs]
        BY <4>1, <4>2, CheckLemma
      <4>4. QED
        BY <3>6, <4>3 DEF WalkFile, TypeOK, lockVars, envVars
    <3>7. CASE WalkEnd(r)
      BY <3>7 DEF WalkEnd, CountLate, LateCap, Goto, TypeOK, PCs, Running, Holding, Beating, lockVars, envVars
    <3>8. CASE IndexYield(r)
      <4>1. CheckYield(r, {"plan", "index"}, "indexPaused", "index")
        BY <3>8 DEF IndexYield
      <4>2. "indexPaused" \in PCs /\ "index" \in PCs
        BY DEF PCs, Running, Holding, Beating
      <4>3. /\ dirsLeft' \in [Runs -> 0..MaxDirs - 1]
            /\ late' \in [Runs -> 0..LateCap]
            /\ empty' \in [Runs -> 0..MaxDirs]
            /\ pc' \in [Runs -> PCs]
        BY <4>1, <4>2, CheckLemma
      <4>4. QED
        BY <3>8, <4>3 DEF IndexYield, TypeOK, lockVars, envVars
    <3>9. CASE Resume(r)
      BY <3>9 DEF Resume, CountLate, LateCap, Goto, TypeOK, PCs, Running, Holding, Beating, lockVars, envVars
    <3>10. CASE NextDirectory(r)
      BY <3>10 DEF NextDirectory, CountLate, LateCap, Goto, TypeOK, PCs, Running, Holding, Beating, lockVars, envVars
    <3>11. CASE FinishDirs(r) \/ DirsError(r)
      BY <3>11, ForgetLemma DEF FinishDirs, DirsError, Leave, Goto, TypeOK, PCs, Running, Holding,
                                lockVars, envVars
    <3>12. CASE Unlock(r)
      BY <3>12 DEF Unlock, DeleteRows, Goto, TypeOK, PCs, Running, lockVars, envVars
    <3>13. CASE Settle(r)
      BY <3>13 DEF Settle, AbortIfCurrent, Goto, TypeOK, PCs, lockVars, envVars
    <3>14. CASE LockTableError(r)
      BY <3>14 DEF LockTableError, Goto, TypeOK, PCs, Dead, lockVars, envVars
    <3>15. QED
      BY <2>1, <3>1, <3>2, <3>3, <3>4, <3>5, <3>6, <3>7, <3>8, <3>9, <3>10, <3>11,
         <3>12, <3>13, <3>14 DEF CodebaseStep
  <2>2. ASSUME NEW r \in Runs, FilesStep(r) PROVE TypeOK'
    <3>1. CASE StartFiles(r)
      BY <3>1 DEF StartFiles, Goto, TakeOver, TypeOK, PCs, Running, FilesPhase, lockVars, envVars
    <3>2. CASE DropFiles(r)
      BY <3>2 DEF DropFiles, Goto, TypeOK, PCs, lockVars, envVars
    <3>3. CASE NextFile(r) \/ FileDone(r) \/ ResumeFiles(r)
      BY <3>3 DEF NextFile, FileDone, ResumeFiles, Goto, TypeOK, PCs, Running, FilesPhase,
                  lockVars, envVars
    <3>4. CASE FinishFiles(r) \/ FilesError(r)
      BY <3>4 DEF FinishFiles, FilesError, AbortIfCurrent, Goto, TypeOK, PCs, lockVars, envVars
    <3>5. QED
      BY <2>2, <3>1, <3>2, <3>3, <3>4 DEF FilesStep
  <2>3. ASSUME NEW w \in Windows, WindowStep(w) PROVE TypeOK'
    <3>1. CASE SetPaused(w)
      BY <3>1 DEF SetPaused, TypeOK, lockVars
    <3>2. CASE Crash(w)
      BY <3>2, ForgetLemma DEF Crash, TypeOK, PCs, Dead
    <3>3. CASE Restart(w)
      BY <3>3 DEF Restart, TypeOK, lockVars
    <3>4. QED
      BY <2>3, <3>1, <3>2, <3>3 DEF WindowStep
  <2>4. CASE Tick
    BY <2>4 DEF Tick, Older, TypeOK, envVars
  <2>5. CASE UNCHANGED vars
    BY <2>5 DEF vars, TypeOK
  <2>6. QED
    BY <2>1, <2>2, <2>3, <2>4, <2>5 DEF Next
<1>3. QED
  BY <1>1, <1>2, PTL DEF Spec

----------------------------------------------------------------------------
(* Cancellation *)

\* Only a run that goes on, or one that a rejected statement left behind, has
\* an un-aborted controller; and while it goes on, it is its window's current.
ControllerInv ==
    /\ \A r \in Runs : ~aborted[r] => pc[r] \in Running \cup {"failed"}
    /\ OnlyCurrentUnaborted
    /\ \A w \in Windows : controller[w] \in Runs => WindowOf[controller[w]] = w

\* At the start nothing runs and every controller is aborted.
LEMMA ControllerInvInit == Init => ControllerInv
BY RunsAssumption DEF Init, ControllerInv, OnlyCurrentUnaborted

\* Taking over: whoever was un-aborted in the window was current, and is
\* aborted by the step.
LEMMA TakeOverLemma ==
    ASSUME TypeOK, ControllerInv, NEW r \in Runs, NEW to \in Running,
           Goto(r, {"idle"}, to), TakeOver(r)
    PROVE  ControllerInv'
<1> USE RunsAssumption
<1>1. ASSUME NEW o \in Runs, ~aborted'[o] PROVE pc'[o] \in Running \cup {"failed"}
  BY <1>1 DEF TypeOK, ControllerInv, Goto, TakeOver
<1>2. ASSUME NEW o \in Runs, pc'[o] \in Running, ~aborted'[o]
      PROVE  controller'[WindowOf[o]] = o
  BY <1>2 DEF TypeOK, ControllerInv, OnlyCurrentUnaborted, Goto, TakeOver
<1>3. ASSUME NEW w \in Windows, controller'[w] \in Runs
      PROVE  WindowOf[controller'[w]] = w
  BY <1>3 DEF TypeOK, ControllerInv, TakeOver
<1>4. QED
  BY <1>1, <1>2, <1>3 DEF ControllerInv, OnlyCurrentUnaborted

\* Ending: a run that ends aborts its controller if it is current, and if it
\* is not, its controller has been aborted already.
LEMMA EndingLemma ==
    ASSUME TypeOK, ControllerInv, NEW r \in Runs, NEW from \in SUBSET Running,
           Goto(r, from, "done"), AbortIfCurrent(r)
    PROVE  ControllerInv'
BY RunsAssumption DEF TypeOK, ControllerInv, OnlyCurrentUnaborted, Goto, AbortIfCurrent

\* Going on: the controllers stay as they are.
LEMMA GoingOnLemma ==
    ASSUME TypeOK, ControllerInv, NEW r \in Runs, NEW from \in SUBSET Running,
           NEW to \in Running \cup {"failed"}, Goto(r, from, to),
           UNCHANGED <<controller, aborted>>
    PROVE  ControllerInv'
BY RunsAssumption DEF TypeOK, ControllerInv, OnlyCurrentUnaborted, Goto, Running, Waiting,
                      Holding, Beating, FilesPhase

\* Every action keeps ControllerInv, by one of the three lemmas above.
LEMMA ControllerInvStep == TypeOK /\ ControllerInv /\ [Next]_vars => ControllerInv'
<1> SUFFICES ASSUME TypeOK, ControllerInv, [Next]_vars PROVE ControllerInv'
  OBVIOUS
<1> USE PCsLemma
<1>1. ASSUME NEW r \in Runs, CodebaseStep(r) PROVE ControllerInv'
  <2> USE DEF Running, Waiting, Holding, Beating
  <2>1. CASE StartCodebase(r)
    BY <2>1, TakeOverLemma DEF StartCodebase
  <2>2. CASE PollLock(r)
    BY <2>2, GoingOnLemma DEF PollLock
  <2>3. CASE BreakLock(r)
    BY <2>3, GoingOnLemma DEF BreakLock
  <2>4. CASE AcquireLock(r)
    BY <2>4, GoingOnLemma DEF AcquireLock
  <2>5. CASE UpdateTimestamp(r)
    BY <2>5 DEF UpdateTimestamp, ControllerInv, OnlyCurrentUnaborted
  <2>6. CASE WalkFile(r) \/ IndexYield(r)
    BY <2>6, GoingOnLemma DEF WalkFile, IndexYield, CheckYield, Leave, Stay
  <2>7. CASE WalkEnd(r) \/ Resume(r) \/ NextDirectory(r)
    BY <2>7, GoingOnLemma DEF WalkEnd, Resume, NextDirectory
  <2>8. CASE FinishDirs(r) \/ DirsError(r) \/ Unlock(r)
    BY <2>8, GoingOnLemma DEF FinishDirs, DirsError, Leave, Unlock
  <2>9. CASE Settle(r)
    BY <2>9, EndingLemma DEF Settle
  <2>10. CASE LockTableError(r)
    BY <2>10, GoingOnLemma DEF LockTableError
  <2>11. QED
    BY <1>1, <2>1, <2>2, <2>3, <2>4, <2>5, <2>6, <2>7, <2>8, <2>9, <2>10 DEF CodebaseStep
<1>2. ASSUME NEW r \in Runs, FilesStep(r) PROVE ControllerInv'
  <2> USE DEF Running, FilesPhase
  <2>1. CASE StartFiles(r)
    BY <2>1, TakeOverLemma DEF StartFiles
  <2>2. CASE DropFiles(r)
    BY <2>2, RunsAssumption DEF DropFiles, Goto, TypeOK, ControllerInv, OnlyCurrentUnaborted,
                                Waiting, Holding, Beating
  <2>3. CASE NextFile(r) \/ FileDone(r) \/ ResumeFiles(r)
    BY <2>3, GoingOnLemma DEF NextFile, FileDone, ResumeFiles
  <2>4. CASE FinishFiles(r) \/ FilesError(r)
    BY <2>4, EndingLemma DEF FinishFiles, FilesError
  <2>5. QED
    BY <1>2, <2>1, <2>2, <2>3, <2>4 DEF FilesStep
<1>3. ASSUME NEW w \in Windows, WindowStep(w) PROVE ControllerInv'
  <2>1. CASE SetPaused(w) \/ Restart(w)
    BY <2>1 DEF SetPaused, Restart, ControllerInv, OnlyCurrentUnaborted
  <2>2. CASE Crash(w)
    BY <2>2, RunsAssumption DEF Crash, TypeOK, ControllerInv, OnlyCurrentUnaborted
  <2>3. QED
    BY <1>3, <2>1, <2>2 DEF WindowStep
<1>4. CASE Tick
  BY <1>4 DEF Tick, ControllerInv, OnlyCurrentUnaborted
<1>5. CASE UNCHANGED vars
  BY <1>5 DEF vars, ControllerInv, OnlyCurrentUnaborted
<1>6. QED
  BY <1>1, <1>2, <1>3, <1>4, <1>5 DEF Next

(* In every window at most one un-aborted run goes on: the one the next      *)
(* codebase refresh aborts.                                                *)
THEOREM Cancellable == Spec => []OnlyCurrentUnaborted
<1>1. ControllerInv => OnlyCurrentUnaborted
  BY DEF ControllerInv
<1>2. QED
  BY <1>1, ControllerInvInit, ControllerInvStep, Typing, PTL DEF Spec

(* While a window is busy the current run goes on, or a rejected lock         *)
(* statement left its controller un-aborted.                               *)
THEOREM BusyTheorem == Spec => []BusyMeansRunning
<1>1. TypeOK /\ ControllerInv => BusyMeansRunning
  BY DEF TypeOK, ControllerInv, BusyMeansRunning, Busy
<1>2. QED
  BY <1>1, ControllerInvInit, ControllerInvStep, Typing, PTL DEF Spec

\* A step aborts a controller only as AbortedByCodebaseOnly allows.
LEMMA AbortStep ==
    TypeOK /\ ControllerInv /\ [Next]_vars => [AbortedByCodebaseOnly]_vars
<1> SUFFICES ASSUME TypeOK, ControllerInv, Next,
                    NEW v \in Runs, ~aborted[v], aborted'[v]
             PROVE  \/ pc'[v] \in Dead \cup {"done"}
                    \/ \E o \in Runs : /\ WindowOf[o] = WindowOf[v]
                                       /\ pc[o] = "idle" /\ pc'[o] = "wait"
  BY DEF AbortedByCodebaseOnly
<1> USE RunsAssumption
<1>1. ASSUME NEW r \in Runs, CodebaseStep(r), aborted' # aborted
      PROVE  StartCodebase(r) \/ Settle(r)
  BY <1>1 DEF CodebaseStep, PollLock, BreakLock, AcquireLock, UpdateTimestamp, WalkFile,
              WalkEnd, IndexYield, Resume, NextDirectory, FinishDirs, DirsError, Unlock,
              LockTableError
<1>2. ASSUME NEW r \in Runs, FilesStep(r), aborted' # aborted
      PROVE  StartFiles(r) \/ FinishFiles(r) \/ FilesError(r)
  BY <1>2 DEF FilesStep, DropFiles, NextFile, FileDone, ResumeFiles
<1>3. ASSUME NEW r \in Runs, StartCodebase(r)
      PROVE  /\ WindowOf[r] = WindowOf[v]
             /\ pc[r] = "idle" /\ pc'[r] = "wait"
  <2>1. v = controller[WindowOf[r]]
    BY <1>3 DEF StartCodebase, TakeOver, TypeOK
  <2>2. v # r
    BY <1>3 DEF StartCodebase, TakeOver, TypeOK
  <2>3. pc[r] = "idle" /\ pc'[r] = "wait"
    BY <1>3 DEF StartCodebase, Goto, TypeOK
  <2>4. controller'[WindowOf[r]] = r
    BY <1>3 DEF StartCodebase, TakeOver, TypeOK
  <2>5. WindowOf[r] = WindowOf[v]
    BY <2>1 DEF TypeOK, ControllerInv
  <2>6. QED
    BY <2>3, <2>5
<1>4. ASSUME NEW r \in Runs, StartFiles(r) PROVE FALSE
  BY <1>4 DEF StartFiles, TakeOver, Busy, TypeOK
<1>5. ASSUME NEW r \in Runs, Settle(r) \/ FinishFiles(r) \/ FilesError(r)
      PROVE  pc'[v] = "done"
  BY <1>5 DEF Settle, FinishFiles, FilesError, AbortIfCurrent, Goto, TypeOK
<1>6. ASSUME NEW w \in Windows, WindowStep(w) PROVE pc'[v] \in Dead
  BY <1>6 DEF WindowStep, SetPaused, Restart, Crash, TypeOK, ControllerInv, Dead
<1>7. CASE Tick
  BY <1>7 DEF Tick
<1>8. QED
  BY <1>1, <1>2, <1>3, <1>4, <1>5, <1>6, <1>7 DEF Next

(* A file refresh never cancels anything: a controller is aborted by its own  *)
(* run's end or by a codebase refresh of its window.                       *)
THEOREM NeverViceVersa == Spec => FilesNeverCancel
<1>1. Spec => [](TypeOK /\ ControllerInv)
  BY ControllerInvInit, ControllerInvStep, Typing, PTL DEF Spec
<1>2. QED
  BY <1>1, AbortStep, PTL DEF Spec, FilesNeverCancel

----------------------------------------------------------------------------
(* Time *)

\* A live holder wrote a timestamp at most Heartbeat + MaxLag ago, and no row
\* is older than its owner's last write.
TimeInv ==
    /\ RowsHaveOwners
    /\ \A r \in Runs : pc[r] \in Holding => beat[r] <= Heartbeat + MaxLag
    /\ \A r \in rows : pc[r] \in Holding => age[r] <= beat[r]

\* Every action keeps TimeInv: the heartbeat bounds the age of a held row.
LEMMA TimeInvStep == TypeOK /\ TimeInv /\ [Next]_vars => TimeInv'
<1> SUFFICES ASSUME TypeOK, TimeInv, [Next]_vars PROVE TimeInv'
  OBVIOUS
<1> USE RunsAssumption, TimeAssumption, PCsLemma DEF TypeOK, TimeInv, RowsHaveOwners
<1>1. ASSUME NEW r \in Runs, CodebaseStep(r) PROVE TimeInv'
  <2>1. CASE StartCodebase(r)
    BY <2>1 DEF StartCodebase, Goto, lockVars, Holding, Beating, Dead
  <2>2. CASE PollLock(r)
    BY <2>2 DEF PollLock, Goto, lockVars, Holding, Beating, Dead
  <2>3. CASE BreakLock(r)
    BY <2>3 DEF BreakLock, DeleteRows, Goto, Holding, Beating
  <2>4. CASE AcquireLock(r)
    BY <2>4 DEF AcquireLock, Goto, Holding, Beating
  <2>5. CASE UpdateTimestamp(r)
    BY <2>5 DEF UpdateTimestamp
  <2>6. CASE WalkFile(r) \/ IndexYield(r)
    BY <2>6 DEF WalkFile, IndexYield, CheckYield, Leave, Stay, Forget, Goto, lockVars, Holding, Beating
  <2>7. CASE WalkEnd(r) \/ Resume(r) \/ NextDirectory(r) \/ FinishDirs(r) \/ DirsError(r)
    BY <2>7 DEF WalkEnd, Resume, NextDirectory, FinishDirs, DirsError, Leave, Forget, Goto,
                lockVars, Holding, Beating
  <2>8. CASE Unlock(r)
    BY <2>8 DEF Unlock, DeleteRows, Goto, Holding, Beating
  <2>9. CASE Settle(r)
    BY <2>9 DEF Settle, Goto, lockVars, Holding, Beating, Dead
  <2>10. CASE LockTableError(r)
    BY <2>10 DEF LockTableError, Goto, Holding, Beating, Dead
  <2>11. QED
    BY <1>1, <2>1, <2>2, <2>3, <2>4, <2>5, <2>6, <2>7, <2>8, <2>9, <2>10 DEF CodebaseStep
<1>2. ASSUME NEW r \in Runs, FilesStep(r) PROVE TimeInv'
  BY <1>2 DEF FilesStep, StartFiles, DropFiles, NextFile, FileDone, ResumeFiles, FinishFiles,
              FilesError, Goto, lockVars, Holding, Beating, Dead
<1>3. ASSUME NEW w \in Windows, WindowStep(w) PROVE TimeInv'
  BY <1>3 DEF WindowStep, SetPaused, Restart, Crash, lockVars, Dead, Holding, Beating
<1>4. CASE Tick
  BY <1>4 DEF Tick, Holders, Older
<1>5. CASE UNCHANGED vars
  BY <1>5 DEF vars
<1>6. QED
  BY <1>1, <1>2, <1>3, <1>4, <1>5 DEF Next

\* TimeInv holds in every reachable state.
LEMMA TimeInvariant == Spec => []TimeInv
<1>1. Init => TimeInv
  BY DEF Init, TimeInv, RowsHaveOwners, Holding, Beating
<1>2. QED
  BY <1>1, TimeInvStep, Typing, PTL DEF Spec

(* No lock row outlives its run, unless the run died.                         *)
THEOREM NoRowLeftBehind == Spec => []RowsHaveOwners
<1>1. TimeInv => RowsHaveOwners
  BY DEF TimeInv
<1>2. QED
  BY <1>1, TimeInvariant, PTL

(* A row that looks stale belongs to a dead run.                              *)
THEOREM StaleMeansDead == Spec => []OnlyDeadLocksLookStale
<1>1. TypeOK /\ TimeInv => OnlyDeadLocksLookStale
  BY TimeAssumption DEF TypeOK, TimeInv, RowsHaveOwners, OnlyDeadLocksLookStale
<1>2. QED
  BY <1>1, TimeInvariant, Typing, PTL

----------------------------------------------------------------------------
(* Work after an abort *)

\* What an aborted run may have begun by the time it is at a place, the
\* directories it left with nothing to index aside.
Allowance(place) ==
    IF place = "index" THEN 1 ELSE IF place = "walk" THEN 2 ELSE 3

\* The steps an aborted run has begun fit the place it is at and the
\* directories it has left; elsewhere, or not aborted, it has begun none.
LateOf(r) ==
    /\ ~aborted[r] => late[r] = 0 /\ empty[r] = 0
    /\ pc[r] \notin {"walk", "plan", "index"} => late[r] = 0 /\ empty[r] = 0
    /\ late[r] <= Allowance(pc[r]) + 2 * empty[r]
    /\ late[r] <= 2 * (MaxDirs - dirsLeft[r])
    /\ pc[r] = "walk" => late[r] < 2 * (MaxDirs - dirsLeft[r])
    /\ empty[r] + dirsLeft[r] < MaxDirs

LateInv == \A r \in Runs : LateOf(r)

\* A loop body counts nothing: it leaves, or the run is not aborted.
LEMMA CheckedLemma ==
    ASSUME TypeOK, LateInv, NEW r \in Runs, NEW from, NEW pausedAt, NEW on,
           CheckYield(r, from, pausedAt, on), aborted' = aborted
    PROVE  LateInv'
<1> USE BoundAssumption DEF LateInv, LateOf, Allowance
<1>1. CASE pc' = [pc EXCEPT ![r] = "unlock"] /\ aborted[r] /\ Forget({r})
  <2>1. ASSUME NEW o \in Runs, o # r PROVE LateOf(o)'
    BY <1>1, <2>1, ForgetLemma DEF TypeOK, Forget
  <2>2. late'[r] = 0 /\ empty'[r] = 0 /\ dirsLeft'[r] = 0 /\ pc'[r] = "unlock"
    BY <1>1, ForgetLemma DEF TypeOK
  <2>3. LateOf(r)'
    BY <2>2
  <2>4. QED
    BY <2>1, <2>3
<1>2. CASE /\ pc' = [pc EXCEPT ![r] = pausedAt] \/ pc' = [pc EXCEPT ![r] = on]
           /\ ~aborted[r]
           /\ UNCHANGED <<dirsLeft, late, empty>>
  BY <1>2 DEF TypeOK
<1>3. QED
  BY <1>1, <1>2, CheckLemma

\* Every action keeps LateInv: a counted step leads to a place that allows one
\* more, and a directory left without a yield allows two.
LEMMA LateInvStep == TypeOK /\ LateInv /\ [Next]_vars => LateInv'
<1> SUFFICES ASSUME TypeOK, LateInv, [Next]_vars PROVE LateInv'
  OBVIOUS
<1> USE RunsAssumption, BoundAssumption DEF TypeOK, LateInv, LateOf, Allowance, walkVars
<1>1. ASSUME NEW r \in Runs, CodebaseStep(r) PROVE LateInv'
  <2>1. CASE StartCodebase(r)
    BY <2>1 DEF StartCodebase, TakeOver, Goto
  <2>2. CASE PollLock(r)
    BY <2>2 DEF PollLock, Goto
  <2>3. CASE BreakLock(r)
    BY <2>3 DEF BreakLock, Goto
  <2>4. CASE AcquireLock(r)
    <3>1. /\ \A o \in Runs : o # r => pc'[o] = pc[o] /\ dirsLeft'[o] = dirsLeft[o]
          /\ dirsLeft'[r] \in 0..MaxDirs - 1
          /\ UNCHANGED <<late, empty, aborted>>
          /\ late[r] = 0 /\ empty[r] = 0
      BY <2>4 DEF AcquireLock, Goto
    <3>2. LateOf(r)'
      BY <3>1
    <3>3. QED
      BY <3>1, <3>2
  <2>5. CASE UpdateTimestamp(r)
    BY <2>5 DEF UpdateTimestamp
  <2>6. CASE WalkFile(r)
    <3>1. CheckYield(r, {"walk"}, "walkPaused", "walk") /\ aborted' = aborted
      BY <2>6 DEF WalkFile
    <3>2. QED
      BY <3>1, CheckedLemma
  <2>7. CASE IndexYield(r)
    <3>1. CheckYield(r, {"plan", "index"}, "indexPaused", "index") /\ aborted' = aborted
      BY <2>7 DEF IndexYield
    <3>2. QED
      BY <3>1, CheckedLemma
  <2>8. CASE WalkEnd(r)
    <3>1. \A o \in Runs : o # r => late'[o] = late[o] /\ pc'[o] = pc[o]
      BY <2>8, CountLemma DEF WalkEnd, Goto
    <3>2. pc[r] = "walk" /\ pc'[r] = "plan" /\ late'[r] \in Nat /\ late'[r] <= late[r] + 1
      BY <2>8, CountLemma DEF WalkEnd, Goto, LateCap
    <3>3. ~aborted[r] => late'[r] = 0
      BY <2>8, CountLemma DEF WalkEnd
    <3>4. QED
      BY <2>8, <3>1, <3>2, <3>3 DEF WalkEnd, LateCap
  <2>9. CASE Resume(r)
    <3>1. \A o \in Runs : o # r => late'[o] = late[o] /\ pc'[o] = pc[o]
      BY <2>9, CountLemma DEF Resume, Goto
    <3>2. /\ pc'[r] \in {"walk", "index"} /\ late[r] = 0 /\ empty[r] = 0
          /\ late'[r] \in Nat /\ late'[r] <= 1
      BY <2>9, CountLemma DEF Resume, Goto, LateCap
    <3>3. ~aborted[r] => late'[r] = 0
      BY <2>9, <3>2, CountLemma DEF Resume
    <3>4. QED
      BY <2>9, <3>1, <3>2, <3>3 DEF Resume, LateCap
  <2>10. CASE NextDirectory(r)
    <3>1. \A o \in Runs : o # r => /\ late'[o] = late[o] /\ pc'[o] = pc[o]
                                   /\ empty'[o] = empty[o] /\ dirsLeft'[o] = dirsLeft[o]
      BY <2>10, CountLemma DEF NextDirectory, Goto
    <3>2. /\ pc[r] \in {"plan", "index"} /\ pc'[r] = "walk"
          /\ late'[r] \in Nat /\ late'[r] <= late[r] + 1
      BY <2>10, CountLemma DEF NextDirectory, Goto, LateCap
    <3>3. ~aborted[r] => late'[r] = 0 /\ empty'[r] = 0
      BY <2>10, CountLemma DEF NextDirectory
    <3>4. dirsLeft[r] > 0 /\ dirsLeft'[r] = dirsLeft[r] - 1
      BY <2>10 DEF NextDirectory
    <3>5. empty'[r] = IF aborted[r] /\ pc[r] = "plan" THEN empty[r] + 1 ELSE empty[r]
      BY <2>10 DEF NextDirectory
    <3>6. aborted' = aborted
      BY <2>10 DEF NextDirectory
    <3>7. late'[r] <= 2 + 2 * empty'[r]
      BY <3>2, <3>3, <3>5
    <3>8. empty'[r] + dirsLeft'[r] < MaxDirs
      BY <3>4, <3>5
    <3>9. late'[r] < 2 * (MaxDirs - dirsLeft'[r])
      BY <3>2, <3>4
    <3>10. dirsLeft'[r] \in Nat
      BY <3>4
    <3>11. LateOf(r)'
      BY <3>2, <3>3, <3>6, <3>7, <3>8, <3>9, <3>10
    <3>12. \A o \in Runs : o # r => LateOf(o)'
      BY <3>1, <3>6
    <3>13. QED
      BY <3>11, <3>12
  <2>11. CASE FinishDirs(r) \/ DirsError(r)
    BY <2>11, ForgetLemma DEF FinishDirs, DirsError, Leave, Goto
  <2>12. CASE Unlock(r)
    BY <2>12 DEF Unlock, Goto
  <2>13. CASE Settle(r)
    BY <2>13 DEF Settle, AbortIfCurrent, Goto
  <2>14. CASE LockTableError(r)
    BY <2>14 DEF LockTableError, Goto, Waiting
  <2>15. QED
    BY <1>1, <2>1, <2>2, <2>3, <2>4, <2>5, <2>6, <2>7, <2>8, <2>9, <2>10, <2>11, <2>12,
       <2>13, <2>14 DEF CodebaseStep
<1>2. ASSUME NEW r \in Runs, FilesStep(r) PROVE LateInv'
  <2>1. CASE StartFiles(r)
    BY <2>1 DEF StartFiles, TakeOver, Goto
  <2>2. CASE DropFiles(r) \/ NextFile(r) \/ FileDone(r) \/ ResumeFiles(r)
    BY <2>2 DEF DropFiles, NextFile, FileDone, ResumeFiles, Goto
  <2>3. CASE FinishFiles(r) \/ FilesError(r)
    BY <2>3 DEF FinishFiles, FilesError, AbortIfCurrent, Goto
  <2>4. QED
    BY <1>2, <2>1, <2>2, <2>3 DEF FilesStep
<1>3. ASSUME NEW w \in Windows, WindowStep(w) PROVE LateInv'
  <2>1. CASE SetPaused(w) \/ Restart(w)
    BY <2>1 DEF SetPaused, Restart
  <2>2. CASE Crash(w)
    <3>1. Forget({r \in Runs : WindowOf[r] = w})
      BY <2>2 DEF Crash
    <3>2. ASSUME NEW o \in Runs, WindowOf[o] = w PROVE LateOf(o)'
      <4>1. dirsLeft'[o] = 0 /\ late'[o] = 0 /\ empty'[o] = 0
        BY <3>1, <3>2 DEF Forget
      <4>2. QED
        BY <4>1
    <3>3. ASSUME NEW o \in Runs, WindowOf[o] # w PROVE LateOf(o)'
      <4>1. dirsLeft'[o] = dirsLeft[o] /\ late'[o] = late[o] /\ empty'[o] = empty[o]
        BY <3>1, <3>3 DEF Forget
      <4>2. pc'[o] = pc[o] /\ aborted'[o] = aborted[o]
        BY <2>2, <3>3 DEF Crash
      <4>3. QED
        BY <4>1, <4>2
    <3>4. QED
      BY <3>2, <3>3
  <2>3. QED
    BY <1>3, <2>1, <2>2 DEF WindowStep
<1>4. CASE Tick
  BY <1>4 DEF Tick
<1>5. CASE UNCHANGED vars
  BY <1>5 DEF vars
<1>6. QED
  BY <1>1, <1>2, <1>3, <1>4, <1>5 DEF Next

(* An aborted codebase refresh begins at most three more generator steps, and *)
(* two more for each directory it finds nothing to index in; in any case at   *)
(* most two for each directory of the call.                                   *)
THEOREM AbortIsPrompt == Spec => []BoundedWorkAfterAbort
<1>1. Init => LateInv
  BY BoundAssumption DEF Init, LateInv, LateOf, Allowance
<1>2. TypeOK /\ LateInv => BoundedWorkAfterAbort
  BY BoundAssumption DEF TypeOK, LateInv, LateOf, Allowance, BoundedWorkAfterAbort
<1>3. QED
  BY <1>1, <1>2, LateInvStep, Typing, PTL DEF Spec
============================================================================
