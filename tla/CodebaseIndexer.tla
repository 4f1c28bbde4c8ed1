-------------------------- MODULE CodebaseIndexer --------------------------
(***************************************************************************)
(* Who may index, and when: the requests that the CodebaseIndexer of each  *)
(* window serves, the abort controller they share, the pause token, and    *)
(* the lock table that all windows share through one SQLite file           *)
(* (core/indexing/CodebaseIndexer.ts and IndexLock of refreshIndex.ts).    *)
(*                                                                         *)
(* A "run" is one call of refreshCodebaseIndex (program counters wait ..   *)
(* settle) or refreshCodebaseIndexFiles (files .. filesPaused).  Every     *)
(* await of the code is a point where other runs may step.  What a run     *)
(* writes into the index is the subject of RefreshIndex.                   *)
(***************************************************************************)
EXTENDS Naturals, FiniteSets

CONSTANTS
    Windows,      \* IDE windows, each with a core process of its own
    Runs,         \* the calls made of the indexers, each made at most once
    WindowOf,     \* the window whose indexer serves a run
    NoRun,        \* the controller made, already aborted, by the constructor
    Heartbeat,    \* ticks between two refreshes of the lock's timestamp (5 s)
    Stale,        \* an older lock is taken for abandoned (10 s)
    MaxLag,       \* ticks an event loop may be late
    MaxDirs,      \* bound on the workspace directories of a call
    MaxCrashes,   \* bound on crashes
    DbMayFail     \* whether a statement on the lock table may be rejected

ASSUME RunsAssumption == /\ WindowOf \in [Runs -> Windows]
                         /\ NoRun \notin Runs
ASSUME TimeAssumption == /\ Heartbeat \in Nat
                         /\ Stale \in Nat
                         /\ MaxLag \in Nat
                         /\ Heartbeat + MaxLag <= Stale
ASSUME BoundAssumption == /\ MaxDirs \in Nat \ {0}
                          /\ MaxCrashes \in Nat
                          /\ DbMayFail \in BOOLEAN

VARIABLES
    alive,        \* windows whose process runs
    paused,       \* the pause token of each window
    controller,   \* indexingCancellationController: the run that made it
    aborted,      \* whether the controller a run made has been aborted
    pc,           \* where each run is
    rows,         \* owners of the rows of indexing_lock
    age,          \* ticks since the timestamp of a run's row was written
    beat,         \* ticks since the run last wrote a timestamp itself
    dirsLeft,     \* directories that follow the one a run is at
    late,         \* history: generator steps a run has begun after its abort
    empty,        \* history: directories with no index to build that it has
                  \* left after its abort (both until its walk is over)
    crashes       \* crashes so far

vars == <<alive, paused, controller, aborted, pc, rows, age, beat, dirsLeft,
          late, empty, crashes>>
lockVars == <<rows, age, beat>>
walkVars == <<dirsLeft, late, empty>>
envVars == <<alive, paused, crashes>>

Beating == {"walk", "walkPaused", "plan", "index", "indexPaused"}
Holding == Beating \cup {"unlock"}
Waiting == {"wait", "break", "lock"}
FilesPhase == {"files", "fileBusy", "filesPaused"}
Running == Waiting \cup Holding \cup {"settle"} \cup FilesPhase
Dead == {"crashed", "failed"}
PCs == Running \cup Dead \cup {"idle", "dropped", "done"}

\* Runs that hold the lock as far as their own code knows.
Holders == {r \in Runs : pc[r] \in Holding}

\* More generator steps than this after an abort are not told apart.
LateCap == 2 * MaxDirs + 2

TypeOK ==
    /\ alive \in [Windows -> BOOLEAN]
    /\ paused \in [Windows -> BOOLEAN]
    /\ controller \in [Windows -> Runs \cup {NoRun}]
    /\ aborted \in [Runs -> BOOLEAN]
    /\ pc \in [Runs -> PCs]
    /\ rows \subseteq Runs
    /\ age \in [Runs -> Nat]
    /\ beat \in [Runs -> Nat]
    /\ dirsLeft \in [Runs -> 0..MaxDirs - 1]
    /\ late \in [Runs -> 0..LateCap]
    /\ empty \in [Runs -> 0..MaxDirs]
    /\ crashes \in Nat

Init ==
    /\ alive = [w \in Windows |-> TRUE]
    /\ paused \in [Windows -> BOOLEAN]
    /\ controller = [w \in Windows |-> NoRun]
    /\ aborted = [r \in Runs |-> TRUE]
    /\ pc = [r \in Runs |-> "idle"]
    /\ rows = {}
    /\ age = [r \in Runs |-> 0]
    /\ beat = [r \in Runs |-> 0]
    /\ dirsLeft = [r \in Runs |-> 0]
    /\ late = [r \in Runs |-> 0]
    /\ empty = [r \in Runs |-> 0]
    /\ crashes = 0

----------------------------------------------------------------------------
(* Helpers *)

Goto(r, from, to) == /\ pc[r] \in from
                     /\ pc' = [pc EXCEPT ![r] = to]

Busy(w) == controller[w] # NoRun /\ ~aborted[controller[w]]

\* Mutant: the old controller is replaced without being aborted.
TakeOver_noAbort(r) ==
    /\ aborted' = [aborted EXCEPT ![r] = FALSE]
    /\ controller' = [controller EXCEPT ![WindowOf[r]] = r]

\* The current controller, if it still runs, is aborted; r's is the new one.
TakeOver(r) ==
    LET w == WindowOf[r] IN
    /\ aborted' = [o \in Runs |-> IF o = r THEN FALSE
                                  ELSE aborted[o] \/ o = controller[w]]
    /\ controller' = [controller EXCEPT ![w] = r]

\* Mutant: the last statement is missing.
AbortIfCurrent_missing(r) == r \in Runs /\ UNCHANGED <<aborted, controller>>

\* Mutant: the controller is dropped instead of aborted.
AbortIfCurrent_cleared(r) ==
    /\ controller' = IF controller[WindowOf[r]] = r
                     THEN [controller EXCEPT ![WindowOf[r]] = "undefined"] ELSE controller
    /\ UNCHANGED aborted

\* The last statement of both entry points.
AbortIfCurrent(r) ==
    /\ aborted' = IF controller[WindowOf[r]] = r
                  THEN [aborted EXCEPT ![r] = TRUE] ELSE aborted
    /\ UNCHANGED controller

\* A step of a generator that is begun although the run has been aborted.
CountLate(r) ==
    late' = IF aborted[r] /\ late[r] < LateCap
            THEN [late EXCEPT ![r] = @ + 1] ELSE late

\* The generators of these runs are gone.
Forget(gone) ==
    /\ dirsLeft' = [r \in Runs |-> IF r \in gone THEN 0 ELSE dirsLeft[r]]
    /\ late' = [r \in Runs |-> IF r \in gone THEN 0 ELSE late[r]]
    /\ empty' = [r \in Runs |-> IF r \in gone THEN 0 ELSE empty[r]]

\* IndexLock.unlock deletes every locked row, whoever inserted it.
DeleteRows == rows' = {} /\ age' = [r \in Runs |-> 0]

Older(n) == IF n > Stale THEN n ELSE n + 1

----------------------------------------------------------------------------
(* refreshCodebaseIndex *)

StartCodebase(r) ==
    /\ alive[WindowOf[r]]
    /\ Goto(r, {"idle"}, "wait")
    /\ TakeOver(r)
    /\ UNCHANGED <<lockVars, envVars, walkVars>>

\* Mutant: an abandoned lock is never broken.
PollLock_noBreak(r) ==
    /\ \/ rows = {} /\ Goto(r, {"wait"}, "lock")
       \/ rows # {} /\ Goto(r, {"wait"}, "wait")
    /\ UNCHANGED <<controller, aborted, lockVars, envVars, walkVars>>

\* waitForDBIndex: one SELECT and what follows from the row it returns; the
\* statement has no ORDER BY, so any row may be the one.
PollLock(r) ==
    /\ \/ rows = {} /\ Goto(r, {"wait"}, "lock")
       \/ \E o \in rows : age[o] > Stale /\ Goto(r, {"wait"}, "break")
       \/ \E o \in rows : age[o] <= Stale /\ Goto(r, {"wait"}, "wait")
    /\ UNCHANGED <<controller, aborted, lockVars, envVars, walkVars>>

BreakLock(r) ==
    /\ Goto(r, {"break"}, "lock")
    /\ DeleteRows
    /\ UNCHANGED <<controller, aborted, beat, envVars, walkVars>>

\* IndexLock.lock inserts a row; then the heartbeat interval is set.  With
\* nothing to index, or indexing disabled, refreshDirs returns at once.
AcquireLock(r) ==
    /\ \/ /\ Goto(r, {"lock"}, "walk")
          /\ \E n \in 0..MaxDirs - 1 : dirsLeft' = [dirsLeft EXCEPT ![r] = n]
       \/ Goto(r, {"lock"}, "unlock") /\ UNCHANGED dirsLeft
    /\ rows' = rows \cup {r}
    /\ age' = [age EXCEPT ![r] = 0]
    /\ beat' = [beat EXCEPT ![r] = 0]
    /\ UNCHANGED <<controller, aborted, envVars, late, empty>>

\* Mutant: the callback does nothing while indexing is paused.
UpdateTimestamp_whilePaused(r) ==
    /\ pc[r] \in Beating
    /\ beat[r] >= Heartbeat
    /\ age' = [o \in Runs |-> IF o \in rows /\ ~paused[WindowOf[r]] THEN 0 ELSE age[o]]
    /\ beat' = [beat EXCEPT ![r] = 0]
    /\ UNCHANGED <<controller, aborted, pc, rows, envVars, walkVars>>

\* The interval's callback: it updates every locked row.
UpdateTimestamp(r) ==
    /\ pc[r] \in Beating
    /\ beat[r] >= Heartbeat
    /\ age' = [o \in Runs |-> IF o \in rows THEN 0 ELSE age[o]]
    /\ beat' = [beat EXCEPT ![r] = 0]
    /\ UNCHANGED <<controller, aborted, pc, rows, envVars, walkVars>>

----------------------------------------------------------------------------
(* refreshDirs *)

\* refreshDirs returns, or throws into the catch of refreshCodebaseIndex.
Leave(r, from) == Goto(r, from, "unlock") /\ Forget({r})

Stay(r, from, to) == Goto(r, from, to) /\ UNCHANGED walkVars

\* Mutant: the pause token is looked at before the abort.
CheckYield_pauseFirst(r, from, pausedAt, on) ==
    \/ paused[WindowOf[r]] /\ Stay(r, from, pausedAt)
    \/ ~paused[WindowOf[r]] /\ aborted[r] /\ Leave(r, from)
    \/ ~paused[WindowOf[r]] /\ ~aborted[r] /\ Stay(r, from, on)

\* A loop body: the abort is looked at first, then the pause token.
CheckYield(r, from, pausedAt, on) ==
    \/ aborted[r] /\ Leave(r, from)
    \/ ~aborted[r] /\ paused[WindowOf[r]] /\ Stay(r, from, pausedAt)
    \/ ~aborted[r] /\ ~paused[WindowOf[r]] /\ Stay(r, from, on)

WalkFile(r) ==
    /\ CheckYield(r, {"walk"}, "walkPaused", "walk")
    /\ UNCHANGED <<controller, aborted, lockVars, envVars>>

\* The walk is over and indexFiles begins.  It yields before it plans an
\* index, and not at all if getIndexesToBuild (147) finds none: without an
\* embeddings model, a configuration or the settings of the IDE.
WalkEnd(r) ==
    /\ Goto(r, {"walk"}, "plan")
    /\ CountLate(r)
    /\ UNCHANGED <<controller, aborted, lockVars, envVars, dirsLeft, empty>>

IndexYield(r) ==
    /\ CheckYield(r, {"plan", "index"}, "indexPaused", "index")
    /\ UNCHANGED <<controller, aborted, lockVars, envVars>>

\* yieldUpdateAndPause returns to the loop, which asks for the next element
\* without looking at the abort signal again.
Resume(r) ==
    /\ ~paused[WindowOf[r]]
    /\ \/ Goto(r, {"walkPaused"}, "walk")
       \/ Goto(r, {"indexPaused"}, "index")
    /\ CountLate(r)
    /\ UNCHANGED <<controller, aborted, lockVars, envVars, dirsLeft, empty>>

\* indexFiles is exhausted, perhaps without having yielded.  The loop over the
\* directories does not look at the abort signal: the next walk begins.
NextDirectory(r) ==
    /\ dirsLeft[r] > 0
    /\ Goto(r, {"plan", "index"}, "walk")
    /\ dirsLeft' = [dirsLeft EXCEPT ![r] = @ - 1]
    /\ CountLate(r)
    /\ empty' = IF aborted[r] /\ pc[r] = "plan" /\ empty[r] < MaxDirs
                THEN [empty EXCEPT ![r] = @ + 1] ELSE empty
    /\ UNCHANGED <<controller, aborted, lockVars, envVars>>

\* No directory is left: the interval is cleared.
FinishDirs(r) ==
    /\ dirsLeft[r] = 0
    /\ Leave(r, {"plan", "index"})
    /\ UNCHANGED <<controller, aborted, lockVars, envVars>>

\* The walk or indexFiles threw.
DirsError(r) ==
    /\ Leave(r, {"walk", "plan", "index"})
    /\ UNCHANGED <<controller, aborted, lockVars, envVars>>

\* Mutant: the lock's row stays.
Unlock_keepsRow(r) ==
    /\ Goto(r, {"unlock"}, "settle")
    /\ beat' = [beat EXCEPT ![r] = 0]
    /\ UNCHANGED <<controller, aborted, rows, age, envVars, walkVars>>

Unlock(r) ==
    /\ Goto(r, {"unlock"}, "settle")
    /\ DeleteRows
    /\ beat' = [beat EXCEPT ![r] = 0]
    /\ UNCHANGED <<controller, aborted, envVars, walkVars>>

Settle(r) ==
    /\ Goto(r, {"settle"}, "done")
    /\ AbortIfCurrent(r)
    /\ UNCHANGED <<lockVars, envVars, walkVars>>

\* A statement on the lock table is rejected.  None of them is inside the
\* try block: the call rejects and its controller stays as it is.
LockTableError(r) ==
    /\ DbMayFail
    /\ Goto(r, Waiting \cup {"unlock"}, "failed")
    /\ beat' = [beat EXCEPT ![r] = 0]
    /\ UNCHANGED <<controller, aborted, rows, age, envVars, walkVars>>

----------------------------------------------------------------------------
(* refreshCodebaseIndexFiles and refreshFiles *)

\* Mutant: a running refresh is not looked for.
StartFiles_always(r) ==
    /\ alive[WindowOf[r]]
    /\ Goto(r, {"idle"}, "files")
    /\ TakeOver(r)
    /\ UNCHANGED <<lockVars, envVars, walkVars>>

StartFiles(r) ==
    /\ alive[WindowOf[r]]
    /\ ~Busy(WindowOf[r])
    /\ Goto(r, {"idle"}, "files")
    /\ TakeOver(r)
    /\ UNCHANGED <<lockVars, envVars, walkVars>>

DropFiles(r) ==
    /\ alive[WindowOf[r]]
    /\ Busy(WindowOf[r])
    /\ Goto(r, {"idle"}, "dropped")
    /\ UNCHANGED <<controller, aborted, lockVars, envVars, walkVars>>

\* refreshFile returns at once while paused; the loop then waits.
NextFile(r) ==
    /\ \/ paused[WindowOf[r]] /\ Goto(r, {"files"}, "filesPaused")
       \/ ~paused[WindowOf[r]] /\ Goto(r, {"files"}, "fileBusy")
    /\ UNCHANGED <<controller, aborted, lockVars, envVars, walkVars>>

FileDone(r) ==
    /\ \/ paused[WindowOf[r]] /\ Goto(r, {"fileBusy"}, "filesPaused")
       \/ ~paused[WindowOf[r]] /\ Goto(r, {"fileBusy"}, "files")
    /\ UNCHANGED <<controller, aborted, lockVars, envVars, walkVars>>

ResumeFiles(r) ==
    /\ ~paused[WindowOf[r]]
    /\ Goto(r, {"filesPaused"}, "files")
    /\ UNCHANGED <<controller, aborted, lockVars, envVars, walkVars>>

\* No file is left.
FinishFiles(r) ==
    /\ Goto(r, {"files"}, "done")
    /\ AbortIfCurrent(r)
    /\ UNCHANGED <<lockVars, envVars, walkVars>>

\* refreshFile threw, which ends the loop.
FilesError(r) ==
    /\ Goto(r, {"fileBusy"}, "done")
    /\ AbortIfCurrent(r)
    /\ UNCHANGED <<lockVars, envVars, walkVars>>

----------------------------------------------------------------------------
(* The user, the machine and the clock *)

SetPaused(w) ==
    /\ alive[w]
    /\ paused' = [paused EXCEPT ![w] = ~@]
    /\ UNCHANGED <<alive, controller, aborted, pc, lockVars, walkVars, crashes>>

\* The process ends and its memory with it; its lock row stays.
Crash(w) ==
    /\ alive[w]
    /\ crashes < MaxCrashes
    /\ crashes' = crashes + 1
    /\ alive' = [alive EXCEPT ![w] = FALSE]
    /\ pc' = [r \in Runs |-> IF WindowOf[r] = w /\ pc[r] \in Running
                             THEN "crashed" ELSE pc[r]]
    /\ controller' = [controller EXCEPT ![w] = NoRun]
    /\ aborted' = [r \in Runs |-> aborted[r] \/ WindowOf[r] = w]
    /\ beat' = [r \in Runs |-> IF WindowOf[r] = w THEN 0 ELSE beat[r]]
    /\ paused' = [paused EXCEPT ![w] = FALSE]
    /\ Forget({r \in Runs : WindowOf[r] = w})
    /\ UNCHANGED <<rows, age>>

\* A new process: the constructor makes an aborted controller and reads the
\* pause state that some window stored last.
Restart(w) ==
    /\ ~alive[w]
    /\ alive' = [alive EXCEPT ![w] = TRUE]
    /\ paused' \in {[paused EXCEPT ![w] = b] : b \in BOOLEAN}
    /\ UNCHANGED <<controller, aborted, pc, lockVars, walkVars, crashes>>

\* No holder's event loop is blocked for more than MaxLag ticks.
Tick ==
    /\ \A r \in Holders : beat[r] < Heartbeat + MaxLag
    /\ age' = [r \in Runs |-> IF r \in rows THEN Older(age[r]) ELSE age[r]]
    /\ beat' = [r \in Runs |-> IF r \in Holders THEN beat[r] + 1 ELSE beat[r]]
    /\ UNCHANGED <<controller, aborted, pc, rows, envVars, walkVars>>

----------------------------------------------------------------------------
CodebaseStep(r) ==
    \/ StartCodebase(r) \/ PollLock(r) \/ BreakLock(r) \/ AcquireLock(r)
    \/ UpdateTimestamp(r) \/ WalkFile(r) \/ WalkEnd(r) \/ IndexYield(r)
    \/ Resume(r) \/ NextDirectory(r) \/ FinishDirs(r) \/ DirsError(r)
    \/ Unlock(r) \/ Settle(r) \/ LockTableError(r)

FilesStep(r) ==
    \/ StartFiles(r) \/ DropFiles(r) \/ NextFile(r) \/ FileDone(r)
    \/ ResumeFiles(r) \/ FinishFiles(r) \/ FilesError(r)

WindowStep(w) == SetPaused(w) \/ Crash(w) \/ Restart(w)

Next == \/ \E r \in Runs : CodebaseStep(r) \/ FilesStep(r)
        \/ \E w \in Windows : WindowStep(w)
        \/ Tick

Spec == Init /\ [][Next]_vars

\* What a run does as soon as an await of its settles.  No two of these steps
\* are enabled at once, and only a step of the run or its end disables one.
Continue(r) ==
    \/ PollLock(r) \/ BreakLock(r) \/ AcquireLock(r) \/ IndexYield(r)
    \/ Unlock(r) \/ Settle(r) \/ FileDone(r)

\* A pending await settles and a timer fires; a walk, a plan and the lists of
\* directories and files are finite, so their ends are reached however often
\* the loops in between are taken.
Fairness ==
    /\ WF_vars(Tick)
    /\ \A r \in Runs :
        /\ WF_vars(Continue(r)) /\ WF_vars(UpdateTimestamp(r))
        /\ SF_vars(Resume(r) \/ ResumeFiles(r))
        /\ SF_vars(WalkEnd(r)) /\ SF_vars(FinishFiles(r))
        /\ SF_vars(NextDirectory(r) \/ FinishDirs(r))

FairSpec == Spec /\ Fairness

----------------------------------------------------------------------------
(* Properties *)

\* A run that still goes on with an un-aborted controller is the one its
\* window would cancel: no run escapes the next refreshCodebaseIndex, so at
\* most one un-aborted run goes on in a window (CodebaseIndexer.ts 706-713).
OnlyCurrentUnaborted ==
    \A r \in Runs :
        pc[r] \in Running /\ ~aborted[r] => controller[WindowOf[r]] = r

\* File refreshes are dropped only while a run goes on in the window, or after
\* a lock statement of the current run was rejected (lines 755-757, 744-750).
BusyMeansRunning ==
    \A w \in Windows :
        alive[w] /\ Busy(w) => pc[controller[w]] \in Running \cup {"failed"}

\* A lock row belongs to a run that still holds the lock, or to one that
\* crashed or failed; no finished run leaves its row (lines 715, 742).
RowsHaveOwners == \A r \in rows : pc[r] \in Holding \cup Dead

\* While the heartbeat is at most MaxLag late, a waiting window sees a stale
\* timestamp only on the row of a run that is dead (lines 690, 716-719).
OnlyDeadLocksLookStale == \A r \in rows : age[r] > Stale => pc[r] \in Dead

\* Once aborted, a codebase refresh takes at most three more steps of its
\* generators, however pauses fall between them (lines 371, 378, 399, 407) -
\* and two more for each directory in which it finds no index to build: the
\* loop over the directories does not look at the signal (line 363), so an
\* aborted run may begin the walk of every one of them.
BoundedWorkAfterAbort ==
    \A r \in Runs : late[r] <= 3 + 2 * empty[r] /\ late[r] <= 2 * MaxDirs

\* A controller is aborted only by its own run's end or by a codebase refresh
\* of the same window, never by a file refresh (lines 707, 754-757).
AbortedByCodebaseOnly ==
    \A r \in Runs : ~aborted[r] /\ aborted'[r] =>
        \/ pc'[r] \in Dead \cup {"done"}
        \/ \E o \in Runs : /\ WindowOf[o] = WindowOf[r]
                           /\ pc[o] = "idle" /\ pc'[o] = "wait"
FilesNeverCancel == [][AbortedByCodebaseOnly]_vars

\* Every request that started ends, also when the window holding the lock
\* crashed, unless some window is paused meanwhile (lines 687-704).
EveryRunEnds ==
    \A r \in Runs : pc[r] \in Running ~>
        pc[r] \notin Running \/ \E w \in Windows : alive[w] /\ paused[w]

\* "We want the other window to wait until the first window's indexing
\* finishes" (comment, lines 680-686): two windows never index at once.
OneWindowIndexes ==
    \A r, o \in Runs : pc[r] \in Beating /\ pc[o] \in Beating =>
        WindowOf[r] = WindowOf[o]
============================================================================
