--------------------------- MODULE TaskScheduler ---------------------------
(***************************************************************************)
(* The task executor of the layer 1 client: the scheduler's event loop     *)
(* (layer1/executor/task_scheduler.go), one goroutine for each running     *)
(* task (task_manager.go) and the state they share, the task object        *)
(* (tasks/base_task.go).                                                   *)
(*                                                                         *)
(* The event loop handles one event at a time, but killing is a loop of    *)
(* its own that stops at the lock of every task it closes: `closing` is    *)
(* what is left of it.  What a task does on layer 1 is abstracted to its   *)
(* possible results.                                                       *)
(***************************************************************************)
EXTENDS Integers, Sequences, FiniteSetsExt, Functions

CONSTANTS
  Tasks,             \* the requests that are made, each with an id of its own
  Name,              \* Name[t]: the type of the task
  AllowMultiExecution,   \* the names that may run in parallel
  Windows,           \* Windows[t]: the pairs <<Start, End>> it may be asked for with
  HeightTolerance,   \* TaskSchedulerHeightToleranceBeforeRemoving
  ResponseChanSize,  \* the capacity of taskResponseChan
  MaxHeight, MaxCrashes   \* bounds

ASSUME TaskAssumption ==
  /\ {HeightTolerance, ResponseChanSize, MaxHeight, MaxCrashes} \subseteq Nat
  /\ DOMAIN Name = Tasks
  /\ \A t \in Tasks : Windows[t] \subseteq (0 .. MaxHeight) \X (0 .. MaxHeight)

VARIABLES
  finalized,      \* the finalized height of layer 1
  LastHeightSeen,
  Schedule,       \* id -> [Start, End, InternalState, sinceKill]
  saved,          \* the Schedule in the database
  closing,        \* the tasks that killTasks has still to look at
  requested,      \* the requests made so far
  goroutine,      \* goroutine[t]: where ManageTask of t is
  cancelled,      \* cancelled[t]: the context of t is done
  wasKilled,      \* wasKilled[t]
  TxsBackup,      \* the tasks with a transaction in TxsBackup, in memory and on disk
  responses,      \* taskResponseChan
  pending,        \* the tasks that have sent a transaction and not seen its result
  crashes

loopVars == <<LastHeightSeen, Schedule, saved, closing, requested>>
taskVars == <<goroutine, cancelled, wasKilled, TxsBackup, responses, pending>>
vars     == <<finalized, loopVars, taskVars, crashes>>

Entry ==
  [Start : Nat, End : Nat, InternalState : {"NotStarted", "Running", "Killed"},
   sinceKill : 0 .. HeightTolerance]

(* After Initialize and before the clean up.                               *)
Active == {"prepare", "shouldExecute", "execute", "sent", "wait"}

TypeOK ==
  /\ finalized \in 0 .. MaxHeight /\ LastHeightSeen \in 0 .. finalized
  /\ \A sch \in {Schedule, saved} :
       DOMAIN sch \subseteq requested /\ \A t \in DOMAIN sch : sch[t] \in Entry
  /\ closing \subseteq DOMAIN Schedule
  /\ requested \subseteq Tasks
  /\ goroutine \in [Tasks -> Active \cup {"none", "spawned", "cleanup", "sending", "ended"}]
  /\ cancelled \in [Tasks -> BOOLEAN] /\ wasKilled \in [Tasks -> BOOLEAN]
  /\ TxsBackup \subseteq requested /\ pending \subseteq requested
  /\ responses \in Seq(Tasks) /\ Len(responses) <= ResponseChanSize
  /\ crashes \in 0 .. MaxCrashes

Init ==
  /\ finalized = 0 /\ LastHeightSeen = 0
  /\ Schedule = [t \in {} |-> 0] /\ saved = Schedule
  /\ closing = {} /\ requested = {}
  /\ goroutine = [t \in Tasks |-> "none"]
  /\ cancelled = [t \in Tasks |-> FALSE] /\ wasKilled = [t \in Tasks |-> FALSE]
  /\ TxsBackup = {} /\ pending = {} /\ responses = <<>>
  /\ crashes = 0

(* Heights from MaxHeight on, above every End, are not told apart; of      *)
(* killedAt only the number of blocks since is kept.                       *)
NewHeight ==
  /\ finalized' = IF finalized < MaxHeight THEN finalized + 1 ELSE finalized
  /\ Schedule' = [t \in DOMAIN Schedule |->
       [Schedule[t] EXCEPT !.sinceKill =
          IF Schedule[t].InternalState = "Killed" /\ @ < HeightTolerance THEN @ + 1 ELSE @]]
  /\ UNCHANGED <<LastHeightSeen, saved, closing, requested, taskVars, crashes>>

-----------------------------------------------------------------------------
(* The event loop.                                                         *)

Without(sch, S) == Restrict(sch, DOMAIN sch \ S)

schedule(t, w) ==
  /\ closing = {}
  /\ t \notin requested
  /\ requested' = requested \cup {t}
  /\ LET refused == \/ w[1] # 0 /\ w[2] # 0 /\ w[1] >= w[2]
                    \/ w[2] # 0 /\ w[2] <= LastHeightSeen
         entry   == [Start |-> w[1], End |-> w[2], InternalState |-> "NotStarted",
                     sinceKill |-> 0]
     IN Schedule' = [u \in DOMAIN Schedule \cup (IF refused THEN {} ELSE {t}) |->
                       IF u = t THEN entry ELSE Schedule[u]]
  /\ saved' = Schedule'
  /\ UNCHANGED <<finalized, LastHeightSeen, closing, taskVars, crashes>>

findTasksByName(n) == {t \in DOMAIN Schedule : Name[t] = n}

killTaskByName(n) ==
  /\ closing = {}
  /\ closing' = findTasksByName(n)
  /\ UNCHANGED <<finalized, LastHeightSeen, Schedule, saved, requested, taskVars, crashes>>

processTaskResponse ==
  /\ closing = {} /\ responses # <<>>
  /\ responses' = Tail(responses)
  /\ Schedule' = Without(Schedule, {Head(responses)})
  /\ saved' = Schedule'
  /\ UNCHANGED <<finalized, LastHeightSeen, closing, requested, goroutine, cancelled,
                 wasKilled, TxsBackup, pending, crashes>>

(* findTasks, at height h.                                                 *)
Unresponsive ==
  {t \in DOMAIN Schedule : /\ Schedule[t].InternalState = "Killed"
                           /\ Schedule[t].sinceKill >= HeightTolerance}


Expired(h) == {t \in DOMAIN Schedule : Schedule[t].End # 0 /\ Schedule[t].End <= h}

Due(h) ==
  {t \in DOMAIN Schedule \ Expired(h) :
     /\ Schedule[t].InternalState = "NotStarted"
     /\ Schedule[t].Start <= h}

findRunningTasksByName(n) ==
  {t \in findTasksByName(n) : Schedule[t].InternalState = "Running"}

(* All the due tasks of a name that may run in parallel, and otherwise one *)
(* of them, the first that the iteration meets, if none is running.        *)
CanStartUnchecked(h, S) ==   \* mutant: the running tasks are not looked for
  \A n \in {Name[t] : t \in Due(h)} :
    LET due == {t \in Due(h) : Name[t] = n} IN
    IF n \in AllowMultiExecution THEN due \subseteq S
    ELSE Cardinality(S \cap due) = 1

CanStart(h, S) ==
  \A n \in {Name[t] : t \in Due(h)} :
    LET due == {t \in Due(h) : Name[t] = n} IN
    IF n \in AllowMultiExecution THEN due \subseteq S
    ELSE Cardinality(S \cap due) = IF findRunningTasksByName(n) = {} THEN 1 ELSE 0

(* The timer: start what is due, save, then close what has expired.        *)
ProcessHeight ==
  /\ closing = {}
  /\ LastHeightSeen' = finalized
  /\ Unresponsive = {}
  /\ \E toStart \in SUBSET Due(finalized) :
       /\ CanStart(finalized, toStart)
       /\ goroutine' = [t \in Tasks |-> IF t \in toStart THEN "spawned" ELSE goroutine[t]]
       /\ Schedule' = [t \in DOMAIN Schedule |->
            IF t \in toStart THEN [Schedule[t] EXCEPT !.InternalState = "Running"]
            ELSE Schedule[t]]
  /\ saved' = Schedule'
  /\ closing' = Expired(finalized)
  /\ UNCHANGED <<finalized, requested, cancelled, wasKilled, TxsBackup, responses, pending,
                 crashes>>

(* killTasks, one task: Close waits for the lock, which Finish holds while *)
(* it sends.  The state is saved at the end.                               *)
killTask(t) ==
  /\ t \in closing
  /\ CASE Schedule[t].InternalState = "Running" ->
            /\ goroutine[t] # "sending"
            /\ Schedule' = [Schedule EXCEPT ![t].InternalState = "Killed",
                              ![t].sinceKill =
                                 Min({finalized - LastHeightSeen, HeightTolerance})]
            /\ cancelled' = [cancelled EXCEPT ![t] = TRUE]
            /\ wasKilled' = [wasKilled EXCEPT ![t] = TRUE]
       [] Schedule[t].InternalState = "Killed" -> UNCHANGED <<Schedule, cancelled, wasKilled>>
       [] OTHER -> /\ Schedule' = Without(Schedule, {t})
                   /\ UNCHANGED <<cancelled, wasKilled>>
  /\ closing' = closing \ {t}
  /\ saved' = IF closing' = {} THEN Schedule' ELSE saved
  /\ UNCHANGED <<finalized, LastHeightSeen, requested, goroutine, TxsBackup, responses,
                 pending, crashes>>

-----------------------------------------------------------------------------
(* The goroutine of t: ManageTask.                                         *)
Goto(t, label) ==
  /\ goroutine' = [goroutine EXCEPT ![t] = label]
  /\ UNCHANGED <<finalized, loopVars, wasKilled, crashes>>

KeepTx == UNCHANGED <<TxsBackup, pending>>

(* The result of the recorded transaction has been seen.                   *)
ResultSeen(t) == pending' = pending \ {t} /\ UNCHANGED TxsBackup

RemoveTxBackup(t) == TxsBackup' = TxsBackup \ {t} /\ pending' = pending \ {t}

(* The context of NewBaseTask, which Close may have cancelled, is replaced.*)
(* A task with a transaction goes on waiting for it; if the watcher does   *)
(* not take the transaction, another is sent.                              *)
InitializeAnew(t) ==   \* mutant: the recorded transaction is not looked for
  /\ goroutine[t] = "spawned"
  /\ cancelled' = [cancelled EXCEPT ![t] = FALSE]
  /\ Goto(t, "prepare") /\ KeepTx /\ UNCHANGED responses

Initialize(t) ==
  /\ goroutine[t] = "spawned"
  /\ cancelled' = [cancelled EXCEPT ![t] = FALSE]
  /\ \/ t \in TxsBackup /\ Goto(t, "wait") /\ KeepTx
     \/ t \in TxsBackup /\ Goto(t, "shouldExecute") /\ ResultSeen(t)
     \/ t \notin TxsBackup /\ Goto(t, "prepare") /\ KeepTx
  /\ UNCHANGED responses

(* An unrecoverable error, or the context, ends the task; a recoverable    *)
(* error tries again.                                                      *)
prepareTask(t) ==
  /\ goroutine[t] = "prepare"
  /\ \/ Goto(t, "cleanup")
     \/ ~cancelled[t] /\ Goto(t, "shouldExecute")
  /\ KeepTx /\ UNCHANGED <<cancelled, responses>>

(* An error or the context, not to be executed, or to be executed.         *)
shouldExecute(t) ==
  /\ goroutine[t] = "shouldExecute"
  /\ \/ Goto(t, "cleanup") /\ KeepTx
     \/ ~cancelled[t] /\ Goto(t, "cleanup") /\ RemoveTxBackup(t)
     \/ ~cancelled[t] /\ Goto(t, "execute") /\ KeepTx
  /\ UNCHANGED <<cancelled, responses>>

(* An error, nothing to send, a recoverable error, or a transaction, which *)
(* may leave although the context is done.                                 *)
Execute(t) ==
  /\ goroutine[t] = "execute"
  /\ \/ Goto(t, "cleanup") /\ KeepTx
     \/ Goto(t, "cleanup") /\ RemoveTxBackup(t)
     \/ ~cancelled[t] /\ Goto(t, "shouldExecute") /\ KeepTx
     \/ Goto(t, "sent") /\ pending' = pending \cup {t} /\ UNCHANGED TxsBackup
  /\ UNCHANGED <<cancelled, responses>>

AddTxBackup(t) ==
  /\ goroutine[t] = "sent"
  /\ TxsBackup' = TxsBackup \cup {t}
  /\ \/ Goto(t, "wait") /\ UNCHANGED pending
     \/ Goto(t, "shouldExecute") /\ pending' = pending \ {t}   \* not taken by the watcher
  /\ UNCHANGED <<cancelled, responses>>

(* The receipt: a good one ends the task, a reverted one or an error sends *)
(* another, a stale one ends the task with an error.  Without a receipt the*)
(* context or shouldExecute may end the task.                              *)
checkCompletion(t) ==
  /\ goroutine[t] = "wait"
  /\ \/ Goto(t, "cleanup") /\ RemoveTxBackup(t)
     \/ Goto(t, "shouldExecute") /\ ResultSeen(t)
     \/ Goto(t, "cleanup") /\ ResultSeen(t)
     \/ Goto(t, "cleanup") /\ KeepTx
  /\ UNCHANGED <<cancelled, responses>>

(* A task that was killed drops its transaction.  Finish takes the lock    *)
(* and then sends the response.                                            *)
Finish(t) ==
  /\ goroutine[t] = "cleanup"
  /\ Goto(t, "sending")
  /\ IF wasKilled[t] THEN RemoveTxBackup(t) ELSE KeepTx
  /\ UNCHANGED <<cancelled, responses>>

AddShort(t) ==   \* mutant: a channel with one slot less
  /\ goroutine[t] = "sending" /\ Len(responses) < ResponseChanSize - 1
  /\ responses' = Append(responses, t)
  /\ Goto(t, "ended")
  /\ KeepTx /\ UNCHANGED cancelled

Add(t) ==
  /\ goroutine[t] = "sending" /\ Len(responses) < ResponseChanSize
  /\ responses' = Append(responses, t)
  /\ Goto(t, "ended")
  /\ KeepTx /\ UNCHANGED cancelled

ManageTask(t) ==
  \/ Initialize(t) \/ prepareTask(t) \/ shouldExecute(t) \/ Execute(t) \/ AddTxBackup(t)
  \/ checkCompletion(t) \/ Finish(t) \/ Add(t)

-----------------------------------------------------------------------------
(* A restart: loadState.  A task that was running starts again, one that   *)
(* was killed is dropped, and the last height is not saved.                *)
RestartRunning ==   \* mutant: a task that was running is taken as running
  /\ Schedule' = Without(saved, {t \in DOMAIN saved : saved[t].InternalState = "Killed"})
  /\ LastHeightSeen' = 0 /\ closing' = {} /\ responses' = <<>>
  /\ goroutine' = [t \in Tasks |-> "none"]
  /\ cancelled' = [t \in Tasks |-> FALSE] /\ wasKilled' = [t \in Tasks |-> FALSE]
  /\ pending' = {t \in pending : goroutine[t] # "sent"}
  /\ UNCHANGED <<finalized, saved, requested, TxsBackup>>

Restart ==
  /\ Schedule' =
       [t \in {u \in DOMAIN saved : saved[u].InternalState # "Killed"} |->
          [saved[t] EXCEPT !.InternalState = "NotStarted"]]
  /\ LastHeightSeen' = 0 /\ closing' = {} /\ responses' = <<>>
  /\ goroutine' = [t \in Tasks |-> "none"]
  /\ cancelled' = [t \in Tasks |-> FALSE] /\ wasKilled' = [t \in Tasks |-> FALSE]
  /\ pending' = {t \in pending : goroutine[t] # "sent"}
  /\ UNCHANGED <<finalized, saved, requested, TxsBackup>>

Crash ==
  /\ crashes < MaxCrashes /\ crashes' = crashes + 1
  /\ Restart

(* findTasks panics when a killed task has not ended in time.              *)
Panic ==
  /\ closing = {} /\ Unresponsive # {}
  /\ Restart /\ UNCHANGED crashes

Timer == ProcessHeight \/ Panic

Next ==
  \/ NewHeight
  \/ \E t \in Tasks : \E w \in Windows[t] : schedule(t, w)
  \/ \E n \in Range(Name) : killTaskByName(n)
  \/ processTaskResponse
  \/ ProcessHeight
  \/ Panic
  \/ \E t \in Tasks : killTask(t)
  \/ \E t \in Tasks : ManageTask(t)
  \/ Crash

Spec == Init /\ [][Next]_vars

(* Layer 1 finalizes blocks, the event loop is fair to its timer and to its*)
(* responses, and goroutines that can go on do.                            *)
FairSpec ==
  /\ Spec
  /\ WF_vars(NewHeight) /\ SF_vars(Timer) /\ SF_vars(processTaskResponse)
  /\ WF_vars(\E t \in Tasks : killTask(t))
  /\ \A t \in Tasks : WF_vars(ManageTask(t))

-----------------------------------------------------------------------------
(* Of the tasks that may not run in parallel at most one of a name is      *)
(* Running in the Schedule, after any kills and restarts.                  *)
OneRunning ==
  \A n \in Range(Name) \ AllowMultiExecution : Cardinality(findRunningTasksByName(n)) <= 1

(* The scheduler and the goroutines agree: a goroutine belongs to a task   *)
(* that is Running or Killed, and such a task has a goroutine or a response*)
(* that will remove it, so none is stuck in the Schedule and none runs     *)
(* unknown to it.                                                          *)
GoroutinesTracked ==
  TypeOK /\ \A t \in Tasks :
    (t \in DOMAIN Schedule /\ Schedule[t].InternalState # "NotStarted")
      <=> (goroutine[t] \notin {"none", "ended"} \/ \E k \in DOMAIN responses : responses[k] = t)

(* A task does not send a second transaction while the first is recorded   *)
(* and its result unknown, after a restart too: that is what TxsBackup is  *)
(* for.  A transaction sent just before a crash is not recorded.           *)
NoSecondTx ==
  [][\A t \in Tasks : goroutine[t] # "sent" /\ goroutine'[t] = "sent" => t \notin pending]_vars

(* The goroutines that have still to send, and the responses not yet taken.*)
Outstanding ==
  Cardinality({t \in Tasks : goroutine[t] \notin {"none", "ended"}}) + Len(responses)

(* The event loop waits for the lock of a task that waits for the event    *)
(* loop to take a response.                                                *)
Deadlocked ==
  /\ Len(responses) = ResponseChanSize
  /\ \E t \in closing : Schedule[t].InternalState = "Running" /\ goroutine[t] = "sending"


(* killTasks waits for the lock of a task, which Finish holds while it     *)
(* waits for room in the channel that only the event loop empties.  The    *)
(* loop gets through it whenever no more goroutines and responses are      *)
(* outstanding than the channel has slots: with one more it may not.       *)
LoopReturns == closing # {} /\ Outstanding <= ResponseChanSize ~> closing = {}
=============================================================================
