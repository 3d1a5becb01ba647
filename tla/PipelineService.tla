--------------------------- MODULE PipelineService ---------------------------
(***************************************************************************)
(* The control plane: the pipeline registry of pipeline/service, the       *)
(* storage behind it, the goroutine that runs each pipeline object and the *)
(* order in which cmd/neptunus boots and shuts the whole process down.     *)
(*                                                                         *)
(* A registry entry (pipeUnit) is a pipeline object, a mutex and a cancel  *)
(* function; the registry itself has its own mutex, so each access to it   *)
(* is one step.  API calls run in goroutines of their own, so between any  *)
(* two accesses to the registry, to the storage or to the state of a       *)
(* pipeline object other calls may take steps.                             *)
(***************************************************************************)
EXTENDS Naturals, FiniteSets

CONSTANTS
  Ids,        \* pipeline identifiers
  Callers,    \* goroutines that may call the service: request handlers, boot workers
  Objs,       \* pipeline objects that may be in use at the same time (a bound)
  Mutexes,    \* unit mutexes that may be in use at the same time (a bound)
  Versions,   \* configurations a client may send for a pipeline
  None,       \* the nil pointer
  Ops,        \* Ops[x]: the operations that client x calls
  Locking,    \* TRUE: storage with locks (PostgreSQL); FALSE: files, no locks
  Migrate,    \* TRUE: the instance's locks are cleaned when the storage opens
  Async,      \* TRUE: stored pipelines are started in parallel at boot
  FailFast,   \* TRUE: a pipeline that cannot start at boot ends the process
  Failures    \* what may fail: a subset of AllFailures

AllOps == {"start", "stop", "add", "update", "delete"}
AllFailures == {"build", "acquire", "release", "crash"}

ASSUME ServiceAssumption ==
  /\ None \notin Objs /\ None \notin Mutexes /\ None \notin Callers
  /\ None \notin Versions
  /\ None \notin Ids
  /\ Ops \in [Callers -> SUBSET AllOps]
  /\ Failures \subseteq AllFailures
  /\ Locking \in BOOLEAN /\ Migrate \in BOOLEAN
  /\ Async \in BOOLEAN /\ FailFast \in BOOLEAN

VARIABLES
  phase,      \* of the process: down, boot, serving, draining, stopall
  pending,    \* identifiers boot has still to register, or StopAll to stop
  bootErr,    \* a pipeline failed to start at boot
  stored,     \* stored[i]: the configuration in the storage, None if there is none
  lockRows,   \* identifiers locked in the storage by this instance
  pipes,      \* pipes[i]: the registry's entry for i
  mutex,      \* mutex[m]: the caller that holds m, or None
  obj,        \* obj[o]: the pipeline object's identifier, configuration and state
  run,        \* run[o]: the goroutine that runs o: none, live or ended
  cancelled,  \* objects whose context is cancelled
  pc, id, cfg, unit   \* of each caller: next step, argument, configuration, entry

storage == <<stored, lockRows>>
runtime == <<obj, run, cancelled>>
boot    == <<phase, pending, bootErr>>
caller  == <<pc, id, cfg, unit>>
vars    == <<boot, storage, pipes, mutex, runtime, caller>>

NoUnit == [p |-> None, mu |-> None, c |-> FALSE]
Unit   == [p : Objs, mu : Mutexes, c : BOOLEAN]
NoObj  == [id |-> None, ver |-> None, state |-> "created"]
States == {"created", "building", "starting", "running", "stopping", "stopped"}
Idle(s) == s \in {"created", "stopped"}

\* The steps of a caller; "idle" is a caller that is not in a call.
StartPcs == {"start_lookup", "start_check", "start_lock", "start_recheck", "start_store"}
BuildPcs == {"build", "building", "launch"}
StopPcs  == {"stop_check", "stop_lock", "stop_recheck", "stop_cancel", "stop_release"}
EditPcs  == {"edit_check", "edit_lock", "edit_recheck", "edit_storage", "edit_write"}
Pcs == {"idle", "add_storage", "add_store", "update_store", "delete_entry"}
         \cup StartPcs \cup BuildPcs \cup StopPcs \cup EditPcs

TypeOK ==
  /\ phase \in {"down", "boot", "serving", "draining", "stopall"}
  /\ pending \subseteq Ids
  /\ bootErr \in BOOLEAN
  /\ stored \in [Ids -> Versions \cup {None}]
  /\ lockRows \subseteq Ids
  /\ pipes \in [Ids -> Unit \cup {NoUnit}]
  /\ mutex \in [Mutexes -> Callers \cup {None}]
  /\ obj \in [Objs -> [id : Ids \cup {None}, ver : Versions \cup {None}, state : States]]
  /\ run \in [Objs -> {"none", "live", "ended"}]
  /\ cancelled \subseteq Objs
  /\ pc \in [Callers -> Pcs]
  /\ id \in [Callers -> Ids \cup {None}]
  /\ cfg \in [Callers -> Versions \cup {None}]
  /\ unit \in [Callers -> Unit \cup {NoUnit}]

NoPipes  == [i \in Ids |-> NoUnit]
NoOwners == [m \in Mutexes |-> None]
NoObjs   == [o \in Objs |-> NoObj]
NoRuns   == [o \in Objs |-> "none"]
AllIdle  == [x \in Callers |-> "idle"]
NoArgs   == [x \in Callers |-> None]
NoUnits  == [x \in Callers |-> NoUnit]

\* The process has not started: nothing but the storage has a content.
Init ==
  /\ phase = "down" /\ pending = {} /\ bootErr = FALSE
  /\ stored \in [Ids -> Versions \cup {None}]
  /\ lockRows = {}
  /\ pipes = NoPipes /\ mutex = NoOwners
  /\ obj = NoObjs /\ run = NoRuns /\ cancelled = {}
  /\ pc = AllIdle /\ id = NoArgs /\ cfg = NoArgs /\ unit = NoUnits

-----------------------------------------------------------------------------
(* Pipeline objects, mutexes and calls.                                    *)

\* Nothing refers to the object any more: the next one created may be it.
FreshObj(o) ==
  /\ run[o] # "live"
  /\ \A i \in Ids : pipes[i].p # o
  /\ \A x \in Callers : unit[x].p # o

FreshMutex(m) ==
  /\ \A i \in Ids : pipes[i].mu # m
  /\ \A x \in Callers : unit[x].mu # m

\* All fresh objects, and all fresh mutexes, are alike: any one serves.
NextObj == CHOOSE o \in Objs : FreshObj(o)
NextMutex == CHOOSE m \in Mutexes : FreshMutex(m)

\* createPipeline: a new object, in state created, for configuration v of i.
\* What other objects nothing refers to have held is forgotten.
Create(o, i, v) ==
  /\ FreshObj(o) /\ o = NextObj
  /\ obj' = [q \in Objs |-> IF q = o THEN [id |-> i, ver |-> v, state |-> "created"]
                            ELSE IF FreshObj(q) THEN NoObj ELSE obj[q]]
  /\ run' = [q \in Objs |-> IF FreshObj(q) THEN "none" ELSE run[q]]
  /\ cancelled' = {q \in cancelled : ~FreshObj(q)}

NewMutex(m) == FreshMutex(m) /\ m = NextMutex

State(u) == obj[u.p].state
SetState(o, s) == obj' = [obj EXCEPT ![o].state = s]

Goto(x, l) == pc' = [pc EXCEPT ![x] = l]

\* Mutated form of Unlocked: the deferred Unlock is missing.
Unlocked_Never(x) == mutex

Unlocked(x) == [m \in Mutexes |-> IF mutex[m] = x THEN None ELSE mutex[m]]

\* The call ends: what it had loaded is forgotten and its mutex, if any, unlocked.
Return(x) ==
  /\ Goto(x, "idle")
  /\ id' = [id EXCEPT ![x] = None]
  /\ cfg' = [cfg EXCEPT ![x] = None]
  /\ unit' = [unit EXCEPT ![x] = NoUnit]
  /\ mutex' = Unlocked(x)

Lock(x) ==
  /\ mutex[unit[x].mu] = None
  /\ mutex' = [mutex EXCEPT ![unit[x].mu] = x]

Idling(x) == pc[x] = "idle"
CanCall(x, op) == phase = "serving" /\ op \in Ops[x] /\ Idling(x)
Active(o) == run[o] = "live" /\ obj[o].state # "stopped"

-----------------------------------------------------------------------------
(* startPipeline, used by Start and at boot.                               *)

\* Build() stores the state before it configures the first plugin.
BuildBegin(x) ==
  /\ pc[x] = "build"
  /\ SetState(unit[x].p, "building")
  /\ Goto(x, "building")
  /\ UNCHANGED <<boot, storage, pipes, mutex, run, cancelled, id, cfg, unit>>

NoteBootError == bootErr' = (bootErr \/ phase = "boot")

BuildError(o) == SetState(o, "stopped")

BuildFail(x) ==
  /\ "build" \in Failures
  /\ pc[x] = "building"
  /\ BuildError(unit[x].p)
  /\ NoteBootError
  /\ Return(x)
  /\ UNCHANGED <<phase, pending, storage, pipes, run, cancelled>>

LockKey(x) == id[x]

\* The object is built.  Acquire of the lock storage inserts the row, or does
\* nothing if it is there.
Acquire(x) ==
  /\ pc[x] = "building"
  /\ lockRows' = IF Locking THEN lockRows \cup {LockKey(x)} ELSE lockRows
  /\ Goto(x, "launch")
  /\ UNCHANGED <<boot, stored, pipes, mutex, runtime, id, cfg, unit>>

\* The lock is not acquired: the object is closed, its state is left as it is.
AcquireFail(x) ==
  /\ Locking /\ "acquire" \in Failures
  /\ pc[x] = "building"
  /\ NoteBootError
  /\ Return(x)
  /\ UNCHANGED <<phase, pending, storage, pipes, runtime>>

\* Mutated form of WithCancel: the cancel function is not in the stored entry.
WithCancel_Nil(u) == u

WithCancel(u) == [u EXCEPT !.c = TRUE]

\* The entry is stored again, now with its cancel function, and the goroutine started.
Launch(x) ==
  /\ pc[x] = "launch"
  /\ pipes' = [pipes EXCEPT ![id[x]] = WithCancel(unit[x])]
  /\ run' = [run EXCEPT ![unit[x].p] = "live"]
  /\ Return(x)
  /\ UNCHANGED <<boot, storage, obj, cancelled>>

StartPipeline(x) ==
  BuildBegin(x) \/ BuildFail(x) \/ Acquire(x) \/ AcquireFail(x) \/ Launch(x)

-----------------------------------------------------------------------------
(* Start.                                                                  *)

StartCall(x, i) ==
  /\ CanCall(x, "start")
  /\ stored[i] # None
  /\ id' = [id EXCEPT ![x] = i]
  /\ cfg' = [cfg EXCEPT ![x] = stored[i]]
  /\ Goto(x, "start_lookup")
  /\ UNCHANGED <<boot, storage, pipes, mutex, runtime, unit>>

StartLoad(x) ==
  /\ pc[x] = "start_lookup"
  /\ pipes[id[x]] # NoUnit
  /\ unit' = [unit EXCEPT ![x] = pipes[id[x]]]
  /\ Goto(x, "start_check")
  /\ UNCHANGED <<boot, storage, pipes, mutex, runtime, id, cfg>>

StartLoadNew(x, o, m) ==
  /\ pc[x] = "start_lookup"
  /\ pipes[id[x]] = NoUnit
  /\ Create(o, id[x], cfg[x])
  /\ NewMutex(m)
  /\ LET u == [p |-> o, mu |-> m, c |-> FALSE]
     IN /\ pipes' = [pipes EXCEPT ![id[x]] = u]
        /\ unit' = [unit EXCEPT ![x] = u]
  /\ Goto(x, "start_check")
  /\ UNCHANGED <<boot, storage, mutex, id, cfg>>

StartCheck(x) ==
  /\ pc[x] = "start_check"
  /\ \/ Idle(State(unit[x])) /\ Goto(x, "start_lock") /\ UNCHANGED <<mutex, id, cfg, unit>>
     \/ ~Idle(State(unit[x])) /\ Return(x)
  /\ UNCHANGED <<boot, storage, pipes, runtime>>

\* Mutated form of Reload: the entry is not loaded again.
Reload_Stale(x) == unit[x]

Reload(x) == pipes[id[x]]

\* The mutex of the entry loaded before is locked, then the entry is loaded again.
StartLock(x) ==
  /\ pc[x] = "start_lock"
  /\ pipes[id[x]] # NoUnit
  /\ Lock(x)
  /\ unit' = [unit EXCEPT ![x] = Reload(x)]
  /\ Goto(x, "start_recheck")
  /\ UNCHANGED <<boot, storage, pipes, runtime, id, cfg>>

\* The entry was deleted meanwhile: the nil pipeline is dereferenced, the handler
\* panics and its deferred Unlock runs.
StartPanic(x) ==
  /\ pc[x] = "start_lock"
  /\ pipes[id[x]] = NoUnit
  /\ mutex[unit[x].mu] = None
  /\ Return(x)
  /\ UNCHANGED <<boot, storage, pipes, runtime>>

StartRecheck(x) ==
  /\ pc[x] = "start_recheck"
  /\ \/ Idle(State(unit[x])) /\ Goto(x, "start_store") /\ UNCHANGED <<mutex, id, cfg, unit>>
     \/ ~Idle(State(unit[x])) /\ Return(x)
  /\ UNCHANGED <<boot, storage, pipes, runtime>>

\* Mutated form of StartStore: the registered object is started again.
StartStore_Reuse(x, o) ==
  /\ pc[x] = "start_store"
  /\ o = unit[x].p
  /\ Goto(x, "build")
  /\ UNCHANGED <<boot, storage, pipes, mutex, runtime, id, cfg, unit>>

\* A new object is made of the configuration read at the beginning of the call.
StartStore(x, o) ==
  /\ pc[x] = "start_store"
  /\ Create(o, id[x], cfg[x])
  /\ LET u == [p |-> o, mu |-> unit[x].mu, c |-> FALSE]
     IN /\ pipes' = [pipes EXCEPT ![id[x]] = u]
        /\ unit' = [unit EXCEPT ![x] = u]
  /\ Goto(x, "build")
  /\ UNCHANGED <<boot, storage, mutex, id, cfg>>

StartSteps(x) ==
  \/ StartLoad(x) \/ StartCheck(x) \/ StartLock(x) \/ StartPanic(x) \/ StartRecheck(x)
  \/ \E o \in Objs : StartStore(x, o) \/ \E m \in Mutexes : StartLoadNew(x, o, m)

-----------------------------------------------------------------------------
(* Stop.                                                                   *)

StopCall(x, i) ==
  /\ CanCall(x, "stop")
  /\ pipes[i] # NoUnit
  /\ id' = [id EXCEPT ![x] = i]
  /\ unit' = [unit EXCEPT ![x] = pipes[i]]
  /\ Goto(x, "stop_check")
  /\ UNCHANGED <<boot, storage, pipes, mutex, runtime, cfg>>

StopCheck(x) ==
  /\ pc[x] = "stop_check"
  /\ \/ State(unit[x]) = "running" /\ Goto(x, "stop_lock") /\ UNCHANGED <<mutex, id, cfg, unit>>
     \/ State(unit[x]) # "running" /\ Return(x)
  /\ UNCHANGED <<boot, storage, pipes, runtime>>

StopLock(x) ==
  /\ pc[x] = "stop_lock"
  /\ Lock(x)
  /\ Goto(x, "stop_recheck")
  /\ UNCHANGED <<boot, storage, pipes, runtime, id, cfg, unit>>

\* The state of the entry loaded at the beginning is read again, the entry is not.
StopRecheck(x) ==
  /\ pc[x] = "stop_recheck"
  /\ \/ State(unit[x]) = "running" /\ Goto(x, "stop_cancel") /\ UNCHANGED <<mutex, id, cfg, unit>>
     \/ State(unit[x]) # "running" /\ Return(x)
  /\ UNCHANGED <<boot, storage, pipes, runtime>>

\* Mutated form of Cancelling: what is not running yet is skipped.
Cancelling_Running(u) == IF u.c /\ State(u) = "running" THEN {u.p} ELSE {}

Cancelling(u) == IF u.c THEN {u.p} ELSE {}

\* stopPipeline, first half: the entry's cancel function, if it has one.
StopCancel(x) ==
  /\ pc[x] = "stop_cancel"
  /\ cancelled' = cancelled \cup Cancelling(unit[x])
  /\ Goto(x, "stop_release")
  /\ UNCHANGED <<boot, storage, pipes, mutex, obj, run, id, cfg, unit>>

\* stopPipeline, second half; an error of Release is only logged.
StopRelease(x) ==
  /\ pc[x] = "stop_release"
  /\ \/ lockRows' = lockRows \ {id[x]}
     \/ "release" \in Failures /\ UNCHANGED lockRows
  /\ Return(x)
  /\ UNCHANGED <<boot, stored, pipes, runtime>>

StopSteps(x) ==
  StopCheck(x) \/ StopLock(x) \/ StopRecheck(x) \/ StopCancel(x) \/ StopRelease(x)

-----------------------------------------------------------------------------
(* Add, Update and Delete.  Update carries a configuration, Delete none.   *)

AddCall(x, i, v) ==
  /\ CanCall(x, "add")
  /\ pipes[i] = NoUnit
  /\ id' = [id EXCEPT ![x] = i]
  /\ cfg' = [cfg EXCEPT ![x] = v]
  /\ Goto(x, "add_storage")
  /\ UNCHANGED <<boot, storage, pipes, mutex, runtime, unit>>

\* The file storage overwrites a file that is there, PostgreSQL answers a conflict.
AddStorage(x) ==
  /\ pc[x] = "add_storage"
  /\ IF Locking /\ stored[id[x]] # None
     THEN Return(x) /\ UNCHANGED stored
     ELSE /\ stored' = [stored EXCEPT ![id[x]] = cfg[x]]
          /\ Goto(x, "add_store")
          /\ UNCHANGED <<mutex, id, cfg, unit>>
  /\ UNCHANGED <<boot, lockRows, pipes, runtime>>

AddStore(x, o, m) ==
  /\ pc[x] = "add_store"
  /\ Create(o, id[x], cfg[x])
  /\ NewMutex(m)
  /\ pipes' = [pipes EXCEPT ![id[x]] = [p |-> o, mu |-> m, c |-> FALSE]]
  /\ Return(x)
  /\ UNCHANGED <<boot, storage>>

EditCall(x, i, v) ==
  /\ CanCall(x, IF v = None THEN "delete" ELSE "update")
  /\ pipes[i] # NoUnit
  /\ id' = [id EXCEPT ![x] = i]
  /\ cfg' = [cfg EXCEPT ![x] = v]
  /\ unit' = [unit EXCEPT ![x] = pipes[i]]
  /\ Goto(x, "edit_check")
  /\ UNCHANGED <<boot, storage, pipes, mutex, runtime>>

EditCheck(x) ==
  /\ pc[x] = "edit_check"
  /\ \/ Idle(State(unit[x])) /\ Goto(x, "edit_lock") /\ UNCHANGED <<mutex, id, cfg, unit>>
     \/ ~Idle(State(unit[x])) /\ Return(x)
  /\ UNCHANGED <<boot, storage, pipes, runtime>>

EditLock(x) ==
  /\ pc[x] = "edit_lock"
  /\ Lock(x)
  /\ Goto(x, "edit_recheck")
  /\ UNCHANGED <<boot, storage, pipes, runtime, id, cfg, unit>>

\* Again the state of the object loaded before the lock is read, whatever the
\* registry holds by now.
EditRecheck(x) ==
  /\ pc[x] = "edit_recheck"
  /\ \/ Idle(State(unit[x])) /\ Goto(x, "edit_storage") /\ UNCHANGED <<mutex, id, cfg, unit>>
     \/ ~Idle(State(unit[x])) /\ Return(x)
  /\ UNCHANGED <<boot, storage, pipes, runtime>>

\* Mutated form of Refused: the lock rows are not looked at.
Refused_NoLocks(i) == stored[i] = None

\* The lock storage refuses what has a lock row; both refuse what they do not hold.
Refused(i) == stored[i] = None \/ (Locking /\ i \in lockRows)

\* The transaction that reads the locks does not keep others from inserting one.
EditStorageCheck(x) ==
  /\ pc[x] = "edit_storage"
  /\ IF Refused(id[x])
     THEN Return(x)
     ELSE Goto(x, "edit_write") /\ UNCHANGED <<mutex, id, cfg, unit>>
  /\ UNCHANGED <<boot, storage, pipes, runtime>>

EditStorageWrite(x) ==
  /\ pc[x] = "edit_write"
  /\ stored' = [stored EXCEPT ![id[x]] = cfg[x]]
  /\ Goto(x, IF cfg[x] = None THEN "delete_entry" ELSE "update_store")
  /\ UNCHANGED <<boot, lockRows, pipes, mutex, runtime, id, cfg, unit>>

UpdateStore(x, o) ==
  /\ pc[x] = "update_store"
  /\ Create(o, id[x], cfg[x])
  /\ pipes' = [pipes EXCEPT ![id[x]] = [p |-> o, mu |-> unit[x].mu, c |-> FALSE]]
  /\ Return(x)
  /\ UNCHANGED <<boot, storage>>

DeleteEntry(x) ==
  /\ pc[x] = "delete_entry"
  /\ pipes' = [pipes EXCEPT ![id[x]] = NoUnit]
  /\ Return(x)
  /\ UNCHANGED <<boot, storage, runtime>>

EditSteps(x) ==
  \/ AddStorage(x) \/ EditCheck(x) \/ EditLock(x) \/ EditRecheck(x)
  \/ EditStorageCheck(x) \/ EditStorageWrite(x) \/ DeleteEntry(x)
  \/ \E o \in Objs : UpdateStore(x, o) \/ \E m \in Mutexes : AddStore(x, o, m)

-----------------------------------------------------------------------------
(* The goroutine of a launched object: Run, then Close.                    *)

RunTo(o, from, to) ==
  /\ run[o] = "live"
  /\ obj[o].state = from
  /\ SetState(o, to)
  /\ UNCHANGED <<boot, storage, pipes, mutex, run, cancelled, caller>>

RunStarting(o) == RunTo(o, "building", "starting")
RunRunning(o)  == RunTo(o, "starting", "running")
\* Mutated form of RunStopping: the context is not awaited.
RunStopping_Early(o) == RunTo(o, "running", "stopping")

RunStopping(o) == o \in cancelled /\ RunTo(o, "running", "stopping")
\* Every unit of the pipeline has ended.
RunStopped(o)  == RunTo(o, "stopping", "stopped")

RunClosed(o) ==
  /\ run[o] = "live"
  /\ obj[o].state = "stopped"
  /\ run' = [run EXCEPT ![o] = "ended"]
  /\ UNCHANGED <<boot, storage, pipes, mutex, obj, cancelled, caller>>

Goroutine(o) ==
  RunStarting(o) \/ RunRunning(o) \/ RunStopping(o) \/ RunStopped(o) \/ RunClosed(o)

-----------------------------------------------------------------------------
(* The process: boot, serve, shut down.                                    *)

\* Mutated form of BootLocks: the locks of an earlier life are kept.
BootLocks_Kept == lockRows

BootLocks == IF Migrate THEN {} ELSE lockRows

Boot ==
  /\ phase = "down"
  /\ phase' = "boot"
  /\ pending' = {i \in Ids : stored[i] # None}
  /\ bootErr' = FALSE
  /\ lockRows' = BootLocks
  /\ UNCHANGED <<stored, pipes, mutex, runtime, caller>>

\* One stored pipeline is registered; with the run setting it is started at once.
BootOne(x, i, o, m) ==
  /\ phase = "boot" /\ i \in pending /\ Idling(x)
  /\ Async \/ \A y \in Callers : Idling(y)
  /\ Create(o, i, stored[i])
  /\ NewMutex(m)
  /\ LET u == [p |-> o, mu |-> m, c |-> FALSE]
     IN /\ pipes' = [pipes EXCEPT ![i] = u]
        /\ \/ /\ Goto(x, "build")
              /\ id' = [id EXCEPT ![x] = i]
              /\ unit' = [unit EXCEPT ![x] = u]
           \/ UNCHANGED <<pc, id, unit>>
  /\ pending' = pending \ {i}
  /\ UNCHANGED <<phase, bootErr, storage, mutex, cfg>>

Registered == {i \in Ids : pipes[i] # NoUnit}

BootDone ==
  /\ phase = "boot" /\ pending = {}
  /\ \A x \in Callers : Idling(x)
  /\ IF FailFast /\ bootErr
     THEN phase' = "stopall" /\ pending' = Registered
     ELSE phase' = "serving" /\ UNCHANGED pending
  /\ UNCHANGED <<bootErr, storage, pipes, mutex, runtime, caller>>

\* A termination signal: the API server takes no new request.
Shutdown ==
  /\ phase = "serving"
  /\ phase' = "draining"
  /\ UNCHANGED <<pending, bootErr, storage, pipes, mutex, runtime, caller>>

\* The server has waited for the requests in flight.
Drained ==
  /\ phase = "draining"
  /\ \A x \in Callers : Idling(x)
  /\ phase' = "stopall"
  /\ pending' = Registered
  /\ UNCHANGED <<bootErr, storage, pipes, mutex, runtime, caller>>

StopAllOne(i) ==
  /\ phase = "stopall" /\ i \in pending
  /\ mutex[pipes[i].mu] = None
  /\ cancelled' = cancelled \cup Cancelling(pipes[i])
  /\ \/ lockRows' = lockRows \ {i}
     \/ "release" \in Failures /\ UNCHANGED lockRows
  /\ pending' = pending \ {i}
  /\ UNCHANGED <<phase, bootErr, stored, pipes, mutex, obj, run, caller>>

\* What the process leaves behind: the storage only.
Gone ==
  /\ phase' = "down" /\ pending' = {} /\ bootErr' = FALSE
  /\ pipes' = NoPipes /\ mutex' = NoOwners
  /\ obj' = NoObjs /\ run' = NoRuns /\ cancelled' = {}
  /\ pc' = AllIdle /\ id' = NoArgs /\ cfg' = NoArgs /\ unit' = NoUnits
  /\ UNCHANGED storage

\* StopAll has cancelled everything and wg.Wait has returned.
Exit ==
  /\ phase = "stopall" /\ pending = {}
  /\ \A o \in Objs : run[o] # "live"
  /\ Gone

\* The process is killed, or ends itself when the graceful timeout expires.
Crash ==
  /\ "crash" \in Failures
  /\ phase # "down"
  /\ Gone

Process ==
  \/ Boot \/ BootDone \/ Drained \/ Exit
  \/ \E i \in Ids : StopAllOne(i)
  \/ \E x \in Callers, i \in Ids, o \in Objs, m \in Mutexes : BootOne(x, i, o, m)

Call(x) ==
  \E i \in Ids :
    \/ StartCall(x, i)
    \/ StopCall(x, i)
    \/ \E v \in Versions : AddCall(x, i, v)
    \/ \E v \in Versions \cup {None} : EditCall(x, i, v)

Working(x) == StartPipeline(x) \/ StartSteps(x) \/ StopSteps(x) \/ EditSteps(x)

Next ==
  \/ Process \/ Shutdown \/ Crash
  \/ \E x \in Callers : Call(x) \/ Working(x)
  \/ \E o \in Objs : Goroutine(o)

Spec == Init /\ [][Next]_vars

(***************************************************************************)
(* Go schedules every goroutine that can run.  A sync.Mutex hands itself   *)
(* over to a waiter that has waited for a millisecond, so a caller that    *)
(* waits while the mutex is freed again and again gets it: strong fairness *)
(* for the steps of a call.  Clients, signals and crashes owe nothing.     *)
(***************************************************************************)
Fairness ==
  /\ WF_vars(Process)
  /\ \A x \in Callers : SF_vars(Working(x))
  /\ \A o \in Objs : WF_vars(Goroutine(o))

FairSpec == Spec /\ Fairness

-----------------------------------------------------------------------------
(* Properties.                                                             *)

\* Of one pipeline at most one object is active, from its launch until Run has
\* returned: "it saves us from multiple runs of one pipeline" (Start).
OneRunner ==
  \A o1, o2 \in Objs :
    Active(o1) /\ Active(o2) /\ obj[o1].id = obj[o2].id => o1 = o2

\* A pipeline that nobody has cancelled is in the registry with its cancel
\* function, so a Stop, or StopAll at the end, reaches it.
Cancellable ==
  \A o \in Objs :
    Active(o) /\ o \notin cancelled =>
      /\ pipes[obj[o].id].p = o
      /\ pipes[obj[o].id].c

\* Of several parallel calls only one is past the second check of Start: two
\* calls never build objects of one pipeline at the same time.
BuildExclusive ==
  \A x, y \in Callers :
    pc[x] \in BuildPcs /\ pc[y] \in BuildPcs /\ id[x] = id[y] => x = y

\* An object runs once: every start is a new object, since Close leaves the old
\* one without plugins.
LaunchedOnce ==
  [][\A o \in Objs : run[o] = "ended" => run'[o] # "live"]_vars

\* A Stop that is about to answer success has cancelled the pipeline it found
\* running.
StopCancels ==
  \A x \in Callers : pc[x] = "stop_release" => unit[x].p \in cancelled

\* What runs is what the storage holds: an update is refused while the pipeline
\* runs and seen by the next start.
RunsStoredConfig ==
  \A o \in Objs :
    Active(o) /\ o \notin cancelled => obj[o].ver = stored[obj[o].id]

\* A running pipeline keeps its lock row, which keeps other instances from
\* changing its configuration, until it is cancelled.
LockedWhileRunning ==
  Locking =>
    \A o \in Objs : Active(o) /\ o \notin cancelled => obj[o].id \in lockRows

\* A lock row is never left behind by a pipeline that does not run: it belongs to
\* an active object, to a start that is about to launch one, or to a process that
\* is down (whose rows the next boot removes).
NoLockLeftBehind ==
  \A i \in lockRows :
    \/ phase = "down"
    \/ \E o \in Objs : Active(o) /\ obj[o].id = i
    \/ \E x \in Callers : id[x] = i /\ pc[x] \in {"launch", "stop_release"}

\* Lock rows and running pipelines go together.
LocksFollowRuns == LockedWhileRunning /\ NoLockLeftBehind

\* The configuration of a locked pipeline is neither updated nor deleted.
LockedNotEdited ==
  [][\A i \in Ids : i \in lockRows /\ stored[i] # None => stored'[i] = stored[i]]_vars

\* A registered object in state building is being built or already has its
\* goroutine: otherwise every later call answers "pipeline building, please wait".
BuildingEnds ==
  \A i \in Ids :
    LET o == pipes[i].p
    IN o # None /\ obj[o].state = "building" =>
         \/ run[o] = "live"
         \/ \E x \in Callers : pc[x] \in BuildPcs /\ unit[x].p = o

\* Every call returns: nobody waits forever for the mutex of a unit.
CallsReturn ==
  \A x \in Callers : ~Idling(x) ~> Idling(x)

\* After a termination signal the process stops by itself: every pipeline is
\* cancelled and wg.Wait returns.
ShutdownCompletes == phase = "draining" ~> phase = "down"

\* The pipelines as the contract sees them.
ModeOf(i) ==
  LET active == {o \in Objs : Active(o) /\ obj[o].id = i}
  IN IF active = {} THEN "idle"
     ELSE IF active \subseteq cancelled THEN "ending" ELSE "active"

Contract == INSTANCE PipelineContract
              WITH up <- phase # "down", mode <- [i \in Ids |-> ModeOf(i)]

\* The service implements the contract.
ContractSpec == Contract!Spec
=============================================================================
