------------------------ MODULE PipelineServiceProofs ------------------------
(***************************************************************************)
(* Proofs about PipelineService, for any number of pipelines, callers,     *)
(* objects and configurations.                                             *)
(***************************************************************************)
EXTENDS PipelineService, TLAPS

(***************************************************************************)
(* Type correctness of the whole service.                                  *)
(***************************************************************************)

\* The steps in which a caller holds a registry entry it has loaded.
UnitPcs == Pcs \ {"idle", "start_lookup", "add_storage", "add_store"}

\* What a caller carries while it is in a call.
CallOK ==
  \A x \in Callers :
    /\ pc[x] # "idle" => id[x] \in Ids
    /\ pc[x] \in UnitPcs => unit[x] \in Unit

TypeInv == TypeOK /\ CallOK

ObjType == [id : Ids \cup {None}, ver : Versions \cup {None}, state : States]

LEMMA NoUnitFields == NoUnit \notin Unit /\ NoUnit.p = None /\ NoUnit.mu = None
  BY ServiceAssumption DEF NoUnit, Unit

\* Nothing of the runtime is ill typed when the process does not exist.
LEMMA CleanType ==
  /\ NoPipes \in [Ids -> Unit \cup {NoUnit}]
  /\ NoOwners \in [Mutexes -> Callers \cup {None}]
  /\ NoObjs \in [Objs -> ObjType]
  /\ NoRuns \in [Objs -> {"none", "live", "ended"}]
  /\ AllIdle \in [Callers -> Pcs]
  /\ NoArgs \in [Callers -> Ids \cup {None}]
  /\ NoArgs \in [Callers -> Versions \cup {None}]
  /\ NoUnits \in [Callers -> Unit \cup {NoUnit}]
<1>1. NoObj \in ObjType
  BY DEF NoObj, ObjType, States
<1> QED
  BY <1>1 DEF NoPipes, NoOwners, NoObjs, NoRuns, AllIdle, NoArgs, NoUnits, Pcs

LEMMA InitType == Init => TypeInv
<1> SUFFICES ASSUME Init PROVE TypeInv
  OBVIOUS
<1>1. TypeOK
  BY CleanType DEF Init, TypeOK, ObjType
<1>2. CallOK
  BY DEF Init, CallOK, AllIdle, UnitPcs
<1> QED
  BY <1>1, <1>2 DEF TypeInv

\* Ending a call leaves well typed callers.
LEMMA ReturnType ==
  ASSUME TypeInv, NEW x \in Callers, Return(x)
  PROVE  /\ pc' \in [Callers -> Pcs]
         /\ id' \in [Callers -> Ids \cup {None}]
         /\ cfg' \in [Callers -> Versions \cup {None}]
         /\ unit' \in [Callers -> Unit \cup {NoUnit}]
         /\ mutex' \in [Mutexes -> Callers \cup {None}]
         /\ CallOK'
<1>1. "idle" \in Pcs /\ "idle" \notin UnitPcs
  BY DEF Pcs, UnitPcs
<1>2. mutex' \in [Mutexes -> Callers \cup {None}]
  BY DEF TypeInv, TypeOK, Return, Unlocked
<1>3. /\ pc' \in [Callers -> Pcs]
      /\ id' \in [Callers -> Ids \cup {None}]
      /\ cfg' \in [Callers -> Versions \cup {None}]
      /\ unit' \in [Callers -> Unit \cup {NoUnit}]
  BY <1>1 DEF TypeInv, TypeOK, Return, Goto
<1>4. CallOK'
  BY <1>1 DEF TypeInv, TypeOK, CallOK, Return, Goto
<1> QED
  BY <1>2, <1>3, <1>4

\* Creating an object leaves well typed objects.
LEMMA CreateType ==
  ASSUME TypeInv, NEW o \in Objs, NEW i \in Ids, NEW v \in Versions \cup {None}, Create(o, i, v)
  PROVE  /\ obj' \in [Objs -> ObjType]
         /\ run' \in [Objs -> {"none", "live", "ended"}]
         /\ cancelled' \subseteq Objs
<1>1. NoObj \in ObjType /\ [id |-> i, ver |-> v, state |-> "created"] \in ObjType
  BY DEF NoObj, ObjType, States
<1>2. obj \in [Objs -> ObjType]
  BY DEF TypeInv, TypeOK, ObjType
<1>3. obj' \in [Objs -> ObjType]
  BY <1>1, <1>2 DEF Create
<1>4. run' \in [Objs -> {"none", "live", "ended"}] /\ cancelled' \subseteq Objs
  BY DEF TypeInv, TypeOK, Create
<1> QED
  BY <1>3, <1>4

\* Storing a state leaves well typed objects.
LEMMA SetStateType ==
  ASSUME TypeInv, NEW o, NEW s \in States, SetState(o, s)
  PROVE  obj' \in [Objs -> ObjType]
<1>1. obj \in [Objs -> ObjType]
  BY DEF TypeInv, TypeOK, ObjType
<1> QED
  BY <1>1 DEF SetState, ObjType

\* A caller that moves on keeps its argument and its entry.
LEMMA GotoType ==
  ASSUME TypeInv, NEW x \in Callers, NEW l \in Pcs, Goto(x, l),
         pc[x] # "idle", UNCHANGED <<id, unit>>,
         l \in UnitPcs => pc[x] \in UnitPcs
  PROVE  pc' \in [Callers -> Pcs] /\ CallOK'
  BY DEF TypeInv, TypeOK, CallOK, Goto

LEMMA StartPipelineType ==
  ASSUME TypeInv, NEW x \in Callers, StartPipeline(x)
  PROVE  TypeInv'
<1> USE DEF TypeInv
<1>1. CASE BuildBegin(x)
  <2>1. obj' \in [Objs -> ObjType]
    BY <1>1, SetStateType DEF BuildBegin, States
  <2>2. pc' \in [Callers -> Pcs] /\ CallOK'
    BY <1>1, GotoType DEF BuildBegin, Pcs, UnitPcs, BuildPcs
  <2> QED
    BY <1>1, <2>1, <2>2 DEF TypeOK, BuildBegin, boot, storage, ObjType
<1>2. CASE BuildFail(x)
  <2>1. obj' \in [Objs -> ObjType]
    BY <1>2, SetStateType DEF BuildFail, BuildError, States
  <2> QED
    BY <1>2, <2>1, ReturnType DEF TypeOK, BuildFail, NoteBootError, storage, ObjType
<1>3. CASE Acquire(x)
  <2>1. pc' \in [Callers -> Pcs] /\ CallOK'
    BY <1>3, GotoType DEF Acquire, Pcs, UnitPcs, BuildPcs
  <2>2. id[x] \in Ids
    BY <1>3 DEF CallOK, Acquire
  <2> QED
    BY <1>3, <2>1, <2>2 DEF TypeOK, Acquire, LockKey, boot, runtime
<1>4. CASE AcquireFail(x)
  BY <1>4, ReturnType DEF TypeOK, AcquireFail, NoteBootError, storage, runtime
<1>5. CASE Launch(x)
  <2>1. unit[x] \in Unit /\ id[x] \in Ids
    BY <1>5 DEF CallOK, Launch, UnitPcs, Pcs, BuildPcs
  <2>2. WithCancel(unit[x]) \in Unit
    BY <2>1 DEF WithCancel, Unit
  <2>3. pipes' \in [Ids -> Unit \cup {NoUnit}] /\ run' \in [Objs -> {"none", "live", "ended"}]
    BY <1>5, <2>2 DEF TypeOK, Launch
  <2> QED
    BY <1>5, <2>3, ReturnType DEF TypeOK, Launch, boot, storage
<1> QED
  BY <1>1, <1>2, <1>3, <1>4, <1>5 DEF StartPipeline

\* A caller that begins a call, or loads an entry, with a well typed argument.
LEMMA LoadType ==
  ASSUME TypeInv, NEW x \in Callers, NEW l \in Pcs, Goto(x, l),
         id' \in [Callers -> Ids \cup {None}], unit' \in [Callers -> Unit \cup {NoUnit}],
         id'[x] \in Ids, l \in UnitPcs => unit'[x] \in Unit,
         \A y \in Callers \ {x} : id'[y] = id[y] /\ unit'[y] = unit[y]
  PROVE  pc' \in [Callers -> Pcs] /\ CallOK'
  BY DEF TypeInv, TypeOK, CallOK, Goto

\* Checking the state of the loaded entry: the call goes on or returns.
LEMMA CheckType ==
  ASSUME TypeInv, NEW x \in Callers, NEW l \in Pcs, pc[x] \in UnitPcs,
         \/ Goto(x, l) /\ UNCHANGED <<mutex, id, cfg, unit>>
         \/ Return(x),
         UNCHANGED <<boot, storage, pipes, runtime>>
  PROVE  TypeInv'
<1>1. CASE Goto(x, l) /\ UNCHANGED <<mutex, id, cfg, unit>>
  <2>1. pc' \in [Callers -> Pcs] /\ CallOK'
    BY <1>1, GotoType DEF UnitPcs
  <2> QED
    BY <1>1, <2>1 DEF TypeInv, TypeOK, boot, storage, runtime
<1>2. CASE Return(x)
  BY <1>2, ReturnType DEF TypeInv, TypeOK, boot, storage, runtime
<1> QED
  BY <1>1, <1>2

LEMMA StartStepsType ==
  ASSUME TypeInv, NEW x \in Callers, StartSteps(x)
  PROVE  TypeInv'
<1> USE DEF TypeInv
<1>p. /\ {"start_check", "start_lock", "start_recheck", "start_store", "build"} \subseteq UnitPcs
      /\ "start_lookup" \in Pcs \ UnitPcs /\ "idle" \notin UnitPcs /\ UnitPcs \subseteq Pcs
  BY DEF UnitPcs, Pcs, StartPcs, BuildPcs
<1>1. CASE StartLoad(x)
  <2>1. id[x] \in Ids
    BY <1>1 DEF CallOK, StartLoad
  <2>2. unit' \in [Callers -> Unit \cup {NoUnit}] /\ unit'[x] \in Unit
    BY <1>1, <2>1 DEF TypeOK, StartLoad
  <2>3. pc' \in [Callers -> Pcs] /\ CallOK'
    <3>1. \A y \in Callers \ {x} : id'[y] = id[y] /\ unit'[y] = unit[y]
      BY <1>1 DEF TypeOK, StartLoad
    <3>2. id'[x] \in Ids /\ id' \in [Callers -> Ids \cup {None}] /\ Goto(x, "start_check")
      BY <1>1, <2>1 DEF TypeOK, StartLoad
    <3> QED
      BY <1>p, <2>2, <3>1, <3>2, LoadType
  <2> QED
    BY <1>1, <2>2, <2>3 DEF TypeOK, StartLoad, boot, storage, runtime
<1>2. CASE StartCheck(x)
  <2>1. pc[x] \in UnitPcs
    BY <1>2, <1>p DEF StartCheck
  <2> QED
    BY <1>2, <1>p, <2>1, CheckType DEF StartCheck
<1>3. CASE StartLock(x)
  <2>1. id[x] \in Ids
    BY <1>3 DEF CallOK, StartLock
  <2>2. unit' \in [Callers -> Unit \cup {NoUnit}] /\ unit'[x] \in Unit
    BY <1>3, <2>1 DEF TypeOK, StartLock, Reload
  <2>3. pc' \in [Callers -> Pcs] /\ CallOK'
    <3>1. \A y \in Callers \ {x} : id'[y] = id[y] /\ unit'[y] = unit[y]
      BY <1>3 DEF TypeOK, StartLock
    <3>2. id'[x] \in Ids /\ id' \in [Callers -> Ids \cup {None}] /\ Goto(x, "start_recheck")
      BY <1>3, <2>1 DEF TypeOK, StartLock
    <3> QED
      BY <1>p, <2>2, <3>1, <3>2, LoadType
  <2>4. mutex' \in [Mutexes -> Callers \cup {None}]
    BY <1>3 DEF TypeOK, StartLock, Lock
  <2> QED
    BY <1>3, <2>2, <2>3, <2>4 DEF TypeOK, StartLock, boot, storage, runtime
<1>4. CASE StartPanic(x)
  BY <1>4, ReturnType DEF TypeOK, StartPanic, boot, storage, runtime
<1>5. CASE StartRecheck(x)
  <2>1. pc[x] \in UnitPcs
    BY <1>5, <1>p DEF StartRecheck
  <2> QED
    BY <1>5, <1>p, <2>1, CheckType DEF StartRecheck
<1>6. ASSUME NEW o \in Objs, StartStore(x, o)
      PROVE  TypeInv'
  <2> DEFINE u == [p |-> o, mu |-> unit[x].mu, c |-> FALSE]
  <2>1. id[x] \in Ids /\ unit[x] \in Unit
    BY <1>6, <1>p DEF CallOK, StartStore
  <2>2. u \in Unit
    BY <2>1 DEF Unit
  <2>3. Create(o, id[x], cfg[x]) /\ cfg[x] \in Versions \cup {None}
    BY <1>6 DEF TypeOK, StartStore
  <2>4. /\ obj' \in [Objs -> ObjType] /\ run' \in [Objs -> {"none", "live", "ended"}]
        /\ cancelled' \subseteq Objs
    BY <2>1, <2>3, CreateType
  <2>5. /\ pipes' = [pipes EXCEPT ![id[x]] = u]
        /\ unit' = [unit EXCEPT ![x] = u]
    BY <1>6 DEF StartStore
  <2>6. /\ pipes' \in [Ids -> Unit \cup {NoUnit}]
        /\ unit' \in [Callers -> Unit \cup {NoUnit}] /\ unit'[x] \in Unit
        /\ \A y \in Callers \ {x} : unit'[y] = unit[y]
    BY <2>2, <2>5 DEF TypeOK
  <2>7. pc' \in [Callers -> Pcs] /\ CallOK'
    <3>1. \A y \in Callers \ {x} : id'[y] = id[y]
      BY <1>6 DEF StartStore
    <3>2. id'[x] \in Ids /\ id' \in [Callers -> Ids \cup {None}] /\ Goto(x, "build")
      BY <1>6, <2>1 DEF TypeOK, StartStore
    <3> QED
      BY <1>p, <2>6, <3>1, <3>2, LoadType
  <2> QED
    BY <1>6, <2>4, <2>6, <2>7 DEF TypeOK, StartStore, boot, storage, ObjType
<1>7. ASSUME NEW o \in Objs, NEW m \in Mutexes, StartLoadNew(x, o, m)
      PROVE  TypeInv'
  <2> DEFINE u == [p |-> o, mu |-> m, c |-> FALSE]
  <2>1. id[x] \in Ids
    BY <1>7 DEF CallOK, StartLoadNew
  <2>2. u \in Unit
    BY DEF Unit
  <2>3. Create(o, id[x], cfg[x]) /\ cfg[x] \in Versions \cup {None}
    BY <1>7 DEF TypeOK, StartLoadNew
  <2>4. /\ obj' \in [Objs -> ObjType] /\ run' \in [Objs -> {"none", "live", "ended"}]
        /\ cancelled' \subseteq Objs
    BY <2>1, <2>3, CreateType
  <2>5. /\ pipes' = [pipes EXCEPT ![id[x]] = u]
        /\ unit' = [unit EXCEPT ![x] = u]
    BY <1>7 DEF StartLoadNew
  <2>6. /\ pipes' \in [Ids -> Unit \cup {NoUnit}]
        /\ unit' \in [Callers -> Unit \cup {NoUnit}] /\ unit'[x] \in Unit
        /\ \A y \in Callers \ {x} : unit'[y] = unit[y]
    BY <2>2, <2>5 DEF TypeOK
  <2>7. pc' \in [Callers -> Pcs] /\ CallOK'
    <3>1. \A y \in Callers \ {x} : id'[y] = id[y]
      BY <1>7 DEF StartLoadNew
    <3>2. id'[x] \in Ids /\ id' \in [Callers -> Ids \cup {None}] /\ Goto(x, "start_check")
      BY <1>7, <2>1 DEF TypeOK, StartLoadNew
    <3> QED
      BY <1>p, <2>6, <3>1, <3>2, LoadType
  <2> QED
    BY <1>7, <2>4, <2>6, <2>7 DEF TypeOK, StartLoadNew, boot, storage, ObjType
<1> QED
  BY <1>1, <1>2, <1>3, <1>4, <1>5, <1>6, <1>7 DEF StartSteps

LEMMA StopStepsType ==
  ASSUME TypeInv, NEW x \in Callers, StopSteps(x)
  PROVE  TypeInv'
<1> USE DEF TypeInv
<1>p. StopPcs \subseteq UnitPcs /\ UnitPcs \subseteq Pcs /\ "idle" \notin UnitPcs
  BY DEF UnitPcs, Pcs, StopPcs
<1>1. CASE StopCheck(x)
  <2>1. pc[x] \in UnitPcs /\ "stop_lock" \in Pcs
    BY <1>1, <1>p DEF StopCheck, StopPcs
  <2> QED
    BY <1>1, <2>1, CheckType DEF StopCheck
<1>2. CASE StopLock(x)
  <2>1. pc' \in [Callers -> Pcs] /\ CallOK'
    BY <1>2, <1>p, GotoType DEF StopLock, StopPcs
  <2> QED
    BY <1>2, <2>1 DEF TypeOK, StopLock, Lock, boot, storage, runtime
<1>3. CASE StopRecheck(x)
  <2>1. pc[x] \in UnitPcs /\ "stop_cancel" \in Pcs
    BY <1>3, <1>p DEF StopRecheck, StopPcs
  <2> QED
    BY <1>3, <2>1, CheckType DEF StopRecheck
<1>4. CASE StopCancel(x)
  <2>1. pc' \in [Callers -> Pcs] /\ CallOK'
    BY <1>4, <1>p, GotoType DEF StopCancel, StopPcs
  <2>2. unit[x] \in Unit
    BY <1>4, <1>p DEF StopCancel, CallOK, StopPcs
  <2>3. cancelled' \subseteq Objs
    BY <1>4, <2>2 DEF TypeOK, StopCancel, Cancelling, Unit
  <2> QED
    BY <1>4, <2>1, <2>3 DEF TypeOK, StopCancel, boot, storage
<1>5. CASE StopRelease(x)
  BY <1>5, ReturnType DEF TypeOK, StopRelease, boot, runtime
<1> QED
  BY <1>1, <1>2, <1>3, <1>4, <1>5 DEF StopSteps

LEMMA EditStepsType ==
  ASSUME TypeInv, NEW x \in Callers, EditSteps(x)
  PROVE  TypeInv'
<1> USE DEF TypeInv
<1>p. /\ EditPcs \cup {"update_store", "delete_entry"} \subseteq UnitPcs
      /\ {"add_storage", "add_store"} \subseteq Pcs \ UnitPcs
      /\ UnitPcs \subseteq Pcs /\ "idle" \notin UnitPcs
  BY DEF UnitPcs, Pcs, EditPcs
<1>1. CASE AddStorage(x)
  <2>1. id[x] \in Ids
    BY <1>1 DEF AddStorage, CallOK
  <2>2. stored' \in [Ids -> Versions \cup {None}]
    BY <1>1 DEF TypeOK, AddStorage
  <2>3. CASE Return(x)
    BY <1>1, <2>2, <2>3, ReturnType DEF TypeOK, AddStorage, boot, runtime
  <2>4. CASE Goto(x, "add_store") /\ UNCHANGED <<mutex, id, cfg, unit>>
    <3>1. pc' \in [Callers -> Pcs] /\ CallOK'
      BY <1>1, <1>p, <2>4, GotoType DEF AddStorage
    <3> QED
      BY <1>1, <2>2, <2>4, <3>1 DEF TypeOK, AddStorage, boot, runtime
  <2> QED
    BY <1>1, <2>3, <2>4 DEF AddStorage
<1>2. CASE EditCheck(x)
  <2>1. pc[x] \in UnitPcs /\ "edit_lock" \in Pcs
    BY <1>2, <1>p DEF EditCheck, EditPcs
  <2> QED
    BY <1>2, <2>1, CheckType DEF EditCheck
<1>3. CASE EditLock(x)
  <2>1. pc' \in [Callers -> Pcs] /\ CallOK'
    BY <1>3, <1>p, GotoType DEF EditLock, EditPcs
  <2> QED
    BY <1>3, <2>1 DEF TypeOK, EditLock, Lock, boot, storage, runtime
<1>4. CASE EditRecheck(x)
  <2>1. pc[x] \in UnitPcs /\ "edit_storage" \in Pcs
    BY <1>4, <1>p DEF EditRecheck, EditPcs
  <2> QED
    BY <1>4, <2>1, CheckType DEF EditRecheck
<1>5. CASE EditStorageCheck(x)
  <2>1. pc[x] \in UnitPcs /\ "edit_write" \in Pcs
    BY <1>5, <1>p DEF EditStorageCheck, EditPcs
  <2> QED
    BY <1>5, <2>1, CheckType DEF EditStorageCheck
<1>6. CASE EditStorageWrite(x)
  <2>1. stored' \in [Ids -> Versions \cup {None}]
    BY <1>6 DEF TypeOK, EditStorageWrite
  <2>2. pc' \in [Callers -> Pcs] /\ CallOK'
    <3> DEFINE l == IF cfg[x] = None THEN "delete_entry" ELSE "update_store"
    <3>1. l \in Pcs /\ Goto(x, l) /\ pc[x] \in UnitPcs
      BY <1>6, <1>p DEF EditStorageWrite, EditPcs
    <3> HIDE DEF l
    <3> QED
      BY <1>6, <1>p, <3>1, GotoType DEF EditStorageWrite
  <2> QED
    BY <1>6, <2>1, <2>2 DEF TypeOK, EditStorageWrite, boot, runtime
<1>7. CASE DeleteEntry(x)
  <2>1. pipes' \in [Ids -> Unit \cup {NoUnit}]
    BY <1>7 DEF TypeOK, DeleteEntry
  <2> QED
    BY <1>7, <2>1, ReturnType DEF TypeOK, DeleteEntry, boot, storage, runtime
<1>8. ASSUME NEW o \in Objs, UpdateStore(x, o)
      PROVE  TypeInv'
  <2>1. id[x] \in Ids /\ unit[x] \in Unit
    BY <1>8, <1>p DEF UpdateStore, CallOK
  <2>2. [p |-> o, mu |-> unit[x].mu, c |-> FALSE] \in Unit
    BY <2>1 DEF Unit
  <2>3. Create(o, id[x], cfg[x]) /\ cfg[x] \in Versions \cup {None}
    BY <1>8 DEF TypeOK, UpdateStore
  <2>4. pipes' \in [Ids -> Unit \cup {NoUnit}]
    BY <1>8, <2>2 DEF TypeOK, UpdateStore
  <2> QED
    BY <1>8, <2>1, <2>3, <2>4, CreateType, ReturnType DEF TypeOK, UpdateStore, boot, storage, ObjType
<1>9. ASSUME NEW o \in Objs, NEW m \in Mutexes, AddStore(x, o, m)
      PROVE  TypeInv'
  <2>1. id[x] \in Ids
    BY <1>9, <1>p DEF AddStore, CallOK
  <2>2. [p |-> o, mu |-> m, c |-> FALSE] \in Unit
    BY DEF Unit
  <2>3. Create(o, id[x], cfg[x]) /\ cfg[x] \in Versions \cup {None}
    BY <1>9 DEF TypeOK, AddStore
  <2>4. pipes' \in [Ids -> Unit \cup {NoUnit}]
    BY <1>9, <2>2 DEF TypeOK, AddStore
  <2> QED
    BY <1>9, <2>1, <2>3, <2>4, CreateType, ReturnType DEF TypeOK, AddStore, boot, storage, ObjType
<1> QED
  BY <1>1, <1>2, <1>3, <1>4, <1>5, <1>6, <1>7, <1>8, <1>9 DEF EditSteps

LEMMA CallType ==
  ASSUME TypeInv, NEW x \in Callers, Call(x)
  PROVE  TypeInv'
<1> USE DEF TypeInv
<1>p. /\ {"start_lookup", "add_storage"} \subseteq Pcs \ UnitPcs
      /\ {"stop_check", "edit_check"} \subseteq UnitPcs /\ UnitPcs \subseteq Pcs
  BY DEF UnitPcs, Pcs, StartPcs, StopPcs, EditPcs
<1> SUFFICES ASSUME NEW i \in Ids,
                    \/ StartCall(x, i) \/ StopCall(x, i)
                    \/ \E v \in Versions : AddCall(x, i, v)
                    \/ \E v \in Versions \cup {None} : EditCall(x, i, v)
             PROVE  TypeInv'
  BY DEF Call
<1>1. CASE StartCall(x, i)
  <2>1. pc' \in [Callers -> Pcs] /\ CallOK'
    BY <1>1, <1>p, LoadType DEF StartCall, TypeOK
  <2> QED
    BY <1>1, <2>1 DEF StartCall, TypeOK, boot, storage, runtime
<1>2. CASE StopCall(x, i)
  <2>1. unit' \in [Callers -> Unit \cup {NoUnit}] /\ unit'[x] \in Unit
    BY <1>2 DEF StopCall, TypeOK
  <2>2. pc' \in [Callers -> Pcs] /\ CallOK'
    BY <1>2, <1>p, <2>1, LoadType DEF StopCall, TypeOK
  <2> QED
    BY <1>2, <2>1, <2>2 DEF StopCall, TypeOK, boot, storage, runtime
<1>3. ASSUME NEW v \in Versions, AddCall(x, i, v)
      PROVE  TypeInv'
  <2>1. pc' \in [Callers -> Pcs] /\ CallOK'
    BY <1>3, <1>p, LoadType DEF AddCall, TypeOK
  <2> QED
    BY <1>3, <2>1 DEF AddCall, TypeOK, boot, storage, runtime
<1>4. ASSUME NEW v \in Versions \cup {None}, EditCall(x, i, v)
      PROVE  TypeInv'
  <2>1. unit' \in [Callers -> Unit \cup {NoUnit}] /\ unit'[x] \in Unit
    BY <1>4 DEF EditCall, TypeOK
  <2>2. pc' \in [Callers -> Pcs] /\ CallOK'
    BY <1>4, <1>p, <2>1, LoadType DEF EditCall, TypeOK
  <2> QED
    BY <1>4, <2>1, <2>2 DEF EditCall, TypeOK, boot, storage, runtime
<1> QED
  BY <1>1, <1>2, <1>3, <1>4

LEMMA GoroutineType ==
  ASSUME TypeInv, NEW o \in Objs, Goroutine(o)
  PROVE  TypeInv'
<1> USE DEF TypeInv
<1>c. UNCHANGED caller => UNCHANGED <<pc, id, cfg, unit>> /\ CallOK'
  BY DEF caller, CallOK
<1>1. ASSUME NEW from, NEW to \in States, RunTo(o, from, to)
      PROVE  TypeInv'
  <2>1. obj' \in [Objs -> ObjType]
    BY <1>1, SetStateType DEF RunTo
  <2> QED
    BY <1>1, <1>c, <2>1 DEF RunTo, TypeOK, ObjType, boot, storage
<1>2. CASE RunClosed(o)
  BY <1>2, <1>c DEF RunClosed, TypeOK, boot, storage
<1> QED
  BY <1>1, <1>2 DEF Goroutine, RunStarting, RunRunning, RunStopping, RunStopped, States

LEMMA ProcessType ==
  ASSUME TypeInv, Process \/ Shutdown \/ Crash
  PROVE  TypeInv'
<1> USE DEF TypeInv
<1>c. UNCHANGED caller => UNCHANGED <<pc, id, cfg, unit>> /\ CallOK'
  BY DEF caller, CallOK
<1>1. CASE Boot
  BY <1>1, <1>c DEF Boot, BootLocks, TypeOK, runtime
<1>2. CASE BootDone
  BY <1>2, <1>c DEF BootDone, Registered, TypeOK, storage, runtime
<1>3. CASE Drained
  BY <1>3, <1>c DEF Drained, Registered, TypeOK, storage, runtime
<1>4. CASE Shutdown
  BY <1>4, <1>c DEF Shutdown, TypeOK, storage, runtime
<1>5. ASSUME Gone
      PROVE  TypeInv'
  <2>1. CallOK'
    BY <1>5 DEF Gone, AllIdle, CallOK, UnitPcs
  <2> QED
    BY <1>5, <2>1, CleanType DEF Gone, TypeOK, ObjType, storage
<1>6. ASSUME NEW i \in Ids, StopAllOne(i)
      PROVE  TypeInv'
  <2>1. cancelled' \subseteq Objs
    <3>1. pipes[i] \in Unit \cup {NoUnit}
      BY DEF TypeOK
    <3> QED
      BY <1>6, <3>1 DEF StopAllOne, Cancelling, TypeOK, Unit, NoUnit
  <2> QED
    BY <1>6, <1>c, <2>1 DEF StopAllOne, TypeOK
<1>7. ASSUME NEW x \in Callers, NEW i \in Ids, NEW o \in Objs, NEW m \in Mutexes,
             BootOne(x, i, o, m)
      PROVE  TypeInv'
  <2> DEFINE u == [p |-> o, mu |-> m, c |-> FALSE]
  <2>1. u \in Unit
    BY DEF Unit
  <2>2. Create(o, i, stored[i]) /\ stored[i] \in Versions \cup {None}
    BY <1>7 DEF BootOne, TypeOK
  <2>3. pipes' \in [Ids -> Unit \cup {NoUnit}]
    BY <1>7, <2>1 DEF BootOne, TypeOK
  <2>4. /\ pc' \in [Callers -> Pcs] /\ id' \in [Callers -> Ids \cup {None}]
        /\ unit' \in [Callers -> Unit \cup {NoUnit}] /\ CallOK'
    <3>1. CASE UNCHANGED <<pc, id, unit>>
      BY <3>1 DEF TypeOK, CallOK
    <3>2. CASE /\ Goto(x, "build")
               /\ id' = [id EXCEPT ![x] = i]
               /\ unit' = [unit EXCEPT ![x] = u]
      <4>1. "build" \in Pcs
        BY DEF Pcs, BuildPcs
      <4>2. /\ id' \in [Callers -> Ids \cup {None}] /\ id'[x] \in Ids
            /\ unit' \in [Callers -> Unit \cup {NoUnit}] /\ unit'[x] \in Unit
            /\ \A y \in Callers \ {x} : id'[y] = id[y] /\ unit'[y] = unit[y]
        BY <3>2, <2>1 DEF TypeOK
      <4> QED
        BY <3>2, <4>1, <4>2, LoadType
    <3> QED
      BY <1>7, <3>1, <3>2 DEF BootOne
  <2> QED
    BY <1>7, <2>2, <2>3, <2>4, CreateType DEF BootOne, TypeOK, ObjType, storage
<1> QED
  BY <1>1, <1>2, <1>3, <1>4, <1>5, <1>6, <1>7 DEF Process, Exit, Crash

\* Whatever clients call, the state of the service, its callers included, stays
\* well typed: a caller past its first load always carries a real entry.
THEOREM TypeCorrect == Spec => []TypeInv
<1>1. Init => TypeInv
  BY InitType
<1>2. TypeInv /\ [Next]_vars => TypeInv'
  <2> SUFFICES ASSUME TypeInv, [Next]_vars PROVE TypeInv'
    OBVIOUS
  <2>1. CASE UNCHANGED vars
    BY <2>1 DEF TypeInv, TypeOK, CallOK, vars, boot, storage, runtime, caller
  <2>2. CASE Process \/ Shutdown \/ Crash
    BY <2>2, ProcessType
  <2>3. ASSUME NEW x \in Callers, Call(x) \/ Working(x)
        PROVE  TypeInv'
    BY <2>3, CallType, StartPipelineType, StartStepsType, StopStepsType, EditStepsType DEF Working
  <2>4. ASSUME NEW o \in Objs, Goroutine(o)
        PROVE  TypeInv'
    BY <2>4, GoroutineType
  <2> QED
    BY <2>1, <2>2, <2>3, <2>4 DEF Next
<1> QED
  BY <1>1, <1>2, PTL DEF Spec

THEOREM TypeOKCorrect == Spec => []TypeOK
<1>1. TypeInv => TypeOK
  BY DEF TypeInv
<1> QED
  BY <1>1, TypeCorrect, PTL

-----------------------------------------------------------------------------
(***************************************************************************)
(* Clients that only start and stop: one object of a pipeline runs at a    *)
(* time, and it can be cancelled.  The argument: a registered entry keeps  *)
(* its mutex, so calls for one pipeline exclude each other from the second *)
(* load of the entry until they return; in that interval the entry is the  *)
(* registered one and its object is not active, so replacing it loses      *)
(* nothing; and every active object is the registered one.                 *)
(***************************************************************************)
StartStopOnly == \A x \in Callers : Ops[x] \subseteq {"start", "stop"}

\* The steps of Start, and of boot, that rely on nobody else replacing the entry.
Critical == {"start_recheck", "start_store"} \cup BuildPcs

\* Only steps of Start and Stop are ever taken.
PcInv == \A x \in Callers : pc[x] \in {"idle"} \cup StartPcs \cup BuildPcs \cup StopPcs

\* An entry is never removed and keeps its mutex.
EntryInv ==
  \A x \in Callers :
    pc[x] \in UnitPcs => pipes[id[x]] # NoUnit /\ unit[x].mu = pipes[id[x]].mu

\* While requests are served a critical caller holds the mutex of its entry; at
\* boot there is no mutex, but each pipeline has at most one worker.
LockInv ==
  /\ \A x \in Callers :
       pc[x] \in Critical /\ phase # "boot" => mutex[unit[x].mu] = x
  /\ phase = "boot" =>
       /\ \A x \in Callers : pc[x] \in {"idle"} \cup BuildPcs
       /\ \A x, y \in Callers : pc[x] # "idle" /\ pc[y] # "idle" /\ id[x] = id[y] => x = y
       /\ \A i \in pending : pipes[i] = NoUnit
  /\ phase \in {"down", "stopall"} => \A x \in Callers : pc[x] = "idle"

\* A critical caller works on the registered entry.
CurrentInv == \A x \in Callers : pc[x] \in Critical => unit[x] = pipes[id[x]]

\* What a critical caller knows about the object of its entry.
ObjectInv ==
  \A x \in Callers :
    /\ pc[x] = "start_store" => ~Active(unit[x].p)
    /\ pc[x] \in BuildPcs => run[unit[x].p] # "live"
    /\ pc[x] \in {"building", "launch"} => obj[unit[x].p].state = "building"

\* The registered object belongs to the pipeline it is registered for.
NameInv == \A i \in Ids : pipes[i] # NoUnit => obj[pipes[i].p].id = i

\* What runs was built.
LiveInv == \A o \in Objs : run[o] = "live" => obj[o].state # "created"

\* What is active is registered, with its cancel function.
ActiveInv ==
  \A o \in Objs :
    Active(o) => /\ obj[o].id \in Ids
                 /\ pipes[obj[o].id].p = o
                 /\ pipes[obj[o].id].c

SInv ==
  /\ PcInv /\ EntryInv /\ LockInv /\ CurrentInv /\ ObjectInv /\ NameInv /\ LiveInv /\ ActiveInv

\* A process that is down has no registry.
DownInv == phase = "down" => \A i \in Ids : pipes[i] = NoUnit

Inv == TypeInv /\ SInv /\ DownInv

\* Two critical callers of one pipeline are one.
LEMMA Exclusive ==
  ASSUME Inv, NEW x \in Callers, NEW y \in Callers,
         pc[x] \in Critical, pc[y] \in Critical, id[x] = id[y]
  PROVE  x = y
<1>p. Critical \subseteq UnitPcs /\ "idle" \notin Critical
  BY DEF Critical, UnitPcs, Pcs, StartPcs, BuildPcs
<1>1. CASE phase = "boot"
  BY <1>1, <1>p DEF Inv, SInv, LockInv
<1>2. CASE phase # "boot"
  <2>1. mutex[unit[x].mu] = x /\ mutex[unit[y].mu] = y
    BY <1>2 DEF Inv, SInv, LockInv
  <2>2. unit[x].mu = unit[y].mu
    BY <1>p DEF Inv, SInv, EntryInv
  <2> QED
    BY <2>1, <2>2
<1> QED
  BY <1>1, <1>2

\* A caller that is in a call finds the process booting or serving.
LEMMA BusyPhase ==
  ASSUME Inv, NEW x \in Callers, pc[x] # "idle"
  PROVE  phase \in {"boot", "serving", "draining"}
  BY DEF Inv, TypeInv, TypeOK, SInv, LockInv

\* A call that ends disturbs nothing.
LEMMA ReturnKeeps ==
  ASSUME Inv, NEW x \in Callers, Return(x), UNCHANGED <<phase, pending, pipes, obj, run>>
  PROVE  SInv'
<1> USE DEF Inv, SInv
<1>a. /\ pc' = [pc EXCEPT ![x] = "idle"] /\ id' = [id EXCEPT ![x] = None]
      /\ unit' = [unit EXCEPT ![x] = NoUnit]
      /\ mutex' = [m \in Mutexes |-> IF mutex[m] = x THEN None ELSE mutex[m]]
  BY DEF Return, Goto, Unlocked
<1>b. \A y \in Callers : y # x => pc'[y] = pc[y] /\ id'[y] = id[y] /\ unit'[y] = unit[y]
  BY <1>a DEF TypeInv, TypeOK
<1>c. pc'[x] = "idle"
  BY <1>a DEF TypeInv, TypeOK
<1>d. /\ "idle" \notin UnitPcs \cup Critical \cup BuildPcs /\ Critical \subseteq UnitPcs
      /\ BuildPcs \subseteq Critical
  BY DEF UnitPcs, Critical, StartPcs, BuildPcs, Pcs
<1>1. PcInv' /\ EntryInv' /\ CurrentInv'
  BY <1>b, <1>c, <1>d DEF PcInv, EntryInv, CurrentInv
<1>2. LockInv'
  <2>1. ASSUME NEW y \in Callers, pc'[y] \in Critical, phase # "boot"
        PROVE  mutex'[unit'[y].mu] = y
    <3>1. y # x /\ unit[y] \in Unit
      BY <1>b, <1>c, <1>d, <2>1 DEF TypeInv, CallOK
    <3>2. unit[y].mu \in Mutexes /\ mutex[unit[y].mu] = y
      BY <1>b, <2>1, <3>1 DEF LockInv, Unit
    <3> QED
      BY <1>a, <1>b, <3>1, <3>2
  <2> QED
    BY <1>b, <1>c, <2>1 DEF LockInv
<1>3. ObjectInv' /\ NameInv' /\ LiveInv' /\ ActiveInv'
  BY <1>b, <1>c DEF ObjectInv, BuildPcs, NameInv, LiveInv, ActiveInv, Active
<1> QED
  BY <1>1, <1>2, <1>3

\* A caller that moves between steps that are not critical, and may lock.
LEMMA MoveKeeps ==
  ASSUME Inv, NEW x \in Callers, NEW l \in StartPcs \cup StopPcs, Goto(x, l), l \notin Critical,
         l \in UnitPcs => pc[x] \in UnitPcs, pc[x] \notin Critical, pc[x] # "idle",
         phase # "boot",
         UNCHANGED mutex \/ Lock(x),
         UNCHANGED <<phase, pending, pipes, obj, run, id, unit>>
  PROVE  SInv'
<1> USE DEF Inv, SInv
<1>b. \A y \in Callers : y # x => pc'[y] = pc[y]
  BY DEF TypeInv, TypeOK, Goto
<1>c. pc'[x] = l
  BY DEF TypeInv, TypeOK, Goto
<1>d. BuildPcs \subseteq Critical /\ "start_store" \in Critical /\ {"building", "launch"} \subseteq BuildPcs
  BY DEF Critical, BuildPcs
<1>e. \A y \in Callers : pc'[y] \in Critical => y # x /\ pc[y] \in Critical /\ unit[y] \in Unit
  BY <1>b, <1>c DEF TypeInv, CallOK, Critical, UnitPcs, StartPcs, BuildPcs, Pcs
<1>1. PcInv' /\ EntryInv' /\ CurrentInv'
  BY <1>b, <1>c, <1>e DEF PcInv, EntryInv, CurrentInv
<1>2. LockInv'
  <2>1. ASSUME NEW y \in Callers, pc'[y] \in Critical
        PROVE  mutex'[unit'[y].mu] = y
    <3>1. mutex[unit[y].mu] = y /\ unit[y].mu \in Mutexes
      BY <1>e, <2>1 DEF LockInv, Unit
    <3>2. y # None
      BY ServiceAssumption
    <3> QED
      BY <3>1, <3>2 DEF Lock, TypeInv, TypeOK
  <2>2. phase \notin {"down", "stopall"}
    BY BusyPhase
  <2> QED
    BY <2>1, <2>2 DEF LockInv
<1>3. ObjectInv' /\ NameInv' /\ LiveInv' /\ ActiveInv'
  BY <1>b, <1>c, <1>d DEF ObjectInv, NameInv, LiveInv, ActiveInv, Active
<1> QED
  BY <1>1, <1>2, <1>3

\* What has to be shown of a step of caller x about the callers and the registry:
\* only the entry of x changes, keeping its mutex, and only if x is critical or the
\* entry is new.
LEMMA CallerStep ==
  ASSUME Inv, NEW x \in Callers, UNCHANGED <<phase, pending>>,
         \A y \in Callers : y # x => pc'[y] = pc[y] /\ id'[y] = id[y] /\ unit'[y] = unit[y],
         \A y \in Callers, m \in Mutexes : y # x /\ mutex[m] = y => mutex'[m] = y,
         pc'[x] \in {"idle"} \cup StartPcs \cup BuildPcs \cup StopPcs,
         pc'[x] \in UnitPcs => pipes'[id'[x]] # NoUnit /\ unit'[x].mu = pipes'[id'[x]].mu,
         pc'[x] \in Critical => /\ unit'[x] = pipes'[id'[x]]
                                /\ phase # "boot" => mutex'[unit'[x].mu] = x,
         phase = "boot" => \/ pc'[x] = "idle"
                           \/ pc'[x] \in BuildPcs /\ pc[x] # "idle" /\ id'[x] = id[x],
         phase \in {"down", "stopall"} => pc'[x] = "idle",
         \A i \in Ids : pipes[i] # NoUnit => pipes'[i] # NoUnit /\ pipes'[i].mu = pipes[i].mu,
         \A i \in Ids : pipes'[i] # pipes[i] => i = id[x] /\ (pc[x] \in Critical \/ pipes[i] = NoUnit),
         phase = "boot" => \A i \in pending : pipes'[i] = pipes[i]
  PROVE  PcInv' /\ EntryInv' /\ LockInv' /\ CurrentInv'
<1> USE DEF Inv, SInv
<1>p. Critical \subseteq UnitPcs /\ "idle" \notin UnitPcs
  BY DEF Critical, UnitPcs, Pcs, StartPcs, BuildPcs
<1>q. \A y \in Callers : pc[y] \in UnitPcs => id[y] \in Ids /\ unit[y] \in Unit
  BY <1>p DEF TypeInv, CallOK
<1>1. PcInv'
  BY DEF PcInv
<1>2. EntryInv'
  <2> SUFFICES ASSUME NEW y \in Callers, pc'[y] \in UnitPcs, y # x
               PROVE  pipes'[id'[y]] # NoUnit /\ unit'[y].mu = pipes'[id'[y]].mu
    BY DEF EntryInv
  <2>1. pipes[id[y]] # NoUnit /\ unit[y].mu = pipes[id[y]].mu /\ id[y] \in Ids
    BY <1>q DEF EntryInv
  <2> QED
    BY <2>1
<1>3. CurrentInv'
  <2> SUFFICES ASSUME NEW y \in Callers, pc'[y] \in Critical, y # x
               PROVE  unit'[y] = pipes'[id'[y]]
    BY DEF CurrentInv
  <2>1. unit[y] = pipes[id[y]] /\ id[y] \in Ids /\ pipes[id[y]] # NoUnit
    BY <1>p, <1>q DEF CurrentInv, EntryInv
  <2>2. pipes'[id[y]] = pipes[id[y]]
    BY <2>1, Exclusive
  <2> QED
    BY <2>1, <2>2
<1>4. LockInv'
  <2>1. ASSUME NEW y \in Callers, pc'[y] \in Critical, phase # "boot", y # x
        PROVE  mutex'[unit'[y].mu] = y
    <3>1. mutex[unit[y].mu] = y /\ unit[y] \in Unit
      BY <1>p, <1>q, <2>1 DEF LockInv
    <3> QED
      BY <2>1, <3>1 DEF Unit
  <2>2. ASSUME phase = "boot"
        PROVE  /\ \A y \in Callers : pc'[y] \in {"idle"} \cup BuildPcs
               /\ \A y, z \in Callers :
                    pc'[y] # "idle" /\ pc'[z] # "idle" /\ id'[y] = id'[z] => y = z
               /\ \A i \in pending : pipes'[i] = NoUnit
    BY <2>2 DEF LockInv
  <2> QED
    BY <2>1, <2>2 DEF LockInv
<1> QED
  BY <1>1, <1>2, <1>3, <1>4

\* Callers past the second load work on objects of their own.
LEMMA OwnObject ==
  ASSUME Inv, NEW x \in Callers, NEW y \in Callers,
         pc[x] \in Critical, pc[y] \in Critical, unit[x].p = unit[y].p
  PROVE  x = y
<1>p. Critical \subseteq UnitPcs /\ "idle" \notin Critical
  BY DEF Critical, UnitPcs, Pcs, StartPcs, BuildPcs
<1>1. \A z \in Callers : pc[z] \in Critical => id[z] \in Ids /\ obj[unit[z].p].id = id[z]
  BY <1>p DEF Inv, TypeInv, CallOK, SInv, CurrentInv, EntryInv, NameInv
<1> QED
  BY <1>1, Exclusive

LEMMA SetStateFields ==
  ASSUME TypeInv, NEW o \in Objs, NEW s, SetState(o, s)
  PROVE  \A q \in Objs : /\ obj'[q].id = obj[q].id
                         /\ q # o => obj'[q] = obj[q]
                         /\ q = o => obj'[q].state = s
<1>1. obj \in [Objs -> ObjType]
  BY DEF TypeInv, TypeOK, ObjType
<1> QED
  BY <1>1 DEF SetState, ObjType

\* The objects of the entries callers carry, and of the registry.
LEMMA UnitObjs ==
  ASSUME TypeInv
  PROVE  /\ \A x \in Callers : pc[x] \in UnitPcs => unit[x].p \in Objs /\ unit[x].mu \in Mutexes
         /\ \A i \in Ids : pipes[i] # NoUnit => pipes[i].p \in Objs /\ pipes[i].mu \in Mutexes
  BY DEF TypeInv, TypeOK, CallOK, Unit

\* Building, locking and launching: the caller is critical throughout.
LEMMA StartPipelineKeeps ==
  ASSUME Inv, NEW x \in Callers, StartPipeline(x)
  PROVE  SInv'
<1> USE DEF Inv, SInv
<1> DEFINE o == unit[x].p
<1>p. /\ BuildPcs = {"build", "building", "launch"} /\ BuildPcs \subseteq Critical
      /\ Critical \subseteq UnitPcs /\ "idle" \notin UnitPcs /\ "start_store" \in Critical
      /\ {"idle", "start_store"} \cap BuildPcs = {}
  BY DEF Critical, UnitPcs, Pcs, StartPcs, BuildPcs
<1>0. /\ pc[x] \in BuildPcs /\ o \in Objs /\ id[x] \in Ids /\ unit[x] \in Unit
      /\ unit[x] = pipes[id[x]] /\ pipes[id[x]] # NoUnit /\ run[o] # "live"
      /\ phase \notin {"down", "stopall"}
  <2>1. pc[x] \in BuildPcs
    BY <1>p DEF StartPipeline, BuildBegin, BuildFail, Acquire, AcquireFail, Launch
  <2>2. pc[x] \in UnitPcs /\ pc[x] # "idle" /\ pc[x] \in Critical
    BY <2>1, <1>p
  <2> QED
    BY <2>1, <2>2, UnitObjs, BusyPhase DEF CurrentInv, EntryInv, ObjectInv, TypeInv, CallOK
<1>o. \A y \in Callers : y # x /\ pc[y] \in Critical => unit[y].p # o
  BY <1>0, <1>p, OwnObject
<1>1. CASE BuildBegin(x)
  <2>1. /\ \A y \in Callers : y # x => pc'[y] = pc[y]
        /\ pc'[x] = "building"
    BY <1>1 DEF BuildBegin, Goto, TypeInv, TypeOK
  <2>2. /\ UNCHANGED <<phase, pending, pipes, mutex, run, id, unit>>
        /\ SetState(o, "building")
    BY <1>1 DEF BuildBegin, boot
  <2>3. PcInv' /\ EntryInv' /\ LockInv' /\ CurrentInv'
    BY <1>0, <1>p, <2>1, <2>2, CallerStep DEF LockInv
  <2>4. \A q \in Objs : /\ obj'[q].id = obj[q].id
                        /\ q # o => obj'[q] = obj[q]
                        /\ q = o => obj'[q].state = "building"
    BY <1>0, <2>2, SetStateFields
  <2>5. \A q \in Objs : Active(q)' => q # o /\ Active(q)
    BY <1>0, <2>2, <2>4 DEF Active
  <2>6. ObjectInv'
    <3> SUFFICES ASSUME NEW y \in Callers
                 PROVE  /\ pc'[y] = "start_store" => ~Active(unit[y].p)'
                        /\ pc'[y] \in BuildPcs => run[unit[y].p] # "live"
                        /\ pc'[y] \in {"building", "launch"} => obj'[unit[y].p].state = "building"
      BY <2>2 DEF ObjectInv
    <3>1. CASE y = x
      BY <1>0, <1>p, <2>1, <2>2, <2>4, <3>1
    <3>2. CASE y # x
      <4>1. pc'[y] \in Critical => unit[y].p \in Objs /\ unit[y].p # o
        BY <1>o, <1>p, <2>1, <3>2, UnitObjs
      <4> QED
        BY <1>p, <2>1, <2>2, <2>4, <3>2, <4>1 DEF ObjectInv, Active
    <3> QED
      BY <3>1, <3>2
  <2>7. NameInv' /\ LiveInv' /\ ActiveInv'
    BY <1>0, <2>2, <2>4, <2>5, UnitObjs DEF NameInv, LiveInv, ActiveInv
  <2> QED
    BY <2>3, <2>6, <2>7
<1>2. CASE BuildFail(x)
  <2>1. /\ \A y \in Callers : y # x => pc'[y] = pc[y] /\ unit'[y] = unit[y] /\ id'[y] = id[y]
        /\ pc'[x] = "idle"
        /\ \A y \in Callers, m \in Mutexes : y # x /\ mutex[m] = y => mutex'[m] = y
    BY <1>2 DEF BuildFail, Return, Goto, Unlocked, TypeInv, TypeOK
  <2>2. /\ UNCHANGED <<phase, pending, pipes, run>>
        /\ SetState(o, "stopped")
    BY <1>2 DEF BuildFail, BuildError
  <2>3. PcInv' /\ EntryInv' /\ LockInv' /\ CurrentInv'
    BY <1>0, <1>p, <2>1, <2>2, CallerStep
  <2>4. \A q \in Objs : /\ obj'[q].id = obj[q].id
                        /\ q # o => obj'[q] = obj[q]
                        /\ q = o => obj'[q].state = "stopped"
    BY <1>0, <2>2, SetStateFields
  <2>6. ObjectInv'
    <3> SUFFICES ASSUME NEW y \in Callers, y # x
                 PROVE  /\ pc[y] = "start_store" => ~Active(unit[y].p)'
                        /\ pc[y] \in BuildPcs => run[unit[y].p] # "live"
                        /\ pc[y] \in {"building", "launch"} => obj'[unit[y].p].state = "building"
      BY <1>p, <2>1, <2>2 DEF ObjectInv, Active
    <3>1. pc[y] \in Critical => unit[y].p \in Objs /\ unit[y].p # o
      BY <1>o, <1>p, UnitObjs
    <3> QED
      BY <1>p, <2>1, <2>2, <2>4, <3>1 DEF ObjectInv, Active
  <2>7. NameInv' /\ LiveInv' /\ ActiveInv'
    BY <1>0, <2>2, <2>4, UnitObjs DEF NameInv, LiveInv, ActiveInv, Active
  <2> QED
    BY <2>3, <2>6, <2>7
<1>3. CASE Acquire(x)
  <2>1. /\ \A y \in Callers : y # x => pc'[y] = pc[y]
        /\ pc'[x] = "launch"
    BY <1>3 DEF Acquire, Goto, TypeInv, TypeOK
  <2>2. UNCHANGED <<phase, pending, pipes, mutex, obj, run, id, unit>>
    BY <1>3 DEF Acquire, boot, runtime
  <2>3. PcInv' /\ EntryInv' /\ LockInv' /\ CurrentInv'
    BY <1>0, <1>p, <2>1, <2>2, CallerStep DEF LockInv
  <2>4. ObjectInv'
    BY <1>3, <1>p, <2>1, <2>2 DEF ObjectInv, Active, Acquire
  <2>5. NameInv' /\ LiveInv' /\ ActiveInv'
    BY <2>2 DEF NameInv, LiveInv, ActiveInv, Active
  <2> QED
    BY <2>3, <2>4, <2>5
<1>4. CASE AcquireFail(x)
  BY <1>4, ReturnKeeps DEF AcquireFail, runtime
<1>5. CASE Launch(x)
  <2>1. /\ \A y \in Callers : y # x => pc'[y] = pc[y] /\ unit'[y] = unit[y] /\ id'[y] = id[y]
        /\ pc'[x] = "idle"
        /\ \A y \in Callers, m \in Mutexes : y # x /\ mutex[m] = y => mutex'[m] = y
    BY <1>5 DEF Launch, Return, Goto, Unlocked, TypeInv, TypeOK
  <2>2. UNCHANGED <<phase, pending, obj>>
    BY <1>5 DEF Launch, boot
  <2>3. /\ \A q \in Objs : q # o => run'[q] = run[q]
        /\ run'[o] = "live"
    BY <1>5, <1>0 DEF Launch, TypeInv, TypeOK
  <2>4. /\ \A i \in Ids : i # id[x] => pipes'[i] = pipes[i]
        /\ pipes'[id[x]] = WithCancel(unit[x])
    BY <1>5, <1>0 DEF Launch, TypeInv, TypeOK
  <2>5. /\ WithCancel(unit[x]) \in Unit
        /\ WithCancel(unit[x]).mu = unit[x].mu
        /\ WithCancel(unit[x]).p = o
        /\ WithCancel(unit[x]).c
    BY <1>0 DEF WithCancel, Unit
  <2>6. \A i \in Ids : pipes[i] # NoUnit =>
          pipes'[i] # NoUnit /\ pipes'[i].mu = pipes[i].mu /\ pipes'[i].p = pipes[i].p
    BY <1>0, <2>4, <2>5, NoUnitFields
  <2>7. \A i \in Ids : pipes'[i].c = pipes[i].c \/ pipes'[i].c
    BY <2>4, <2>5
  <2>8. PcInv' /\ EntryInv' /\ LockInv' /\ CurrentInv'
    <3>1. phase = "boot" => \A i \in pending : pipes'[i] = pipes[i]
      BY <1>0, <2>4 DEF LockInv, TypeInv, TypeOK
    <3>2. \A i \in Ids : pipes'[i] # pipes[i] => i = id[x] /\ (pc[x] \in Critical \/ pipes[i] = NoUnit)
      BY <1>0, <1>p, <2>4
    <3> QED
      BY <1>0, <1>p, <2>1, <2>2, <2>6, <3>1, <3>2, CallerStep
  <2>9. ObjectInv'
    <3> SUFFICES ASSUME NEW y \in Callers, y # x
                 PROVE  /\ pc[y] = "start_store" => ~Active(unit[y].p)'
                        /\ pc[y] \in BuildPcs => run'[unit[y].p] # "live"
                        /\ pc[y] \in {"building", "launch"} => obj[unit[y].p].state = "building"
      BY <1>p, <2>1, <2>2 DEF ObjectInv, Active
    <3>1. pc[y] \in Critical => unit[y].p \in Objs /\ unit[y].p # o
      BY <1>o, <1>p, UnitObjs
    <3> QED
      BY <1>p, <2>1, <2>2, <2>3, <3>1 DEF ObjectInv, Active
  <2>10. obj[o].id = id[x] /\ obj[o].state = "building"
    BY <1>0, <1>5, <1>p DEF NameInv, ObjectInv, Launch
  <2>11. NameInv' /\ LiveInv'
    <3>1. NameInv'
      <4> SUFFICES ASSUME NEW i \in Ids, pipes'[i] # NoUnit
                   PROVE  obj[pipes'[i].p].id = i
        BY <2>2 DEF NameInv
      <4> QED
        BY <2>4, <2>5, <2>10 DEF NameInv
    <3> QED
      BY <3>1, <2>2, <2>3, <2>10 DEF LiveInv
  <2>12. ActiveInv'
    <3> SUFFICES ASSUME NEW q \in Objs, Active(q)'
                 PROVE  /\ obj[q].id \in Ids
                        /\ pipes'[obj[q].id].p = q
                        /\ pipes'[obj[q].id].c
      BY <2>2 DEF ActiveInv
    <3>1. CASE q = o
      BY <1>0, <2>4, <2>5, <2>10, <3>1
    <3>2. CASE q # o
      <4>1. Active(q)
        BY <2>2, <2>3, <3>2 DEF Active
      <4>2. obj[q].id \in Ids /\ pipes[obj[q].id].p = q /\ pipes[obj[q].id].c
        BY <4>1 DEF ActiveInv
      <4>3. obj[q].id # id[x]
        BY <1>0, <3>2, <4>2
      <4> QED
        BY <2>4, <4>2, <4>3
    <3> QED
      BY <3>1, <3>2
  <2> QED
    BY <2>8, <2>9, <2>11, <2>12
<1> QED
  BY <1>1, <1>2, <1>3, <1>4, <1>5 DEF StartPipeline

\* A new object is nobody's, and what anybody refers to, or runs, is kept.
LEMMA CreateFields ==
  ASSUME Inv, NEW o \in Objs, NEW i \in Ids, NEW v, Create(o, i, v)
  PROVE  /\ obj'[o].id = i /\ run'[o] # "live"
         /\ \A q \in Objs : run'[q] = "live" => run[q] = "live" /\ obj'[q] = obj[q]
         /\ \A j \in Ids : pipes[j] # NoUnit =>
              obj'[pipes[j].p] = obj[pipes[j].p] /\ run'[pipes[j].p] = run[pipes[j].p]
         /\ \A x \in Callers : pc[x] \in UnitPcs =>
              obj'[unit[x].p] = obj[unit[x].p] /\ run'[unit[x].p] = run[unit[x].p]
         /\ LiveInv'
<1>1. /\ \A j \in Ids : pipes[j] # NoUnit => pipes[j].p \in Objs /\ ~FreshObj(pipes[j].p)
      /\ \A x \in Callers : pc[x] \in UnitPcs => unit[x].p \in Objs /\ ~FreshObj(unit[x].p)
  BY UnitObjs DEF FreshObj, Inv
<1>2. \A q \in Objs : run'[q] = "live" => ~FreshObj(q) /\ run[q] = "live" /\ obj'[q] = obj[q]
  BY DEF Create
<1>3. LiveInv'
  BY <1>2 DEF LiveInv, Inv, SInv
<1> QED
  BY <1>1, <1>2, <1>3 DEF Create

\* A new object takes the place of the registered one, which is not active.
LEMMA StartStoreKeeps ==
  ASSUME Inv, NEW x \in Callers, NEW o \in Objs, StartStore(x, o)
  PROVE  SInv'
<1> USE DEF Inv, SInv
<1> DEFINE u == [p |-> o, mu |-> unit[x].mu, c |-> FALSE]
<1>p. /\ {"build", "start_store"} \subseteq Critical /\ "start_store" \notin BuildPcs
      /\ Critical \subseteq UnitPcs /\ "idle" \notin UnitPcs /\ "build" \in BuildPcs
      /\ BuildPcs \subseteq Critical
  BY DEF Critical, UnitPcs, Pcs, StartPcs, BuildPcs
<1>0. /\ pc[x] = "start_store" /\ id[x] \in Ids /\ unit[x] \in Unit
      /\ unit[x] = pipes[id[x]] /\ pipes[id[x]] # NoUnit /\ ~Active(unit[x].p)
      /\ phase \notin {"boot", "down", "stopall"}
  <2>1. pc[x] = "start_store"
    BY DEF StartStore
  <2>2. phase # "boot"
    BY <1>p, <2>1 DEF LockInv
  <2>3. phase \notin {"down", "stopall"}
    BY <2>1, BusyPhase
  <2> QED
    BY <1>p, <2>1, <2>2, <2>3 DEF CurrentInv, EntryInv, ObjectInv, TypeInv, CallOK
<1>1. /\ \A y \in Callers : y # x => pc'[y] = pc[y] /\ unit'[y] = unit[y]
      /\ pc'[x] = "build" /\ unit'[x] = u
      /\ UNCHANGED <<phase, pending, mutex, id>>
      /\ \A i \in Ids : i # id[x] => pipes'[i] = pipes[i]
      /\ pipes'[id[x]] = u
  BY <1>0 DEF StartStore, Goto, TypeInv, TypeOK, boot
<1>2. /\ obj'[o].id = id[x] /\ run'[o] # "live"
      /\ \A q \in Objs : run'[q] = "live" => run[q] = "live" /\ obj'[q] = obj[q]
      /\ \A j \in Ids : pipes[j] # NoUnit =>
           obj'[pipes[j].p] = obj[pipes[j].p] /\ run'[pipes[j].p] = run[pipes[j].p]
      /\ \A y \in Callers : pc[y] \in UnitPcs =>
           obj'[unit[y].p] = obj[unit[y].p] /\ run'[unit[y].p] = run[unit[y].p]
      /\ LiveInv'
  <2>1. Create(o, id[x], cfg[x])
    BY DEF StartStore
  <2> HIDE DEF Inv
  <2> QED
    BY <1>0, <2>1, CreateFields
<1>u. u \in Unit /\ u # NoUnit
  <2>1. unit[x].mu \in Mutexes
    BY <1>0, <1>p, UnitObjs
  <2>2. u \in Unit
    BY <2>1 DEF Unit
  <2> QED
    BY <2>2, NoUnitFields
<1>3. PcInv' /\ EntryInv' /\ LockInv' /\ CurrentInv'
  <2>1. mutex[u.mu] = x
    BY <1>0, <1>p DEF LockInv
  <2>2. \A i \in Ids : pipes[i] # NoUnit => pipes'[i] # NoUnit /\ pipes'[i].mu = pipes[i].mu
    BY <1>0, <1>1, <1>u
  <2>3. \A i \in Ids : pipes'[i] # pipes[i] => i = id[x] /\ (pc[x] \in Critical \/ pipes[i] = NoUnit)
    BY <1>0, <1>1, <1>p
  <2> HIDE DEF Inv, SInv, u
  <2> QED
    BY <1>0, <1>1, <1>p, <1>u, <2>1, <2>2, <2>3, CallerStep
<1>4. ObjectInv'
  <2> SUFFICES ASSUME NEW y \in Callers
               PROVE  /\ pc'[y] = "start_store" => ~Active(unit[y].p)'
                      /\ pc'[y] \in BuildPcs => run'[unit'[y].p] # "live"
                      /\ pc'[y] \in {"building", "launch"} => obj'[unit'[y].p].state = "building"
    BY DEF ObjectInv
  <2>1. CASE y = x
    BY <1>1, <1>2, <2>1
  <2>2. CASE y # x
    BY <1>1, <1>2, <1>p, <2>2 DEF ObjectInv, Active, BuildPcs
  <2> QED
    BY <2>1, <2>2
<1>5. NameInv'
  <2> SUFFICES ASSUME NEW i \in Ids, pipes'[i] # NoUnit
               PROVE  obj'[pipes'[i].p].id = i
    BY DEF NameInv
  <2> QED
    BY <1>1, <1>2 DEF NameInv
<1>6. ActiveInv'
  <2> SUFFICES ASSUME NEW q \in Objs, Active(q)'
               PROVE  /\ obj'[q].id \in Ids
                      /\ pipes'[obj'[q].id].p = q
                      /\ pipes'[obj'[q].id].c
    BY DEF ActiveInv
  <2>1. Active(q) /\ obj'[q] = obj[q]
    BY <1>2 DEF Active
  <2>2. obj[q].id \in Ids /\ pipes[obj[q].id].p = q /\ pipes[obj[q].id].c
    BY <2>1 DEF ActiveInv
  <2>3. obj[q].id # id[x]
    BY <1>0, <2>1, <2>2
  <2> QED
    BY <1>1, <2>1, <2>2, <2>3
<1> QED
  BY <1>2, <1>3, <1>4, <1>5, <1>6

\* The first entry of a pipeline is registered, by a call or at boot.
LEMMA NewEntry ==
  ASSUME Inv, NEW i \in Ids, NEW o \in Objs, NEW m \in Mutexes, NEW v, Create(o, i, v),
         pipes[i] = NoUnit, pipes' = [pipes EXCEPT ![i] = [p |-> o, mu |-> m, c |-> FALSE]]
  PROVE  /\ NameInv' /\ LiveInv' /\ ActiveInv'
         /\ \A j \in Ids : j # i => pipes'[j] = pipes[j]
         /\ pipes'[i] = [p |-> o, mu |-> m, c |-> FALSE] /\ pipes'[i] # NoUnit
<1> USE DEF Inv, SInv
<1> DEFINE u == [p |-> o, mu |-> m, c |-> FALSE]
<1>1. /\ obj'[o].id = i
      /\ \A q \in Objs : run'[q] = "live" => run[q] = "live" /\ obj'[q] = obj[q]
      /\ \A j \in Ids : pipes[j] # NoUnit => obj'[pipes[j].p] = obj[pipes[j].p]
      /\ LiveInv'
  <2> HIDE DEF Inv
  <2> QED
    BY CreateFields
<1>2. u \in Unit /\ u # NoUnit
  <2>1. u \in Unit
    BY DEF Unit
  <2> QED
    BY <2>1, NoUnitFields
<1>3. (\A j \in Ids : j # i => pipes'[j] = pipes[j]) /\ pipes'[i] = u
  BY DEF TypeInv, TypeOK
<1>4. NameInv'
  <2> SUFFICES ASSUME NEW j \in Ids, pipes'[j] # NoUnit
               PROVE  obj'[pipes'[j].p].id = j
    BY DEF NameInv
  <2> QED
    BY <1>1, <1>3 DEF NameInv
<1>5. ActiveInv'
  <2> SUFFICES ASSUME NEW q \in Objs, Active(q)'
               PROVE  /\ obj'[q].id \in Ids
                      /\ pipes'[obj'[q].id].p = q
                      /\ pipes'[obj'[q].id].c
    BY DEF ActiveInv
  <2>1. Active(q) /\ obj'[q] = obj[q]
    BY <1>1 DEF Active
  <2>2. obj[q].id \in Ids /\ pipes[obj[q].id].p = q /\ pipes[obj[q].id].c
    BY <2>1 DEF ActiveInv
  <2>3. obj[q].id # i
    BY <2>2, NoUnitFields, ServiceAssumption
  <2> QED
    BY <1>3, <2>1, <2>2, <2>3
<1> QED
  BY <1>1, <1>2, <1>3, <1>4, <1>5

LEMMA StartLoadNewKeeps ==
  ASSUME Inv, NEW x \in Callers, NEW o \in Objs, NEW m \in Mutexes, StartLoadNew(x, o, m)
  PROVE  SInv'
<1> DEFINE u == [p |-> o, mu |-> m, c |-> FALSE]
<1>p. /\ "start_check" \in StartPcs \ Critical /\ "start_lookup" # "idle"
      /\ "start_lookup" \notin BuildPcs
      /\ Critical \subseteq UnitPcs /\ BuildPcs \cup {"start_store"} \subseteq Critical
  BY DEF Critical, UnitPcs, Pcs, StartPcs, BuildPcs
<1>0. /\ pc[x] = "start_lookup" /\ id[x] \in Ids /\ pipes[id[x]] = NoUnit
      /\ phase \notin {"boot", "down", "stopall"}
  <2>1. pc[x] = "start_lookup"
    BY DEF StartLoadNew
  <2>2. phase # "boot"
    BY <1>p, <2>1 DEF Inv, SInv, LockInv
  <2>3. phase \notin {"down", "stopall"}
    BY <2>1, BusyPhase
  <2> QED
    BY <1>p, <2>1, <2>2, <2>3 DEF StartLoadNew, Inv, TypeInv, CallOK
<1>1. /\ \A y \in Callers : y # x => pc'[y] = pc[y] /\ unit'[y] = unit[y]
      /\ pc'[x] = "start_check" /\ unit'[x] = u
      /\ UNCHANGED <<phase, pending, mutex, id>>
  BY <1>0 DEF StartLoadNew, Goto, Inv, TypeInv, TypeOK, boot
<1>2. /\ NameInv' /\ LiveInv' /\ ActiveInv'
      /\ \A j \in Ids : j # id[x] => pipes'[j] = pipes[j]
      /\ pipes'[id[x]] = u /\ pipes'[id[x]] # NoUnit
  BY <1>0, NewEntry DEF StartLoadNew
<1>3. /\ \A q \in Objs : run'[q] = "live" => run[q] = "live" /\ obj'[q] = obj[q]
      /\ \A y \in Callers : pc[y] \in UnitPcs =>
           obj'[unit[y].p] = obj[unit[y].p] /\ run'[unit[y].p] = run[unit[y].p]
  BY <1>0, CreateFields DEF StartLoadNew
<1>4. PcInv' /\ EntryInv' /\ LockInv' /\ CurrentInv'
  <2>1. \A i \in Ids : pipes[i] # NoUnit => pipes'[i] # NoUnit /\ pipes'[i].mu = pipes[i].mu
    BY <1>0, <1>2
  <2>2. \A i \in Ids : pipes'[i] # pipes[i] => i = id[x] /\ (pc[x] \in Critical \/ pipes[i] = NoUnit)
    BY <1>0, <1>2
  <2> HIDE DEF u
  <2> QED
    BY <1>0, <1>1, <1>2, <1>p, <2>1, <2>2, CallerStep
<1>5. ObjectInv'
  <2> SUFFICES ASSUME NEW y \in Callers, y # x
               PROVE  /\ pc'[y] = "start_store" => ~Active(unit[y].p)'
                      /\ pc'[y] \in BuildPcs => run'[unit'[y].p] # "live"
                      /\ pc'[y] \in {"building", "launch"} => obj'[unit'[y].p].state = "building"
    BY <1>1, <1>p DEF ObjectInv, BuildPcs
  <2> QED
    BY <1>1, <1>3, <1>p DEF ObjectInv, Active, BuildPcs, Inv, SInv
<1> QED
  BY <1>2, <1>4, <1>5 DEF SInv

\* Nothing of the runtime changes.
LEMMA QuietKeeps ==
  ASSUME Inv, UNCHANGED <<pipes, obj, run>>
  PROVE  NameInv' /\ LiveInv' /\ ActiveInv'
  BY DEF Inv, SInv, NameInv, LiveInv, ActiveInv, Active

LEMMA StartStepsKeeps ==
  ASSUME Inv, NEW x \in Callers, StartSteps(x)
  PROVE  SInv'
<1>p. /\ {"start_check", "start_lock"} \subseteq StartPcs \ Critical
      /\ {"start_recheck", "start_store"} \subseteq StartPcs \cap Critical
      /\ {"start_lookup", "start_check", "start_lock", "start_recheck", "start_store"} \subseteq StartPcs
      /\ "start_lookup" \notin Critical /\ "idle" \notin StartPcs \cup BuildPcs
      /\ {"start_check", "start_lock", "start_recheck"} \subseteq UnitPcs
      /\ BuildPcs \cup {"start_store"} \subseteq Critical /\ StartPcs \cap BuildPcs = {}
  BY DEF Critical, UnitPcs, Pcs, StartPcs, BuildPcs
<1>0. \A y \in Callers : pc[y] \in StartPcs =>
        id[y] \in Ids /\ phase \notin {"boot", "down", "stopall"}
  <2> SUFFICES ASSUME NEW y \in Callers, pc[y] \in StartPcs
               PROVE  id[y] \in Ids /\ phase \notin {"boot", "down", "stopall"}
    OBVIOUS
  <2>1. pc[y] # "idle" /\ pc[y] \notin BuildPcs
    BY <1>p
  <2>2. phase # "boot"
    BY <2>1 DEF Inv, SInv, LockInv
  <2> QED
    BY <2>1, <2>2, BusyPhase DEF Inv, TypeInv, CallOK
<1>1. CASE StartLoad(x)
  <2>1. pc[x] = "start_lookup" /\ id[x] \in Ids /\ phase \notin {"boot", "down", "stopall"}
    BY <1>0, <1>1, <1>p DEF StartLoad
  <2>2. /\ \A y \in Callers : y # x => pc'[y] = pc[y] /\ unit'[y] = unit[y]
        /\ pc'[x] = "start_check" /\ unit'[x] = pipes[id[x]] /\ pipes[id[x]] # NoUnit
        /\ UNCHANGED <<phase, pending, mutex, id, pipes, obj, run>>
    BY <1>1, <2>1 DEF StartLoad, Goto, Inv, TypeInv, TypeOK, boot, runtime
  <2>3. PcInv' /\ EntryInv' /\ LockInv' /\ CurrentInv'
    BY <1>p, <2>1, <2>2, CallerStep
  <2>4. ObjectInv'
    BY <1>p, <2>2 DEF ObjectInv, Active, BuildPcs, Inv, SInv
  <2> QED
    BY <2>2, <2>3, <2>4, QuietKeeps DEF SInv
<1>2. CASE StartCheck(x)
  <2>1. pc[x] = "start_check" /\ phase # "boot" /\ UNCHANGED <<phase, pending, pipes, obj, run>>
    BY <1>0, <1>2, <1>p DEF StartCheck, boot, runtime
  <2>2. CASE Return(x)
    BY <2>1, <2>2, ReturnKeeps
  <2>3. CASE Goto(x, "start_lock") /\ UNCHANGED <<mutex, id, cfg, unit>>
    BY <1>p, <2>1, <2>3, MoveKeeps
  <2> QED
    BY <1>2, <2>2, <2>3 DEF StartCheck
<1>3. CASE StartLock(x)
  <2>1. pc[x] = "start_lock" /\ id[x] \in Ids /\ phase \notin {"boot", "down", "stopall"}
    BY <1>0, <1>3, <1>p DEF StartLock
  <2>2. unit[x].mu = pipes[id[x]].mu /\ unit[x].mu \in Mutexes
    BY <1>p, <2>1, UnitObjs DEF Inv, SInv, EntryInv
  <2>3. /\ \A y \in Callers : y # x => pc'[y] = pc[y] /\ unit'[y] = unit[y]
        /\ pc'[x] = "start_recheck" /\ unit'[x] = pipes[id[x]] /\ pipes[id[x]] # NoUnit
        /\ UNCHANGED <<phase, pending, id, pipes, obj, run>>
    BY <1>3, <2>1 DEF StartLock, Reload, Goto, Inv, TypeInv, TypeOK, boot, runtime
  <2>4. /\ mutex[unit[x].mu] = None /\ mutex'[unit[x].mu] = x
        /\ \A m \in Mutexes : m # unit[x].mu => mutex'[m] = mutex[m]
    BY <1>3, <2>2 DEF StartLock, Lock, Inv, TypeInv, TypeOK
  <2>5. PcInv' /\ EntryInv' /\ LockInv' /\ CurrentInv'
    <3>1. \A y \in Callers, m \in Mutexes : y # x /\ mutex[m] = y => mutex'[m] = y
      BY <2>4, ServiceAssumption
    <3> QED
      BY <1>p, <2>1, <2>2, <2>3, <2>4, <3>1, CallerStep
  <2>6. ObjectInv'
    BY <1>p, <2>3 DEF ObjectInv, Active, BuildPcs, Inv, SInv
  <2> QED
    BY <2>3, <2>5, <2>6, QuietKeeps DEF SInv
<1>4. CASE StartPanic(x)
  BY <1>4, ReturnKeeps DEF StartPanic, boot, runtime
<1>5. CASE StartRecheck(x)
  <2>1. /\ pc[x] = "start_recheck" /\ UNCHANGED <<phase, pending, pipes, obj, run>>
        /\ phase \notin {"boot", "down", "stopall"} /\ id[x] \in Ids
    BY <1>0, <1>5, <1>p DEF StartRecheck, boot, runtime
  <2>2. CASE Return(x)
    BY <2>1, <2>2, ReturnKeeps
  <2>3. CASE Idle(State(unit[x])) /\ Goto(x, "start_store") /\ UNCHANGED <<mutex, id, cfg, unit>>
    <3>1. /\ \A y \in Callers : y # x => pc'[y] = pc[y]
          /\ pc'[x] = "start_store"
      BY <2>3 DEF Goto, Inv, TypeInv, TypeOK
    <3>2. unit[x] = pipes[id[x]] /\ pipes[id[x]] # NoUnit /\ mutex[unit[x].mu] = x
      BY <1>p, <2>1 DEF Inv, SInv, CurrentInv, EntryInv, LockInv
    <3>3. ~Active(unit[x].p)
      <4>1. unit[x].p \in Objs
        BY <3>2, <2>1, UnitObjs DEF Inv
      <4> QED
        BY <2>3, <4>1 DEF Active, Idle, State, Inv, SInv, LiveInv
    <3>4. PcInv' /\ EntryInv' /\ LockInv' /\ CurrentInv'
      BY <1>p, <2>1, <2>3, <3>1, <3>2, CallerStep
    <3>5. ObjectInv'
      BY <1>p, <2>1, <2>3, <3>1, <3>3 DEF ObjectInv, Active, BuildPcs, Inv, SInv
    <3> QED
      BY <2>1, <3>4, <3>5, QuietKeeps DEF SInv
  <2> QED
    BY <1>5, <2>2, <2>3 DEF StartRecheck
<1>6. ASSUME NEW o \in Objs, StartStore(x, o) \/ \E m \in Mutexes : StartLoadNew(x, o, m)
      PROVE  SInv'
  BY <1>6, StartStoreKeeps, StartLoadNewKeeps
<1> QED
  BY <1>1, <1>2, <1>3, <1>4, <1>5, <1>6 DEF StartSteps

LEMMA StopStepsKeeps ==
  ASSUME Inv, NEW x \in Callers, StopSteps(x)
  PROVE  SInv'
<1>p. /\ StopPcs \subseteq UnitPcs \ Critical /\ "idle" \notin StopPcs
      /\ {"stop_check", "stop_lock", "stop_recheck", "stop_cancel", "stop_release"} \subseteq StopPcs
      /\ StopPcs \cap BuildPcs = {}
  BY DEF Critical, UnitPcs, Pcs, StartPcs, BuildPcs, StopPcs
<1>0. pc[x] \in StopPcs /\ phase # "boot"
  <2>1. pc[x] \in StopPcs
    BY <1>p DEF StopSteps, StopCheck, StopLock, StopRecheck, StopCancel, StopRelease
  <2> QED
    BY <1>p, <2>1 DEF Inv, SInv, LockInv
<1>1. ASSUME NEW l \in StopPcs,
             \/ Goto(x, l) /\ UNCHANGED <<mutex, id, cfg, unit>>
             \/ Return(x),
             UNCHANGED <<boot, storage, pipes, runtime>>
      PROVE  SInv'
  <2>1. UNCHANGED <<phase, pending, pipes, obj, run>>
    BY <1>1 DEF boot, runtime
  <2>2. CASE Return(x)
    BY <2>1, <2>2, ReturnKeeps
  <2>3. CASE Goto(x, l) /\ UNCHANGED <<mutex, id, cfg, unit>>
    BY <1>p, <1>0, <2>1, <2>3, MoveKeeps
  <2> QED
    BY <1>1, <2>2, <2>3
<1>2. CASE StopCheck(x)
  BY <1>1, <1>2, <1>p DEF StopCheck
<1>3. CASE StopLock(x)
  BY <1>0, <1>3, <1>p, MoveKeeps DEF StopLock, boot, runtime
<1>4. CASE StopRecheck(x)
  BY <1>1, <1>4, <1>p DEF StopRecheck
<1>5. CASE StopCancel(x)
  BY <1>0, <1>5, <1>p, MoveKeeps DEF StopCancel, boot
<1>6. CASE StopRelease(x)
  BY <1>6, ReturnKeeps DEF StopRelease, boot, runtime
<1> QED
  BY <1>2, <1>3, <1>4, <1>5, <1>6 DEF StopSteps

LEMMA CallKeeps ==
  ASSUME StartStopOnly, Inv, NEW x \in Callers, Call(x)
  PROVE  SInv'
<1>p. /\ "start_lookup" \in StartPcs /\ "start_lookup" \notin UnitPcs \cup Critical \cup BuildPcs
      /\ "stop_check" \in StopPcs /\ "stop_check" \notin Critical \cup BuildPcs
      /\ "start_store" \notin {"start_lookup", "stop_check"}
      /\ BuildPcs \cup {"start_store"} \subseteq Critical /\ Critical \subseteq UnitPcs
      /\ {"building", "launch"} \subseteq BuildPcs
  BY DEF Critical, UnitPcs, Pcs, StartPcs, BuildPcs, StopPcs
<1> SUFFICES ASSUME NEW i \in Ids, StartCall(x, i) \/ StopCall(x, i)
             PROVE  SInv'
  BY DEF Call, StartStopOnly, AddCall, EditCall, CanCall
<1>0. pc[x] = "idle" /\ phase = "serving"
  BY DEF StartCall, StopCall, CanCall, Idling
<1>1. CASE StartCall(x, i)
  <2>1. /\ \A y \in Callers : y # x => pc'[y] = pc[y] /\ id'[y] = id[y]
        /\ pc'[x] = "start_lookup" /\ id'[x] = i
        /\ UNCHANGED <<phase, pending, mutex, unit, pipes, obj, run>>
    BY <1>1 DEF StartCall, Goto, Inv, TypeInv, TypeOK, boot, runtime
  <2>2. PcInv' /\ EntryInv' /\ LockInv' /\ CurrentInv'
    BY <1>0, <1>p, <2>1, CallerStep
  <2>3. ObjectInv'
    BY <1>p, <2>1 DEF ObjectInv, Active, Inv, SInv
  <2> QED
    BY <2>1, <2>2, <2>3, QuietKeeps DEF SInv
<1>2. CASE StopCall(x, i)
  <2>1. /\ \A y \in Callers : y # x => pc'[y] = pc[y] /\ id'[y] = id[y] /\ unit'[y] = unit[y]
        /\ pc'[x] = "stop_check" /\ id'[x] = i /\ unit'[x] = pipes[i] /\ pipes[i] # NoUnit
        /\ UNCHANGED <<phase, pending, mutex, pipes, obj, run>>
    BY <1>2 DEF StopCall, Goto, Inv, TypeInv, TypeOK, boot, runtime
  <2>2. PcInv' /\ EntryInv' /\ LockInv' /\ CurrentInv'
    BY <1>0, <1>p, <2>1, CallerStep
  <2>3. ObjectInv'
    BY <1>p, <2>1 DEF ObjectInv, Active, Inv, SInv
  <2> QED
    BY <2>1, <2>2, <2>3, QuietKeeps DEF SInv
<1> QED
  BY <1>1, <1>2

\* Run goes through its states and ends: an active object is one that was launched.
LEMMA GoroutineKeeps ==
  ASSUME Inv, NEW o \in Objs, Goroutine(o)
  PROVE  SInv'
<1> USE DEF Inv, SInv
<1>c. UNCHANGED <<phase, pending, pipes, mutex, pc, id, unit>>
  BY DEF Goroutine, RunStarting, RunRunning, RunStopping, RunStopped, RunTo, RunClosed, boot, caller
<1>p. BuildPcs \cup {"start_store"} \subseteq Critical /\ Critical \subseteq UnitPcs
      /\ {"building", "launch"} \subseteq BuildPcs
  BY DEF Critical, UnitPcs, Pcs, StartPcs, BuildPcs
<1>1. PcInv' /\ EntryInv' /\ LockInv' /\ CurrentInv'
  BY <1>c DEF PcInv, EntryInv, LockInv, CurrentInv
<1>2. ASSUME NEW from, NEW to \in States \ {"created"}, from # "stopped", RunTo(o, from, to)
      PROVE  SInv'
  <2>1. run[o] = "live" /\ obj[o].state = from /\ SetState(o, to) /\ UNCHANGED run
    BY <1>2 DEF RunTo
  <2>2. \A q \in Objs : /\ obj'[q].id = obj[q].id
                        /\ q # o => obj'[q] = obj[q]
                        /\ q = o => obj'[q].state = to
    BY <2>1, SetStateFields
  <2>3. \A q \in Objs : Active(q)' => Active(q)
    BY <1>2, <2>1, <2>2 DEF Active
  <2>4. ObjectInv'
    <3> SUFFICES ASSUME NEW y \in Callers
                 PROVE  /\ pc[y] = "start_store" => ~Active(unit[y].p)'
                        /\ pc[y] \in BuildPcs => run[unit[y].p] # "live"
                        /\ pc[y] \in {"building", "launch"} => obj'[unit[y].p].state = "building"
      BY <1>c, <2>1 DEF ObjectInv
    <3>1. pc[y] \in Critical => unit[y].p \in Objs
      BY <1>p, UnitObjs
    <3>2. pc[y] \in BuildPcs => unit[y].p # o
      BY <1>p, <2>1 DEF ObjectInv
    <3> QED
      BY <1>c, <1>p, <2>1, <2>2, <2>3, <3>1, <3>2 DEF ObjectInv, Active
  <2>5. NameInv' /\ LiveInv' /\ ActiveInv'
    BY <1>2, <1>c, <2>1, <2>2, <2>3, UnitObjs DEF NameInv, LiveInv, ActiveInv
  <2> QED
    BY <1>1, <2>4, <2>5
<1>3. CASE RunClosed(o)
  <2>1. /\ UNCHANGED obj /\ \A q \in Objs : q # o => run'[q] = run[q]
        /\ run'[o] = "ended"
    BY <1>3 DEF RunClosed, TypeInv, TypeOK
  <2>2. ObjectInv'
    <3> SUFFICES ASSUME NEW y \in Callers
                 PROVE  /\ pc[y] = "start_store" => ~Active(unit[y].p)'
                        /\ pc[y] \in BuildPcs => run'[unit[y].p] # "live"
                        /\ pc[y] \in {"building", "launch"} => obj[unit[y].p].state = "building"
      BY <1>c, <2>1 DEF ObjectInv
    <3>1. pc[y] \in Critical => unit[y].p \in Objs
      BY <1>p, UnitObjs
    <3> QED
      BY <1>c, <1>p, <2>1, <3>1 DEF ObjectInv, Active
  <2>3. NameInv' /\ LiveInv' /\ ActiveInv'
    BY <1>c, <2>1 DEF NameInv, LiveInv, ActiveInv, Active
  <2> QED
    BY <1>1, <2>2, <2>3
<1> QED
  BY <1>2, <1>3 DEF Goroutine, RunStarting, RunRunning, RunStopping, RunStopped, States

LEMMA BootOneKeeps ==
  ASSUME Inv, NEW x \in Callers, NEW i \in Ids, NEW o \in Objs, NEW m \in Mutexes,
         BootOne(x, i, o, m)
  PROVE  SInv'
<1> DEFINE u == [p |-> o, mu |-> m, c |-> FALSE]
<1>p. /\ "build" \in BuildPcs \cap UnitPcs /\ "build" \notin {"start_store", "building", "launch"}
      /\ "idle" \notin UnitPcs \cup Critical /\ BuildPcs \cup {"start_store"} \subseteq Critical
      /\ Critical \subseteq UnitPcs /\ {"building", "launch"} \subseteq BuildPcs
  BY DEF Critical, UnitPcs, Pcs, StartPcs, BuildPcs
<1>0. phase = "boot" /\ i \in pending /\ pc[x] = "idle" /\ pipes[i] = NoUnit
  BY DEF BootOne, Idling, Inv, SInv, LockInv
<1>1. /\ NameInv' /\ LiveInv' /\ ActiveInv'
      /\ \A j \in Ids : j # i => pipes'[j] = pipes[j]
      /\ pipes'[i] = u /\ pipes'[i] # NoUnit
  BY <1>0, NewEntry DEF BootOne
<1>2. /\ obj'[o].id = i /\ run'[o] # "live"
      /\ \A q \in Objs : run'[q] = "live" => run[q] = "live" /\ obj'[q] = obj[q]
      /\ \A y \in Callers : pc[y] \in UnitPcs =>
           obj'[unit[y].p] = obj[unit[y].p] /\ run'[unit[y].p] = run[unit[y].p]
  BY <1>0, CreateFields DEF BootOne
<1>3. UNCHANGED <<phase, mutex>> /\ pending' = pending \ {i}
  BY DEF BootOne
<1>4. \A y \in Callers : y # x => pc'[y] = pc[y] /\ id'[y] = id[y] /\ unit'[y] = unit[y]
  BY DEF BootOne, Goto, Inv, TypeInv, TypeOK
<1>5. \/ pc'[x] = "idle"
      \/ pc'[x] = "build" /\ id'[x] = i /\ unit'[x] = u
  <2>1. CASE UNCHANGED <<pc, id, unit>>
    BY <1>0, <2>1
  <2>2. CASE Goto(x, "build") /\ id' = [id EXCEPT ![x] = i] /\ unit' = [unit EXCEPT ![x] = u]
    BY <2>2 DEF Goto, Inv, TypeInv, TypeOK
  <2> QED
    BY <2>1, <2>2 DEF BootOne
<1>6. \A y \in Callers : y # x /\ pc[y] # "idle" =>
        pc[y] \in BuildPcs /\ id[y] \in Ids /\ id[y] # i /\ pipes[id[y]] # NoUnit
  <2> SUFFICES ASSUME NEW y \in Callers, y # x, pc[y] # "idle"
               PROVE  pc[y] \in BuildPcs /\ id[y] \in Ids /\ pipes[id[y]] # NoUnit
    BY <1>0
  <2>1. pc[y] \in BuildPcs
    BY <1>0 DEF Inv, SInv, LockInv
  <2> QED
    BY <2>1, <1>p DEF Inv, TypeInv, CallOK, SInv, EntryInv
<1>7. PcInv'
  BY <1>4, <1>5, <1>p DEF PcInv, Inv, SInv
<1>8. EntryInv' /\ CurrentInv'
  <2> SUFFICES ASSUME NEW y \in Callers
               PROVE  /\ pc'[y] \in UnitPcs => pipes'[id'[y]] # NoUnit /\ unit'[y].mu = pipes'[id'[y]].mu
                      /\ pc'[y] \in Critical => unit'[y] = pipes'[id'[y]]
    BY DEF EntryInv, CurrentInv
  <2>1. CASE y = x
    BY <1>1, <1>5, <1>p, <2>1
  <2>2. CASE y # x
    BY <1>1, <1>4, <1>6, <1>p, <2>2 DEF EntryInv, CurrentInv, Inv, SInv
  <2> QED
    BY <2>1, <2>2
<1>9. LockInv'
  <2>1. \A j \in pending' : pipes'[j] = NoUnit
    BY <1>0, <1>1, <1>3 DEF Inv, SInv, LockInv, TypeInv, TypeOK
  <2>2. \A y \in Callers : pc'[y] \in {"idle"} \cup BuildPcs
    BY <1>0, <1>4, <1>5, <1>p DEF Inv, SInv, LockInv
  <2>3. \A y, z \in Callers : pc'[y] # "idle" /\ pc'[z] # "idle" /\ id'[y] = id'[z] => y = z
    BY <1>0, <1>4, <1>5, <1>6 DEF Inv, SInv, LockInv
  <2> QED
    BY <1>0, <1>3, <2>1, <2>2, <2>3 DEF LockInv
<1>10. ObjectInv'
  <2> SUFFICES ASSUME NEW y \in Callers
               PROVE  /\ pc'[y] = "start_store" => ~Active(unit[y].p)'
                      /\ pc'[y] \in BuildPcs => run'[unit'[y].p] # "live"
                      /\ pc'[y] \in {"building", "launch"} => obj'[unit'[y].p].state = "building"
    BY DEF ObjectInv
  <2>1. CASE y = x
    BY <1>2, <1>5, <1>p, <2>1
  <2>2. CASE y # x
    BY <1>2, <1>4, <1>p, <2>2 DEF ObjectInv, Active, Inv, SInv
  <2> QED
    BY <2>1, <2>2
<1> QED
  BY <1>1, <1>7, <1>8, <1>9, <1>10 DEF SInv

LEMMA ProcessKeeps ==
  ASSUME Inv, Process \/ Shutdown \/ Crash
  PROVE  SInv'
<1>1. ASSUME UNCHANGED <<pipes, mutex, obj, run, pc, id, unit>>,
             (phase' # "boot" /\ phase # "boot") \/ \A x \in Callers : pc[x] = "idle",
             phase' \in {"down", "stopall"} => \A x \in Callers : pc[x] = "idle",
             phase' = "boot" => \A i \in Ids : pipes[i] = NoUnit,
             pending' \subseteq Ids
      PROVE  SInv'
  <2>1. "idle" \notin Critical
    BY DEF Critical, BuildPcs
  <2>2. LockInv'
    BY <1>1, <2>1 DEF Inv, SInv, LockInv
  <2>3. PcInv' /\ EntryInv' /\ CurrentInv' /\ ObjectInv'
    BY <1>1 DEF Inv, SInv, PcInv, EntryInv, CurrentInv, ObjectInv, Active
  <2> QED
    BY <1>1, <2>2, <2>3, QuietKeeps DEF SInv
<1>2. CASE Boot
  BY <1>1, <1>2 DEF Boot, Inv, SInv, LockInv, DownInv, runtime, caller
<1>3. CASE BootDone
  BY <1>1, <1>3 DEF BootDone, Registered, Inv, TypeInv, TypeOK, Idling, runtime, caller
<1>4. CASE Drained
  BY <1>1, <1>4 DEF Drained, Registered, Idling, runtime, caller
<1>5. CASE Shutdown
  BY <1>1, <1>5 DEF Shutdown, Inv, TypeInv, TypeOK, runtime, caller
<1>6. ASSUME NEW i \in Ids, StopAllOne(i)
      PROVE  SInv'
  BY <1>1, <1>6 DEF StopAllOne, Inv, TypeInv, TypeOK, SInv, LockInv, caller
<1>7. ASSUME Gone
      PROVE  SInv'
  <2>1. "idle" \notin UnitPcs \cup Critical \cup BuildPcs \cup {"start_store", "building", "launch"}
    BY DEF UnitPcs, Critical, BuildPcs
  <2>2. \A x \in Callers : pc'[x] = "idle"
    BY <1>7 DEF Gone, AllIdle
  <2>3. \A o \in Objs : run'[o] = "none"
    BY <1>7 DEF Gone, NoRuns
  <2>4. \A i \in Ids : pipes'[i] = NoUnit
    BY <1>7 DEF Gone, NoPipes
  <2>5. PcInv' /\ EntryInv' /\ CurrentInv' /\ ObjectInv'
    BY <2>1, <2>2 DEF PcInv, EntryInv, CurrentInv, ObjectInv
  <2>6. LockInv'
    BY <1>7, <2>1, <2>2 DEF LockInv, Gone
  <2>7. NameInv' /\ LiveInv' /\ ActiveInv'
    BY <2>3, <2>4 DEF NameInv, LiveInv, ActiveInv, Active
  <2> QED
    BY <2>5, <2>6, <2>7 DEF SInv
<1> QED
  BY <1>2, <1>3, <1>4, <1>5, <1>6, <1>7, BootOneKeeps DEF Process, Exit, Crash

\* Only a crash or the end of the process leads to down, and leaves no registry.
LEMMA DownKeeps ==
  ASSUME Inv, Next
  PROVE  DownInv'
<1>1. CASE Process \/ Shutdown \/ Crash
  BY <1>1 DEF Process, Boot, BootDone, Drained, Exit, StopAllOne, BootOne, Shutdown, Crash, Gone,
              NoPipes, DownInv
<1>2. ASSUME NEW x \in Callers, Call(x) \/ Working(x)
      PROVE  DownInv'
  <2>1. phase # "down" /\ UNCHANGED phase
    <3>1. CASE Call(x)
      BY <3>1 DEF Call, StartCall, StopCall, AddCall, EditCall, CanCall, boot
    <3>2. CASE Working(x)
      <4>1. pc[x] # "idle"
        BY <3>2 DEF Working, StartPipeline, BuildBegin, BuildFail, Acquire, AcquireFail, Launch,
             StartSteps, StartLoad, StartCheck, StartLock, StartPanic, StartRecheck, StartStore, StartLoadNew,
             StopSteps, StopCheck, StopLock, StopRecheck, StopCancel, StopRelease,
             EditSteps, AddStorage, AddStore, EditCheck, EditLock, EditRecheck, EditStorageCheck,
             EditStorageWrite, UpdateStore, DeleteEntry
      <4>2. UNCHANGED phase
        BY <3>2 DEF Working, StartPipeline, BuildBegin, BuildFail, Acquire, AcquireFail, Launch,
             StartSteps, StartLoad, StartCheck, StartLock, StartPanic, StartRecheck, StartStore, StartLoadNew,
             StopSteps, StopCheck, StopLock, StopRecheck, StopCancel, StopRelease,
             EditSteps, AddStorage, AddStore, EditCheck, EditLock, EditRecheck, EditStorageCheck,
             EditStorageWrite, UpdateStore, DeleteEntry, boot
      <4> QED
        BY <4>1, <4>2, BusyPhase
    <3> QED
      BY <1>2, <3>1, <3>2
  <2> QED
    BY <2>1 DEF DownInv
<1>3. ASSUME NEW o \in Objs, Goroutine(o)
      PROVE  DownInv'
  BY <1>3 DEF Goroutine, RunStarting, RunRunning, RunStopping, RunStopped, RunTo, RunClosed, boot,
              DownInv, Inv
<1> QED
  BY <1>1, <1>2, <1>3 DEF Next

\* Where clients only start and stop, Edit steps are not taken.
LEMMA WorkingKeeps ==
  ASSUME Inv, NEW x \in Callers, Working(x)
  PROVE  SInv'
<1>1. ~EditSteps(x)
  BY DEF EditSteps, AddStorage, AddStore, EditCheck, EditLock, EditRecheck, EditStorageCheck,
         EditStorageWrite, UpdateStore, DeleteEntry, Inv, SInv, PcInv, StartPcs, BuildPcs, StopPcs
<1> QED
  BY <1>1, StartPipelineKeeps, StartStepsKeeps, StopStepsKeeps DEF Working

\* The inductive invariant of a service whose clients only start and stop.
LEMMA InvCorrect ==
  ASSUME StartStopOnly
  PROVE  Spec => []Inv
<1>1. Init => Inv
  <2> SUFFICES ASSUME Init PROVE Inv
    OBVIOUS
  <2>1. TypeInv
    BY InitType
  <2>2. /\ \A x \in Callers : pc[x] = "idle"
        /\ \A o \in Objs : run[o] = "none"
        /\ \A i \in Ids : pipes[i] = NoUnit
        /\ phase = "down"
    BY DEF Init, AllIdle, NoRuns, NoPipes
  <2>3. "idle" \notin UnitPcs \cup Critical \cup BuildPcs \cup {"start_store", "building", "launch"}
    BY DEF UnitPcs, Critical, BuildPcs
  <2>4. SInv /\ DownInv
    BY <2>2, <2>3 DEF SInv, DownInv, PcInv, EntryInv, LockInv, CurrentInv, ObjectInv, NameInv,
                      LiveInv, ActiveInv, Active
  <2> QED
    BY <2>1, <2>4 DEF Inv
<1>2. Inv /\ TypeInv' /\ [Next]_vars => Inv'
  <2> SUFFICES ASSUME Inv, TypeInv', [Next]_vars PROVE SInv' /\ DownInv'
    BY DEF Inv
  <2>1. CASE UNCHANGED vars
    BY <2>1 DEF Inv, SInv, DownInv, PcInv, EntryInv, LockInv, CurrentInv, ObjectInv, NameInv,
                LiveInv, ActiveInv, Active, vars, boot, runtime, caller
  <2>2. CASE Process \/ Shutdown \/ Crash
    BY <2>2, ProcessKeeps, DownKeeps DEF Next
  <2>3. ASSUME NEW x \in Callers, Call(x) \/ Working(x)
        PROVE  SInv' /\ DownInv'
    BY <2>3, CallKeeps, WorkingKeeps, DownKeeps DEF Next
  <2>4. ASSUME NEW o \in Objs, Goroutine(o)
        PROVE  SInv' /\ DownInv'
    BY <2>4, GoroutineKeeps, DownKeeps DEF Next
  <2> QED
    BY <2>1, <2>2, <2>3, <2>4 DEF Next
<1> QED
  BY <1>1, <1>2, TypeCorrect, PTL DEF Spec

\* Whatever starts and stops clients send in parallel, and however the process boots,
\* fails, shuts down or crashes: of one pipeline at most one object is active.
THEOREM OneRunnerCorrect ==
  ASSUME StartStopOnly
  PROVE  Spec => []OneRunner
<1>1. Inv => OneRunner
  BY DEF Inv, SInv, ActiveInv, OneRunner
<1> QED
  BY <1>1, InvCorrect, PTL

\* A Stop or StopAll that comes reaches every active pipeline: it is the registered
\* object and its cancel function is in the entry.
THEOREM CancellableCorrect ==
  ASSUME StartStopOnly
  PROVE  Spec => []Cancellable
<1>1. Inv => Cancellable
  BY DEF Inv, SInv, ActiveInv, Cancellable
<1> QED
  BY <1>1, InvCorrect, PTL

\* Two calls never build objects of one pipeline at the same time.
THEOREM BuildExclusiveCorrect ==
  ASSUME StartStopOnly
  PROVE  Spec => []BuildExclusive
<1>1. Inv => BuildExclusive
  <2>1. BuildPcs \subseteq Critical
    BY DEF Critical
  <2> QED
    BY <2>1, Exclusive DEF BuildExclusive
<1> QED
  BY <1>1, InvCorrect, PTL

-----------------------------------------------------------------------------
(***************************************************************************)
(* Whatever clients call, edits included: an object runs once.  The        *)
(* argument: an object that is being built is new and belongs to the call  *)
(* that builds it alone, and only objects that were launched have a cancel *)
(* function or are cancelled.                                              *)
(***************************************************************************)
\* The states in which a goroutine runs the object.
Started == {"starting", "running", "stopping"}

\* The object of a call that builds has never run and nobody else builds it.
OwnInv ==
  \A x \in Callers : pc[x] \in BuildPcs =>
    /\ run[unit[x].p] = "none"
    /\ \A y \in Callers : pc[y] \in BuildPcs /\ unit[y].p = unit[x].p => y = x
    /\ pc[x] # "build" => obj[unit[x].p].state = "building"

\* Who has a cancel function, or is cancelled, was launched.
RanInv ==
  /\ \A x \in Callers : pc[x] \in UnitPcs /\ unit[x].c => run[unit[x].p] # "none"
  /\ \A i \in Ids : pipes[i] # NoUnit /\ pipes[i].c => run[pipes[i].p] # "none"
  /\ \A o \in cancelled : run[o] # "none"

\* A goroutine moves its object through the states, and ends it after a cancel only.
StateInv ==
  \A o \in Objs :
    /\ run[o] = "live" => obj[o].state # "created"
    /\ obj[o].state \in Started => run[o] = "live"
    /\ obj[o].state = "stopping" => o \in cancelled
    /\ run[o] = "live" /\ o \notin cancelled => obj[o].state # "stopped"

RunInv == TypeInv /\ OwnInv /\ RanInv /\ StateInv

LEMMA PcSets ==
  /\ BuildPcs = {"build", "building", "launch"} /\ BuildPcs \subseteq UnitPcs
  /\ StopPcs \subseteq UnitPcs /\ EditPcs \subseteq UnitPcs
  /\ {"start_check", "start_lock", "start_recheck", "start_store", "update_store", "delete_entry"}
       \subseteq UnitPcs
  /\ {"idle", "start_lookup", "add_storage", "add_store"} \cap UnitPcs = {}
  /\ {"idle", "start_store", "update_store", "delete_entry"} \cap BuildPcs = {}
  /\ StartPcs \cap BuildPcs = {} /\ StopPcs \cap BuildPcs = {} /\ EditPcs \cap BuildPcs = {}
  BY DEF UnitPcs, Pcs, StartPcs, BuildPcs, StopPcs, EditPcs

\* A new object has not run, and objects that anybody refers to are kept.
LEMMA CreateIs ==
  ASSUME TypeInv, NEW o \in Objs, NEW i \in Ids, NEW v \in Versions \cup {None}, Create(o, i, v)
  PROVE  /\ FreshObj(o) /\ run'[o] = "none" /\ o \notin cancelled'
         /\ obj'[o] = [id |-> i, ver |-> v, state |-> "created"]
         /\ \A q \in Objs : FreshObj(q) =>
              run'[q] = "none" /\ obj'[q].state = "created" /\ q \notin cancelled'
         /\ \A q \in Objs : ~FreshObj(q) =>
              run'[q] = run[q] /\ obj'[q] = obj[q] /\ (q \in cancelled' <=> q \in cancelled)
         /\ \A x \in Callers : pc[x] \in UnitPcs => unit[x].p \in Objs /\ ~FreshObj(unit[x].p)
         /\ \A j \in Ids : pipes[j] # NoUnit => pipes[j].p \in Objs /\ ~FreshObj(pipes[j].p)
<1>1. /\ \A x \in Callers : pc[x] \in UnitPcs => unit[x].p \in Objs /\ ~FreshObj(unit[x].p)
      /\ \A j \in Ids : pipes[j] # NoUnit => pipes[j].p \in Objs /\ ~FreshObj(pipes[j].p)
  BY UnitObjs DEF FreshObj
<1>2. FreshObj(o) /\ cancelled' = {q \in cancelled : ~FreshObj(q)}
  BY DEF Create
<1>3. \A q \in Objs : /\ q = o => obj'[q] = [id |-> i, ver |-> v, state |-> "created"]
                      /\ q # o /\ FreshObj(q) => obj'[q] = NoObj
                      /\ ~FreshObj(q) => obj'[q] = obj[q]
  BY <1>2 DEF Create
<1>4. \A q \in Objs : /\ FreshObj(q) => run'[q] = "none"
                      /\ ~FreshObj(q) => run'[q] = run[q]
  BY DEF Create
<1>5. \A q \in Objs : FreshObj(q) => obj'[q].state = "created"
  BY <1>3 DEF NoObj
<1> HIDE DEF FreshObj
<1> QED
  BY <1>1, <1>2, <1>3, <1>4, <1>5

\* Steps that leave the objects alone: entries are loaded, forgotten or removed.
LEMMA QuietRun ==
  ASSUME RunInv, UNCHANGED <<obj, run, cancelled>>,
         \A y \in Callers : pc'[y] \in BuildPcs =>
           /\ pc[y] \in BuildPcs /\ unit'[y] = unit[y]
           /\ pc'[y] # "build" => pc[y] # "build",
         \A y \in Callers : pc'[y] \in UnitPcs =>
           \/ pc[y] \in UnitPcs /\ unit'[y] = unit[y]
           \/ \E j \in Ids : pipes[j] # NoUnit /\ unit'[y] = pipes[j],
         \A j \in Ids : pipes'[j] = pipes[j] \/ pipes'[j] = NoUnit
  PROVE  OwnInv' /\ RanInv' /\ StateInv'
<1>1. OwnInv'
  BY DEF RunInv, OwnInv
<1>2. RanInv'
  BY DEF RunInv, RanInv
<1>3. StateInv'
  BY DEF RunInv, StateInv
<1> QED
  BY <1>1, <1>2, <1>3

\* Steps that register a new object, which their caller may go on to build.
LEMMA NewRun ==
  ASSUME RunInv, NEW x \in Callers, NEW o \in Objs, NEW i \in Ids, NEW v \in Versions \cup {None},
         NEW u, u.p = o, u.c = FALSE,
         Create(o, i, v), pipes' = [pipes EXCEPT ![i] = u],
         \A y \in Callers : y # x => pc'[y] = pc[y] /\ unit'[y] = unit[y],
         \/ pc'[x] = pc[x] /\ unit'[x] = unit[x]
         \/ pc'[x] = "idle"
         \/ pc'[x] \in {"start_check", "build"} /\ unit'[x] = u
  PROVE  OwnInv' /\ RanInv' /\ StateInv'
<1>0. \A y \in Callers :
        /\ pc'[y] \in BuildPcs =>
             \/ pc[y] \in BuildPcs /\ unit'[y] = unit[y] /\ pc'[y] = pc[y]
             \/ y = x /\ unit'[y] = u /\ pc'[y] = "build"
        /\ pc'[y] \in UnitPcs => (pc[y] \in UnitPcs /\ unit'[y] = unit[y]) \/ unit'[y] = u
  BY PcSets
<1>1. /\ FreshObj(o) /\ run'[o] = "none" /\ o \notin cancelled'
      /\ \A q \in Objs : FreshObj(q) =>
           run'[q] = "none" /\ obj'[q].state = "created" /\ q \notin cancelled'
      /\ \A q \in Objs : ~FreshObj(q) =>
           run'[q] = run[q] /\ obj'[q] = obj[q] /\ (q \in cancelled' <=> q \in cancelled)
      /\ \A y \in Callers : pc[y] \in UnitPcs => unit[y].p \in Objs /\ ~FreshObj(unit[y].p)
      /\ \A j \in Ids : pipes[j] # NoUnit => pipes[j].p \in Objs /\ ~FreshObj(pipes[j].p)
  <2>1. TypeInv
    BY DEF RunInv
  <2> QED
    BY <2>1, CreateIs
<1> HIDE DEF FreshObj
<1>2. OwnInv'
  <2> SUFFICES ASSUME NEW y \in Callers, pc'[y] \in BuildPcs
               PROVE  /\ run'[unit'[y].p] = "none"
                      /\ \A z \in Callers : pc'[z] \in BuildPcs /\ unit'[z].p = unit'[y].p => z = y
                      /\ pc'[y] # "build" => obj'[unit'[y].p].state = "building"
    BY DEF OwnInv
  <2>1. \A z \in Callers : pc[z] \in BuildPcs => unit[z].p \in Objs /\ ~FreshObj(unit[z].p) /\ unit[z].p # o
    BY <1>1, PcSets
  <2> QED
    <3>1. CASE y = x /\ unit'[y] = u /\ pc'[y] = "build"
      BY <1>0, <1>1, <2>1, <3>1
    <3>2. CASE pc[y] \in BuildPcs /\ unit'[y] = unit[y] /\ pc'[y] = pc[y]
      BY <1>0, <1>1, <2>1, <3>2 DEF RunInv, OwnInv
    <3> QED
      BY <1>0, <3>1, <3>2
<1>3. RanInv'
  <2>1. \A j \in Ids : pipes'[j] = pipes[j] \/ pipes'[j] = u
    BY DEF RunInv, TypeInv, TypeOK
  <2>2. cancelled' \subseteq Objs /\ cancelled \subseteq Objs
    BY CreateType DEF RunInv, TypeInv, TypeOK
  <2>3. \A q \in cancelled' : run'[q] # "none"
    BY <1>1, <2>2 DEF RunInv, RanInv
  <2>4. \A y \in Callers : pc'[y] \in UnitPcs /\ unit'[y].c => run'[unit'[y].p] # "none"
    BY <1>0, <1>1 DEF RunInv, RanInv
  <2>5. \A j \in Ids : pipes'[j] # NoUnit /\ pipes'[j].c => run'[pipes'[j].p] # "none"
    BY <1>1, <2>1 DEF RunInv, RanInv
  <2> QED
    BY <2>3, <2>4, <2>5 DEF RanInv
<1>4. StateInv'
  <2> SUFFICES ASSUME NEW q \in Objs
               PROVE  /\ run'[q] = "live" => obj'[q].state # "created"
                      /\ obj'[q].state \in Started => run'[q] = "live"
                      /\ obj'[q].state = "stopping" => q \in cancelled'
                      /\ run'[q] = "live" /\ q \notin cancelled' => obj'[q].state # "stopped"
    BY DEF StateInv
  <2>1. CASE FreshObj(q)
    BY <1>1, <2>1 DEF Started
  <2>2. CASE ~FreshObj(q)
    BY <1>1, <2>2 DEF RunInv, StateInv
  <2> QED
    BY <2>1, <2>2
<1> QED
  BY <1>2, <1>3, <1>4

\* What a call that ends leaves to the others.
LEMMA ReturnFields ==
  ASSUME TypeInv, NEW x \in Callers, Return(x)
  PROVE  /\ pc'[x] = "idle"
         /\ \A y \in Callers : y # x =>
              pc'[y] = pc[y] /\ id'[y] = id[y] /\ cfg'[y] = cfg[y] /\ unit'[y] = unit[y]
         /\ \A m \in Mutexes : mutex[m] # x => mutex'[m] = mutex[m]
  BY DEF Return, Goto, Unlocked, TypeInv, TypeOK

LEMMA GotoFields ==
  ASSUME TypeInv, NEW x \in Callers, NEW l, Goto(x, l)
  PROVE  pc'[x] = l /\ \A y \in Callers : y # x => pc'[y] = pc[y]
  BY DEF Goto, TypeInv, TypeOK

\* Calls that end, having changed no object.
LEMMA ReturnRun ==
  ASSUME RunInv, NEW x \in Callers, Return(x), UNCHANGED <<obj, run, cancelled>>,
         \A j \in Ids : pipes'[j] = pipes[j] \/ pipes'[j] = NoUnit
  PROVE  OwnInv' /\ RanInv' /\ StateInv'
<1>1. /\ pc'[x] = "idle"
      /\ \A y \in Callers : y # x => pc'[y] = pc[y] /\ unit'[y] = unit[y]
  BY ReturnFields DEF RunInv
<1> QED
  BY <1>1, QuietRun, PcSets

\* Calls that go on, having changed no object.
LEMMA GotoRun ==
  ASSUME RunInv, NEW x \in Callers, NEW l, Goto(x, l), UNCHANGED <<obj, run, cancelled, pipes>>,
         l \notin BuildPcs \/ (l = "launch" /\ pc[x] = "building" /\ UNCHANGED unit),
         \A y \in Callers : y # x => unit'[y] = unit[y],
         l \in UnitPcs => \/ pc[x] \in UnitPcs /\ UNCHANGED unit
                          \/ \E j \in Ids : pipes[j] # NoUnit /\ unit'[x] = pipes[j]
  PROVE  OwnInv' /\ RanInv' /\ StateInv'
<1>1. pc'[x] = l /\ \A y \in Callers : y # x => pc'[y] = pc[y]
  BY GotoFields DEF RunInv
<1> QED
  BY <1>1, QuietRun, PcSets

\* Steps that check a state: the call goes on or ends.
LEMMA CheckRun ==
  ASSUME RunInv, NEW x \in Callers, NEW l, l \notin BuildPcs, pc[x] \in UnitPcs,
         \/ Goto(x, l) /\ UNCHANGED <<mutex, id, cfg, unit>>
         \/ Return(x),
         UNCHANGED <<pipes, runtime>>
  PROVE  OwnInv' /\ RanInv' /\ StateInv'
<1>1. UNCHANGED <<obj, run, cancelled>>
  BY DEF runtime
<1>2. CASE Return(x)
  BY <1>1, <1>2, ReturnRun
<1>3. CASE Goto(x, l) /\ UNCHANGED <<mutex, id, cfg, unit>>
  BY <1>1, <1>3, GotoRun
<1> QED
  BY <1>2, <1>3

LEMMA BuildRun ==
  ASSUME RunInv, NEW x \in Callers, StartPipeline(x)
  PROVE  OwnInv' /\ RanInv' /\ StateInv'
<1> DEFINE o == unit[x].p
<1>0. /\ pc[x] \in BuildPcs /\ o \in Objs /\ run[o] = "none" /\ o \notin cancelled
      /\ unit[x] \in Unit /\ id[x] \in Ids
      /\ \A y \in Callers : pc[y] \in UnitPcs => unit[y].p \in Objs
      /\ \A y \in Callers : pc[y] \in BuildPcs /\ y # x => unit[y].p # o
  <2>1. pc[x] \in BuildPcs
    BY PcSets DEF StartPipeline, BuildBegin, BuildFail, Acquire, AcquireFail, Launch
  <2>2. \A y \in Callers : pc[y] \in UnitPcs => unit[y].p \in Objs
    BY UnitObjs DEF RunInv
  <2>3. pc[x] \in UnitPcs /\ pc[x] # "idle"
    BY <2>1, PcSets
  <2> QED
    BY <2>1, <2>2, <2>3 DEF RunInv, OwnInv, RanInv, TypeInv, CallOK
<1>s. ASSUME NEW s \in {"building", "stopped"}, SetState(o, s), UNCHANGED <<run, cancelled, pipes>>,
             \A y \in Callers : y # x => pc'[y] = pc[y] /\ unit'[y] = unit[y],
             pc'[x] = "idle" \/ (pc'[x] = "building" /\ s = "building" /\ UNCHANGED unit)
      PROVE  OwnInv' /\ RanInv' /\ StateInv'
  <2>1. \A q \in Objs : (q # o => obj'[q] = obj[q]) /\ (q = o => obj'[q].state = s)
    BY <1>0, <1>s, SetStateFields DEF RunInv
  <2>2. OwnInv'
    <3> SUFFICES ASSUME NEW y \in Callers, pc'[y] \in BuildPcs
                 PROVE  /\ run[unit'[y].p] = "none"
                        /\ \A z \in Callers : pc'[z] \in BuildPcs /\ unit'[z].p = unit'[y].p => z = y
                        /\ pc'[y] # "build" => obj'[unit'[y].p].state = "building"
      BY <1>s DEF OwnInv
    <3>1. \A z \in Callers : pc'[z] \in BuildPcs => pc[z] \in BuildPcs /\ unit'[z] = unit[z]
      BY <1>0, <1>s, PcSets
    <3>2. CASE y = x
      BY <1>0, <1>s, <2>1, <3>1, <3>2, PcSets
    <3>3. CASE y # x
      BY <1>0, <1>s, <2>1, <3>1, <3>3, PcSets DEF RunInv, OwnInv
    <3> QED
      BY <3>2, <3>3
  <2>3. RanInv'
    <3>1. \A y \in Callers : pc'[y] \in UnitPcs => pc[y] \in UnitPcs /\ unit'[y] = unit[y]
      BY <1>0, <1>s, PcSets
    <3> QED
      BY <1>s, <3>1 DEF RunInv, RanInv
  <2>4. StateInv'
    BY <1>0, <1>s, <2>1 DEF RunInv, StateInv, Started
  <2> QED
    BY <2>2, <2>3, <2>4
<1>1. CASE BuildBegin(x)
  BY <1>1, <1>s, GotoFields DEF BuildBegin, RunInv
<1>2. CASE BuildFail(x)
  BY <1>2, <1>s, ReturnFields DEF BuildFail, BuildError, RunInv
<1>3. CASE Acquire(x)
  BY <1>3, <1>0, PcSets, GotoRun DEF Acquire, runtime
<1>4. CASE AcquireFail(x)
  BY <1>4, ReturnRun DEF AcquireFail, runtime
<1>5. CASE Launch(x)
  <2>1. /\ pc'[x] = "idle" /\ UNCHANGED <<obj, cancelled>>
        /\ \A y \in Callers : y # x => pc'[y] = pc[y] /\ unit'[y] = unit[y]
    BY <1>5, ReturnFields DEF Launch, RunInv
  <2>2. /\ \A q \in Objs : q # o => run'[q] = run[q]
        /\ run'[o] = "live"
    BY <1>0, <1>5 DEF Launch, RunInv, TypeInv, TypeOK
  <2>3. \A i \in Ids : pipes'[i] = pipes[i] \/ pipes'[i].p = o
    <3>1. WithCancel(unit[x]).p = o
      BY <1>0 DEF WithCancel, Unit
    <3> QED
      BY <1>5, <3>1 DEF Launch, RunInv, TypeInv, TypeOK
  <2>4. OwnInv'
    BY <1>0, <2>1, <2>2, PcSets DEF RunInv, OwnInv
  <2>5. RanInv'
    <3>1. \A i \in Ids : pipes[i] # NoUnit => pipes[i].p \in Objs
      BY UnitObjs DEF RunInv
    <3>2. cancelled \subseteq Objs
      BY DEF RunInv, TypeInv, TypeOK
    <3> QED
      BY <1>0, <2>1, <2>2, <2>3, <3>1, <3>2, PcSets DEF RunInv, RanInv
  <2>6. obj[o].state = "building"
    BY <1>0, <1>5 DEF RunInv, OwnInv, Launch
  <2>7. StateInv'
    BY <1>0, <2>1, <2>2, <2>6 DEF RunInv, StateInv, Started
  <2> QED
    BY <2>4, <2>5, <2>7
<1> QED
  BY <1>1, <1>2, <1>3, <1>4, <1>5 DEF StartPipeline

LEMMA StartRun ==
  ASSUME RunInv, NEW x \in Callers, StartSteps(x)
  PROVE  OwnInv' /\ RanInv' /\ StateInv'
<1>0. pc[x] # "idle" => id[x] \in Ids /\ cfg[x] \in Versions \cup {None}
  BY DEF RunInv, TypeInv, TypeOK, CallOK
<1>p. {"start_check", "start_lock", "start_recheck", "start_store"} \cap BuildPcs = {}
  BY DEF BuildPcs
<1>1. CASE StartLoad(x)
  <2>1. id[x] \in Ids /\ unit' = [unit EXCEPT ![x] = pipes[id[x]]] /\ pipes[id[x]] # NoUnit
    BY <1>0, <1>1 DEF StartLoad
  <2>2. unit'[x] = pipes[id[x]] /\ \A y \in Callers : y # x => unit'[y] = unit[y]
    BY <2>1 DEF RunInv, TypeInv, TypeOK
  <2> QED
    BY <1>1, <1>p, <2>1, <2>2, GotoRun DEF StartLoad, runtime
<1>2. CASE StartCheck(x)
  BY <1>2, <1>p, PcSets, CheckRun DEF StartCheck
<1>3. CASE StartLock(x)
  <2>1. id[x] \in Ids /\ unit' = [unit EXCEPT ![x] = pipes[id[x]]] /\ pipes[id[x]] # NoUnit
    BY <1>0, <1>3 DEF StartLock, Reload
  <2>2. unit'[x] = pipes[id[x]] /\ \A y \in Callers : y # x => unit'[y] = unit[y]
    BY <2>1 DEF RunInv, TypeInv, TypeOK
  <2> QED
    BY <1>3, <1>p, <2>1, <2>2, GotoRun DEF StartLock, runtime
<1>4. CASE StartPanic(x)
  BY <1>4, ReturnRun DEF StartPanic, runtime
<1>5. CASE StartRecheck(x)
  BY <1>5, <1>p, PcSets, CheckRun DEF StartRecheck
<1>6. ASSUME NEW o \in Objs, StartStore(x, o)
      PROVE  OwnInv' /\ RanInv' /\ StateInv'
  <2>u. PICK u : u = [p |-> o, mu |-> unit[x].mu, c |-> FALSE]
    OBVIOUS
  <2>1. u.p = o /\ u.c = FALSE /\ Create(o, id[x], cfg[x]) /\ id[x] \in Ids
    BY <1>0, <1>6, <2>u DEF StartStore
  <2>2. pipes' = [pipes EXCEPT ![id[x]] = u] /\ unit' = [unit EXCEPT ![x] = u]
    BY <1>6, <2>u DEF StartStore
  <2>3. /\ pc'[x] = "build" /\ unit'[x] = u
        /\ \A y \in Callers : y # x => pc'[y] = pc[y] /\ unit'[y] = unit[y]
    BY <1>6, <2>2, GotoFields DEF StartStore, RunInv, TypeInv, TypeOK
  <2>4. cfg[x] \in Versions \cup {None}
    BY <1>0, <1>6 DEF StartStore
  <2> QED
    BY <2>1, <2>2, <2>3, <2>4, NewRun
<1>7. ASSUME NEW o \in Objs, NEW m \in Mutexes, StartLoadNew(x, o, m)
      PROVE  OwnInv' /\ RanInv' /\ StateInv'
  <2>u. PICK u : u = [p |-> o, mu |-> m, c |-> FALSE]
    OBVIOUS
  <2>1. u.p = o /\ u.c = FALSE /\ Create(o, id[x], cfg[x]) /\ id[x] \in Ids
    BY <1>0, <1>7, <2>u DEF StartLoadNew
  <2>2. pipes' = [pipes EXCEPT ![id[x]] = u] /\ unit' = [unit EXCEPT ![x] = u]
    BY <1>7, <2>u DEF StartLoadNew
  <2>3. /\ pc'[x] = "start_check" /\ unit'[x] = u
        /\ \A y \in Callers : y # x => pc'[y] = pc[y] /\ unit'[y] = unit[y]
    BY <1>7, <2>2, GotoFields DEF StartLoadNew, RunInv, TypeInv, TypeOK
  <2>4. cfg[x] \in Versions \cup {None}
    BY <1>0, <1>7 DEF StartLoadNew
  <2> QED
    BY <1>p, <2>1, <2>2, <2>3, <2>4, NewRun
<1> QED
  BY <1>1, <1>2, <1>3, <1>4, <1>5, <1>6, <1>7 DEF StartSteps

\* A cancel function cancels what was launched.
LEMMA CancelRun ==
  ASSUME RunInv, NEW u, u.c => u.p \in Objs /\ run[u.p] # "none",
         cancelled' = cancelled \cup Cancelling(u), UNCHANGED <<obj, run, pipes, unit>>,
         \A y \in Callers : pc'[y] # pc[y] => pc[y] \in UnitPcs /\ pc'[y] \notin BuildPcs
  PROVE  OwnInv' /\ RanInv' /\ StateInv'
<1>1. \A o \in cancelled' : o \in cancelled \/ (o = u.p /\ u.c)
  BY DEF Cancelling
<1>2. cancelled \subseteq cancelled'
  OBVIOUS
<1>3. \A y \in Callers : /\ pc'[y] \in BuildPcs => pc'[y] = pc[y]
                         /\ pc'[y] \in UnitPcs => pc[y] \in UnitPcs
  OBVIOUS
<1>4. OwnInv'
  BY <1>3 DEF RunInv, OwnInv
<1>5. RanInv'
  BY <1>1, <1>3 DEF RunInv, RanInv
<1>6. StateInv'
  BY <1>2 DEF RunInv, StateInv
<1> QED
  BY <1>4, <1>5, <1>6

LEMMA StopRun ==
  ASSUME RunInv, NEW x \in Callers, StopSteps(x)
  PROVE  OwnInv' /\ RanInv' /\ StateInv'
<1>p. {"stop_check", "stop_lock", "stop_recheck", "stop_cancel", "stop_release"} \subseteq StopPcs
  BY DEF StopPcs
<1>1. CASE StopCheck(x)
  BY <1>1, <1>p, PcSets, CheckRun DEF StopCheck
<1>2. CASE StopLock(x)
  BY <1>2, <1>p, PcSets, GotoRun DEF StopLock, runtime
<1>3. CASE StopRecheck(x)
  BY <1>3, <1>p, PcSets, CheckRun DEF StopRecheck
<1>4. CASE StopCancel(x)
  <2>1. pc[x] \in UnitPcs
    BY <1>4, <1>p, PcSets DEF StopCancel
  <2>2. unit[x].c => unit[x].p \in Objs /\ run[unit[x].p] # "none"
    BY <2>1, UnitObjs DEF RunInv, RanInv
  <2>3. \A y \in Callers : pc'[y] # pc[y] => pc[y] \in UnitPcs /\ pc'[y] \notin BuildPcs
    BY <1>4, <1>p, <2>1, PcSets, GotoFields DEF StopCancel, RunInv
  <2> QED
    BY <1>4, <2>2, <2>3, CancelRun DEF StopCancel
<1>5. CASE StopRelease(x)
  BY <1>5, ReturnRun DEF StopRelease, runtime
<1> QED
  BY <1>1, <1>2, <1>3, <1>4, <1>5 DEF StopSteps

LEMMA EditRun ==
  ASSUME RunInv, NEW x \in Callers, EditSteps(x)
  PROVE  OwnInv' /\ RanInv' /\ StateInv'
<1>0. pc[x] # "idle" => id[x] \in Ids /\ cfg[x] \in Versions \cup {None}
  BY DEF RunInv, TypeInv, TypeOK, CallOK
<1>p. /\ {"edit_check", "edit_lock", "edit_recheck", "edit_storage", "edit_write"} \subseteq EditPcs
      /\ {"add_store", "delete_entry", "update_store"} \cap BuildPcs = {}
  BY DEF EditPcs, BuildPcs
<1>1. CASE AddStorage(x)
  <2>1. CASE Return(x)
    BY <1>1, <2>1, ReturnRun DEF AddStorage, runtime
  <2>2. CASE Goto(x, "add_store") /\ UNCHANGED <<mutex, id, cfg, unit>>
    BY <1>1, <1>p, <2>2, PcSets, GotoRun DEF AddStorage, runtime
  <2> QED
    BY <1>1, <2>1, <2>2 DEF AddStorage
<1>2. CASE EditCheck(x)
  BY <1>2, <1>p, PcSets, CheckRun DEF EditCheck
<1>3. CASE EditLock(x)
  BY <1>3, <1>p, PcSets, GotoRun DEF EditLock, runtime
<1>4. CASE EditRecheck(x)
  BY <1>4, <1>p, PcSets, CheckRun DEF EditRecheck
<1>5. CASE EditStorageCheck(x)
  BY <1>5, <1>p, PcSets, CheckRun DEF EditStorageCheck
<1>6. CASE EditStorageWrite(x)
  <2>1. PICK l : l = IF cfg[x] = None THEN "delete_entry" ELSE "update_store"
    OBVIOUS
  <2>2. Goto(x, l) /\ l \notin BuildPcs /\ pc[x] \in UnitPcs
    BY <1>6, <1>p, <2>1, PcSets DEF EditStorageWrite
  <2> QED
    BY <1>6, <2>2, GotoRun DEF EditStorageWrite, runtime
<1>7. CASE DeleteEntry(x)
  <2>1. \A j \in Ids : pipes'[j] = pipes[j] \/ pipes'[j] = NoUnit
    BY <1>7 DEF DeleteEntry, RunInv, TypeInv, TypeOK
  <2> QED
    BY <1>7, <2>1, ReturnRun DEF DeleteEntry, runtime
<1>8. ASSUME NEW o \in Objs, NEW mu, NEW v \in Versions \cup {None}, Create(o, id[x], v),
             pipes' = [pipes EXCEPT ![id[x]] = [p |-> o, mu |-> mu, c |-> FALSE]], Return(x),
             id[x] \in Ids
      PROVE  OwnInv' /\ RanInv' /\ StateInv'
  <2>u. PICK u : u = [p |-> o, mu |-> mu, c |-> FALSE]
    OBVIOUS
  <2>1. u.p = o /\ u.c = FALSE /\ pipes' = [pipes EXCEPT ![id[x]] = u]
    BY <1>8, <2>u
  <2>2. pc'[x] = "idle" /\ \A y \in Callers : y # x => pc'[y] = pc[y] /\ unit'[y] = unit[y]
    BY <1>8, ReturnFields DEF RunInv
  <2> QED
    <3>1. Create(o, id[x], v) /\ id[x] \in Ids
      BY <1>8
    <3> QED
      BY <2>1, <2>2, <3>1, NewRun
<1>9. ASSUME NEW o \in Objs, UpdateStore(x, o) \/ \E m \in Mutexes : AddStore(x, o, m)
      PROVE  OwnInv' /\ RanInv' /\ StateInv'
  BY <1>0, <1>8, <1>9 DEF UpdateStore, AddStore
<1> QED
  BY <1>1, <1>2, <1>3, <1>4, <1>5, <1>6, <1>7, <1>9 DEF EditSteps

LEMMA CallRun ==
  ASSUME RunInv, NEW x \in Callers, Call(x)
  PROVE  OwnInv' /\ RanInv' /\ StateInv'
<1>p. /\ {"start_lookup", "add_storage", "stop_check", "edit_check"} \cap BuildPcs = {}
      /\ {"start_lookup", "add_storage"} \cap UnitPcs = {}
  BY DEF BuildPcs, UnitPcs
<1> SUFFICES ASSUME NEW i \in Ids,
                    \/ StartCall(x, i) \/ StopCall(x, i)
                    \/ \E v \in Versions : AddCall(x, i, v)
                    \/ \E v \in Versions \cup {None} : EditCall(x, i, v)
             PROVE  OwnInv' /\ RanInv' /\ StateInv'
  BY DEF Call
<1>1. CASE StartCall(x, i) \/ \E v \in Versions : AddCall(x, i, v)
  BY <1>1, <1>p, GotoRun DEF StartCall, AddCall, runtime
<1>2. CASE StopCall(x, i) \/ \E v \in Versions \cup {None} : EditCall(x, i, v)
  <2>1. pipes[i] # NoUnit /\ unit' = [unit EXCEPT ![x] = pipes[i]]
    BY <1>2 DEF StopCall, EditCall
  <2>2. unit'[x] = pipes[i] /\ \A y \in Callers : y # x => unit'[y] = unit[y]
    BY <2>1 DEF RunInv, TypeInv, TypeOK
  <2>3. UNCHANGED <<obj, run, cancelled, pipes>>
    BY <1>2 DEF StopCall, EditCall, runtime
  <2>4. Goto(x, "stop_check") \/ Goto(x, "edit_check")
    BY <1>2 DEF StopCall, EditCall
  <2> QED
    BY <1>p, <2>1, <2>2, <2>3, <2>4, GotoRun
<1> QED
  BY <1>1, <1>2

LEMMA GoroutineRun ==
  ASSUME RunInv, NEW o \in Objs, Goroutine(o)
  PROVE  OwnInv' /\ RanInv' /\ StateInv'
<1>c. UNCHANGED <<pipes, cancelled, pc, unit>> /\ run[o] = "live"
  BY DEF Goroutine, RunStarting, RunRunning, RunStopping, RunStopped, RunTo, RunClosed, caller
<1>o. \A y \in Callers : pc[y] \in BuildPcs => unit[y].p \in Objs /\ unit[y].p # o
  BY <1>c, UnitObjs, PcSets DEF RunInv, OwnInv
<1>1. ASSUME NEW from, NEW to, RunTo(o, from, to), from \in {"building"} \cup Started,
             to \in Started \/ (to = "stopped" /\ from = "stopping"),
             to = "stopping" => o \in cancelled
      PROVE  OwnInv' /\ RanInv' /\ StateInv'
  <2>1. obj[o].state = from /\ SetState(o, to) /\ UNCHANGED run
    BY <1>1 DEF RunTo
  <2>2. \A q \in Objs : (q # o => obj'[q] = obj[q]) /\ (q = o => obj'[q].state = to)
    BY <2>1, SetStateFields DEF RunInv
  <2>3. OwnInv'
    BY <1>c, <1>o, <2>1, <2>2 DEF RunInv, OwnInv
  <2>4. RanInv'
    BY <1>c, <2>1 DEF RunInv, RanInv
  <2>5. StateInv'
    BY <1>1, <1>c, <2>1, <2>2 DEF RunInv, StateInv, Started
  <2> QED
    BY <2>3, <2>4, <2>5
<1>2. CASE RunClosed(o)
  <2>1. /\ UNCHANGED obj /\ obj[o].state = "stopped" /\ run'[o] = "ended"
        /\ \A q \in Objs : q # o => run'[q] = run[q]
    BY <1>2 DEF RunClosed, RunInv, TypeInv, TypeOK
  <2>2. OwnInv'
    BY <1>c, <1>o, <2>1 DEF RunInv, OwnInv
  <2>3. RanInv'
    <3>1. cancelled \subseteq Objs
      BY DEF RunInv, TypeInv, TypeOK
    <3>2. /\ \A y \in Callers : pc[y] \in UnitPcs => unit[y].p \in Objs
          /\ \A i \in Ids : pipes[i] # NoUnit => pipes[i].p \in Objs
      BY UnitObjs DEF RunInv
    <3> QED
      BY <1>c, <2>1, <3>1, <3>2 DEF RunInv, RanInv
  <2>4. StateInv'
    BY <1>c, <2>1 DEF RunInv, StateInv, Started
  <2> QED
    BY <2>2, <2>3, <2>4
<1> QED
  BY <1>1, <1>2 DEF Goroutine, RunStarting, RunRunning, RunStopping, RunStopped, Started

LEMMA ProcessRun ==
  ASSUME RunInv, Process \/ Shutdown \/ Crash
  PROVE  OwnInv' /\ RanInv' /\ StateInv'
<1>1. CASE Boot \/ BootDone \/ Drained \/ Shutdown
  <2>1. UNCHANGED <<obj, run, cancelled, pipes, pc, unit>>
    BY <1>1 DEF Boot, BootDone, Drained, Shutdown, runtime, caller
  <2> QED
    BY <2>1, QuietRun
<1>2. ASSUME NEW i \in Ids, StopAllOne(i)
      PROVE  OwnInv' /\ RanInv' /\ StateInv'
  <2>1. pipes[i].c => pipes[i].p \in Objs /\ run[pipes[i].p] # "none"
    BY UnitObjs DEF RunInv, RanInv, NoUnit
  <2> QED
    BY <1>2, <2>1, CancelRun DEF StopAllOne, caller
<1>3. ASSUME NEW x \in Callers, NEW i \in Ids, NEW o \in Objs, NEW m \in Mutexes,
             BootOne(x, i, o, m)
      PROVE  OwnInv' /\ RanInv' /\ StateInv'
  <2>u. PICK u : u = [p |-> o, mu |-> m, c |-> FALSE]
    OBVIOUS
  <2>1. u.p = o /\ u.c = FALSE /\ pipes' = [pipes EXCEPT ![i] = u] /\ Create(o, i, stored[i])
    BY <1>3, <2>u DEF BootOne
  <2>2. \/ UNCHANGED <<pc, unit>>
        \/ Goto(x, "build") /\ unit' = [unit EXCEPT ![x] = u]
    BY <1>3, <2>u DEF BootOne
  <2>3. /\ \A y \in Callers : y # x => pc'[y] = pc[y] /\ unit'[y] = unit[y]
        /\ \/ pc'[x] = pc[x] /\ unit'[x] = unit[x]
           \/ pc'[x] \in {"start_check", "build"} /\ unit'[x] = u
    BY <2>2, GotoFields DEF RunInv, TypeInv, TypeOK
  <2>4. stored[i] \in Versions \cup {None}
    BY DEF RunInv, TypeInv, TypeOK
  <2> QED
    BY <2>1, <2>3, <2>4, NewRun
<1>4. ASSUME Gone
      PROVE  OwnInv' /\ RanInv' /\ StateInv'
  <2>1. /\ \A y \in Callers : pc'[y] = "idle"
        /\ \A o \in Objs : run'[o] = "none" /\ obj'[o].state = "created"
        /\ \A i \in Ids : pipes'[i] = NoUnit
        /\ cancelled' = {}
    BY <1>4 DEF Gone, AllIdle, NoRuns, NoObjs, NoObj, NoPipes
  <2> QED
    BY <2>1, PcSets DEF OwnInv, RanInv, StateInv, Started
<1> QED
  BY <1>1, <1>2, <1>3, <1>4 DEF Process, Exit, Crash

LEMMA RunInvCorrect == Spec => []RunInv
<1>1. Init => RunInv
  <2> SUFFICES ASSUME Init PROVE RunInv
    OBVIOUS
  <2>1. /\ \A y \in Callers : pc[y] = "idle"
        /\ \A o \in Objs : run[o] = "none" /\ obj[o].state = "created"
        /\ \A i \in Ids : pipes[i] = NoUnit
        /\ cancelled = {}
    BY DEF Init, AllIdle, NoRuns, NoObjs, NoObj, NoPipes
  <2> QED
    BY <2>1, PcSets, InitType DEF RunInv, OwnInv, RanInv, StateInv, Started
<1>2. RunInv /\ TypeInv' /\ [Next]_vars => RunInv'
  <2> SUFFICES ASSUME RunInv, TypeInv', [Next]_vars PROVE OwnInv' /\ RanInv' /\ StateInv'
    BY DEF RunInv
  <2>1. CASE UNCHANGED vars
    BY <2>1, QuietRun DEF vars, runtime, caller
  <2>2. CASE Process \/ Shutdown \/ Crash
    BY <2>2, ProcessRun
  <2>3. ASSUME NEW x \in Callers, Call(x) \/ Working(x)
        PROVE  OwnInv' /\ RanInv' /\ StateInv'
    BY <2>3, CallRun, BuildRun, StartRun, StopRun, EditRun DEF Working
  <2>4. ASSUME NEW o \in Objs, Goroutine(o)
        PROVE  OwnInv' /\ RanInv' /\ StateInv'
    BY <2>4, GoroutineRun
  <2> QED
    BY <2>1, <2>2, <2>3, <2>4 DEF Next
<1> QED
  BY <1>1, <1>2, TypeCorrect, PTL DEF Spec

\* Only a launch makes a goroutine, and of an object that has had none.
LEMMA LaunchesNew ==
  ASSUME RunInv, [Next]_vars, NEW o \in Objs, run'[o] = "live"
  PROVE  run[o] # "ended"
<1>1. CASE UNCHANGED run
  BY <1>1
<1>2. ASSUME NEW q \in Objs, NEW i \in Ids, NEW v \in Versions \cup {None}, Create(q, i, v)
      PROVE  run[o] # "ended"
  <2>1. /\ \A r \in Objs : FreshObj(r) => run'[r] = "none"
        /\ \A r \in Objs : ~FreshObj(r) => run'[r] = run[r]
    BY <1>2, CreateIs DEF RunInv
  <2> HIDE DEF FreshObj
  <2> QED
    BY <2>1
<1>3. ASSUME NEW x \in Callers, Launch(x)
      PROVE  run[o] # "ended"
  <2>1. run[unit[x].p] = "none"
    BY <1>3 DEF Launch, RunInv, OwnInv, BuildPcs
  <2>2. o # unit[x].p => run'[o] = run[o]
    BY <1>3 DEF Launch, RunInv, TypeInv, TypeOK
  <2> QED
    BY <2>1, <2>2
<1>4. ASSUME NEW q \in Objs, RunClosed(q)
      PROVE  run[o] # "ended"
  BY <1>4 DEF RunClosed, RunInv, TypeInv, TypeOK
<1>5. ~Gone
  BY DEF Gone, NoRuns
<1>6. CASE Process \/ Shutdown \/ Crash
  <2>1. ASSUME NEW x \in Callers, NEW i \in Ids, NEW q \in Objs, NEW m \in Mutexes,
               BootOne(x, i, q, m)
        PROVE  run[o] # "ended"
    <3>1. Create(q, i, stored[i]) /\ stored[i] \in Versions \cup {None}
      BY <2>1 DEF BootOne, RunInv, TypeInv, TypeOK
    <3> QED
      BY <1>2, <3>1
  <2>2. CASE Boot \/ BootDone \/ Drained \/ Shutdown \/ \E i \in Ids : StopAllOne(i)
    BY <1>1, <2>2 DEF Boot, BootDone, Drained, Shutdown, StopAllOne, runtime
  <2> QED
    BY <1>5, <1>6, <2>1, <2>2 DEF Process, Exit, Crash
<1>7. ASSUME NEW x \in Callers, Call(x) \/ Working(x)
      PROVE  run[o] # "ended"
  <2>0. pc[x] # "idle" => id[x] \in Ids /\ cfg[x] \in Versions \cup {None}
    BY DEF RunInv, TypeInv, TypeOK, CallOK
  <2>1. CASE Call(x)
    BY <1>1, <2>1 DEF Call, StartCall, StopCall, AddCall, EditCall, runtime
  <2>2. CASE StartPipeline(x)
    BY <1>1, <1>3, <2>2 DEF StartPipeline, BuildBegin, BuildFail, Acquire, AcquireFail, runtime
  <2>3. CASE StartSteps(x)
    BY <1>1, <1>2, <2>0, <2>3 DEF StartSteps, StartLoad, StartCheck, StartLock, StartPanic,
       StartRecheck, StartStore, StartLoadNew, runtime
  <2>4. CASE StopSteps(x)
    BY <1>1, <2>4 DEF StopSteps, StopCheck, StopLock, StopRecheck, StopCancel, StopRelease, runtime
  <2>5. CASE EditSteps(x)
    BY <1>1, <1>2, <2>0, <2>5 DEF EditSteps, AddStorage, AddStore, EditCheck, EditLock, EditRecheck,
       EditStorageCheck, EditStorageWrite, UpdateStore, DeleteEntry, runtime
  <2> QED
    BY <1>7, <2>1, <2>2, <2>3, <2>4, <2>5 DEF Working
<1>8. ASSUME NEW q \in Objs, Goroutine(q)
      PROVE  run[o] # "ended"
  BY <1>1, <1>4, <1>8 DEF Goroutine, RunStarting, RunRunning, RunStopping, RunStopped, RunTo
<1>9. CASE UNCHANGED vars
  BY <1>1, <1>9 DEF vars, runtime
<1> QED
  BY <1>6, <1>7, <1>8, <1>9 DEF Next

\* Whatever clients call and in whatever order, no object is run twice: what a start
\* launches is new, although the registry, stale entries and stops name old objects.
THEOREM LaunchedOnceCorrect == Spec => LaunchedOnce
<1>1. RunInv /\ [Next]_vars => [\A o \in Objs : run[o] = "ended" => run'[o] # "live"]_vars
  BY LaunchesNew
<1> QED
  BY <1>1, RunInvCorrect, PTL DEF Spec, LaunchedOnce

-----------------------------------------------------------------------------
(***************************************************************************)
(* The phases of the process, whatever clients call.                       *)
(***************************************************************************)
\* At boot callers only build what they have registered; nobody is in a call, and
\* nothing is registered, while the process is down or stops everything.
PhaseInv ==
  /\ phase = "boot" =>
       /\ \A x \in Callers : pc[x] # "idle" => pc[x] \in BuildPcs /\ pipes[id[x]] # NoUnit
       /\ \A i \in pending : pipes[i] = NoUnit
  /\ phase = "down" => \A i \in Ids : pipes[i] = NoUnit
  /\ phase \in {"down", "stopall"} => \A x \in Callers : pc[x] = "idle"

LEMMA BusyCaller ==
  ASSUME NEW x \in Callers, Working(x)
  PROVE  pc[x] # "idle"
<1>1. ~StartPipeline(x) \/ pc[x] # "idle"
  BY DEF StartPipeline, BuildBegin, BuildFail, Acquire, AcquireFail, Launch
<1>2. ~StartSteps(x) \/ pc[x] # "idle"
  BY DEF StartSteps, StartLoad, StartCheck, StartLock, StartPanic, StartRecheck, StartStore, StartLoadNew
<1>3. ~StopSteps(x) \/ pc[x] # "idle"
  BY DEF StopSteps, StopCheck, StopLock, StopRecheck, StopCancel, StopRelease
<1>4. ~EditSteps(x) \/ pc[x] # "idle"
  BY DEF EditSteps, AddStorage, AddStore, EditCheck, EditLock, EditRecheck, EditStorageCheck,
         EditStorageWrite, UpdateStore, DeleteEntry
<1> QED
  BY <1>1, <1>2, <1>3, <1>4 DEF Working

LEMMA CallerPhase ==
  ASSUME TypeInv, PhaseInv, NEW x \in Callers, Call(x) \/ Working(x)
  PROVE  /\ UNCHANGED <<phase, pending>> /\ phase \notin {"down", "stopall"}
         /\ phase = "boot" => StartPipeline(x)
         /\ phase # "boot" => phase \in {"serving", "draining"}
<1>1. CASE Call(x)
  BY <1>1 DEF Call, StartCall, StopCall, AddCall, EditCall, CanCall, boot
<1>2. CASE Working(x)
  <2>1. pc[x] # "idle"
    BY <1>2, BusyCaller
  <2>2. phase \notin {"down", "stopall"}
    BY <2>1 DEF PhaseInv
  <2>3. UNCHANGED <<phase, pending>>
    <3>1. CASE StartPipeline(x)
      BY <3>1 DEF StartPipeline, BuildBegin, BuildFail, Acquire, AcquireFail, Launch, boot
    <3>2. CASE StartSteps(x)
      BY <3>2 DEF StartSteps, StartLoad, StartCheck, StartLock, StartPanic, StartRecheck, StartStore,
         StartLoadNew, boot
    <3>3. CASE StopSteps(x)
      BY <3>3 DEF StopSteps, StopCheck, StopLock, StopRecheck, StopCancel, StopRelease, boot
    <3>4. CASE EditSteps(x)
      BY <3>4 DEF EditSteps, AddStorage, AddStore, EditCheck, EditLock, EditRecheck, EditStorageCheck,
         EditStorageWrite, UpdateStore, DeleteEntry, boot
    <3> QED
      BY <1>2, <3>1, <3>2, <3>3, <3>4 DEF Working
  <2>4. phase = "boot" => StartPipeline(x)
    <3> SUFFICES ASSUME phase = "boot" PROVE StartPipeline(x)
      OBVIOUS
    <3>1. pc[x] \in BuildPcs
      BY <2>1 DEF PhaseInv
    <3>2. ~StartSteps(x)
      BY <3>1 DEF BuildPcs, StartSteps, StartLoad, StartCheck, StartLock, StartPanic, StartRecheck,
         StartStore, StartLoadNew
    <3>3. ~StopSteps(x)
      BY <3>1 DEF BuildPcs, StopSteps, StopCheck, StopLock, StopRecheck, StopCancel, StopRelease
    <3>4. ~EditSteps(x)
      BY <3>1 DEF BuildPcs, EditSteps, AddStorage, AddStore, EditCheck, EditLock, EditRecheck,
         EditStorageCheck, EditStorageWrite, UpdateStore, DeleteEntry
    <3> QED
      BY <1>2, <3>2, <3>3, <3>4 DEF Working
  <2>5. phase \in {"down", "boot", "serving", "draining", "stopall"}
    BY DEF TypeInv, TypeOK
  <2> QED
    BY <2>2, <2>3, <2>4, <2>5
<1> QED
  BY <1>1, <1>2

\* What building a pipeline does to the callers and to the registry.
LEMMA StartPipelineIs ==
  ASSUME TypeInv, NEW x \in Callers, StartPipeline(x)
  PROVE  /\ \A y \in Callers : y # x => pc'[y] = pc[y] /\ id'[y] = id[y] /\ unit'[y] = unit[y]
         /\ pc[x] \in BuildPcs /\ id[x] \in Ids /\ unit[x] \in Unit
         /\ pc'[x] = "idle" \/ (pc'[x] \in BuildPcs /\ id'[x] = id[x] /\ unit'[x] = unit[x])
         /\ \/ UNCHANGED pipes
            \/ Launch(x) /\ pipes' = [pipes EXCEPT ![id[x]] = WithCancel(unit[x])]
<1>1. pc[x] \in BuildPcs
  BY PcSets DEF StartPipeline, BuildBegin, BuildFail, Acquire, AcquireFail, Launch
<1>2. id[x] \in Ids /\ unit[x] \in Unit
  BY <1>1, PcSets DEF TypeInv, CallOK
<1>3. CASE Return(x)
  <2>1. /\ \A y \in Callers : y # x => pc'[y] = pc[y] /\ id'[y] = id[y] /\ unit'[y] = unit[y]
        /\ pc'[x] = "idle"
    BY <1>3, ReturnFields
  <2>2. ~BuildBegin(x) /\ ~Acquire(x)
    BY <2>1, GotoFields DEF BuildBegin, Acquire
  <2> QED
    BY <1>1, <1>2, <2>1, <2>2 DEF StartPipeline, BuildFail, AcquireFail, Launch
<1>4. CASE BuildBegin(x) \/ Acquire(x)
  <2>1. pc'[x] \in BuildPcs /\ \A y \in Callers : y # x => pc'[y] = pc[y]
    BY <1>4, GotoFields, PcSets DEF BuildBegin, Acquire
  <2> QED
    BY <1>1, <1>2, <1>4, <2>1 DEF BuildBegin, Acquire
<1> QED
  BY <1>3, <1>4 DEF StartPipeline, BuildFail, AcquireFail, Launch

LEMMA PhaseInvCorrect == Spec => []PhaseInv
<1>1. Init => PhaseInv
  BY DEF Init, PhaseInv, NoPipes, AllIdle
<1>2. TypeInv /\ PhaseInv /\ TypeInv' /\ [Next]_vars => PhaseInv'
  <2> SUFFICES ASSUME TypeInv, PhaseInv, TypeInv', [Next]_vars PROVE PhaseInv'
    OBVIOUS
  <2>1. CASE UNCHANGED vars
    BY <2>1 DEF PhaseInv, vars, boot, caller
  <2>2. ASSUME NEW x \in Callers, Call(x) \/ Working(x)
        PROVE  PhaseInv'
    <3>1. /\ UNCHANGED <<phase, pending>> /\ phase \notin {"down", "stopall"}
          /\ phase = "boot" => StartPipeline(x)
      BY <2>2, CallerPhase
    <3>2. ASSUME phase = "boot"
          PROVE  PhaseInv'
      <4>1. /\ \A y \in Callers : y # x => pc'[y] = pc[y] /\ id'[y] = id[y]
            /\ pc[x] \in BuildPcs /\ id[x] \in Ids /\ unit[x] \in Unit
            /\ pc'[x] = "idle" \/ (pc'[x] \in BuildPcs /\ id'[x] = id[x])
            /\ UNCHANGED pipes \/ pipes' = [pipes EXCEPT ![id[x]] = WithCancel(unit[x])]
        BY <3>1, <3>2, StartPipelineIs
      <4>2. pipes[id[x]] # NoUnit
        BY <3>2, <4>1, PcSets DEF PhaseInv
      <4>3. WithCancel(unit[x]) # NoUnit
        BY <4>1, NoUnitFields DEF WithCancel, Unit
      <4>4. \A i \in Ids : (pipes'[i] = NoUnit) <=> (pipes[i] = NoUnit)
        BY <4>1, <4>2, <4>3 DEF TypeInv, TypeOK
      <4>5. \A y \in Callers : pc'[y] # "idle" => id'[y] \in Ids
        BY DEF TypeInv, CallOK
      <4>6. pending \subseteq Ids
        BY DEF TypeInv, TypeOK
      <4> QED
        BY <3>1, <3>2, <4>1, <4>2, <4>4, <4>5, <4>6 DEF PhaseInv
    <3> QED
      BY <3>1, <3>2 DEF PhaseInv
  <2>3. ASSUME NEW o \in Objs, Goroutine(o)
        PROVE  PhaseInv'
    <3>1. UNCHANGED <<phase, pending, pipes, pc, id>>
      BY <2>3 DEF Goroutine, RunStarting, RunRunning, RunStopping, RunStopped, RunTo, RunClosed,
                  boot, caller
    <3> QED
      BY <3>1 DEF PhaseInv
  <2>4. CASE Boot \/ BootDone \/ Drained \/ Shutdown \/ \E i \in Ids : StopAllOne(i)
    BY <2>4 DEF Boot, BootDone, Drained, Shutdown, StopAllOne, Idling, PhaseInv, caller
  <2>5. CASE Gone
    BY <2>5 DEF Gone, NoPipes, AllIdle, PhaseInv
  <2>6. ASSUME NEW x \in Callers, NEW i \in Ids, NEW o \in Objs, NEW m \in Mutexes,
               BootOne(x, i, o, m)
        PROVE  PhaseInv'
    <3>u. PICK u : u = [p |-> o, mu |-> m, c |-> FALSE]
      OBVIOUS
    <3>1. u # NoUnit /\ pipes' = [pipes EXCEPT ![i] = u] /\ phase = "boot" /\ UNCHANGED phase
      <4>1. u \in Unit
        BY <3>u DEF Unit
      <4> QED
        BY <2>6, <3>u, <4>1, NoUnitFields DEF BootOne
    <3>2. \A j \in Ids : j # i => pipes'[j] = pipes[j]
      BY <3>1 DEF TypeInv, TypeOK
    <3>3. pipes'[i] = u
      BY <3>1 DEF TypeInv, TypeOK
    <3>4. \A y \in Callers : \/ pc'[y] = pc[y] /\ id'[y] = id[y]
                             \/ y = x /\ pc'[y] = "build" /\ id'[y] = i
      BY <2>6, GotoFields DEF BootOne, TypeInv, TypeOK
    <3>5. \A y \in Callers : pc[y] # "idle" => pc[y] \in BuildPcs /\ pipes[id[y]] # NoUnit /\ id[y] \in Ids
      BY <3>1 DEF PhaseInv, TypeInv, CallOK
    <3>6. \A j \in pending' : pipes'[j] = NoUnit
      <4>1. pending' = pending \ {i} /\ pending \subseteq Ids
        BY <2>6 DEF BootOne, TypeInv, TypeOK
      <4> QED
        BY <3>1, <3>2, <4>1 DEF PhaseInv
    <3>7. \A y \in Callers : pc'[y] # "idle" => pc'[y] \in BuildPcs /\ pipes'[id'[y]] # NoUnit
      BY <3>1, <3>2, <3>3, <3>4, <3>5, PcSets
    <3> QED
      BY <3>1, <3>6, <3>7 DEF PhaseInv
  <2> QED
    BY <2>1, <2>2, <2>3, <2>4, <2>5, <2>6 DEF Next, Process, Exit, Crash
<1> QED
  BY <1>1, <1>2, TypeCorrect, PTL DEF Spec

-----------------------------------------------------------------------------
(***************************************************************************)
(* Start, stop, update and delete: a locked pipeline is not edited.  The   *)
(* argument: as long as a configuration is stored its entry, once          *)
(* registered, keeps its mutex, so calls that hold an entry of it exclude  *)
(* each other, however stale the entry is; hence no lock row is inserted   *)
(* between the check of the rows and the write.  A client that adds what   *)
(* another one deletes breaks this: the new entry has a new mutex.         *)
(***************************************************************************)
NoAdd == \A x \in Callers : "add" \notin Ops[x]

\* The steps of a call that has taken a mutex, or works on what it registered.
Holding == BuildPcs \cup {"start_recheck", "start_store", "stop_recheck", "stop_cancel", "stop_release",
                          "edit_recheck", "edit_storage", "edit_write", "update_store", "delete_entry"}

\* All the entries calls have loaded of a stored pipeline have the same mutex.
MutexInv ==
  \A x \in Callers : pc[x] \in UnitPcs /\ stored[id[x]] # None =>
    pipes[id[x]] # NoUnit /\ unit[x].mu = pipes[id[x]].mu

HoldInv ==
  \A x \in Callers : pc[x] \in Holding /\ phase # "boot" /\ stored[id[x]] # None => mutex[unit[x].mu] = x

\* What an edit knows about the storage.
RowInv ==
  /\ \A x \in Callers :
       /\ pc[x] \notin {"add_storage", "add_store"}
       /\ pc[x] = "edit_write" => stored[id[x]] # None /\ id[x] \notin lockRows
       /\ pc[x] = "delete_entry" => stored[id[x]] = None
  /\ ~Locking => lockRows = {}

EditInv == TypeInv /\ PhaseInv /\ MutexInv /\ HoldInv /\ RowInv

LEMMA HoldingSet ==
  /\ Holding \subseteq UnitPcs /\ BuildPcs \subseteq Holding /\ "idle" \notin Holding
  /\ {"start_check", "start_lock", "stop_check", "stop_lock", "edit_check", "edit_lock"} \cap Holding = {}
  BY DEF Holding, UnitPcs, Pcs, BuildPcs, StartPcs, StopPcs, EditPcs

\* Outside boot two calls that hold an entry of a stored pipeline are one.
LEMMA HoldersExclude ==
  ASSUME EditInv, NEW x \in Callers, NEW y \in Callers, pc[x] \in Holding, pc[y] \in Holding,
         phase # "boot", id[x] = id[y], stored[id[x]] # None
  PROVE  x = y
<1>1. mutex[unit[x].mu] = x /\ mutex[unit[y].mu] = y
  BY DEF EditInv, HoldInv
<1>2. unit[x].mu = unit[y].mu
  BY HoldingSet DEF EditInv, MutexInv
<1> QED
  BY <1>1, <1>2

\* What has to be shown of a step of caller x.
LEMMA CallerEdit ==
  ASSUME EditInv, NEW x \in Callers, UNCHANGED phase,
         \A y \in Callers : y # x => pc'[y] = pc[y] /\ id'[y] = id[y] /\ unit'[y] = unit[y],
         \A y \in Callers, m \in Mutexes : y # x /\ mutex[m] = y => mutex'[m] = y,
         \A i \in Ids : stored'[i] # None => stored[i] # None,
         \A i \in Ids : stored'[i] # None /\ pipes[i] # NoUnit =>
           pipes'[i] # NoUnit /\ pipes'[i].mu = pipes[i].mu,
         \A y \in Callers : y # x /\ pc[y] = "edit_write" =>
           stored'[id[y]] # None /\ id[y] \notin lockRows',
         pc'[x] \in UnitPcs /\ stored'[id'[x]] # None =>
           pipes'[id'[x]] # NoUnit /\ unit'[x].mu = pipes'[id'[x]].mu,
         pc'[x] \in Holding /\ phase # "boot" /\ stored'[id'[x]] # None => mutex'[unit'[x].mu] = x,
         pc'[x] \notin {"add_storage", "add_store"},
         pc'[x] = "edit_write" => stored'[id'[x]] # None /\ id'[x] \notin lockRows',
         pc'[x] = "delete_entry" => stored'[id'[x]] = None,
         ~Locking => lockRows' = {}
  PROVE  MutexInv' /\ HoldInv' /\ RowInv'
<1>q. \A y \in Callers : pc[y] \in UnitPcs => id[y] \in Ids /\ unit[y].mu \in Mutexes
  <2>1. "idle" \notin UnitPcs
    BY PcSets
  <2> QED
    BY <2>1, UnitObjs DEF EditInv, TypeInv, CallOK
<1>1. MutexInv'
  BY <1>q DEF EditInv, MutexInv
<1>2. HoldInv'
  BY <1>q, HoldingSet DEF EditInv, HoldInv
<1>3. RowInv'
  BY <1>q, PcSets DEF EditInv, RowInv
<1> QED
  BY <1>1, <1>2, <1>3

\* Calls that end, having changed neither storage nor registry; rows may be released.
LEMMA ReturnEdit ==
  ASSUME EditInv, NEW x \in Callers, Return(x), UNCHANGED <<phase, stored, pipes>>,
         lockRows' \subseteq lockRows
  PROVE  MutexInv' /\ HoldInv' /\ RowInv'
<1>1. /\ pc'[x] = "idle"
      /\ \A y \in Callers : y # x => pc'[y] = pc[y] /\ id'[y] = id[y] /\ unit'[y] = unit[y]
      /\ \A m \in Mutexes : mutex[m] # x => mutex'[m] = mutex[m]
  BY ReturnFields DEF EditInv
<1>2. pc'[x] \notin UnitPcs /\ pc'[x] \notin Holding
  BY <1>1, PcSets, HoldingSet
<1>3. ~Locking => lockRows' = {}
  BY DEF EditInv, RowInv
<1>4. \A y \in Callers : pc[y] = "edit_write" => stored'[id[y]] # None /\ id[y] \notin lockRows'
  BY DEF EditInv, RowInv
<1> QED
  BY <1>1, <1>2, <1>3, <1>4, CallerEdit

\* Calls that go on with the entry they have, and may lock its mutex.
LEMMA GotoEdit ==
  ASSUME EditInv, NEW x \in Callers, NEW l, Goto(x, l), UNCHANGED <<phase, stored, pipes, id, unit>>,
         pc[x] \in UnitPcs,
         UNCHANGED mutex \/ Lock(x),
         l \in Holding => pc[x] \in Holding \/ Lock(x),
         l \notin {"add_storage", "add_store", "delete_entry"},
         l = "edit_write" => stored[id[x]] # None /\ id[x] \notin lockRows,
         lockRows' = lockRows
  PROVE  MutexInv' /\ HoldInv' /\ RowInv'
<1>1. pc'[x] = l /\ \A y \in Callers : y # x => pc'[y] = pc[y]
  BY GotoFields DEF EditInv
<1>2. unit[x].mu \in Mutexes /\ mutex \in [Mutexes -> Callers \cup {None}]
  BY UnitObjs DEF EditInv, TypeInv, TypeOK
<1>3. Lock(x) => /\ mutex'[unit[x].mu] = x /\ mutex[unit[x].mu] = None
                 /\ \A m \in Mutexes : m # unit[x].mu => mutex'[m] = mutex[m]
  BY <1>2 DEF Lock
<1>4. \A y \in Callers, m \in Mutexes : y # x /\ mutex[m] = y => mutex'[m] = y
  BY <1>3, ServiceAssumption
<1>5. l \in Holding /\ phase # "boot" /\ stored[id[x]] # None => mutex'[unit[x].mu] = x
  BY <1>3 DEF EditInv, HoldInv
<1>6. stored[id[x]] # None => pipes[id[x]] # NoUnit /\ unit[x].mu = pipes[id[x]].mu
  BY DEF EditInv, MutexInv
<1>7. \A y \in Callers : pc[y] = "edit_write" => stored'[id[y]] # None /\ id[y] \notin lockRows'
  BY DEF EditInv, RowInv
<1>8. ~Locking => lockRows' = {}
  BY DEF EditInv, RowInv
<1> QED
  BY <1>1, <1>4, <1>5, <1>6, <1>7, <1>8, CallerEdit

\* Steps that check a state: the call goes on or ends.
LEMMA CheckEdit ==
  ASSUME EditInv, NEW x \in Callers, NEW l, pc[x] \in UnitPcs,
         l \in Holding => pc[x] \in Holding,
         l \notin {"add_storage", "add_store", "delete_entry", "edit_write"},
         \/ Goto(x, l) /\ UNCHANGED <<mutex, id, cfg, unit>>
         \/ Return(x),
         UNCHANGED <<boot, storage, pipes>>
  PROVE  MutexInv' /\ HoldInv' /\ RowInv'
<1>1. UNCHANGED <<phase, stored, lockRows, pipes>>
  BY DEF boot, storage
<1>2. CASE Return(x)
  BY <1>1, <1>2, ReturnEdit
<1>3. CASE Goto(x, l) /\ UNCHANGED <<mutex, id, cfg, unit>>
  BY <1>1, <1>3, GotoEdit
<1> QED
  BY <1>2, <1>3

LEMMA StartPipelineEdit ==
  ASSUME EditInv, NEW x \in Callers, StartPipeline(x)
  PROVE  MutexInv' /\ HoldInv' /\ RowInv'
<1>0. /\ \A y \in Callers : y # x => pc'[y] = pc[y] /\ id'[y] = id[y] /\ unit'[y] = unit[y]
      /\ pc[x] \in BuildPcs /\ id[x] \in Ids /\ unit[x] \in Unit
      /\ pc'[x] = "idle" \/ (pc'[x] \in BuildPcs /\ id'[x] = id[x] /\ unit'[x] = unit[x])
      /\ UNCHANGED <<stored, phase>>
  <2>1. UNCHANGED <<stored, phase>>
    BY DEF StartPipeline, BuildBegin, BuildFail, Acquire, AcquireFail, Launch, boot, storage
  <2> QED
    BY <2>1, StartPipelineIs DEF EditInv
<1>1. CASE BuildBegin(x)
  BY <1>0, <1>1, HoldingSet, PcSets, GotoEdit DEF BuildBegin, storage
<1>2. CASE BuildFail(x) \/ AcquireFail(x)
  BY <1>0, <1>2, ReturnEdit DEF BuildFail, AcquireFail, storage
<1>3. CASE Acquire(x)
  <2>1. /\ UNCHANGED <<pipes, mutex, id, unit>> /\ pc'[x] = "launch"
        /\ lockRows' \subseteq lockRows \cup {id[x]}
        /\ ~Locking => lockRows' = lockRows
    BY <1>3, GotoFields DEF Acquire, LockKey, EditInv
  <2>2. \A y \in Callers : y # x /\ pc[y] = "edit_write" =>
          stored'[id[y]] # None /\ id[y] \notin lockRows'
    <3> SUFFICES ASSUME NEW y \in Callers, y # x, pc[y] = "edit_write"
                 PROVE  stored[id[y]] # None /\ id[y] \notin lockRows'
      BY <1>0
    <3>1. stored[id[y]] # None /\ id[y] \notin lockRows
      BY DEF EditInv, RowInv
    <3>2. phase # "boot"
      BY PcSets DEF EditInv, PhaseInv, BuildPcs
    <3>3. id[y] # id[x]
      <4>1. pc[y] \in Holding /\ pc[x] \in Holding
        BY <1>0, HoldingSet DEF Holding
      <4> QED
        BY <3>1, <3>2, <4>1, HoldersExclude
    <3> QED
      BY <2>1, <3>1, <3>3
  <2>3. stored[id[x]] # None => pipes[id[x]] # NoUnit /\ unit[x].mu = pipes[id[x]].mu
    BY <1>0, PcSets DEF EditInv, MutexInv
  <2>4. phase # "boot" /\ stored[id[x]] # None => mutex[unit[x].mu] = x
    BY <1>0, HoldingSet DEF EditInv, HoldInv
  <2>5. ~Locking => lockRows' = {}
    BY <2>1 DEF EditInv, RowInv
  <2> QED
    BY <1>0, <2>1, <2>2, <2>3, <2>4, <2>5, CallerEdit
<1>4. CASE Launch(x)
  <2>1. /\ pc'[x] = "idle" /\ \A m \in Mutexes : mutex[m] # x => mutex'[m] = mutex[m]
        /\ pipes' = [pipes EXCEPT ![id[x]] = WithCancel(unit[x])] /\ lockRows' = lockRows
    BY <1>4, ReturnFields DEF Launch, EditInv, storage
  <2>2. WithCancel(unit[x]) # NoUnit /\ WithCancel(unit[x]).mu = unit[x].mu
    <3>1. WithCancel(unit[x]) \in Unit /\ WithCancel(unit[x]).mu = unit[x].mu
      BY <1>0 DEF WithCancel, Unit
    <3> QED
      BY <3>1, NoUnitFields
  <2>3. \A i \in Ids : i # id[x] => pipes'[i] = pipes[i]
    BY <2>1 DEF EditInv, TypeInv, TypeOK
  <2>4. pipes'[id[x]] = WithCancel(unit[x])
    BY <1>0, <2>1 DEF EditInv, TypeInv, TypeOK
  <2>5. \A i \in Ids : stored'[i] # None /\ pipes[i] # NoUnit =>
          pipes'[i] # NoUnit /\ pipes'[i].mu = pipes[i].mu
    BY <1>0, <2>2, <2>3, <2>4, PcSets DEF EditInv, MutexInv
  <2>6. \A y \in Callers : pc[y] = "edit_write" => stored'[id[y]] # None /\ id[y] \notin lockRows'
    BY <1>0, <2>1 DEF EditInv, RowInv
  <2>7. ~Locking => lockRows' = {}
    BY <2>1 DEF EditInv, RowInv
  <2> QED
    BY <1>0, <2>1, <2>5, <2>6, <2>7, PcSets, HoldingSet, CallerEdit
<1> QED
  BY <1>1, <1>2, <1>3, <1>4 DEF StartPipeline

\* Steps that register an entry with the mutex of the one before, or the first entry.
LEMMA EntryEdit ==
  ASSUME EditInv, NEW x \in Callers, NEW i \in Ids, NEW u \in Unit,
         UNCHANGED <<phase, stored, lockRows>>,
         pipes' = [pipes EXCEPT ![i] = u],
         pipes[i] # NoUnit /\ stored[i] # None => u.mu = pipes[i].mu,
         \A y \in Callers : y # x => pc'[y] = pc[y] /\ id'[y] = id[y] /\ unit'[y] = unit[y],
         \A m \in Mutexes : mutex[m] # x => mutex'[m] = mutex[m],
         \/ pc'[x] = "idle"
         \/ pc'[x] = pc[x] /\ id'[x] = id[x] /\ unit'[x] = unit[x] /\ pc[x] \notin UnitPcs
         \/ /\ pc'[x] \in UnitPcs \ {"edit_write", "delete_entry"} /\ id'[x] = i /\ unit'[x] = u
            /\ pc'[x] \in Holding /\ phase # "boot" /\ stored[i] # None => mutex'[u.mu] = x
  PROVE  MutexInv' /\ HoldInv' /\ RowInv'
<1>1. (\A j \in Ids : j # i => pipes'[j] = pipes[j]) /\ pipes'[i] = u /\ u # NoUnit
  BY NoUnitFields DEF EditInv, TypeInv, TypeOK
<1>2. \A j \in Ids : stored'[j] # None /\ pipes[j] # NoUnit =>
        pipes'[j] # NoUnit /\ pipes'[j].mu = pipes[j].mu
  BY <1>1
<1>3. \A y \in Callers : pc[y] = "edit_write" => stored'[id[y]] # None /\ id[y] \notin lockRows'
  BY DEF EditInv, RowInv
<1>4. ~Locking => lockRows' = {}
  BY DEF EditInv, RowInv
<1>5. /\ pc'[x] \in UnitPcs /\ stored'[id'[x]] # None =>
           pipes'[id'[x]] # NoUnit /\ unit'[x].mu = pipes'[id'[x]].mu
      /\ pc'[x] \in Holding /\ phase # "boot" /\ stored'[id'[x]] # None => mutex'[unit'[x].mu] = x
      /\ pc'[x] \notin {"add_storage", "add_store", "edit_write", "delete_entry"}
  BY <1>1, PcSets, HoldingSet DEF EditInv, RowInv, Holding
<1> QED
  BY <1>1, <1>2, <1>3, <1>4, <1>5, CallerEdit

LEMMA StartStepsEdit ==
  ASSUME EditInv, NEW x \in Callers, StartSteps(x)
  PROVE  MutexInv' /\ HoldInv' /\ RowInv'
<1>0. pc[x] # "idle" => id[x] \in Ids
  BY DEF EditInv, TypeInv, CallOK
<1>p. /\ {"start_recheck", "start_store"} \subseteq Holding
      /\ {"start_check", "start_lock"} \cap Holding = {} /\ "build" \in UnitPcs
  BY HoldingSet, PcSets DEF Holding
<1>m. \A y \in Callers : y # None
  BY ServiceAssumption
<1>1. CASE StartLoad(x)
  <2>1. /\ id[x] \in Ids /\ pipes[id[x]] \in Unit /\ pc'[x] = "start_check"
        /\ \A y \in Callers : y # x => pc'[y] = pc[y] /\ id'[y] = id[y] /\ unit'[y] = unit[y]
        /\ unit'[x] = pipes[id[x]] /\ id'[x] = id[x]
    BY <1>0, <1>1, GotoFields DEF StartLoad, EditInv, TypeInv, TypeOK
  <2>2. UNCHANGED <<phase, stored, lockRows, pipes, mutex>>
    BY <1>1 DEF StartLoad, boot, storage
  <2>3. pipes[id[x]] # NoUnit /\ pc'[x] \notin Holding
    BY <1>p, <2>1, NoUnitFields
  <2>4. /\ \A y \in Callers : pc[y] = "edit_write" => stored'[id[y]] # None /\ id[y] \notin lockRows'
        /\ ~Locking => lockRows' = {}
    BY <2>2 DEF EditInv, RowInv
  <2> QED
    BY <2>1, <2>2, <2>3, <2>4, CallerEdit
<1>2. CASE StartCheck(x)
  BY <1>2, <1>p, PcSets, CheckEdit DEF StartCheck
<1>3. CASE StartLock(x)
  <2>1. /\ id[x] \in Ids /\ pipes[id[x]] \in Unit /\ pc'[x] = "start_recheck"
        /\ \A y \in Callers : y # x => pc'[y] = pc[y] /\ id'[y] = id[y] /\ unit'[y] = unit[y]
        /\ unit'[x] = pipes[id[x]] /\ id'[x] = id[x]
    BY <1>0, <1>3, GotoFields DEF StartLock, Reload, EditInv, TypeInv, TypeOK
  <2>2. UNCHANGED <<phase, stored, lockRows, pipes>>
    BY <1>3 DEF StartLock, boot, storage
  <2>4. unit[x].mu \in Mutexes /\ mutex \in [Mutexes -> Callers \cup {None}]
    BY <1>3, PcSets, UnitObjs DEF StartLock, EditInv, TypeInv, TypeOK
  <2>5. /\ mutex'[unit[x].mu] = x /\ mutex[unit[x].mu] = None
        /\ \A m \in Mutexes : m # unit[x].mu => mutex'[m] = mutex[m]
    BY <1>3, <2>4 DEF StartLock, Lock
  <2>6. stored[id[x]] # None => unit[x].mu = pipes[id[x]].mu
    BY <1>3, PcSets DEF StartLock, EditInv, MutexInv
  <2>7. \A y \in Callers, m \in Mutexes : y # x /\ mutex[m] = y => mutex'[m] = y
    BY <1>m, <2>5
  <2>8. pipes[id[x]] # NoUnit
    BY <2>1, NoUnitFields
  <2>9. /\ \A y \in Callers : pc[y] = "edit_write" => stored'[id[y]] # None /\ id[y] \notin lockRows'
        /\ ~Locking => lockRows' = {}
    BY <2>2 DEF EditInv, RowInv
  <2> QED
    BY <2>1, <2>2, <2>5, <2>6, <2>7, <2>8, <2>9, CallerEdit
<1>4. CASE StartPanic(x)
  BY <1>4, ReturnEdit DEF StartPanic, boot, storage
<1>5. CASE StartRecheck(x)
  BY <1>5, <1>p, PcSets, CheckEdit DEF StartRecheck
<1>6. ASSUME NEW o \in Objs, StartStore(x, o)
      PROVE  MutexInv' /\ HoldInv' /\ RowInv'
  <2>u. PICK u : u = [p |-> o, mu |-> unit[x].mu, c |-> FALSE]
    OBVIOUS
  <2>1. pc[x] = "start_store" /\ id[x] \in Ids /\ unit[x].mu \in Mutexes
    BY <1>0, <1>6, PcSets, UnitObjs DEF StartStore, EditInv
  <2>2. u \in Unit /\ u.mu = unit[x].mu
    BY <2>u, <2>1 DEF Unit
  <2>3. /\ pipes' = [pipes EXCEPT ![id[x]] = u] /\ unit' = [unit EXCEPT ![x] = u]
        /\ UNCHANGED <<phase, stored, lockRows, mutex, id>>
    BY <1>6, <2>u DEF StartStore, boot, storage
  <2>4. /\ pc'[x] = "build" /\ unit'[x] = u
        /\ \A y \in Callers : y # x => pc'[y] = pc[y] /\ unit'[y] = unit[y]
    BY <1>6, <2>3, GotoFields DEF StartStore, EditInv, TypeInv, TypeOK
  <2>5. pipes[id[x]] # NoUnit /\ stored[id[x]] # None => u.mu = pipes[id[x]].mu
    BY <2>1, <2>2, PcSets DEF EditInv, MutexInv
  <2>6. phase # "boot" /\ stored[id[x]] # None => mutex[u.mu] = x
    BY <1>p, <2>1, <2>2 DEF EditInv, HoldInv
  <2> QED
    BY <1>p, <2>1, <2>2, <2>3, <2>4, <2>5, <2>6, EntryEdit
<1>7. ASSUME NEW o \in Objs, NEW m \in Mutexes, StartLoadNew(x, o, m)
      PROVE  MutexInv' /\ HoldInv' /\ RowInv'
  <2>u. PICK u : u = [p |-> o, mu |-> m, c |-> FALSE]
    OBVIOUS
  <2>1. id[x] \in Ids /\ pipes[id[x]] = NoUnit /\ u \in Unit
    BY <1>0, <1>7, <2>u DEF StartLoadNew, Unit
  <2>3. /\ pipes' = [pipes EXCEPT ![id[x]] = u] /\ unit' = [unit EXCEPT ![x] = u]
        /\ UNCHANGED <<phase, stored, lockRows, mutex, id>>
    BY <1>7, <2>u DEF StartLoadNew, boot, storage
  <2>4. /\ pc'[x] = "start_check" /\ unit'[x] = u
        /\ \A y \in Callers : y # x => pc'[y] = pc[y] /\ unit'[y] = unit[y]
    BY <1>7, <2>3, GotoFields DEF StartLoadNew, EditInv, TypeInv, TypeOK
  <2> QED
    BY <1>p, <2>1, <2>3, <2>4, PcSets, EntryEdit
<1> QED
  BY <1>1, <1>2, <1>3, <1>4, <1>5, <1>6, <1>7 DEF StartSteps

LEMMA StopStepsEdit ==
  ASSUME EditInv, NEW x \in Callers, StopSteps(x)
  PROVE  MutexInv' /\ HoldInv' /\ RowInv'
<1>p. /\ {"stop_check", "stop_lock", "stop_recheck", "stop_cancel", "stop_release"} \subseteq UnitPcs
      /\ {"stop_recheck", "stop_cancel", "stop_release"} \subseteq Holding /\ "stop_lock" \notin Holding
  BY PcSets DEF StopPcs, Holding, BuildPcs
<1>1. CASE StopCheck(x)
  BY <1>1, <1>p, CheckEdit DEF StopCheck
<1>2. CASE StopLock(x)
  BY <1>2, <1>p, GotoEdit DEF StopLock, boot, storage
<1>3. CASE StopRecheck(x)
  BY <1>3, <1>p, CheckEdit DEF StopRecheck
<1>4. CASE StopCancel(x)
  BY <1>4, <1>p, GotoEdit DEF StopCancel, boot, storage
<1>5. CASE StopRelease(x)
  BY <1>5, ReturnEdit DEF StopRelease, boot
<1> QED
  BY <1>1, <1>2, <1>3, <1>4, <1>5 DEF StopSteps

LEMMA EditStepsEdit ==
  ASSUME EditInv, NEW x \in Callers, EditSteps(x)
  PROVE  MutexInv' /\ HoldInv' /\ RowInv'
<1>0. /\ pc[x] # "idle" => id[x] \in Ids
      /\ pc[x] \notin {"add_storage", "add_store"}
  BY DEF EditInv, TypeInv, CallOK, RowInv
<1>p. /\ {"edit_check", "edit_lock", "edit_recheck", "edit_storage", "edit_write", "delete_entry", "update_store"}
           \subseteq UnitPcs
      /\ {"edit_recheck", "edit_storage", "edit_write", "delete_entry", "update_store"} \subseteq Holding
      /\ "edit_lock" \notin Holding
  BY PcSets DEF EditPcs, Holding, BuildPcs
<1>2. CASE EditCheck(x)
  BY <1>2, <1>p, CheckEdit DEF EditCheck
<1>3. CASE EditLock(x)
  BY <1>3, <1>p, GotoEdit DEF EditLock, boot, storage
<1>4. CASE EditRecheck(x)
  BY <1>4, <1>p, CheckEdit DEF EditRecheck
<1>5. CASE EditStorageCheck(x)
  <2>1. UNCHANGED <<phase, stored, lockRows, pipes>> /\ pc[x] = "edit_storage"
    BY <1>5 DEF EditStorageCheck, boot, storage
  <2>2. CASE Return(x)
    BY <2>1, <2>2, ReturnEdit
  <2>3. CASE ~Refused(id[x]) /\ Goto(x, "edit_write") /\ UNCHANGED <<mutex, id, cfg, unit>>
    <3>1. stored[id[x]] # None /\ id[x] \notin lockRows
      BY <2>3 DEF Refused, EditInv, RowInv
    <3> QED
      BY <1>p, <2>1, <2>3, <3>1, GotoEdit
  <2> QED
    BY <1>5, <2>2, <2>3 DEF EditStorageCheck
<1>6. CASE EditStorageWrite(x)
  <2>1. /\ pc[x] = "edit_write" /\ id[x] \in Ids
        /\ UNCHANGED <<phase, lockRows, pipes, mutex, id, unit>>
        /\ stored' = [stored EXCEPT ![id[x]] = cfg[x]]
    BY <1>0, <1>6 DEF EditStorageWrite, boot
  <2>2. (\A i \in Ids : i # id[x] => stored'[i] = stored[i]) /\ stored'[id[x]] = cfg[x]
    BY <2>1 DEF EditInv, TypeInv, TypeOK
  <2>3. /\ \A y \in Callers : y # x => pc'[y] = pc[y]
        /\ pc'[x] = IF cfg[x] = None THEN "delete_entry" ELSE "update_store"
    BY <1>6, GotoFields DEF EditStorageWrite, EditInv
  <2>4. stored[id[x]] # None /\ phase # "boot"
    BY <2>1, PcSets DEF EditInv, RowInv, PhaseInv, BuildPcs
  <2>5. \A y \in Callers : y # x /\ pc[y] = "edit_write" =>
          stored'[id[y]] # None /\ id[y] \notin lockRows'
    <3> SUFFICES ASSUME NEW y \in Callers, y # x, pc[y] = "edit_write"
                 PROVE  stored'[id[y]] # None /\ id[y] \notin lockRows
      BY <2>1
    <3>1. stored[id[y]] # None /\ id[y] \notin lockRows /\ id[y] \in Ids
      BY DEF EditInv, RowInv, TypeInv, CallOK
    <3>2. id[y] # id[x]
      BY <1>p, <2>1, <2>4, HoldersExclude
    <3> QED
      BY <2>2, <3>1, <3>2
  <2>6. pipes[id[x]] # NoUnit /\ unit[x].mu = pipes[id[x]].mu /\ mutex[unit[x].mu] = x
    BY <1>p, <2>1, <2>4 DEF EditInv, MutexInv, HoldInv
  <2>7. \A i \in Ids : stored'[i] # None => stored[i] # None
    BY <2>2, <2>4
  <2>8. ~Locking => lockRows' = {}
    BY <2>1 DEF EditInv, RowInv
  <2> QED
    BY <2>1, <2>2, <2>3, <2>5, <2>6, <2>7, <2>8, CallerEdit
<1>7. CASE DeleteEntry(x)
  <2>1. /\ pc[x] = "delete_entry" /\ id[x] \in Ids /\ stored[id[x]] = None
        /\ UNCHANGED <<phase, stored, lockRows>>
        /\ \A i \in Ids : i # id[x] => pipes'[i] = pipes[i]
    BY <1>0, <1>7 DEF DeleteEntry, boot, storage, EditInv, RowInv, TypeInv, TypeOK
  <2>2. /\ pc'[x] = "idle"
        /\ \A y \in Callers : y # x => pc'[y] = pc[y] /\ id'[y] = id[y] /\ unit'[y] = unit[y]
        /\ \A m \in Mutexes : mutex[m] # x => mutex'[m] = mutex[m]
    BY <1>7, ReturnFields DEF DeleteEntry, EditInv
  <2>3. /\ \A y \in Callers : pc[y] = "edit_write" => stored'[id[y]] # None /\ id[y] \notin lockRows'
        /\ ~Locking => lockRows' = {}
    BY <2>1 DEF EditInv, RowInv
  <2> QED
    BY <2>1, <2>2, <2>3, PcSets, HoldingSet, CallerEdit
<1>8. ASSUME NEW o \in Objs, UpdateStore(x, o)
      PROVE  MutexInv' /\ HoldInv' /\ RowInv'
  <2>u. PICK u : u = [p |-> o, mu |-> unit[x].mu, c |-> FALSE]
    OBVIOUS
  <2>1. pc[x] = "update_store" /\ id[x] \in Ids /\ unit[x].mu \in Mutexes
    BY <1>0, <1>8, PcSets, UnitObjs DEF UpdateStore, EditInv
  <2>2. u \in Unit /\ u.mu = unit[x].mu
    BY <2>u, <2>1 DEF Unit
  <2>3. /\ pipes' = [pipes EXCEPT ![id[x]] = u]
        /\ UNCHANGED <<phase, stored, lockRows>>
    BY <1>8, <2>u DEF UpdateStore, boot, storage
  <2>4. /\ pc'[x] = "idle"
        /\ \A y \in Callers : y # x => pc'[y] = pc[y] /\ id'[y] = id[y] /\ unit'[y] = unit[y]
        /\ \A m \in Mutexes : mutex[m] # x => mutex'[m] = mutex[m]
    BY <1>8, ReturnFields DEF UpdateStore, EditInv
  <2>5. pipes[id[x]] # NoUnit /\ stored[id[x]] # None => u.mu = pipes[id[x]].mu
    BY <2>1, <2>2, PcSets DEF EditInv, MutexInv
  <2> QED
    BY <2>1, <2>2, <2>3, <2>4, <2>5, EntryEdit
<1>9. ~AddStorage(x) /\ \A o \in Objs, m \in Mutexes : ~AddStore(x, o, m)
  BY <1>0 DEF AddStorage, AddStore
<1> QED
  BY <1>2, <1>3, <1>4, <1>5, <1>6, <1>7, <1>8, <1>9 DEF EditSteps

LEMMA CallEdit ==
  ASSUME NoAdd, EditInv, NEW x \in Callers, Call(x)
  PROVE  MutexInv' /\ HoldInv' /\ RowInv'
<1>p. /\ {"stop_check", "edit_check"} \subseteq UnitPcs \ Holding
      /\ "start_lookup" \notin UnitPcs \cup Holding
  BY PcSets, HoldingSet DEF StopPcs, EditPcs
<1> SUFFICES ASSUME NEW i \in Ids,
                    \/ StartCall(x, i) \/ StopCall(x, i)
                    \/ \E v \in Versions \cup {None} : EditCall(x, i, v)
             PROVE  MutexInv' /\ HoldInv' /\ RowInv'
  BY DEF Call, NoAdd, AddCall, CanCall
<1>1. UNCHANGED <<phase, stored, lockRows, pipes, mutex>>
  BY DEF StartCall, StopCall, EditCall, boot, storage
<1>2. /\ \A y \in Callers : y # x => pc'[y] = pc[y] /\ id'[y] = id[y] /\ unit'[y] = unit[y]
      /\ id'[x] = i
      /\ \/ pc'[x] = "start_lookup"
         \/ pc'[x] \in {"stop_check", "edit_check"} /\ unit'[x] = pipes[i] /\ pipes[i] # NoUnit
  <2>1. CASE StartCall(x, i)
    BY <2>1, GotoFields DEF StartCall, EditInv, TypeInv, TypeOK
  <2>2. CASE StopCall(x, i)
    BY <2>2, GotoFields DEF StopCall, EditInv, TypeInv, TypeOK
  <2>3. ASSUME NEW v \in Versions \cup {None}, EditCall(x, i, v)
        PROVE  /\ \A y \in Callers : y # x => pc'[y] = pc[y] /\ id'[y] = id[y] /\ unit'[y] = unit[y]
               /\ id'[x] = i /\ pc'[x] = "edit_check" /\ unit'[x] = pipes[i] /\ pipes[i] # NoUnit
    BY <2>3, GotoFields DEF EditCall, EditInv, TypeInv, TypeOK
  <2> QED
    BY <2>1, <2>2, <2>3
<1>3. /\ \A y \in Callers : pc[y] = "edit_write" => stored'[id[y]] # None /\ id[y] \notin lockRows'
      /\ ~Locking => lockRows' = {}
  BY <1>1 DEF EditInv, RowInv
<1>4. /\ pc'[x] \in UnitPcs /\ stored'[id'[x]] # None =>
           pipes'[id'[x]] # NoUnit /\ unit'[x].mu = pipes'[id'[x]].mu
      /\ pc'[x] \notin Holding
      /\ pc'[x] \notin {"add_storage", "add_store", "edit_write", "delete_entry"}
  BY <1>p, <1>1, <1>2
<1> QED
  BY <1>1, <1>2, <1>3, <1>4, CallerEdit

LEMMA GoroutineEdit ==
  ASSUME EditInv, NEW o \in Objs, Goroutine(o)
  PROVE  MutexInv' /\ HoldInv' /\ RowInv'
<1>1. UNCHANGED <<phase, stored, lockRows, pipes, mutex, pc, id, unit>>
  BY DEF Goroutine, RunStarting, RunRunning, RunStopping, RunStopped, RunTo, RunClosed,
         boot, storage, caller
<1> QED
  BY <1>1 DEF EditInv, MutexInv, HoldInv, RowInv

LEMMA ProcessEdit ==
  ASSUME EditInv, Process \/ Shutdown \/ Crash
  PROVE  MutexInv' /\ HoldInv' /\ RowInv'
<1>1. ASSUME \A y \in Callers : pc'[y] = "idle", lockRows' \subseteq lockRows
      PROVE  MutexInv' /\ HoldInv' /\ RowInv'
  <2>1. ~Locking => lockRows' = {}
    BY <1>1 DEF EditInv, RowInv
  <2> QED
    BY <1>1, <2>1, PcSets, HoldingSet DEF MutexInv, HoldInv, RowInv
<1>2. CASE Boot
  BY <1>1, <1>2 DEF Boot, BootLocks, caller, EditInv, PhaseInv
<1>3. CASE BootDone \/ Drained
  BY <1>1, <1>3 DEF BootDone, Drained, Idling, caller, storage
<1>4. CASE Shutdown
  BY <1>4 DEF Shutdown, EditInv, MutexInv, HoldInv, RowInv, caller, storage
<1>5. ASSUME NEW i \in Ids, StopAllOne(i)
      PROVE  MutexInv' /\ HoldInv' /\ RowInv'
  BY <1>1, <1>5 DEF StopAllOne, caller, EditInv, PhaseInv
<1>6. CASE Gone
  BY <1>1, <1>6 DEF Gone, AllIdle, storage
<1>7. ASSUME NEW x \in Callers, NEW i \in Ids, NEW o \in Objs, NEW m \in Mutexes,
             BootOne(x, i, o, m)
      PROVE  MutexInv' /\ HoldInv' /\ RowInv'
  <2>u. PICK u : u = [p |-> o, mu |-> m, c |-> FALSE]
    OBVIOUS
  <2>1. u \in Unit /\ phase = "boot" /\ pc[x] = "idle" /\ pipes[i] = NoUnit
    BY <1>7, <2>u DEF BootOne, Idling, Unit, EditInv, PhaseInv
  <2>2. pipes' = [pipes EXCEPT ![i] = u] /\ UNCHANGED <<phase, stored, lockRows, mutex>>
    BY <1>7, <2>u DEF BootOne, storage
  <2>3. /\ \A y \in Callers : y # x => pc'[y] = pc[y] /\ id'[y] = id[y] /\ unit'[y] = unit[y]
        /\ \/ pc'[x] = "idle"
           \/ pc'[x] = "build" /\ id'[x] = i /\ unit'[x] = u
    BY <1>7, <2>1, <2>u, GotoFields DEF BootOne, EditInv, TypeInv, TypeOK
  <2> QED
    BY <2>1, <2>2, <2>3, PcSets, EntryEdit
<1> QED
  BY <1>2, <1>3, <1>4, <1>5, <1>6, <1>7 DEF Process, Exit, Crash

LEMMA EditInvCorrect ==
  ASSUME NoAdd
  PROVE  Spec => []EditInv
<1>1. Init => MutexInv /\ HoldInv /\ RowInv
  <2> SUFFICES ASSUME Init PROVE MutexInv /\ HoldInv /\ RowInv
    OBVIOUS
  <2>1. lockRows = {} /\ \A y \in Callers : pc[y] = "idle"
    BY DEF Init, AllIdle
  <2> QED
    BY <2>1, PcSets, HoldingSet DEF MutexInv, HoldInv, RowInv
<1>2. EditInv /\ [Next]_vars => MutexInv' /\ HoldInv' /\ RowInv'
  <2> SUFFICES ASSUME EditInv, [Next]_vars PROVE MutexInv' /\ HoldInv' /\ RowInv'
    OBVIOUS
  <2>1. CASE UNCHANGED vars
    BY <2>1 DEF EditInv, MutexInv, HoldInv, RowInv, vars, boot, storage, caller
  <2>2. CASE Process \/ Shutdown \/ Crash
    BY <2>2, ProcessEdit
  <2>3. ASSUME NEW x \in Callers, Call(x) \/ Working(x)
        PROVE  MutexInv' /\ HoldInv' /\ RowInv'
    BY <2>3, CallEdit, StartPipelineEdit, StartStepsEdit, StopStepsEdit, EditStepsEdit DEF Working
  <2>4. ASSUME NEW o \in Objs, Goroutine(o)
        PROVE  MutexInv' /\ HoldInv' /\ RowInv'
    BY <2>4, GoroutineEdit
  <2> QED
    BY <2>1, <2>2, <2>3, <2>4 DEF Next
<1>3. TypeInv /\ PhaseInv /\ MutexInv /\ HoldInv /\ RowInv => EditInv
  BY DEF EditInv
<1> QED
  BY <1>1, <1>2, <1>3, TypeCorrect, PhaseInvCorrect, PTL DEF Spec

\* A step that changes a stored configuration finds no lock row.
LEMMA WritesUnlocked ==
  ASSUME EditInv, [Next]_vars, NEW i \in Ids, i \in lockRows
  PROVE  stored'[i] = stored[i]
<1>1. CASE UNCHANGED stored
  BY <1>1
<1>2. ASSUME NEW x \in Callers, EditStorageWrite(x)
      PROVE  stored'[i] = stored[i]
  <2>1. id[x] # i
    BY <1>2 DEF EditStorageWrite, EditInv, RowInv
  <2> QED
    BY <1>2, <2>1 DEF EditStorageWrite, EditInv, TypeInv, TypeOK
<1>3. CASE Process \/ Shutdown \/ Crash
  BY <1>1, <1>3 DEF Process, Boot, BootDone, Drained, Exit, StopAllOne, BootOne, Shutdown, Crash, Gone, storage
<1>4. ASSUME NEW x \in Callers, Call(x)
      PROVE  stored'[i] = stored[i]
  BY <1>1, <1>4 DEF Call, StartCall, StopCall, AddCall, EditCall, storage
<1>5. ASSUME NEW x \in Callers, Working(x)
      PROVE  stored'[i] = stored[i]
  <2>1. CASE StartPipeline(x)
    BY <1>1, <2>1 DEF StartPipeline, BuildBegin, BuildFail, Acquire, AcquireFail, Launch, storage
  <2>2. CASE StartSteps(x)
    BY <1>1, <2>2 DEF StartSteps, StartLoad, StartCheck, StartLock, StartPanic, StartRecheck,
       StartStore, StartLoadNew, storage
  <2>3. CASE StopSteps(x)
    BY <1>1, <2>3 DEF StopSteps, StopCheck, StopLock, StopRecheck, StopCancel, StopRelease, storage
  <2>4. CASE EditSteps(x)
    <3>1. ~AddStorage(x)
      BY DEF AddStorage, EditInv, RowInv
    <3> QED
      BY <1>1, <1>2, <2>4, <3>1 DEF EditSteps, AddStore, EditCheck, EditLock, EditRecheck,
         EditStorageCheck, UpdateStore, DeleteEntry, storage
  <2> QED
    BY <1>5, <2>1, <2>2, <2>3, <2>4 DEF Working
<1>6. ASSUME NEW o \in Objs, Goroutine(o)
      PROVE  stored'[i] = stored[i]
  BY <1>1, <1>6 DEF Goroutine, RunStarting, RunRunning, RunStopping, RunStopped, RunTo, RunClosed, storage
<1>7. CASE UNCHANGED vars
  BY <1>1, <1>7 DEF vars, storage
<1> QED
  BY <1>3, <1>4, <1>5, <1>6, <1>7 DEF Next

\* Unless clients add what others delete, the configuration of a locked pipeline is
\* neither updated nor deleted, even by a call that holds an entry that was replaced,
\* and although the rows are not locked between their check and the write.
THEOREM LockedNotEditedCorrect ==
  ASSUME NoAdd
  PROVE  Spec => LockedNotEdited
<1>1. EditInv /\ [Next]_vars =>
        [\A i \in Ids : i \in lockRows /\ stored[i] # None => stored'[i] = stored[i]]_vars
  BY WritesUnlocked
<1> QED
  BY <1>1, EditInvCorrect, PTL DEF Spec, LockedNotEdited

-----------------------------------------------------------------------------
(***************************************************************************)
(* Clients that only start and stop: the service implements its contract.  *)
(* A launch is the Begin of a pipeline, the call of its cancel function is *)
(* Cancel, and the return of Run is End; everything else stutters.         *)
(***************************************************************************)
\* What decides the mode of a pipeline.
LEMMA ModeIs ==
  ASSUME NEW i \in Ids
  PROVE  /\ (\A o \in Objs : Active(o) => obj[o].id # i) => ModeOf(i) = "idle"
         /\ \A o \in Objs : Active(o) /\ obj[o].id = i /\ o \notin cancelled => ModeOf(i) = "active"
         /\ \A o \in Objs :
              /\ Active(o) /\ obj[o].id = i
              /\ \A q \in Objs : Active(q) /\ obj[q].id = i => q \in cancelled
              => ModeOf(i) = "ending"
<1> DEFINE active == {o \in Objs : Active(o) /\ obj[o].id = i}
<1>1. ModeOf(i) = IF active = {} THEN "idle" ELSE IF active \subseteq cancelled THEN "ending" ELSE "active"
  BY DEF ModeOf
<1> HIDE DEF Active
<1>2. (\A o \in Objs : Active(o) => obj[o].id # i) => active = {}
  OBVIOUS
<1>3. \A o \in Objs : Active(o) /\ obj[o].id = i => o \in active
  OBVIOUS
<1>4. (\A q \in Objs : Active(q) /\ obj[q].id = i => q \in cancelled) => active \subseteq cancelled
  OBVIOUS
<1> HIDE DEF active
<1> QED
  BY <1>1, <1>2, <1>3, <1>4

\* Steps that no active object notices.
LEMMA SameModes ==
  ASSUME \A q \in Objs : Active(q)' <=> Active(q),
         \A q \in Objs : Active(q) => obj'[q].id = obj[q].id /\ (q \in cancelled' <=> q \in cancelled)
  PROVE  \A i \in Ids : ModeOf(i)' = ModeOf(i)
<1> SUFFICES ASSUME NEW i \in Ids PROVE ModeOf(i)' = ModeOf(i)
  OBVIOUS
<1>1. ModeOf(i) = LET active == {o \in Objs : Active(o) /\ obj[o].id = i}
                  IN IF active = {} THEN "idle" ELSE IF active \subseteq cancelled THEN "ending" ELSE "active"
  BY DEF ModeOf
<1>2. ModeOf(i)' = LET active == {o \in Objs : Active(o)' /\ obj'[o].id = i}
                   IN IF active = {} THEN "idle" ELSE IF active \subseteq cancelled' THEN "ending" ELSE "active"
  BY DEF ModeOf
<1>3. {o \in Objs : Active(o)' /\ obj'[o].id = i} = {o \in Objs : Active(o) /\ obj[o].id = i}
  OBVIOUS
<1>4. {o \in Objs : Active(o) /\ obj[o].id = i} \subseteq cancelled'
        <=> {o \in Objs : Active(o) /\ obj[o].id = i} \subseteq cancelled
  OBVIOUS
<1> QED
  BY <1>1, <1>2, <1>3, <1>4

\* What happens to the modes in a step, as a step of the contract.
LEMMA ContractStutter ==
  ASSUME (phase' # "down") <=> (phase # "down"), \A i \in Ids : ModeOf(i)' = ModeOf(i)
  PROVE  UNCHANGED Contract!vars
<1>1. (phase' # "down") = (phase # "down")
  OBVIOUS
<1>2. [i \in Ids |-> ModeOf(i)'] = [i \in Ids |-> ModeOf(i)]
  OBVIOUS
<1> QED
  BY <1>1, <1>2 DEF Contract!vars

LEMMA ContractMove ==
  ASSUME NEW i \in Ids, NEW from, NEW to, phase # "down", phase' # "down",
         ModeOf(i) = from, ModeOf(i)' = to,
         \A j \in Ids : j # i => ModeOf(j)' = ModeOf(j)
  PROVE  Contract!Move(i, from, to)
<1>1. (phase' # "down") = (phase # "down")
  OBVIOUS
<1>2. [j \in Ids |-> ModeOf(j)'] = [[j \in Ids |-> ModeOf(j)] EXCEPT ![i] = to]
  OBVIOUS
<1>3. [j \in Ids |-> ModeOf(j)][i] = from
  OBVIOUS
<1> QED
  BY <1>1, <1>2, <1>3 DEF Contract!Move

\* The active object of a pipeline is the registered one, hence the only one.
LEMMA OnlyActive ==
  ASSUME Inv, NEW o \in Objs, NEW q \in Objs, Active(o), Active(q), obj[o].id = obj[q].id
  PROVE  o = q
  BY DEF Inv, SInv, ActiveInv

\* Calling a cancel function ends one pipeline, or nothing.
LEMMA ContractCancel ==
  ASSUME Inv, NEW u, u.c => u.p \in Objs, cancelled' = cancelled \cup Cancelling(u),
         UNCHANGED <<obj, run>>, phase # "down", phase' # "down"
  PROVE  (\E i \in Ids : Contract!Cancel(i)) \/ UNCHANGED Contract!vars
<1>1. \A q \in Objs : Active(q)' <=> Active(q)
  BY DEF Active
<1>2. \A q : q \in cancelled' <=> q \in cancelled \/ (u.c /\ q = u.p)
  BY DEF Cancelling
<1>3. CASE u.c /\ Active(u.p) /\ u.p \notin cancelled
  <2> DEFINE i == obj[u.p].id
  <2>1. i \in Ids /\ u.p \in Objs
    BY <1>3 DEF Inv, SInv, ActiveInv
  <2>2. ModeOf(i) = "active"
    BY <1>3, <2>1, ModeIs
  <2>3. \A q \in Objs : Active(q) /\ obj[q].id = i => q \in cancelled'
    BY <1>2, <1>3, <2>1, OnlyActive
  <2>4. ModeOf(i)' = "ending"
    <3>1. /\ \E o \in Objs : Active(o)' /\ obj'[o].id = i
          /\ \A q \in Objs : Active(q)' /\ obj'[q].id = i => q \in cancelled'
      BY <1>1, <1>3, <2>1, <2>3
    <3>2. ModeOf(i)' = LET active == {o \in Objs : Active(o)' /\ obj'[o].id = i}
                       IN IF active = {} THEN "idle" ELSE IF active \subseteq cancelled' THEN "ending" ELSE "active"
      BY DEF ModeOf
    <3>3. LET active == {o \in Objs : Active(o)' /\ obj'[o].id = i}
          IN active # {} /\ active \subseteq cancelled'
      BY <3>1
    <3> QED
      BY <3>2, <3>3
  <2>5. \A j \in Ids : j # i => ModeOf(j)' = ModeOf(j)
    <3> SUFFICES ASSUME NEW j \in Ids, j # i PROVE ModeOf(j)' = ModeOf(j)
      OBVIOUS
    <3>1. {o \in Objs : Active(o)' /\ obj'[o].id = j} = {o \in Objs : Active(o) /\ obj[o].id = j}
      BY <1>1
    <3>2. {o \in Objs : Active(o) /\ obj[o].id = j} \subseteq cancelled'
            <=> {o \in Objs : Active(o) /\ obj[o].id = j} \subseteq cancelled
      BY <1>2
    <3> QED
      BY <3>1, <3>2 DEF ModeOf
  <2>6. Contract!Move(i, "active", "ending")
    BY <2>1, <2>2, <2>4, <2>5, ContractMove
  <2> QED
    BY <2>1, <2>6 DEF Contract!Cancel
<1>4. CASE ~(u.c /\ Active(u.p) /\ u.p \notin cancelled)
  <2>1. \A q \in Objs : Active(q) => obj'[q].id = obj[q].id /\ (q \in cancelled' <=> q \in cancelled)
    BY <1>2, <1>4
  <2> QED
    BY <1>1, <2>1, SameModes, ContractStutter
<1> QED
  BY <1>3, <1>4

\* Steps that change neither objects nor cancellations.
LEMMA ContractQuiet ==
  ASSUME UNCHANGED <<obj, run, cancelled>>, (phase' # "down") <=> (phase # "down")
  PROVE  UNCHANGED Contract!vars
<1>1. \A q \in Objs : Active(q)' <=> Active(q)
  BY DEF Active
<1> QED
  BY <1>1, SameModes, ContractStutter

\* Steps that make a new object.
LEMMA ContractCreate ==
  ASSUME TypeInv, NEW o \in Objs, NEW i \in Ids, NEW v \in Versions \cup {None}, Create(o, i, v),
         UNCHANGED phase
  PROVE  UNCHANGED Contract!vars
<1>1. /\ \A q \in Objs : FreshObj(q) => run'[q] = "none"
      /\ \A q \in Objs : ~FreshObj(q) =>
           run'[q] = run[q] /\ obj'[q] = obj[q] /\ (q \in cancelled' <=> q \in cancelled)
  BY CreateIs
<1>2. \A q \in Objs : FreshObj(q) => run[q] # "live"
  BY DEF FreshObj
<1> HIDE DEF FreshObj
<1>3. \A q \in Objs : Active(q)' <=> Active(q)
  BY <1>1, <1>2 DEF Active
<1>4. \A q \in Objs : Active(q) => obj'[q].id = obj[q].id /\ (q \in cancelled' <=> q \in cancelled)
  BY <1>1, <1>2 DEF Active
<1> QED
  BY <1>3, <1>4, SameModes, ContractStutter

LEMMA ContractStartPipeline ==
  ASSUME Inv, RunInv, NEW x \in Callers, StartPipeline(x)
  PROVE  (\E i \in Ids : Contract!Begin(i)) \/ UNCHANGED Contract!vars
<1>o. PICK o : o = unit[x].p
  OBVIOUS
<1>0. /\ pc[x] \in BuildPcs /\ id[x] \in Ids /\ o \in Objs /\ run[o] = "none" /\ o \notin cancelled
      /\ unit[x] = pipes[id[x]] /\ pipes[id[x]] # NoUnit /\ phase # "down" /\ UNCHANGED phase
  <2>1. pc[x] \in BuildPcs /\ id[x] \in Ids
    BY StartPipelineIs DEF RunInv
  <2>2. pc[x] \in UnitPcs /\ pc[x] \in Critical /\ pc[x] # "idle"
    BY <2>1, PcSets DEF Critical
  <2>3. UNCHANGED phase
    BY DEF StartPipeline, BuildBegin, BuildFail, Acquire, AcquireFail, Launch, boot
  <2> QED
    BY <1>o, <2>1, <2>2, <2>3, UnitObjs, BusyPhase DEF RunInv, OwnInv, RanInv, Inv, SInv, CurrentInv, EntryInv
<1>1. ASSUME NEW s, SetState(o, s), UNCHANGED <<run, cancelled>>
      PROVE  UNCHANGED Contract!vars
  <2>1. \A q \in Objs : obj'[q].id = obj[q].id /\ (q # o => obj'[q] = obj[q])
    BY <1>0, <1>1, SetStateFields DEF RunInv
  <2>2. \A q \in Objs : Active(q)' <=> Active(q)
    BY <1>0, <1>1, <2>1 DEF Active
  <2> QED
    BY <1>0, <1>1, <2>1, <2>2, SameModes, ContractStutter
<1>2. CASE BuildBegin(x) \/ BuildFail(x)
  BY <1>o, <1>1, <1>2 DEF BuildBegin, BuildFail, BuildError
<1>3. CASE Acquire(x) \/ AcquireFail(x)
  BY <1>0, <1>3, ContractQuiet DEF Acquire, AcquireFail, runtime
<1>4. CASE Launch(x)
  <2>k. PICK k \in Ids : k = id[x]
    BY <1>0
  <2>1. /\ UNCHANGED <<obj, cancelled>> /\ run'[o] = "live"
        /\ \A q \in Objs : q # o => run'[q] = run[q]
    BY <1>o, <1>0, <1>4 DEF Launch, RunInv, TypeInv, TypeOK
  <2>2. obj[o].state = "building" /\ obj[o].id = k
    BY <1>o, <1>0, <1>4, <2>k, PcSets DEF Launch, RunInv, OwnInv, Inv, SInv, NameInv
  <2>3. ModeOf(k) = "idle"
    <3>1. \A q \in Objs : Active(q) => obj[q].id # k
      <4> SUFFICES ASSUME NEW q \in Objs, Active(q), obj[q].id = k PROVE FALSE
        OBVIOUS
      <4>1. pipes[k].p = q
        BY DEF Inv, SInv, ActiveInv
      <4>2. q = o
        BY <1>o, <1>0, <2>k, <4>1
      <4> QED
        BY <1>0, <4>2 DEF Active
    <3> QED
      BY <1>0, <3>1, ModeIs
  <2>4. Active(o)' /\ \A q \in Objs : q # o => (Active(q)' <=> Active(q))
    BY <2>1, <2>2 DEF Active
  <2>5. ModeOf(k)' = "active"
    <3>1. o \in {q \in Objs : Active(q)' /\ obj'[q].id = k}
      BY <1>0, <2>1, <2>2, <2>4
    <3>2. o \notin cancelled'
      BY <1>0, <2>1
    <3>3. ModeOf(k)' = LET active == {q \in Objs : Active(q)' /\ obj'[q].id = k}
                           IN IF active = {} THEN "idle"
                              ELSE IF active \subseteq cancelled' THEN "ending" ELSE "active"
      BY DEF ModeOf
    <3> QED
      BY <3>1, <3>2, <3>3
  <2>6. \A j \in Ids : j # k => ModeOf(j)' = ModeOf(j)
    <3> SUFFICES ASSUME NEW j \in Ids, j # k PROVE ModeOf(j)' = ModeOf(j)
      OBVIOUS
    <3>1. {q \in Objs : Active(q)' /\ obj'[q].id = j} = {q \in Objs : Active(q) /\ obj[q].id = j}
      BY <2>1, <2>2, <2>4
    <3> QED
      BY <2>1, <3>1 DEF ModeOf
  <2> QED
    BY <1>0, <2>3, <2>5, <2>6, ContractMove DEF Contract!Begin
<1> QED
  BY <1>2, <1>3, <1>4 DEF StartPipeline

LEMMA ContractGoroutine ==
  ASSUME Inv, RunInv, NEW o \in Objs, Goroutine(o)
  PROVE  (\E i \in Ids : Contract!End(i)) \/ UNCHANGED Contract!vars
<1>0. run[o] = "live" /\ UNCHANGED <<phase, cancelled>>
  BY DEF Goroutine, RunStarting, RunRunning, RunStopping, RunStopped, RunTo, RunClosed, boot
<1>1. ASSUME NEW from, NEW to, RunTo(o, from, to), from # "stopped", to # "stopped"
      PROVE  UNCHANGED Contract!vars
  <2>1. \A q \in Objs : /\ obj'[q].id = obj[q].id
                        /\ q # o => obj'[q] = obj[q]
                        /\ q = o => obj'[q].state = to
    BY <1>1, SetStateFields DEF RunTo, RunInv
  <2>2. \A q \in Objs : Active(q)' <=> Active(q)
    BY <1>1, <2>1 DEF RunTo, Active
  <2> QED
    BY <1>0, <2>1, <2>2, SameModes, ContractStutter
<1>2. CASE RunStarting(o) \/ RunRunning(o) \/ RunStopping(o)
  BY <1>1, <1>2 DEF RunStarting, RunRunning, RunStopping
<1>3. CASE RunClosed(o)
  <2>1. UNCHANGED obj /\ obj[o].state = "stopped" /\ \A q \in Objs : q # o => run'[q] = run[q]
    BY <1>3 DEF RunClosed, RunInv, TypeInv, TypeOK
  <2>2. \A q \in Objs : Active(q)' <=> Active(q)
    BY <2>1 DEF Active
  <2> QED
    BY <1>0, <2>1, <2>2, SameModes, ContractStutter
<1>4. CASE RunStopped(o)
  <2>1. obj[o].state = "stopping" /\ SetState(o, "stopped") /\ UNCHANGED run
    BY <1>4 DEF RunStopped, RunTo
  <2>2. \A q \in Objs : /\ obj'[q].id = obj[q].id
                        /\ q # o => obj'[q] = obj[q]
                        /\ q = o => obj'[q].state = "stopped"
    BY <2>1, SetStateFields DEF RunInv
  <2>3. Active(o) /\ o \in cancelled /\ ~Active(o)' /\ \A q \in Objs : q # o => (Active(q)' <=> Active(q))
    BY <1>0, <2>1, <2>2 DEF Active, RunInv, StateInv
  <2>4. PICK i \in Ids : i = obj[o].id
    BY <2>3 DEF Inv, SInv, ActiveInv
  <2>5. \A q \in Objs : Active(q) /\ obj[q].id = i => q = o
    BY <2>3, <2>4, OnlyActive
  <2>6. ModeOf(i) = "ending"
    BY <2>3, <2>4, <2>5, ModeIs
  <2>7. ModeOf(i)' = "idle"
    <3>1. {q \in Objs : Active(q)' /\ obj'[q].id = i} = {}
      BY <2>2, <2>3, <2>5
    <3> QED
      BY <3>1 DEF ModeOf
  <2>8. \A j \in Ids : j # i => ModeOf(j)' = ModeOf(j)
    <3> SUFFICES ASSUME NEW j \in Ids, j # i PROVE ModeOf(j)' = ModeOf(j)
      OBVIOUS
    <3>1. {q \in Objs : Active(q)' /\ obj'[q].id = j} = {q \in Objs : Active(q) /\ obj[q].id = j}
      BY <2>2, <2>3, <2>4
    <3> QED
      BY <1>0, <3>1 DEF ModeOf
  <2>9. phase # "down"
    <3>1. pipes[i].p = o /\ i \in Ids
      BY <2>3, <2>4 DEF Inv, SInv, ActiveInv
    <3> QED
      BY <3>1, NoUnitFields, ServiceAssumption DEF Inv, DownInv
  <2> QED
    BY <1>0, <2>6, <2>7, <2>8, <2>9, ContractMove DEF Contract!End
<1> QED
  BY <1>2, <1>3, <1>4 DEF Goroutine

LEMMA ContractCaller ==
  ASSUME Inv, RunInv, NEW x \in Callers, Call(x) \/ Working(x)
  PROVE  Contract!Next \/ UNCHANGED Contract!vars
<1>0. pc[x] # "idle" => id[x] \in Ids /\ cfg[x] \in Versions \cup {None}
  BY DEF RunInv, TypeInv, TypeOK, CallOK
<1>1. CASE Call(x)
  BY <1>1, ContractQuiet DEF Call, StartCall, StopCall, AddCall, EditCall, boot, runtime
<1>2. CASE StartPipeline(x)
  BY <1>2, ContractStartPipeline DEF Contract!Next
<1>3. CASE StartSteps(x)
  <2>1. ASSUME NEW o \in Objs, StartStore(x, o) \/ \E m \in Mutexes : StartLoadNew(x, o, m)
        PROVE  UNCHANGED Contract!vars
    BY <1>0, <2>1, ContractCreate DEF StartStore, StartLoadNew, RunInv, boot
  <2>2. CASE StartLoad(x) \/ StartCheck(x) \/ StartLock(x) \/ StartPanic(x) \/ StartRecheck(x)
    BY <2>2, ContractQuiet DEF StartLoad, StartCheck, StartLock, StartPanic, StartRecheck, boot, runtime
  <2> QED
    BY <1>3, <2>1, <2>2 DEF StartSteps
<1>4. CASE StopSteps(x)
  <2>1. CASE StopCancel(x)
    <3>1. pc[x] # "idle" /\ unit[x].p \in Objs
      BY <2>1, PcSets, UnitObjs DEF StopCancel, RunInv, StopPcs
    <3>2. phase # "down" /\ phase' # "down"
      BY <2>1, <3>1, BusyPhase DEF StopCancel, boot
    <3> QED
      BY <2>1, <3>1, <3>2, ContractCancel DEF StopCancel, Contract!Next
  <2>2. CASE StopCheck(x) \/ StopLock(x) \/ StopRecheck(x) \/ StopRelease(x)
    BY <2>2, ContractQuiet DEF StopCheck, StopLock, StopRecheck, StopRelease, boot, runtime
  <2> QED
    BY <1>4, <2>1, <2>2 DEF StopSteps
<1>5. CASE EditSteps(x)
  <2>1. FALSE
    BY <1>5 DEF EditSteps, AddStorage, AddStore, EditCheck, EditLock, EditRecheck, EditStorageCheck,
       EditStorageWrite, UpdateStore, DeleteEntry, Inv, SInv, PcInv, StartPcs, BuildPcs, StopPcs
  <2> QED
    BY <2>1
<1> QED
  BY <1>1, <1>2, <1>3, <1>4, <1>5 DEF Working

LEMMA ContractProcess ==
  ASSUME Inv, RunInv, Process \/ Shutdown \/ Crash
  PROVE  Contract!Next \/ UNCHANGED Contract!vars
<1>1. CASE Boot
  <2>1. UNCHANGED <<obj, run, cancelled>> /\ phase = "down" /\ phase' = "boot"
    BY <1>1 DEF Boot, runtime
  <2>2. \A q \in Objs : Active(q)' <=> Active(q)
    BY <2>1 DEF Active
  <2>3. \A i \in Ids : ModeOf(i)' = ModeOf(i)
    BY <2>1, <2>2, SameModes
  <2>4. [i \in Ids |-> ModeOf(i)'] = [i \in Ids |-> ModeOf(i)]
    BY <2>3
  <2> QED
    BY <2>1, <2>4 DEF Contract!Next, Contract!Up
<1>2. CASE BootDone \/ Drained \/ Shutdown
  BY <1>2, ContractQuiet DEF BootDone, Drained, Shutdown, runtime
<1>3. ASSUME NEW i \in Ids, StopAllOne(i)
      PROVE  Contract!Next \/ UNCHANGED Contract!vars
  <2>1. pipes[i].c => pipes[i].p \in Objs
    BY UnitObjs DEF RunInv, NoUnit
  <2> QED
    BY <1>3, <2>1, ContractCancel DEF StopAllOne, Contract!Next
<1>4. ASSUME NEW x \in Callers, NEW i \in Ids, NEW o \in Objs, NEW m \in Mutexes,
             BootOne(x, i, o, m)
      PROVE  UNCHANGED Contract!vars
  <2>1. Create(o, i, stored[i]) /\ stored[i] \in Versions \cup {None} /\ UNCHANGED phase
    BY <1>4 DEF BootOne, RunInv, TypeInv, TypeOK
  <2> QED
    BY <2>1, ContractCreate DEF RunInv
<1>5. ASSUME Gone, phase # "down"
      PROVE  Contract!Next
  <2>1. \A i \in Ids : ModeOf(i)' = "idle"
    <3> SUFFICES ASSUME NEW i \in Ids PROVE ModeOf(i)' = "idle"
      OBVIOUS
    <3>1. {q \in Objs : Active(q)' /\ obj'[q].id = i} = {}
      BY <1>5 DEF Gone, NoRuns, Active
    <3> QED
      BY <3>1 DEF ModeOf
  <2>2. [i \in Ids |-> ModeOf(i)'] = [i \in Ids |-> "idle"]
    BY <2>1
  <2>3. (phase # "down") = TRUE /\ (phase' # "down") = FALSE
    BY <1>5 DEF Gone
  <2> QED
    BY <2>2, <2>3 DEF Contract!Next, Contract!Down, Contract!NothingRuns
<1> QED
  BY <1>1, <1>2, <1>3, <1>4, <1>5 DEF Process, Exit, Crash

\* Of clients that start and stop pipelines in parallel, through boots, crashes and
\* failures, each pipeline sees one run after the other, each ended by a cancel only.
THEOREM ContractCorrect ==
  ASSUME StartStopOnly
  PROVE  Spec => ContractSpec
<1>1. Init => Contract!Init
  <2> SUFFICES ASSUME Init PROVE Contract!Init
    OBVIOUS
  <2>1. \A i \in Ids : ModeOf(i) = "idle"
    <3>1. \A q \in Objs : ~Active(q)
      BY DEF Init, NoRuns, Active
    <3> QED
      BY <3>1, ModeIs
  <2>2. [i \in Ids |-> ModeOf(i)] = [i \in Ids |-> "idle"]
    BY <2>1
  <2>3. (phase # "down") = FALSE
    BY DEF Init
  <2> QED
    BY <2>2, <2>3 DEF Contract!Init, Contract!NothingRuns
<1>2. Inv /\ RunInv /\ [Next]_vars => [Contract!Next]_(Contract!vars)
  <2> SUFFICES ASSUME Inv, RunInv, [Next]_vars PROVE Contract!Next \/ UNCHANGED Contract!vars
    OBVIOUS
  <2>1. CASE UNCHANGED vars
    BY <2>1, ContractQuiet DEF vars, boot, runtime
  <2>2. CASE Process \/ Shutdown \/ Crash
    BY <2>2, ContractProcess
  <2>3. ASSUME NEW x \in Callers, Call(x) \/ Working(x)
        PROVE  Contract!Next \/ UNCHANGED Contract!vars
    BY <2>3, ContractCaller
  <2>4. ASSUME NEW o \in Objs, Goroutine(o)
        PROVE  Contract!Next \/ UNCHANGED Contract!vars
    BY <2>4, ContractGoroutine DEF Contract!Next
  <2> QED
    BY <2>1, <2>2, <2>3, <2>4 DEF Next
<1> QED
  BY <1>1, <1>2, InvCorrect, RunInvCorrect, PTL DEF Spec, ContractSpec, Contract!Spec

-----------------------------------------------------------------------------
(***************************************************************************)
(* One client, all operations: what runs is what the storage holds, and    *)
(* lock rows and runs go together.  The argument: the entry a call carries *)
(* is the registered one, since nobody else replaces it; a kept object,    *)
(* active and not cancelled, is the registered one of its pipeline, so an  *)
(* edit, which has found the registered object idle, touches none.  With   *)
(* two clients both fail: a start reads a configuration that an update     *)
(* replaces before the start takes the mutex.                              *)
(***************************************************************************)
OneClient == \A x, y \in Callers : x = y

\* Rows are removed at boot, and no release fails.
RowsCleaned == Migrate /\ "release" \notin Failures

Kept(o) == Active(o) /\ o \notin cancelled

\* The entry a call carries.
EntryOf(x) ==
  /\ pc[x] \in UnitPcs => pipes[id[x]] # NoUnit /\ unit[x] = pipes[id[x]]
  /\ pc[x] \in {"add_storage", "add_store"} => pipes[id[x]] = NoUnit

\* What a call knows of the object, of the storage and of the lock rows.
Knows(x) ==
  /\ pc[x] \in {"start_store", "edit_storage", "edit_write", "update_store", "delete_entry"} =>
       ~Active(unit[x].p)
  /\ pc[x] \in StartPcs => cfg[x] = stored[id[x]]
  /\ pc[x] \in BuildPcs => obj[unit[x].p].ver = stored[id[x]]
  /\ pc[x] = "launch" /\ Locking => id[x] \in lockRows
  /\ pc[x] = "stop_cancel" => unit[x].c \/ unit[x].p \in cancelled
  /\ pc[x] = "stop_release" => unit[x].p \in cancelled

CallerInv == \A x \in Callers : EntryOf(x) /\ Knows(x)

\* A kept object is registered, runs what is stored, and has its lock row.
KeepInv ==
  \A o \in Objs : Kept(o) =>
    /\ obj[o].id \in Ids
    /\ pipes[obj[o].id].p = o
    /\ pipes[obj[o].id].c
    /\ obj[o].ver = stored[obj[o].id]
    /\ Locking => obj[o].id \in lockRows

\* A row belongs to a kept object, or to a call that has just inserted it or is about
\* to remove it.
LeftInv ==
  RowsCleaned /\ phase # "down" =>
    \A i \in lockRows : \/ \E o \in Objs : Kept(o) /\ obj[o].id = i
                        \/ \E x \in Callers : id[x] = i /\ pc[x] \in {"launch", "stop_release"}

HomeInv == NameInv /\ CallerInv /\ KeepInv /\ LeftInv

OneInv == RunInv /\ PhaseInv /\ HomeInv

LEMMA OnePcs ==
  /\ UnitPcs \cap {"idle", "start_lookup", "add_storage", "add_store"} = {}
  /\ {"start_check", "start_lock", "start_recheck", "start_store"} \subseteq UnitPcs
  /\ {"stop_check", "stop_lock", "stop_recheck", "stop_cancel", "stop_release"} \subseteq UnitPcs
  /\ {"edit_check", "edit_lock", "edit_recheck", "edit_storage", "edit_write"} \subseteq UnitPcs
  /\ {"update_store", "delete_entry", "build", "building", "launch"} \subseteq UnitPcs
  /\ StartPcs = {"start_lookup", "start_check", "start_lock", "start_recheck", "start_store"}
  /\ BuildPcs = {"build", "building", "launch"}
  BY DEF UnitPcs, Pcs, StartPcs, BuildPcs, StopPcs, EditPcs

\* What a call carries, in types.
LEMMA OneCall ==
  ASSUME OneInv, NEW x \in Callers
  PROVE  /\ pc[x] # "idle" => id[x] \in Ids /\ cfg[x] \in Versions \cup {None}
         /\ pc[x] \in UnitPcs => /\ unit[x] \in Unit /\ unit[x].p \in Objs /\ unit[x].mu \in Mutexes
                                 /\ unit[x] = pipes[id[x]] /\ obj[unit[x].p].id = id[x]
<1>1. pc[x] # "idle" => id[x] \in Ids /\ cfg[x] \in Versions \cup {None}
  BY DEF OneInv, RunInv, TypeInv, TypeOK, CallOK
<1>2. ASSUME pc[x] \in UnitPcs
      PROVE  /\ unit[x] \in Unit /\ unit[x].p \in Objs /\ unit[x].mu \in Mutexes
             /\ unit[x] = pipes[id[x]] /\ obj[unit[x].p].id = id[x]
  <2>1. pc[x] # "idle"
    BY <1>2, OnePcs
  <2>2. unit[x] = pipes[id[x]] /\ pipes[id[x]] # NoUnit
    BY <1>2 DEF OneInv, HomeInv, CallerInv, EntryOf
  <2>3. pipes[id[x]] \in Unit
    BY <1>1, <2>1, <2>2 DEF OneInv, RunInv, TypeInv, TypeOK
  <2> QED
    BY <1>1, <2>1, <2>2, <2>3 DEF Unit, OneInv, HomeInv, NameInv
<1> QED
  BY <1>1, <1>2

\* A pipeline whose registered object is not active keeps nothing.
LEMMA FreeEntry ==
  ASSUME OneInv, NEW i \in Ids, pipes[i] = NoUnit \/ ~Active(pipes[i].p)
  PROVE  \A q \in Objs : Kept(q) => obj[q].id # i
<1> SUFFICES ASSUME NEW q \in Objs, Kept(q), obj[q].id = i PROVE FALSE
  OBVIOUS
<1>1. pipes[i].p = q
  BY DEF OneInv, HomeInv, KeepInv
<1>2. pipes[i] # NoUnit
  BY <1>1, NoUnitFields, ServiceAssumption
<1> QED
  BY <1>1, <1>2 DEF Kept

\* An object in state created or stopped is not active.
LEMMA IdleNotActive ==
  ASSUME RunInv, NEW o \in Objs, Idle(obj[o].state)
  PROVE  ~Active(o)
  BY DEF Idle, Active, RunInv, StateInv

LEMMA SameKept ==
  ASSUME UNCHANGED <<obj, run, cancelled>>
  PROVE  \A q : Kept(q)' <=> Kept(q)
  BY DEF Kept, Active

\* A step that leaves objects, registry and storage alone.
LEMMA QuietOne ==
  ASSUME OneClient, OneInv, NEW x \in Callers,
         UNCHANGED <<obj, run, cancelled, pipes, stored, lockRows, phase>>,
         pc[x] \notin {"launch", "stop_release"},
         EntryOf(x)', Knows(x)'
  PROVE  HomeInv'
<1>1. \A q \in Objs : Kept(q)' <=> Kept(q)
  BY SameKept
<1>2. NameInv'
  BY DEF OneInv, HomeInv, NameInv
<1>3. CallerInv'
  BY DEF OneClient, CallerInv
<1>4. KeepInv'
  BY <1>1 DEF OneInv, HomeInv, KeepInv
<1>5. LeftInv'
  BY <1>1 DEF OneClient, OneInv, HomeInv, LeftInv
<1> QED
  BY <1>2, <1>3, <1>4, <1>5 DEF HomeInv

\* A step that changes the entry or the configuration of a pipeline that keeps nothing.
LEMMA ChangeOne ==
  ASSUME OneClient, OneInv, NEW x \in Callers, NEW i \in Ids,
         pipes[i] = NoUnit \/ ~Active(pipes[i].p),
         \A q \in Objs : Kept(q)' <=> Kept(q),
         \A q \in Objs : Kept(q) => obj'[q] = obj[q],
         \A j \in Ids : j # i => pipes'[j] = pipes[j] /\ stored'[j] = stored[j],
         UNCHANGED <<lockRows, phase>>,
         pc[x] \notin {"launch", "stop_release"},
         NameInv', EntryOf(x)', Knows(x)'
  PROVE  HomeInv'
<1>1. \A q \in Objs : Kept(q) => obj[q].id # i
  BY FreeEntry
<1>2. CallerInv'
  BY DEF OneClient, CallerInv
<1>3. KeepInv'
  BY <1>1 DEF OneInv, HomeInv, KeepInv
<1>4. LeftInv'
  BY DEF OneClient, OneInv, HomeInv, LeftInv
<1> QED
  BY <1>2, <1>3, <1>4 DEF HomeInv

\* Calls that end.
LEMMA ReturnKnows ==
  ASSUME OneInv, NEW x \in Callers, Return(x)
  PROVE  EntryOf(x)' /\ Knows(x)'
<1>1. pc'[x] = "idle"
  BY ReturnFields DEF OneInv, RunInv
<1> QED
  BY <1>1, OnePcs DEF EntryOf, Knows

\* Calls that go on with the entry they have.
LEMMA GotoKnows ==
  ASSUME OneInv, NEW x \in Callers, NEW l, Goto(x, l),
         UNCHANGED <<obj, run, cancelled, pipes, stored, id, cfg, unit>>,
         pc[x] \in UnitPcs, l \notin BuildPcs \cup {"add_storage", "add_store", "stop_release"},
         l \in {"start_store", "edit_storage", "edit_write", "update_store", "delete_entry"} =>
           ~Active(unit[x].p),
         l \in StartPcs => pc[x] \in StartPcs,
         l = "stop_cancel" => unit[x].c \/ unit[x].p \in cancelled
  PROVE  EntryOf(x)' /\ Knows(x)'
<1>1. pc'[x] = l
  BY GotoFields DEF OneInv, RunInv
<1>2. EntryOf(x) /\ Knows(x)
  BY DEF OneInv, HomeInv, CallerInv
<1>3. EntryOf(x)'
  BY <1>1, <1>2 DEF EntryOf
<1>4. Active(unit[x].p)' <=> Active(unit[x].p)
  BY DEF Active
<1>5. Knows(x)'
  BY <1>1, <1>2, <1>4, OnePcs DEF Knows
<1> QED
  BY <1>3, <1>5

\* Steps that check a state: the call goes on or ends.
LEMMA CheckOne ==
  ASSUME OneClient, OneInv, NEW x \in Callers, NEW l,
         \/ Goto(x, l) /\ UNCHANGED <<mutex, id, cfg, unit>>
         \/ Return(x),
         UNCHANGED <<boot, storage, pipes, runtime>>,
         pc[x] \in UnitPcs, pc[x] \notin {"launch", "stop_release"},
         l \notin BuildPcs \cup {"add_storage", "add_store", "stop_release"},
         Goto(x, l) =>
           /\ l \in {"start_store", "edit_storage", "edit_write", "update_store", "delete_entry"} =>
                ~Active(unit[x].p)
           /\ l \in StartPcs => pc[x] \in StartPcs
           /\ l = "stop_cancel" => unit[x].c \/ unit[x].p \in cancelled
  PROVE  HomeInv'
<1>1. UNCHANGED <<obj, run, cancelled, pipes, stored, lockRows, phase>>
  BY DEF boot, storage, runtime
<1>2. EntryOf(x)' /\ Knows(x)'
  <2>1. CASE Return(x)
    BY <2>1, ReturnKnows
  <2>2. CASE Goto(x, l) /\ UNCHANGED <<mutex, id, cfg, unit>>
    BY <1>1, <2>2, GotoKnows
  <2> QED
    BY <2>1, <2>2
<1> QED
  BY <1>1, <1>2, QuietOne

\* Steps that register a new object for a pipeline that keeps nothing.
LEMMA NewOne ==
  ASSUME OneClient, OneInv, NEW x \in Callers, NEW o \in Objs, NEW i \in Ids,
         NEW v \in Versions \cup {None}, NEW u, u.p = o, u # NoUnit, Create(o, i, v),
         pipes' = [pipes EXCEPT ![i] = u],
         pipes[i] = NoUnit \/ ~Active(pipes[i].p),
         UNCHANGED <<stored, lockRows, phase>>,
         pc[x] \notin {"launch", "stop_release"},
         \/ pc'[x] = "idle"
         \/ /\ pc'[x] \in {"start_check", "build"} /\ id'[x] = i /\ unit'[x] = u
            /\ pc'[x] = "start_check" => cfg'[x] = stored[i]
            /\ pc'[x] = "build" => v = stored[i]
  PROVE  HomeInv'
<1>t. TypeInv
  BY DEF OneInv, RunInv
<1>1. /\ FreshObj(o) /\ run'[o] = "none" /\ o \notin cancelled'
      /\ obj'[o] = [id |-> i, ver |-> v, state |-> "created"]
      /\ \A q \in Objs : FreshObj(q) => run'[q] = "none"
      /\ \A q \in Objs : ~FreshObj(q) =>
           run'[q] = run[q] /\ obj'[q] = obj[q] /\ (q \in cancelled' <=> q \in cancelled)
      /\ \A j \in Ids : pipes[j] # NoUnit => pipes[j].p \in Objs /\ ~FreshObj(pipes[j].p)
  BY <1>t, CreateIs
<1>2. \A q \in Objs : FreshObj(q) => ~Active(q)
  BY DEF FreshObj, Active
<1> HIDE DEF FreshObj
<1>3. \A q \in Objs : Kept(q)' <=> Kept(q)
  BY <1>1, <1>2 DEF Kept, Active
<1>4. \A q \in Objs : Kept(q) => obj'[q] = obj[q]
  BY <1>1, <1>2 DEF Kept
<1>5. pipes'[i] = u /\ \A j \in Ids : j # i => pipes'[j] = pipes[j]
  BY <1>t DEF TypeInv, TypeOK
<1>6. NameInv'
  <2> SUFFICES ASSUME NEW j \in Ids, pipes'[j] # NoUnit PROVE obj'[pipes'[j].p].id = j
    BY DEF NameInv
  <2>1. CASE j = i
    BY <1>1, <1>5, <2>1
  <2>2. CASE j # i
    BY <1>1, <1>5, <2>2 DEF OneInv, HomeInv, NameInv
  <2> QED
    BY <2>1, <2>2
<1>7. EntryOf(x)'
  BY <1>5, OnePcs DEF EntryOf
<1>8. Knows(x)'
  BY <1>1, OnePcs DEF Knows
<1> QED
  BY <1>3, <1>4, <1>5, <1>6, <1>7, <1>8, ChangeOne

LEMMA StartPipelineOne ==
  ASSUME OneClient, OneInv, NEW x \in Callers, StartPipeline(x)
  PROVE  HomeInv'
<1>t. TypeInv /\ obj \in [Objs -> ObjType]
  BY DEF OneInv, RunInv, TypeInv, TypeOK, ObjType
<1>o. PICK o : o = unit[x].p
  OBVIOUS
<1>i. PICK i : i = id[x]
  OBVIOUS
<1>0. /\ pc[x] \in BuildPcs /\ i \in Ids /\ o \in Objs /\ run[o] = "none" /\ o \notin cancelled
      /\ unit[x] = pipes[i] /\ unit[x] \in Unit /\ obj[o].id = i /\ obj[o].ver = stored[i]
      /\ pipes[i] # NoUnit /\ UNCHANGED phase
  <2>1. pc[x] \in BuildPcs /\ i \in Ids
    BY <1>t, <1>i, StartPipelineIs
  <2>2. pc[x] \in UnitPcs /\ pc[x] # "idle"
    BY <2>1, PcSets
  <2>3. run[o] = "none"
    BY <1>o, <2>1 DEF OneInv, RunInv, OwnInv
  <2>4. o \notin cancelled
    BY <2>3 DEF OneInv, RunInv, RanInv
  <2>5. o \in Objs /\ unit[x] = pipes[i] /\ unit[x] \in Unit /\ obj[o].id = i
    BY <1>o, <1>i, <2>2, OneCall
  <2>6. obj[o].ver = stored[i] /\ pipes[i] # NoUnit
    BY <1>o, <1>i, <2>1, <2>2 DEF OneInv, HomeInv, CallerInv, Knows, EntryOf
  <2>7. UNCHANGED phase
    BY DEF StartPipeline, BuildBegin, BuildFail, Acquire, AcquireFail, Launch, boot
  <2> QED
    BY <2>1, <2>2, <2>3, <2>4, <2>5, <2>6, <2>7
<1>n. ~Active(pipes[i].p)
  BY <1>o, <1>0 DEF Active
\* A step that changes the state of the object only.
<1>s. ASSUME NEW s, SetState(o, s), UNCHANGED <<run, cancelled, pipes, stored, lockRows>>,
             pc[x] # "launch",
             pc'[x] = "idle" \/ (pc'[x] = "building" /\ id'[x] = i /\ UNCHANGED unit)
      PROVE  HomeInv'
  <2>1. \A q \in Objs : (q # o => obj'[q] = obj[q]) /\ obj'[q].id = obj[q].id /\ obj'[q].ver = obj[q].ver
    BY <1>t, <1>s DEF SetState, ObjType
  <2>2. \A q \in Objs : Kept(q) => q # o
    BY <1>0 DEF Kept, Active
  <2>3. \A q \in Objs : Kept(q)' <=> Kept(q)
    BY <1>s, <1>0, <2>1 DEF Kept, Active
  <2>4. NameInv'
    BY <1>t, <1>s, <2>1, UnitObjs DEF OneInv, HomeInv, NameInv
  <2>5. EntryOf(x)'
    BY <1>s, <1>0, OnePcs DEF EntryOf
  <2>6. Knows(x)'
    BY <1>s, <1>0, <1>o, <2>1, OnePcs DEF Knows
  <2>7. pc[x] # "stop_release"
    BY <1>0, OnePcs
  <2> QED
    BY <1>0, <1>n, <1>s, <2>1, <2>2, <2>3, <2>4, <2>5, <2>6, <2>7, ChangeOne
<1>1. CASE BuildBegin(x)
  BY <1>1, <1>s, <1>o, <1>i, <1>t, GotoFields DEF BuildBegin, storage
<1>2. CASE BuildFail(x)
  BY <1>2, <1>s, <1>o, <1>t, ReturnFields DEF BuildFail, BuildError, storage
<1>3. CASE AcquireFail(x)
  <2>1. EntryOf(x)' /\ Knows(x)'
    BY <1>3, ReturnKnows DEF AcquireFail
  <2>2. UNCHANGED <<obj, run, cancelled, pipes, stored, lockRows, phase>> /\ pc[x] = "building"
    BY <1>3 DEF AcquireFail, storage, runtime
  <2> QED
    BY <2>1, <2>2, QuietOne
<1>4. CASE Acquire(x)
  <2>1. /\ UNCHANGED <<obj, run, cancelled, pipes, stored, id, unit>> /\ pc'[x] = "launch"
        /\ lockRows' \subseteq lockRows \cup {i} /\ lockRows \subseteq lockRows'
        /\ Locking => i \in lockRows'
        /\ pc[x] = "building"
    BY <1>4, <1>i, <1>t, GotoFields DEF Acquire, runtime, LockKey
  <2>2. \A q \in Objs : Kept(q)' <=> Kept(q)
    BY <2>1, SameKept
  <2>3. NameInv'
    BY <2>1 DEF OneInv, HomeInv, NameInv
  <2>4. EntryOf(x)' /\ Knows(x)'
    BY <1>0, <1>o, <1>i, <2>1, OnePcs DEF EntryOf, Knows
  <2>5. CallerInv'
    BY <2>4 DEF OneClient, CallerInv
  <2>6. KeepInv'
    BY <2>1, <2>2 DEF OneInv, HomeInv, KeepInv
  <2>7. LeftInv'
    BY <1>0, <1>i, <2>1, <2>2 DEF OneClient, OneInv, HomeInv, LeftInv
  <2> QED
    BY <2>3, <2>5, <2>6, <2>7 DEF HomeInv
<1>5. CASE Launch(x)
  <2>1. /\ UNCHANGED <<obj, cancelled, stored, lockRows>> /\ pc[x] = "launch"
        /\ run'[o] = "live" /\ \A q \in Objs : q # o => run'[q] = run[q]
    BY <1>5, <1>o, <1>0, <1>t DEF Launch, storage, TypeInv, TypeOK
  <2>2. /\ \A j \in Ids : j # i => pipes'[j] = pipes[j]
        /\ pipes'[i].p = o /\ pipes'[i].c
    <3>1. WithCancel(unit[x]).p = o /\ WithCancel(unit[x]).c
      BY <1>0, <1>o DEF WithCancel, Unit
    <3>2. pipes' = [pipes EXCEPT ![i] = WithCancel(unit[x])]
      BY <1>5, <1>i DEF Launch
    <3> QED
      BY <1>0, <1>t, <3>1, <3>2 DEF TypeInv, TypeOK
  <2>3. obj[o].state = "building"
    BY <1>o, <1>0, <2>1 DEF OneInv, RunInv, OwnInv
  <2>4. \A q \in Objs : q # o => (Kept(q)' <=> Kept(q))
    BY <2>1 DEF Kept, Active
  <2>5. Kept(o)'
    BY <1>0, <2>1, <2>3 DEF Kept, Active
  <2>6. \A q \in Objs : Kept(q) => obj[q].id # i /\ q # o
    BY <1>0, <1>n, FreeEntry DEF Kept, Active
  <2>7. NameInv'
    BY <1>0, <2>1, <2>2 DEF OneInv, HomeInv, NameInv
  <2>8. Locking => i \in lockRows
    BY <1>i, <2>1 DEF OneInv, HomeInv, CallerInv, Knows
  <2>9. KeepInv'
    BY <1>0, <2>1, <2>2, <2>4, <2>6, <2>8 DEF OneInv, HomeInv, KeepInv
  <2>10. LeftInv'
    <3> SUFFICES ASSUME RowsCleaned, phase' # "down", NEW j \in lockRows
                 PROVE  \E q \in Objs : Kept(q)' /\ obj'[q].id = j
      BY <2>1 DEF LeftInv
    <3>1. \/ \E q \in Objs : Kept(q) /\ obj[q].id = j
          \/ \E y \in Callers : id[y] = j /\ pc[y] \in {"launch", "stop_release"}
      BY <1>0 DEF OneInv, HomeInv, LeftInv
    <3>2. CASE j = i
      BY <1>0, <2>1, <2>5, <3>2
    <3>3. CASE j # i
      BY <1>i, <2>1, <2>4, <2>6, <3>1, <3>3 DEF OneClient
    <3> QED
      BY <3>2, <3>3
  <2>11. EntryOf(x)' /\ Knows(x)'
    BY <1>5, ReturnKnows DEF Launch
  <2>12. CallerInv'
    BY <2>11 DEF OneClient, CallerInv
  <2> QED
    BY <2>7, <2>9, <2>10, <2>12 DEF HomeInv
<1> QED
  BY <1>1, <1>2, <1>3, <1>4, <1>5 DEF StartPipeline

LEMMA StartStepsOne ==
  ASSUME OneClient, OneInv, NEW x \in Callers, StartSteps(x)
  PROVE  HomeInv'
<1>t. TypeInv /\ RunInv
  BY DEF OneInv, RunInv
<1>k. EntryOf(x) /\ Knows(x)
  BY DEF OneInv, HomeInv, CallerInv
<1>i. PICK i : i = id[x]
  OBVIOUS
<1>v. PICK v : v = cfg[x]
  OBVIOUS
<1>0. pc[x] # "idle" => i \in Ids /\ v \in Versions \cup {None}
  BY <1>i, <1>v, OneCall
\* The registered entry is loaded.
<1>l. ASSUME NEW l \in {"start_check", "start_recheck"}, Goto(x, l), pc[x] \in StartPcs,
             unit' = [unit EXCEPT ![x] = pipes[id[x]]], pipes[id[x]] # NoUnit,
             UNCHANGED <<boot, storage, pipes, runtime, id, cfg>>
      PROVE  HomeInv'
  <2>1. pc'[x] = l /\ unit'[x] = pipes[id[x]]
    BY <1>l, <1>t, GotoFields DEF TypeInv, TypeOK
  <2>2. EntryOf(x)' /\ Knows(x)'
    BY <1>k, <1>l, <2>1, OnePcs DEF EntryOf, Knows, storage
  <2>3. UNCHANGED <<obj, run, cancelled, pipes, stored, lockRows, phase>>
    BY <1>l DEF boot, storage, runtime
  <2> QED
    BY <1>l, <2>2, <2>3, QuietOne, OnePcs
<1>1. CASE StartLoad(x)
  BY <1>1, <1>l, OnePcs DEF StartLoad
<1>2. CASE StartCheck(x)
  BY <1>2, CheckOne, OnePcs DEF StartCheck
<1>3. CASE StartLock(x)
  BY <1>3, <1>l, OnePcs DEF StartLock, Reload
<1>4. CASE StartPanic(x)
  <2>1. EntryOf(x)' /\ Knows(x)'
    BY <1>4, ReturnKnows DEF StartPanic
  <2>2. UNCHANGED <<obj, run, cancelled, pipes, stored, lockRows, phase>> /\ pc[x] = "start_lock"
    BY <1>4 DEF StartPanic, boot, storage, runtime
  <2> QED
    BY <2>1, <2>2, QuietOne
<1>5. CASE StartRecheck(x)
  <2>1. unit[x].p \in Objs
    BY <1>5, OneCall, OnePcs DEF StartRecheck
  <2>2. Idle(State(unit[x])) => ~Active(unit[x].p)
    BY <1>t, <2>1, IdleNotActive DEF State
  <2>3. pc[x] = "start_recheck" /\ UNCHANGED <<boot, storage, pipes, runtime>>
    BY <1>5 DEF StartRecheck
  <2>4. \/ Idle(State(unit[x])) /\ Goto(x, "start_store") /\ UNCHANGED <<mutex, id, cfg, unit>>
        \/ Return(x)
    BY <1>5 DEF StartRecheck
  <2>5. Goto(x, "start_store") => ~Return(x)
    BY <1>t, GotoFields, ReturnFields
  <2> QED
    BY <2>2, <2>3, <2>4, <2>5, CheckOne, OnePcs
<1>6. ASSUME NEW o \in Objs, StartStore(x, o)
      PROVE  HomeInv'
  <2>u. PICK u : u = [p |-> o, mu |-> unit[x].mu, c |-> FALSE]
    OBVIOUS
  <2>1. pc[x] = "start_store" /\ Create(o, i, v) /\ pipes' = [pipes EXCEPT ![i] = u]
        /\ unit' = [unit EXCEPT ![x] = u] /\ Goto(x, "build")
        /\ UNCHANGED <<stored, lockRows, phase, id>>
    BY <1>6, <1>i, <1>v, <2>u DEF StartStore, storage, boot
  <2>2. i \in Ids /\ v \in Versions \cup {None}
    BY <1>0, <2>1
  <2>3. unit[x].mu \in Mutexes /\ unit[x] = pipes[i]
    BY <1>i, <2>1, OneCall, OnePcs
  <2>4. u \in Unit /\ u.p = o
    BY <2>u, <2>3 DEF Unit
  <2>5. ~Active(pipes[i].p) /\ v = stored[i]
    BY <1>k, <1>i, <1>v, <2>1, <2>3, OnePcs DEF Knows
  <2>6. pc'[x] = "build" /\ unit'[x] = u /\ id'[x] = i
    BY <1>t, <1>i, <2>1, GotoFields DEF TypeInv, TypeOK
  <2>7. u # NoUnit
    BY <2>4, NoUnitFields
  <2> QED
    BY <2>1, <2>2, <2>4, <2>5, <2>6, <2>7, NewOne
<1>7. ASSUME NEW o \in Objs, NEW m \in Mutexes, StartLoadNew(x, o, m)
      PROVE  HomeInv'
  <2>u. PICK u : u = [p |-> o, mu |-> m, c |-> FALSE]
    OBVIOUS
  <2>1. pc[x] = "start_lookup" /\ Create(o, i, v) /\ pipes' = [pipes EXCEPT ![i] = u]
        /\ unit' = [unit EXCEPT ![x] = u] /\ Goto(x, "start_check") /\ pipes[i] = NoUnit
        /\ UNCHANGED <<stored, lockRows, phase, id, cfg>>
    BY <1>7, <1>i, <1>v, <2>u DEF StartLoadNew, storage, boot
  <2>2. i \in Ids /\ v \in Versions \cup {None}
    BY <1>0, <2>1
  <2>4. u \in Unit /\ u.p = o
    BY <2>u DEF Unit
  <2>5. v = stored[i]
    BY <1>k, <1>i, <1>v, <2>1, OnePcs DEF Knows
  <2>6. pc'[x] = "start_check" /\ unit'[x] = u /\ id'[x] = i /\ cfg'[x] = stored[i]
    BY <1>t, <1>i, <1>v, <2>1, <2>5, GotoFields DEF TypeInv, TypeOK
  <2>7. u # NoUnit
    BY <2>4, NoUnitFields
  <2> QED
    BY <2>1, <2>2, <2>4, <2>6, <2>7, NewOne
<1> QED
  BY <1>1, <1>2, <1>3, <1>4, <1>5, <1>6, <1>7 DEF StartSteps

\* An entry whose object runs can cancel it.
LEMMA RunningCancels ==
  ASSUME OneInv, NEW x \in Callers, pc[x] \in UnitPcs, State(unit[x]) = "running"
  PROVE  unit[x].c \/ unit[x].p \in cancelled
<1>1. unit[x].p \in Objs /\ unit[x] = pipes[id[x]] /\ obj[unit[x].p].id = id[x]
  BY OneCall
<1>2. Active(unit[x].p)
  BY <1>1 DEF State, Active, OneInv, RunInv, StateInv, Started
<1> QED
  BY <1>1, <1>2 DEF Kept, OneInv, HomeInv, KeepInv

LEMMA StopStepsOne ==
  ASSUME OneClient, OneInv, NEW x \in Callers, StopSteps(x)
  PROVE  HomeInv'
<1>t. TypeInv /\ RunInv
  BY DEF OneInv, RunInv
<1>k. EntryOf(x) /\ Knows(x)
  BY DEF OneInv, HomeInv, CallerInv
<1>i. PICK i : i = id[x]
  OBVIOUS
<1>o. PICK o : o = unit[x].p
  OBVIOUS
<1>0. pc[x] \in UnitPcs => /\ i \in Ids /\ o \in Objs /\ obj[o].id = i /\ unit[x] = pipes[i]
  BY <1>i, <1>o, OneCall, OnePcs
<1>1. CASE StopCheck(x)
  BY <1>1, CheckOne, OnePcs DEF StopCheck
<1>2. CASE StopLock(x)
  <2>1. EntryOf(x)' /\ Knows(x)'
    BY <1>2, GotoKnows, OnePcs DEF StopLock, storage, runtime
  <2>2. UNCHANGED <<obj, run, cancelled, pipes, stored, lockRows, phase>> /\ pc[x] = "stop_lock"
    BY <1>2 DEF StopLock, boot, storage, runtime
  <2> QED
    BY <2>1, <2>2, QuietOne
<1>3. CASE StopRecheck(x)
  <2>1. State(unit[x]) = "running" => unit[x].c \/ unit[x].p \in cancelled
    BY <1>3, RunningCancels, OnePcs DEF StopRecheck
  <2>2. pc[x] = "stop_recheck" /\ UNCHANGED <<boot, storage, pipes, runtime>>
    BY <1>3 DEF StopRecheck
  <2>3. \/ State(unit[x]) = "running" /\ Goto(x, "stop_cancel") /\ UNCHANGED <<mutex, id, cfg, unit>>
        \/ Return(x)
    BY <1>3 DEF StopRecheck
  <2>4. Goto(x, "stop_cancel") => ~Return(x)
    BY <1>t, GotoFields, ReturnFields
  <2> QED
    BY <2>1, <2>2, <2>3, <2>4, CheckOne, OnePcs
<1>4. CASE StopCancel(x)
  <2>1. /\ pc[x] = "stop_cancel" /\ pc'[x] = "stop_release"
        /\ UNCHANGED <<obj, run, pipes, stored, lockRows, phase, id, cfg, unit>>
    BY <1>4, <1>t, GotoFields DEF StopCancel, storage, boot
  <2>2. cancelled \subseteq cancelled' /\ cancelled' \subseteq cancelled \cup {o} /\ o \in cancelled'
    BY <1>4, <1>k, <1>o, <2>1 DEF StopCancel, Cancelling, Knows
  <2>3. \A q \in Objs : Kept(q)' <=> Kept(q) /\ q # o
    BY <2>1, <2>2 DEF Kept, Active
  <2>4. EntryOf(x)' /\ Knows(x)'
    BY <1>k, <1>o, <2>1, <2>2, OnePcs DEF EntryOf, Knows
  <2>5. CallerInv'
    BY <2>4 DEF OneClient, CallerInv
  <2>6. NameInv'
    BY <2>1 DEF OneInv, HomeInv, NameInv
  <2>7. KeepInv'
    BY <2>1, <2>3 DEF OneInv, HomeInv, KeepInv
  <2>8. obj[o].id = i
    BY <1>0, <2>1, OnePcs
  <2>9. LeftInv'
    BY <1>i, <2>1, <2>3, <2>8 DEF OneClient, OneInv, HomeInv, LeftInv
  <2> QED
    BY <2>5, <2>6, <2>7, <2>9 DEF HomeInv
<1>5. CASE StopRelease(x)
  <2>1. /\ pc[x] = "stop_release"
        /\ UNCHANGED <<obj, run, cancelled, pipes, stored, phase>>
        /\ lockRows' = lockRows \ {i} \/ (~RowsCleaned /\ UNCHANGED lockRows)
    BY <1>5, <1>i DEF StopRelease, runtime, boot, RowsCleaned
  <2>2. \A q \in Objs : Kept(q)' <=> Kept(q)
    BY <2>1, SameKept
  <2>3. o \in cancelled /\ pipes[i].p = o
    BY <1>k, <1>0, <1>o, <2>1, OnePcs DEF Knows
  <2>4. \A q \in Objs : Kept(q) => obj[q].id # i
    BY <2>3 DEF OneInv, HomeInv, KeepInv, Kept
  <2>5. NameInv'
    BY <2>1 DEF OneInv, HomeInv, NameInv
  <2>6. KeepInv'
    BY <2>1, <2>2, <2>4 DEF OneInv, HomeInv, KeepInv
  <2>7. LeftInv'
    BY <1>i, <2>1, <2>2 DEF OneClient, OneInv, HomeInv, LeftInv
  <2>8. EntryOf(x)' /\ Knows(x)'
    BY <1>5, ReturnKnows DEF StopRelease
  <2>9. CallerInv'
    BY <2>8 DEF OneClient, CallerInv
  <2> QED
    BY <2>5, <2>6, <2>7, <2>9 DEF HomeInv
<1> QED
  BY <1>1, <1>2, <1>3, <1>4, <1>5 DEF StopSteps

LEMMA EditStepsOne ==
  ASSUME OneClient, OneInv, NEW x \in Callers, EditSteps(x)
  PROVE  HomeInv'
<1>t. TypeInv /\ RunInv
  BY DEF OneInv, RunInv
<1>k. EntryOf(x) /\ Knows(x)
  BY DEF OneInv, HomeInv, CallerInv
<1>i. PICK i : i = id[x]
  OBVIOUS
<1>v. PICK v : v = cfg[x]
  OBVIOUS
<1>0. /\ pc[x] # "idle" => i \in Ids /\ v \in Versions \cup {None}
      /\ pc[x] \in UnitPcs => unit[x] = pipes[i] /\ unit[x].p \in Objs /\ unit[x].mu \in Mutexes
  BY <1>i, <1>v, OneCall
\* A new configuration is stored.
<1>w. ASSUME pc[x] \in {"add_storage", "edit_write"}, pipes[i] = NoUnit \/ ~Active(pipes[i].p),
             stored' = [stored EXCEPT ![i] = v], NEW l \in {"add_store", "delete_entry", "update_store"},
             Goto(x, l), l = "add_store" <=> pc[x] = "add_storage",
             UNCHANGED <<phase, lockRows, pipes, runtime, id, cfg, unit>>
      PROVE  HomeInv'
  <2>1. i \in Ids /\ \A j \in Ids : j # i => stored'[j] = stored[j]
    BY <1>0, <1>t, <1>w DEF TypeInv, TypeOK
  <2>2. UNCHANGED <<obj, run, cancelled>> /\ \A q \in Objs : Kept(q)' <=> Kept(q)
    BY <1>w, SameKept DEF runtime
  <2>3. NameInv'
    BY <1>w, <2>2 DEF OneInv, HomeInv, NameInv
  <2>4. pc'[x] = l
    BY <1>t, <1>w, GotoFields
  <2>5. EntryOf(x)'
    BY <1>k, <1>w, <2>4, OnePcs DEF EntryOf
  <2>6. Knows(x)'
    BY <1>k, <1>w, <2>2, <2>4, OnePcs DEF Knows, Active
  <2>7. pc[x] \notin {"launch", "stop_release"} /\ UNCHANGED <<lockRows, phase>>
        /\ \A q \in Objs : Kept(q) => obj'[q] = obj[q]
    BY <1>w, <2>2
  <2>8. \A j \in Ids : j # i => pipes'[j] = pipes[j] /\ stored'[j] = stored[j]
    BY <1>w, <2>1
  <2> QED
    BY <1>w, <2>1, <2>2, <2>3, <2>5, <2>6, <2>7, <2>8, ChangeOne
<1>1. CASE AddStorage(x)
  <2>1. CASE Return(x) /\ UNCHANGED stored
    <3>1. EntryOf(x)' /\ Knows(x)'
      BY <2>1, ReturnKnows
    <3>2. UNCHANGED <<obj, run, cancelled, pipes, stored, lockRows, phase>> /\ pc[x] = "add_storage"
      BY <1>1, <2>1 DEF AddStorage, boot, runtime
    <3> QED
      BY <3>1, <3>2, QuietOne
  <2>2. CASE stored' = [stored EXCEPT ![id[x]] = cfg[x]] /\ Goto(x, "add_store")
             /\ UNCHANGED <<mutex, id, cfg, unit>>
    <3>1. pc[x] = "add_storage" /\ UNCHANGED <<phase, lockRows, pipes, runtime>>
      BY <1>1 DEF AddStorage, boot
    <3>2. pipes[i] = NoUnit
      BY <1>k, <1>i, <3>1 DEF EntryOf
    <3> QED
      BY <1>i, <1>v, <1>w, <2>2, <3>1, <3>2
  <2> QED
    BY <1>1, <2>1, <2>2 DEF AddStorage
<1>2. CASE EditCheck(x)
  BY <1>2, CheckOne, OnePcs DEF EditCheck
<1>3. CASE EditLock(x)
  <2>1. EntryOf(x)' /\ Knows(x)'
    BY <1>3, GotoKnows, OnePcs DEF EditLock, storage, runtime
  <2>2. UNCHANGED <<obj, run, cancelled, pipes, stored, lockRows, phase>> /\ pc[x] = "edit_lock"
    BY <1>3 DEF EditLock, boot, storage, runtime
  <2> QED
    BY <2>1, <2>2, QuietOne
<1>4. CASE EditRecheck(x)
  <2>1. unit[x].p \in Objs
    BY <1>4, OneCall, OnePcs DEF EditRecheck
  <2>2. Idle(State(unit[x])) => ~Active(unit[x].p)
    BY <1>t, <2>1, IdleNotActive DEF State
  <2>3. pc[x] = "edit_recheck" /\ UNCHANGED <<boot, storage, pipes, runtime>>
    BY <1>4 DEF EditRecheck
  <2>4. \/ Idle(State(unit[x])) /\ Goto(x, "edit_storage") /\ UNCHANGED <<mutex, id, cfg, unit>>
        \/ Return(x)
    BY <1>4 DEF EditRecheck
  <2>5. Goto(x, "edit_storage") => ~Return(x)
    BY <1>t, GotoFields, ReturnFields
  <2> QED
    BY <2>2, <2>3, <2>4, <2>5, CheckOne, OnePcs
<1>5. CASE EditStorageCheck(x)
  <2>1. pc[x] = "edit_storage" /\ UNCHANGED <<boot, storage, pipes, runtime>>
    BY <1>5 DEF EditStorageCheck
  <2>2. \/ Goto(x, "edit_write") /\ UNCHANGED <<mutex, id, cfg, unit>>
        \/ Return(x)
    BY <1>5 DEF EditStorageCheck
  <2>3. ~Active(unit[x].p)
    BY <1>k, <2>1 DEF Knows
  <2> QED
    BY <2>1, <2>2, <2>3, CheckOne, OnePcs
<1>6. CASE EditStorageWrite(x)
  <2>1. PICK l : l = IF cfg[x] = None THEN "delete_entry" ELSE "update_store"
    OBVIOUS
  <2>2. /\ pc[x] = "edit_write" /\ Goto(x, l) /\ l \in {"delete_entry", "update_store"}
        /\ stored' = [stored EXCEPT ![i] = v]
        /\ UNCHANGED <<phase, lockRows, pipes, runtime, id, cfg, unit>>
    BY <1>6, <1>i, <1>v, <2>1 DEF EditStorageWrite, boot
  <2>3. ~Active(pipes[i].p)
    BY <1>k, <1>0, <2>2, OnePcs DEF Knows
  <2> QED
    BY <1>w, <2>2, <2>3
<1>7. CASE DeleteEntry(x)
  <2>1. /\ pc[x] = "delete_entry" /\ pipes' = [pipes EXCEPT ![i] = NoUnit]
        /\ UNCHANGED <<obj, run, cancelled, stored, lockRows, phase>>
    BY <1>7, <1>i DEF DeleteEntry, boot, storage, runtime
  <2>2. i \in Ids /\ pipes'[i] = NoUnit /\ \A j \in Ids : j # i => pipes'[j] = pipes[j]
    BY <1>0, <1>t, <2>1 DEF TypeInv, TypeOK
  <2>3. ~Active(pipes[i].p)
    BY <1>k, <1>0, <2>1, OnePcs DEF Knows
  <2>4. \A q \in Objs : Kept(q)' <=> Kept(q)
    BY <2>1, SameKept
  <2>5. NameInv'
    BY <2>1, <2>2 DEF OneInv, HomeInv, NameInv
  <2>6. EntryOf(x)' /\ Knows(x)'
    BY <1>7, ReturnKnows DEF DeleteEntry
  <2> QED
    BY <2>1, <2>2, <2>3, <2>4, <2>5, <2>6, ChangeOne
\* A new object for the configuration just stored.
<1>n. ASSUME NEW o \in Objs, NEW mu \in Mutexes, Create(o, i, v),
             pipes' = [pipes EXCEPT ![i] = [p |-> o, mu |-> mu, c |-> FALSE]], Return(x),
             pipes[i] = NoUnit \/ ~Active(pipes[i].p), UNCHANGED <<boot, storage>>,
             pc[x] \in {"add_store", "update_store"}
      PROVE  HomeInv'
  <2>u. PICK u : u = [p |-> o, mu |-> mu, c |-> FALSE]
    OBVIOUS
  <2>1. u.p = o /\ u \in Unit /\ pipes' = [pipes EXCEPT ![i] = u]
    BY <1>n, <2>u DEF Unit
  <2>2. u # NoUnit
    BY <2>1, NoUnitFields
  <2>3. pc'[x] = "idle"
    BY <1>t, <1>n, ReturnFields
  <2>4. i \in Ids /\ v \in Versions \cup {None}
    BY <1>0, <1>n
  <2>5. UNCHANGED <<stored, lockRows, phase>>
    BY <1>n DEF boot, storage
  <2>6. Create(o, i, v) /\ pc[x] \notin {"launch", "stop_release"}
        /\ (pipes[i] = NoUnit \/ ~Active(pipes[i].p))
    BY <1>n
  <2> QED
    BY <2>1, <2>2, <2>3, <2>4, <2>5, <2>6, NewOne
<1>8. ASSUME NEW o \in Objs, UpdateStore(x, o)
      PROVE  HomeInv'
  <2>1. PICK mu : mu = unit[x].mu
    OBVIOUS
  <2>2. pc[x] = "update_store" /\ pc[x] \in UnitPcs
    BY <1>8, OnePcs DEF UpdateStore
  <2>3. mu \in Mutexes /\ ~Active(pipes[i].p)
    BY <1>k, <1>0, <2>1, <2>2 DEF Knows
  <2>4. Create(o, i, v) /\ pipes' = [pipes EXCEPT ![i] = [p |-> o, mu |-> mu, c |-> FALSE]]
        /\ Return(x) /\ UNCHANGED <<boot, storage>>
    BY <1>8, <1>i, <1>v, <2>1 DEF UpdateStore
  <2> QED
    BY <1>n, <2>2, <2>3, <2>4
<1>9. ASSUME NEW o \in Objs, NEW m \in Mutexes, AddStore(x, o, m)
      PROVE  HomeInv'
  <2>1. pc[x] = "add_store"
    BY <1>9 DEF AddStore
  <2>2. pipes[i] = NoUnit
    BY <1>k, <1>i, <2>1 DEF EntryOf
  <2>3. Create(o, i, v) /\ pipes' = [pipes EXCEPT ![i] = [p |-> o, mu |-> m, c |-> FALSE]]
        /\ Return(x) /\ UNCHANGED <<boot, storage>>
    BY <1>9, <1>i, <1>v DEF AddStore
  <2> QED
    BY <1>n, <2>1, <2>2, <2>3
<1> QED
  BY <1>1, <1>2, <1>3, <1>4, <1>5, <1>6, <1>7, <1>8, <1>9 DEF EditSteps

LEMMA CallOne ==
  ASSUME OneClient, OneInv, NEW x \in Callers, Call(x)
  PROVE  HomeInv'
<1>t. TypeInv
  BY DEF OneInv, RunInv
<1> SUFFICES ASSUME NEW i \in Ids,
                    \/ StartCall(x, i) \/ StopCall(x, i)
                    \/ \E v \in Versions : AddCall(x, i, v)
                    \/ \E v \in Versions \cup {None} : EditCall(x, i, v)
             PROVE  HomeInv'
  BY DEF Call
<1>0. UNCHANGED <<obj, run, cancelled, pipes, stored, lockRows, phase>> /\ pc[x] = "idle"
      /\ id'[x] = i
  BY <1>t DEF StartCall, StopCall, AddCall, EditCall, CanCall, Idling, boot, storage, runtime, TypeInv, TypeOK
<1>1. CASE StartCall(x, i)
  <2>1. pc'[x] = "start_lookup" /\ cfg'[x] = stored[i]
    BY <1>1, <1>t, GotoFields DEF StartCall, TypeInv, TypeOK
  <2>2. EntryOf(x)' /\ Knows(x)'
    BY <1>0, <2>1, OnePcs DEF EntryOf, Knows
  <2> QED
    BY <1>0, <2>2, QuietOne
<1>2. CASE StopCall(x, i) \/ \E v \in Versions \cup {None} : EditCall(x, i, v)
  <2>1. pc'[x] \in {"stop_check", "edit_check"} /\ unit'[x] = pipes[i] /\ pipes[i] # NoUnit
    BY <1>2, <1>t, GotoFields DEF StopCall, EditCall, TypeInv, TypeOK
  <2>2. EntryOf(x)' /\ Knows(x)'
    BY <1>0, <2>1, OnePcs DEF EntryOf, Knows
  <2> QED
    BY <1>0, <2>2, QuietOne
<1>3. CASE \E v \in Versions : AddCall(x, i, v)
  <2>1. pc'[x] = "add_storage" /\ pipes[i] = NoUnit
    BY <1>3, <1>t, GotoFields DEF AddCall
  <2>2. EntryOf(x)' /\ Knows(x)'
    BY <1>0, <2>1, OnePcs DEF EntryOf, Knows
  <2> QED
    BY <1>0, <2>2, QuietOne
<1> QED
  BY <1>1, <1>2, <1>3

LEMMA GoroutineOne ==
  ASSUME OneClient, OneInv, NEW o \in Objs, Goroutine(o)
  PROVE  HomeInv'
<1>t. obj \in [Objs -> ObjType] /\ TypeInv
  BY DEF OneInv, RunInv, TypeInv, TypeOK, ObjType
<1>0. UNCHANGED <<pipes, cancelled, stored, lockRows, phase, pc, id, cfg, unit>> /\ run[o] = "live"
  BY DEF Goroutine, RunStarting, RunRunning, RunStopping, RunStopped, RunTo, RunClosed, caller, boot, storage
<1>1. /\ \A q \in Objs : obj'[q].id = obj[q].id /\ obj'[q].ver = obj[q].ver
      /\ \A q \in Objs : Active(q)' => Active(q)
      /\ \A q \in Objs : Kept(q)' <=> Kept(q)
  <2>1. ASSUME NEW from \in {"building", "starting", "running", "stopping"},
               NEW to \in {"starting", "running", "stopping", "stopped"}, RunTo(o, from, to),
               to = "stopped" => from = "stopping"
        PROVE  /\ \A q \in Objs : obj'[q].id = obj[q].id /\ obj'[q].ver = obj[q].ver
               /\ \A q \in Objs : Active(q)' => Active(q)
               /\ \A q \in Objs : Kept(q)' <=> Kept(q)
    <3>1. /\ \A q \in Objs : q # o => obj'[q] = obj[q]
          /\ \A q \in Objs : obj'[q].id = obj[q].id /\ obj'[q].ver = obj[q].ver
          /\ obj'[o].state = to /\ obj[o].state = from /\ UNCHANGED run
      BY <1>t, <2>1 DEF RunTo, SetState, ObjType
    <3>2. \A q \in Objs : Active(q)' => Active(q)
      BY <2>1, <3>1 DEF Active
    <3>3. to = "stopped" => o \in cancelled
      BY <2>1, <3>1 DEF OneInv, RunInv, StateInv
    <3>4. \A q \in Objs : Kept(q)' <=> Kept(q)
      BY <1>0, <2>1, <3>1, <3>3 DEF Kept, Active
    <3> QED
      BY <3>1, <3>2, <3>4
  <2>2. CASE RunClosed(o)
    <3>1. /\ UNCHANGED obj /\ obj[o].state = "stopped"
          /\ \A q \in Objs : q # o => run'[q] = run[q]
      BY <1>t, <2>2 DEF RunClosed, TypeInv, TypeOK
    <3> QED
      BY <1>0, <3>1 DEF Kept, Active
  <2> QED
    BY <2>1, <2>2 DEF Goroutine, RunStarting, RunRunning, RunStopping, RunStopped
<1>2. NameInv'
  BY <1>t, <1>0, <1>1, UnitObjs DEF OneInv, HomeInv, NameInv
<1>3. CallerInv'
  <2> SUFFICES ASSUME NEW x \in Callers PROVE EntryOf(x)' /\ Knows(x)'
    BY DEF CallerInv
  <2>1. EntryOf(x) /\ Knows(x)
    BY DEF OneInv, HomeInv, CallerInv
  <2>2. pc[x] \in UnitPcs => unit[x].p \in Objs
    BY OneCall
  <2>3. EntryOf(x)'
    BY <1>0, <2>1 DEF EntryOf
  <2>4. pc[x] \in UnitPcs => (Active(unit[x].p)' => Active(unit[x].p))
    <3>1. PICK p : p = unit[x].p
      OBVIOUS
    <3>2. pc[x] \in UnitPcs => (Active(p)' => Active(p))
      BY <1>1, <2>2, <3>1
    <3>3. UNCHANGED unit
      BY <1>0
    <3> QED
      BY <3>1, <3>2, <3>3 DEF Active
  <2>5. Knows(x)'
    BY <1>0, <1>1, <2>1, <2>2, <2>4, OnePcs DEF Knows
  <2> QED
    BY <2>3, <2>5
<1>4. KeepInv'
  BY <1>0, <1>1 DEF OneInv, HomeInv, KeepInv
<1>5. LeftInv'
  BY <1>0, <1>1 DEF OneInv, HomeInv, LeftInv
<1> QED
  BY <1>2, <1>3, <1>4, <1>5 DEF HomeInv

LEMMA ProcessOne ==
  ASSUME OneClient, OneInv, Process \/ Shutdown \/ Crash
  PROVE  HomeInv'
<1>t. TypeInv
  BY DEF OneInv, RunInv
\* Nothing but phase and rows changes.
<1>s. ASSUME UNCHANGED <<obj, run, cancelled, pipes, stored, pc, id, cfg, unit>>,
             \/ lockRows' = lockRows
             \/ phase = "down" /\ (\A q \in Objs : ~Kept(q)) /\ \A x \in Callers : pc[x] = "idle",
             phase = "down" /\ RowsCleaned => lockRows' = {}
      PROVE  HomeInv'
  <2>1. \A q : Kept(q)' <=> Kept(q)
    BY <1>s, SameKept
  <2>2. NameInv'
    BY <1>s DEF OneInv, HomeInv, NameInv
  <2>3. CallerInv'
    <3> SUFFICES ASSUME NEW x \in Callers PROVE EntryOf(x)' /\ Knows(x)'
      BY DEF CallerInv
    <3>1. EntryOf(x) /\ Knows(x)
      BY DEF OneInv, HomeInv, CallerInv
    <3> QED
      BY <1>s, <3>1 DEF EntryOf, Knows, Active
  <2>4. KeepInv'
    BY <1>s, <2>1 DEF OneInv, HomeInv, KeepInv
  <2>5. LeftInv'
    BY <1>s, <2>1 DEF OneInv, HomeInv, LeftInv
  <2> QED
    BY <2>2, <2>3, <2>4, <2>5 DEF HomeInv
<1>1. CASE Boot
  <2>1. /\ UNCHANGED <<obj, run, cancelled, pipes, stored, pc, id, cfg, unit>> /\ phase = "down"
        /\ Migrate => lockRows' = {}
    BY <1>1 DEF Boot, BootLocks, runtime, caller
  <2>2. \A q \in Objs : ~Kept(q)
    <3>1. \A i \in Ids : pipes[i] = NoUnit
      BY <2>1 DEF OneInv, PhaseInv
    <3> QED
      BY <3>1, NoUnitFields, ServiceAssumption DEF OneInv, HomeInv, KeepInv
  <2>3. \A x \in Callers : pc[x] = "idle"
    BY <2>1 DEF OneInv, PhaseInv
  <2> QED
    BY <1>s, <2>1, <2>2, <2>3 DEF RowsCleaned
<1>2. CASE BootDone \/ Drained \/ Shutdown
  <2>1. UNCHANGED <<obj, run, cancelled, pipes, stored, lockRows, pc, id, cfg, unit>> /\ phase # "down"
    BY <1>2 DEF BootDone, Drained, Shutdown, runtime, caller, storage
  <2> QED
    BY <1>s, <2>1
<1>3. ASSUME NEW i \in Ids, StopAllOne(i)
      PROVE  HomeInv'
  <2>1. /\ UNCHANGED <<obj, run, pipes, stored, phase, pc, id, cfg, unit>> /\ phase = "stopall"
        /\ lockRows' = lockRows \ {i} \/ (~RowsCleaned /\ UNCHANGED lockRows)
        /\ cancelled' = cancelled \cup Cancelling(pipes[i])
    BY <1>3 DEF StopAllOne, RowsCleaned, caller
  <2>2. \A x \in Callers : pc[x] = "idle"
    BY <2>1 DEF OneInv, PhaseInv
  <2>3. \A q \in Objs : Kept(q)' => Kept(q) /\ obj[q].id # i
    <3>1. \A q \in Objs : Kept(q)' => Kept(q) /\ q \notin Cancelling(pipes[i])
      BY <2>1 DEF Kept, Active
    <3>2. \A q \in Objs : Kept(q) /\ obj[q].id = i => q \in Cancelling(pipes[i])
      BY DEF OneInv, HomeInv, KeepInv, Cancelling
    <3> QED
      BY <3>1, <3>2
  <2>4. \A q \in Objs : Kept(q) /\ obj[q].id # i => Kept(q)'
    <3>1. \A q \in Cancelling(pipes[i]) : obj[q].id = i
      <4> SUFFICES ASSUME NEW q \in Cancelling(pipes[i]) PROVE obj[q].id = i
        OBVIOUS
      <4>1. q = pipes[i].p /\ pipes[i].c
        BY DEF Cancelling
      <4>2. pipes[i] # NoUnit
        BY <4>1 DEF NoUnit
      <4> QED
        BY <4>1, <4>2 DEF OneInv, HomeInv, NameInv
    <3> QED
      BY <2>1, <3>1 DEF Kept, Active
  <2>5. NameInv'
    BY <2>1 DEF OneInv, HomeInv, NameInv
  <2>6. CallerInv'
    BY <2>1, <2>2, OnePcs DEF CallerInv, EntryOf, Knows
  <2>7. KeepInv'
    BY <2>1, <2>3 DEF OneInv, HomeInv, KeepInv
  <2>8. LeftInv'
    BY <2>1, <2>2, <2>4 DEF OneInv, HomeInv, LeftInv
  <2> QED
    BY <2>5, <2>6, <2>7, <2>8 DEF HomeInv
<1>4. ASSUME NEW x \in Callers, NEW i \in Ids, NEW o \in Objs, NEW m \in Mutexes,
             BootOne(x, i, o, m)
      PROVE  HomeInv'
  <2>u. PICK u : u = [p |-> o, mu |-> m, c |-> FALSE]
    OBVIOUS
  <2>v. PICK v : v = stored[i]
    OBVIOUS
  <2>1. /\ Create(o, i, v) /\ pipes' = [pipes EXCEPT ![i] = u] /\ pc[x] = "idle"
        /\ phase = "boot" /\ i \in pending /\ UNCHANGED <<stored, lockRows, phase>>
    BY <1>4, <2>u, <2>v DEF BootOne, Idling, storage
  <2>2. u.p = o /\ u \in Unit
    BY <2>u DEF Unit
  <2>3. u # NoUnit
    BY <2>2, NoUnitFields
  <2>4. v \in Versions \cup {None}
    BY <1>t, <2>v DEF TypeInv, TypeOK
  <2>5. pipes[i] = NoUnit
    BY <2>1 DEF OneInv, PhaseInv
  <2>6. \/ pc'[x] = "idle"
        \/ pc'[x] = "build" /\ id'[x] = i /\ unit'[x] = u
    BY <1>4, <1>t, <2>1, <2>u, GotoFields DEF BootOne, TypeInv, TypeOK
  <2> QED
    BY <2>1, <2>2, <2>3, <2>4, <2>5, <2>6, <2>v, NewOne
<1>5. ASSUME Gone
      PROVE  HomeInv'
  <2>1. /\ \A x \in Callers : pc'[x] = "idle"
        /\ \A o \in Objs : run'[o] = "none"
        /\ \A i \in Ids : pipes'[i] = NoUnit
        /\ phase' = "down"
    BY <1>5 DEF Gone, AllIdle, NoRuns, NoPipes
  <2> QED
    BY <2>1, OnePcs DEF HomeInv, NameInv, CallerInv, EntryOf, Knows, KeepInv, LeftInv, Kept, Active
<1> QED
  BY <1>1, <1>2, <1>3, <1>4, <1>5 DEF Process, Exit, Crash

LEMMA HomeInvCorrect ==
  ASSUME OneClient
  PROVE  Spec => []HomeInv
<1>1. Init => HomeInv
  <2> SUFFICES ASSUME Init PROVE HomeInv
    OBVIOUS
  <2>1. /\ \A x \in Callers : pc[x] = "idle"
        /\ \A o \in Objs : run[o] = "none"
        /\ \A i \in Ids : pipes[i] = NoUnit
        /\ lockRows = {}
    BY DEF Init, AllIdle, NoRuns, NoPipes
  <2> QED
    BY <2>1, OnePcs DEF HomeInv, NameInv, CallerInv, EntryOf, Knows, KeepInv, LeftInv, Kept, Active
<1>2. RunInv /\ PhaseInv /\ HomeInv /\ [Next]_vars => HomeInv'
  <2> SUFFICES ASSUME OneInv, [Next]_vars PROVE HomeInv'
    BY DEF OneInv
  <2>1. CASE UNCHANGED vars
    <3>1. UNCHANGED <<obj, run, cancelled, pipes, stored, lockRows, phase, pc, id, cfg, unit>>
      BY <2>1 DEF vars, boot, storage, runtime, caller
    <3> QED
      BY <3>1 DEF OneInv, HomeInv, NameInv, CallerInv, EntryOf, Knows, KeepInv, LeftInv, Kept, Active
  <2>2. CASE Process \/ Shutdown \/ Crash
    BY <2>2, ProcessOne
  <2>3. ASSUME NEW x \in Callers, Call(x) \/ Working(x)
        PROVE  HomeInv'
    BY <2>3, CallOne, StartPipelineOne, StartStepsOne, StopStepsOne, EditStepsOne DEF Working
  <2>4. ASSUME NEW o \in Objs, Goroutine(o)
        PROVE  HomeInv'
    BY <2>4, GoroutineOne
  <2> QED
    BY <2>1, <2>2, <2>3, <2>4 DEF Next
<1> QED
  BY <1>1, <1>2, RunInvCorrect, PhaseInvCorrect, PTL DEF Spec

\* With one client, through edits, boots, failures and crashes, what runs is what the
\* storage holds: Update and Delete touch no pipeline that runs.
THEOREM RunsStoredConfigCorrect ==
  ASSUME OneClient
  PROVE  Spec => []RunsStoredConfig
<1>1. HomeInv => RunsStoredConfig
  BY DEF HomeInv, KeepInv, Kept, RunsStoredConfig
<1> QED
  BY <1>1, HomeInvCorrect, PTL

\* With one client, rows cleaned at boot and no failing release, a pipeline that runs
\* has its lock row and no row is left behind, however starts fail and processes end.
THEOREM LocksFollowRunsCorrect ==
  ASSUME OneClient, RowsCleaned
  PROVE  Spec => []LocksFollowRuns
<1>1. HomeInv => LockedWhileRunning
  BY DEF HomeInv, KeepInv, Kept, LockedWhileRunning
<1>2. HomeInv => NoLockLeftBehind
  BY DEF HomeInv, LeftInv, Kept, NoLockLeftBehind
<1> QED
  BY <1>1, <1>2, HomeInvCorrect, PTL DEF LocksFollowRuns
=============================================================================
