------------------------ MODULE TaskControllerProofs ------------------------
(***************************************************************************)
(* The storage of a Runner is used by one task at a time and not after the *)
(* Runner is destroyed, and nothing is restarted once the runners were     *)
(* asked to stop: for any number of runners, tasks and ends.               *)
(***************************************************************************)
EXTENDS TaskController, TLAPS

(***************************************************************************)
(* Types.                                                                  *)
(***************************************************************************)
OpType == {Unlocked, Killing}
    \cup [at : {"create", "store", "register"}, runner : Runner, restart : BOOLEAN]
    \cup [at : {"publish", "delete"}, runner : Runner, victim : Task]

ReapType == {NotReaping}
    \cup [at : {"keys"}, keys : SUBSET Runner, handled : Nat, failed : BOOLEAN]
    \cup [at : {"remove", "restart"}, runner : Runner, keys : SUBSET Runner,
          handled : Nat, failed : BOOLEAN]

EnderType == {NotEnding} \cup [at : {"terminate"}]
    \cup [at : {"delay", "reap", "closed"}, asked : SUBSET Runner]
    \cup [at : {"kill"}, todo : SUBSET Runner]

\* The operations that start a task, and those that kill one.
Starting == {"create", "store", "register"}

\* A task was created before its handle is stored or registered.
Created == op.at \in {"store", "register"} => created[op.runner] \in Task

Types ==
    /\ active \in BOOLEAN /\ permit \in BOOLEAN
    /\ entry \in [Runner -> {"none", "added", "configured", "removed"}]
    /\ life \in [Runner -> {"Stopped", "Starting", "Running", "Stopping"}]
    /\ handle \in [Runner -> Task \cup {0}]
    /\ everStarted \in [Runner -> BOOLEAN]
    /\ stop \in [Runner -> {"none", "clean", "error", "killed"}]
    /\ created \in [Runner -> Task \cup {0}]
    /\ phase \in [Runner -> [Task -> Alive \cup {"none", "gone"}]]
    /\ native \in [Runner -> [Task -> Task \cup {0}]]
    /\ outcome \in [Runner -> [Task -> {"clean", "error"}]]
    /\ note \in [Runner -> [Task -> {"none", "ping", "stop"}]]
    /\ managed \subseteq Runner \X Task
    /\ op \in OpType
    /\ reap \in [Reaper -> ReapType]
    /\ ender \in EnderType
    /\ ends \in 0 .. MaxEnds
    /\ Created

LEMMA TypesOK == Types => TypeOK
BY DEF Types, TypeOK, OpType, ReapType, EnderType

\* The operation an `at` stands for.
LEMMA OpCases ==
    ASSUME op \in OpType
    PROVE  /\ op.at \in Starting => /\ op \in [at : Starting, runner : Runner, restart : BOOLEAN]
                                    /\ op.runner \in Runner /\ op.restart \in BOOLEAN
           /\ op.at \in {"publish", "delete"} =>
                /\ op \in [at : {"publish", "delete"}, runner : Runner, victim : Task]
                /\ op.runner \in Runner /\ op.victim \in Task
           /\ op = Unlocked => op.at = "free"
           /\ op = Killing => op.at = "kill"
BY DEF OpType, Starting, Unlocked, Killing

LEMMA ReapCases ==
    ASSUME NEW v \in ReapType
    PROVE  /\ v.at \in {"idle", "keys", "remove", "restart"}
           /\ v.at = "idle" => v = NotReaping
           /\ v.at = "keys" => /\ v \in [at : {"keys"}, keys : SUBSET Runner, handled : Nat, failed : BOOLEAN]
                               /\ v.keys \subseteq Runner /\ v.handled \in Nat /\ v.failed \in BOOLEAN
           /\ v.at \in {"remove", "restart"} =>
                /\ v \in [at : {"remove", "restart"}, runner : Runner, keys : SUBSET Runner,
                          handled : Nat, failed : BOOLEAN]
                /\ v.runner \in Runner /\ v.keys \subseteq Runner
                /\ v.handled \in Nat /\ v.failed \in BOOLEAN
BY DEF ReapType, NotReaping

LEMMA EnderCases ==
    ASSUME ender \in EnderType
    PROVE  /\ ender.at \in {"idle", "terminate", "delay", "reap", "closed", "kill"}
           /\ ender.at = "idle" => ender = NotEnding
           /\ ender.at \in {"delay", "reap", "closed"} =>
                /\ ender \in [at : {"delay", "reap", "closed"}, asked : SUBSET Runner]
                /\ ender.asked \subseteq Runner
           /\ ender.at = "kill" => /\ ender \in [at : {"kill"}, todo : SUBSET Runner]
                                   /\ ender.todo \subseteq Runner
BY DEF EnderType, NotEnding

LEMMA InitTypes == Init => Types
BY TaskControllerAssumption
   DEF Init, Types, Created, OpType, ReapType, EnderType, Unlocked, NotReaping, NotEnding, Task,
       Alive, Touching

\* The end of an operation.
LEMMA FinishTypes ==
    ASSUME Types, NEW ok \in BOOLEAN, Finish(ok)
    PROVE  op' = Unlocked /\ op' \in OpType /\ reap' \in [Reaper -> ReapType]
<1>1. op' = Unlocked /\ op' \in OpType
  BY DEF Finish, OpType
<1>2. ASSUME NEW c \in Reaper
      PROVE  (IF reap[c].at # "restart" THEN reap[c]
              ELSE IF ok THEN [at |-> "keys", keys |-> reap[c].keys,
                               handled |-> reap[c].handled + 1, failed |-> reap[c].failed]
              ELSE [reap[c] EXCEPT !.at = "remove"]) \in ReapType
  <2>1. reap[c] \in ReapType
    BY DEF Types
  <2>2. CASE reap[c].at # "restart"
    BY <2>1, <2>2
  <2>3. CASE reap[c].at = "restart" /\ ok
    BY <2>1, <2>3, ReapCases DEF ReapType
  <2>4. CASE reap[c].at = "restart" /\ ~ ok
    <3>1. reap[c] \in [at : {"remove", "restart"}, runner : Runner, keys : SUBSET Runner,
                       handled : Nat, failed : BOOLEAN]
      BY <2>1, <2>4, ReapCases
    <3>2. [reap[c] EXCEPT !.at = "remove"] \in
            [at : {"remove", "restart"}, runner : Runner, keys : SUBSET Runner,
             handled : Nat, failed : BOOLEAN]
      BY <3>1
    <3>. QED
      BY <2>4, <3>2 DEF ReapType
  <2>. QED
    BY <2>2, <2>3, <2>4
<1>3. reap' \in [Reaper -> ReapType]
  BY <1>2 DEF Finish
<1>. QED
  BY <1>1, <1>3

LEMMA DeletedTypes ==
    ASSUME Types, NEW r \in Runner, NEW i \in Task, Deleted(r, i)
    PROVE  /\ phase' \in [Runner -> [Task -> Alive \cup {"none", "gone"}]]
           /\ native' \in [Runner -> [Task -> Task \cup {0}]]
           /\ outcome' \in [Runner -> [Task -> {"clean", "error"}]]
           /\ note' \in [Runner -> [Task -> {"none", "ping", "stop"}]]
BY DEF Deleted, Types

LEMMA NotifyTypes ==
    ASSUME Types, NEW S, NEW signal \in {"ping", "stop"}, Notify(S, signal)
    PROVE  note' \in [Runner -> [Task -> {"none", "ping", "stop"}]]
BY DEF Notify, Types

LEMMA BeginTypes ==
    ASSUME Types, NEW r \in Runner, NEW isRestart \in BOOLEAN, Begin(r, isRestart)
    PROVE  /\ life' \in [Runner -> {"Stopped", "Starting", "Running", "Stopping"}]
           /\ stop' \in [Runner -> {"none", "clean", "error", "killed"}]
           /\ op' \in OpType /\ op'.at = "create"
BY DEF Begin, Types, OpType

LEMMA OperationTypes == ASSUME Types, Operation PROVE Types'
<1>. USE DEF Types, control, runner, task, callers
<1>1. CASE CreateTask
  <2>1. op.at \in Starting /\ op.runner \in Runner /\ op' = [op EXCEPT !.at = "store"]
    BY <1>1, OpCases DEF CreateTask, Starting
  <2>2. op' \in [at : Starting, runner : Runner, restart : BOOLEAN]
    BY <2>1, OpCases DEF Starting
  <2>3. op' \in OpType /\ op'.runner = op.runner
    BY <2>1, <2>2, OpCases DEF OpType, Starting
  <2>4. /\ created' \in [Runner -> Task \cup {0}] /\ created'[op.runner] \in Task
        /\ phase' \in [Runner -> [Task -> Alive \cup {"none", "gone"}]]
    BY <1>1, <2>1 DEF CreateTask, Alive, Touching
  <2>. QED
    BY <1>1, <2>3, <2>4 DEF CreateTask, Created
<1>2. CASE CreateTaskFails
  <2>1. op.runner \in Runner
    BY <1>2, OpCases DEF CreateTaskFails, Starting
  <2>2. op' = Unlocked /\ op' \in OpType /\ reap' \in [Reaper -> ReapType]
    BY <1>2, FinishTypes DEF CreateTaskFails
  <2>. QED
    BY <1>2, <2>1, <2>2 DEF CreateTaskFails, Created, Unlocked
<1>3. CASE StoreHandle
  <2>1. op.at \in Starting /\ op.runner \in Runner /\ op' = [op EXCEPT !.at = "register"]
    BY <1>3, OpCases DEF StoreHandle, Starting
  <2>2. op' \in [at : Starting, runner : Runner, restart : BOOLEAN]
    BY <2>1, OpCases DEF Starting
  <2>3. op' \in OpType /\ op'.runner = op.runner
    BY <2>1, <2>2, OpCases DEF OpType, Starting
  <2>. QED
    BY <1>3, <2>1, <2>3 DEF StoreHandle, Created
<1>4. CASE RegisterHandle
  <2>1. op.runner \in Runner /\ created[op.runner] \in Task
    BY <1>4, OpCases DEF RegisterHandle, Starting, Created
  <2>2. op' = Unlocked /\ op' \in OpType /\ reap' \in [Reaper -> ReapType]
    BY <1>4, FinishTypes DEF RegisterHandle
  <2>. QED
    BY <1>4, <2>1, <2>2 DEF RegisterHandle, Created, Unlocked
<1>5. CASE RegisterHandleFails
  <2>1. op.runner \in Runner /\ created[op.runner] \in Task
    BY <1>5, OpCases DEF RegisterHandleFails, Starting, Created
  <2>2. op' = Unlocked /\ op' \in OpType /\ reap' \in [Reaper -> ReapType]
    BY <1>5, FinishTypes DEF RegisterHandleFails
  <2>3. Deleted(op.runner, created[op.runner])
    BY <1>5 DEF RegisterHandleFails
  <2>4. /\ phase' \in [Runner -> [Task -> Alive \cup {"none", "gone"}]]
        /\ native' \in [Runner -> [Task -> Task \cup {0}]]
        /\ outcome' \in [Runner -> [Task -> {"clean", "error"}]]
        /\ note' \in [Runner -> [Task -> {"none", "ping", "stop"}]]
    BY <2>1, <2>3 DEF Deleted
  <2>. QED
    BY <1>5, <2>1, <2>2, <2>4 DEF RegisterHandleFails, Created, Unlocked
<1>6. CASE KillPublish
  <2>1. op.at \in {"publish", "delete"} /\ op.runner \in Runner /\ op' = [op EXCEPT !.at = "delete"]
    BY <1>6, OpCases DEF KillPublish
  <2>2. op' \in [at : {"publish", "delete"}, runner : Runner, victim : Task] /\ op'.at = "delete"
    BY <2>1, OpCases
  <2>. QED
    BY <1>6, <2>1, <2>2 DEF KillPublish, OpType, Created
<1>7. CASE KillDelete
  <2>1. op.runner \in Runner /\ op.victim \in Task
    BY <1>7, OpCases DEF KillDelete
  <2>2. Deleted(op.runner, op.victim)
    BY <1>7 DEF KillDelete
  <2>3. /\ phase' \in [Runner -> [Task -> Alive \cup {"none", "gone"}]]
        /\ native' \in [Runner -> [Task -> Task \cup {0}]]
        /\ outcome' \in [Runner -> [Task -> {"clean", "error"}]]
        /\ note' \in [Runner -> [Task -> {"none", "ping", "stop"}]]
    BY <2>1, <2>2 DEF Deleted
  <2>. QED
    BY <1>7, <2>1, <2>3 DEF KillDelete, OpType, Created, Killing
<1>. QED
  BY <1>1, <1>2, <1>3, <1>4, <1>5, <1>6, <1>7 DEF Operation

LEMMA ProgressTypes ==
    ASSUME Types, NEW r \in Runner, NEW i \in Task,
           Progress(r, i) \/ StartHookFails(r, i) \/ StepFails(r, i)
    PROVE  Types'
<1>. USE DEF Types, Created, control, runner, task, callers
<1>1. CASE ReadHandle(r, i)
  BY <1>1 DEF ReadHandle, Alive, Touching
<1>2. CASE InitLoop(r, i)
  <2>1. /\ life' \in [Runner -> {"Stopped", "Starting", "Running", "Stopping"}]
        /\ phase' \in [Runner -> [Task -> Alive \cup {"none", "gone"}]]
        /\ outcome' \in [Runner -> [Task -> {"clean", "error"}]]
    <3>1. \/ /\ life' = [life EXCEPT ![r] = "Running"] /\ outcome' = outcome
             /\ phase' = [phase EXCEPT ![r][i] = "loop"]
          \/ /\ life' = [life EXCEPT ![r] = "Stopped"]
             /\ phase' = [phase EXCEPT ![r][i] = "clear"]
             /\ outcome' = [outcome EXCEPT ![r][i] = "error"]
      BY <1>2 DEF InitLoop
    <3>2. life' \in [Runner -> {"Stopped", "Starting", "Running", "Stopping"}]
      BY <3>1
    <3>. HIDE DEF Types
    <3>3. /\ phase \in [Runner -> [Task -> Alive \cup {"none", "gone"}]]
          /\ outcome \in [Runner -> [Task -> {"clean", "error"}]]
      BY DEF Types
    <3>4. phase' \in [Runner -> [Task -> Alive \cup {"none", "gone"}]]
      <4>1. [phase EXCEPT ![r][i] = "loop"] \in [Runner -> [Task -> Alive \cup {"none", "gone"}]]
        BY <3>3 DEF Alive, Touching
      <4>2. [phase EXCEPT ![r][i] = "clear"] \in [Runner -> [Task -> Alive \cup {"none", "gone"}]]
        BY <3>3 DEF Alive, Touching
      <4>. QED
        BY <3>1, <4>1, <4>2
    <3>5. outcome' \in [Runner -> [Task -> {"clean", "error"}]]
      <4>1. [outcome EXCEPT ![r][i] = "error"] \in [Runner -> [Task -> {"clean", "error"}]]
        BY <3>3
      <4>. QED
        BY <3>1, <3>3, <4>1
    <3>. QED
      BY <3>2, <3>4, <3>5
  <2>. QED
    BY <1>2, <2>1 DEF InitLoop
<1>3. CASE TakePing(r, i)
  BY <1>3 DEF TakePing
<1>4. CASE TakeStop(r, i)
  BY <1>4 DEF TakeStop, Stopping, Alive, Touching
<1>5. CASE Shutdown(r, i)
  BY <1>5 DEF Shutdown, Alive, Touching
<1>6. CASE ClearHandle(r, i)
  BY <1>6 DEF ClearHandle, Alive, Touching
<1>7. CASE Deregister(r, i)
  BY <1>7 DEF Deregister, Alive, Touching
<1>8. CASE PublishStop(r, i)
  BY <1>8 DEF PublishStop, Alive, Touching
<1>9. CASE DeleteCurrent(r, i)
  BY <1>9, DeletedTypes DEF DeleteCurrent
<1>10. CASE StartHookFails(r, i)
  BY <1>10 DEF StartHookFails, Stopping, Alive, Touching
<1>11. CASE StepFails(r, i)
  BY <1>11 DEF StepFails, Stopping, Alive, Touching
<1>. QED
  BY <1>1, <1>2, <1>3, <1>4, <1>5, <1>6, <1>7, <1>8, <1>9, <1>10, <1>11 DEF Progress

LEMMA OwnerTypes ==
    ASSUME Types, NEW r \in Runner,
           AddTask(r) \/ StartTask(r) \/ SignalDirect(r) \/ \E s \in {"ping", "stop"} : SignalTask(r, s)
    PROVE  Types'
<1>. USE DEF Types, control, runner, task, callers
<1>1. CASE AddTask(r)
  BY <1>1 DEF AddTask, Created
<1>2. CASE StartTask(r)
  <2>1. Begin(r, FALSE)
    BY <1>2 DEF StartTask
  <2>. QED
    BY <1>2, <2>1, BeginTypes DEF StartTask, Created
<1>3. CASE SignalDirect(r)
  BY <1>3, NotifyTypes DEF SignalDirect, Created
<1>4. ASSUME NEW s \in {"ping", "stop"}, SignalTask(r, s) PROVE Types'
  BY <1>4, NotifyTypes DEF SignalTask, Created
<1>. QED
  BY <1>1, <1>2, <1>3, <1>4

LEMMA ReapingTypes ==
    ASSUME Types, NEW c \in Reaper, Reaping(c)
    PROVE  Types'
<1>. USE DEF Types, control, runner, task, callers
<1>. DEFINE v == reap[c]
<1>0. v \in ReapType
  OBVIOUS
<1>1. CASE ReapKeys(c)
  <2>1. PICK keys \in SUBSET Runner :
          reap' = [reap EXCEPT ![c] = [at |-> "keys", keys |-> keys, handled |-> 0, failed |-> FALSE]]
    BY <1>1 DEF ReapKeys
  <2>2. [at |-> "keys", keys |-> keys, handled |-> 0, failed |-> FALSE] \in ReapType
    BY DEF ReapType
  <2>. QED
    BY <1>1, <2>1, <2>2 DEF ReapKeys, Created
<1>2. CASE ReapRemove(c)
  <2>1. v.runner \in Runner /\ v.keys \subseteq Runner /\ v.handled \in Nat /\ v.failed \in BOOLEAN
    BY <1>0, <1>2, ReapCases DEF ReapRemove
  <2>. DEFINE handled == IF Present(v.runner) THEN v.handled + 1 ELSE v.handled
              failed == v.failed \/ ~ Present(v.runner)
  <2>2. reap' = [reap EXCEPT ![c] = [at |-> "keys", keys |-> v.keys, handled |-> handled,
                                     failed |-> failed]]
    BY <1>2 DEF ReapRemove
  <2>3. handled \in Nat /\ failed \in BOOLEAN
    BY <2>1
  <2>4. [at |-> "keys", keys |-> v.keys, handled |-> handled, failed |-> failed] \in ReapType
    <3>. HIDE DEF handled, failed
    <3>. QED
      BY <2>1, <2>3 DEF ReapType
  <2>5. reap' \in [Reaper -> ReapType]
    <3>. HIDE DEF handled, failed, v
    <3>. QED
      BY <2>2, <2>4
  <2>. QED
    BY <1>2, <2>1, <2>5 DEF ReapRemove, Created
<1>3. ASSUME NEW r \in Runner, ReapFails(c, r) PROVE Types'
  <2>1. v \in [at : {"keys"}, keys : SUBSET Runner, handled : Nat, failed : BOOLEAN]
    BY <1>0, <1>3, ReapCases DEF ReapFails
  <2>2. [v EXCEPT !.keys = @ \ {r}, !.failed = TRUE] \in ReapType
    BY <2>1 DEF ReapType
  <2>3. reap' = [reap EXCEPT ![c] = [v EXCEPT !.keys = @ \ {r}, !.failed = TRUE]]
    BY <1>3 DEF ReapFails
  <2>. QED
    BY <1>3, <2>2, <2>3 DEF ReapFails, Created
<1>4. ASSUME NEW r \in Runner, ReapStopped(c, r) PROVE Types'
  <2>1. v.keys \subseteq Runner /\ v.handled \in Nat /\ v.failed \in BOOLEAN
    BY <1>0, <1>4, ReapCases DEF ReapStopped
  <2>2. [at |-> "remove", runner |-> r, keys |-> v.keys \ {r},
         handled |-> v.handled, failed |-> v.failed] \in ReapType
    BY <2>1 DEF ReapType
  <2>. QED
    BY <1>4, <2>2 DEF ReapStopped, Created
<1>5. ASSUME NEW r \in Runner, ReapRestart(c, r) PROVE Types'
  <2>1. v.keys \subseteq Runner /\ v.handled \in Nat /\ v.failed \in BOOLEAN
    BY <1>0, <1>5, ReapCases DEF ReapRestart
  <2>2. [at |-> "restart", runner |-> r, keys |-> v.keys \ {r},
         handled |-> v.handled, failed |-> v.failed] \in ReapType
    BY <2>1 DEF ReapType
  <2>3. Begin(r, TRUE)
    BY <1>5 DEF ReapRestart
  <2>. QED
    BY <1>5, <2>2, <2>3, BeginTypes DEF ReapRestart, Created
<1>. QED
  BY <1>1, <1>2, <1>3, <1>4, <1>5 DEF Reaping

LEMMA EndingTypes ==
    ASSUME Types, Ending \/ EndController \/ BeginController \/ ReapDone
    PROVE  Types'
<1>. USE DEF Types, control, runner, task, callers
<1>1. CASE Terminate
  <2>1. PICK asked \in SUBSET Runner, running \in SUBSET Runner :
          /\ Notify(asked, "stop")
          /\ ender' = IF asked # running THEN NotEnding
                      ELSE [at |-> IF asked = {} THEN "closed" ELSE "delay", asked |-> asked]
          /\ active' = (running # {})
    BY <1>1 DEF Terminate
  <2>2. ender' \in EnderType
    BY <2>1 DEF EnderType
  <2>3. note' \in [Runner -> [Task -> {"none", "ping", "stop"}]]
    BY <2>1, NotifyTypes
  <2>4. active' \in BOOLEAN
    BY <2>1
  <2>. QED
    BY <1>1, <2>2, <2>3, <2>4 DEF Terminate, Created
<1>2. CASE EndDelay
  <2>1. ender \in [at : {"delay", "reap", "closed"}, asked : SUBSET Runner]
    BY <1>2, EnderCases DEF EndDelay
  <2>2. [ender EXCEPT !.at = "reap"] \in [at : {"delay", "reap", "closed"}, asked : SUBSET Runner]
    BY <2>1
  <2>. QED
    BY <1>2, <2>2 DEF EndDelay, EnderType, Created
<1>3. CASE EndCheck
  <2>1. ender \in [at : {"delay", "reap", "closed"}, asked : SUBSET Runner]
    BY <1>3, EnderCases DEF EndCheck
  <2>2. [ender EXCEPT !.at = "closed"] \in [at : {"delay", "reap", "closed"}, asked : SUBSET Runner]
    BY <2>1
  <2>3. ender' \in {NotEnding, [ender EXCEPT !.at = "closed"], [at |-> "kill", todo |-> Runner]}
    BY <1>3 DEF EndCheck
  <2>4. ender' \in EnderType
    BY <2>2, <2>3 DEF EnderType
  <2>5. reap' \in [Reaper -> ReapType]
    BY <1>3 DEF EndCheck, ReapType
  <2>6. active' \in BOOLEAN
    BY <1>3 DEF EndCheck
  <2>. QED
    BY <1>3, <2>4, <2>5, <2>6 DEF EndCheck, Created
<1>4. ASSUME NEW r \in Runner, KillTake(r) PROVE Types'
  <2>1. ender \in [at : {"kill"}, todo : SUBSET Runner]
    BY <1>4, EnderCases DEF KillTake
  <2>2. [ender EXCEPT !.todo = @ \ {r}] \in [at : {"kill"}, todo : SUBSET Runner]
    BY <2>1
  <2>3. ender' \in EnderType
    BY <1>4, <2>2 DEF KillTake, EnderType
  <2>4. CASE /\ handle[r] # 0 /\ handle' = [handle EXCEPT ![r] = 0]
             /\ op' = [at |-> "publish", runner |-> r, victim |-> handle[r]]
    <3>1. handle[r] \in Task /\ op' \in OpType /\ op'.at = "publish"
      BY <2>4 DEF OpType
    <3>. QED
      BY <1>4, <2>3, <2>4, <3>1 DEF KillTake, Created
  <2>5. CASE op' = Killing /\ UNCHANGED handle
    BY <1>4, <2>3, <2>5 DEF KillTake, Created, OpType, Killing
  <2>. QED
    BY <1>4, <2>4, <2>5 DEF KillTake
<1>5. CASE KillDone
  BY <1>5 DEF KillDone, Created, OpType, Unlocked, EnderType
<1>6. CASE EndController
  <2>1. ends' \in 0 .. MaxEnds
    BY <1>6, TaskControllerAssumption DEF EndController
  <2>. QED
    BY <1>6, <2>1 DEF EndController, Created, EnderType
<1>7. CASE BeginController
  BY <1>7 DEF BeginController, Created, EnderType
<1>8. CASE ReapDone
  BY <1>8 DEF ReapDone, Created, ReapType
<1>. QED
  BY <1>1, <1>2, <1>3, <1>4, <1>5, <1>6, <1>7, <1>8 DEF Ending

LEMMA StepTypes == Types /\ [Next]_vars => Types'
<1>. SUFFICES ASSUME Types, [Next]_vars PROVE Types'
  OBVIOUS
<1>1. CASE UNCHANGED vars
  BY <1>1 DEF vars, Types, Created, control, runner, task, callers
<1>. QED
  BY <1>1, OperationTypes, ProgressTypes, OwnerTypes, ReapingTypes, EndingTypes DEF Next

(***************************************************************************)
(* The inductive invariant.                                                *)
(***************************************************************************)
Busy(r) == \E i \in Task : phase[r][i] \in Touching

\* The storage of a runner is used by its last task only, and while it is,
\* the runner has neither stopped nor been removed, and whoever starts,
\* reaps or kills it knows of that task.
Storage ==
    \A r \in Runner :
        /\ \A i \in Task : phase[r][i] \in Touching => i = created[r]
        /\ Busy(r) =>
             /\ entry[r] # "removed"
             /\ stop[r] = "none" \/ (op.at = "delete" /\ op.runner = r)
             /\ everStarted[r] \/ (op.at \in {"store", "register"} /\ op.runner = r)
             /\ ~ (op.at = "create" /\ op.runner = r)
             /\ \A c \in Reaper : ~ (reap[c].at = "remove" /\ reap[c].runner = r)
             /\ handle[r] \in {0, created[r]} \/ (op.at = "store" /\ op.runner = r)
             /\ op.at \in {"publish", "delete"} /\ op.runner = r => op.victim = created[r]

\* Who may start what: nobody starts a runner that is being removed, only
\* Core's reap restarts, and none once the controller is ending.
Order ==
    /\ op.at \in Starting => Present(op.runner)
    /\ op.at = "create" => stop[op.runner] = "none"
    /\ op.at \in Starting /\ op.restart => everStarted[op.runner]
    /\ \A r \in Runner : entry[r] = "configured" => everStarted[r]
    /\ \A c \in Reaper : reap[c].at = "remove" =>
         /\ everStarted[reap[c].runner]
         /\ ~ (op.at \in Starting /\ op.runner = reap[c].runner)
    /\ \A c \in Reaper : reap[c].at = "restart" =>
         op.at \in Starting /\ op.runner = reap[c].runner /\ op.restart /\ c = "work"
    /\ ender.at # "idle" => ~ permit
    /\ reap["end"].at # "idle" => ender.at = "reap"
    /\ NoRestartOnceAsked

IInv == Types /\ Storage /\ Order

LEMMA InitIInv == Init => IInv
<1>. SUFFICES ASSUME Init PROVE IInv
  OBVIOUS
<1>1. Storage
  BY DEF Init, Storage, Busy, Touching
<1>2. Order
  BY DEF Init, Order, NoRestartOnceAsked, Starting, Unlocked, NotReaping, NotEnding, Reaper
<1>. QED
  BY <1>1, <1>2, InitTypes DEF IInv

\* A task moves on, still using the storage, and may clear the handle.
LEMMA TouchingStep ==
    ASSUME IInv, NEW r \in Runner, NEW i \in Task, phase[r][i] \in Touching,
           NEW x \in Touching, phase' = [phase EXCEPT ![r][i] = x],
           handle' = handle \/ handle' = [handle EXCEPT ![r] = 0],
           UNCHANGED <<entry, everStarted, stop, created, op, reap, control, ender>>
    PROVE  Storage' /\ Order'
<1>1. \A q \in Runner, j \in Task :
        phase'[q][j] \in Touching <=> phase[q][j] \in Touching
  BY DEF IInv, Types
<1>2. \A q \in Runner : Busy(q)' <=> Busy(q)
  BY <1>1 DEF Busy
<1>3. \A q \in Runner : handle'[q] \in {0, handle[q]}
  BY DEF IInv, Types
<1>4. Storage'
  BY <1>1, <1>2, <1>3 DEF IInv, Storage
<1>5. Order'
  BY DEF IInv, Order, NoRestartOnceAsked, Present, control
<1>. QED
  BY <1>4, <1>5

\* A task that leaves the storage was the only one that used it.
LEMMA LeavingStep ==
    ASSUME IInv, NEW r \in Runner, NEW i \in Task,
           \A q \in Runner, j \in Task : phase'[q][j] \in Touching <=>
               phase[q][j] \in Touching /\ ~ (q = r /\ j = i),
           UNCHANGED <<entry, everStarted, created, control, ender, handle, reap>>,
           \A q \in Runner \ {r} : stop'[q] = stop[q]
    PROVE  /\ \A q \in Runner \ {r} : Busy(q)' <=> Busy(q)
           /\ Busy(r)' => i # created[r]
           /\ \A j \in Task : phase'[r][j] \in Touching => j = created[r]
BY DEF Busy, IInv, Storage

LEMMA ProgressStep ==
    ASSUME IInv, NEW r \in Runner, NEW i \in Task,
           Progress(r, i) \/ StartHookFails(r, i) \/ StepFails(r, i)
    PROVE  Storage' /\ Order'
<1>. USE DEF runner, task, callers
<1>1. CASE ReadHandle(r, i)
  BY <1>1, TouchingStep DEF ReadHandle, Touching
<1>2. CASE InitLoop(r, i)
  <2>1. /\ phase[r][i] \in Touching
        /\ \E x \in Touching : phase' = [phase EXCEPT ![r][i] = x]
    BY <1>2 DEF InitLoop, Touching
  <2>2. UNCHANGED <<entry, handle, everStarted, stop, created, op, reap, control, ender>>
    BY <1>2 DEF InitLoop
  <2>. QED
    BY <2>1, <2>2, TouchingStep
<1>3. CASE TakePing(r, i)
  <2>1. /\ phase[r][i] \in Touching
        /\ phase' = [phase EXCEPT ![r][i] = phase[r][i]]
    BY <1>3 DEF TakePing, Touching, IInv, Types
  <2>. QED
    BY <1>3, <2>1, TouchingStep DEF TakePing
<1>4. CASE TakeStop(r, i)
  BY <1>4, TouchingStep DEF TakeStop, Stopping, Touching
<1>5. CASE Shutdown(r, i)
  BY <1>5, TouchingStep DEF Shutdown, Touching
<1>6. CASE ClearHandle(r, i)
  BY <1>6, TouchingStep DEF ClearHandle, Touching
<1>7. CASE Deregister(r, i)
  BY <1>7, TouchingStep DEF Deregister, Touching
<1>8. CASE PublishStop(r, i)
  <2>1. phase[r][i] \in Touching /\ i = created[r]
    BY <1>8 DEF PublishStop, Touching, IInv, Storage
  <2>2. \A q \in Runner, j \in Task : phase'[q][j] \in Touching <=>
           phase[q][j] \in Touching /\ ~ (q = r /\ j = i)
    BY <1>8 DEF PublishStop, Touching, IInv, Types
  <2>3. \A q \in Runner \ {r} : stop'[q] = stop[q]
    BY <1>8 DEF PublishStop, IInv, Types
  <2>4. /\ \A q \in Runner \ {r} : Busy(q)' <=> Busy(q)
        /\ ~ Busy(r)'
        /\ \A j \in Task : phase'[r][j] \in Touching => j = created[r]
    BY <1>8, <2>1, <2>2, <2>3, LeavingStep DEF PublishStop
  <2>5. Storage'
    BY <1>8, <2>2, <2>3, <2>4 DEF PublishStop, IInv, Storage
  <2>6. op.at = "create" => op.runner # r
    BY <2>1 DEF IInv, Storage, Busy
  <2>7. op.at = "create" => stop'[op.runner] = stop[op.runner]
    BY <2>3, <2>6, OpCases DEF IInv, Types, Starting
  <2>8. Order'
    BY <1>8, <2>7 DEF PublishStop, IInv, Order, NoRestartOnceAsked, Present, control
  <2>. QED
    BY <2>5, <2>8
<1>9. CASE DeleteCurrent(r, i)
  <2>1. \A q \in Runner, j \in Task : phase'[q][j] \in Touching <=> phase[q][j] \in Touching
    BY <1>9 DEF DeleteCurrent, Deleted, Touching, IInv, Types
  <2>2. \A q \in Runner : Busy(q)' <=> Busy(q)
    BY <2>1 DEF Busy
  <2>3. Storage'
    BY <1>9, <2>1, <2>2 DEF DeleteCurrent, IInv, Storage
  <2>4. Order'
    BY <1>9 DEF DeleteCurrent, IInv, Order, NoRestartOnceAsked, Present, control
  <2>. QED
    BY <2>3, <2>4
<1>10. CASE StartHookFails(r, i)
  BY <1>10, TouchingStep DEF StartHookFails, Stopping, Touching
<1>11. CASE StepFails(r, i)
  BY <1>11, TouchingStep DEF StepFails, Stopping, Touching
<1>. QED
  BY <1>1, <1>2, <1>3, <1>4, <1>5, <1>6, <1>7, <1>8, <1>9, <1>10, <1>11 DEF Progress

\* The end of an operation and the reaper whose restart it was.
LEMMA FinishReap ==
    ASSUME IInv, NEW ok \in BOOLEAN, Finish(ok)
    PROVE  /\ op' = Unlocked /\ op'.at = "free"
           /\ \A c \in Reaper :
                \/ reap[c].at # "restart" /\ reap'[c] = reap[c]
                \/ /\ reap[c].at = "restart" /\ c = "work"
                   /\ op.at \in Starting /\ op.restart /\ reap[c].runner = op.runner
                   /\ ok => reap'[c].at = "keys"
                   /\ ~ ok => reap'[c].at = "remove" /\ reap'[c].runner = op.runner
<1>1. op' = Unlocked /\ op'.at = "free"
  BY DEF Finish, Unlocked
<1>2. ASSUME NEW c \in Reaper, reap[c].at # "restart"
      PROVE  reap'[c] = reap[c]
  BY <1>2 DEF Finish
<1>3. ASSUME NEW c \in Reaper, reap[c].at = "restart"
      PROVE  /\ c = "work" /\ op.at \in Starting /\ op.restart /\ reap[c].runner = op.runner
             /\ ok => reap'[c].at = "keys"
             /\ ~ ok => reap'[c].at = "remove" /\ reap'[c].runner = op.runner
  <2>1. c = "work" /\ op.at \in Starting /\ op.restart /\ reap[c].runner = op.runner
    BY <1>3 DEF IInv, Order
  <2>2. CASE ok
    BY <1>3, <2>1, <2>2 DEF Finish
  <2>3. CASE ~ ok
    <3>1. reap'[c] = [reap[c] EXCEPT !.at = "remove"]
      BY <1>3, <2>3 DEF Finish
    <3>2. reap[c] \in [at : {"remove", "restart"}, runner : Runner, keys : SUBSET Runner,
                       handled : Nat, failed : BOOLEAN]
      BY <1>3, ReapCases DEF IInv, Types
    <3>. QED
      BY <2>1, <2>3, <3>1, <3>2
  <2>. QED
    BY <2>1, <2>2, <2>3
<1>. QED
  BY <1>1, <1>2, <1>3

\* A task is deleted that was the only one to use the storage, if any was.
LEMMA DeleteStep ==
    ASSUME IInv, NEW r \in Runner, NEW i \in Task,
           phase' = [phase EXCEPT ![r][i] = "gone"],
           Busy(r) => i = created[r]
    PROVE  /\ \A q \in Runner, j \in Task : phase'[q][j] \in Touching => phase[q][j] \in Touching
           /\ \A q \in Runner : Busy(q)' => Busy(q)
           /\ ~ Busy(r)'
<1>1. \A q \in Runner, j \in Task : phase'[q][j] \in Touching <=>
           phase[q][j] \in Touching /\ ~ (q = r /\ j = i)
  BY DEF IInv, Types, Touching
<1>2. \A q \in Runner : Busy(q)' => Busy(q)
  BY <1>1 DEF Busy
<1>3. \A j \in Task : phase[r][j] \in Touching => j = i
  BY DEF IInv, Storage, Busy
<1>4. ~ Busy(r)'
  BY <1>1, <1>3 DEF Busy
<1>. QED
  BY <1>1, <1>2, <1>4

LEMMA OperationStep == ASSUME IInv, Operation PROVE Storage' /\ Order'
<1>. USE DEF runner, task, callers
<1>0. /\ op.at \in Starting => op.runner \in Runner /\ op.restart \in BOOLEAN
      /\ op.at \in {"publish", "delete"} => op.runner \in Runner /\ op.victim \in Task
      /\ op.at \in Starting =>
           /\ [op EXCEPT !.at = "store"].at = "store"
           /\ [op EXCEPT !.at = "register"].at = "register"
           /\ [op EXCEPT !.at = "store"].runner = op.runner
           /\ [op EXCEPT !.at = "register"].runner = op.runner
           /\ [op EXCEPT !.at = "store"].restart = op.restart
           /\ [op EXCEPT !.at = "register"].restart = op.restart
      /\ op.at = "publish" =>
           /\ [op EXCEPT !.at = "delete"].at = "delete"
           /\ [op EXCEPT !.at = "delete"].runner = op.runner
           /\ [op EXCEPT !.at = "delete"].victim = op.victim
  BY OpCases DEF IInv, Types, Starting
<1>. SUFFICES ASSUME NEW r, r = op.runner PROVE Storage' /\ Order'
  OBVIOUS
<1>1. CASE CreateTask
  <2>1. /\ op.at = "create" /\ r \in Runner /\ op.at \in Starting
        /\ op' = [op EXCEPT !.at = "store"]
        /\ created' = [created EXCEPT ![r] = created[r] + 1]
        /\ created[r] + 1 \in Task
        /\ phase' = [phase EXCEPT ![r][created[r] + 1] = "born"]
        /\ UNCHANGED <<control, entry, life, handle, everStarted, stop, reap, ender>>
    BY <1>0, <1>1 DEF CreateTask, Starting
  <2>2. ~ Busy(r)
    BY <2>1 DEF IInv, Storage
  <2>3. \A q \in Runner, j \in Task : phase'[q][j] \in Touching <=>
            phase[q][j] \in Touching \/ (q = r /\ j = created[r] + 1)
    BY <2>1 DEF IInv, Types, Touching
  <2>4. \A q \in Runner \ {r} : (Busy(q)' <=> Busy(q)) /\ created'[q] = created[q]
    BY <2>1, <2>3 DEF Busy, IInv, Types
  <2>5. created'[r] = created[r] + 1
    BY <2>1 DEF IInv, Types
  <2>6. op'.at = "store" /\ op'.runner = r /\ op'.restart = op.restart
    BY <1>0, <2>1
  <2>7. ASSUME NEW q \in Runner, q # r
        PROVE  /\ \A i \in Task : phase'[q][i] \in Touching => i = created'[q]
               /\ Busy(q)' =>
                    /\ entry'[q] # "removed"
                    /\ stop'[q] = "none" \/ (op'.at = "delete" /\ op'.runner = q)
                    /\ everStarted'[q] \/ (op'.at \in {"store", "register"} /\ op'.runner = q)
                    /\ ~ (op'.at = "create" /\ op'.runner = q)
                    /\ \A c \in Reaper : ~ (reap'[c].at = "remove" /\ reap'[c].runner = q)
                    /\ handle'[q] \in {0, created'[q]} \/ (op'.at = "store" /\ op'.runner = q)
                    /\ op'.at \in {"publish", "delete"} /\ op'.runner = q => op'.victim = created'[q]
    BY <2>1, <2>3, <2>4, <2>6, <2>7 DEF IInv, Storage
  <2>8. /\ \A i \in Task : phase'[r][i] \in Touching => i = created'[r]
        /\ entry'[r] # "removed" /\ stop'[r] = "none"
        /\ \A c \in Reaper : ~ (reap'[c].at = "remove" /\ reap'[c].runner = r)
    BY <2>1, <2>2, <2>3, <2>5 DEF IInv, Order, Busy, Present
  <2>9. Storage'
    BY <2>6, <2>7, <2>8 DEF Storage
  <2>10. Order'
    BY <2>1, <2>6 DEF IInv, Order, NoRestartOnceAsked, Present, control, Starting
  <2>. QED
    BY <2>9, <2>10
<1>2. CASE CreateTaskFails
  <2>1. /\ op.at = "create" /\ r \in Runner /\ op.at \in Starting
        /\ Finish(FALSE)
        /\ UNCHANGED <<control, entry, handle, everStarted, stop, created, phase, ender>>
    BY <1>0, <1>2 DEF CreateTaskFails, Starting
  <2>2. \A c \in Reaper :
          \/ reap[c].at # "restart" /\ reap'[c] = reap[c]
          \/ /\ reap[c].at = "restart" /\ reap'[c].at = "remove" /\ c = "work" /\ op.restart
             /\ reap'[c].runner = r /\ reap[c].runner = r
    BY <2>1, FinishReap
  <2>3. ~ Busy(r)
    BY <2>1 DEF IInv, Storage
  <2>4. op'.at = "free"
    BY <2>1, FinishReap
  <2>5. Storage'
    BY <2>1, <2>2, <2>3, <2>4 DEF IInv, Storage, Busy
  <2>6. Order'
    BY <2>1, <2>2, <2>4 DEF IInv, Order, NoRestartOnceAsked, Present, control, Starting, Reaper
  <2>. QED
    BY <2>5, <2>6
<1>3. CASE StoreHandle
  <2>1. /\ op.at = "store" /\ r \in Runner /\ op.at \in Starting
        /\ handle' = [handle EXCEPT ![r] = created[r]]
        /\ UNCHANGED <<control, entry, everStarted, stop, created, phase, reap, ender>>
        /\ op'.at = "register" /\ op'.runner = r /\ op'.restart = op.restart
    BY <1>0, <1>3 DEF StoreHandle, Starting
  <2>2. handle'[r] = created[r] /\ \A q \in Runner \ {r} : handle'[q] = handle[q]
    BY <2>1 DEF IInv, Types
  <2>3. Storage'
    BY <2>1, <2>2 DEF IInv, Storage, Busy
  <2>4. Order'
    BY <2>1 DEF IInv, Order, NoRestartOnceAsked, Present, control, Starting
  <2>. QED
    BY <2>3, <2>4
<1>4. CASE RegisterHandle
  <2>1. /\ op.at = "register" /\ r \in Runner /\ op.at \in Starting
        /\ everStarted' = [everStarted EXCEPT ![r] = TRUE]
        /\ entry' = [entry EXCEPT ![r] = "configured"]
        /\ Finish(TRUE)
        /\ UNCHANGED <<control, handle, stop, created, phase, ender>>
    BY <1>0, <1>4 DEF RegisterHandle, Starting
  <2>2. \A c \in Reaper :
          \/ reap[c].at # "restart" /\ reap'[c] = reap[c]
          \/ reap[c].at = "restart" /\ reap'[c].at = "keys" /\ c = "work"
    BY <2>1, FinishReap
  <2>3. /\ everStarted'[r] /\ entry'[r] = "configured"
        /\ \A q \in Runner \ {r} : everStarted'[q] = everStarted[q] /\ entry'[q] = entry[q]
    BY <2>1 DEF IInv, Types
  <2>4. op'.at = "free"
    BY <2>1, FinishReap
  <2>5. Storage'
    BY <2>1, <2>2, <2>3, <2>4 DEF IInv, Storage, Busy
  <2>6. \A c \in Reaper : reap[c].at = "remove" => reap[c].runner \in Runner
    BY ReapCases DEF IInv, Types
  <2>7. Order'
    BY <2>1, <2>2, <2>3, <2>4, <2>6 DEF IInv, Order, NoRestartOnceAsked, control, Starting, Reaper
  <2>. QED
    BY <2>5, <2>7
<1>5. CASE RegisterHandleFails
  <2>1. /\ op.at = "register" /\ r \in Runner /\ op.at \in Starting
        /\ handle' = [handle EXCEPT ![r] = 0]
        /\ phase' = [phase EXCEPT ![r][created[r]] = "gone"]
        /\ Finish(FALSE)
        /\ UNCHANGED <<control, entry, everStarted, stop, created, ender>>
    BY <1>0, <1>5 DEF RegisterHandleFails, Starting, Deleted
  <2>2. \A c \in Reaper :
          \/ reap[c].at # "restart" /\ reap'[c] = reap[c]
          \/ /\ reap[c].at = "restart" /\ reap'[c].at = "remove" /\ c = "work" /\ op.restart
             /\ reap'[c].runner = r /\ reap[c].runner = r
    BY <2>1, FinishReap
  <2>3. /\ \A q \in Runner, j \in Task : phase'[q][j] \in Touching => phase[q][j] \in Touching
        /\ \A q \in Runner : Busy(q)' => Busy(q)
        /\ ~ Busy(r)'
    <3>1. created[r] \in Task
      BY <2>1 DEF IInv, Types, Created
    <3>. QED
      BY <2>1, <3>1, DeleteStep
  <2>4. op'.at = "free" /\ \A q \in Runner \ {r} : handle'[q] = handle[q]
    <3>1. op'.at = "free"
      BY <2>1, FinishReap
    <3>2. \A q \in Runner \ {r} : handle'[q] = handle[q]
      BY <2>1 DEF IInv, Types
    <3>. QED
      BY <3>1, <3>2
  <2>5. Storage'
    BY <2>1, <2>2, <2>3, <2>4 DEF IInv, Storage
  <2>6. Order'
    BY <2>1, <2>2, <2>4 DEF IInv, Order, NoRestartOnceAsked, Present, control, Starting, Reaper
  <2>. QED
    BY <2>5, <2>6
<1>6. CASE KillPublish
  <2>1. /\ op.at = "publish" /\ r \in Runner
        /\ op'.at = "delete" /\ op'.runner = r /\ op'.victim = op.victim
        /\ stop' = [stop EXCEPT ![r] = "killed"]
        /\ UNCHANGED <<control, entry, handle, everStarted, created, phase, reap, ender>>
    BY <1>0, <1>6 DEF KillPublish
  <2>2. \A q \in Runner \ {r} : stop'[q] = stop[q]
    BY <2>1 DEF IInv, Types
  <2>3. Storage'
    BY <2>1, <2>2 DEF IInv, Storage, Busy
  <2>4. Order'
    BY <2>1 DEF IInv, Order, NoRestartOnceAsked, Present, control, Starting
  <2>. QED
    BY <2>3, <2>4
<1>7. CASE KillDelete
  <2>1. /\ op.at = "delete" /\ r \in Runner /\ op.victim \in Task
        /\ op' = Killing
        /\ phase' = [phase EXCEPT ![r][op.victim] = "gone"]
        /\ UNCHANGED <<control, entry, handle, everStarted, stop, created, reap, ender>>
    BY <1>0, <1>7 DEF KillDelete, Deleted
  <2>2. Busy(r) => op.victim = created[r]
    BY <2>1 DEF IInv, Storage
  <2>3. /\ \A q \in Runner, j \in Task : phase'[q][j] \in Touching => phase[q][j] \in Touching
        /\ \A q \in Runner : Busy(q)' => Busy(q)
        /\ ~ Busy(r)'
    BY <2>1, <2>2, DeleteStep
  <2>4. Storage'
    <3>1. op'.at = "kill"
      BY <2>1 DEF Killing
    <3>. QED
      BY <2>1, <2>3, <3>1 DEF IInv, Storage
  <2>5. Order'
    BY <2>1 DEF IInv, Order, NoRestartOnceAsked, Present, control, Killing, Starting
  <2>. QED
    BY <2>4, <2>5
<1>. QED
  BY <1>1, <1>2, <1>3, <1>4, <1>5, <1>6, <1>7 DEF Operation

LEMMA OwnerStep ==
    ASSUME IInv, NEW r \in Runner,
           AddTask(r) \/ StartTask(r) \/ SignalDirect(r) \/ \E s \in {"ping", "stop"} : SignalTask(r, s)
    PROVE  Storage' /\ Order'
<1>. USE DEF runner, task, callers
<1>1. CASE AddTask(r)
  <2>1. /\ op.at = "free" /\ entry' = [entry EXCEPT ![r] = "added"]
        /\ UNCHANGED <<control, handle, everStarted, stop, created, phase, op, reap, ender>>
    BY <1>1 DEF AddTask, Unlocked
  <2>2. entry'[r] = "added" /\ \A q \in Runner \ {r} : entry'[q] = entry[q]
    BY <2>1 DEF IInv, Types
  <2>3. Storage'
    BY <2>1, <2>2 DEF IInv, Storage, Busy
  <2>4. Order'
    BY <2>1, <2>2 DEF IInv, Order, NoRestartOnceAsked, control, Starting
  <2>. QED
    BY <2>3, <2>4
<1>2. CASE StartTask(r)
  <2>1. /\ op.at = "free" /\ entry[r] = "added" /\ ~ everStarted[r]
        /\ stop' = [stop EXCEPT ![r] = "none"]
        /\ op' = [at |-> "create", runner |-> r, restart |-> FALSE]
        /\ UNCHANGED <<control, entry, handle, everStarted, created, phase, reap, ender>>
    BY <1>2 DEF StartTask, Begin, Unlocked
  <2>2. stop'[r] = "none" /\ \A q \in Runner \ {r} : stop'[q] = stop[q]
    BY <2>1 DEF IInv, Types
  <2>3. ~ Busy(r)
    BY <2>1 DEF IInv, Storage
  <2>4. op'.at = "create" /\ op'.runner = r /\ ~ op'.restart
    BY <2>1
  <2>5. Storage'
    BY <2>1, <2>2, <2>3, <2>4 DEF IInv, Storage, Busy
  <2>6. \A c \in Reaper : reap[c].at = "remove" => reap[c].runner # r
    BY <2>1 DEF IInv, Order
  <2>7. \A c \in Reaper : reap[c].at # "restart"
    BY <2>1 DEF IInv, Order, Starting
  <2>8. Order'
    BY <2>1, <2>2, <2>4, <2>6, <2>7 DEF IInv, Order, NoRestartOnceAsked, Present, control, Starting
  <2>. QED
    BY <2>5, <2>8
<1>3. CASE SignalDirect(r) \/ \E s \in {"ping", "stop"} : SignalTask(r, s)
  <2>1. UNCHANGED <<control, entry, handle, everStarted, stop, created, phase, op, reap, ender>>
    BY <1>3 DEF SignalDirect, SignalTask
  <2>2. Storage'
    BY <2>1 DEF IInv, Storage, Busy
  <2>3. Order'
    BY <2>1 DEF IInv, Order, NoRestartOnceAsked, Present, control
  <2>. QED
    BY <2>2, <2>3
<1>. QED
  BY <1>1, <1>2, <1>3

\* Reaping, as far as the reaper's place in the list of keys goes.
LEMMA KeysStep ==
    ASSUME IInv, NEW c \in Reaper, NEW v, v.at = "keys",
           reap' = [reap EXCEPT ![c] = v],
           c = "end" => ender.at = "reap",
           UNCHANGED <<control, entry, handle, everStarted, stop, created, phase, op, ender>>
    PROVE  Storage' /\ Order'
<1>1. reap'[c].at = "keys" /\ \A d \in Reaper \ {c} : reap'[d] = reap[d]
  BY DEF IInv, Types
<1>2. Storage'
  BY <1>1 DEF IInv, Storage, Busy
<1>3. Order'
  BY <1>1 DEF IInv, Order, NoRestartOnceAsked, Present, control, Reaper
<1>. QED
  BY <1>2, <1>3

LEMMA ReapingStep ==
    ASSUME IInv, NEW c \in Reaper, Reaping(c)
    PROVE  Storage' /\ Order'
<1>. USE DEF runner, task, callers
<1>1. CASE ReapKeys(c)
  <2>1. PICK keys \in SUBSET Runner :
          reap' = [reap EXCEPT ![c] = [at |-> "keys", keys |-> keys, handled |-> 0, failed |-> FALSE]]
    BY <1>1 DEF ReapKeys
  <2>2. /\ c = "end" => ender.at = "reap"
        /\ UNCHANGED <<control, entry, handle, everStarted, stop, created, phase, op, ender>>
    BY <1>1 DEF ReapKeys
  <2>. QED
    BY <2>1, <2>2, KeysStep
<1>2. CASE ReapRemove(c)
  <2>1. PICK r \in Runner : reap[c].at = "remove" /\ reap[c].runner = r
    BY <1>2, ReapCases DEF ReapRemove, IInv, Types
  <2>2. /\ op.at = "free" /\ entry' = [entry EXCEPT ![r] = "removed"]
        /\ UNCHANGED <<control, handle, everStarted, stop, created, phase, op, ender>>
    BY <1>2, <2>1 DEF ReapRemove, Unlocked
  <2>3. reap'[c].at = "keys" /\ \A d \in Reaper \ {c} : reap'[d] = reap[d]
    BY <1>2 DEF ReapRemove, IInv, Types
  <2>4. entry'[r] = "removed" /\ \A q \in Runner \ {r} : entry'[q] = entry[q]
    BY <2>2 DEF IInv, Types
  <2>5. ~ Busy(r)
    BY <2>1 DEF IInv, Storage
  <2>6. Storage'
    BY <2>2, <2>3, <2>4, <2>5 DEF IInv, Storage, Busy
  <2>7. Order'
    BY <2>1, <2>2, <2>3, <2>4 DEF IInv, Order, NoRestartOnceAsked, control, Starting, Reaper
  <2>. QED
    BY <2>6, <2>7
<1>3. ASSUME NEW r \in Runner, ReapFails(c, r) PROVE Storage' /\ Order'
  <2>1. PICK v : v = [reap[c] EXCEPT !.keys = @ \ {r}, !.failed = TRUE]
    OBVIOUS
  <2>2. reap[c] \in [at : {"keys"}, keys : SUBSET Runner, handled : Nat, failed : BOOLEAN]
    BY <1>3, ReapCases DEF ReapFails, IInv, Types
  <2>3. v.at = "keys"
    BY <2>1, <2>2
  <2>4. reap' = [reap EXCEPT ![c] = v]
    BY <1>3, <2>1 DEF ReapFails
  <2>5. /\ c = "end" => ender.at = "reap"
        /\ UNCHANGED <<control, entry, handle, everStarted, stop, created, phase, op, ender>>
    BY <1>3 DEF ReapFails, IInv, Order
  <2>. QED
    BY <2>3, <2>4, <2>5, KeysStep
<1>4. ASSUME NEW r \in Runner, ReapStopped(c, r) PROVE Storage' /\ Order'
  <2>1. /\ op.at = "free" /\ reap[c].at = "keys" /\ stop[r] # "none" /\ entry[r] = "configured"
        /\ UNCHANGED <<control, entry, handle, everStarted, stop, created, phase, op, ender>>
    BY <1>4 DEF ReapStopped, Unlocked
  <2>2. /\ reap'[c].at = "remove" /\ reap'[c].runner = r
        /\ \A d \in Reaper \ {c} : reap'[d] = reap[d]
    BY <1>4 DEF ReapStopped, IInv, Types
  <2>3. ~ Busy(r)
    BY <2>1 DEF IInv, Storage
  <2>4. Storage'
    BY <2>1, <2>2, <2>3 DEF IInv, Storage, Busy
  <2>5. Order'
    BY <2>1, <2>2 DEF IInv, Order, NoRestartOnceAsked, Present, control, Starting, Reaper
  <2>. QED
    BY <2>4, <2>5
<1>5. ASSUME NEW r \in Runner, ReapRestart(c, r) PROVE Storage' /\ Order'
  <2>1. /\ op.at = "free" /\ reap[c].at = "keys" /\ stop[r] # "none" /\ entry[r] = "configured"
        /\ permit
        /\ stop' = [stop EXCEPT ![r] = "none"]
        /\ op' = [at |-> "create", runner |-> r, restart |-> TRUE]
        /\ UNCHANGED <<control, entry, handle, everStarted, created, phase, ender>>
    BY <1>5 DEF ReapRestart, Restarts, Begin, Unlocked
  <2>2. /\ reap'[c].at = "restart" /\ reap'[c].runner = r
        /\ \A d \in Reaper \ {c} : reap'[d] = reap[d]
    BY <1>5 DEF ReapRestart, IInv, Types
  <2>3. /\ ender.at = "idle" /\ reap["end"].at = "idle"
        /\ c = "work" /\ \A d \in Reaper : d = c \/ d = "end"
    BY <2>1 DEF IInv, Order, Reaper
  <2>4. stop'[r] = "none" /\ \A q \in Runner \ {r} : stop'[q] = stop[q]
    BY <2>1 DEF IInv, Types
  <2>5. ~ Busy(r)
    BY <2>1 DEF IInv, Storage
  <2>6. op'.at = "create" /\ op'.runner = r /\ op'.restart
    BY <2>1
  <2>7. Storage'
    BY <2>1, <2>2, <2>4, <2>5, <2>6 DEF IInv, Storage, Busy
  <2>8. Order'
    BY <2>1, <2>2, <2>3, <2>4, <2>6 DEF IInv, Order, NoRestartOnceAsked, Present, control, Starting, Reaper
  <2>. QED
    BY <2>7, <2>8
<1>. QED
  BY <1>1, <1>2, <1>3, <1>4, <1>5 DEF Reaping

LEMMA EndingStep ==
    ASSUME IInv, Ending \/ EndController \/ BeginController \/ ReapDone
    PROVE  Storage' /\ Order'
<1>. USE DEF runner, task, callers
<1>1. CASE Terminate
  <2>1. /\ op.at = "free" /\ ender.at = "terminate"
        /\ UNCHANGED <<permit, entry, handle, everStarted, stop, created, phase, op, reap>>
    BY <1>1 DEF Terminate, Unlocked
  <2>2. Storage'
    BY <2>1 DEF IInv, Storage, Busy
  <2>3. Order'
    BY <2>1 DEF IInv, Order, NoRestartOnceAsked, Present, Starting
  <2>. QED
    BY <2>2, <2>3
<1>2. CASE EndDelay
  <2>1. /\ ender.at = "delay" /\ ender'.at = "reap"
        /\ UNCHANGED <<permit, entry, handle, everStarted, stop, created, phase, op, reap>>
    BY <1>2, EnderCases DEF EndDelay, IInv, Types, control
  <2>2. Storage'
    BY <2>1 DEF IInv, Storage, Busy
  <2>3. Order'
    BY <2>1 DEF IInv, Order, NoRestartOnceAsked, Present
  <2>. QED
    BY <2>2, <2>3
<1>3. CASE EndCheck
  <2>1. /\ ender.at = "reap"
        /\ UNCHANGED <<permit, entry, handle, everStarted, stop, created, phase, op>>
        /\ reap' = [reap EXCEPT !["end"] = NotReaping]
    BY <1>3 DEF EndCheck
  <2>2. reap'["end"].at = "idle" /\ reap'["work"] = reap["work"]
    BY <2>1 DEF IInv, Types, Reaper, NotReaping
  <2>3. Storage'
    BY <2>1, <2>2 DEF IInv, Storage, Busy, Reaper
  <2>4. Order'
    BY <2>1, <2>2 DEF IInv, Order, NoRestartOnceAsked, Present, Reaper
  <2>. QED
    BY <2>3, <2>4
<1>4. ASSUME NEW r \in Runner, KillTake(r) PROVE Storage' /\ Order'
  <2>1. /\ op.at \in {"free", "kill"} /\ ender.at = "kill"
        /\ UNCHANGED <<control, entry, everStarted, stop, created, phase, reap>>
    BY <1>4 DEF KillTake, Unlocked, Killing
  <2>2. ender'.at = "kill"
    BY <1>4, <2>1, EnderCases DEF KillTake, IInv, Types
  <2>3. CASE /\ handle[r] # 0 /\ handle' = [handle EXCEPT ![r] = 0]
             /\ op' = [at |-> "publish", runner |-> r, victim |-> handle[r]]
    <3>1. op'.at = "publish" /\ op'.runner = r /\ op'.victim = handle[r]
      BY <2>3
    <3>2. handle'[r] = 0 /\ \A q \in Runner \ {r} : handle'[q] = handle[q]
      BY <2>3 DEF IInv, Types
    <3>3. Storage'
      BY <2>1, <2>3, <3>1, <3>2 DEF IInv, Storage, Busy
    <3>4. Order'
      BY <2>1, <2>2, <3>1 DEF IInv, Order, NoRestartOnceAsked, Present, control, Starting
    <3>. QED
      BY <3>3, <3>4
  <2>4. CASE op' = Killing /\ UNCHANGED handle
    <3>1. op'.at = "kill"
      BY <2>4 DEF Killing
    <3>2. Storage'
      BY <2>1, <2>4, <3>1 DEF IInv, Storage, Busy
    <3>3. Order'
      BY <2>1, <2>2, <3>1 DEF IInv, Order, NoRestartOnceAsked, Present, control, Starting
    <3>. QED
      BY <3>2, <3>3
  <2>. QED
    BY <1>4, <2>3, <2>4 DEF KillTake
<1>5. CASE KillDone
  <2>1. /\ op.at = "kill" /\ op'.at = "free" /\ ender.at = "kill" /\ ender'.at = "idle"
        /\ UNCHANGED <<control, entry, handle, everStarted, stop, created, phase, reap>>
    BY <1>5 DEF KillDone, Killing, Unlocked, NotEnding
  <2>2. Storage'
    BY <2>1 DEF IInv, Storage, Busy
  <2>3. Order'
    BY <2>1 DEF IInv, Order, NoRestartOnceAsked, Present, control, Starting
  <2>. QED
    BY <2>2, <2>3
<1>6. CASE EndController
  <2>1. /\ ~ permit' /\ ender.at = "idle" /\ ender'.at = "terminate"
        /\ UNCHANGED <<entry, handle, everStarted, stop, created, phase, op, reap>>
    BY <1>6 DEF EndController
  <2>2. Storage'
    BY <2>1 DEF IInv, Storage, Busy
  <2>3. Order'
    BY <2>1 DEF IInv, Order, NoRestartOnceAsked, Present
  <2>. QED
    BY <2>2, <2>3
<1>7. CASE BeginController
  <2>1. /\ ender.at = "closed" /\ ender'.at = "idle"
        /\ UNCHANGED <<entry, handle, everStarted, stop, created, phase, op, reap>>
    BY <1>7 DEF BeginController, NotEnding
  <2>2. Storage'
    BY <2>1 DEF IInv, Storage, Busy
  <2>3. Order'
    BY <2>1 DEF IInv, Order, NoRestartOnceAsked, Present
  <2>. QED
    BY <2>2, <2>3
<1>8. CASE ReapDone
  <2>1. /\ reap'["work"].at = "idle" /\ reap'["end"] = reap["end"]
        /\ UNCHANGED <<control, entry, handle, everStarted, stop, created, phase, op, ender>>
    BY <1>8 DEF ReapDone, NotReaping, IInv, Types, Reaper
  <2>2. Storage'
    BY <2>1 DEF IInv, Storage, Busy, Reaper
  <2>3. Order'
    BY <2>1 DEF IInv, Order, NoRestartOnceAsked, Present, control, Reaper
  <2>. QED
    BY <2>2, <2>3
<1>. QED
  BY <1>1, <1>2, <1>3, <1>4, <1>5, <1>6, <1>7, <1>8 DEF Ending

LEMMA StepIInv == IInv /\ [Next]_vars => IInv'
<1>. SUFFICES ASSUME IInv, [Next]_vars PROVE Storage' /\ Order'
  BY StepTypes DEF IInv
<1>1. CASE UNCHANGED vars
  <2>1. UNCHANGED <<control, entry, handle, everStarted, stop, created, phase, op, reap, ender>>
    BY <1>1 DEF vars, runner, task, callers
  <2>2. Storage'
    BY <2>1 DEF IInv, Storage, Busy
  <2>3. Order'
    BY <2>1 DEF IInv, Order, NoRestartOnceAsked, Present, control
  <2>. QED
    BY <2>2, <2>3
<1>. QED
  BY <1>1, OperationStep, ProgressStep, OwnerStep, ReapingStep, EndingStep DEF Next

(***************************************************************************)
(* The theorems.                                                           *)
(***************************************************************************)

\* The inductive invariant holds in every reachable state, whatever is
\* started, signalled, reaped, ended and killed at the same time.
THEOREM Inductive == Spec => []IInv
BY InitIInv, StepIInv, PTL DEF Spec

\* Every variable of the controller, its runners and their tasks keeps its
\* type (Controller, Runner, Loop, Registry).
THEOREM TypeCorrect == Spec => []TypeOK
<1>1. IInv => TypeOK
  BY TypesOK DEF IInv
<1>. QED
  BY <1>1, Inductive, PTL

\* Reap destroys a Runner only after its task has finished with its storage,
\* and no two tasks use it at once (the comment in Runner::_run).
THEOREM Safe == Spec => []StorageSafe
<1>1. IInv => StorageSafe
  BY DEF IInv, Storage, Busy, StorageSafe
<1>. QED
  BY <1>1, Inductive, PTL

\* Once terminate has asked the runners to stop none is restarted, also when
\* Core's reap was under way (_permitRegistration, _handleStoppedRunner).
THEOREM NoneRestarted == Spec => []NoRestartOnceAsked
<1>1. IInv => NoRestartOnceAsked
  BY DEF IInv, Order
<1>. QED
  BY <1>1, Inductive, PTL
=============================================================================
