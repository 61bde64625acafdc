--------------------------- MODULE TaskController ---------------------------
(***************************************************************************)
(* The life of managed tasks: Controller and its directory of Runners, the *)
(* FreeRTOS tasks the Runners create, and the registry's table of managed  *)
(* handles.  A Runner creates a task for every start and restart; task i   *)
(* of runner r is its i-th.  The tasks run concurrently with each other    *)
(* and with the callers of the Controller: whoever starts and signals      *)
(* tasks, the main loop that reaps, and one that ends the controller.      *)
(*                                                                         *)
(* The directory's mutex is held while an operation on an entry runs; op   *)
(* is the operation that holds it across several steps, and every action   *)
(* that takes the mutex for one step needs it free.  Hooks, configuration  *)
(* other than autoRestart, metrics and snapshots are left out: a hook that *)
(* fails is a choice, and a handle is the number of its task.              *)
(***************************************************************************)
EXTENDS Integers, FiniteSets

CONSTANTS
    Runner,       \* the runners the owner may add, each once
    AutoRestart,  \* those whose config has autoRestart
    ManagedMax,   \* managedTaskCountMax
    MaxTasks,     \* bound: tasks a runner can create before memory is out
    MaxEnds       \* bound: calls of end()

Task == 1 .. MaxTasks
Reaper == {"work", "end"}   \* Core::work's reap, and the one in _onEnd

ASSUME TaskControllerAssumption ==
    /\ AutoRestart \subseteq Runner /\ IsFiniteSet(Runner)
    /\ ManagedMax \in Nat /\ MaxTasks \in Nat \ {0} /\ MaxEnds \in Nat

VARIABLES
    active,      \* Lifecycle::_active
    permit,      \* _permitRegistration, the directory's and the controller's
    entry,       \* the runner's directory entry, and whether it has a config
    life,        \* StateManager::_state
    handle,      \* Runner::_handle and _isrSignalHandle; 0 is nullptr
    everStarted, \* Runner::_hasEverStarted
    stop,        \* Runner::_stopResult, "none" while _hasStopResult is false
    created,     \* tasks the runner has created
    phase,       \* where a task is in Runner::_run
    native,      \* its nativeHandle
    outcome,     \* its result
    note,        \* its pending notification
    managed,     \* Registry::_managedTaskHandles
    op,          \* the operation that holds the directory's mutex
    reap,        \* where each caller of reap() is
    ender,       \* where _onEnd is, and the runners it asked to stop
    ends         \* calls of end() so far

control == <<active, permit, ends>>
runner == <<entry, life, handle, everStarted, stop, created>>
task == <<phase, native, outcome, note>>
callers == <<op, reap, ender>>
vars == <<control, runner, task, managed, callers>>

\* The phases in which a task still uses the storage of its Runner.
Touching == {"born", "init", "loop", "stopping", "clear", "deregister", "publish"}
Alive == Touching \cup {"deleting"}

Unlocked == [at |-> "free"]
Killing == [at |-> "kill"]   \* killAll, between two runners
NotReaping == [at |-> "idle"]
NotEnding == [at |-> "idle"]

TypeOK ==
    /\ active \in BOOLEAN /\ permit \in BOOLEAN
    /\ entry \in [Runner -> {"none", "added", "configured", "removed"}]
    /\ life \in [Runner -> {"Stopped", "Starting", "Running", "Stopping"}]
    /\ handle \in [Runner -> Task \cup {0}]
    /\ everStarted \in [Runner -> BOOLEAN]
    /\ stop \in [Runner -> {"none", "clean", "error", "killed"}]
    /\ created \in [Runner -> Task \cup {0}]
    /\ phase \in [Runner -> [Task -> Alive \cup {"none", "gone"}]]
    /\ native \in [Runner -> [Task -> Task \cup {0}]]
    /\ outcome \in [Runner -> [Task -> {"clean", "error"}]]
    /\ note \in [Runner -> [Task -> {"none", "ping", "stop"}]]
    /\ managed \subseteq Runner \X Task
    /\ op \in {Unlocked, Killing}
         \cup [at : {"create", "store", "register"}, runner : Runner, restart : BOOLEAN]
         \cup [at : {"publish", "delete"}, runner : Runner, victim : Task]
    /\ reap \in [Reaper -> {NotReaping}
         \cup [at : {"keys"}, keys : SUBSET Runner, handled : Nat, failed : BOOLEAN]
         \cup [at : {"remove", "restart"}, runner : Runner, keys : SUBSET Runner,
               handled : Nat, failed : BOOLEAN]]
    /\ ender \in {NotEnding} \cup [at : {"terminate"}]
         \cup [at : {"delay", "reap", "closed"}, asked : SUBSET Runner]
         \cup [at : {"kill"}, todo : SUBSET Runner]
    /\ ends \in 0 .. MaxEnds

Init ==
    /\ active = TRUE /\ permit = TRUE /\ ends = 0
    /\ entry = [r \in Runner |-> "none"]
    /\ life = [r \in Runner |-> "Stopped"]
    /\ handle = [r \in Runner |-> 0]
    /\ everStarted = [r \in Runner |-> FALSE]
    /\ stop = [r \in Runner |-> "none"]
    /\ created = [r \in Runner |-> 0]
    /\ phase = [r \in Runner |-> [i \in Task |-> "none"]]
    /\ native = [r \in Runner |-> [i \in Task |-> 0]]
    /\ outcome = [r \in Runner |-> [i \in Task |-> "clean"]]
    /\ note = [r \in Runner |-> [i \in Task |-> "none"]]
    /\ managed = {}
    /\ op = Unlocked
    /\ reap = [c \in Reaper |-> NotReaping]
    /\ ender = NotEnding

\* A task that is deleted takes its stack and its notification with it.
Deleted(r, i) ==
    /\ phase' = [phase EXCEPT ![r][i] = "gone"]
    /\ native' = [native EXCEPT ![r][i] = 0]
    /\ outcome' = [outcome EXCEPT ![r][i] = "clean"]
    /\ note' = [note EXCEPT ![r][i] = "none"]

Present(r) == entry[r] \in {"added", "configured"}

(***************************************************************************)
(* Adding, starting and restarting, under the directory's mutex.           *)
(***************************************************************************)

AddTask(r) ==
    /\ op = Unlocked
    /\ active /\ permit
    /\ entry[r] = "none"
    /\ entry' = [entry EXCEPT ![r] = "added"]
    /\ UNCHANGED <<control, life, handle, everStarted, stop, created, task, managed, callers>>

\* StateManager::tryStart and the reset of the stop result.
Begin(r, isRestart) ==
    /\ life[r] = "Stopped"
    /\ life' = [life EXCEPT ![r] = "Starting"]
    /\ stop' = [stop EXCEPT ![r] = "none"]
    /\ op' = [at |-> "create", runner |-> r, restart |-> isRestart]

StartTask(r) ==
    /\ op = Unlocked
    /\ active
    /\ entry[r] = "added" /\ ~ everStarted[r]
    /\ Begin(r, FALSE)
    /\ UNCHANGED <<control, entry, handle, everStarted, created, task, managed, reap, ender>>

\* The operation ends: the mutex is free, and a reaper whose restart this was
\* goes on to its next key, or has to remove the entry.
Finish(ok) ==
    /\ op' = Unlocked
    /\ reap' = [c \in Reaper |->
         IF reap[c].at # "restart" THEN reap[c]
         ELSE IF ok THEN [at |-> "keys", keys |-> reap[c].keys,
                          handled |-> reap[c].handled + 1, failed |-> reap[c].failed]
         ELSE [reap[c] EXCEPT !.at = "remove"]]

\* Mutant: the result of create_task is not looked at.
CreateTaskUnchecked ==
    /\ op.at = "create"
    /\ created' = [created EXCEPT ![op.runner] = @ + 1]
    /\ phase' = [phase EXCEPT ![op.runner] =
                    [i \in Task |-> IF i = created[op.runner] + 1 THEN "born" ELSE @[i]]]
    /\ op' = [op EXCEPT !.at = "store"]
    /\ UNCHANGED <<control, entry, life, handle, everStarted, stop, native, outcome, note,
                   managed, reap, ender>>

CreateTask ==
    /\ op.at = "create"
    /\ LET r == op.runner
           i == created[r] + 1
       IN  /\ i \in Task
           /\ created' = [created EXCEPT ![r] = i]
           /\ phase' = [phase EXCEPT ![r][i] = "born"]
    /\ op' = [op EXCEPT !.at = "store"]
    /\ UNCHANGED <<control, entry, life, handle, everStarted, stop, native, outcome, note,
                   managed, reap, ender>>

CreateTaskFails ==
    /\ op.at = "create"
    /\ life' = [life EXCEPT ![op.runner] = "Stopped"]
    /\ Finish(FALSE)
    /\ UNCHANGED <<control, entry, handle, everStarted, stop, created, task, managed, ender>>

StoreHandle ==
    /\ op.at = "store"
    /\ handle' = [handle EXCEPT ![op.runner] = created[op.runner]]
    /\ op' = [op EXCEPT !.at = "register"]
    /\ UNCHANGED <<control, entry, life, everStarted, stop, created, task, managed, reap, ender>>

RegisterHandle ==
    /\ op.at = "register"
    /\ Cardinality(managed) < ManagedMax
    /\ managed' = managed \cup {<<op.runner, created[op.runner]>>}
    /\ everStarted' = [everStarted EXCEPT ![op.runner] = TRUE]
    /\ entry' = [entry EXCEPT ![op.runner] = "configured"]
    /\ Finish(TRUE)
    /\ UNCHANGED <<control, life, handle, stop, created, task, ender>>

\* The task is killed, whatever it has got to in the meantime.
RegisterHandleFails ==
    /\ op.at = "register"
    /\ Cardinality(managed) >= ManagedMax
    /\ LET r == op.runner
       IN  /\ handle' = [handle EXCEPT ![r] = 0]
           /\ Deleted(r, created[r])
           /\ life' = [life EXCEPT ![r] = "Stopped"]
    /\ Finish(FALSE)
    /\ UNCHANGED <<control, entry, everStarted, stop, created, managed, ender>>

(***************************************************************************)
(* The task: Runner::_run and Loop::run.                                   *)
(***************************************************************************)

ReadHandle(r, i) ==
    /\ phase[r][i] = "born"
    /\ phase' = [phase EXCEPT ![r][i] = "init"]
    /\ native' = [native EXCEPT ![r][i] = handle[r]]
    /\ UNCHANGED <<control, runner, outcome, note, managed, callers>>

\* Leaving the loop, or an initialisation that failed, for onStop.
Stopping(r, i, result) ==
    /\ phase' = [phase EXCEPT ![r][i] = "stopping"]
    /\ outcome' = [outcome EXCEPT ![r][i] = result]
    /\ life' = [life EXCEPT ![r] = "Stopping"]

InitLoop(r, i) ==
    /\ phase[r][i] = "init"
    /\ IF life[r] = "Starting"
       THEN /\ life' = [life EXCEPT ![r] = "Running"]
            /\ phase' = [phase EXCEPT ![r][i] = "loop"]
            /\ UNCHANGED outcome
       ELSE /\ life' = [life EXCEPT ![r] = "Stopped"]
            /\ phase' = [phase EXCEPT ![r][i] = "clear"]
            /\ outcome' = [outcome EXCEPT ![r][i] = "error"]
    /\ UNCHANGED <<control, entry, handle, everStarted, stop, created, native, note, managed,
                   callers>>

StartHookFails(r, i) ==
    /\ phase[r][i] = "init"
    /\ life[r] = "Starting"
    /\ Stopping(r, i, "error")
    /\ UNCHANGED <<control, entry, handle, everStarted, stop, created, native, note, managed,
                   callers>>

TakePing(r, i) ==
    /\ phase[r][i] = "loop" /\ note[r][i] = "ping"
    /\ note' = [note EXCEPT ![r][i] = "none"]
    /\ UNCHANGED <<control, runner, phase, native, outcome, managed, callers>>

TakeStop(r, i) ==
    /\ phase[r][i] = "loop" /\ note[r][i] = "stop"
    /\ note' = [note EXCEPT ![r][i] = "none"]
    /\ Stopping(r, i, "clean")
    /\ UNCHANGED <<control, entry, handle, everStarted, stop, created, native, managed, callers>>

\* onStep, onNotify or the wait for a signal fails.
StepFails(r, i) ==
    /\ phase[r][i] = "loop"
    /\ Stopping(r, i, "error")
    /\ UNCHANGED <<control, entry, handle, everStarted, stop, created, native, note, managed,
                   callers>>

Shutdown(r, i) ==
    /\ phase[r][i] = "stopping"
    /\ phase' = [phase EXCEPT ![r][i] = "clear"]
    /\ life' = [life EXCEPT ![r] = "Stopped"]
    /\ \E stopHook \in {"ok", "failed"} :
         outcome' = IF stopHook = "ok" THEN outcome ELSE [outcome EXCEPT ![r][i] = "error"]
    /\ UNCHANGED <<control, entry, handle, everStarted, stop, created, native, note, managed,
                   callers>>

\* Mutant: the stop is published together with the handle.
ClearHandleAndPublish(r, i) ==
    /\ phase[r][i] = "clear"
    /\ phase' = [phase EXCEPT ![r][i] = "deregister"]
    /\ handle' = [handle EXCEPT ![r] = 0]
    /\ stop' = [stop EXCEPT ![r] = outcome[r][i]]
    /\ UNCHANGED <<control, entry, life, everStarted, created, native, outcome, note,
                   managed, callers>>

ClearHandle(r, i) ==
    /\ phase[r][i] = "clear"
    /\ phase' = [phase EXCEPT ![r][i] = "deregister"]
    /\ handle' = [handle EXCEPT ![r] = 0]
    /\ UNCHANGED <<control, entry, life, everStarted, stop, created, native, outcome, note,
                   managed, callers>>

Deregister(r, i) ==
    /\ phase[r][i] = "deregister"
    /\ phase' = [phase EXCEPT ![r][i] = "publish"]
    /\ managed' = managed \ {<<r, native[r][i]>>}
    /\ UNCHANGED <<control, runner, native, outcome, note, callers>>

PublishStop(r, i) ==
    /\ phase[r][i] = "publish"
    /\ phase' = [phase EXCEPT ![r][i] = "deleting"]
    /\ stop' = [stop EXCEPT ![r] = outcome[r][i]]
    /\ UNCHANGED <<control, entry, life, handle, everStarted, created, native, outcome, note,
                   managed, callers>>

DeleteCurrent(r, i) ==
    /\ phase[r][i] = "deleting"
    /\ Deleted(r, i)
    /\ UNCHANGED <<control, runner, managed, callers>>

(***************************************************************************)
(* Signals.  A notification overwrites the one before it.                  *)
(***************************************************************************)

Notify(S, signal) ==
    note' = [r \in Runner |-> [i \in Task |->
               IF r \in S /\ i = handle[r] /\ phase[r][i] # "gone" THEN signal ELSE note[r][i]]]

\* stopTask and signalTask.
SignalTask(r, signal) ==
    /\ op = Unlocked
    /\ active
    /\ Present(r) /\ everStarted[r] /\ stop[r] = "none" /\ handle[r] # 0
    /\ Notify({r}, signal)
    /\ UNCHANGED <<control, runner, phase, native, outcome, managed, callers>>

\* signalTaskDirect and signalTaskFromIsr take neither lock.
SignalDirect(r) ==
    /\ Present(r) /\ handle[r] # 0
    /\ Notify({r}, "ping")
    /\ UNCHANGED <<control, runner, phase, native, outcome, managed, callers>>

(***************************************************************************)
(* Controller::reap, called by Core::work and by _onEnd.                   *)
(***************************************************************************)

ReapKeys(c) ==
    /\ op = Unlocked
    /\ active
    /\ reap[c].at = "idle"
    /\ c = "end" => ender.at = "reap"
    /\ LET keys == {r \in Runner : Present(r) /\ stop[r] # "none"}
       IN  /\ c = "work" => keys # {}
           /\ reap' = [reap EXCEPT ![c] = [at |-> "keys", keys |-> keys, handled |-> 0,
                                           failed |-> FALSE]]
    /\ UNCHANGED <<control, runner, task, managed, op, ender>>

\* Mutant: a termination that was requested is not looked at.
RestartsAlways(r) == stop[r] # "clean" /\ r \in AutoRestart

Restarts(r) == stop[r] # "clean" /\ permit /\ r \in AutoRestart

\* The entry is gone, runs again or has no config: an error, and the next key.
ReapFails(c, r) ==
    /\ op = Unlocked
    /\ reap[c].at = "keys" /\ r \in reap[c].keys
    /\ stop[r] = "none" \/ entry[r] # "configured"
    /\ reap' = [reap EXCEPT ![c].keys = @ \ {r}, ![c].failed = TRUE]
    /\ UNCHANGED <<control, runner, task, managed, op, ender>>

\* Mutant: removeEntry is not set for a runner that is not restarted.
ReapStoppedKept(c, r) ==
    /\ op = Unlocked
    /\ reap[c].at = "keys" /\ r \in reap[c].keys
    /\ stop[r] # "none" /\ entry[r] = "configured"
    /\ ~ Restarts(r) \/ life[r] # "Stopped"
    /\ reap' = [reap EXCEPT ![c].keys = @ \ {r}, ![c].handled = @ + 1]
    /\ UNCHANGED <<control, runner, task, managed, op, ender>>

\* _handleStoppedRunner, without and with a restart.
ReapStopped(c, r) ==
    /\ op = Unlocked
    /\ reap[c].at = "keys" /\ r \in reap[c].keys
    /\ stop[r] # "none" /\ entry[r] = "configured"
    /\ ~ Restarts(r) \/ life[r] # "Stopped"
    /\ reap' = [reap EXCEPT ![c] = [at |-> "remove", runner |-> r, keys |-> @.keys \ {r},
                                    handled |-> @.handled, failed |-> @.failed]]
    /\ UNCHANGED <<control, runner, task, managed, op, ender>>

ReapRestart(c, r) ==
    /\ op = Unlocked
    /\ reap[c].at = "keys" /\ r \in reap[c].keys
    /\ stop[r] # "none" /\ entry[r] = "configured"
    /\ Restarts(r)
    /\ Begin(r, TRUE)
    /\ reap' = [reap EXCEPT ![c] = [at |-> "restart", runner |-> r, keys |-> @.keys \ {r},
                                    handled |-> @.handled, failed |-> @.failed]]
    /\ UNCHANGED <<control, entry, handle, everStarted, created, task, managed, ender>>

\* Directory::remove destroys the Runner.
ReapRemove(c) ==
    /\ op = Unlocked
    /\ reap[c].at = "remove"
    /\ LET r == reap[c].runner
       IN  /\ entry' = [entry EXCEPT ![r] = "removed"]
           /\ reap' = [reap EXCEPT ![c] =
                [at |-> "keys", keys |-> @.keys,
                 handled |-> IF Present(r) THEN @.handled + 1 ELSE @.handled,
                 failed |-> @.failed \/ ~ Present(r)]]
    /\ UNCHANGED <<control, life, handle, everStarted, stop, created, task, managed, op, ender>>

ReapDone ==
    /\ reap["work"].at = "keys" /\ reap["work"].keys = {}
    /\ reap' = [reap EXCEPT !["work"] = NotReaping]
    /\ UNCHANGED <<control, runner, task, managed, op, ender>>

(***************************************************************************)
(* Controller::end and begin.                                              *)
(***************************************************************************)

EndController ==
    /\ active /\ ender.at = "idle" /\ ends < MaxEnds
    /\ ends' = ends + 1
    /\ permit' = FALSE
    /\ ender' = [at |-> "terminate"]
    /\ UNCHANGED <<active, runner, task, managed, op, reap>>

\* A runner without a handle cannot be asked to stop: terminate fails.  The
\* controller is closed at once when there is nobody to ask.
Terminate ==
    /\ op = Unlocked
    /\ ender.at = "terminate"
    /\ LET running == {r \in Runner : Present(r) /\ everStarted[r] /\ stop[r] = "none"}
           asked == {r \in running : handle[r] # 0}
       IN  /\ Notify(asked, "stop")
           /\ ender' = IF asked # running THEN NotEnding
                       ELSE [at |-> IF asked = {} THEN "closed" ELSE "delay", asked |-> asked]
           /\ active' = (running # {})
    /\ UNCHANGED <<permit, ends, runner, phase, native, outcome, managed, op, reap>>

EndDelay ==
    /\ ender.at = "delay"
    /\ ender' = [ender EXCEPT !.at = "reap"]
    /\ UNCHANGED <<control, runner, task, managed, op, reap>>

\* As many reaped as were asked to stop: closed.  Otherwise all are killed,
\* unless reap failed.
EndCheck ==
    /\ ender.at = "reap"
    /\ reap["end"].at = "keys" /\ reap["end"].keys = {}
    /\ LET failed == reap["end"].failed
           closed == ~ failed /\ reap["end"].handled = Cardinality(ender.asked)
       IN  /\ active' = ~ closed
           /\ ender' = IF failed THEN NotEnding
                       ELSE IF closed THEN [ender EXCEPT !.at = "closed"]
                       ELSE [at |-> "kill", todo |-> Runner]
    /\ reap' = [reap EXCEPT !["end"] = NotReaping]
    /\ UNCHANGED <<permit, ends, runner, task, managed, op>>

\* killAll holds the mutex for all runners.  Runner::kill takes the handle,
\* publishes the stop, then deletes the task.
KillTake(r) ==
    /\ op \in {Unlocked, Killing}
    /\ ender.at = "kill" /\ r \in ender.todo
    /\ ender' = [ender EXCEPT !.todo = @ \ {r}]
    /\ IF Present(r) /\ everStarted[r] /\ stop[r] = "none" /\ handle[r] # 0
       THEN /\ op' = [at |-> "publish", runner |-> r, victim |-> handle[r]]
            /\ handle' = [handle EXCEPT ![r] = 0]
       ELSE op' = Killing /\ UNCHANGED handle
    /\ UNCHANGED <<control, entry, life, everStarted, stop, created, task, managed, reap>>

KillPublish ==
    /\ op.at = "publish"
    /\ life' = [life EXCEPT ![op.runner] = "Stopped"]
    /\ stop' = [stop EXCEPT ![op.runner] = "killed"]
    /\ op' = [op EXCEPT !.at = "delete"]
    /\ UNCHANGED <<control, entry, handle, everStarted, created, task, managed, reap, ender>>

KillDelete ==
    /\ op.at = "delete"
    /\ managed' = managed \ {<<op.runner, op.victim>>}
    /\ Deleted(op.runner, op.victim)
    /\ op' = Killing
    /\ UNCHANGED <<control, runner, reap, ender>>

KillDone ==
    /\ op = Killing
    /\ ender.at = "kill" /\ ender.todo = {}
    /\ op' = Unlocked
    /\ ender' = NotEnding
    /\ UNCHANGED <<control, runner, task, managed, reap>>

BeginController ==
    /\ ender.at = "closed"
    /\ active' = TRUE /\ permit' = TRUE
    /\ ender' = NotEnding
    /\ UNCHANGED <<ends, runner, task, managed, op, reap>>

Operation == CreateTask \/ CreateTaskFails \/ StoreHandle \/ RegisterHandle
             \/ RegisterHandleFails \/ KillPublish \/ KillDelete
Progress(r, i) == ReadHandle(r, i) \/ InitLoop(r, i) \/ TakePing(r, i) \/ TakeStop(r, i)
                  \/ Shutdown(r, i) \/ ClearHandle(r, i) \/ Deregister(r, i)
                  \/ PublishStop(r, i) \/ DeleteCurrent(r, i)
Reaping(c) == ReapKeys(c) \/ ReapRemove(c)
              \/ \E r \in Runner : ReapFails(c, r) \/ ReapStopped(c, r) \/ ReapRestart(c, r)
Ending == Terminate \/ EndDelay \/ EndCheck \/ (\E r \in Runner : KillTake(r)) \/ KillDone

Next ==
    \/ \E r \in Runner : AddTask(r) \/ StartTask(r) \/ SignalDirect(r)
                         \/ \E s \in {"ping", "stop"} : SignalTask(r, s)
    \/ \E r \in Runner, i \in Task :
         Progress(r, i) \/ StartHookFails(r, i) \/ StepFails(r, i)
    \/ \E c \in Reaper : Reaping(c)
    \/ ReapDone \/ Operation \/ Ending \/ EndController \/ BeginController

\* Every task that can run is scheduled, an operation that holds the mutex
\* ends, and a caller waiting for the mutex is given it in the end.  Hooks
\* need not fail, and nobody has to start, signal or end anything.
Fairness ==
    /\ WF_vars(Operation) /\ WF_vars(Ending) /\ WF_vars(ReapDone)
    /\ \A c \in Reaper : SF_vars(Reaping(c))
    /\ \A r \in Runner, i \in Task : WF_vars(Progress(r, i))

Spec == Init /\ [][Next]_vars
FairSpec == Spec /\ Fairness

\* Reap destroys a Runner only after its tasks have finished touching its
\* storage (the comment in Runner::_run), and no two tasks use it at once.
StorageSafe ==
    \A r \in Runner :
        /\ entry[r] = "removed" => \A i \in Task : phase[r][i] \notin Touching
        /\ \A i, j \in Task :
             phase[r][i] \in Touching /\ phase[r][j] \in Touching => i = j

\* A runner that has stopped is restarted or removed by reap in the end,
\* unless the controller is closed.
StoppedIsReaped ==
    \A r \in Runner :
        (entry[r] = "configured" /\ stop[r] # "none")
          ~> (stop[r] = "none" \/ entry[r] = "removed" \/ ~ active)

\* Once terminate has asked the runners to stop, reap restarts none of them
\* (the check of _permitRegistration in _handleStoppedRunner).
NoRestartOnceAsked ==
    ender.at \in {"delay", "reap", "kill"} /\ op.at \in {"create", "store", "register"}
      => ~ op.restart

\* _onEnd reports the controller "closed successfully" only when every runner
\* it asked to stop has stopped.
ClosedMeansStopped ==
    ender.at = "closed" =>
        \A r \in ender.asked : stop[r] # "none" \/ entry[r] = "removed"

\* The task created for a restart does not share its runner's static control
\* block and stack with a task that has not been deleted: the stopped state is
\* published when the task has finished with the storage.
ExclusiveStack ==
    \A r \in Runner, i, j \in Task : phase[r][i] \in Alive /\ phase[r][j] \in Alive => i = j
=============================================================================
