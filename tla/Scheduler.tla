----------------------------- MODULE Scheduler -----------------------------
(***************************************************************************)
(* Scheduled tasks (scheduler.go: Scheduler, register, deregister, fire,   *)
(* AddTask, PauseTask, ResumeTask, CancelTask, UpdateTask, removeByID).    *)
(*                                                                         *)
(* A recurring task is an entry of the cron library; a one-shot is a       *)
(* goroutine that waits for its timer or for its stop channel.  fire drops *)
(* the lock for the script pre-check (up to 30 s) and the goroutine takes  *)
(* it again to remove a fired one-shot.  Each critical section of          *)
(* Scheduler.mu is one action; every one that changes tasks saves them.    *)
(***************************************************************************)
EXTENDS Naturals, FiniteSets

CONSTANTS Tasks,        \* task IDs, never reused
          Jobs,         \* bound: goroutines of the scheduler at once
          NoJob,
          KindOf,       \* the schedule each task is created with
          DepsOf,       \* --depends-on at creation
          NewDeps,      \* what !task update --depends-on may say
          NewKinds,     \* what !task update --cron may say
          Scripted,     \* tasks with a script pre-check
          MaxCommands,  \* bound: !task commands on existing tasks
          MaxTicks,     \* bound: cron ticks
          MaxCrashes    \* bound: process restarts

(* A cron expression that does not parse is a "bad" schedule.              *)
Kinds == {"once", "cron", "bad"}

ASSUME SchedulerAssumption ==
    /\ NoJob \notin Jobs /\ IsFiniteSet(Jobs)
    /\ KindOf \in [Tasks -> {"once", "cron"}]
    /\ DepsOf \in [Tasks -> SUBSET Tasks]
    /\ NewDeps \subseteq SUBSET Tasks
    /\ NewKinds \subseteq {"cron", "bad"}
    /\ Scripted \subseteq Tasks
    /\ MaxCommands \in Nat /\ MaxTicks \in Nat /\ MaxCrashes \in Nat

VARIABLES
    started,      \* Run has registered the tasks it loaded
    status,       \* Task.Status in memory; "absent" before AddTask, "gone" after removeByID
    saved,        \* the same in tasks.json
    kind,         \* CronExpr = "" is "once"
    deps,         \* Task.DependsOn
    cronEntries,  \* keys of s.cronEntries
    runner,       \* entries the cron library holds for each task
    stopChs,      \* s.stopChs: the goroutine whose channel it holds
    job,          \* each goroutine: where it is, its task, whether register started it
    fired,        \* history: turns or notifications handed out, per task
    skipped,      \* history: tasks whose pre-check said wakeAgent = false
    rearmed,      \* history: registrations of a task after its first
    commands, ticks, crashes

tasksVars == <<status, saved, kind, deps>>
regVars   == <<cronEntries, runner, stopChs, job>>
firedVars == <<fired, skipped>>
bounds    == <<commands, ticks, crashes>>
vars == <<started, tasksVars, regVars, firedVars, rearmed, bounds>>

Statuses == {"absent", "pending", "paused", "cancelled", "gone"}
(* A goroutine waits for its timer, then for the lock in fire, then for    *)
(* the script, then for the lock to remove the task.                       *)
Stages == {"armed", "due", "script", "removing"}
Idle == [at |-> "idle"]
Goroutine(t, at, timer) == [at |-> at, task |-> t, timer |-> timer]

Present(t) == status[t] \notin {"absent", "gone"}

Init ==
    /\ started = FALSE
    /\ status = [t \in Tasks |-> "absent"] /\ saved = status
    /\ kind = KindOf /\ deps = DepsOf
    /\ cronEntries = {} /\ runner = [t \in Tasks |-> 0]
    /\ stopChs = [t \in Tasks |-> NoJob]
    /\ job = [j \in Jobs |-> Idle]
    /\ fired = [t \in Tasks |-> 0] /\ skipped = {}
    /\ rearmed = [t \in Tasks |-> 0]
    /\ commands = 0 /\ ticks = 0 /\ crashes = 0

-----------------------------------------------------------------------------
(* Mistaken: the library's entry stays; the one-shot's channel stays in    *)
(* the map.                                                                *)
RunnerKept(t) == runner
ChannelsKept(t) == stopChs

(* deregister: the library forgets the entry; closing the channel ends the *)
(* goroutine unless its timer already won the select.                      *)
Quiet(t) == [j \in Jobs |-> IF j = stopChs[t] /\ job[j].at = "armed" THEN Idle ELSE job[j]]
RunnerWithout(t) == [runner EXCEPT ![t] = IF t \in cronEntries THEN @ - 1 ELSE @]
ChannelsWithout(t) == [stopChs EXCEPT ![t] = NoJob]

Deregister(t) ==
    /\ cronEntries' = cronEntries \ {t}
    /\ runner' = RunnerWithout(t)
    /\ stopChs' = ChannelsWithout(t)
    /\ job' = Quiet(t)

(* register, from the given goroutines, library entries and maps: both     *)
(* maps are overwritten whatever they held.                                *)
Register(t, k, jobs, entries, keys, channels) ==
    \/ /\ k = "cron"
       /\ cronEntries' = keys \cup {t}
       /\ runner' = [entries EXCEPT ![t] = @ + 1]
       /\ stopChs' = channels /\ job' = jobs
    \/ /\ k = "once"
       /\ cronEntries' = keys /\ runner' = entries
       /\ \E j \in Jobs : jobs[j] = Idle
       /\ LET j == CHOOSE i \in Jobs : jobs[i] = Idle IN
          /\ stopChs' = [channels EXCEPT ![t] = j]
          /\ job' = [jobs EXCEPT ![j] = Goroutine(t, "armed", TRUE)]

Reregister(t, k, jobs) ==
    Register(t, k, jobs, RunnerWithout(t), cronEntries \ {t}, ChannelsWithout(t))

-----------------------------------------------------------------------------
(* Run: registers every task tasks.json holds as pending.                  *)
Run ==
    LET pending(k) == {t \in Tasks : status[t] = "pending" /\ kind[t] = k} IN
    /\ ~started /\ started' = TRUE
    /\ cronEntries' = pending("cron")
    /\ runner' = [t \in Tasks |-> IF t \in pending("cron") THEN 1 ELSE 0]
    /\ \E f \in [pending("once") -> Jobs] :
          /\ \A t, u \in pending("once") : f[t] = f[u] => t = u
          /\ stopChs' = [t \in Tasks |-> IF t \in pending("once") THEN f[t] ELSE NoJob]
          /\ job' = [j \in Jobs |-> IF \E t \in pending("once") : f[t] = j
                                    THEN Goroutine(CHOOSE t \in pending("once") : f[t] = j,
                                                   "armed", TRUE)
                                    ELSE Idle]
    /\ rearmed' = [t \in Tasks |-> IF status[t] = "pending" THEN rearmed[t] + 1 ELSE rearmed[t]]
    /\ UNCHANGED <<tasksVars, firedVars, bounds>>

(* The process dies; tasks.json and what was handed out before remain.     *)
Crash ==
    /\ started /\ started' = FALSE
    /\ crashes < MaxCrashes /\ crashes' = crashes + 1
    /\ status' = saved
    /\ cronEntries' = {} /\ runner' = [t \in Tasks |-> 0]
    /\ stopChs' = [t \in Tasks |-> NoJob]
    /\ job' = [j \in Jobs |-> Idle]
    /\ UNCHANGED <<saved, kind, deps, firedVars, rearmed, commands, ticks>>

AddTask(t) ==
    /\ started /\ status[t] = "absent"
    /\ Register(t, kind[t], job, runner, cronEntries, stopChs)
    /\ status' = [status EXCEPT ![t] = "pending"] /\ saved' = status'
    /\ UNCHANGED <<started, kind, deps, firedVars, rearmed, bounds>>

Command(t) ==
    /\ started /\ Present(t)
    /\ commands < MaxCommands /\ commands' = commands + 1
    /\ UNCHANGED <<started, firedVars, ticks, crashes>>

(* PauseTask and CancelTask.                                               *)
Stop(t, s) ==
    /\ Command(t)
    /\ Deregister(t)
    /\ status' = [status EXCEPT ![t] = s] /\ saved' = status'
    /\ UNCHANGED <<kind, deps, rearmed>>

PauseTask(t)  == Stop(t, "paused")
CancelTask(t) == Stop(t, "cancelled")

(* A schedule that does not register leaves the task paused, in memory.    *)
ResumeTask(t) ==
    /\ Command(t)
    /\ status[t] # "pending"
    /\ \/ /\ kind[t] # "bad"
          /\ Register(t, kind[t], job, runner, cronEntries, stopChs)
          /\ status' = [status EXCEPT ![t] = "pending"] /\ saved' = status'
          /\ rearmed' = [rearmed EXCEPT ![t] = @ + 1]
       \/ /\ kind[t] = "bad"
          /\ status' = [status EXCEPT ![t] = "paused"]
          /\ UNCHANGED <<saved, regVars, rearmed>>
    /\ UNCHANGED <<kind, deps>>

(* UpdateTask with a new schedule or the old one (k), and dependencies d.  *)
UpdateTask(t, k, d) ==
    /\ Command(t)
    /\ \/ /\ status[t] = "pending" /\ k # "bad"
          /\ Reregister(t, k, Quiet(t))
          /\ kind' = [kind EXCEPT ![t] = k] /\ deps' = [deps EXCEPT ![t] = d]
          /\ rearmed' = [rearmed EXCEPT ![t] = @ + 1]
          /\ UNCHANGED status
       \/ /\ status[t] = "pending" /\ k = "bad"
          /\ Deregister(t)
          /\ status' = [status EXCEPT ![t] = "paused"]
          /\ UNCHANGED <<kind, deps, rearmed>>
       \/ /\ status[t] # "pending"
          /\ kind' = [kind EXCEPT ![t] = k] /\ deps' = [deps EXCEPT ![t] = d]
          /\ UNCHANGED <<status, regVars, rearmed>>
    /\ saved' = status'

-----------------------------------------------------------------------------
(* A cron tick, for each entry the library holds.                          *)
Tick(t) ==
    /\ started /\ runner[t] > 0
    /\ ticks < MaxTicks /\ ticks' = ticks + 1
    /\ \E j \in Jobs : job[j] = Idle
    /\ LET j == CHOOSE i \in Jobs : job[i] = Idle IN
       job' = [job EXCEPT ![j] = Goroutine(t, "due", FALSE)]
    /\ UNCHANGED <<started, tasksVars, cronEntries, runner, stopChs, firedVars, rearmed,
                   commands, crashes>>

(* The timer wins the select.                                              *)
Elapse(j) ==
    /\ job[j].at = "armed"
    /\ job' = [job EXCEPT ![j].at = "due"]
    /\ UNCHANGED <<started, tasksVars, cronEntries, runner, stopChs, firedVars, rearmed, bounds>>

(* Mistaken: only a dependency that left the list counts as done.          *)
DepsGone(t) == \A d \in deps[t] : status[d] = "gone"

(* depsMetLocked                                                           *)
DepsMet(t) == \A d \in deps[t] : status[d] \notin {"pending", "paused"}

(* Mistaken: fire reports a task it refused as fired.                      *)
FireRefusedAsFired(j) ==
    /\ job[j].at = "due" /\ status[job[j].task] # "pending"
    /\ job' = [job EXCEPT ![j] = Goroutine(@.task, "removing", @.timer)]
    /\ UNCHANGED <<started, tasksVars, cronEntries, runner, stopChs, firedVars, rearmed, bounds>>

(* fire's critical section: the task was removed, paused or cancelled.     *)
FireRefused(j) ==
    /\ job[j].at = "due" /\ status[job[j].task] # "pending"
    /\ job' = [job EXCEPT ![j] = Idle]
    /\ UNCHANGED <<started, tasksVars, cronEntries, runner, stopChs, firedVars, rearmed, bounds>>

(* Mistaken: a deferred one-shot is registered again and fires all the same.*)
FireDeferredAnyway(j) ==
    /\ job[j].at = "due"
    /\ LET t == job[j].task IN
       /\ status[t] = "pending" /\ ~DepsMet(t) /\ kind[t] = "once"
       /\ Reregister(t, "once", [i \in Jobs |-> IF i = j THEN Goroutine(t, "script", TRUE)
                                                        ELSE Quiet(t)[i]])
    /\ saved' = status
    /\ UNCHANGED <<started, status, kind, deps, firedVars, rearmed, bounds>>

(* ... a dependency is still active: a one-shot waits a minute more.       *)
FireDeferred(j) ==
    /\ job[j].at = "due"
    /\ LET t == job[j].task IN
       /\ status[t] = "pending" /\ ~DepsMet(t)
       /\ \/ /\ kind[t] = "once"
             /\ Reregister(t, "once", [i \in Jobs |-> IF i = j THEN Idle ELSE Quiet(t)[i]])
             /\ saved' = status
          \/ /\ kind[t] # "once"
             /\ job' = [job EXCEPT ![j] = Idle]
             /\ UNCHANGED <<cronEntries, runner, stopChs, saved>>
    /\ UNCHANGED <<started, status, kind, deps, firedVars, rearmed, bounds>>

(* ... or the turn begins: LastFired is saved, the lock released.          *)
FireBegin(j) ==
    /\ job[j].at = "due"
    /\ status[job[j].task] = "pending" /\ DepsMet(job[j].task)
    /\ job' = [job EXCEPT ![j].at = "script"]
    /\ saved' = status
    /\ UNCHANGED <<started, status, kind, deps, cronEntries, runner, stopChs, firedVars,
                   rearmed, bounds>>

Fire(j) == FireRefused(j) \/ FireDeferred(j) \/ FireBegin(j)

(* fire returns true: a timer goroutine goes on to remove its task.        *)
Returns(j) ==
    /\ job[j].at = "script"
    /\ job' = [job EXCEPT ![j] = IF @.timer THEN Goroutine(@.task, "removing", TRUE) ELSE Idle]
    /\ UNCHANGED <<started, tasksVars, cronEntries, runner, stopChs, rearmed, bounds>>

Wake(j) ==
    /\ Returns(j)
    /\ fired' = [fired EXCEPT ![job[j].task] = @ + 1]
    /\ UNCHANGED skipped

SkipTurn(j) ==
    /\ Returns(j) /\ job[j].task \in Scripted
    /\ skipped' = skipped \cup {job[j].task}
    /\ UNCHANGED fired

(* removeByID: a goroutine registered meanwhile keeps its timer.           *)
Remove(j) ==
    /\ job[j].at = "removing"
    /\ LET t == job[j].task IN
       /\ status' = [status EXCEPT ![t] = IF Present(t) THEN "gone" ELSE @]
       /\ cronEntries' = cronEntries \ {t} /\ runner' = RunnerWithout(t)
       /\ stopChs' = ChannelsWithout(t)
    /\ saved' = status'
    /\ job' = [job EXCEPT ![j] = Idle]
    /\ UNCHANGED <<started, kind, deps, firedVars, rearmed, bounds>>

Next ==
    \/ Run \/ Crash
    \/ \E t \in Tasks :
          \/ AddTask(t) \/ PauseTask(t) \/ CancelTask(t) \/ ResumeTask(t)
          \/ \E k \in {kind[t]} \cup NewKinds, d \in {deps[t]} \cup NewDeps : UpdateTask(t, k, d)
          \/ Tick(t)
    \/ \E j \in Jobs : Elapse(j) \/ Fire(j) \/ Wake(j) \/ SkipTurn(j) \/ Remove(j)

(* Timers elapse, goroutines run, a pre-check has a deadline.              *)
Fairness ==
    /\ WF_vars(Run)
    /\ \A j \in Jobs : /\ WF_vars(Elapse(j)) /\ WF_vars(Fire(j)) /\ WF_vars(Remove(j))
                       /\ WF_vars(Wake(j) \/ SkipTurn(j))

Spec == Init /\ [][Next]_vars
FairSpec == Spec /\ Fairness

-----------------------------------------------------------------------------
TypeOK ==
    /\ started \in BOOLEAN
    /\ status \in [Tasks -> Statuses] /\ saved \in [Tasks -> Statuses]
    /\ kind \in [Tasks -> Kinds] /\ deps \in [Tasks -> SUBSET Tasks]
    /\ cronEntries \subseteq Tasks /\ runner \in [Tasks -> Nat]
    /\ stopChs \in [Tasks -> Jobs \cup {NoJob}]
    /\ job \in [Jobs -> {Idle} \cup [at : Stages, task : Tasks, timer : BOOLEAN]]
    /\ fired \in [Tasks -> Nat] /\ skipped \subseteq Tasks
    /\ rearmed \in [Tasks -> Nat]
    /\ commands \in 0..MaxCommands /\ ticks \in 0..MaxTicks /\ crashes \in 0..MaxCrashes

Active(t, k) == status[t] = "pending" /\ kind[t] = k

(* "prevents ghost cron entries from leaking" (ResumeTask): the library    *)
(* holds one entry for each recurring task that is active, none for any    *)
(* other, and s.cronEntries knows it.                                      *)
NoGhostEntry ==
    /\ \A t \in Tasks : runner[t] = IF t \in cronEntries THEN 1 ELSE 0
    /\ cronEntries = {t \in Tasks : started /\ Active(t, "cron")}

(* A one-shot that is active has a goroutine that will still decide about  *)
(* it, and s.stopChs holds that goroutine's channel; no other armed timer  *)
(* can find a task to fire.                                                *)
NoStuckOneShot ==
    /\ \A t \in Tasks :
          IF started /\ Active(t, "once")
          THEN \E j \in Jobs : stopChs[t] = j /\ job[j] # Idle /\ job[j].task = t /\ job[j].timer
          ELSE stopChs[t] = NoJob
    /\ \A j \in Jobs : job[j].at = "armed" =>
          status[job[j].task] = "gone" \/ stopChs[job[j].task] = j

(* Deferring, pausing and updating never multiply a one-shot: the times it *)
(* was handed out and the goroutines that may still do so are at most one  *)
(* for each registration.                                                  *)
OneFirePerArming ==
    \A t \in Tasks : kind[t] = "once" =>
        fired[t] + Cardinality({j \in Jobs : job[j].at \in {"armed", "due", "script"}
                                             /\ job[j].task = t}) <= 1 + rearmed[t]

(* A one-shot leaves the list by firing, never because it was deferred or  *)
(* refused, or because the process died in between.                        *)
NeverRemovedUnfired == \A t \in Tasks : status[t] = "gone" => fired[t] > 0 \/ t \in skipped

(* A pending one-shot fires, is taken off the schedule, or waits for a     *)
(* dependency that will not leave the list by itself.                      *)
Blocked(t) == \E d \in deps[t] : status[d] = "paused" \/ (status[d] = "pending" /\ kind[d] # "once")
OneShotServed == \A t \in Tasks : Active(t, "once") ~> ~Active(t, "once") \/ Blocked(t)
=============================================================================
