--------------------------- MODULE SchedulerProofs ---------------------------
(* Safety of scheduled tasks for any set of tasks, any number of           *)
(* goroutines, commands, ticks and restarts.                               *)
EXTENDS Scheduler, FiniteSetTheorems, TLAPS

USE SchedulerAssumption

-----------------------------------------------------------------------------
(* Nothing runs before Run registers what was loaded, and no goroutine     *)
(* works for a task that was never added.                                  *)
Quietness ==
    /\ ~started => \A j \in Jobs : job[j] = Idle
    /\ \A j \in Jobs : job[j] # Idle => status[job[j].task] # "absent"

(* What the file says of a task's existence.                               *)
Handled(t) == fired[t] > 0 \/ t \in skipped
SavedInv ==
    \A t \in Tasks : /\ saved[t] = "absent" <=> status[t] = "absent"
                     /\ saved[t] = "gone" => Handled(t)
RemovingInv == \A j \in Jobs : job[j].at = "removing" => Handled(job[j].task)

Live(t) == {j \in Jobs : job[j].at \in {"armed", "due", "script"} /\ job[j].task = t}
NeverFired == \A t \in Tasks : status[t] = "absent" => fired[t] = 0

RegInv == NoGhostEntry /\ NoStuckOneShot
FiredInv == SavedInv /\ RemovingInv /\ NeverRemovedUnfired
LiveInv == Quietness /\ NeverFired /\ OneFirePerArming
IndInv == TypeOK /\ RegInv /\ FiredInv /\ LiveInv

-----------------------------------------------------------------------------
LEMMA JobKinds ==
    ASSUME TypeOK, NEW j \in Jobs
    PROVE  \/ job[j] = Idle /\ job[j].at = "idle"
           \/ job[j] # Idle /\ job[j].at \in Stages /\ job[j].task \in Tasks /\ job[j].timer \in BOOLEAN
              /\ job[j] = Goroutine(job[j].task, job[j].at, job[j].timer)
<1>1. CASE job[j] = Idle
  BY <1>1 DEF Idle
<1>2. CASE job[j] # Idle
  <2>1. job[j] \in [at : Stages, task : Tasks, timer : BOOLEAN]
    BY <1>2 DEF TypeOK
  <2>2. QED
    BY <1>2, <2>1 DEF Goroutine
<1>3. QED
  BY <1>1, <1>2

LEMMA IdleStage == Idle.at = "idle" /\ "idle" \notin Stages
BY DEF Idle, Stages

LEMMA GoroutineStage ==
    ASSUME NEW t \in Tasks, NEW at \in Stages, NEW timer \in BOOLEAN
    PROVE  /\ Goroutine(t, at, timer) \in [at : Stages, task : Tasks, timer : BOOLEAN]
           /\ Goroutine(t, at, timer).at = at /\ Goroutine(t, at, timer).task = t
           /\ Goroutine(t, at, timer).timer = timer /\ Goroutine(t, at, timer) # Idle
<1>1. Goroutine(t, at, timer) # Idle
  BY DEF Goroutine, Idle, Stages
<1>2. QED
  BY <1>1 DEF Goroutine

LEMMA InitInd == Init => IndInv
<1> SUFFICES ASSUME Init PROVE IndInv
  OBVIOUS
<1>1. TypeOK
  <2>1. kind \in [Tasks -> Kinds] /\ deps \in [Tasks -> SUBSET Tasks]
    BY DEF Init, Kinds
  <2>2. commands \in 0..MaxCommands /\ ticks \in 0..MaxTicks /\ crashes \in 0..MaxCrashes
    BY DEF Init
  <2>3. job \in [Jobs -> {Idle} \cup [at : Stages, task : Tasks, timer : BOOLEAN]]
    BY DEF Init
  <2>4. QED
    BY <2>1, <2>2, <2>3 DEF Init, TypeOK, Statuses
<1>2. RegInv
  BY IdleStage DEF Init, RegInv, NoGhostEntry, NoStuckOneShot, Active
<1>3. FiredInv
  BY IdleStage DEF Init, FiredInv, SavedInv, RemovingInv, NeverRemovedUnfired
<1>4. Quietness /\ NeverFired
  BY DEF Init, Quietness, NeverFired
<1>5. OneFirePerArming
  <2>1. \A t \in Tasks : {j \in Jobs : job[j].at \in {"armed", "due", "script"} /\ job[j].task = t} = {}
    BY IdleStage DEF Init
  <2>2. ASSUME NEW t \in Tasks
        PROVE  fired[t] + Cardinality({j \in Jobs : job[j].at \in {"armed", "due", "script"}
                                                  /\ job[j].task = t}) <= 1 + rearmed[t]
    <3>1. Cardinality({j \in Jobs : job[j].at \in {"armed", "due", "script"}
                                    /\ job[j].task = t}) = 0
      BY <2>1, FS_EmptySet
    <3>2. QED
      BY <3>1 DEF Init
  <2>3. QED
    BY <2>2 DEF OneFirePerArming
<1>6. QED
  BY <1>1, <1>2, <1>3, <1>4, <1>5 DEF IndInv, LiveInv

-----------------------------------------------------------------------------
(* The goroutines that may still hand a task out.                          *)
LEMMA LiveFinite ==
    ASSUME NEW t PROVE IsFiniteSet(Live(t)) /\ Cardinality(Live(t)) \in Nat
BY FS_Subset, FS_CardinalityType DEF Live

LEMMA FewerLive ==
    ASSUME NEW S \in SUBSET Jobs, NEW R \in SUBSET Jobs, S \subseteq R
    PROVE  Cardinality(S) <= Cardinality(R) /\ Cardinality(S) \in Nat /\ Cardinality(R) \in Nat
<1>1. IsFiniteSet(R) /\ IsFiniteSet(S)
  BY FS_Subset
<1>2. QED
  BY <1>1, FS_Subset, FS_CardinalityType

LEMMA OneMoreLive ==
    ASSUME NEW S \in SUBSET Jobs, NEW R \in SUBSET Jobs, NEW j, S \subseteq R \cup {j}
    PROVE  Cardinality(S) <= Cardinality(R) + 1 /\ Cardinality(S) \in Nat /\ Cardinality(R) \in Nat
<1>1. IsFiniteSet(R)
  BY FS_Subset
<1>2. IsFiniteSet(R \cup {j}) /\ Cardinality(R \cup {j}) \in {Cardinality(R), Cardinality(R) + 1}
  BY <1>1, FS_AddElement
<1>3. Cardinality(S) <= Cardinality(R \cup {j}) /\ IsFiniteSet(S)
  BY <1>2, FS_Subset
<1>4. Cardinality(S) \in Nat /\ Cardinality(R) \in Nat
  BY <1>1, <1>3, FS_CardinalityType
<1>5. QED
  BY <1>2, <1>3, <1>4

LEMMA OneLessLive ==
    ASSUME NEW S \in SUBSET Jobs, NEW R \in SUBSET Jobs, NEW j \in R, S \subseteq R \ {j}
    PROVE  Cardinality(S) + 1 <= Cardinality(R) /\ Cardinality(S) \in Nat /\ Cardinality(R) \in Nat
<1>1. IsFiniteSet(R)
  BY FS_Subset
<1>2. IsFiniteSet(R \ {j}) /\ Cardinality(R \ {j}) = Cardinality(R) - 1
  BY <1>1, FS_RemoveElement
<1>3. Cardinality(S) <= Cardinality(R \ {j}) /\ IsFiniteSet(S)
  BY <1>2, FS_Subset
<1>4. Cardinality(S) \in Nat /\ Cardinality(R) \in Nat
  BY <1>1, <1>3, FS_CardinalityType
<1>5. QED
  BY <1>2, <1>3, <1>4

-----------------------------------------------------------------------------
(* What register starts from: no entry, no channel and no waiting timer of *)
(* the task, all else as it was.                                           *)
JobType == {Idle} \cup [at : Stages, task : Tasks, timer : BOOLEAN]
Clean(t, jobs, entries, keys, channels) ==
    /\ keys = cronEntries \ {t}
    /\ entries \in [Tasks -> Nat] /\ \A u \in Tasks : entries[u] = IF u \in keys THEN 1 ELSE 0
    /\ channels \in [Tasks -> Jobs \cup {NoJob}] /\ channels[t] = NoJob
    /\ \A u \in Tasks : u # t => channels[u] = stopChs[u]
    /\ jobs \in [Jobs -> JobType]
    /\ \A i \in Jobs : jobs[i] = job[i] \/ (jobs[i] = Idle /\ job[i] # Idle /\ job[i].task = t)
    /\ \A i \in Jobs : jobs[i].at = "armed" => jobs[i].task # t

LEMMA CleanNow ==
    ASSUME TypeOK, RegInv, NEW t \in Tasks, ~(started /\ status[t] = "pending"), status[t] # "gone"
    PROVE  Clean(t, job, runner, cronEntries, stopChs)
<1>1. t \notin cronEntries /\ stopChs[t] = NoJob
  BY DEF RegInv, NoGhostEntry, NoStuckOneShot, Active
<1>2. \A i \in Jobs : job[i].at = "armed" => job[i].task # t
  BY <1>1 DEF RegInv, NoStuckOneShot
<1>3. QED
  BY <1>1, <1>2 DEF Clean, TypeOK, RegInv, NoGhostEntry, JobType

LEMMA ChannelTask ==
    ASSUME TypeOK, RegInv, NEW t \in Tasks, stopChs[t] # NoJob
    PROVE  /\ started /\ Active(t, "once") /\ stopChs[t] \in Jobs
           /\ job[stopChs[t]] # Idle /\ job[stopChs[t]].task = t /\ job[stopChs[t]].timer
BY DEF RegInv, NoStuckOneShot

LEMMA CleanAfter ==
    ASSUME TypeOK, RegInv, NEW t \in Tasks, status[t] # "gone", NEW jobs \in [Jobs -> JobType],
           \A i \in Jobs : jobs[i] = Quiet(t)[i]
                          \/ (jobs[i] = Idle /\ job[i] # Idle /\ job[i].task = t)
    PROVE  Clean(t, jobs, RunnerWithout(t), cronEntries \ {t}, ChannelsWithout(t))
<1>1. \A i \in Jobs : jobs[i] = job[i] \/ (jobs[i] = Idle /\ job[i] # Idle /\ job[i].task = t)
  <2> TAKE i \in Jobs
  <2>1. CASE i = stopChs[t] /\ job[i].at = "armed"
    BY <2>1, ChannelTask DEF Quiet
  <2>2. CASE ~(i = stopChs[t] /\ job[i].at = "armed")
    BY <2>2 DEF Quiet
  <2>3. QED
    BY <2>1, <2>2
<1>2. \A i \in Jobs : jobs[i].at = "armed" => jobs[i].task # t
  <2> SUFFICES ASSUME NEW i \in Jobs, jobs[i].at = "armed" PROVE jobs[i].task # t
    OBVIOUS
  <2>1. jobs[i] = Quiet(t)[i] /\ Quiet(t)[i] = job[i] /\ ~(i = stopChs[t])
    BY IdleStage DEF Quiet, Stages
  <2>2. QED
    BY <2>1 DEF RegInv, NoStuckOneShot
<1>3. /\ RunnerWithout(t) \in [Tasks -> Nat]
      /\ \A u \in Tasks : RunnerWithout(t)[u] = IF u \in cronEntries \ {t} THEN 1 ELSE 0
  <2>1. \A u \in Tasks : RunnerWithout(t)[u] = IF u \in cronEntries \ {t} THEN 1 ELSE 0
    BY DEF RunnerWithout, TypeOK, RegInv, NoGhostEntry
  <2>2. QED
    BY <2>1 DEF RunnerWithout, TypeOK
<1>4. QED
  BY <1>1, <1>2, <1>3 DEF Clean, ChannelsWithout, TypeOK

(* After register the task has its entry or its timer.                     *)
Others(t) ==
    \A u \in Tasks : u # t => status'[u] = status[u] /\ kind'[u] = kind[u]

RegTypes ==
    /\ cronEntries \subseteq Tasks /\ runner \in [Tasks -> Nat]
    /\ stopChs \in [Tasks -> Jobs \cup {NoJob}] /\ job \in [Jobs -> JobType]

Began(t, jobs) ==
    \E j \in Jobs \cup {NoJob} :
        /\ \A i \in Jobs : i # j => job'[i] = jobs[i]
        /\ j \in Jobs => job'[j] = Goroutine(t, "armed", TRUE) /\ jobs[j] = Idle

LEMMA RegisterInd ==
    ASSUME TypeOK, RegInv, NEW t \in Tasks, NEW k, NEW jobs, NEW entries, NEW keys, NEW channels,
           Clean(t, jobs, entries, keys, channels), Register(t, k, jobs, entries, keys, channels),
           started, started' = started, status'[t] = "pending", kind'[t] = k, Others(t)
    PROVE  RegTypes' /\ RegInv' /\ Began(t, jobs)
<1> USE DEF Clean
<1>1. CASE k = "cron"
  <2>1. /\ cronEntries' = keys \cup {t} /\ runner' = [entries EXCEPT ![t] = @ + 1]
        /\ stopChs' = channels /\ job' = jobs
    BY <1>1 DEF Register
  <2>2. RegTypes'
    BY <2>1 DEF RegTypes, TypeOK
  <2>3. NoGhostEntry'
    BY <1>1, <2>1 DEF RegInv, NoGhostEntry, Active, Others, TypeOK
  <2>4. NoStuckOneShot'
    <3>1. ASSUME NEW u \in Tasks
          PROVE  IF started' /\ Active(u, "once")'
                 THEN \E j \in Jobs : stopChs'[u] = j /\ job'[j] # Idle /\ job'[j].task = u /\ job'[j].timer
                 ELSE stopChs'[u] = NoJob
      <4>1. CASE u = t
        BY <1>1, <2>1, <4>1 DEF Active
      <4>2. CASE u # t
        BY <1>1, <2>1, <4>2 DEF Active, RegInv, NoStuckOneShot, Others
      <4>3. QED
        BY <4>1, <4>2
    <3>2. ASSUME NEW i \in Jobs, job'[i].at = "armed"
          PROVE  status'[job'[i].task] = "gone" \/ stopChs'[job'[i].task] = i
      <4>1. job'[i] = job[i] /\ job[i].task # t /\ job[i].task \in Tasks
        BY <2>1, <3>2, IdleStage, JobKinds DEF Stages
      <4>2. QED
        BY <2>1, <3>2, <4>1 DEF RegInv, NoStuckOneShot, Others
    <3>3. QED
      BY <3>1, <3>2 DEF NoStuckOneShot
  <2>5. Began(t, jobs)
    BY <2>1 DEF Began
  <2>6. QED
    BY <2>2, <2>3, <2>4, <2>5 DEF RegInv
<1>2. CASE k = "once"
  <2>1. PICK j \in Jobs :
          /\ jobs[j] = Idle /\ cronEntries' = keys /\ runner' = entries
          /\ stopChs' = [channels EXCEPT ![t] = j]
          /\ job' = [jobs EXCEPT ![j] = Goroutine(t, "armed", TRUE)]
    BY <1>2 DEF Register
  <2>2. Goroutine(t, "armed", TRUE) \in [at : Stages, task : Tasks, timer : BOOLEAN]
        /\ Goroutine(t, "armed", TRUE) # Idle /\ Goroutine(t, "armed", TRUE).task = t
        /\ Goroutine(t, "armed", TRUE).timer
    BY GoroutineStage DEF Stages
  <2>3. /\ job'[j] = Goroutine(t, "armed", TRUE) /\ \A i \in Jobs : i # j => job'[i] = jobs[i]
        /\ stopChs'[t] = j /\ \A u \in Tasks : u # t => stopChs'[u] = stopChs[u]
    BY <2>1
  <2>4. RegTypes'
    BY <2>1, <2>2 DEF RegTypes, JobType, TypeOK
  <2>5. NoGhostEntry'
    BY <1>2, <2>1 DEF RegInv, NoGhostEntry, Active, Others, TypeOK
  <2>6. NoStuckOneShot'
    <3>1. ASSUME NEW u \in Tasks
          PROVE  IF started' /\ Active(u, "once")'
                 THEN \E i \in Jobs : stopChs'[u] = i /\ job'[i] # Idle /\ job'[i].task = u /\ job'[i].timer
                 ELSE stopChs'[u] = NoJob
      <4>1. CASE u = t
        <5>1. stopChs'[t] = j /\ job'[j] # Idle /\ job'[j].task = t /\ job'[j].timer
          BY <2>2, <2>3
        <5>2. started' /\ Active(t, "once")'
          BY <1>2 DEF Active
        <5>3. QED
          BY <4>1, <5>1, <5>2
      <4>2. CASE u # t
        <5>1. Active(u, "once")' <=> Active(u, "once")
          BY <4>2 DEF Active, Others
        <5>2. CASE Active(u, "once")
          <6>1. PICK i \in Jobs : stopChs[u] = i /\ job[i] # Idle /\ job[i].task = u /\ job[i].timer
            BY <5>2 DEF RegInv, NoStuckOneShot
          <6>2. i # j /\ jobs[i] = job[i]
            BY <2>1, <4>2, <6>1
          <6>3. QED
            BY <2>3, <4>2, <5>1, <5>2, <6>1, <6>2
        <5>3. CASE ~Active(u, "once")
          BY <2>3, <4>2, <5>1, <5>3 DEF RegInv, NoStuckOneShot
        <5>4. QED
          BY <5>2, <5>3
      <4>3. QED
        BY <4>1, <4>2
    <3>2. ASSUME NEW i \in Jobs, job'[i].at = "armed"
          PROVE  status'[job'[i].task] = "gone" \/ stopChs'[job'[i].task] = i
      <4>1. CASE i = j
        BY <2>2, <2>3, <4>1
      <4>2. CASE i # j
        <5>1. job'[i] = job[i] /\ job[i].task # t /\ job[i].task \in Tasks
          BY <2>3, <3>2, <4>2, IdleStage, JobKinds DEF Stages
        <5>2. QED
          BY <2>3, <3>2, <5>1 DEF RegInv, NoStuckOneShot, Others
      <4>3. QED
        BY <4>1, <4>2
    <3>3. QED
      BY <3>1, <3>2 DEF NoStuckOneShot
  <2>7. Began(t, jobs)
    BY <2>1, <2>3 DEF Began
  <2>8. QED
    BY <2>4, <2>5, <2>6, <2>7 DEF RegInv
<1>3. QED
  BY <1>1, <1>2 DEF Register

(* deregister, for a task that is not pending any more.                    *)
LEMMA DeregisterInd ==
    ASSUME TypeOK, RegInv, NEW t \in Tasks, Clean(t, job', runner', cronEntries', stopChs'),
           started' = started, status'[t] # "pending", Others(t)
    PROVE  RegTypes' /\ RegInv'
<1> USE DEF Clean
<1>1. RegTypes'
  BY DEF RegTypes, TypeOK
<1>2. NoGhostEntry'
  BY DEF RegInv, NoGhostEntry, Active, Others, TypeOK
<1>3. NoStuckOneShot'
  <2>1. ASSUME NEW u \in Tasks
        PROVE  IF started' /\ Active(u, "once")'
               THEN \E j \in Jobs : stopChs'[u] = j /\ job'[j] # Idle /\ job'[j].task = u /\ job'[j].timer
               ELSE stopChs'[u] = NoJob
    <3>1. CASE u = t
      BY <3>1 DEF Active
    <3>2. CASE u # t
      BY <3>2 DEF Active, RegInv, NoStuckOneShot, Others
    <3>3. QED
      BY <3>1, <3>2
  <2>2. ASSUME NEW i \in Jobs, job'[i].at = "armed"
        PROVE  status'[job'[i].task] = "gone" \/ stopChs'[job'[i].task] = i
    <3>1. job'[i] = job[i] /\ job[i].task # t /\ job[i].task \in Tasks
      BY <2>2, IdleStage, JobKinds DEF Stages
    <3>2. QED
      BY <2>2, <3>1 DEF RegInv, NoStuckOneShot, Others
  <2>3. QED
    BY <2>1, <2>2 DEF NoStuckOneShot
<1>4. QED
  BY <1>1, <1>2, <1>3 DEF RegInv

-----------------------------------------------------------------------------
(* What goroutines ended, and the one for t that began, do to the rest.    *)
NewJobs(t) ==
    \E j \in Jobs \cup {NoJob} :
        /\ \A i \in Jobs : i # j => job'[i] = job[i] \/ job'[i] = Idle
        /\ j \in Jobs => job'[j] = Goroutine(t, "armed", TRUE)
OnlyEnded == \A i \in Jobs : job'[i] = job[i] \/ job'[i] = Idle

LEMMA NewLive ==
    ASSUME TypeOK, NEW t \in Tasks, NewJobs(t)
    PROVE  /\ \A i \in Jobs : job'[i].at = "removing" => job'[i] = job[i]
           /\ \A i \in Jobs : job'[i] # Idle => job'[i].task = t \/ job'[i] = job[i]
           /\ \A u \in Tasks : u # t => Live(u)' \subseteq Live(u)
           /\ \E j : Live(t)' \subseteq Live(t) \cup {j}
<1>1. PICK j \in Jobs \cup {NoJob} :
        /\ \A i \in Jobs : i # j => job'[i] = job[i] \/ job'[i] = Idle
        /\ j \in Jobs => job'[j] = Goroutine(t, "armed", TRUE)
  BY DEF NewJobs
<1>2. /\ Goroutine(t, "armed", TRUE).at = "armed" /\ Goroutine(t, "armed", TRUE).task = t
  BY DEF Goroutine
<1>3. Idle.at \notin {"removing", "armed", "due", "script"}
  BY DEF Idle
<1>4. \A i \in Jobs : job'[i].at = "removing" => job'[i] = job[i]
  BY <1>1, <1>2, <1>3
<1>5. \A i \in Jobs : job'[i] # Idle => job'[i].task = t \/ job'[i] = job[i]
  BY <1>1, <1>2
<1>6. \A u \in Tasks : u # t => Live(u)' \subseteq Live(u)
  BY <1>1, <1>2, <1>3 DEF Live
<1>7. Live(t)' \subseteq Live(t) \cup {j}
  BY <1>1, <1>3 DEF Live
<1>8. QED
  BY <1>4, <1>5, <1>6, <1>7

LEMMA EndedLive ==
    ASSUME OnlyEnded
    PROVE  /\ \A i \in Jobs : job'[i].at = "removing" => job'[i] = job[i]
           /\ \A u \in Tasks : Live(u)' \subseteq Live(u)
<1>1. Idle.at \notin {"removing", "armed", "due", "script"}
  BY DEF Idle
<1>2. QED
  BY <1>1 DEF OnlyEnded, Live

LEMMA LiveSubset ==
    ASSUME NEW u \in Tasks PROVE Live(u) \subseteq Jobs /\ Live(u)' \subseteq Jobs
BY DEF Live

(* The file and the removals, while nothing is handed out.                 *)
LEMMA FiredSame ==
    ASSUME TypeOK, FiredInv, UNCHANGED firedVars, job' \in [Jobs -> JobType],
           \A i \in Jobs : job'[i].at = "removing" => job'[i] = job[i],
           \A u \in Tasks : status'[u] = "gone" => status[u] = "gone",
           \A u \in Tasks : \/ saved'[u] = status'[u]
                            \/ saved'[u] = saved[u] /\ (status'[u] = "absent" <=> status[u] = "absent")
    PROVE  FiredInv'
<1>1. \A u \in Tasks : Handled(u)' <=> Handled(u)
  BY DEF Handled, firedVars
<1>2. NeverRemovedUnfired'
  BY DEF FiredInv, NeverRemovedUnfired, firedVars
<1>3. SavedInv'
  BY <1>1 DEF FiredInv, SavedInv, NeverRemovedUnfired, Handled
<1>4. RemovingInv'
  <2> SUFFICES ASSUME NEW i \in Jobs, job'[i].at = "removing"
               PROVE  fired'[job'[i].task] > 0 \/ job'[i].task \in skipped'
    BY DEF RemovingInv, Handled
  <2>1. job'[i] = job[i] /\ job[i].task \in Tasks
    BY JobKinds, IdleStage
  <2>2. QED
    BY <2>1 DEF FiredInv, RemovingInv, Handled, firedVars
<1>5. QED
  BY <1>2, <1>3, <1>4 DEF FiredInv

(* A goroutine more for a task that was registered once more.              *)
LEMMA LiveInvInd ==
    ASSUME TypeOK, IndInv, UNCHANGED fired, rearmed' \in [Tasks -> Nat],
           NEW t \in Tasks, started, started' = started, status'[t] # "absent", Others(t),
           kind'[t] = "once" => kind[t] = "once",
           \A i \in Jobs : job'[i] # Idle => job'[i].task = t \/ job'[i] = job[i],
           \A u \in Tasks : u # t => Live(u)' \subseteq Live(u) /\ rearmed'[u] = rearmed[u],
           kind'[t] = "once" => fired[t] + Cardinality(Live(t)') <= 1 + rearmed'[t]
    PROVE  LiveInv'
<1>1. Quietness'
  <2> SUFFICES ASSUME NEW i \in Jobs, job'[i] # Idle PROVE status'[job'[i].task] # "absent"
    BY DEF Quietness
  <2>1. job'[i].task = t \/ (job'[i] = job[i] /\ job[i].task \in Tasks)
    BY JobKinds
  <2>2. QED
    BY <2>1 DEF IndInv, LiveInv, Quietness, Others
<1>2. NeverFired'
  BY DEF IndInv, LiveInv, NeverFired, Others
<1>3. ASSUME NEW u \in Tasks, kind'[u] = "once"
      PROVE  fired'[u] + Cardinality(Live(u)') <= 1 + rearmed'[u]
  <2>1. CASE u = t
    BY <1>3, <2>1
  <2>2. CASE u # t
    <3>1. fired[u] + Cardinality(Live(u)) <= 1 + rearmed[u] /\ rearmed'[u] = rearmed[u]
      BY <1>3, <2>2 DEF IndInv, LiveInv, OneFirePerArming, Live, Others
    <3>2. Cardinality(Live(u)') <= Cardinality(Live(u)) /\ Cardinality(Live(u)) \in Nat
          /\ Cardinality(Live(u)') \in Nat
      BY <2>2, FewerLive, LiveSubset
    <3>3. fired[u] \in Nat /\ rearmed[u] \in Nat
      BY DEF TypeOK
    <3>4. QED
      BY <3>1, <3>2, <3>3
  <2>3. QED
    BY <2>1, <2>2
<1>4. OneFirePerArming'
  BY <1>3 DEF OneFirePerArming, Live
<1>5. QED
  BY <1>1, <1>2, <1>4 DEF LiveInv

LEMMA LiveNow ==
    ASSUME IndInv, NEW t \in Tasks, kind[t] = "once"
    PROVE  /\ fired[t] + Cardinality(Live(t)) <= 1 + rearmed[t]
           /\ fired[t] \in Nat /\ rearmed[t] \in Nat
BY DEF IndInv, TypeOK, LiveInv, OneFirePerArming, Live

-----------------------------------------------------------------------------
LEMMA AddTaskInd == ASSUME NEW t \in Tasks PROVE IndInv /\ AddTask(t) => IndInv'
<1> SUFFICES ASSUME IndInv, AddTask(t) PROVE IndInv'
  OBVIOUS
<1>1. /\ started /\ started' = started /\ status[t] = "absent"
      /\ Register(t, kind[t], job, runner, cronEntries, stopChs)
      /\ status' = [status EXCEPT ![t] = "pending"] /\ saved' = status'
      /\ UNCHANGED <<kind, deps, firedVars, rearmed, bounds>>
  BY DEF AddTask
<1>2. Clean(t, job, runner, cronEntries, stopChs)
  BY <1>1, CleanNow DEF IndInv
<1>3. status'[t] = "pending" /\ kind'[t] = kind[t] /\ Others(t)
  BY <1>1 DEF IndInv, TypeOK, Others
<1> USE DEF IndInv
<1>4. RegTypes' /\ RegInv' /\ Began(t, job)
  <2>1. TypeOK /\ RegInv
    OBVIOUS
  <2> HIDE DEF IndInv
  <2>2. started /\ started' = started /\ Register(t, kind[t], job, runner, cronEntries, stopChs)
    BY <1>1
  <2>3. QED
    BY <1>2, <1>3, <2>1, <2>2, RegisterInd, Zenon
<1>5. NewJobs(t)
  BY <1>4 DEF NewJobs, Began
<1>6. TypeOK'
  BY <1>1, <1>4 DEF IndInv, TypeOK, RegTypes, JobType, Statuses, firedVars, bounds
<1>7. FiredInv'
  BY <1>1, <1>3, <1>4, <1>5, NewLive, FiredSame DEF IndInv, TypeOK, RegTypes, Others
<1>8. LiveInv'
  <2>1. fired[t] = 0 /\ Live(t) = {}
    BY <1>1, IdleStage DEF IndInv, LiveInv, NeverFired, Quietness, Live
  <2>2. PICK j : Live(t)' \subseteq Live(t) \cup {j}
    BY <1>5, NewLive DEF IndInv
  <2>3. Cardinality(Live(t)') <= Cardinality(Live(t)) + 1 /\ Cardinality(Live(t)') \in Nat
    BY <2>2, OneMoreLive, LiveSubset
  <2>4. Cardinality(Live(t)) = 0
    BY <2>1, FS_EmptySet
  <2>5. fired[t] + Cardinality(Live(t)') <= 1 + rearmed'[t]
    BY <1>1, <2>1, <2>3, <2>4 DEF IndInv, TypeOK
  <2>6. rearmed' \in [Tasks -> Nat]
    BY <1>1 DEF IndInv, TypeOK
  <2>7. QED
    BY <1>1, <1>3, <1>5, <2>5, <2>6, NewLive, LiveInvInd DEF IndInv, firedVars
<1>9. QED
  BY <1>4, <1>6, <1>7, <1>8 DEF IndInv

(* A task that is registered once more.                                    *)
LEMMA BeganNew ==
    ASSUME NEW t \in Tasks, NEW jobs, NEW entries, NEW keys, NEW channels,
           Clean(t, jobs, entries, keys, channels), Began(t, jobs)
    PROVE  NewJobs(t)
BY DEF Clean, Began, NewJobs

LEMMA RegistersInd ==
    ASSUME IndInv, NEW t \in Tasks, started, started' = started, Present(t),
           NEW jobs, NEW entries, NEW keys, NEW channels, NEW k,
           Clean(t, jobs, entries, keys, channels), Register(t, k, jobs, entries, keys, channels),
           status' \in [Tasks -> Statuses], kind' \in [Tasks -> Kinds], Others(t),
           status'[t] = "pending", kind'[t] = k, k = "once" => kind[t] = "once",
           saved' = status', deps' \in [Tasks -> SUBSET Tasks],
           rearmed' = [rearmed EXCEPT ![t] = @ + 1], UNCHANGED <<firedVars, ticks, crashes>>,
           commands' \in 0..MaxCommands
    PROVE  IndInv'
<1>1. TypeOK /\ RegInv /\ FiredInv
  BY DEF IndInv
<1>2. RegTypes' /\ RegInv' /\ Began(t, jobs)
  BY <1>1, RegisterInd, Zenon
<1>3. NewJobs(t)
  BY <1>2, BeganNew, Zenon
<1>4. /\ \A i \in Jobs : job'[i].at = "removing" => job'[i] = job[i]
      /\ \A i \in Jobs : job'[i] # Idle => job'[i].task = t \/ job'[i] = job[i]
      /\ \A u \in Tasks : u # t => Live(u)' \subseteq Live(u)
      /\ \E j : Live(t)' \subseteq Live(t) \cup {j}
  BY <1>1, <1>3, NewLive
<1>5. rearmed' \in [Tasks -> Nat] /\ rearmed'[t] = rearmed[t] + 1
      /\ \A u \in Tasks : u # t => rearmed'[u] = rearmed[u]
  BY <1>1 DEF TypeOK
<1>6. TypeOK'
  BY <1>1, <1>2, <1>5 DEF TypeOK, RegTypes, JobType, firedVars
<1>7. FiredInv'
  <2>1. \A u \in Tasks : status'[u] = "gone" => status[u] = "gone"
    BY DEF Others
  <2>2. job' \in [Jobs -> JobType]
    BY <1>2 DEF RegTypes
  <2>3. UNCHANGED firedVars
    OBVIOUS
  <2>4. QED
    BY <1>1, <1>4, <2>1, <2>2, <2>3, FiredSame
<1>8. LiveInv'
  <2>1. ASSUME kind'[t] = "once" PROVE fired[t] + Cardinality(Live(t)') <= 1 + rearmed'[t]
    <3>1. PICK j : Live(t)' \subseteq Live(t) \cup {j}
      BY <1>4
    <3>2. /\ Cardinality(Live(t)') <= Cardinality(Live(t)) + 1
          /\ Cardinality(Live(t)') \in Nat /\ Cardinality(Live(t)) \in Nat
      BY <3>1, OneMoreLive, LiveSubset
    <3>3. /\ fired[t] + Cardinality(Live(t)) <= 1 + rearmed[t]
          /\ fired[t] \in Nat /\ rearmed[t] \in Nat
      BY <2>1, LiveNow
    <3>4. QED
      BY <1>5, <3>2, <3>3
  <2>2. UNCHANGED fired /\ status'[t] # "absent" /\ (kind'[t] = "once" => kind[t] = "once")
    BY DEF firedVars
  <2>3. QED
    BY <1>1, <1>4, <1>5, <2>1, <2>2, LiveInvInd
<1>9. QED
  BY <1>2, <1>6, <1>7, <1>8 DEF IndInv

(* A task that is taken off the schedule.                                  *)
LEMMA DeregistersInd ==
    ASSUME IndInv, NEW t \in Tasks, started, started' = started, Present(t), Deregister(t),
           status' \in [Tasks -> Statuses], Others(t), status'[t] \in {"paused", "cancelled"},
           saved' = status', UNCHANGED <<kind, deps, rearmed, firedVars, ticks, crashes>>,
           commands' \in 0..MaxCommands
    PROVE  IndInv'
<1>1. TypeOK /\ RegInv /\ FiredInv
  BY DEF IndInv
<1>2. /\ cronEntries' = cronEntries \ {t} /\ runner' = RunnerWithout(t)
      /\ stopChs' = ChannelsWithout(t) /\ job' = Quiet(t)
  BY DEF Deregister
<1>3. job' \in [Jobs -> JobType]
  BY <1>1, <1>2 DEF TypeOK, JobType, Quiet
<1>4. Clean(t, job', runner', cronEntries', stopChs')
  <2>1. Clean(t, Quiet(t), RunnerWithout(t), cronEntries \ {t}, ChannelsWithout(t))
    BY <1>1, <1>2, <1>3, CleanAfter DEF Present
  <2>2. QED
    BY <1>2, <2>1
<1>5. RegTypes' /\ RegInv'
  BY <1>1, <1>4, DeregisterInd
<1>6. OnlyEnded
  BY <1>2 DEF OnlyEnded, Quiet
<1>7. TypeOK'
  BY <1>1, <1>5 DEF TypeOK, RegTypes, JobType, firedVars
<1>8. FiredInv'
  <2>1. \A u \in Tasks : status'[u] = "gone" => status[u] = "gone"
    BY DEF Others
  <2>2. QED
    BY <1>1, <1>3, <1>6, <2>1, EndedLive, FiredSame
<1>9. LiveInv'
  <2>1. ASSUME kind'[t] = "once" PROVE fired[t] + Cardinality(Live(t)') <= 1 + rearmed'[t]
    <3>1. /\ Cardinality(Live(t)') <= Cardinality(Live(t))
          /\ Cardinality(Live(t)') \in Nat /\ Cardinality(Live(t)) \in Nat
      BY <1>6, EndedLive, FewerLive, LiveSubset
    <3>2. /\ fired[t] + Cardinality(Live(t)) <= 1 + rearmed[t]
          /\ fired[t] \in Nat /\ rearmed[t] \in Nat
      BY <2>1, LiveNow
    <3>3. QED
      BY <3>1, <3>2
  <2>2. /\ UNCHANGED <<fired, kind>> /\ status'[t] # "absent" /\ rearmed' \in [Tasks -> Nat]
        /\ \A u \in Tasks : Live(u)' \subseteq Live(u) /\ rearmed'[u] = rearmed[u]
        /\ \A i \in Jobs : job'[i] # Idle => job'[i].task = t \/ job'[i] = job[i]
    BY <1>1, <1>6, EndedLive DEF firedVars, TypeOK, OnlyEnded
  <2>3. QED
    BY <1>1, <2>1, <2>2, LiveInvInd
<1>10. QED
  BY <1>5, <1>7, <1>8, <1>9 DEF IndInv

-----------------------------------------------------------------------------
LEMMA CommandFrame ==
    ASSUME IndInv, NEW t \in Tasks, Command(t)
    PROVE  /\ started /\ started' = started /\ Present(t)
           /\ UNCHANGED <<firedVars, ticks, crashes>> /\ commands' \in 0..MaxCommands
BY DEF Command, IndInv, TypeOK

LEMMA StopInd ==
    ASSUME NEW t \in Tasks PROVE IndInv /\ (PauseTask(t) \/ CancelTask(t)) => IndInv'
<1> SUFFICES ASSUME IndInv, NEW s \in {"paused", "cancelled"}, Stop(t, s) PROVE IndInv'
  BY DEF PauseTask, CancelTask
<1>1. /\ Command(t) /\ Deregister(t) /\ status' = [status EXCEPT ![t] = s] /\ saved' = status'
      /\ UNCHANGED <<kind, deps, rearmed>>
  BY DEF Stop
<1>2. status' \in [Tasks -> Statuses] /\ Others(t) /\ status'[t] \in {"paused", "cancelled"}
  BY <1>1 DEF IndInv, TypeOK, Statuses, Others
<1>3. QED
  BY <1>1, <1>2, CommandFrame, DeregistersInd

LEMMA UnregisteredInd ==
    ASSUME IndInv, NEW t \in Tasks, Command(t), status[t] # "pending", UNCHANGED <<regVars, rearmed>>,
           status' = status \/ status' = [status EXCEPT ![t] = "paused"],
           kind' \in [Tasks -> Kinds], \A u \in Tasks : u # t => kind'[u] = kind[u],
           kind'[t] = "once" => kind[t] = "once", deps' \in [Tasks -> SUBSET Tasks],
           saved' = status' \/ saved' = saved
    PROVE  IndInv'
<1>1. /\ started /\ started' = started /\ Present(t) /\ commands' \in 0..MaxCommands
      /\ UNCHANGED <<firedVars, ticks, crashes>>
  BY CommandFrame
<1>2. /\ status' \in [Tasks -> Statuses] /\ Others(t) /\ status'[t] \notin {"pending", "gone", "absent"}
  BY <1>1 DEF IndInv, TypeOK, Statuses, Others, Present
<1>3. TypeOK'
  BY <1>1, <1>2 DEF IndInv, TypeOK, regVars, firedVars
<1>4. RegInv'
  <2>1. \A u \in Tasks, k \in Kinds : Active(u, k)' <=> Active(u, k)
    BY <1>2 DEF Active, Others
  <2>2. "once" \in Kinds /\ "cron" \in Kinds
    BY DEF Kinds
  <2>3. NoGhostEntry'
    BY <1>1, <2>1, <2>2 DEF IndInv, RegInv, NoGhostEntry, regVars
  <2>4. \A i \in Jobs : job[i].at = "armed" => job[i].task \in Tasks
    BY JobKinds DEF IndInv, Stages
  <2>5. NoStuckOneShot'
    <3>1. \A u \in Tasks : status[u] = "gone" => status'[u] = "gone"
      BY <1>1, <1>2 DEF Others, Present
    <3>2. QED
      BY <1>1, <2>1, <2>2, <2>4, <3>1 DEF IndInv, RegInv, NoStuckOneShot, regVars
  <2>6. QED
    BY <2>3, <2>5 DEF RegInv
<1>5. OnlyEnded /\ job' = job
  BY DEF OnlyEnded, regVars
<1>6. FiredInv'
  <2>1. \A u \in Tasks : status'[u] = "gone" => status[u] = "gone"
    BY <1>2 DEF Others
  <2>2. \A u \in Tasks : status'[u] = "absent" <=> status[u] = "absent"
    BY <1>1, <1>2 DEF Others, Present
  <2>3. job' \in [Jobs -> JobType]
    BY <1>5 DEF IndInv, TypeOK, JobType
  <2>4. QED
    BY <1>1, <1>5, <2>1, <2>2, <2>3, EndedLive, FiredSame DEF IndInv
<1>7. LiveInv'
  <2>1. \A u \in Tasks : Live(u)' = Live(u) /\ rearmed'[u] = rearmed[u]
    BY <1>5 DEF Live
  <2>2. kind'[t] = "once" => fired[t] + Cardinality(Live(t)') <= 1 + rearmed'[t]
    BY <2>1, LiveNow
  <2>3. rearmed' \in [Tasks -> Nat] /\ UNCHANGED fired /\ TypeOK
    BY <1>1 DEF IndInv, TypeOK, firedVars
  <2>4. QED
    BY <1>1, <1>2, <1>5, <2>1, <2>2, <2>3, LiveInvInd
<1>8. QED
  BY <1>3, <1>4, <1>6, <1>7 DEF IndInv

LEMMA ResumeTaskInd == ASSUME NEW t \in Tasks PROVE IndInv /\ ResumeTask(t) => IndInv'
<1> SUFFICES ASSUME IndInv, ResumeTask(t) PROVE IndInv'
  OBVIOUS
<1>1. Command(t) /\ status[t] # "pending" /\ UNCHANGED <<kind, deps>>
  BY DEF ResumeTask
<1>2. CASE /\ Register(t, kind[t], job, runner, cronEntries, stopChs)
           /\ status' = [status EXCEPT ![t] = "pending"] /\ saved' = status'
           /\ rearmed' = [rearmed EXCEPT ![t] = @ + 1]
  <2>1. Clean(t, job, runner, cronEntries, stopChs)
    BY <1>1, CleanNow, CommandFrame DEF IndInv, Present
  <2>2. /\ status' \in [Tasks -> Statuses] /\ kind' \in [Tasks -> Kinds] /\ Others(t)
        /\ status'[t] = "pending" /\ kind'[t] = kind[t] /\ deps' \in [Tasks -> SUBSET Tasks]
    BY <1>1, <1>2 DEF IndInv, TypeOK, Statuses, Others
  <2>3. kind[t] = "once" => kind[t] = "once"
    OBVIOUS
  <2>4. /\ started /\ started' = started /\ Present(t)
        /\ UNCHANGED <<firedVars, ticks, crashes>> /\ commands' \in 0..MaxCommands
    BY <1>1, CommandFrame
  <2>5. QED
    BY <1>2, <2>1, <2>2, <2>3, <2>4, RegistersInd, Zenon
<1>3. CASE status' = [status EXCEPT ![t] = "paused"] /\ UNCHANGED <<saved, regVars, rearmed>>
  <2>1. kind' \in [Tasks -> Kinds] /\ deps' \in [Tasks -> SUBSET Tasks]
    BY <1>1 DEF IndInv, TypeOK
  <2>2. QED
    BY <1>1, <1>3, <2>1, UnregisteredInd
<1>4. QED
  BY <1>2, <1>3 DEF ResumeTask

LEMMA UpdateTaskInd ==
    ASSUME NEW t \in Tasks, NEW k \in {kind[t]} \cup NewKinds, NEW d \in {deps[t]} \cup NewDeps
    PROVE  IndInv /\ UpdateTask(t, k, d) => IndInv'
<1> SUFFICES ASSUME IndInv, UpdateTask(t, k, d) PROVE IndInv'
  OBVIOUS
<1>1. Command(t) /\ saved' = status'
  BY DEF UpdateTask
<1>2. /\ started /\ started' = started /\ Present(t)
      /\ UNCHANGED <<firedVars, ticks, crashes>> /\ commands' \in 0..MaxCommands
  BY <1>1, CommandFrame
<1>3. k \in Kinds /\ d \in SUBSET Tasks /\ (k = "once" => kind[t] = "once")
  BY DEF IndInv, TypeOK, Kinds
<1>4. CASE /\ status[t] = "pending" /\ Reregister(t, k, Quiet(t)) /\ UNCHANGED status
           /\ kind' = [kind EXCEPT ![t] = k] /\ deps' = [deps EXCEPT ![t] = d]
           /\ rearmed' = [rearmed EXCEPT ![t] = @ + 1]
  <2>1. Quiet(t) \in [Jobs -> JobType]
    BY DEF IndInv, TypeOK, JobType, Quiet
  <2>2. Clean(t, Quiet(t), RunnerWithout(t), cronEntries \ {t}, ChannelsWithout(t))
    BY <1>4, <2>1, CleanAfter DEF IndInv
  <2>3. /\ status' \in [Tasks -> Statuses] /\ kind' \in [Tasks -> Kinds] /\ Others(t)
        /\ status'[t] = "pending" /\ kind'[t] = k /\ deps' \in [Tasks -> SUBSET Tasks]
    BY <1>3, <1>4 DEF IndInv, TypeOK, Others
  <2>4. Register(t, k, Quiet(t), RunnerWithout(t), cronEntries \ {t}, ChannelsWithout(t))
    BY <1>4 DEF Reregister
  <2>5. QED
    BY <1>1, <1>2, <1>3, <1>4, <2>2, <2>3, <2>4, RegistersInd, Zenon
<1>5. CASE /\ Deregister(t) /\ status' = [status EXCEPT ![t] = "paused"]
           /\ UNCHANGED <<kind, deps, rearmed>>
  <2>1. status' \in [Tasks -> Statuses] /\ Others(t) /\ status'[t] \in {"paused", "cancelled"}
    BY <1>5 DEF IndInv, TypeOK, Statuses, Others
  <2>2. QED
    BY <1>1, <1>2, <1>5, <2>1, DeregistersInd
<1>6. CASE /\ status[t] # "pending" /\ UNCHANGED <<status, regVars, rearmed>>
           /\ kind' = [kind EXCEPT ![t] = k] /\ deps' = [deps EXCEPT ![t] = d]
  <2>1. /\ kind' \in [Tasks -> Kinds] /\ deps' \in [Tasks -> SUBSET Tasks] /\ kind'[t] = k
        /\ \A u \in Tasks : u # t => kind'[u] = kind[u]
    BY <1>3, <1>6 DEF IndInv, TypeOK
  <2>2. QED
    BY <1>1, <1>3, <1>6, <2>1, UnregisteredInd
<1>7. QED
  BY <1>4, <1>5, <1>6 DEF UpdateTask

-----------------------------------------------------------------------------
(* One goroutine moves on, the registry stays.                             *)
LEMMA JobStepInd ==
    ASSUME IndInv, NEW j \in Jobs, NEW u \in Tasks, NEW new \in JobType,
           job' = [job EXCEPT ![j] = new],
           UNCHANGED <<started, status, kind, deps, cronEntries, runner, stopChs, rearmed, commands,
                       crashes>>,
           saved' = saved \/ saved' = status, ticks' \in 0..MaxTicks, started,
           new.at # "armed",
           new = Idle => job[j] = Idle \/ ~job[j].timer \/ ~Active(u, "once"),
           new # Idle => new.task = u /\ status[u] # "absent",
           job[j] # Idle => job[j].task = u /\ (job[j].timer /\ new # Idle => new.timer),
           fired' \in [Tasks -> Nat], \A v \in Tasks : v # u => fired'[v] = fired[v],
           fired[u] <= fired'[u], skipped \subseteq skipped', skipped' \subseteq Tasks,
           status[u] # "absent" \/ fired'[u] = fired[u],
           new.at = "removing" => fired'[u] > 0 \/ u \in skipped',
           kind[u] = "once" => fired'[u] + Cardinality(Live(u)') <= 1 + rearmed[u]
    PROVE  IndInv'
<1>1. /\ job'[j] = new /\ \A i \in Jobs : i # j => job'[i] = job[i]
      /\ job' \in [Jobs -> JobType]
  BY DEF IndInv, TypeOK, JobType
<1>2. TypeOK'
  BY <1>1 DEF IndInv, TypeOK, JobType
<1>3. NoGhostEntry'
  BY DEF IndInv, RegInv, NoGhostEntry, Active
<1>4. NoStuckOneShot'
  <2>1. ASSUME NEW v \in Tasks
        PROVE  IF started' /\ Active(v, "once")'
               THEN \E i \in Jobs : stopChs'[v] = i /\ job'[i] # Idle /\ job'[i].task = v /\ job'[i].timer
               ELSE stopChs'[v] = NoJob
    <3>1. CASE Active(v, "once")
      <4>1. PICK i \in Jobs : stopChs[v] = i /\ job[i] # Idle /\ job[i].task = v /\ job[i].timer
        BY <3>1 DEF IndInv, RegInv, NoStuckOneShot
      <4>2. job'[i] # Idle /\ job'[i].task = v /\ job'[i].timer
        BY <1>1, <3>1, <4>1
      <4>3. QED
        BY <3>1, <4>1, <4>2 DEF Active
    <3>2. CASE ~Active(v, "once")
      BY <3>2 DEF IndInv, RegInv, NoStuckOneShot, Active
    <3>3. QED
      BY <3>1, <3>2
  <2>2. ASSUME NEW i \in Jobs, job'[i].at = "armed"
        PROVE  status'[job'[i].task] = "gone" \/ stopChs'[job'[i].task] = i
    BY <1>1, <2>2 DEF IndInv, RegInv, NoStuckOneShot
  <2>3. QED
    BY <2>1, <2>2 DEF NoStuckOneShot
<1>5. FiredInv'
  <2>1. \A v \in Tasks : Handled(v) => fired'[v] > 0 \/ v \in skipped'
    BY DEF Handled, IndInv, TypeOK
  <2>2. NeverRemovedUnfired'
    BY <2>1 DEF IndInv, FiredInv, NeverRemovedUnfired, Handled
  <2>3. SavedInv'
    BY <2>1 DEF IndInv, FiredInv, NeverRemovedUnfired, SavedInv, Handled
  <2>4. RemovingInv'
    <3> SUFFICES ASSUME NEW i \in Jobs, job'[i].at = "removing"
                 PROVE  fired'[job'[i].task] > 0 \/ job'[i].task \in skipped'
      BY DEF RemovingInv, Handled
    <3>1. CASE i = j
      BY <1>1, <3>1, IdleStage DEF Handled, Stages
    <3>2. CASE i # j
      BY <1>1, <2>1, <3>2, JobKinds, IdleStage DEF IndInv, FiredInv, RemovingInv
    <3>3. QED
      BY <3>1, <3>2
  <2>5. QED
    BY <2>2, <2>3, <2>4 DEF FiredInv
<1>6. LiveInv'
  <2>1. Quietness'
    BY <1>1 DEF IndInv, LiveInv, Quietness
  <2>2. NeverFired'
    BY DEF IndInv, LiveInv, NeverFired
  <2>3. ASSUME NEW v \in Tasks, kind[v] = "once"
        PROVE  fired'[v] + Cardinality(Live(v)') <= 1 + rearmed[v]
    <3>1. CASE v = u
      BY <2>3, <3>1
    <3>2. CASE v # u
      <4>1. Live(v)' \subseteq Live(v)
        BY <1>1, <3>2, IdleStage DEF Live, Stages
      <4>2. Cardinality(Live(v)') <= Cardinality(Live(v)) /\ Cardinality(Live(v)) \in Nat
            /\ Cardinality(Live(v)') \in Nat
        BY <4>1, FewerLive, LiveSubset
      <4>3. QED
        BY <2>3, <3>2, <4>2, LiveNow
    <3>3. QED
      BY <3>1, <3>2
  <2>4. OneFirePerArming'
    BY <2>3 DEF OneFirePerArming, Live
  <2>5. QED
    BY <2>1, <2>2, <2>4 DEF LiveInv
<1>7. QED
  BY <1>2, <1>3, <1>4, <1>5, <1>6 DEF IndInv, RegInv

(* A goroutine that does something has a task that exists.                 *)
LEMMA Busy ==
    ASSUME IndInv, NEW j \in Jobs, job[j].at \in Stages
    PROVE  /\ started /\ job[j] # Idle /\ job[j].task \in Tasks /\ status[job[j].task] # "absent"
           /\ job[j].timer \in BOOLEAN
           /\ job[j] = Goroutine(job[j].task, job[j].at, job[j].timer)
<1>1. job[j] # Idle
  BY IdleStage
<1>2. QED
  BY <1>1, JobKinds DEF IndInv, LiveInv, Quietness

(* The steps of a goroutine, with the task u it works for.                  *)
LEMMA StepLive ==
    ASSUME TypeOK, NEW j \in Jobs, NEW u \in Tasks, NEW new \in JobType,
           job' = [job EXCEPT ![j] = new], j \in Live(u)
    PROVE  /\ Cardinality(Live(u)') <= Cardinality(Live(u)) /\ Cardinality(Live(u)) \in Nat
           /\ Cardinality(Live(u)') \in Nat
           /\ new.at \in {"idle", "removing"} =>
                 Cardinality(Live(u)') + 1 <= Cardinality(Live(u))
<1>1. job'[j] = new /\ \A i \in Jobs : i # j => job'[i] = job[i]
  BY DEF TypeOK
<1>2. Live(u)' \subseteq Live(u)
  BY <1>1 DEF Live
<1>3. new.at \in {"idle", "removing"} => Live(u)' \subseteq Live(u) \ {j}
  BY <1>1 DEF Live
<1>4. QED
  BY <1>2, <1>3, FewerLive, OneLessLive, LiveSubset

LEMMA OneLess ==
    ASSUME NEW R \in SUBSET Jobs, NEW j \in R
    PROVE  /\ Cardinality(R \ {j}) + 1 <= Cardinality(R) /\ Cardinality(R) \in Nat
           /\ Cardinality(R \ {j}) \in Nat
<1>1. IsFiniteSet(R)
  BY FS_Subset
<1>2. IsFiniteSet(R \ {j}) /\ Cardinality(R \ {j}) = Cardinality(R) - 1
  BY <1>1, FS_RemoveElement
<1>3. Cardinality(R) \in Nat /\ Cardinality(R \ {j}) \in Nat
  BY <1>1, <1>2, FS_CardinalityType
<1>4. QED
  BY <1>2, <1>3

LEMMA TickInd == ASSUME NEW t \in Tasks PROVE IndInv /\ Tick(t) => IndInv'
<1> SUFFICES ASSUME IndInv, Tick(t) PROVE IndInv'
  OBVIOUS
<1>1. PICK j \in Jobs : job[j] = Idle /\ job' = [job EXCEPT ![j] = Goroutine(t, "due", FALSE)]
  BY DEF Tick
<1>2. /\ runner[t] > 0 /\ started /\ ticks' \in 0..MaxTicks
      /\ UNCHANGED <<started, tasksVars, cronEntries, runner, stopChs, firedVars, rearmed, commands,
                     crashes>>
  BY DEF Tick, IndInv, TypeOK
<1>3. Active(t, "cron")
  BY <1>2 DEF IndInv, RegInv, NoGhostEntry
<1>4. /\ Goroutine(t, "due", FALSE) \in JobType /\ Goroutine(t, "due", FALSE).at = "due"
      /\ Goroutine(t, "due", FALSE).task = t /\ Goroutine(t, "due", FALSE) # Idle
  BY GoroutineStage DEF Stages, JobType
<1>5. kind[t] # "once" /\ status[t] # "absent"
  BY <1>3 DEF Active
<1>6. UNCHANGED <<started, status, saved, kind, deps, fired, skipped>>
  BY <1>2 DEF tasksVars, firedVars
<1>7. fired' \in [Tasks -> Nat] /\ skipped' \subseteq Tasks /\ fired[t] <= fired'[t]
  BY <1>6 DEF IndInv, TypeOK
<1>8. QED
  BY <1>1, <1>2, <1>4, <1>5, <1>6, <1>7, JobStepInd

(* A goroutine goes on, or ends for a task it may not fire.                *)
LEMMA StageInd ==
    ASSUME IndInv, NEW j \in Jobs, NEW u \in Tasks, NEW new \in JobType,
           started, job[j] # Idle, job[j].task = u, status[u] # "absent", j \in Live(u),
           job' = [job EXCEPT ![j] = new],
           \/ new = Idle /\ (~job[j].timer \/ ~Active(u, "once"))
           \/ new # Idle /\ new.task = u /\ new.at \in {"due", "script"} /\ new.timer = job[j].timer,
           saved' = saved \/ saved' = status,
           UNCHANGED <<started, status, kind, deps, cronEntries, runner, stopChs, firedVars, rearmed,
                       bounds>>
    PROVE  IndInv'
<1>1. /\ new.at # "armed" /\ new.at # "removing"
      /\ new = Idle => job[j] = Idle \/ ~job[j].timer \/ ~Active(u, "once")
      /\ new # Idle => new.task = u /\ status[u] # "absent"
      /\ job[j].timer /\ new # Idle => new.timer
  BY IdleStage
<1>2. /\ UNCHANGED <<fired, skipped, commands, ticks, crashes>> /\ TypeOK
  BY DEF firedVars, bounds, IndInv
<1>3. kind[u] = "once" => fired'[u] + Cardinality(Live(u)') <= 1 + rearmed[u]
  <2>1. Cardinality(Live(u)') <= Cardinality(Live(u)) /\ Cardinality(Live(u)) \in Nat
        /\ Cardinality(Live(u)') \in Nat
    BY <1>2, StepLive
  <2>2. QED
    BY <1>2, <2>1, LiveNow
<1>4. /\ fired' \in [Tasks -> Nat] /\ skipped' \subseteq Tasks /\ skipped \subseteq skipped'
      /\ fired[u] <= fired'[u] /\ \A v \in Tasks : v # u => fired'[v] = fired[v]
      /\ ticks' \in 0..MaxTicks
  BY <1>2 DEF TypeOK
<1>5. QED
  BY <1>1, <1>2, <1>3, <1>4, JobStepInd

(* What is known of a goroutine before one of its steps.                   *)
LEMMA TaskOf ==
    ASSUME IndInv, NEW j \in Jobs, job[j].at \in Stages
    PROVE  \E u \in Tasks, timer \in BOOLEAN :
              /\ job[j] = Goroutine(u, job[j].at, timer) /\ job[j].task = u /\ job[j].timer = timer
              /\ started /\ job[j] # Idle /\ status[u] # "absent"
              /\ job[j].at # "removing" => j \in Live(u)
BY Busy DEF Live, Stages

LEMMA ElapseInd == ASSUME NEW j \in Jobs PROVE IndInv /\ Elapse(j) => IndInv'
<1> SUFFICES ASSUME IndInv, Elapse(j) PROVE IndInv'
  OBVIOUS
<1>1. job[j].at = "armed" /\ "armed" \in Stages /\ "due" \in Stages
  BY DEF Elapse, Stages
<1>2. PICK u \in Tasks, timer \in BOOLEAN :
        /\ job[j] = Goroutine(u, "armed", timer) /\ job[j].task = u /\ job[j].timer = timer
        /\ started /\ job[j] # Idle /\ status[u] # "absent" /\ j \in Live(u)
  BY <1>1, TaskOf
<1>3. job' = [job EXCEPT ![j] = Goroutine(u, "due", timer)]
  <2>1. [job[j] EXCEPT !.at = "due"] = Goroutine(u, "due", timer)
    BY <1>2 DEF Goroutine
  <2>2. QED
    BY <2>1 DEF Elapse, IndInv, TypeOK
<1>4. /\ Goroutine(u, "due", timer) \in JobType /\ Goroutine(u, "due", timer) # Idle
      /\ Goroutine(u, "due", timer).task = u /\ Goroutine(u, "due", timer).at = "due"
      /\ Goroutine(u, "due", timer).timer = timer
  BY <1>1, GoroutineStage DEF JobType
<1>5. saved' = saved /\ UNCHANGED <<started, status, kind, deps, cronEntries, runner, stopChs, firedVars,
                                    rearmed, bounds>>
  BY DEF Elapse, tasksVars
<1>6. QED
  BY <1>2, <1>3, <1>4, <1>5, StageInd

LEMMA FireRefusedInd == ASSUME NEW j \in Jobs PROVE IndInv /\ FireRefused(j) => IndInv'
<1> SUFFICES ASSUME IndInv, FireRefused(j) PROVE IndInv'
  OBVIOUS
<1>1. job[j].at = "due" /\ "due" \in Stages
  BY DEF FireRefused, Stages
<1>2. PICK u \in Tasks : /\ job[j].task = u /\ started /\ job[j] # Idle /\ status[u] # "absent"
                         /\ j \in Live(u)
  BY <1>1, TaskOf
<1>3. Idle \in JobType /\ job' = [job EXCEPT ![j] = Idle] /\ ~Active(u, "once")
  BY <1>2 DEF FireRefused, JobType, Active
<1>4. saved' = saved /\ UNCHANGED <<started, status, kind, deps, cronEntries, runner, stopChs, firedVars,
                                    rearmed, bounds>>
  BY DEF FireRefused, tasksVars
<1>5. QED
  BY <1>2, <1>3, <1>4, StageInd

LEMMA FireBeginInd == ASSUME NEW j \in Jobs PROVE IndInv /\ FireBegin(j) => IndInv'
<1> SUFFICES ASSUME IndInv, FireBegin(j) PROVE IndInv'
  OBVIOUS
<1>1. job[j].at = "due" /\ "due" \in Stages /\ "script" \in Stages
  BY DEF FireBegin, Stages
<1>2. PICK u \in Tasks, timer \in BOOLEAN :
        /\ job[j] = Goroutine(u, "due", timer) /\ job[j].task = u /\ job[j].timer = timer
        /\ started /\ job[j] # Idle /\ status[u] # "absent" /\ j \in Live(u)
  BY <1>1, TaskOf
<1>3. job' = [job EXCEPT ![j] = Goroutine(u, "script", timer)]
  <2>1. [job[j] EXCEPT !.at = "script"] = Goroutine(u, "script", timer)
    BY <1>2 DEF Goroutine
  <2>2. QED
    BY <2>1 DEF FireBegin, IndInv, TypeOK
<1>4. /\ Goroutine(u, "script", timer) \in JobType /\ Goroutine(u, "script", timer) # Idle
      /\ Goroutine(u, "script", timer).task = u /\ Goroutine(u, "script", timer).at = "script"
      /\ Goroutine(u, "script", timer).timer = timer
  BY <1>1, GoroutineStage DEF JobType
<1>5. saved' = status /\ UNCHANGED <<started, status, kind, deps, cronEntries, runner, stopChs, firedVars,
                                    rearmed, bounds>>
  BY DEF FireBegin
<1>6. QED
  BY <1>2, <1>3, <1>4, <1>5, StageInd

LEMMA FireDeferredInd == ASSUME NEW j \in Jobs PROVE IndInv /\ FireDeferred(j) => IndInv'
<1> SUFFICES ASSUME IndInv, FireDeferred(j) PROVE IndInv'
  OBVIOUS
<1>1. job[j].at = "due" /\ "due" \in Stages
  BY DEF FireDeferred, Stages
<1>2. PICK t \in Tasks : /\ job[j].task = t /\ started /\ job[j] # Idle /\ status[t] # "absent"
                         /\ j \in Live(t)
  BY <1>1, TaskOf
<1>3. /\ status[t] = "pending"
      /\ UNCHANGED <<started, status, kind, deps, firedVars, rearmed, bounds>>
      /\ \/ /\ kind[t] = "once" /\ saved' = status
            /\ Reregister(t, "once", [i \in Jobs |-> IF i = j THEN Idle ELSE Quiet(t)[i]])
         \/ /\ kind[t] # "once" /\ job' = [job EXCEPT ![j] = Idle]
            /\ UNCHANGED <<cronEntries, runner, stopChs, saved>>
  BY <1>2 DEF FireDeferred
<1>4. CASE /\ kind[t] = "once" /\ saved' = status
           /\ Reregister(t, "once", [i \in Jobs |-> IF i = j THEN Idle ELSE Quiet(t)[i]])
  <2>1. TypeOK /\ RegInv /\ FiredInv
    BY DEF IndInv
  <2>2. PICK jobs : jobs = [i \in Jobs |-> IF i = j THEN Idle ELSE Quiet(t)[i]]
    OBVIOUS
  <2>3. jobs \in [Jobs -> JobType] /\ jobs[j] = Idle
    BY <2>1, <2>2 DEF TypeOK, JobType, Quiet
  <2>4. \A i \in Jobs : jobs[i] = Quiet(t)[i]
                        \/ (jobs[i] = Idle /\ job[i] # Idle /\ job[i].task = t)
    BY <1>2, <2>2, <2>3
  <2>5. Register(t, "once", jobs, RunnerWithout(t), cronEntries \ {t}, ChannelsWithout(t))
    BY <1>4, <2>2 DEF Reregister
  <2>6. Clean(t, jobs, RunnerWithout(t), cronEntries \ {t}, ChannelsWithout(t))
    BY <1>3, <2>1, <2>3, <2>4, CleanAfter
  <2>7. /\ started' = started /\ status'[t] = "pending" /\ kind'[t] = "once" /\ Others(t)
        /\ UNCHANGED <<status, kind, fired, skipped, rearmed>>
    BY <1>3, <1>4 DEF Others, firedVars
  <2>8. RegTypes' /\ RegInv' /\ Began(t, jobs)
    BY <1>2, <2>1, <2>5, <2>6, <2>7, RegisterInd, Zenon
  <2>9. NewJobs(t)
    BY <2>6, <2>8, BeganNew, Zenon
  <2>10. TypeOK'
    BY <1>3, <1>4, <2>1, <2>8 DEF TypeOK, RegTypes, JobType, firedVars, bounds
  <2>11. /\ \A i \in Jobs : job'[i].at = "removing" => job'[i] = job[i]
         /\ \A i \in Jobs : job'[i] # Idle => job'[i].task = t \/ job'[i] = job[i]
         /\ \A u \in Tasks : u # t => Live(u)' \subseteq Live(u)
    BY <2>1, <2>9, NewLive
  <2>12. FiredInv'
    <3>1. job' \in [Jobs -> JobType] /\ UNCHANGED firedVars
      BY <1>3, <2>8 DEF RegTypes
    <3>2. QED
      BY <1>4, <2>1, <2>7, <2>11, <3>1, FiredSame
  <2>13. LiveInv'
    <3>1. PICK k \in Jobs \cup {NoJob} : \A i \in Jobs : i # k => job'[i] = jobs[i]
      BY <2>8 DEF Began
    <3>2. Live(t)' \subseteq (Live(t) \ {j}) \cup {k}
      <4> SUFFICES ASSUME NEW i \in Jobs, i # k, i \in Live(t)' PROVE i \in Live(t) /\ i # j
        BY LiveSubset
      <4>1. job'[i] = jobs[i] /\ job'[i].at \in {"armed", "due", "script"} /\ job'[i].task = t
        BY <3>1 DEF Live
      <4>2. jobs[i] # Idle
        BY <4>1 DEF Idle
      <4>3. jobs[i] = job[i] /\ i # j
        BY <2>3, <2>6, <4>2 DEF Clean
      <4>4. QED
        BY <4>1, <4>3 DEF Live
    <3>3. /\ Cardinality(Live(t)') <= Cardinality(Live(t) \ {j}) + 1
          /\ Cardinality(Live(t)') \in Nat /\ Cardinality(Live(t) \ {j}) \in Nat
      <4>1. Live(t)' \in SUBSET Jobs /\ Live(t) \ {j} \in SUBSET Jobs
        BY LiveSubset
      <4>2. QED
        BY <3>2, <4>1, OneMoreLive
    <3>4. /\ Cardinality(Live(t) \ {j}) + 1 <= Cardinality(Live(t))
          /\ Cardinality(Live(t)) \in Nat
      <4>1. Live(t) \in SUBSET Jobs /\ Live(t) \ {j} \in SUBSET Jobs
        BY LiveSubset
      <4>2. QED
        BY <1>2, <4>1, OneLess
    <3>5. fired[t] + Cardinality(Live(t)') <= 1 + rearmed'[t]
      BY <1>4, <2>7, <3>3, <3>4, LiveNow
    <3>6. /\ rearmed' \in [Tasks -> Nat] /\ status'[t] # "absent"
          /\ (kind'[t] = "once" => kind[t] = "once")
          /\ \A u \in Tasks : u # t => Live(u)' \subseteq Live(u) /\ rearmed'[u] = rearmed[u]
      BY <1>4, <2>1, <2>7, <2>11 DEF TypeOK
    <3>7. QED
      BY <1>2, <2>1, <2>7, <2>11, <3>5, <3>6, LiveInvInd
  <2>14. QED
    BY <2>8, <2>10, <2>12, <2>13 DEF IndInv
<1>5. CASE /\ kind[t] # "once" /\ job' = [job EXCEPT ![j] = Idle]
           /\ UNCHANGED <<cronEntries, runner, stopChs, saved>>
  <2>1. Idle \in JobType /\ ~Active(t, "once")
    BY <1>5 DEF JobType, Active
  <2>2. UNCHANGED <<started, status, kind, deps, cronEntries, runner, stopChs, firedVars, rearmed, bounds>>
    BY <1>3, <1>5
  <2>3. QED
    BY <1>2, <1>5, <2>1, <2>2, StageInd
<1>6. QED
  BY <1>3, <1>4, <1>5

(* fire returns: the turn was handed out or skipped.                       *)
LEMMA ReturnsInd ==
    ASSUME NEW j \in Jobs PROVE IndInv /\ (Wake(j) \/ SkipTurn(j)) => IndInv'
<1> SUFFICES ASSUME IndInv, Wake(j) \/ SkipTurn(j) PROVE IndInv'
  OBVIOUS
<1>1. job[j].at = "script" /\ "script" \in Stages /\ "removing" \in Stages
  BY DEF Wake, SkipTurn, Returns, Stages
<1>2. PICK u \in Tasks, timer \in BOOLEAN :
        /\ job[j].task = u /\ job[j].timer = timer
        /\ started /\ job[j] # Idle /\ status[u] # "absent" /\ j \in Live(u)
  BY <1>1, TaskOf
<1>3. PICK new : new = IF timer THEN Goroutine(u, "removing", TRUE) ELSE Idle
  OBVIOUS
<1>4. /\ job' = [job EXCEPT ![j] = new]
      /\ UNCHANGED <<started, tasksVars, cronEntries, runner, stopChs, rearmed, bounds>>
      /\ \/ fired' = [fired EXCEPT ![u] = @ + 1] /\ UNCHANGED skipped
         \/ skipped' = skipped \cup {u} /\ UNCHANGED fired
  BY <1>2, <1>3 DEF Wake, SkipTurn, Returns, IndInv, TypeOK
<1>5. /\ \/ timer /\ new # Idle /\ new.task = u /\ new.at = "removing" /\ new.timer
         \/ ~timer /\ new = Idle /\ new.at = "idle"
      /\ new \in JobType
  <2>1. CASE timer
    <3>1. new = Goroutine(u, "removing", TRUE)
      BY <1>3, <2>1
    <3>2. /\ Goroutine(u, "removing", TRUE) \in JobType /\ Goroutine(u, "removing", TRUE) # Idle
          /\ Goroutine(u, "removing", TRUE).at = "removing" /\ Goroutine(u, "removing", TRUE).task = u
          /\ Goroutine(u, "removing", TRUE).timer
      BY GoroutineStage DEF JobType, Stages
    <3>3. QED
      BY <2>1, <3>1, <3>2
  <2>2. CASE ~timer
    BY <1>3, <2>2, IdleStage DEF JobType
  <2>3. QED
    BY <2>1, <2>2
<1>6. /\ fired' \in [Tasks -> Nat] /\ \A v \in Tasks : v # u => fired'[v] = fired[v]
      /\ fired[u] <= fired'[u] /\ fired'[u] <= fired[u] + 1 /\ fired[u] \in Nat /\ fired'[u] \in Nat
      /\ skipped \subseteq skipped' /\ skipped' \subseteq Tasks
      /\ fired'[u] > 0 \/ u \in skipped'
  BY <1>4 DEF IndInv, TypeOK
<1>7. kind[u] = "once" => fired'[u] + Cardinality(Live(u)') <= 1 + rearmed[u]
  <2>1. /\ Cardinality(Live(u)') + 1 <= Cardinality(Live(u)) /\ Cardinality(Live(u)) \in Nat
        /\ Cardinality(Live(u)') \in Nat
    <3>1. TypeOK /\ new.at \in {"idle", "removing"} /\ new \in JobType
      BY <1>5 DEF IndInv
    <3>2. QED
      BY <1>2, <1>4, <3>1, StepLive
  <2>2. QED
    BY <1>6, <2>1, LiveNow
<1>8. /\ ticks' \in 0..MaxTicks /\ saved' = saved
      /\ UNCHANGED <<started, status, kind, deps, cronEntries, runner, stopChs, rearmed, commands, crashes>>
  BY <1>4 DEF IndInv, TypeOK, bounds, tasksVars
<1>9. /\ new.at # "armed"
      /\ new = Idle => job[j] = Idle \/ ~job[j].timer \/ ~Active(u, "once")
      /\ new # Idle => new.task = u /\ status[u] # "absent"
      /\ job[j] # Idle => job[j].task = u /\ (job[j].timer /\ new # Idle => new.timer)
  BY <1>2, <1>5
<1>10. QED
  BY <1>2, <1>4, <1>5, <1>6, <1>7, <1>8, <1>9, JobStepInd

-----------------------------------------------------------------------------
(* Run: what was loaded as pending has its entry or its timer.             *)
LEMMA RunInd == IndInv /\ Run => IndInv'
<1> SUFFICES ASSUME IndInv, Run PROVE IndInv'
  OBVIOUS
<1> DEFINE crons == {t \in Tasks : status[t] = "pending" /\ kind[t] = "cron"}
           onces == {t \in Tasks : status[t] = "pending" /\ kind[t] = "once"}
<1>1. PICK f \in [onces -> Jobs] :
        /\ \A t, u \in onces : f[t] = f[u] => t = u
        /\ stopChs' = [t \in Tasks |-> IF t \in onces THEN f[t] ELSE NoJob]
        /\ job' = [j \in Jobs |-> IF \E t \in onces : f[t] = j
                                  THEN Goroutine(CHOOSE t \in onces : f[t] = j, "armed", TRUE)
                                  ELSE Idle]
  BY DEF Run
<1>2. /\ ~started /\ started' = TRUE /\ cronEntries' = crons
      /\ runner' = [t \in Tasks |-> IF t \in crons THEN 1 ELSE 0]
      /\ rearmed' = [t \in Tasks |-> IF status[t] = "pending" THEN rearmed[t] + 1 ELSE rearmed[t]]
      /\ UNCHANGED <<tasksVars, firedVars, bounds>>
  BY DEF Run
<1>3. TypeOK /\ UNCHANGED <<status, saved, kind, deps, fired, skipped, commands, ticks, crashes>>
  BY <1>2 DEF IndInv, tasksVars, firedVars, bounds
<1>4. \A j \in Jobs : \/ job'[j] = Idle /\ job'[j].at = "idle" /\ \A t \in onces : f[t] # j
                      \/ \E t \in onces : f[t] = j /\ job'[j] = Goroutine(t, "armed", TRUE)
  <2> TAKE j \in Jobs
  <2>1. CASE \E t \in onces : f[t] = j
    <3>1. PICK c : c = CHOOSE t \in onces : f[t] = j
      OBVIOUS
    <3>2. c \in onces /\ f[c] = j
      BY <2>1, <3>1
    <3>3. job'[j] = Goroutine(c, "armed", TRUE)
      BY <1>1, <2>1, <3>1
    <3>4. \E t \in onces : f[t] = j /\ job'[j] = Goroutine(t, "armed", TRUE)
      BY <3>2, <3>3, Zenon
    <3>5. QED
      BY <3>4
  <2>2. CASE ~\E t \in onces : f[t] = j
    BY <1>1, <2>2, IdleStage
  <2>3. QED
    BY <2>1, <2>2
<1>5. \A t \in onces : job'[f[t]] = Goroutine(t, "armed", TRUE)
  BY <1>1, <1>4
<1>6. ASSUME NEW t \in Tasks
      PROVE  /\ Goroutine(t, "armed", TRUE) \in JobType /\ Goroutine(t, "armed", TRUE) # Idle
             /\ Goroutine(t, "armed", TRUE).at = "armed" /\ Goroutine(t, "armed", TRUE).task = t
             /\ Goroutine(t, "armed", TRUE).timer
  BY GoroutineStage DEF Stages, JobType
<1>7. \A j \in Jobs :
          \/ job'[j] = Idle /\ job'[j].at = "idle"
          \/ /\ job'[j] # Idle /\ job'[j].at = "armed" /\ job'[j].task \in onces
             /\ f[job'[j].task] = j /\ job'[j] \in JobType
  <2> TAKE j \in Jobs
  <2>1. CASE \E t \in onces : f[t] = j /\ job'[j] = Goroutine(t, "armed", TRUE)
    <3>1. PICK t \in onces : f[t] = j /\ job'[j] = Goroutine(t, "armed", TRUE)
      BY <2>1
    <3>2. /\ Goroutine(t, "armed", TRUE) \in JobType /\ Goroutine(t, "armed", TRUE) # Idle
          /\ Goroutine(t, "armed", TRUE).at = "armed" /\ Goroutine(t, "armed", TRUE).task = t
      BY <1>6
    <3>3. QED
      BY <3>1, <3>2
  <2>2. QED
    BY <1>4, <2>1
<1>8. job' \in [Jobs -> JobType]
  <2>1. \A j \in Jobs : job'[j] \in JobType
    BY <1>7 DEF JobType
  <2>2. QED
    BY <1>1, <2>1
<1>9. stopChs' \in [Tasks -> Jobs \cup {NoJob}]
  BY <1>1
<1>10. rearmed' \in [Tasks -> Nat] /\ \A t \in Tasks : rearmed[t] <= rearmed'[t]
  BY <1>2, <1>3 DEF TypeOK
<1>11. TypeOK'
  BY <1>2, <1>3, <1>8, <1>9, <1>10 DEF TypeOK, JobType
<1>12. RegInv'
  <2>1. \A t \in Tasks, k \in {"once", "cron"} : Active(t, k)' <=> Active(t, k)
    BY <1>3 DEF Active
  <2>2. NoGhostEntry'
    BY <1>2, <2>1 DEF NoGhostEntry, Active
  <2>3. NoStuckOneShot'
    <3>1. ASSUME NEW t \in Tasks
          PROVE  IF started' /\ Active(t, "once")'
                 THEN \E j \in Jobs : stopChs'[t] = j /\ job'[j] # Idle /\ job'[j].task = t /\ job'[j].timer
                 ELSE stopChs'[t] = NoJob
      <4>1. CASE t \in onces
        <5>1. f[t] \in Jobs /\ stopChs'[t] = f[t] /\ job'[f[t]] = Goroutine(t, "armed", TRUE)
          BY <1>1, <1>5, <4>1
        <5>2. started' /\ Active(t, "once")'
          BY <1>2, <2>1, <4>1 DEF Active
        <5>3. /\ Goroutine(t, "armed", TRUE) # Idle /\ Goroutine(t, "armed", TRUE).task = t
              /\ Goroutine(t, "armed", TRUE).timer
          BY GoroutineStage DEF Stages
        <5>4. job'[f[t]] # Idle /\ job'[f[t]].task = t /\ job'[f[t]].timer
          BY <5>1, <5>3
        <5>5. QED
          BY <5>1, <5>2, <5>4
      <4>2. CASE t \notin onces
        BY <1>1, <2>1, <4>2 DEF Active
      <4>3. QED
        BY <4>1, <4>2
    <3>2. ASSUME NEW j \in Jobs, job'[j].at = "armed"
          PROVE  status'[job'[j].task] = "gone" \/ stopChs'[job'[j].task] = j
      <4>1. PICK t \in onces : f[t] = j /\ job'[j] = Goroutine(t, "armed", TRUE)
        BY <1>4, <3>2
      <4>2. job'[j].task = t
        BY <1>6, <4>1
      <4>3. stopChs'[t] = f[t]
        BY <1>1, <4>1
      <4>4. QED
        BY <4>1, <4>2, <4>3
    <3>3. QED
      BY <3>1, <3>2 DEF NoStuckOneShot
  <2>4. QED
    BY <2>2, <2>3 DEF RegInv
<1>13. \A j \in Jobs : job'[j] # Idle => job'[j].at = "armed" /\ job'[j].task \in onces
  BY <1>7
<1>14. FiredInv'
  <2>1. \A i \in Jobs : job'[i].at = "removing" => job'[i] = job[i]
    BY <1>13, IdleStage
  <2>2. UNCHANGED firedVars /\ FiredInv
    BY <1>2 DEF IndInv
  <2>3. QED
    BY <1>3, <1>8, <2>1, <2>2, FiredSame
<1>15. LiveInv'
  <2>1. Quietness'
    BY <1>2, <1>3, <1>13 DEF Quietness
  <2>2. NeverFired'
    BY <1>3 DEF IndInv, LiveInv, NeverFired
  <2>3. ASSUME NEW t \in Tasks, kind[t] = "once"
        PROVE  fired[t] + Cardinality(Live(t)') <= 1 + rearmed'[t]
    <3>1. \A i \in Jobs : job[i] = Idle /\ job[i].at = "idle"
      BY <1>2, IdleStage DEF IndInv, LiveInv, Quietness
    <3>2. Live(t) = {}
      BY <3>1 DEF Live
    <3>3. Cardinality(Live(t)) = 0
      BY <3>2, FS_EmptySet
    <3>4. fired[t] <= 1 + rearmed[t] /\ fired[t] \in Nat /\ rearmed[t] \in Nat
      BY <2>3, <3>3, LiveNow
    <3>5. CASE t \in onces
      <4>1. Live(t)' \subseteq Live(t) \cup {f[t]}
        BY <1>7, <3>5 DEF Live
      <4>2. Cardinality(Live(t)') <= Cardinality(Live(t)) + 1 /\ Cardinality(Live(t)') \in Nat
        BY <4>1, OneMoreLive, LiveSubset
      <4>3. rearmed'[t] = rearmed[t] + 1
        BY <1>2, <3>5
      <4>4. QED
        BY <3>3, <3>4, <4>2, <4>3
    <3>6. CASE t \notin onces
      <4>1. Live(t)' \subseteq Live(t)
        BY <1>13, <3>6, IdleStage DEF Live, Stages
      <4>2. Cardinality(Live(t)') <= Cardinality(Live(t)) /\ Cardinality(Live(t)') \in Nat
        BY <4>1, FewerLive, LiveSubset
      <4>3. QED
        BY <1>10, <3>3, <3>4, <4>2 DEF TypeOK
    <3>7. QED
      BY <3>5, <3>6
  <2>4. OneFirePerArming'
    BY <1>3, <2>3 DEF OneFirePerArming, Live
  <2>5. QED
    BY <2>1, <2>2, <2>4 DEF LiveInv
<1>16. QED
  BY <1>11, <1>12, <1>14, <1>15 DEF IndInv

(* Crash: the tasks of the file, and no goroutine.                         *)
LEMMA CrashInd == IndInv /\ Crash => IndInv'
<1> SUFFICES ASSUME IndInv, Crash PROVE IndInv'
  OBVIOUS
<1>1. /\ started' = FALSE /\ status' = saved /\ cronEntries' = {}
      /\ runner' = [t \in Tasks |-> 0] /\ stopChs' = [t \in Tasks |-> NoJob]
      /\ job' = [j \in Jobs |-> Idle] /\ crashes' \in 0..MaxCrashes
      /\ UNCHANGED <<saved, kind, deps, firedVars, rearmed, commands, ticks>>
  BY DEF Crash, IndInv, TypeOK
<1>2. TypeOK'
  BY <1>1 DEF IndInv, TypeOK, firedVars
<1>3. \A j \in Jobs : job'[j] = Idle /\ job'[j].at = "idle"
  BY <1>1, IdleStage
<1>4. RegInv'
  BY <1>1, <1>3 DEF RegInv, NoGhostEntry, NoStuckOneShot
<1>5. FiredInv'
  BY <1>1, <1>3 DEF IndInv, FiredInv, SavedInv, NeverRemovedUnfired, RemovingInv, Handled, firedVars
<1>6. Quietness' /\ NeverFired'
  BY <1>1, <1>3 DEF Quietness, NeverFired, IndInv, LiveInv, FiredInv, SavedInv, firedVars
<1>7. OneFirePerArming'
  <2>1. ASSUME NEW t \in Tasks, kind[t] = "once"
        PROVE  fired[t] + Cardinality(Live(t)') <= 1 + rearmed[t]
    <3>1. Live(t)' \subseteq Live(t)
      BY <1>3 DEF Live
    <3>2. /\ Cardinality(Live(t)') <= Cardinality(Live(t))
          /\ Cardinality(Live(t)') \in Nat /\ Cardinality(Live(t)) \in Nat
      BY <3>1, FewerLive, LiveSubset
    <3>3. QED
      BY <2>1, <3>2, LiveNow
  <2>2. QED
    BY <1>1, <2>1 DEF OneFirePerArming, Live, firedVars
<1>8. QED
  BY <1>2, <1>4, <1>5, <1>6, <1>7 DEF IndInv, LiveInv

(* removeByID, by the goroutine that fired the task.                       *)
LEMMA RemoveInd == ASSUME NEW j \in Jobs PROVE IndInv /\ Remove(j) => IndInv'
<1> SUFFICES ASSUME IndInv, Remove(j) PROVE IndInv'
  OBVIOUS
<1>1. job[j].at = "removing" /\ "removing" \in Stages
  BY DEF Remove, Stages
<1>2. PICK t \in Tasks : job[j].task = t /\ started /\ job[j] # Idle /\ status[t] # "absent"
  BY <1>1, TaskOf
<1>3. /\ status' = [status EXCEPT ![t] = IF Present(t) THEN "gone" ELSE @]
      /\ cronEntries' = cronEntries \ {t} /\ runner' = RunnerWithout(t)
      /\ stopChs' = ChannelsWithout(t) /\ saved' = status' /\ job' = [job EXCEPT ![j] = Idle]
      /\ UNCHANGED <<started, kind, deps, firedVars, rearmed, bounds>>
  BY <1>2 DEF Remove
<1>4. TypeOK /\ RegInv /\ FiredInv /\ LiveInv
  BY DEF IndInv
<1>5. /\ status'[t] = "gone" /\ \A u \in Tasks : u # t => status'[u] = status[u]
      /\ status' \in [Tasks -> Statuses]
  BY <1>2, <1>3, <1>4 DEF TypeOK, Statuses, Present
<1>6. /\ stopChs'[t] = NoJob /\ \A u \in Tasks : u # t => stopChs'[u] = stopChs[u]
      /\ stopChs' \in [Tasks -> Jobs \cup {NoJob}]
      /\ job'[j] = Idle /\ \A i \in Jobs : i # j => job'[i] = job[i]
      /\ job' \in [Jobs -> JobType]
  BY <1>3, <1>4 DEF TypeOK, JobType, ChannelsWithout
<1>7. /\ runner' \in [Tasks -> Nat]
      /\ \A u \in Tasks : runner'[u] = IF u \in cronEntries' THEN 1 ELSE 0
  <2>1. \A u \in Tasks : RunnerWithout(t)[u] = IF u \in cronEntries \ {t} THEN 1 ELSE 0
    BY <1>4 DEF RunnerWithout, TypeOK, RegInv, NoGhostEntry
  <2>2. runner' = [u \in Tasks |-> runner'[u]]
    BY <1>3, <1>4 DEF RunnerWithout, TypeOK
  <2>3. QED
    BY <1>3, <2>1, <2>2
<1>8. TypeOK'
  BY <1>3, <1>4, <1>5, <1>6, <1>7 DEF TypeOK, JobType, firedVars, bounds
<1>9. RegInv'
  <2>1. \A u \in Tasks, k \in {"once", "cron"} : Active(u, k)' <=> u # t /\ Active(u, k)
    BY <1>3, <1>5 DEF Active
  <2>2. NoGhostEntry'
    BY <1>3, <1>4, <1>7, <2>1 DEF RegInv, NoGhostEntry
  <2>3. NoStuckOneShot'
    <3>1. ASSUME NEW u \in Tasks
          PROVE  IF started' /\ Active(u, "once")'
                 THEN \E i \in Jobs : stopChs'[u] = i /\ job'[i] # Idle /\ job'[i].task = u /\ job'[i].timer
                 ELSE stopChs'[u] = NoJob
      <4>1. CASE u = t
        BY <1>6, <2>1, <4>1
      <4>2. CASE u # t /\ Active(u, "once")
        <5>1. PICK i \in Jobs : stopChs[u] = i /\ job[i] # Idle /\ job[i].task = u /\ job[i].timer
          BY <1>2, <1>4, <4>2 DEF RegInv, NoStuckOneShot
        <5>2. i # j
          BY <1>2, <4>2, <5>1
        <5>3. stopChs'[u] = i /\ job'[i] = job[i] /\ started' /\ Active(u, "once")'
          BY <1>2, <1>3, <1>6, <2>1, <4>2, <5>1, <5>2
        <5>4. QED
          BY <5>1, <5>3
      <4>3. CASE u # t /\ ~Active(u, "once")
        BY <1>4, <1>6, <2>1, <4>3 DEF RegInv, NoStuckOneShot
      <4>4. QED
        BY <4>1, <4>2, <4>3
    <3>2. ASSUME NEW i \in Jobs, job'[i].at = "armed"
          PROVE  status'[job'[i].task] = "gone" \/ stopChs'[job'[i].task] = i
      <4>1. i # j /\ job'[i] = job[i]
        BY <1>6, <3>2, IdleStage
      <4>2. job[i].task \in Tasks
        BY <1>4, <3>2, <4>1, JobKinds
      <4>3. QED
        BY <1>4, <1>5, <1>6, <3>2, <4>1, <4>2 DEF RegInv, NoStuckOneShot
    <3>3. QED
      BY <3>1, <3>2 DEF NoStuckOneShot
  <2>4. QED
    BY <2>2, <2>3 DEF RegInv
<1>10. Handled(t)
  BY <1>1, <1>2, <1>4 DEF FiredInv, RemovingInv
<1>11. FiredInv'
  <2>1. \A u \in Tasks : Handled(u)' <=> Handled(u)
    BY <1>3 DEF Handled, firedVars
  <2>2. \A u \in Tasks : status'[u] = "gone" => Handled(u)
    BY <1>4, <1>5, <1>10 DEF FiredInv, NeverRemovedUnfired, Handled
  <2>3. SavedInv' /\ NeverRemovedUnfired'
    BY <1>3, <2>1, <2>2 DEF SavedInv, NeverRemovedUnfired, Handled
  <2>4. RemovingInv'
    <3> SUFFICES ASSUME NEW i \in Jobs, job'[i].at = "removing"
                 PROVE  fired'[job'[i].task] > 0 \/ job'[i].task \in skipped'
      BY DEF RemovingInv, Handled
    <3>1. job'[i] = job[i]
      BY <1>6, IdleStage
    <3>2. QED
      BY <1>3, <1>4, <3>1 DEF FiredInv, RemovingInv, Handled, firedVars
  <2>5. QED
    BY <2>3, <2>4 DEF FiredInv
<1>12. LiveInv'
  <2>1. Quietness'
    <3> SUFFICES ASSUME NEW i \in Jobs, job'[i] # Idle PROVE status'[job'[i].task] # "absent"
      BY <1>2, <1>3 DEF Quietness
    <3>1. job'[i] = job[i] /\ job[i].task \in Tasks
      BY <1>4, <1>6, JobKinds
    <3>2. QED
      BY <1>4, <1>5, <3>1 DEF LiveInv, Quietness
  <2>2. NeverFired'
    BY <1>3, <1>4, <1>5 DEF LiveInv, NeverFired, firedVars
  <2>3. ASSUME NEW u \in Tasks, kind[u] = "once"
        PROVE  fired[u] + Cardinality(Live(u)') <= 1 + rearmed[u]
    <3>1. Live(u)' \subseteq Live(u)
      BY <1>6, IdleStage DEF Live, Stages
    <3>2. /\ Cardinality(Live(u)') <= Cardinality(Live(u))
          /\ Cardinality(Live(u)') \in Nat /\ Cardinality(Live(u)) \in Nat
      BY <3>1, FewerLive, LiveSubset
    <3>3. QED
      BY <2>3, <3>2, LiveNow
  <2>4. OneFirePerArming'
    BY <1>3, <2>3 DEF OneFirePerArming, Live, firedVars
  <2>5. QED
    BY <2>1, <2>2, <2>4 DEF LiveInv
<1>13. QED
  BY <1>8, <1>9, <1>11, <1>12 DEF IndInv

LEMMA StutterInd == IndInv /\ UNCHANGED vars => IndInv'
<1> SUFFICES ASSUME IndInv, UNCHANGED vars PROVE IndInv'
  OBVIOUS
<1>1. /\ UNCHANGED <<started, status, saved, kind, deps, cronEntries, runner, stopChs, job, fired,
                      skipped, rearmed, commands, ticks, crashes>>
  BY DEF vars, tasksVars, regVars, firedVars, bounds
<1>2. TypeOK' /\ RegInv'
  BY <1>1 DEF IndInv, TypeOK, RegInv, NoGhostEntry, NoStuckOneShot, Active
<1>3. FiredInv'
  BY <1>1 DEF IndInv, FiredInv, SavedInv, RemovingInv, NeverRemovedUnfired, Handled
<1>4. LiveInv'
  BY <1>1 DEF IndInv, LiveInv, Quietness, NeverFired, OneFirePerArming
<1>5. QED
  BY <1>2, <1>3, <1>4 DEF IndInv

LEMMA StepInd == IndInv /\ [Next]_vars => IndInv'
<1> SUFFICES ASSUME IndInv, [Next]_vars PROVE IndInv'
  OBVIOUS
<1>1. CASE Run \/ Crash
  BY <1>1, RunInd, CrashInd
<1>2. ASSUME NEW t \in Tasks, AddTask(t) \/ PauseTask(t) \/ CancelTask(t) \/ ResumeTask(t) \/ Tick(t)
      PROVE  IndInv'
  BY <1>2, AddTaskInd, StopInd, ResumeTaskInd, TickInd
<1>3. ASSUME NEW t \in Tasks, NEW k \in {kind[t]} \cup NewKinds, NEW d \in {deps[t]} \cup NewDeps,
             UpdateTask(t, k, d)
      PROVE  IndInv'
  BY <1>3, UpdateTaskInd
<1>4. ASSUME NEW j \in Jobs, Elapse(j) \/ Fire(j) \/ Wake(j) \/ SkipTurn(j) \/ Remove(j)
      PROVE  IndInv'
  BY <1>4, ElapseInd, FireRefusedInd, FireDeferredInd, FireBeginInd, ReturnsInd, RemoveInd DEF Fire
<1>5. CASE UNCHANGED vars
  BY <1>5, StutterInd
<1>6. QED
  BY <1>1, <1>2, <1>3, <1>4, <1>5 DEF Next

-----------------------------------------------------------------------------
(* The registry, the file and the goroutines agree, whatever commands,     *)
(* ticks, timers and restarts come between the critical sections.          *)
THEOREM Invariance == Spec => []IndInv
<1>1. Init => IndInv
  BY InitInd
<1>2. IndInv /\ [Next]_vars => IndInv'
  BY StepInd
<1>3. QED
  BY <1>1, <1>2, PTL DEF Spec

(* The cron library holds one entry for each active recurring task and     *)
(* none for any other: deregister and register never leak one.             *)
THEOREM Entries == Spec => []NoGhostEntry
<1>1. IndInv => NoGhostEntry
  BY DEF IndInv, RegInv
<1>2. QED
  BY Invariance, <1>1, PTL

(* An active one-shot has the goroutine that will decide about it, and     *)
(* stopChs holds that goroutine's channel, so that a command reaches it.   *)
THEOREM Timers == Spec => []NoStuckOneShot
<1>1. IndInv => NoStuckOneShot
  BY DEF IndInv, RegInv
<1>2. QED
  BY Invariance, <1>1, PTL

(* A one-shot is handed out at most once for each registration, over       *)
(* deferrals, pauses, updates and restarts.                                *)
THEOREM FiresOnce == Spec => []OneFirePerArming
<1>1. IndInv => OneFirePerArming
  BY DEF IndInv, LiveInv
<1>2. QED
  BY Invariance, <1>1, PTL

(* removeByID takes a task off the list only after fire was done with it.  *)
THEOREM RemovedAfterFiring == Spec => []NeverRemovedUnfired
<1>1. IndInv => NeverRemovedUnfired
  BY DEF IndInv, FiredInv
<1>2. QED
  BY Invariance, <1>1, PTL
=============================================================================
