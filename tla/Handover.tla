------------------------------ MODULE Handover ------------------------------
(***************************************************************************)
(* The processes that serve one bot, one after the other: the service's    *)
(* starts, !update and its hand-over, failures (main.go: run, selfRename;  *)
(* bot.go: Run, handleUpdate; platform_linux.go: killPreviousInstance,     *)
(* waitForProcessExit; scripts/install-linux-service.sh).                  *)
(*                                                                         *)
(* A process loads store.json, starts its scheduler, then polls Telegram,  *)
(* which delivers a message again until a poll acknowledges it.  A process *)
(* started by !update does so beside the old one, signals with a file that *)
(* it is ready and polls when the old one is gone.                         *)
(***************************************************************************)
EXTENDS Naturals, FiniteSets

CONSTANTS Instances,  \* bound: processes ever started, 1..n
          Messages,   \* 1..n, in the order in which they are sent
          KindOf,     \* "text" or "update"
          MaxFaults   \* bound: deaths, conflicts, old processes that do not exit

ASSUME HandoverAssumption ==
    /\ Instances \subseteq Nat \ {0} /\ IsFiniteSet(Instances) /\ MaxFaults \in Nat
    /\ IsFiniteSet(Messages) /\ Messages = 1..Cardinality(Messages)
    /\ KindOf \in [Messages -> {"text", "update"}]

None == 0
Max(a, b) == IF a > b THEN a ELSE b

VARIABLES
    at,         \* how far each process has come
    parent,     \* the process whose !update started it
    child,      \* the process handleUpdate waits for
    awaits,     \* the process ID it read before it signalled
    ready,      \* the processes whose ready file exists
    renamed,    \* selfRename has succeeded
    pidFile,
    supervised, \* the process of the service
    restart,    \* the service will start one
    sent, acked,   \* messages sent, and acknowledged by a poll
    pos, top,   \* each process's batch: next message and last one
    taken,      \* for each message, the processes that took it
    mem, disk,  \* the answers in each process's store and in store.json
    saved, late,   \* history: all answers; those saved beside a younger store
    lingering,  \* Telegram still holds a poll of a process that died
    faults

procs == <<at, parent, child, awaits, ready, renamed, pidFile, supervised, restart>>
telegram == <<sent, acked, pos, top, taken>>
store == <<mem, disk, saved, late>>
vars == <<procs, telegram, store, lingering, faults>>

Gone == {"none", "gone", "lost"}
Stages == Gone \cup {"killing", "starting", "loaded", "scheduling", "waiting", "polling"}
Alive == {i \in Instances : at[i] \notin Gone}
Loaded == {i \in Instances : at[i] \in {"loaded", "scheduling", "waiting", "polling"}}
Fresh == {i \in Instances : at[i] = "none"}
Oldest(S) == CHOOSE i \in S : \A j \in S : i <= j

Init ==
    /\ at = [i \in Instances |-> "none"] /\ parent = [i \in Instances |-> None]
    /\ child = [i \in Instances |-> None] /\ awaits = [i \in Instances |-> None]
    /\ ready = {} /\ renamed = {} /\ pidFile = None
    /\ supervised = None /\ restart = TRUE
    /\ sent = 0 /\ acked = 0 /\ taken = [m \in Messages |-> {}]
    /\ pos = [i \in Instances |-> 1] /\ top = [i \in Instances |-> 0]
    /\ mem = [i \in Instances |-> {}] /\ disk = {} /\ saved = {} /\ late = {}
    /\ lingering = FALSE /\ faults = 0

-----------------------------------------------------------------------------
(* The service (Restart=on-failure, KillMode=process).                     *)
ServiceStart ==
    /\ restart /\ restart' = FALSE /\ Fresh # {}
    /\ supervised' = Oldest(Fresh) /\ at' = [at EXCEPT ![supervised'] = "killing"]
    /\ UNCHANGED <<parent, child, awaits, ready, renamed, pidFile, telegram, store,
                   lingering, faults>>

(* The processes in S die; the service starts its own again on a failure.  *)
Die(S, stages, failed) ==
    /\ at' = stages
    /\ supervised' = IF supervised \in S THEN None ELSE supervised
    /\ restart' = (restart \/ (failed /\ supervised \in S))
    /\ lingering' = (lingering \/ \E i \in S : at[i] = "polling")

Kill(S) == Die(S, [i \in Instances |-> IF i \in S THEN "gone" ELSE at[i]], TRUE)

(* killPreviousInstance, with a SIGTERM, which is no failure to the        *)
(* service: the process of the PID file, or else those with                *)
(* the program's name.                                                     *)
Previous(i) == IF pidFile \in Alive \ {i} THEN {pidFile} ELSE Alive \ {i}

KillPrevious(i) ==
    /\ at[i] = "killing"
    /\ Die(Previous(i), [j \in Instances |-> IF j \in Previous(i) THEN "gone"
                                             ELSE IF j = i THEN "starting" ELSE at[j]], FALSE)
    /\ UNCHANGED <<parent, child, awaits, ready, renamed, pidFile, telegram, store, faults>>

(* Mistaken: a store that cannot be read is taken for an empty one.        *)
LoadLenient(i) ==
    /\ at[i] = "starting" /\ at' = [at EXCEPT ![i] = "loaded"]
    /\ \E s \in {disk, {}} : mem' = [mem EXCEPT ![i] = s]
    /\ UNCHANGED <<parent, child, awaits, ready, renamed, pidFile, supervised, restart, telegram,
                   disk, saved, late, lingering, faults>>

(* store.Load                                                              *)
Load(i) ==
    /\ at[i] = "starting" /\ at' = [at EXCEPT ![i] = "loaded"]
    /\ mem' = [mem EXCEPT ![i] = disk]
    /\ UNCHANGED <<parent, child, awaits, ready, renamed, pidFile, supervised, restart, telegram,
                   disk, saved, late, lingering, faults>>

(* sched.Load, go sched.Run                                                *)
Schedule(i) ==
    /\ at[i] = "loaded" /\ at' = [at EXCEPT ![i] = "scheduling"]
    /\ UNCHANGED <<parent, child, awaits, ready, renamed, pidFile, supervised, restart, telegram,
                   store, lingering, faults>>

(* writePIDFile, bot.Run; the new process knows no offset.                 *)
Polls(i) ==
    /\ at' = [at EXCEPT ![i] = "polling"] /\ pidFile' = i
    /\ UNCHANGED <<parent, child, awaits, ready, renamed, supervised, restart, telegram, store,
                   lingering, faults>>

StartPolling(i) == at[i] = "scheduling" /\ parent[i] = None /\ Polls(i)

(* The new process reads the PID file and signals that it is ready.        *)
Signal(i) ==
    /\ at[i] = "scheduling" /\ parent[i] # None
    /\ awaits' = [awaits EXCEPT ![i] = pidFile] /\ ready' = ready \cup {parent[i]}
    /\ at' = [at EXCEPT ![i] = "waiting"]
    /\ UNCHANGED <<parent, child, renamed, pidFile, supervised, restart, telegram, store,
                   lingering, faults>>

(* Mistaken: the new process polls without waiting.                        *)
TakeOverAtOnce(i) == at[i] = "waiting" /\ Polls(i)

(* waitForProcessExit: the old one is gone                                 *)
TakeOver(i) == at[i] = "waiting" /\ awaits[i] \notin Alive /\ Polls(i)

(* ... or is killed after 10 seconds.                                      *)
KillOld(i) ==
    /\ at[i] = "waiting" /\ awaits[i] \in Alive /\ Kill({awaits[i]})
    /\ faults < MaxFaults /\ faults' = faults + 1
    /\ UNCHANGED <<parent, child, awaits, ready, renamed, pidFile, telegram, store>>

(* selfRename, which may fail for ever.                                    *)
Rename(i) ==
    /\ at[i] = "polling" /\ parent[i] # None /\ i \notin renamed
    /\ renamed' = renamed \cup {i}
    /\ UNCHANGED <<at, parent, child, awaits, ready, pidFile, supervised, restart, telegram, store,
                   lingering, faults>>

-----------------------------------------------------------------------------
(* handleUpdate up to the start of the new binary; refused by one that has *)
(* not been renamed and, before the build, while turns run (some may have  *)
(* begun since), and not done when the build fails.  A build takes longer  *)
(* than the service waits before it starts again (RestartSec=5).           *)
MayUpdate(i) == child[i] = None /\ (parent[i] = None \/ i \in renamed)
StartNew(i) ==
    /\ ~restart /\ \A j \in Instances : at[j] # "killing"
    /\ Cardinality(Fresh) > MaxFaults - faults
    /\ LET new == Oldest(Fresh) IN
       /\ at' = [at EXCEPT ![new] = "starting"] /\ parent' = [parent EXCEPT ![new] = i]
       /\ child' = [child EXCEPT ![i] = new] /\ ready' = ready \ {i}

(* !update from a browser runs beside the polling.                         *)
WebUpdate(i) ==
    /\ at[i] = "polling" /\ MayUpdate(i) /\ StartNew(i)
    /\ UNCHANGED <<awaits, renamed, pidFile, supervised, restart, telegram, store,
                   lingering, faults>>

(* The update it runs came from Telegram.                                  *)
Updates(i) == pos[i] <= top[i] /\ KindOf[pos[i]] = "update" /\ i \in taken[pos[i]]

(* 60 seconds: the old process sees the file and exits, or kills the new.  *)
HandOver(i) ==
    /\ at[i] = "polling" /\ child[i] # None /\ i \in ready
    /\ ready' = ready \ {i} /\ Die({i}, [at EXCEPT ![i] = "gone"], FALSE)
    /\ UNCHANGED <<parent, child, awaits, renamed, pidFile, telegram, store, faults>>

GiveUp(i) ==
    /\ at[i] = "polling" /\ child[i] # None /\ i \notin ready
    /\ child' = [child EXCEPT ![i] = None] /\ at' = [at EXCEPT ![child[i]] = "gone"]
    /\ pos' = [pos EXCEPT ![i] = IF Updates(i) THEN @ + 1 ELSE @]
    /\ UNCHANGED <<parent, awaits, ready, renamed, pidFile, supervised, restart, sent, acked, top,
                   taken, store, lingering, faults>>

-----------------------------------------------------------------------------
Send ==
    /\ sent < Cardinality(Messages) /\ sent' = sent + 1
    /\ UNCHANGED <<procs, acked, pos, top, taken, store, lingering, faults>>

(* Mistaken: what is fetched counts as handled.                            *)
FetchAcked(i) ==
    /\ at[i] = "polling" /\ pos[i] > top[i] /\ sent > acked
    /\ acked' = sent
    /\ pos' = [pos EXCEPT ![i] = acked + 1] /\ top' = [top EXCEPT ![i] = sent]
    /\ UNCHANGED <<procs, sent, taken, store, lingering, faults>>

(* GetUpdates: acknowledges the batch before, fetches what is not.         *)
Fetch(i) ==
    /\ at[i] = "polling" /\ pos[i] > top[i] /\ sent > acked
    /\ acked' = Max(acked, top[i])
    /\ pos' = [pos EXCEPT ![i] = acked' + 1] /\ top' = [top EXCEPT ![i] = sent]
    /\ UNCHANGED <<procs, sent, taken, store, lingering, faults>>

(* Run handles the batch in order; a command is handled before the next    *)
(* message and waits for cmdMu, so an !update that hands over is never     *)
(* acknowledged and reaches the new process too.                           *)
Take(i) ==
    /\ at[i] = "polling" /\ pos[i] <= top[i]
    /\ LET m == pos[i] IN
       /\ KindOf[m] = "update" => child[i] = None
       /\ taken' = [taken EXCEPT ![m] = @ \cup {i}]
       /\ \/ KindOf[m] = "update" /\ MayUpdate(i) /\ StartNew(i) /\ UNCHANGED pos
          \/ pos' = [pos EXCEPT ![i] = m + 1] /\ UNCHANGED <<at, parent, child, ready>>
    /\ UNCHANGED <<awaits, renamed, pidFile, supervised, restart, sent, acked, top, store,
                   lingering, faults>>

(* A turn ends: its answer is stored and the whole store written.          *)
Save(i, m) ==
    /\ i \in Alive /\ i \in taken[m] /\ KindOf[m] = "text" /\ m \notin mem[i]
    /\ mem' = [mem EXCEPT ![i] = @ \cup {m}] /\ disk' = mem'[i]
    /\ saved' = saved \cup {m}
    /\ late' = IF Loaded # {i} THEN late \cup {m} ELSE late
    /\ UNCHANGED <<procs, telegram, lingering, faults>>

(* A process dies; one that took over is not the service's.                *)
Failed(i) == IF parent[i] # None /\ at[i] \in {"waiting", "polling"} THEN "lost" ELSE "gone"
Crash(i) ==
    /\ i \in Alive /\ faults < MaxFaults /\ faults' = faults + 1
    /\ Die({i}, [at EXCEPT ![i] = Failed(i)], TRUE)
    /\ UNCHANGED <<parent, child, awaits, ready, renamed, pidFile, telegram, store>>

(* Mistaken: a conflict exits as if all were well.                         *)
ConflictQuietly(i) ==
    /\ at[i] = "polling" /\ pos[i] > top[i]
    /\ lingering \/ \E j \in Instances \ {i} : at[j] = "polling"
    /\ faults < MaxFaults /\ faults' = faults + 1
    /\ Die({i}, [at EXCEPT ![i] = Failed(i)], FALSE)
    /\ UNCHANGED <<parent, child, awaits, ready, renamed, pidFile, telegram, store>>

(* "Conflict": another poll is open; exits for the service to start again. *)
Conflict(i) ==
    /\ at[i] = "polling" /\ pos[i] > top[i]
    /\ lingering \/ \E j \in Instances \ {i} : at[j] = "polling"
    /\ faults < MaxFaults /\ faults' = faults + 1
    /\ Die({i}, [at EXCEPT ![i] = Failed(i)], TRUE)
    /\ UNCHANGED <<parent, child, awaits, ready, renamed, pidFile, telegram, store>>

LingerEnds ==
    /\ lingering /\ lingering' = FALSE
    /\ UNCHANGED <<procs, telegram, store, faults>>

Step(i) ==
    \/ KillPrevious(i) \/ Load(i) \/ Schedule(i) \/ StartPolling(i)
    \/ Signal(i) \/ TakeOver(i) \/ KillOld(i)
Waiting(i) == HandOver(i) \/ GiveUp(i)
Handles(i) == Fetch(i) \/ Take(i)

Next ==
    \/ ServiceStart \/ Send \/ LingerEnds
    \/ \E i \in Instances :
          \/ Step(i) \/ Waiting(i) \/ Handles(i)
          \/ Rename(i) \/ WebUpdate(i) \/ Crash(i) \/ Conflict(i)
          \/ \E m \in Messages : Save(i, m)

Spec == Init /\ [][Next]_vars

(* A process that starts goes on; the wait of handleUpdate has a deadline. *)
Fairness ==
    /\ WF_vars(ServiceStart)
    /\ \A i \in Instances : WF_vars(Step(i)) /\ WF_vars(Waiting(i)) /\ WF_vars(Handles(i))
FairSpec == Spec /\ Fairness

-----------------------------------------------------------------------------
TypeOK ==
    /\ at \in [Instances -> Stages]
    /\ parent \in [Instances -> Instances \cup {None}]
    /\ child \in [Instances -> Instances \cup {None}]
    /\ awaits \in [Instances -> Instances \cup {None}]
    /\ ready \subseteq Instances /\ renamed \subseteq Instances
    /\ pidFile \in Instances \cup {None} /\ supervised \in Instances \cup {None}
    /\ restart \in BOOLEAN /\ lingering \in BOOLEAN /\ faults \in 0..MaxFaults
    /\ sent \in 0..Cardinality(Messages) /\ acked \in 0..sent
    /\ pos \in [Instances -> Nat] /\ top \in [Instances -> 0..sent]
    /\ taken \in [Messages -> SUBSET Instances]
    /\ mem \in [Instances -> SUBSET Messages] /\ disk \subseteq Messages
    /\ saved \subseteq Messages /\ late \subseteq saved

(* "Without this wait, both old and new processes poll Telegram            *)
(* simultaneously": at most one process polls, and two serve web chats and *)
(* schedules at once only while one hands over to the other.               *)
Alone ==
    /\ \A i, j \in Instances : at[i] = "polling" /\ at[j] = "polling" => i = j
    /\ \A i, j \in Loaded : i # j => parent[j] = i \/ parent[i] = j

(* Telegram forgets a message only after a process took it, whatever       *)
(* processes die.                                                          *)
NoneSkipped == \A m \in 1..acked : taken[m] # {}

(* The process that polls alone knows every answer ever stored, except     *)
(* those stored while two processes had a store.                           *)
AnswersCarried ==
    \A i \in Instances : at[i] = "polling" /\ Loaded = {i} => saved \ late \subseteq mem[i]

(* "keep current running" and "the old process exits cleanly": an update   *)
(* or a failure ends with a process that polls, unless one that had taken  *)
(* over fails, which the service does not see.                             *)
Serving == \E i \in Instances : at[i] = "polling"
Served == <>(\E i \in Instances : at[i] = "lost") \/ []<>Serving
=============================================================================
