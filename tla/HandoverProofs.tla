--------------------------- MODULE HandoverProofs ---------------------------
(* Safety of the hand-over for every set of processes and messages and any *)
(* number of faults.                                                       *)
EXTENDS Handover, FiniteSetTheorems, WellFoundedInduction, TLAPS

USE HandoverAssumption

-----------------------------------------------------------------------------
(* A message a process has passed was taken, so it may acknowledge it.     *)
Passed == \A i \in Instances, m \in Messages : m < pos[i] /\ m <= top[i] => taken[m] # {}

(* Only processes that polled have messages, whose answers they store.     *)
Takers == \A i \in Instances, m \in Messages : i \in taken[m] => at[i] \in {"polling", "gone", "lost"}
Carried == /\ saved \ late \subseteq disk
           /\ \A i \in Loaded : saved \ late \subseteq mem[i]

(* The service starts a process when its last one is gone.                 *)
Service ==
    /\ restart => supervised = None
    /\ \A i \in Instances : at[i] = "killing" => supervised = i
    /\ supervised # None => parent[supervised] = None /\ at[supervised] # "none"

(* Kinship of the processes an update connects.                            *)
Kin ==
    \A i \in Instances :
        /\ at[i] = "none" => parent[i] = None
        /\ child[i] # None => parent[child[i]] = i /\ at[child[i]] # "none"

Working == {i \in Alive : at[i] # "killing"}
Hands(i, j) ==
    /\ at[i] = "polling" /\ at[j] # "polling"
    /\ child[i] = j /\ parent[j] = i

(* Two processes that work are the one that polls and its child, and there *)
(* is one at most when the service starts the next one.                    *)
Pairs == \A i, j \in Working : i # j => Hands(i, j) \/ Hands(j, i)
Few == restart \/ (\E k \in Instances : at[k] = "killing") => \A i, j \in Working : i = j

(* The PID file names the process that polls, and so does a child that     *)
(* waits for it to exit.                                                   *)
Named == \A i \in Instances : at[i] = "polling" => pidFile = i
Awaited ==
    \A i, j \in Instances : at[i] = "polling" /\ at[j] = "waiting" => awaits[j] = i

MessageInv == NoneSkipped /\ Passed
StoreInv == Takers /\ Carried
ProcessInv == Service /\ Kin /\ Pairs /\ Few /\ Named /\ Awaited
IndInv == TypeOK /\ MessageInv /\ StoreInv /\ ProcessInv

-----------------------------------------------------------------------------
LEMMA OldestIn == ASSUME NEW S \in SUBSET Nat, S # {} PROVE Oldest(S) \in S
<1>1. PICK i \in S : \A j \in S : ~ (<<j, i>> \in OpToRel(<, Nat))
  BY NatLessThanWellFounded, WFMin
<1>2. ASSUME NEW j \in S PROVE i <= j
  <2>1. i \in Nat /\ j \in Nat
    OBVIOUS
  <2>2. <<j, i>> \in OpToRel(<, Nat) <=> j < i
    BY <2>1 DEF OpToRel
  <2>3. ~(j < i)
    BY <1>1, <2>2
  <2>4. QED
    BY <2>1, <2>3
<1>3. QED
  BY <1>2 DEF Oldest

LEMMA FreshOne ==
    ASSUME Fresh # {}
    PROVE  Oldest(Fresh) \in Instances /\ at[Oldest(Fresh)] = "none"
<1>1. Fresh \in SUBSET Nat
  BY DEF Fresh
<1>2. QED
  BY <1>1, OldestIn DEF Fresh

LEMMA MessageNumbers ==
    Cardinality(Messages) \in Nat /\ Messages = 1..Cardinality(Messages)
BY FS_CardinalityType

LEMMA InitInd == Init => IndInv
<1> SUFFICES ASSUME Init PROVE IndInv
  OBVIOUS
<1>1. TypeOK
  <2>1. /\ sent \in 0..Cardinality(Messages) /\ acked \in 0..sent /\ faults \in 0..MaxFaults
        /\ top \in [Instances -> 0..sent] /\ pos \in [Instances -> Nat]
    BY MessageNumbers DEF Init
  <2>2. QED
    BY <2>1 DEF Init, TypeOK, Stages, Gone, None
<1>2. MessageInv
  <2>1. \A m \in Messages : ~(m <= 0)
    BY MessageNumbers
  <2>2. QED
    BY <2>1 DEF Init, MessageInv, NoneSkipped, Passed
<1>3. StoreInv
  BY DEF Init, StoreInv, Takers, Carried
<1>4. ProcessInv
  BY DEF Init, ProcessInv, Service, Kin, Pairs, Few, Named, Awaited, Working, Alive, Gone, None
<1>5. QED
  BY <1>1, <1>2, <1>3, <1>4 DEF IndInv

(* Three processes cannot work at once.                                    *)
LEMMA AtMostTwo ==
    ASSUME Pairs, NEW i \in Working, NEW j \in Working, NEW k \in Working,
           i # j, j # k, i # k
    PROVE  FALSE
BY DEF Pairs, Hands

(* Processes die or go on as they were.                                    *)
LEMMA DeathInd ==
    ASSUME TypeOK, ProcessInv, NEW S \in SUBSET Instances,
           at' \in [Instances -> Stages],
           \A i \in Instances : IF i \in S THEN at'[i] \in {"gone", "lost"} ELSE at'[i] = at[i],
           \A i \in S : at[i] # "none",
           supervised' = IF supervised \in S THEN None ELSE supervised,
           restart' => restart \/ supervised \in S,
           UNCHANGED <<parent, awaits, pidFile>>,
           \A i \in Instances : child'[i] = child[i] \/ (child'[i] = None /\ child[i] \in S),
           supervised \in S => supervised \in Alive
    PROVE  ProcessInv'
<1> USE DEF ProcessInv
<1>1. Service'
  BY DEF Service, TypeOK, None
<1>2. Kin'
  <2> SUFFICES ASSUME NEW i \in Instances
               PROVE  /\ at'[i] = "none" => parent[i] = None
                      /\ child'[i] # None => parent[child'[i]] = i /\ at'[child'[i]] # "none"
    BY DEF Kin
  <2>1. at'[i] = "none" => parent[i] = None
    BY DEF Kin
  <2>2. ASSUME child'[i] # None PROVE parent[child'[i]] = i /\ at'[child'[i]] # "none"
    <3>1. child'[i] = child[i] /\ child[i] \in Instances
      BY <2>2 DEF TypeOK
    <3>2. QED
      BY <2>2, <3>1 DEF Kin
  <2>3. QED
    BY <2>1, <2>2
<1>3. \A i \in Instances : i \in Working' => i \in Working /\ at'[i] = at[i] /\ i \notin S
  BY DEF Working, Alive, Gone
<1>4. Pairs'
  BY <1>3 DEF Pairs, Hands, Working, Alive, Gone
<1>5. Few'
  <2>1. CASE restart \/ \E k \in Instances : at'[k] = "killing"
    BY <2>1, <1>3 DEF Few, Working, Alive
  <2>2. CASE supervised \in S
    <3>1. at[supervised] = "killing" => \A i, j \in Working : i = j
      BY <2>2 DEF Few
    <3>2. at[supervised] # "killing" => supervised \in Working
      BY <2>2 DEF Working
    <3>3. QED
      BY <2>2, <3>1, <3>2, <1>3, AtMostTwo DEF Few, Working, Alive
  <2>3. QED
    BY <2>1, <2>2 DEF Few
<1>6. Named' /\ Awaited'
  BY DEF Named, Awaited, TypeOK
<1>7. QED
  BY <1>1, <1>2, <1>4, <1>5, <1>6

(* What a step that leaves messages, or answers, alone keeps.              *)
LEMMA MessageSame ==
    ASSUME MessageInv, UNCHANGED <<acked, pos, top, taken>>
    PROVE  MessageInv'
BY DEF MessageInv, NoneSkipped, Passed

LEMMA StoreSame ==
    ASSUME TypeOK, StoreInv, UNCHANGED <<taken, mem, disk, saved, late>>,
           \A i \in Instances :
              at[i] \in {"polling", "gone", "lost"} => at'[i] \in {"polling", "gone", "lost"},
           \A i \in Loaded' : i \in Loaded
    PROVE  StoreInv'
BY DEF StoreInv, Takers, Carried

LEMMA ProcessSame ==
    ASSUME ProcessInv, UNCHANGED <<at, parent, child, awaits, pidFile, supervised, restart>>
    PROVE  ProcessInv'
BY DEF ProcessInv, Service, Kin, Pairs, Few, Named, Awaited, Working, Alive, Hands

-----------------------------------------------------------------------------
LEMMA ServiceStartInd == IndInv /\ ServiceStart => IndInv'
<1> SUFFICES ASSUME IndInv, ServiceStart PROVE IndInv'
  OBVIOUS
<1> DEFINE new == Oldest(Fresh)
<1>1. /\ new \in Instances /\ at[new] = "none" /\ restart /\ ~restart'
      /\ supervised' = new /\ at' = [at EXCEPT ![new] = "killing"]
      /\ UNCHANGED <<parent, child, awaits, ready, renamed, pidFile, telegram, store, lingering, faults>>
  BY FreshOne DEF ServiceStart
<1> HIDE DEF new
<1>2. TypeOK'
  BY <1>1 DEF IndInv, TypeOK, Stages, telegram, store, ServiceStart
<1>3. MessageInv'
  BY <1>1, MessageSame DEF IndInv, telegram
<1>4. StoreInv'
  BY <1>1, StoreSame DEF IndInv, telegram, store, TypeOK, Loaded
<1>5. ProcessInv'
  <2> USE DEF IndInv, ProcessInv, TypeOK
  <2>1. Service' /\ Kin'
    BY <1>1 DEF Service, Kin, None
  <2>2. \A i \in Instances : i \in Working' <=> i \in Working
    BY <1>1 DEF Working, Alive, Gone
  <2>3. Pairs' /\ Few'
    BY <1>1, <2>2 DEF Pairs, Few, Hands, Working, Alive, Gone
  <2>4. Named' /\ Awaited'
    BY <1>1 DEF Named, Awaited
  <2>5. QED
    BY <2>1, <2>3, <2>4
<1>6. QED
  BY <1>2, <1>3, <1>4, <1>5 DEF IndInv

LEMMA KillPreviousInd ==
    ASSUME NEW i \in Instances PROVE IndInv /\ KillPrevious(i) => IndInv'
<1> SUFFICES ASSUME IndInv, KillPrevious(i) PROVE IndInv'
  OBVIOUS
<1>1. /\ at[i] = "killing" /\ supervised = i /\ i \notin Previous(i)
      /\ at' = [j \in Instances |-> IF j \in Previous(i) THEN "gone"
                                     ELSE IF j = i THEN "starting" ELSE at[j]]
      /\ supervised' = supervised /\ restart' = restart /\ ~restart
      /\ UNCHANGED <<parent, child, awaits, ready, renamed, pidFile, telegram, store, faults>>
  <2>1. at[i] = "killing" /\ supervised = i /\ ~restart
    BY DEF KillPrevious, IndInv, ProcessInv, Service, None
  <2>2. i \notin Previous(i)
    BY DEF Previous
  <2>3. QED
    BY <2>1, <2>2 DEF KillPrevious, Die, IndInv, TypeOK
<1>2. \A j \in Instances : j \in Alive => j = i \/ j \in Previous(i)
  <2>1. \A j \in Alive : j # i => j \in Working
    BY <1>1 DEF IndInv, ProcessInv, Service, Working, Alive
  <2>2. \A j, k \in Alive : j # i /\ k # i => j = k
    BY <1>1, <2>1 DEF IndInv, ProcessInv, Few
  <2>3. QED
    BY <2>2 DEF Previous, Alive
<1>3. TypeOK'
  <2>1. lingering' \in BOOLEAN
    BY DEF KillPrevious, Die, IndInv, TypeOK
  <2>2. QED
    BY <1>1, <2>1 DEF IndInv, TypeOK, Stages, Gone, telegram, store
<1>4. MessageInv'
  BY <1>1, MessageSame DEF IndInv, telegram
<1>5. StoreInv'
  BY <1>1, StoreSame DEF IndInv, telegram, store, TypeOK, Loaded, Previous
<1>6. ProcessInv'
  <2> USE DEF IndInv, ProcessInv, TypeOK
  <2>1. Service' /\ Kin'
    BY <1>1 DEF Service, Kin, None, Previous, Alive, Gone
  <2>2. \A j \in Instances : j # i => at'[j] \in Gone
    BY <1>1, <1>2 DEF Alive, Gone
  <2>3. Pairs' /\ Few'
    BY <1>1, <2>2 DEF Pairs, Few, Working, Alive
  <2>4. Named' /\ Awaited'
    BY <1>1, <2>2 DEF Named, Awaited, Gone
  <2>5. QED
    BY <2>1, <2>3, <2>4
<1>7. QED
  BY <1>3, <1>4, <1>5, <1>6 DEF IndInv

(* A process goes on, without polling.                                     *)
LEMMA ProgressInd ==
    ASSUME TypeOK, ProcessInv, NEW i \in Instances, NEW to \in {"loaded", "scheduling", "waiting"},
           at[i] \in {"starting", "loaded", "scheduling"}, at' = [at EXCEPT ![i] = to],
           UNCHANGED <<parent, child, pidFile, supervised, restart>>,
           IF to = "waiting" THEN awaits' = [awaits EXCEPT ![i] = pidFile] ELSE UNCHANGED awaits
    PROVE  ProcessInv'
<1> USE DEF ProcessInv, TypeOK
<1>1. Service' /\ Kin'
  BY DEF Service, Kin, None
<1>2. \A j \in Instances : j \in Working' <=> j \in Working
  BY DEF Working, Alive, Gone
<1>3. \A j, k \in Instances : Hands(j, k) => Hands(j, k)'
  BY DEF Hands
<1>4. Pairs'
  BY <1>2, <1>3 DEF Pairs, Working, Alive
<1>5. Few'
  <2>1. \A k \in Instances : at'[k] = "killing" => at[k] = "killing"
    OBVIOUS
  <2>2. QED
    BY <1>2, <2>1 DEF Few, Working, Alive
<1>6. Named' /\ Awaited'
  BY DEF Named, Awaited
<1>7. QED
  BY <1>1, <1>4, <1>5, <1>6

LEMMA LoadInd == ASSUME NEW i \in Instances PROVE IndInv /\ Load(i) => IndInv'
<1> SUFFICES ASSUME IndInv, Load(i) PROVE IndInv'
  OBVIOUS
<1>1. TypeOK'
  BY DEF Load, IndInv, TypeOK, Stages, telegram
<1>2. MessageInv'
  BY MessageSame DEF Load, IndInv, telegram
<1>3. StoreInv'
  <2>1. Takers'
    BY DEF Load, IndInv, TypeOK, StoreInv, Takers, telegram
  <2>2. Carried'
    BY DEF Load, IndInv, TypeOK, StoreInv, Carried, Loaded
  <2>3. QED
    BY <2>1, <2>2 DEF StoreInv
<1>4. ProcessInv'
  BY ProgressInd DEF Load, IndInv
<1>5. QED
  BY <1>1, <1>2, <1>3, <1>4 DEF IndInv

LEMMA ScheduleInd == ASSUME NEW i \in Instances PROVE IndInv /\ Schedule(i) => IndInv'
<1> SUFFICES ASSUME IndInv, Schedule(i) PROVE IndInv'
  OBVIOUS
<1>1. TypeOK'
  BY DEF Schedule, IndInv, TypeOK, Stages, telegram, store
<1>2. MessageInv'
  BY MessageSame DEF Schedule, IndInv, telegram
<1>3. StoreInv'
  BY StoreSame DEF Schedule, IndInv, TypeOK, Loaded, telegram, store
<1>4. ProcessInv'
  BY ProgressInd DEF Schedule, IndInv
<1>5. QED
  BY <1>1, <1>2, <1>3, <1>4 DEF IndInv

LEMMA SignalInd == ASSUME NEW i \in Instances PROVE IndInv /\ Signal(i) => IndInv'
<1> SUFFICES ASSUME IndInv, Signal(i) PROVE IndInv'
  OBVIOUS
<1>1. TypeOK'
  BY DEF Signal, IndInv, TypeOK, Stages, telegram, store
<1>2. MessageInv'
  BY MessageSame DEF Signal, IndInv, telegram
<1>3. StoreInv'
  BY StoreSame DEF Signal, IndInv, TypeOK, Loaded, telegram, store
<1>4. ProcessInv'
  BY ProgressInd DEF Signal, IndInv
<1>5. QED
  BY <1>1, <1>2, <1>3, <1>4 DEF IndInv

(* The process that begins to poll is the only one that works.             *)
LEMMA PollsInd ==
    ASSUME NEW i \in Instances, IndInv, Polls(i), at[i] \in {"scheduling", "waiting"},
           \A j \in Working : j = i
    PROVE  IndInv'
<1>1. TypeOK'
  BY DEF Polls, IndInv, TypeOK, Stages, telegram, store
<1>2. MessageInv'
  BY MessageSame DEF Polls, IndInv, telegram
<1>3. StoreInv'
  BY StoreSame DEF Polls, IndInv, TypeOK, Loaded, telegram, store
<1>4. ProcessInv'
  <2> USE DEF Polls, IndInv, ProcessInv, TypeOK
  <2>1. Service' /\ Kin'
    BY DEF Service, Kin, None
  <2>2. \A j \in Instances : j # i => at'[j] = at[j] /\ at[j] \in Gone \cup {"killing"}
    BY DEF Working, Alive
  <2>3. Pairs' /\ Few'
    BY <2>2 DEF Pairs, Few, Working, Alive, Gone
  <2>4. Named' /\ Awaited'
    BY <2>2 DEF Named, Awaited, Gone
  <2>5. QED
    BY <2>1, <2>3, <2>4
<1>5. QED
  BY <1>1, <1>2, <1>3, <1>4 DEF IndInv

LEMMA StartPollingInd == ASSUME NEW i \in Instances PROVE IndInv /\ StartPolling(i) => IndInv'
<1> SUFFICES ASSUME IndInv, StartPolling(i) PROVE IndInv'
  OBVIOUS
<1>1. i \in Working
  BY DEF StartPolling, Working, Alive, Gone
<1>2. ASSUME NEW j \in Working, j # i PROVE FALSE
  <2>1. Hands(i, j) \/ Hands(j, i)
    BY <1>1, <1>2 DEF IndInv, ProcessInv, Pairs
  <2>2. j \in Instances /\ j # None
    BY DEF Working, Alive, None
  <2>3. QED
    BY <2>1, <2>2 DEF StartPolling, Hands
<1>3. QED
  BY <1>2, PollsInd DEF StartPolling

LEMMA TakeOverInd == ASSUME NEW i \in Instances PROVE IndInv /\ TakeOver(i) => IndInv'
<1> SUFFICES ASSUME IndInv, TakeOver(i) PROVE IndInv'
  OBVIOUS
<1>1. i \in Working
  BY DEF TakeOver, Working, Alive, Gone
<1>2. ASSUME NEW j \in Working, j # i PROVE FALSE
  <2>1. Hands(i, j) \/ Hands(j, i)
    BY <1>1, <1>2 DEF IndInv, ProcessInv, Pairs
  <2>2. j \in Alive /\ j \in Instances
    BY DEF Working, Alive
  <2>3. at[j] = "polling" => awaits[i] = j
    BY <2>2 DEF TakeOver, IndInv, ProcessInv, Awaited
  <2>4. QED
    BY <2>1, <2>2, <2>3 DEF TakeOver, Hands
<1>3. QED
  BY <1>2, PollsInd DEF TakeOver

-----------------------------------------------------------------------------
(* Deaths with all else as it was.                                         *)
LEMMA DieInd ==
    ASSUME IndInv, NEW S \in SUBSET Instances, NEW stages \in [Instances -> Stages],
           NEW failed \in BOOLEAN,
           \A i \in Instances : IF i \in S THEN stages[i] \in {"gone", "lost"} ELSE stages[i] = at[i],
           S \subseteq Alive, Die(S, stages, failed),
           ready' \subseteq Instances, faults' \in 0..MaxFaults,
           UNCHANGED <<parent, child, awaits, renamed, pidFile, telegram, store>>
    PROVE  IndInv'
<1>1. TypeOK'
  BY DEF Die, IndInv, TypeOK, telegram, store
<1>2. MessageInv'
  BY MessageSame DEF IndInv, telegram
<1>3. StoreInv'
  <2>1. \A i \in Instances : at'[i] = stages[i]
    BY DEF Die
  <2>2. \A i \in Loaded' : i \in Loaded
    BY <2>1 DEF Loaded
  <2>3. QED
    BY <2>1, <2>2, StoreSame DEF IndInv, telegram, store
<1>4. ProcessInv'
  <2>1. /\ at' = stages /\ supervised' = IF supervised \in S THEN None ELSE supervised
        /\ restart' => restart \/ supervised \in S
        /\ \A i \in S : at[i] # "none"
        /\ supervised \in S => supervised \in Alive
    BY DEF Die, Alive, Gone
  <2>2. QED
    BY <2>1, DeathInd DEF IndInv
<1>5. QED
  BY <1>1, <1>2, <1>3, <1>4 DEF IndInv

LEMMA FaultCount ==
    ASSUME TypeOK, faults < MaxFaults PROVE faults + 1 \in 0..MaxFaults
BY DEF TypeOK

LEMMA KillOldInd == ASSUME NEW i \in Instances PROVE IndInv /\ KillOld(i) => IndInv'
<1> SUFFICES ASSUME IndInv, KillOld(i) PROVE IndInv'
  OBVIOUS
<1> DEFINE S == {awaits[i]}
           stages == [j \in Instances |-> IF j \in S THEN "gone" ELSE at[j]]
<1>1. /\ S \subseteq Alive /\ S \in SUBSET Instances /\ stages \in [Instances -> Stages]
      /\ Die(S, stages, TRUE)
  BY DEF KillOld, Kill, Alive, IndInv, TypeOK, Stages, Gone
<1>2. \A j \in Instances : IF j \in S THEN stages[j] \in {"gone", "lost"} ELSE stages[j] = at[j]
  OBVIOUS
<1>3. ready' \subseteq Instances /\ faults' \in 0..MaxFaults
  BY FaultCount DEF KillOld, IndInv, TypeOK
<1> HIDE DEF S, stages
<1>4. QED
  BY <1>1, <1>2, <1>3, DieInd DEF KillOld

LEMMA HandOverInd == ASSUME NEW i \in Instances PROVE IndInv /\ HandOver(i) => IndInv'
<1> SUFFICES ASSUME IndInv, HandOver(i) PROVE IndInv'
  OBVIOUS
<1> DEFINE S == {i}
           stages == [at EXCEPT ![i] = "gone"]
<1>1. /\ S \subseteq Alive /\ S \in SUBSET Instances /\ stages \in [Instances -> Stages]
      /\ Die(S, stages, FALSE)
  BY DEF HandOver, Alive, IndInv, TypeOK, Stages, Gone
<1>2. \A j \in Instances : IF j \in S THEN stages[j] \in {"gone", "lost"} ELSE stages[j] = at[j]
  BY DEF IndInv, TypeOK
<1>3. ready' \subseteq Instances /\ faults' \in 0..MaxFaults
  BY DEF HandOver, IndInv, TypeOK
<1> HIDE DEF S, stages
<1>4. QED
  BY <1>1, <1>2, <1>3, DieInd DEF HandOver

LEMMA FailInd ==
    ASSUME IndInv, NEW i \in Alive, Die({i}, [at EXCEPT ![i] = Failed(i)], TRUE),
           faults < MaxFaults, faults' = faults + 1,
           UNCHANGED <<parent, child, awaits, ready, renamed, pidFile, telegram, store>>
    PROVE  IndInv'
<1> DEFINE S == {i}
           stages == [at EXCEPT ![i] = Failed(i)]
<1>1. /\ S \subseteq Alive /\ S \in SUBSET Instances /\ stages \in [Instances -> Stages]
      /\ Die(S, stages, TRUE)
  BY DEF Alive, IndInv, TypeOK, Stages, Gone, Failed
<1>2. \A j \in Instances : IF j \in S THEN stages[j] \in {"gone", "lost"} ELSE stages[j] = at[j]
  BY DEF IndInv, TypeOK, Failed
<1>3. ready' \subseteq Instances /\ faults' \in 0..MaxFaults
  BY FaultCount DEF IndInv, TypeOK
<1> HIDE DEF S, stages
<1>4. QED
  BY <1>1, <1>2, <1>3, DieInd

LEMMA CrashInd == ASSUME NEW i \in Instances PROVE IndInv /\ Crash(i) => IndInv'
BY FailInd DEF Crash

LEMMA ConflictInd == ASSUME NEW i \in Instances PROVE IndInv /\ Conflict(i) => IndInv'
<1> SUFFICES ASSUME IndInv, Conflict(i) PROVE IndInv'
  OBVIOUS
<1>1. i \in Alive
  BY DEF Conflict, Alive, Gone
<1>2. QED
  BY <1>1, FailInd DEF Conflict

LEMMA GiveUpInd == ASSUME NEW i \in Instances PROVE IndInv /\ GiveUp(i) => IndInv'
<1> SUFFICES ASSUME IndInv, GiveUp(i) PROVE IndInv'
  OBVIOUS
<1> DEFINE new == child[i]
<1>1. new \in Instances /\ parent[new] = i /\ at[new] # "none" /\ i # None
  BY DEF GiveUp, IndInv, TypeOK, ProcessInv, Kin, None
<1>2. new # supervised
  BY <1>1 DEF IndInv, ProcessInv, Service, None
<1>3. /\ at' = [at EXCEPT ![new] = "gone"] /\ child' = [child EXCEPT ![i] = None]
      /\ pos' = [pos EXCEPT ![i] = IF Updates(i) THEN @ + 1 ELSE @]
      /\ UNCHANGED <<parent, awaits, ready, renamed, pidFile, supervised, restart, sent, acked, top,
                     taken, store, lingering, faults>>
  BY DEF GiveUp
<1>4. TypeOK'
  BY <1>1, <1>3 DEF IndInv, TypeOK, Stages, Gone, store
<1>5. MessageInv'
  <2>1. NoneSkipped'
    BY <1>3 DEF IndInv, MessageInv, NoneSkipped
  <2>2. ASSUME NEW j \in Instances, NEW m \in Messages, m < pos'[j], m <= top[j]
        PROVE  taken[m] # {}
    <3>1. m \in Nat /\ pos[j] \in Nat
      BY MessageNumbers DEF IndInv, TypeOK
    <3>2. m < pos[j] \/ (j = i /\ m = pos[i] /\ Updates(i))
      BY <1>3, <2>2, <3>1 DEF IndInv, TypeOK
    <3>3. QED
      BY <2>2, <3>2 DEF IndInv, MessageInv, Passed, Updates
  <2>3. QED
    BY <1>3, <2>1, <2>2 DEF MessageInv, Passed
<1>6. StoreInv'
  BY <1>1, <1>3, StoreSame DEF IndInv, TypeOK, Loaded, store
<1>7. ProcessInv'
  <2> DEFINE S == {new}
  <2>1. /\ S \in SUBSET Instances /\ at' \in [Instances -> Stages]
        /\ \A j \in Instances : IF j \in S THEN at'[j] \in {"gone", "lost"} ELSE at'[j] = at[j]
        /\ \A j \in S : at[j] # "none"
    BY <1>1, <1>3 DEF IndInv, TypeOK, Stages, Gone
  <2>2. /\ supervised' = IF supervised \in S THEN None ELSE supervised
        /\ restart' => restart \/ supervised \in S
        /\ supervised \in S => supervised \in Alive
        /\ \A j \in Instances : child'[j] = child[j] \/ (child'[j] = None /\ child[j] \in S)
    BY <1>2, <1>3 DEF IndInv, TypeOK
  <2> HIDE DEF S
  <2>3. QED
    BY <1>3, <2>1, <2>2, DeathInd DEF IndInv
<1>8. QED
  BY <1>4, <1>5, <1>6, <1>7 DEF IndInv

-----------------------------------------------------------------------------
(* What touches no process.                                                *)
LEMMA RenameInd == ASSUME NEW i \in Instances PROVE IndInv /\ Rename(i) => IndInv'
<1> SUFFICES ASSUME IndInv, Rename(i) PROVE IndInv'
  OBVIOUS
<1>1. TypeOK'
  BY DEF Rename, IndInv, TypeOK, telegram, store
<1>2. MessageInv' /\ StoreInv' /\ ProcessInv'
  BY MessageSame, StoreSame, ProcessSame DEF Rename, IndInv, telegram, store, Loaded
<1>3. QED
  BY <1>1, <1>2 DEF IndInv

LEMMA SendInd == IndInv /\ Send => IndInv'
<1> SUFFICES ASSUME IndInv, Send PROVE IndInv'
  OBVIOUS
<1>1. TypeOK'
  <2>1. /\ sent' \in 0..Cardinality(Messages) /\ acked' \in 0..sent'
        /\ top' \in [Instances -> 0..sent']
    BY MessageNumbers DEF Send, IndInv, TypeOK
  <2>2. QED
    BY <2>1 DEF Send, IndInv, TypeOK, procs, store
<1>2. MessageInv' /\ StoreInv' /\ ProcessInv'
  BY MessageSame, StoreSame, ProcessSame DEF Send, IndInv, procs, store, Loaded
<1>3. QED
  BY <1>1, <1>2 DEF IndInv

LEMMA LingerEndsInd == IndInv /\ (LingerEnds \/ UNCHANGED vars) => IndInv'
<1> SUFFICES ASSUME IndInv, LingerEnds \/ UNCHANGED vars PROVE IndInv'
  OBVIOUS
<1>1. UNCHANGED <<procs, telegram, store, faults>> /\ lingering' \in BOOLEAN
  BY DEF LingerEnds, vars, IndInv, TypeOK
<1>2. TypeOK'
  BY <1>1 DEF IndInv, TypeOK, procs, telegram, store
<1>3. MessageInv' /\ StoreInv' /\ ProcessInv'
  BY <1>1, MessageSame, StoreSame, ProcessSame DEF IndInv, procs, telegram, store, Loaded
<1>4. QED
  BY <1>2, <1>3 DEF IndInv

(* What was fetched is handled before the next poll acknowledges it.       *)
LEMMA FetchInd == ASSUME NEW i \in Instances PROVE IndInv /\ Fetch(i) => IndInv'
<1> SUFFICES ASSUME IndInv, Fetch(i) PROVE IndInv'
  OBVIOUS
<1>1. /\ pos[i] > top[i] /\ acked' = Max(acked, top[i]) /\ pos[i] \in Nat
      /\ acked \in Nat /\ top[i] \in 0..sent /\ sent \in Nat /\ acked <= sent /\ sent' = sent
      /\ pos' = [pos EXCEPT ![i] = acked' + 1] /\ top' = [top EXCEPT ![i] = sent]
      /\ UNCHANGED <<procs, taken, store, lingering, faults>>
  BY MessageNumbers DEF Fetch, IndInv, TypeOK
<1>2. acked' \in 0..sent
  BY <1>1 DEF Max
<1>3. TypeOK'
  <2>1. acked' \in 0..sent' /\ acked' + 1 \in Nat
    BY <1>1, <1>2
  <2>2. pos' \in [Instances -> Nat] /\ top' \in [Instances -> 0..sent']
    <3>1. sent \in 0..sent
      BY <1>1
    <3>2. QED
      BY <1>1, <2>1, <3>1 DEF IndInv, TypeOK
  <2>3. UNCHANGED <<at, parent, child, awaits, ready, renamed, pidFile, supervised, restart,
                    mem, disk, saved, late>>
    BY <1>1 DEF procs, store
  <2>4. QED
    BY <1>1, <2>1, <2>2, <2>3 DEF IndInv, TypeOK
<1>4. \A m \in 1..acked' : taken[m] # {}
  <2> SUFFICES ASSUME NEW m \in 1..acked' PROVE taken[m] # {}
    OBVIOUS
  <2>1. m \in Nat /\ m \in Messages
    BY <1>1, <1>2, MessageNumbers DEF IndInv, TypeOK
  <2>2. m \in 1..acked \/ (m < pos[i] /\ m <= top[i])
    BY <1>1, <2>1 DEF Max
  <2>3. QED
    BY <2>1, <2>2 DEF IndInv, MessageInv, NoneSkipped, Passed
<1>5. ASSUME NEW j \in Instances, NEW m \in Messages, m < pos'[j], m <= top'[j]
      PROVE  taken[m] # {}
  <2>1. CASE j = i
    <3>1. m < acked' + 1 /\ m \in Nat /\ 1 <= m
      BY <1>1, <1>5, <2>1, MessageNumbers DEF IndInv, TypeOK
    <3>2. m \in 1..acked'
      BY <1>2, <1>1, <3>1
    <3>3. QED
      BY <1>4, <3>2
  <2>2. CASE j # i
    BY <1>1, <1>5, <2>2 DEF IndInv, TypeOK, MessageInv, Passed
  <2>3. QED
    BY <2>1, <2>2
<1>6. MessageInv'
  BY <1>1, <1>4, <1>5 DEF MessageInv, NoneSkipped, Passed
<1>7. StoreInv' /\ ProcessInv'
  BY <1>1, StoreSame, ProcessSame DEF IndInv, procs, store, Loaded
<1>8. QED
  BY <1>3, <1>6, <1>7 DEF IndInv

-----------------------------------------------------------------------------
(* An answer is in the file, and in each other process's store unless it   *)
(* was saved beside one.                                                   *)
LEMMA SaveInd ==
    ASSUME NEW i \in Instances, NEW m \in Messages PROVE IndInv /\ Save(i, m) => IndInv'
<1> SUFFICES ASSUME IndInv, Save(i, m) PROVE IndInv'
  OBVIOUS
<1>1. /\ i \in Alive /\ i \in taken[m] /\ mem' = [mem EXCEPT ![i] = @ \cup {m}]
      /\ disk' = mem[i] \cup {m} /\ saved' = saved \cup {m}
      /\ late' = IF Loaded # {i} THEN late \cup {m} ELSE late
      /\ UNCHANGED <<procs, telegram, lingering, faults>>
  BY DEF Save, IndInv, TypeOK
<1>2. i \in Loaded
  BY <1>1 DEF IndInv, StoreInv, Takers, Alive, Loaded, Gone
<1>3. TypeOK'
  <2>1. /\ mem' \in [Instances -> SUBSET Messages] /\ disk' \subseteq Messages
        /\ saved' \subseteq Messages /\ late' \subseteq saved'
    BY <1>1 DEF IndInv, TypeOK
  <2>2. QED
    BY <1>1, <2>1 DEF IndInv, TypeOK, procs, telegram
<1>4. MessageInv' /\ ProcessInv'
  BY <1>1, MessageSame, ProcessSame DEF IndInv, procs, telegram
<1>5. Takers'
  BY <1>1 DEF IndInv, StoreInv, Takers, procs, telegram
<1>6. Loaded' = Loaded
  BY <1>1 DEF Loaded, procs
<1>7. Carried'
  <2>1. saved' \ late' \subseteq (saved \ late) \cup {m}
    BY <1>1
  <2>2. Loaded # {i} => saved' \ late' \subseteq saved \ late
    BY <1>1
  <2>3. saved \ late \subseteq mem[i]
    BY <1>2 DEF IndInv, StoreInv, Carried
  <2>4. saved' \ late' \subseteq disk'
    BY <1>1, <2>1, <2>3
  <2>5. ASSUME NEW j \in Loaded PROVE saved' \ late' \subseteq mem'[j]
    <3>1. CASE j = i
      BY <1>1, <2>1, <2>3, <3>1 DEF IndInv, TypeOK, Loaded
    <3>2. CASE j # i
      <4>1. mem'[j] = mem[j]
        BY <1>1, <3>2 DEF IndInv, TypeOK, Loaded
      <4>2. QED
        BY <2>2, <3>2, <4>1 DEF IndInv, StoreInv, Carried
    <3>3. QED
      BY <3>1, <3>2
  <2>6. QED
    BY <1>6, <2>4, <2>5 DEF Carried
<1>8. QED
  BY <1>3, <1>4, <1>5, <1>7 DEF IndInv, StoreInv

-----------------------------------------------------------------------------
(* Only a process without a child starts one, so no other one works.       *)
LEMMA AloneToStart ==
    ASSUME IndInv, NEW i \in Instances, at[i] = "polling", child[i] = None, NEW j \in Working
    PROVE  j = i
<1>1. i \in Working /\ j \in Instances /\ j # None
  BY DEF Working, Alive, Gone, None
<1>2. QED
  BY <1>1 DEF IndInv, ProcessInv, Pairs, Hands

LEMMA StartNewInd ==
    ASSUME IndInv, NEW i \in Instances, at[i] = "polling", child[i] = None, StartNew(i),
           UNCHANGED <<awaits, pidFile, supervised, restart>>
    PROVE  /\ at' \in [Instances -> Stages] /\ parent' \in [Instances -> Instances \cup {None}]
           /\ child' \in [Instances -> Instances \cup {None}] /\ ready' \subseteq Instances
           /\ \A j \in Instances : at'[j] = at[j] \/ (at[j] = "none" /\ at'[j] = "starting")
           /\ ProcessInv'
<1> DEFINE new == Oldest(Fresh)
<1>1. Fresh # {}
  <2>1. SUFFICES ASSUME Fresh = {} PROVE FALSE
    OBVIOUS
  <2>2. Cardinality(Fresh) = 0
    BY <2>1, FS_EmptySet
  <2>3. QED
    BY <2>2 DEF StartNew, IndInv, TypeOK
<1>2. /\ new \in Instances /\ at[new] = "none" /\ ~restart /\ \A j \in Instances : at[j] # "killing"
      /\ at' = [at EXCEPT ![new] = "starting"] /\ parent' = [parent EXCEPT ![new] = i]
      /\ child' = [child EXCEPT ![i] = new] /\ ready' = ready \ {i}
  BY <1>1, FreshOne DEF StartNew
<1> HIDE DEF new
<1>3. /\ at' \in [Instances -> Stages] /\ parent' \in [Instances -> Instances \cup {None}]
      /\ child' \in [Instances -> Instances \cup {None}] /\ ready' \subseteq Instances
      /\ \A j \in Instances : at'[j] = at[j] \/ (at[j] = "none" /\ at'[j] = "starting")
  BY <1>2 DEF IndInv, TypeOK, Stages
<1>4. Service'
  BY <1>2 DEF IndInv, TypeOK, ProcessInv, Service, None
<1>5. Kin'
  <2> SUFFICES ASSUME NEW j \in Instances
               PROVE  /\ at'[j] = "none" => parent'[j] = None
                      /\ child'[j] # None => parent'[child'[j]] = j /\ at'[child'[j]] # "none"
    BY DEF Kin
  <2>1. at'[j] = "none" => parent'[j] = None
    BY <1>2 DEF IndInv, TypeOK, ProcessInv, Kin
  <2>2. CASE j = i
    BY <1>2, <2>1, <2>2 DEF IndInv, TypeOK
  <2>3. CASE j # i
    <3>1. child'[j] = child[j] /\ child[j] \in Instances \cup {None}
      BY <1>2, <2>3 DEF IndInv, TypeOK
    <3>2. child[j] # None => child[j] # new
      BY <1>2 DEF IndInv, ProcessInv, Kin
    <3>3. QED
      BY <1>2, <2>1, <3>1, <3>2 DEF IndInv, TypeOK, ProcessInv, Kin
  <2>4. QED
    BY <2>2, <2>3
<1>6. \A j \in Working' : j \in {i, new}
  <2>1. ASSUME NEW j \in Working', j # new PROVE j \in Working
    BY <1>2, <2>1 DEF IndInv, TypeOK, Working, Alive
  <2>2. QED
    BY <2>1, AloneToStart
<1>7. at'[i] = "polling" /\ at'[new] # "polling" /\ child'[i] = new /\ parent'[new] = i
  BY <1>2 DEF IndInv, TypeOK
<1>8. Pairs' /\ Few'
  <2>1. Pairs'
    BY <1>6, <1>7 DEF Pairs, Hands
  <2>2. \A k \in Instances : at'[k] # "killing"
    BY <1>2 DEF IndInv, TypeOK
  <2>3. QED
    BY <1>2, <2>1, <2>2 DEF Few
<1>9. Named' /\ Awaited'
  BY <1>2 DEF IndInv, TypeOK, ProcessInv, Named, Awaited
<1>10. QED
  BY <1>3, <1>4, <1>5, <1>8, <1>9 DEF ProcessInv

LEMMA WebUpdateInd == ASSUME NEW i \in Instances PROVE IndInv /\ WebUpdate(i) => IndInv'
<1> SUFFICES ASSUME IndInv, WebUpdate(i) PROVE IndInv'
  OBVIOUS
<1>1. /\ at' \in [Instances -> Stages] /\ parent' \in [Instances -> Instances \cup {None}]
      /\ child' \in [Instances -> Instances \cup {None}] /\ ready' \subseteq Instances
      /\ \A j \in Instances : at'[j] = at[j] \/ (at[j] = "none" /\ at'[j] = "starting")
      /\ ProcessInv'
  BY StartNewInd DEF WebUpdate, MayUpdate
<1>2. TypeOK'
  BY <1>1 DEF WebUpdate, IndInv, TypeOK, telegram, store
<1>3. MessageInv'
  BY MessageSame DEF WebUpdate, IndInv, telegram
<1>4. StoreInv'
  BY <1>1, StoreSame DEF WebUpdate, IndInv, telegram, store, Loaded
<1>5. QED
  BY <1>1, <1>2, <1>3, <1>4 DEF IndInv

LEMMA TakeInd == ASSUME NEW i \in Instances PROVE IndInv /\ Take(i) => IndInv'
<1> SUFFICES ASSUME IndInv, Take(i) PROVE IndInv'
  OBVIOUS
<1> DEFINE m == pos[i]
<1>1. /\ at[i] = "polling" /\ pos[i] <= top[i] /\ m \in Nat
      /\ taken' = [taken EXCEPT ![m] = @ \cup {i}]
      /\ UNCHANGED <<awaits, renamed, pidFile, supervised, restart, sent, acked, top, store,
                     lingering, faults>>
      /\ \/ StartNew(i) /\ MayUpdate(i) /\ UNCHANGED pos
         \/ pos' = [pos EXCEPT ![i] = m + 1] /\ UNCHANGED <<at, parent, child, ready>>
  BY DEF Take, IndInv, TypeOK
<1> HIDE DEF m
<1>2. /\ at' \in [Instances -> Stages] /\ parent' \in [Instances -> Instances \cup {None}]
      /\ child' \in [Instances -> Instances \cup {None}] /\ ready' \subseteq Instances
      /\ \A j \in Instances : at'[j] = at[j] \/ (at[j] = "none" /\ at'[j] = "starting")
      /\ ProcessInv'
  <2>1. CASE StartNew(i) /\ MayUpdate(i)
    BY <1>1, <2>1, StartNewInd DEF MayUpdate
  <2>2. CASE UNCHANGED <<at, parent, child, ready>>
    BY <1>1, <2>2, ProcessSame DEF IndInv, TypeOK
  <2>3. QED
    BY <1>1, <2>1, <2>2
<1>3. /\ pos' \in [Instances -> Nat] /\ taken' \in [Messages -> SUBSET Instances]
      /\ \A k \in Messages : taken[k] \subseteq taken'[k]
  <2>1. pos' \in [Instances -> Nat]
    <3>1. m + 1 \in Nat
      BY <1>1
    <3>2. QED
      BY <1>1, <3>1 DEF IndInv, TypeOK
  <2>2. \A k \in Messages : taken'[k] = IF k = m THEN taken[k] \cup {i} ELSE taken[k]
    BY <1>1 DEF IndInv, TypeOK
  <2>3. taken' \in [Messages -> SUBSET Instances]
    BY <1>1 DEF IndInv, TypeOK
  <2>4. QED
    BY <2>1, <2>2, <2>3
<1>4. TypeOK'
  BY <1>1, <1>2, <1>3 DEF IndInv, TypeOK, store
<1>5. ASSUME NEW j \in Instances, NEW k \in Messages, k < pos'[j], k <= top[j]
      PROVE  taken'[k] # {}
  <2>1. k \in Nat /\ pos[j] \in Nat
    BY MessageNumbers DEF IndInv, TypeOK
  <2>2. k < pos[j] \/ k = m
    <3>1. pos'[j] = pos[j] \/ (j = i /\ pos'[j] = m + 1)
      BY <1>1 DEF IndInv, TypeOK
    <3>2. j = i => pos[j] = m
      BY DEF m
    <3>3. QED
      BY <1>1, <1>5, <2>1, <3>1, <3>2
  <2>3. CASE k = m
    BY <1>1, <2>3 DEF IndInv, TypeOK
  <2>4. CASE k < pos[j]
    BY <1>3, <1>5, <2>4 DEF IndInv, MessageInv, Passed
  <2>5. QED
    BY <2>2, <2>3, <2>4
<1>6. MessageInv'
  <2>1. NoneSkipped'
    <3>1. \A k \in 1..acked : k \in Messages
      BY MessageNumbers DEF IndInv, TypeOK
    <3>2. QED
      BY <1>1, <1>3, <3>1 DEF IndInv, MessageInv, NoneSkipped
  <2>2. QED
    BY <1>1, <1>5, <2>1 DEF MessageInv, Passed
<1>7. StoreInv'
  <2>1. Takers'
    <3> SUFFICES ASSUME NEW j \in Instances, NEW k \in Messages, j \in taken'[k]
                 PROVE  at'[j] \in {"polling", "gone", "lost"}
      BY DEF Takers
    <3>1. j \in taken[k] \/ j = i
      BY <1>1 DEF IndInv, TypeOK
    <3>2. at[j] \in {"polling", "gone", "lost"}
      BY <1>1, <3>1 DEF IndInv, StoreInv, Takers
    <3>3. QED
      BY <1>2, <3>2
  <2>2. \A j \in Loaded' : j \in Loaded
    BY <1>2 DEF Loaded
  <2>3. Carried'
    BY <1>1, <2>2 DEF IndInv, StoreInv, Carried, store
  <2>4. QED
    BY <2>1, <2>3 DEF StoreInv
<1>8. QED
  BY <1>2, <1>4, <1>6, <1>7 DEF IndInv

-----------------------------------------------------------------------------
LEMMA StepInd == IndInv /\ [Next]_vars => IndInv'
<1> SUFFICES ASSUME IndInv, [Next]_vars PROVE IndInv'
  OBVIOUS
<1>1. CASE ServiceStart \/ Send \/ LingerEnds \/ UNCHANGED vars
  BY <1>1, ServiceStartInd, SendInd, LingerEndsInd
<1>2. ASSUME NEW i \in Instances, Step(i) \/ Waiting(i) \/ Handles(i)
      PROVE  IndInv'
  <2>1. CASE Step(i)
    BY <2>1, KillPreviousInd, LoadInd, ScheduleInd, StartPollingInd, SignalInd, TakeOverInd,
       KillOldInd DEF Step
  <2>2. CASE Waiting(i) \/ Handles(i)
    BY <2>2, HandOverInd, GiveUpInd, FetchInd, TakeInd DEF Waiting, Handles
  <2>3. QED
    BY <1>2, <2>1, <2>2
<1>3. ASSUME NEW i \in Instances,
             Rename(i) \/ WebUpdate(i) \/ Crash(i) \/ Conflict(i) \/ \E m \in Messages : Save(i, m)
      PROVE  IndInv'
  BY <1>3, RenameInd, WebUpdateInd, CrashInd, ConflictInd, SaveInd
<1>4. QED
  BY <1>1, <1>2, <1>3 DEF Next

(* The inductive invariant of every start, update, fault and message.      *)
THEOREM Invariance == Spec => []IndInv
BY InitInd, StepInd, PTL DEF Spec

(* One process polls Telegram at most; two serve at once only when one     *)
(* hands over to the other (handleUpdate, waitForProcessExit).             *)
THEOREM OnePolls == Spec => []Alone
<1>1. IndInv => Alone
  <2> SUFFICES ASSUME IndInv PROVE Alone
    OBVIOUS
  <2>1. Loaded \subseteq Working
    BY DEF Loaded, Working, Alive, Gone
  <2>2. \A i, j \in Instances : at[i] = "polling" /\ at[j] = "polling" => i = j
    BY DEF IndInv, ProcessInv, Named
  <2>3. QED
    BY <2>1, <2>2 DEF Alone, IndInv, ProcessInv, Pairs, Hands
<1>2. QED
  BY <1>1, Invariance, PTL

(* Telegram forgets nothing that no process took (Run's offset).           *)
THEOREM NothingSkipped == Spec => []NoneSkipped
<1>1. IndInv => NoneSkipped
  BY DEF IndInv, MessageInv
<1>2. QED
  BY <1>1, Invariance, PTL

(* A store that is alone knows every answer stored while one was alone     *)
(* (store.Load, store.save).                                               *)
THEOREM Carries == Spec => []AnswersCarried
<1>1. IndInv => AnswersCarried
  BY DEF IndInv, StoreInv, Carried, AnswersCarried, Loaded
<1>2. QED
  BY <1>1, Invariance, PTL
=============================================================================
