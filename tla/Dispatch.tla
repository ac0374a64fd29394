------------------------------ MODULE Dispatch ------------------------------
(***************************************************************************)
(* Per-conversation dispatch of turns (bot.go: Bot, lane, dispatch,        *)
(* scheduleLocked, finishTurn, runTurn, cancel, dispatchLoad).             *)
(*                                                                         *)
(* Every conversation is a lane.  A lane normally runs its messages one at *)
(* a time in arrival order; at most cfg.MaxWorkers lanes run at once and   *)
(* the others wait in readyLanes.  An interactive lane steers a message    *)
(* that arrives while it runs into its live session as one more concurrent *)
(* turn.  Each critical section of Bot.mu is one action.                   *)
(***************************************************************************)
EXTENDS Naturals, Sequences, FiniteSets

CONSTANTS Msgs,        \* requests: one message is one turn
          Lanes,       \* lane keys: "telegram", "web:<id>", "task:<id>"
          LaneOf,      \* queueKey of each message
          Steerable,   \* lanes whose conversation may be made interactive
          Caps         \* values cfg.MaxWorkers takes across hot reloads

ASSUME DispatchAssumption ==
    /\ IsFiniteSet(Lanes)
    /\ LaneOf \in [Msgs -> Lanes]
    /\ Steerable \subseteq Lanes
    /\ Caps \subseteq Nat

VARIABLES
    live,          \* keys of b.lanes
    queue,         \* lane.queue; its head is the turn running, if one came from it
    running,       \* lanes with lane.running
    steering,      \* lanes with lane.interactive, fixed when the lane is created
    inFlight,      \* lane.inFlight
    readyLanes,    \* idle lanes with work waiting for a slot
    runningLanes,  \* slots taken
    maxWorkers,    \* cfg.MaxWorkers as a reload last set it
    flag,          \* lanes whose stored conversation is interactive now
    turn,          \* where each message is
    steered,       \* turns started with queued = false
    cancels,       \* turns registered in b.cancels
    cancelling,    \* cancel functions a !cancel collected and has yet to call
    cancelled,     \* turns whose context !cancel cancelled
    log            \* history: the messages of each lane in arrival order

laneVars   == <<live, queue, running, steering, inFlight, readyLanes, runningLanes>>
cancelVars == <<cancels, cancelling, cancelled>>
vars == <<laneVars, maxWorkers, flag, turn, steered, cancelVars, log>>

(* A turn is spawned once a goroutine is committed to run it, active once  *)
(* that goroutine has registered its cancel function, done after           *)
(* finishTurn.                                                             *)
Stages  == {"new", "queued", "spawned", "active", "done"}
Started == {"spawned", "active", "done"}

Init ==
    /\ live = {} /\ running = {} /\ steering = {}
    /\ queue = [k \in Lanes |-> <<>>]
    /\ inFlight = [k \in Lanes |-> 0]
    /\ readyLanes = <<>>
    /\ runningLanes = 0
    /\ maxWorkers \in Caps
    /\ flag = {}
    /\ turn = [m \in Msgs |-> "new"]
    /\ steered = {}
    /\ cancels = {} /\ cancelling = {} /\ cancelled = {}
    /\ log = [k \in Lanes |-> <<>>]

-----------------------------------------------------------------------------
(* Mistaken: a lane that waits for a slot is not recognised.               *)
NeverLaneQueued(k) == FALSE

(* laneQueuedLocked                                                        *)
LaneQueued(k) == \E i \in DOMAIN readyLanes : readyLanes[i] = k

(* A ready entry scheduleLocked does not skip as stale; a second entry for *)
(* a lane would find it running.                                           *)
Fresh(i) == /\ readyLanes[i] \in live \ running
            /\ queue[readyLanes[i]] # <<>>
            /\ \A j \in 1..(i - 1) : readyLanes[j] # readyLanes[i]

(* Mistaken: scheduleLocked is not called, stops one slot early, or starts *)
(* one lane too many.                                                      *)
PoppedNever(free) == {}
PoppedShort(free) ==
    {i \in DOMAIN readyLanes : Cardinality({j \in 1..(i - 1) : Fresh(j)}) < free - 1}
PoppedBeyond(free) ==
    {i \in DOMAIN readyLanes : Cardinality({j \in 1..(i - 1) : Fresh(j)}) <= free}

(* The entries scheduleLocked's loop pops with the given number of free    *)
(* slots (a prefix of readyLanes), and the lanes it starts.                *)
Popped(free) ==
    {i \in DOMAIN readyLanes : Cardinality({j \in 1..(i - 1) : Fresh(j)}) < free}
Promoted(free) == {readyLanes[i] : i \in {j \in Popped(free) : Fresh(j)}}

(* Mistaken: the turn that runs is reported as waiting.                    *)
ReportedWithHead ==
    Cardinality({s \in live \X (1..Cardinality(Msgs)) : s[2] <= Len(queue[s[1]])})

(* dispatchLoad's second result: messages reported as waiting.             *)
ReportedWaiting ==
    LET waiting(k) == IF k \in running /\ queue[k] # <<>>
                      THEN Len(queue[k]) - 1 ELSE Len(queue[k])
    IN  Cardinality({s \in live \X (1..Cardinality(Msgs)) : s[2] <= waiting(s[1])})

-----------------------------------------------------------------------------
(* dispatch: the lane is created on first use, with the conversation's     *)
(* interactive flag of that moment.                                        *)
Arrive(m, k) ==
    /\ turn[m] = "new" /\ k = LaneOf[m]
    /\ log' = [log EXCEPT ![k] = Append(@, m)]
    /\ live' = live \cup {k}
    /\ steering' = IF k \in live \/ k \notin flag THEN steering
                                                  ELSE steering \cup {k}
    /\ UNCHANGED <<maxWorkers, flag, cancelVars>>

(* Mistaken: a busy lane is steered although it is not interactive.        *)
SteerAny(m) ==
    LET k == LaneOf[m] IN
    /\ Arrive(m, k)
    /\ k \in running
    /\ inFlight' = [inFlight EXCEPT ![k] = @ + 1]
    /\ turn' = [turn EXCEPT ![m] = "spawned"]
    /\ steered' = steered \cup {m}
    /\ UNCHANGED <<queue, running, readyLanes, runningLanes>>

Steer(m) ==
    LET k == LaneOf[m] IN
    /\ Arrive(m, k)
    /\ k \in steering /\ k \in running
    /\ inFlight' = [inFlight EXCEPT ![k] = @ + 1]
    /\ turn' = [turn EXCEPT ![m] = "spawned"]
    /\ steered' = steered \cup {m}
    /\ UNCHANGED <<queue, running, readyLanes, runningLanes>>

(* Waits behind its own conversation, running or itself waiting.           *)
Enqueue(m) ==
    LET k == LaneOf[m] IN
    /\ Arrive(m, k)
    /\ \/ k \in running \ steering
       \/ k \notin running /\ LaneQueued(k)
    /\ queue' = [queue EXCEPT ![k] = Append(@, m)]
    /\ turn' = [turn EXCEPT ![m] = "queued"]
    /\ UNCHANGED <<running, inFlight, readyLanes, runningLanes, steered>>

StartNow(m) ==
    LET k == LaneOf[m]
        q == Append(queue[k], m)
    IN
    /\ Arrive(m, k)
    /\ k \notin running /\ ~LaneQueued(k)
    /\ runningLanes < maxWorkers
    /\ queue' = [queue EXCEPT ![k] = q]
    /\ running' = running \cup {k}
    /\ inFlight' = [inFlight EXCEPT ![k] = 1]
    /\ runningLanes' = runningLanes + 1
    /\ turn' = [turn EXCEPT ![m] = "queued", ![Head(q)] = "spawned"]
    /\ UNCHANGED <<readyLanes, steered>>

WaitForSlot(m) ==
    LET k == LaneOf[m] IN
    /\ Arrive(m, k)
    /\ k \notin running /\ ~LaneQueued(k)
    /\ runningLanes >= maxWorkers
    /\ queue' = [queue EXCEPT ![k] = Append(@, m)]
    /\ readyLanes' = Append(readyLanes, k)
    /\ turn' = [turn EXCEPT ![m] = "queued"]
    /\ UNCHANGED <<running, inFlight, runningLanes, steered>>

Dispatch(m) == Steer(m) \/ Enqueue(m) \/ StartNow(m) \/ WaitForSlot(m)

(* runTurn up to the handler: the goroutine registers its cancel function. *)
Register(m) ==
    /\ turn[m] = "spawned"
    /\ turn' = [turn EXCEPT ![m] = "active"]
    /\ cancels' = cancels \cup {m}
    /\ UNCHANGED <<laneVars, maxWorkers, flag, steered, cancelling, cancelled, log>>

-----------------------------------------------------------------------------
(* finishTurn, after the handler returned, panicked or ran into its        *)
(* deadline.  lane is never nil here (TurnSound).                          *)
Ends(m, k) ==
    /\ turn[m] = "active" /\ k = LaneOf[m] /\ k \in live
    /\ cancels' = cancels \ {m}
    /\ UNCHANGED <<maxWorkers, flag, steered, cancelling, cancelled, log>>

(* Mistaken: "a finished head stuck at the front of the queue", or the     *)
(* backlog forgotten.                                                      *)
RestKept(m, k)      == queue[k]
RestForgotten(m, k) == <<>>

(* The lane's queue after the finished turn left it.                       *)
Rest(m, k) == IF queue[k] = <<>> \/ (k \in steering /\ m \in steered)
              THEN queue[k] ELSE Tail(queue[k])

(* Mistaken: a turn of an interactive lane gives the lane's slot back.     *)
FinishSteeredFreeing(m) ==
    LET k == LaneOf[m] IN
    /\ Ends(m, k) /\ k \in steering /\ inFlight[k] > 1
    /\ inFlight' = [inFlight EXCEPT ![k] = @ - 1]
    /\ runningLanes' = runningLanes - 1
    /\ queue' = [queue EXCEPT ![k] = Rest(m, k)]
    /\ turn' = [turn EXCEPT ![m] = "done"]
    /\ UNCHANGED <<live, running, steering, readyLanes>>

(* An interactive lane with other turns still in flight.                   *)
FinishSteered(m) ==
    LET k == LaneOf[m] IN
    /\ Ends(m, k)
    /\ k \in steering /\ inFlight[k] > 1
    /\ inFlight' = [inFlight EXCEPT ![k] = @ - 1]
    /\ queue' = [queue EXCEPT ![k] = Rest(m, k)]
    /\ turn' = [turn EXCEPT ![m] = "done"]
    /\ UNCHANGED <<live, running, steering, readyLanes, runningLanes>>

(* The lane has more queued: it keeps its slot and its next turn runs.     *)
FinishChain(m) ==
    LET k == LaneOf[m] IN
    /\ Ends(m, k)
    /\ k \in steering => inFlight[k] = 1
    /\ Rest(m, k) # <<>>
    /\ queue' = [queue EXCEPT ![k] = Rest(m, k)]
    /\ turn' = [turn EXCEPT ![m] = "done", ![Head(Rest(m, k))] = "spawned"]
    /\ UNCHANGED <<live, running, steering, inFlight, readyLanes, runningLanes>>

(* The lane drained: it is dropped and scheduleLocked hands its slot, and  *)
(* any a raised cap added, to the lanes waiting longest.                   *)
FinishFree(m) ==
    LET k == LaneOf[m]
        slots == runningLanes - 1
        free == IF maxWorkers > slots THEN maxWorkers - slots ELSE 0
        woken == Promoted(free)
    IN
    /\ Ends(m, k)
    /\ k \in steering => inFlight[k] = 1
    /\ Rest(m, k) = <<>>
    /\ live' = live \ {k}
    /\ steering' = steering \ {k}
    /\ queue' = [queue EXCEPT ![k] = <<>>]
    /\ readyLanes' = SubSeq(readyLanes, Cardinality(Popped(free)) + 1, Len(readyLanes))
    /\ running' = (running \ {k}) \cup woken
    /\ runningLanes' = slots + Cardinality(woken)
    /\ inFlight' = [j \in Lanes |-> IF j \in woken THEN 1
                                    ELSE IF j = k THEN 0 ELSE inFlight[j]]
    /\ turn' = [n \in Msgs |-> IF n = m THEN "done"
                               ELSE IF \E j \in woken : n = Head(queue[j])
                                    THEN "spawned" ELSE turn[n]]

Finish(m) == FinishSteered(m) \/ FinishChain(m) \/ FinishFree(m)

-----------------------------------------------------------------------------
(* Mistaken: !cancel also takes the turns that wait.                       *)
CancelBacklog(k) ==
    /\ cancelling = {}
    /\ cancelling' = {m \in Msgs : LaneOf[m] = k /\ turn[m] \in {"queued", "active"}}
    /\ cancelling' # {}
    /\ UNCHANGED <<laneVars, maxWorkers, flag, turn, steered, cancels, cancelled, log>>

(* !cancel in lane k: cmdMu admits one at a time.  It collects the lane's  *)
(* cancel functions under mu and calls them after releasing it.            *)
CancelCollect(k) ==
    /\ cancelling = {}
    /\ cancelling' = {m \in cancels : LaneOf[m] = k}
    /\ cancelling' # {}
    /\ UNCHANGED <<laneVars, maxWorkers, flag, turn, steered, cancels, cancelled, log>>

CancelCall(m) ==
    /\ m \in cancelling
    /\ cancelling' = cancelling \ {m}
    /\ cancelled' = cancelled \cup {m}
    /\ UNCHANGED <<laneVars, maxWorkers, flag, turn, steered, cancels, log>>

(* Hot reload of runtime.max_workers: no lane is woken.                    *)
Reload ==
    /\ maxWorkers' \in Caps \ {maxWorkers}
    /\ UNCHANGED <<laneVars, flag, turn, steered, cancelVars, log>>

(* !interactive on|off: lanes already created keep their mode.             *)
SetInteractive(k) ==
    /\ flag' = IF k \in flag THEN flag \ {k} ELSE flag \cup {k}
    /\ UNCHANGED <<laneVars, maxWorkers, turn, steered, cancelVars, log>>

Next ==
    \/ \E m \in Msgs : Dispatch(m) \/ Register(m) \/ Finish(m) \/ CancelCall(m)
    \/ \E k \in Lanes : CancelCollect(k)
    \/ \E k \in Steerable : SetInteractive(k)
    \/ Reload

(* Goroutines run; a handler ends because its context has a deadline.      *)
Fairness == \A m \in Msgs : WF_vars(Register(m)) /\ WF_vars(Finish(m))

Spec == Init /\ [][Next]_vars
FairSpec == Spec /\ Fairness

-----------------------------------------------------------------------------
TypeOK ==
    /\ live \subseteq Lanes /\ running \subseteq Lanes /\ steering \subseteq Lanes
    /\ queue \in [Lanes -> Seq(Msgs)]
    /\ inFlight \in [Lanes -> Nat]
    /\ readyLanes \in Seq(Lanes)
    /\ runningLanes \in Nat
    /\ maxWorkers \in Caps
    /\ flag \subseteq Steerable
    /\ turn \in [Msgs -> Stages]
    /\ steered \subseteq Msgs
    /\ cancels \subseteq Msgs /\ cancelling \subseteq Msgs /\ cancelled \subseteq Msgs
    /\ log \in [Lanes -> Seq(Msgs)]

InFlight(k) == {m \in Msgs : LaneOf[m] = k /\ turn[m] \in {"spawned", "active"}}

(* The slot counter, adjusted at four places of dispatch, scheduleLocked   *)
(* and finishTurn, always equals the number of lanes that hold a slot.     *)
SlotAccounting == running \subseteq live /\ runningLanes = Cardinality(running)

(* No lost wakeup: a lane that exists and does not run has work and is in  *)
(* readyLanes, once, and nothing else is; so a lane that is neither        *)
(* running nor queued for a slot has been dropped from b.lanes.            *)
NoLostWakeup ==
    /\ \A k \in live \ running :
          /\ queue[k] # <<>>
          /\ \E i \in DOMAIN readyLanes : readyLanes[i] = k
    /\ \A i \in DOMAIN readyLanes : readyLanes[i] \in live \ running
    /\ \A i, j \in DOMAIN readyLanes : readyLanes[i] = readyLanes[j] => i = j

(* A slot given back goes to a conversation that waits for it: after a lane *)
(* drained, and whatever a reload did to the cap meanwhile, no lane waits  *)
(* while a slot is free.                                                   *)
WorkConserving == readyLanes # <<>> => runningLanes >= maxWorkers
HandsOver == [][live' \subseteq live /\ live' # live => WorkConserving']_vars

(* "turns within a lane run strictly one at a time and in order" (Bot):    *)
(* a turn starts only after every earlier message of its conversation is   *)
(* answered.                                                               *)
InOrderIn(k) ==
    \A i, j \in DOMAIN log[k] :
        i < j /\ turn[log[k][j]] \in Started => turn[log[k][i]] = "done"
InOrder == \A k \in Lanes \ Steerable : InOrderIn(k)

(* finishTurn drops a lane only when all its messages are answered: "a     *)
(* queued backlog message is silently dropped" must not happen.            *)
NothingDropped ==
    \A m \in Msgs : LaneOf[m] \notin live => turn[m] \in {"new", "done"}

(* !cancel reaches turns of one conversation only, and only turns already  *)
(* running when it was sent: the conversation's backlog still runs.        *)
CancelSparesBacklog ==
    /\ \A m \in cancelling \cup cancelled : turn[m] \in {"active", "done"}
    /\ \A m, n \in cancelling : LaneOf[m] = LaneOf[n]

(* "the head is the one running, not waiting" (dispatchLoad): what !status *)
(* reports as waiting is the number of messages not yet started.           *)
LoadIsExact == ReportedWaiting = Cardinality({m \in Msgs : turn[m] = "queued"})

(* A message pulled off the queue is announced and then runs: no later     *)
(* event takes it back, and no turn runs twice.                            *)
StageOrder ==
    \A m \in Msgs :
       /\ turn[m] = "spawned" => turn'[m] \in {"spawned", "active"}
       /\ turn[m] = "active" => turn'[m] \in {"active", "done"}
       /\ turn[m] = "done" => turn'[m] = "done"
NeverRestarted == [][StageOrder]_vars

(* "cfg.MaxWorkers bounds how many lanes run concurrently": after a reload *)
(* lowered it the slots drain; no step ever takes a slot beyond the cap.   *)
CapRespected == [][runningLanes' > runningLanes => runningLanes' <= maxWorkers]_vars

(* Every request that arrived is answered.                                 *)
EventuallyAnswered == \A m \in Msgs : turn[m] # "new" ~> turn[m] = "done"

-----------------------------------------------------------------------------
(* The inductive invariant behind the safety properties.                   *)

(* A lane's queue holds its own unstarted messages, and at its head the    *)
(* turn that came from it.                                                 *)
QueueSound(k) ==
    /\ k \notin live => queue[k] = <<>>
    /\ \A i \in DOMAIN queue[k] :
          /\ LaneOf[queue[k][i]] = k
          /\ queue[k][i] \notin steered
          /\ turn[queue[k][i]] \in {"queued", "spawned", "active"}
          /\ i > 1 => turn[queue[k][i]] = "queued"
          /\ \A j \in DOMAIN queue[k] : queue[k][i] = queue[k][j] => i = j

(* Where a message is follows from its stage.                              *)
TurnSound(m) ==
    LET k == LaneOf[m] IN
    /\ turn[m] = "queued" => \E i \in DOMAIN queue[k] : queue[k][i] = m
    /\ turn[m] \in {"spawned", "active"} =>
          /\ k \in running
          /\ IF m \in steered THEN k \in steering
                              ELSE queue[k] # <<>> /\ m = Head(queue[k])
    /\ m \in steered => turn[m] \in Started
    /\ m \in cancels <=> turn[m] = "active"

(* A running lane has a turn in flight, counted by inFlight.               *)
LaneSound(k) ==
    /\ k \in steering => k \in live /\ k \in Steerable
    /\ k \in running => InFlight(k) # {}
    /\ IsFiniteSet(InFlight(k))
    /\ inFlight[k] = Cardinality(InFlight(k))

(* q is what remains of history l after its first d entries.               *)
SuffixAfter(q, l, d) ==
    Len(l) = d + Len(q) /\ \A i \in 1..Len(q) : q[i] = l[d + i]

(* The queue of a lane that is never interactive is the unanswered suffix  *)
(* of what arrived.                                                        *)
FifoSound(k) ==
    \E d \in 0..Len(log[k]) :
        /\ SuffixAfter(queue[k], log[k], d)
        /\ \A i \in 1..d : turn[log[k][i]] = "done"

LaneBooks(k) ==
    /\ QueueSound(k)
    /\ LaneSound(k)
    /\ \A m \in Msgs : LaneOf[m] = k => TurnSound(m)
    /\ k \notin Steerable => FifoSound(k)

BooksSound == SlotAccounting /\ NoLostWakeup /\ \A k \in Lanes : LaneBooks(k)

IndInv == TypeOK /\ BooksSound
=============================================================================
