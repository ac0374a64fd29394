--------------------------- MODULE DispatchProofs ---------------------------
(* Safety of the lane dispatcher for every set of messages and lanes, then *)
(* its refinement of ConversationService.                                  *)
EXTENDS DispatchRefinement, FiniteSetTheorems, SequenceTheorems, TLAPS

USE DispatchAssumption

LEMMA Interval == ASSUME NEW n \in Nat PROVE IsFiniteSet(1..n) /\ Cardinality(1..n) = n
BY FS_Interval

-----------------------------------------------------------------------------
(* No ready entry is stale: scheduleLocked skips nothing.                  *)
LEMMA ReadyFresh ==
    ASSUME TypeOK, NoLostWakeup, NEW i \in DOMAIN readyLanes
    PROVE  Fresh(i)
<1>1. DOMAIN readyLanes = 1..Len(readyLanes) /\ Len(readyLanes) \in Nat
  BY DEF TypeOK
<1>2. \A j \in 1..(i - 1) : j \in DOMAIN readyLanes /\ j # i
  BY <1>1
<1>3. QED
  BY <1>1, <1>2 DEF NoLostWakeup, Fresh

(* With free slots scheduleLocked starts the first free lanes that wait.   *)
LEMMA PopReady ==
    ASSUME TypeOK, NoLostWakeup, NEW free \in Nat
    PROVE  \E n \in 0..Len(readyLanes) :
              /\ n <= free
              /\ n = free \/ n = Len(readyLanes)
              /\ Cardinality(Popped(free)) = n
              /\ Promoted(free) = {readyLanes[i] : i \in 1..n}
              /\ IsFiniteSet(Promoted(free))
              /\ Cardinality(Promoted(free)) = n
<1> DEFINE n == IF free < Len(readyLanes) THEN free ELSE Len(readyLanes)
           W == {readyLanes[i] : i \in 1..n}
           f == [i \in 1..n |-> readyLanes[i]]
<1>1. /\ Len(readyLanes) \in Nat /\ DOMAIN readyLanes = 1..Len(readyLanes)
      /\ n \in 0..Len(readyLanes) /\ n <= free /\ (n = free \/ n = Len(readyLanes))
  BY DEF TypeOK
<1>2. ASSUME NEW i \in DOMAIN readyLanes
      PROVE  Cardinality({j \in 1..(i - 1) : Fresh(j)}) = i - 1
  <2>1. \A j \in 1..(i - 1) : j \in DOMAIN readyLanes
    BY <1>1
  <2>2. {j \in 1..(i - 1) : Fresh(j)} = 1..(i - 1)
    BY <2>1, ReadyFresh
  <2>3. Cardinality(1..(i - 1)) = i - 1
    BY <1>1, Interval
  <2>4. QED
    BY <2>2, <2>3
<1>3. Popped(free) = 1..n
  <2>1. Popped(free) = {i \in DOMAIN readyLanes : i - 1 < free}
    BY <1>2 DEF Popped
  <2>2. QED
    BY <2>1, <1>1
<1>4. Cardinality(Popped(free)) = n
  <2>1. n \in Nat
    BY <1>1
  <2> HIDE DEF n
  <2>2. QED
    BY <2>1, <1>3, Interval
<1>5. Promoted(free) = W
  BY <1>1, <1>3, ReadyFresh DEF Promoted
<1>6. IsFiniteSet(W) /\ Cardinality(W) = n
  <2>1. f \in Bijection(1..n, W)
    <3>1. f \in Surjection(1..n, W)
      BY DEF Surjection
    <3>2. f \in Injection(1..n, W)
      BY <1>1 DEF Injection, IsInjective, NoLostWakeup
    <3>3. QED
      BY <3>1, <3>2 DEF Bijection
  <2>2. IsFiniteSet(1..n) /\ Cardinality(1..n) = n
    BY <1>1, Interval
  <2>3. QED
    BY <2>1, <2>2, FS_Bijection DEF ExistsBijection
<1>7. QED
  BY <1>1, <1>4, <1>5, <1>6

-----------------------------------------------------------------------------
LEMMA InitType == Init => TypeOK
BY DEF Init, TypeOK, Stages

(* What an invariant state says of the lane a message is about to join.    *)
LEMMA IdleUnqueued ==
    ASSUME IndInv, NEW k \in Lanes, k \notin running, ~LaneQueued(k)
    PROVE  k \notin live /\ queue[k] = <<>>
BY DEF IndInv, BooksSound, LaneBooks, NoLostWakeup, LaneQueued, QueueSound

(* ... and of the turn that finishes: a queued turn is its lane's head, a  *)
(* steered one is not in the queue.                                        *)
LEMMA FinishingTurn ==
    ASSUME IndInv, NEW m \in Msgs, turn[m] = "active"
    PROVE  /\ LaneOf[m] \in running
           /\ runningLanes \in Nat \ {0}
           /\ \/ /\ m \notin steered
                 /\ queue[LaneOf[m]] # <<>>
                 /\ queue[LaneOf[m]][1] = m
                 /\ Rest(m, LaneOf[m]) = Tail(queue[LaneOf[m]])
              \/ /\ m \in steered
                 /\ LaneOf[m] \in steering
                 /\ Rest(m, LaneOf[m]) = queue[LaneOf[m]]
<1> DEFINE k == LaneOf[m]
<1>1. TypeOK /\ SlotAccounting /\ TurnSound(m) /\ k \in Lanes
  BY DEF IndInv, BooksSound, LaneBooks, TypeOK
<1>2. k \in running
  BY <1>1 DEF TurnSound
<1>3. runningLanes \in Nat \ {0}
  <2>1. IsFiniteSet(running)
    BY <1>1, FS_Subset DEF TypeOK
  <2>2. QED
    BY <2>1, <1>1, <1>2, FS_EmptySet DEF SlotAccounting, TypeOK
<1>4. ASSUME m \in steered
      PROVE  k \in steering /\ Rest(m, k) = queue[k]
  BY <1>1, <1>4 DEF TurnSound, Rest
<1>5. ASSUME m \notin steered
      PROVE  queue[k] # <<>> /\ queue[k][1] = m /\ Rest(m, k) = Tail(queue[k])
  <2>1. queue[k] # <<>> /\ m = Head(queue[k])
    BY <1>1, <1>5 DEF TurnSound
  <2>2. queue[k] \in Seq(Msgs)
    BY <1>1 DEF TypeOK
  <2>3. QED
    BY <2>1, <2>2, <1>5 DEF Rest
<1>6. QED
  BY <1>2, <1>3, <1>4, <1>5

(* Facts about a queue that lost its head, index by index.                 *)
LEMMA TailFacts ==
    ASSUME NEW S, NEW q \in Seq(S), q # <<>>
    PROVE  /\ Tail(q) \in Seq(S) /\ Len(q) \in Nat \ {0}
           /\ Len(Tail(q)) = Len(q) - 1
           /\ DOMAIN q = 1..Len(q) /\ DOMAIN Tail(q) = 1..(Len(q) - 1)
           /\ \A i \in 1..(Len(q) - 1) : Tail(q)[i] = q[i + 1]
<1>1. Tail(q) \in Seq(S) /\ Len(Tail(q)) = Len(q) - 1
      /\ \A i \in 1..Len(Tail(q)) : Tail(q)[i] = q[i + 1]
  BY HeadTailProperties
<1>2. QED
  BY <1>1, LenProperties, EmptySeq

-----------------------------------------------------------------------------
(* Framing: a step that leaves a lane and its messages alone keeps the     *)
(* lane's books.                                                           *)
Untouched(j) ==
    /\ queue'[j] = queue[j] /\ log'[j] = log[j] /\ inFlight'[j] = inFlight[j]
    /\ j \in live' <=> j \in live
    /\ j \in running' <=> j \in running
    /\ j \in steering' <=> j \in steering
    /\ \A n \in Msgs : LaneOf[n] = j =>
          /\ turn'[n] = turn[n]
          /\ n \in steered' <=> n \in steered
          /\ n \in cancels' <=> n \in cancels

LEMMA QueueMembers ==
    ASSUME TypeOK, NEW j \in Lanes, QueueSound(j)
    PROVE  \A i \in DOMAIN queue[j] : queue[j][i] \in Msgs /\ LaneOf[queue[j][i]] = j
<1>1. \A i \in DOMAIN queue[j] : queue[j][i] \in Msgs
  BY DEF TypeOK
<1>2. QED
  BY <1>1 DEF QueueSound

(* A queue that is unchanged keeps its place in the history.               *)
LEMMA FifoFrame ==
    ASSUME TypeOK, NEW j \in Lanes, FifoSound(j),
           queue'[j] = queue[j], log'[j] = log[j],
           \A n \in Msgs : turn[n] = "done" => turn'[n] = "done"
    PROVE  FifoSound(j)'
<1>1. \A i \in 1..Len(log[j]) : log[j][i] \in Msgs
  BY DEF TypeOK
<1>2. PICK d \in 0..Len(log[j]) :
         /\ SuffixAfter(queue[j], log[j], d)
         /\ \A i \in 1..d : turn[log[j][i]] = "done"
  BY DEF FifoSound
<1>3. SuffixAfter(queue'[j], log'[j], d) /\ \A i \in 1..d : i \in 1..Len(log[j])
  BY <1>2 DEF TypeOK
<1>4. \A i \in 1..d : turn'[log'[j][i]] = "done"
  BY <1>1, <1>2, <1>3
<1>5. QED
  BY <1>3, <1>4 DEF FifoSound

LEMMA LaneFrame ==
    ASSUME TypeOK, NEW j \in Lanes, LaneBooks(j), Untouched(j),
           \A n \in Msgs : turn[n] = "done" => turn'[n] = "done"
    PROVE  LaneBooks(j)'
<1>1. QueueSound(j)'
  BY QueueMembers DEF LaneBooks, QueueSound, Untouched
<1>2. LaneSound(j)'
  <2>1. InFlight(j)' = InFlight(j)
    BY DEF InFlight, Untouched
  <2>2. QED
    BY <2>1 DEF LaneBooks, LaneSound, Untouched
<1>3. \A n \in Msgs : LaneOf[n] = j => TurnSound(n)'
  BY DEF LaneBooks, TurnSound, Untouched
<1>4. j \notin Steerable => FifoSound(j)'
  BY FifoFrame DEF LaneBooks, Untouched
<1>5. QED
  BY <1>1, <1>2, <1>3, <1>4 DEF LaneBooks

LEMMA SuffixJoin ==
    ASSUME NEW S, NEW q \in Seq(S), NEW l \in Seq(S), NEW d \in Nat, NEW x \in S,
           SuffixAfter(q, l, d)
    PROVE  /\ SuffixAfter(Append(q, x), Append(l, x), d)
           /\ \A i \in 1..d : Append(l, x)[i] = l[i]
<1> DEFINE q2 == Append(q, x)
           l2 == Append(l, x)
<1>1. /\ Len(q) \in Nat /\ Len(l) \in Nat /\ d \in Nat /\ Len(l) = d + Len(q)
      /\ \A i \in 1..Len(q) : q[i] = l[d + i]
  BY LenProperties DEF SuffixAfter
<1>2. /\ Len(q2) = Len(q) + 1 /\ q2[Len(q) + 1] = x
      /\ \A i \in 1..Len(q) : q2[i] = q[i]
  BY AppendProperties
<1>3. /\ Len(l2) = Len(l) + 1 /\ l2[Len(l) + 1] = x
      /\ \A i \in 1..Len(l) : l2[i] = l[i]
  BY AppendProperties
<1> HIDE DEF q2, l2
<1>4. ASSUME NEW i \in 1..Len(q2)
      PROVE  q2[i] = l2[d + i]
  <2>1. CASE i = Len(q) + 1
    BY <2>1, <1>1, <1>2, <1>3
  <2>2. CASE i \in 1..Len(q)
    BY <2>2, <1>1, <1>2, <1>3
  <2>3. QED
    BY <2>1, <2>2, <1>1, <1>2
<1>5. \A i \in 1..d : l2[i] = l[i]
  BY <1>1, <1>3
<1>6. Len(l2) = d + Len(q2)
  BY <1>1, <1>2, <1>3
<1>7. QED
  BY <1>1, <1>4, <1>5, <1>6 DEF SuffixAfter, q2, l2

LEMMA SuffixPop ==
    ASSUME NEW S, NEW q \in Seq(S), NEW l \in Seq(S), NEW d \in Nat,
           q # <<>>, SuffixAfter(q, l, d)
    PROVE  SuffixAfter(Tail(q), l, d + 1) /\ l[d + 1] = q[1]
<1> DEFINE t == Tail(q)
<1>1. /\ Len(q) \in Nat \ {0} /\ Len(l) \in Nat /\ d \in Nat /\ Len(l) = d + Len(q)
      /\ \A i \in 1..Len(q) : q[i] = l[d + i]
  BY TailFacts DEF SuffixAfter
<1>2. Len(t) = Len(q) - 1 /\ \A i \in 1..(Len(q) - 1) : t[i] = q[i + 1]
  BY TailFacts
<1> HIDE DEF t
<1>3. \A i \in 1..Len(t) : t[i] = l[(d + 1) + i]
  BY <1>1, <1>2
<1>4. QED
  BY <1>1, <1>2, <1>3 DEF SuffixAfter, t

(* A message joins the tail of its lane's queue and history.               *)
LEMMA FifoJoin ==
    ASSUME TypeOK, NEW j \in Lanes, NEW m \in Msgs, FifoSound(j),
           queue'[j] = Append(queue[j], m), log'[j] = Append(log[j], m),
           \A n \in Msgs : turn[n] = "done" => turn'[n] = "done"
    PROVE  FifoSound(j)'
<1>1. PICK d \in 0..Len(log[j]) :
         /\ SuffixAfter(queue[j], log[j], d)
         /\ \A i \in 1..d : turn[log[j][i]] = "done"
  BY DEF FifoSound
<1>2. /\ queue[j] \in Seq(Msgs) /\ log[j] \in Seq(Msgs)
      /\ Len(log[j]) \in Nat /\ Len(log'[j]) = Len(log[j]) + 1 /\ d \in Nat
      /\ \A i \in 1..d : log[j][i] \in Msgs
  BY DEF TypeOK
<1>3. /\ SuffixAfter(queue'[j], log'[j], d)
      /\ \A i \in 1..d : log'[j][i] = log[j][i]
  BY <1>1, <1>2, SuffixJoin
<1>4. \A i \in 1..d : turn'[log'[j][i]] = "done"
  BY <1>1, <1>2, <1>3
<1>5. d \in 0..Len(log'[j])
  BY <1>2
<1>6. QED
  BY <1>3, <1>4, <1>5 DEF FifoSound

(* The head of the queue is answered and leaves.                           *)
LEMMA FifoPop ==
    ASSUME TypeOK, NEW j \in Lanes, FifoSound(j), queue[j] # <<>>,
           queue'[j] = Tail(queue[j]), log'[j] = log[j],
           turn'[queue[j][1]] = "done",
           \A n \in Msgs : turn[n] = "done" => turn'[n] = "done"
    PROVE  FifoSound(j)'
<1>1. PICK d \in 0..Len(log[j]) :
         /\ SuffixAfter(queue[j], log[j], d)
         /\ \A i \in 1..d : turn[log[j][i]] = "done"
  BY DEF FifoSound
<1>2. /\ queue[j] \in Seq(Msgs) /\ log[j] \in Seq(Msgs) /\ Len(log[j]) \in Nat
      /\ d \in Nat /\ \A i \in 1..d : log[j][i] \in Msgs
      /\ Len(queue[j]) \in Nat \ {0}
  BY TailFacts DEF TypeOK
<1>3. SuffixAfter(queue'[j], log'[j], d + 1) /\ log[j][d + 1] = queue[j][1]
  BY <1>1, <1>2, SuffixPop
<1>4. \A i \in 1..(d + 1) : turn'[log'[j][i]] = "done"
  BY <1>1, <1>2, <1>3
<1>5. d + 1 \in 0..Len(log'[j])
  BY <1>1, <1>2 DEF SuffixAfter
<1>6. QED
  BY <1>3, <1>4, <1>5 DEF FifoSound

-----------------------------------------------------------------------------
(* dispatch                                                                *)

(* A lane that did not exist is created with one message; whether it       *)
(* starts or waits, the rest of its state is the same.                     *)
LEMMA NewLane ==
    ASSUME IndInv, NEW m \in Msgs, turn[m] = "new",
           NEW k \in Lanes, k = LaneOf[m], k \notin live,
           queue[k] = <<>>, queue'[k] = <<m>>, log'[k] = Append(log[k], m),
           \A n \in Msgs \ {m} : turn'[n] = turn[n],
           UNCHANGED <<steered, cancels>>,
           k \in live', k \in steering' => k \in Steerable,
           \/ turn'[m] = "spawned" /\ k \in running' /\ inFlight'[k] = 1
           \/ turn'[m] = "queued" /\ k \notin running' /\ inFlight'[k] = inFlight[k]
    PROVE  LaneBooks(k)'
<1>1. TypeOK /\ LaneBooks(k) /\ TurnSound(m) /\ k \notin running
  BY DEF IndInv, BooksSound, LaneBooks, SlotAccounting
<1>2. \A n \in Msgs : LaneOf[n] = k => turn[n] \in {"new", "done"}
  BY <1>1 DEF TypeOK, Stages, LaneBooks, TurnSound
<1>3. m \notin steered /\ m \notin cancels
  BY <1>1 DEF TurnSound, Started
<1>4. QueueSound(k)'
  <2>1. DOMAIN <<m>> = {1} /\ <<m>>[1] = m
    OBVIOUS
  <2>2. QED
    BY <2>1, <1>3 DEF QueueSound
<1>5. LaneSound(k)'
  <2>1. CASE turn'[m] = "spawned" /\ k \in running' /\ inFlight'[k] = 1
    <3>1. InFlight(k)' = {m}
      BY <2>1, <1>2 DEF InFlight
    <3>2. IsFiniteSet({m}) /\ Cardinality({m}) = 1 /\ {m} # {}
      BY FS_Singleton
    <3>3. QED
      BY <3>1, <3>2, <2>1 DEF LaneSound
  <2>2. CASE turn'[m] = "queued" /\ k \notin running' /\ inFlight'[k] = inFlight[k]
    <3>1. InFlight(k)' = InFlight(k)
      BY <2>2, <1>2 DEF InFlight
    <3>2. QED
      BY <3>1, <2>2, <1>1 DEF LaneBooks, LaneSound
  <2>3. QED
    BY <2>1, <2>2
<1>6. \A n \in Msgs : LaneOf[n] = k => TurnSound(n)'
  <2> SUFFICES ASSUME NEW n \in Msgs, LaneOf[n] = k PROVE TurnSound(n)'
    OBVIOUS
  <2>1. CASE n = m
    <3>1. DOMAIN <<m>> = {1} /\ <<m>>[1] = m /\ Head(<<m>>) = m /\ <<m>> # <<>>
      OBVIOUS
    <3>2. QED
      BY <2>1, <3>1, <1>3 DEF TurnSound
  <2>2. CASE n # m
    BY <2>2, <1>1, <1>2 DEF LaneBooks, TurnSound
  <2>3. QED
    BY <2>1, <2>2
<1>7. k \notin Steerable => FifoSound(k)'
  <2>1. Append(queue[k], m) = <<m>>
    OBVIOUS
  <2>2. QED
    BY <2>1, <1>1, FifoJoin DEF LaneBooks
<1>8. QED
  BY <1>4, <1>5, <1>6, <1>7 DEF LaneBooks

LEMMA StartNowStep == ASSUME IndInv, NEW m \in Msgs, StartNow(m) PROVE IndInv' /\ StageOrder
<1> DEFINE k == LaneOf[m]
<1>0. TypeOK /\ BooksSound /\ k \in Lanes /\ turn[m] = "new"
  BY DEF IndInv, StartNow, Arrive, TypeOK
<1>1. k \notin live /\ queue[k] = <<>> /\ k \notin running /\ k \notin steering
  BY <1>0, IdleUnqueued DEF StartNow, BooksSound, LaneBooks, LaneSound
<1>2. queue' = [queue EXCEPT ![k] = <<m>>] /\ turn' = [turn EXCEPT ![m] = "spawned"]
  <2>1. Append(queue[k], m) = <<m>> /\ Head(<<m>>) = m
    BY <1>1
  <2>2. QED
    BY <2>1, <1>0 DEF StartNow, TypeOK
<1>3. /\ log' = [log EXCEPT ![k] = Append(@, m)]
      /\ live' = live \cup {k} /\ running' = running \cup {k}
      /\ steering' = IF k \in flag THEN steering \cup {k} ELSE steering
      /\ inFlight' = [inFlight EXCEPT ![k] = 1]
      /\ runningLanes' = runningLanes + 1
      /\ UNCHANGED <<readyLanes, steered, maxWorkers, flag, cancels, cancelling, cancelled>>
  BY <1>1 DEF StartNow, Arrive, cancelVars
<1>4. TypeOK'
  <2>1. <<m>> \in Seq(Msgs) /\ Append(log[k], m) \in Seq(Msgs) /\ "spawned" \in Stages
    BY <1>0 DEF TypeOK, Stages
  <2> HIDE DEF k
  <2>2. QED
    BY <2>1, <1>0, <1>2, <1>3 DEF TypeOK
<1>5. SlotAccounting'
  <2>1. IsFiniteSet(running)
    BY <1>0, FS_Subset DEF TypeOK
  <2>2. Cardinality(running') = Cardinality(running) + 1
    BY <2>1, <1>1, <1>3, FS_AddElement
  <2>3. QED
    BY <2>2, <1>0, <1>3 DEF BooksSound, SlotAccounting
<1>6. NoLostWakeup'
  BY <1>0, <1>1, <1>2, <1>3 DEF BooksSound, NoLostWakeup, TypeOK
<1>7. \A n \in Msgs \ {m} : turn'[n] = turn[n]
  BY <1>0, <1>2 DEF TypeOK
<1>8. LaneBooks(k)'
  BY <1>0, <1>1, <1>2, <1>3, <1>7, NewLane DEF TypeOK
<1>9. ASSUME NEW j \in Lanes, j # k
      PROVE  LaneBooks(j)'
  <2>1. Untouched(j)
    BY <1>0, <1>2, <1>3, <1>7, <1>9 DEF Untouched, TypeOK
  <2>2. QED
    BY <2>1, <1>0, <1>7, LaneFrame DEF BooksSound
<1>10. StageOrder
  BY <1>0, <1>7 DEF StageOrder
<1>11. QED
  BY <1>10, <1>4, <1>5, <1>6, <1>8, <1>9 DEF IndInv, BooksSound

LEMMA WaitForSlotStep == ASSUME IndInv, NEW m \in Msgs, WaitForSlot(m) PROVE IndInv' /\ StageOrder
<1> DEFINE k == LaneOf[m]
<1>0. TypeOK /\ BooksSound /\ k \in Lanes /\ turn[m] = "new"
  BY DEF IndInv, WaitForSlot, Arrive, TypeOK
<1>1. k \notin live /\ queue[k] = <<>> /\ k \notin running /\ k \notin steering
  BY <1>0, IdleUnqueued DEF WaitForSlot, BooksSound, LaneBooks, LaneSound
<1>2. queue' = [queue EXCEPT ![k] = <<m>>] /\ turn' = [turn EXCEPT ![m] = "queued"]
  <2>1. Append(queue[k], m) = <<m>>
    BY <1>1
  <2>2. QED
    BY <2>1, <1>0 DEF WaitForSlot, TypeOK
<1>3. /\ log' = [log EXCEPT ![k] = Append(@, m)]
      /\ live' = live \cup {k} /\ readyLanes' = Append(readyLanes, k)
      /\ steering' = IF k \in flag THEN steering \cup {k} ELSE steering
      /\ UNCHANGED <<running, inFlight, runningLanes, steered, maxWorkers, flag, cancels, cancelling, cancelled>>
  BY <1>1 DEF WaitForSlot, Arrive, cancelVars
<1>4. TypeOK'
  <2>1. <<m>> \in Seq(Msgs) /\ Append(log[k], m) \in Seq(Msgs) /\ "queued" \in Stages
        /\ Append(readyLanes, k) \in Seq(Lanes)
    BY <1>0 DEF TypeOK, Stages
  <2> HIDE DEF k
  <2>2. QED
    BY <2>1, <1>0, <1>2, <1>3 DEF TypeOK
<1>5. SlotAccounting'
  BY <1>0, <1>3 DEF BooksSound, SlotAccounting
<1>6. NoLostWakeup'
  <2>1. /\ DOMAIN readyLanes = 1..Len(readyLanes) /\ Len(readyLanes) \in Nat
        /\ DOMAIN readyLanes' = 1..(Len(readyLanes) + 1)
        /\ readyLanes'[Len(readyLanes) + 1] = k
        /\ \A i \in DOMAIN readyLanes : readyLanes'[i] = readyLanes[i]
    <3>1. readyLanes \in Seq(Lanes) /\ Append(readyLanes, k) \in Seq(Lanes)
      BY <1>0 DEF TypeOK
    <3>2. readyLanes' = Append(readyLanes, k)
      BY <1>3
    <3>3. QED
      BY <3>1, <3>2, <1>0, LenProperties, AppendProperties
  <2>2. \A i \in DOMAIN readyLanes : readyLanes[i] # k
    BY <1>0, <1>1 DEF BooksSound, NoLostWakeup
  <2>3. queue'[k] # <<>> /\ \A j \in Lanes \ {k} : queue'[j] = queue[j]
    BY <1>0, <1>2 DEF TypeOK
  <2>4. ASSUME NEW j \in live' \ running'
        PROVE  queue'[j] # <<>> /\ \E i \in DOMAIN readyLanes' : readyLanes'[i] = j
    <3>1. CASE j = k
      BY <3>1, <2>1, <2>3
    <3>2. CASE j # k
      <4>1. j \in live \ running /\ j \in Lanes
        BY <3>2, <2>4, <1>0, <1>3 DEF TypeOK
      <4>2. PICK i \in DOMAIN readyLanes : readyLanes[i] = j
        BY <4>1, <1>0 DEF BooksSound, NoLostWakeup
      <4>3. i \in DOMAIN readyLanes' /\ readyLanes'[i] = j
        BY <4>2, <2>1
      <4>4. queue'[j] # <<>>
        BY <4>1, <3>2, <2>3, <1>0 DEF BooksSound, NoLostWakeup
      <4>5. QED
        BY <4>3, <4>4
    <3>3. QED
      BY <3>1, <3>2
  <2>5. \A i \in DOMAIN readyLanes' : readyLanes'[i] \in live' \ running'
    BY <2>1, <1>0, <1>1, <1>3 DEF BooksSound, NoLostWakeup
  <2>6. \A i, j \in DOMAIN readyLanes' : readyLanes'[i] = readyLanes'[j] => i = j
    BY <2>1, <2>2, <1>0 DEF BooksSound, NoLostWakeup
  <2>7. QED
    BY <2>4, <2>5, <2>6 DEF NoLostWakeup
<1>7. \A n \in Msgs \ {m} : turn'[n] = turn[n]
  BY <1>0, <1>2 DEF TypeOK
<1>8. LaneBooks(k)'
  BY <1>0, <1>1, <1>2, <1>3, <1>7, NewLane DEF TypeOK
<1>9. ASSUME NEW j \in Lanes, j # k
      PROVE  LaneBooks(j)'
  <2>1. Untouched(j)
    BY <1>0, <1>2, <1>3, <1>7, <1>9 DEF Untouched, TypeOK
  <2>2. QED
    BY <2>1, <1>0, <1>7, LaneFrame DEF BooksSound
<1>10. StageOrder
  BY <1>0, <1>7 DEF StageOrder
<1>11. QED
  BY <1>10, <1>4, <1>5, <1>6, <1>8, <1>9 DEF IndInv, BooksSound

LEMMA SteerStep == ASSUME IndInv, NEW m \in Msgs, Steer(m) PROVE IndInv' /\ StageOrder
<1> DEFINE k == LaneOf[m]
<1>0. TypeOK /\ BooksSound /\ k \in Lanes /\ turn[m] = "new"
      /\ k \in running /\ k \in steering /\ k \in live
      /\ LaneBooks(k) /\ TurnSound(m)
  BY DEF IndInv, Steer, Arrive, TypeOK, BooksSound, SlotAccounting, LaneBooks
<1>1. /\ log' = [log EXCEPT ![k] = Append(@, m)]
      /\ inFlight' = [inFlight EXCEPT ![k] = @ + 1]
      /\ turn' = [turn EXCEPT ![m] = "spawned"] /\ steered' = steered \cup {m}
      /\ live' = live /\ steering' = steering
      /\ UNCHANGED <<queue, running, readyLanes, runningLanes, maxWorkers, flag, cancels, cancelling, cancelled>>
  BY <1>0 DEF Steer, Arrive, cancelVars
<1>2. TypeOK'
  <2>1. Append(log[k], m) \in Seq(Msgs) /\ "spawned" \in Stages /\ inFlight[k] + 1 \in Nat
    BY <1>0 DEF TypeOK, Stages
  <2> HIDE DEF k
  <2>2. QED
    BY <2>1, <1>0, <1>1 DEF TypeOK
<1>3. SlotAccounting' /\ NoLostWakeup'
  BY <1>0, <1>1 DEF BooksSound, SlotAccounting, NoLostWakeup
<1>4. \A n \in Msgs \ {m} : turn'[n] = turn[n] /\ (n \in steered' <=> n \in steered)
  BY <1>0, <1>1 DEF TypeOK
<1>5. turn'[m] = "spawned" /\ m \in steered' /\ m \notin steered /\ m \notin cancels
  BY <1>0, <1>1 DEF TypeOK, TurnSound, Started
<1>6. LaneBooks(k)'
  <2>1. QueueSound(k)'
    <3>1. \A i \in DOMAIN queue[k] : queue[k][i] \in Msgs \ {m}
      BY <1>0, QueueMembers DEF LaneBooks, QueueSound
    <3>2. QED
      BY <3>1, <1>0, <1>1, <1>4 DEF LaneBooks, QueueSound
  <2>2. LaneSound(k)'
    <3>1. InFlight(k)' = InFlight(k) \cup {m} /\ m \notin InFlight(k)
      BY <1>0, <1>4, <1>5 DEF InFlight
    <3>2. IsFiniteSet(InFlight(k)') /\ Cardinality(InFlight(k)') = Cardinality(InFlight(k)) + 1
      BY <3>1, <1>0, FS_AddElement DEF LaneBooks, LaneSound
    <3>3. inFlight'[k] = inFlight[k] + 1
      BY <1>0, <1>1 DEF TypeOK
    <3>4. QED
      BY <3>1, <3>2, <3>3, <1>0, <1>1 DEF LaneBooks, LaneSound
  <2>3. \A n \in Msgs : LaneOf[n] = k => TurnSound(n)'
    <3> SUFFICES ASSUME NEW n \in Msgs, LaneOf[n] = k PROVE TurnSound(n)'
      OBVIOUS
    <3>1. CASE n = m
      BY <3>1, <1>0, <1>1, <1>5 DEF TurnSound, Started
    <3>2. CASE n # m
      BY <3>2, <1>0, <1>1, <1>4 DEF LaneBooks, TurnSound
    <3>3. QED
      BY <3>1, <3>2
  <2>4. k \in Steerable
    BY <1>0 DEF LaneBooks, LaneSound
  <2>5. QED
    BY <2>1, <2>2, <2>3, <2>4 DEF LaneBooks
<1>7. ASSUME NEW j \in Lanes, j # k
      PROVE  LaneBooks(j)'
  <2>1. Untouched(j)
    BY <1>0, <1>1, <1>4, <1>7 DEF Untouched, TypeOK
  <2>2. \A n \in Msgs : turn[n] = "done" => turn'[n] = "done"
    BY <1>0, <1>4
  <2>3. QED
    BY <2>1, <2>2, <1>0, LaneFrame DEF BooksSound
<1>8. StageOrder
  BY <1>0, <1>4 DEF StageOrder
<1>9. QED
  BY <1>8, <1>2, <1>3, <1>6, <1>7 DEF IndInv, BooksSound

LEMMA EnqueueStep == ASSUME IndInv, NEW m \in Msgs, Enqueue(m) PROVE IndInv' /\ StageOrder
<1> DEFINE k == LaneOf[m]
<1>0. /\ TypeOK /\ BooksSound /\ k \in Lanes /\ turn[m] = "new" /\ k \in live
      /\ LaneBooks(k) /\ TurnSound(m)
      /\ queue[k] \in Seq(Msgs) /\ DOMAIN queue[k] = 1..Len(queue[k]) /\ Len(queue[k]) \in Nat
  <2>1. TypeOK /\ BooksSound /\ k \in Lanes /\ turn[m] = "new"
    BY DEF IndInv, Enqueue, Arrive, TypeOK
  <2>2. k \in live
    BY <2>1 DEF Enqueue, LaneQueued, BooksSound, SlotAccounting, NoLostWakeup
  <2>3. QED
    BY <2>1, <2>2, LenProperties DEF BooksSound, LaneBooks, TypeOK
<1>1. /\ log' = [log EXCEPT ![k] = Append(@, m)]
      /\ queue' = [queue EXCEPT ![k] = Append(@, m)]
      /\ turn' = [turn EXCEPT ![m] = "queued"]
      /\ live' = live /\ steering' = steering
      /\ UNCHANGED <<inFlight, running, readyLanes, runningLanes, steered, maxWorkers, flag, cancels, cancelling, cancelled>>
  BY <1>0 DEF Enqueue, Arrive, cancelVars
<1>2. TypeOK'
  <2>1. Append(log[k], m) \in Seq(Msgs) /\ "queued" \in Stages /\ Append(queue[k], m) \in Seq(Msgs)
    BY <1>0 DEF TypeOK, Stages
  <2> HIDE DEF k
  <2>2. QED
    BY <2>1, <1>0, <1>1 DEF TypeOK
<1>3. /\ queue'[k] \in Seq(Msgs) /\ queue'[k] # <<>>
      /\ DOMAIN queue'[k] = 1..(Len(queue[k]) + 1) /\ queue'[k][Len(queue[k]) + 1] = m
      /\ \A i \in 1..Len(queue[k]) : queue'[k][i] = queue[k][i]
      /\ queue[k] # <<>> => Head(queue'[k]) = Head(queue[k])
  <2>1. queue'[k] = Append(queue[k], m)
    BY <1>0, <1>1 DEF TypeOK
  <2>2. QED
    BY <2>1, <1>0, AppendProperties, LenProperties, HeadTailAppend
<1>4. \A n \in Msgs \ {m} : turn'[n] = turn[n]
  BY <1>0, <1>1 DEF TypeOK
<1>5. turn'[m] = "queued" /\ m \notin steered /\ m \notin cancels
  BY <1>0, <1>1 DEF TypeOK, TurnSound, Started
<1>6. SlotAccounting' /\ NoLostWakeup'
  <2>1. \A j \in Lanes : queue[j] # <<>> => queue'[j] # <<>>
    BY <1>0, <1>1, <1>3 DEF TypeOK
  <2>2. QED
    BY <2>1, <1>0, <1>1 DEF BooksSound, SlotAccounting, NoLostWakeup, TypeOK
<1>7. LaneBooks(k)'
  <2>1. QueueSound(k)'
    <3>1. \A i \in 1..Len(queue[k]) : queue[k][i] \in Msgs \ {m}
      BY <1>0, QueueMembers DEF LaneBooks, QueueSound
    <3>2. ASSUME NEW i \in DOMAIN queue'[k]
          PROVE  /\ LaneOf[queue'[k][i]] = k
                 /\ queue'[k][i] \notin steered'
                 /\ turn'[queue'[k][i]] \in {"queued", "spawned", "active"}
                 /\ i > 1 => turn'[queue'[k][i]] = "queued"
                 /\ \A j \in DOMAIN queue'[k] : queue'[k][i] = queue'[k][j] => i = j
      <4>1. CASE i = Len(queue[k]) + 1
        BY <4>1, <3>1, <1>0, <1>1, <1>3, <1>5
      <4>2. CASE i \in 1..Len(queue[k])
        BY <4>2, <3>1, <1>0, <1>1, <1>3, <1>4 DEF LaneBooks, QueueSound
      <4>3. QED
        BY <4>1, <4>2, <1>0, <1>3
    <3>3. QED
      BY <3>2, <1>0, <1>1 DEF QueueSound
  <2>2. LaneSound(k)'
    <3>1. InFlight(k)' = InFlight(k)
      BY <1>0, <1>4, <1>5 DEF InFlight
    <3>2. QED
      BY <3>1, <1>0, <1>1 DEF LaneBooks, LaneSound
  <2>3. \A n \in Msgs : LaneOf[n] = k => TurnSound(n)'
    <3> SUFFICES ASSUME NEW n \in Msgs, LaneOf[n] = k PROVE TurnSound(n)'
      OBVIOUS
    <3>1. CASE n = m
      <4>1. Len(queue[k]) + 1 \in DOMAIN queue'[k]
        BY <1>0, <1>3
      <4>2. QED
        BY <3>1, <4>1, <1>0, <1>1, <1>3, <1>5 DEF TurnSound
    <3>2. CASE n # m
      <4>1. TurnSound(n) /\ turn'[n] = turn[n]
        BY <3>2, <1>0, <1>4 DEF LaneBooks
      <4>2. turn'[n] = "queued" => \E i \in DOMAIN queue'[k] : queue'[k][i] = n
        BY <4>1, <1>0, <1>3 DEF TurnSound
      <4>3. QED
        BY <4>1, <4>2, <1>1, <1>3 DEF TurnSound
    <3>3. QED
      BY <3>1, <3>2
  <2>4. k \notin Steerable => FifoSound(k)'
    <3>1. queue'[k] = Append(queue[k], m) /\ log'[k] = Append(log[k], m)
      BY <1>0, <1>1 DEF TypeOK
    <3>2. \A n \in Msgs : turn[n] = "done" => turn'[n] = "done"
      BY <1>0, <1>4
    <3>3. QED
      BY <3>1, <3>2, <1>0, FifoJoin DEF LaneBooks
  <2>5. QED
    BY <2>1, <2>2, <2>3, <2>4 DEF LaneBooks
<1>8. ASSUME NEW j \in Lanes, j # k
      PROVE  LaneBooks(j)'
  <2>1. Untouched(j)
    BY <1>0, <1>1, <1>4, <1>8 DEF Untouched, TypeOK
  <2>2. \A n \in Msgs : turn[n] = "done" => turn'[n] = "done"
    BY <1>0, <1>4
  <2>3. QED
    BY <2>1, <2>2, <1>0, LaneFrame DEF BooksSound
<1>9. StageOrder
  BY <1>0, <1>4 DEF StageOrder
<1>10. QED
  BY <1>9, <1>2, <1>6, <1>7, <1>8 DEF IndInv, BooksSound

-----------------------------------------------------------------------------
(* runTurn                                                                 *)
LEMMA RegisterStep == ASSUME IndInv, NEW m \in Msgs, Register(m) PROVE IndInv' /\ StageOrder
<1> DEFINE k == LaneOf[m]
<1>0. TypeOK /\ BooksSound /\ k \in Lanes /\ turn[m] = "spawned" /\ LaneBooks(k)
  BY DEF IndInv, Register, TypeOK, BooksSound
<1>1. /\ turn' = [turn EXCEPT ![m] = "active"] /\ cancels' = cancels \cup {m}
      /\ UNCHANGED <<live, queue, running, steering, inFlight, readyLanes, runningLanes,
                     steered, maxWorkers, flag, cancelling, cancelled, log>>
  BY DEF Register, laneVars
<1>2. TypeOK'
  <2>1. "active" \in Stages
    BY DEF Stages
  <2>2. QED
    BY <2>1, <1>0, <1>1 DEF TypeOK
<1>3. SlotAccounting' /\ NoLostWakeup'
  BY <1>0, <1>1 DEF BooksSound, SlotAccounting, NoLostWakeup
<1>4. turn'[m] = "active" /\ \A n \in Msgs \ {m} : turn'[n] = turn[n]
  BY <1>0, <1>1 DEF TypeOK
<1>5. \A n \in Msgs : turn[n] = "done" => turn'[n] = "done"
  BY <1>0, <1>4
<1>6. LaneBooks(k)'
  <2>1. QueueSound(k)'
    BY <1>0, <1>1, <1>4, QueueMembers DEF LaneBooks, QueueSound
  <2>2. LaneSound(k)'
    <3>1. InFlight(k)' = InFlight(k)
      BY <1>0, <1>4 DEF InFlight
    <3>2. QED
      BY <3>1, <1>0, <1>1 DEF LaneBooks, LaneSound
  <2>3. \A n \in Msgs : LaneOf[n] = k => TurnSound(n)'
    BY <1>0, <1>1, <1>4 DEF LaneBooks, TurnSound, Started
  <2>4. k \notin Steerable => FifoSound(k)'
    BY <1>0, <1>1, <1>5, FifoFrame DEF LaneBooks
  <2>5. QED
    BY <2>1, <2>2, <2>3, <2>4 DEF LaneBooks
<1>7. ASSUME NEW j \in Lanes, j # k
      PROVE  LaneBooks(j)'
  <2>1. Untouched(j)
    BY <1>0, <1>1, <1>4, <1>7 DEF Untouched, TypeOK
  <2>2. QED
    BY <2>1, <1>0, <1>5, LaneFrame DEF BooksSound
<1>8. StageOrder
  BY <1>0, <1>4 DEF StageOrder
<1>9. QED
  BY <1>8, <1>2, <1>3, <1>6, <1>7 DEF IndInv, BooksSound

-----------------------------------------------------------------------------
(* finishTurn                                                              *)

(* The queue a finishing turn leaves behind, and who is left in flight.    *)
LEMMA RestFacts ==
    ASSUME IndInv, NEW m \in Msgs, turn[m] = "active", NEW k \in Lanes, k = LaneOf[m],
           NEW r, r = Rest(m, k)
    PROVE  /\ r \in Seq(Msgs) /\ DOMAIN r = 1..Len(r) /\ Len(r) \in Nat
           /\ r # <<>> => Head(r) = r[1] /\ 1 \in DOMAIN r
           /\ \A i \in DOMAIN r :
                 /\ r[i] \in Msgs /\ r[i] # m /\ LaneOf[r[i]] = k /\ r[i] \notin steered
                 /\ turn[r[i]] \in {"queued", "spawned", "active"}
                 /\ i > 1 => turn[r[i]] = "queued"
                 /\ \A j \in DOMAIN r : r[i] = r[j] => i = j
           /\ \A n \in Msgs \ {m} : LaneOf[n] = k /\ turn[n] = "queued" =>
                 \E i \in DOMAIN r : r[i] = n
           /\ \A n \in InFlight(k) \ {m} : n \notin steered =>
                 r # <<>> /\ n = Head(r)
           /\ \A n \in InFlight(k) \cap steered : k \in steering
<1>1. /\ TypeOK /\ QueueSound(k) /\ queue[k] \in Seq(Msgs) /\ TurnSound(m)
      /\ \A n \in Msgs : LaneOf[n] = k => TurnSound(n)
  BY DEF IndInv, BooksSound, LaneBooks, TypeOK
<1>2. \A i \in DOMAIN queue[k] : queue[k][i] \in Msgs
  BY <1>1
<1>3. CASE m \in steered
  <2>1. r = queue[k]
    BY <1>3, FinishingTurn
  <2>2. DOMAIN r = 1..Len(r) /\ Len(r) \in Nat /\ (r # <<>> => Head(r) = r[1] /\ 1 \in DOMAIN r)
    BY <2>1, <1>1, LenProperties, EmptySeq
  <2>3. \A n \in InFlight(k) \ {m} : n \notin steered => r # <<>> /\ n = Head(r)
    BY <2>1, <1>1 DEF InFlight, TurnSound
  <2>4. \A n \in Msgs \ {m} : LaneOf[n] = k /\ turn[n] = "queued" =>
                 \E i \in DOMAIN r : r[i] = n
    BY <2>1, <1>1 DEF TurnSound
  <2>5. \A n \in InFlight(k) \cap steered : k \in steering
    BY <1>1 DEF InFlight, TurnSound
  <2>6. QED
    BY <2>1, <2>2, <2>3, <2>4, <2>5, <1>1, <1>2, <1>3 DEF QueueSound
<1>4. CASE m \notin steered
  <2>1. queue[k] # <<>> /\ queue[k][1] = m /\ r = Tail(queue[k]) /\ Head(queue[k]) = m
    BY <1>4, <1>1, FinishingTurn DEF TurnSound
  <2>2. /\ r \in Seq(Msgs) /\ Len(queue[k]) \in Nat \ {0} /\ Len(r) = Len(queue[k]) - 1
        /\ DOMAIN queue[k] = 1..Len(queue[k]) /\ DOMAIN r = 1..Len(r)
        /\ \A i \in 1..Len(r) : r[i] = queue[k][i + 1]
    BY <2>1, <1>1, TailFacts
  <2>3. r # <<>> => Head(r) = r[1] /\ 1 \in DOMAIN r
    BY <2>2, EmptySeq
  <2>4. ASSUME NEW i \in DOMAIN r
        PROVE  /\ r[i] \in Msgs /\ r[i] # m /\ LaneOf[r[i]] = k /\ r[i] \notin steered
               /\ turn[r[i]] = "queued"
               /\ \A j \in DOMAIN r : r[i] = r[j] => i = j
    <3>1. i + 1 \in DOMAIN queue[k] /\ i + 1 > 1 /\ 1 \in DOMAIN queue[k] /\ r[i] = queue[k][i + 1]
      BY <2>2
    <3>2. \A j \in DOMAIN r : j + 1 \in DOMAIN queue[k] /\ r[j] = queue[k][j + 1]
      BY <2>2
    <3>3. i \in Nat /\ \A j \in DOMAIN r : j \in Nat
      BY <2>2
    <3>4. QED
      BY <3>1, <3>2, <3>3, <2>1, <1>1, <1>2 DEF QueueSound
  <2>5. ASSUME NEW n \in Msgs \ {m}, LaneOf[n] = k, turn[n] = "queued"
        PROVE  \E i \in DOMAIN r : r[i] = n
    <3>1. PICK i \in DOMAIN queue[k] : queue[k][i] = n
      BY <2>5, <1>1 DEF TurnSound
    <3>2. i # 1
      BY <3>1, <2>1
    <3>3. i - 1 \in 1..Len(r) /\ (i - 1) + 1 = i
      BY <3>2, <2>2
    <3>4. r[i - 1] = queue[k][(i - 1) + 1]
      BY <3>3, <2>2
    <3>5. i - 1 \in DOMAIN r /\ r[i - 1] = n
      BY <3>1, <3>3, <3>4, <2>2
    <3>6. QED
      BY <3>5
  <2>6. \A n \in InFlight(k) \ {m} : n \in steered
    BY <2>1, <1>1 DEF InFlight, TurnSound
  <2>7. \A n \in InFlight(k) \cap steered : k \in steering
    BY <1>1 DEF InFlight, TurnSound
  <2>8. QED
    BY <2>2, <2>3, <2>4, <2>5, <2>6, <2>7
<1>5. QED
  BY <1>3, <1>4

LEMMA FinishSteeredStep == ASSUME IndInv, NEW m \in Msgs, FinishSteered(m) PROVE IndInv' /\ StageOrder
<1> DEFINE k == LaneOf[m]
           r == Rest(m, k)
<1>0. /\ TypeOK /\ BooksSound /\ k \in Lanes /\ turn[m] = "active" /\ LaneBooks(k)
      /\ k \in steering /\ inFlight[k] > 1 /\ k \in running /\ k \in live
      /\ \A n \in Msgs : LaneOf[n] = k => TurnSound(n)
  BY FinishingTurn DEF IndInv, FinishSteered, Ends, TypeOK, BooksSound, LaneBooks
<1>1. /\ turn' = [turn EXCEPT ![m] = "done"] /\ cancels' = cancels \ {m}
      /\ queue' = [queue EXCEPT ![k] = r] /\ inFlight' = [inFlight EXCEPT ![k] = @ - 1]
      /\ UNCHANGED <<live, running, steering, readyLanes, runningLanes,
                     steered, maxWorkers, flag, cancelling, cancelled, log>>
  BY DEF FinishSteered, Ends
<1>2. /\ r \in Seq(Msgs) /\ DOMAIN r = 1..Len(r) /\ Len(r) \in Nat
      /\ \A i \in DOMAIN r :
            /\ r[i] \in Msgs /\ r[i] # m /\ LaneOf[r[i]] = k /\ r[i] \notin steered
            /\ turn[r[i]] \in {"queued", "spawned", "active"}
            /\ i > 1 => turn[r[i]] = "queued"
            /\ \A j \in DOMAIN r : r[i] = r[j] => i = j
      /\ \A n \in Msgs \ {m} : LaneOf[n] = k /\ turn[n] = "queued" =>
            \E i \in DOMAIN r : r[i] = n
      /\ \A n \in InFlight(k) \ {m} : n \notin steered => r # <<>> /\ n = Head(r)
  BY <1>0, RestFacts
<1> HIDE DEF r
<1>3. TypeOK'
  <2>1. "done" \in Stages /\ inFlight[k] - 1 \in Nat
    BY <1>0 DEF Stages, TypeOK
  <2>2. QED
    BY <2>1, <1>0, <1>1, <1>2 DEF TypeOK
<1>4. SlotAccounting' /\ NoLostWakeup'
  <2>1. \A j \in Lanes \ {k} : queue'[j] = queue[j]
    BY <1>0, <1>1 DEF TypeOK
  <2>2. QED
    BY <2>1, <1>0, <1>1 DEF BooksSound, SlotAccounting, NoLostWakeup, TypeOK
<1>5. turn'[m] = "done" /\ \A n \in Msgs \ {m} : turn'[n] = turn[n]
  BY <1>0, <1>1 DEF TypeOK
<1>6. \A n \in Msgs : turn[n] = "done" => turn'[n] = "done"
  BY <1>5
<1>7. queue'[k] = r /\ inFlight'[k] = inFlight[k] - 1 /\ inFlight[k] \in Nat
  BY <1>0, <1>1 DEF TypeOK
<1>8. LaneBooks(k)'
  <2>1. QueueSound(k)'
    BY <1>0, <1>1, <1>2, <1>5, <1>7 DEF QueueSound
  <2>2. LaneSound(k)'
    <3>1. m \in InFlight(k) /\ InFlight(k)' = InFlight(k) \ {m}
      BY <1>0, <1>5 DEF InFlight
    <3>2. IsFiniteSet(InFlight(k)') /\ Cardinality(InFlight(k)') = Cardinality(InFlight(k)) - 1
      BY <3>1, <1>0, FS_RemoveElement DEF LaneBooks, LaneSound
    <3>3. Cardinality(InFlight(k)') = inFlight'[k] /\ Cardinality(InFlight(k)') # 0
      BY <3>2, <1>0, <1>7 DEF LaneBooks, LaneSound
    <3>4. InFlight(k)' # {}
      BY <3>3, FS_EmptySet
    <3>5. QED
      BY <3>2, <3>3, <3>4, <1>0, <1>1 DEF LaneBooks, LaneSound
  <2>3. \A n \in Msgs : LaneOf[n] = k => TurnSound(n)'
    <3> SUFFICES ASSUME NEW n \in Msgs, LaneOf[n] = k PROVE TurnSound(n)'
      OBVIOUS
    <3>1. CASE n = m
      BY <3>1, <1>0, <1>1, <1>5 DEF TurnSound, Started
    <3>2. CASE n # m
      <4>1. n \in InFlight(k) <=> turn[n] \in {"spawned", "active"}
        BY DEF InFlight
      <4>2. QED
        BY <3>2, <4>1, <1>0, <1>1, <1>2, <1>5, <1>7 DEF TurnSound
    <3>3. QED
      BY <3>1, <3>2
  <2>4. k \in Steerable
    BY <1>0 DEF LaneBooks, LaneSound
  <2>5. QED
    BY <2>1, <2>2, <2>3, <2>4 DEF LaneBooks
<1>9. ASSUME NEW j \in Lanes, j # k
      PROVE  LaneBooks(j)'
  <2>1. Untouched(j)
    BY <1>0, <1>1, <1>5, <1>9 DEF Untouched, TypeOK
  <2>2. QED
    BY <2>1, <1>0, <1>6, LaneFrame DEF BooksSound
<1>10. StageOrder
  BY <1>0, <1>5 DEF StageOrder
<1>11. QED
  BY <1>10, <1>3, <1>4, <1>8, <1>9 DEF IndInv, BooksSound

(* The turn that ends alone in its lane is the only one in flight there.   *)
LEMMA AloneInFlight ==
    ASSUME IndInv, NEW m \in Msgs, turn[m] = "active", NEW k \in Lanes, k = LaneOf[m],
           k \in steering => inFlight[k] = 1
    PROVE  InFlight(k) = {m} /\ inFlight[k] = 1
<1>1. /\ LaneSound(k) /\ m \in InFlight(k)
      /\ \A n \in Msgs : LaneOf[n] = k => TurnSound(n)
  BY DEF IndInv, BooksSound, LaneBooks, InFlight
<1>2. CASE k \in steering
  <2>1. IsFiniteSet(InFlight(k)) /\ Cardinality(InFlight(k)) = 1
    BY <1>1, <1>2 DEF LaneSound
  <2>2. PICK x : InFlight(k) = {x}
    BY <2>1, FS_Singleton
  <2>3. QED
    BY <2>2, <1>1, <1>2
<1>3. CASE k \notin steering
  <2>1. InFlight(k) = {m}
    BY <1>1, <1>3 DEF InFlight, TurnSound
  <2>2. QED
    BY <2>1, <1>1, FS_Singleton DEF LaneSound
<1>4. QED
  BY <1>2, <1>3

LEMMA FinishChainStep == ASSUME IndInv, NEW m \in Msgs, FinishChain(m) PROVE IndInv' /\ StageOrder
<1> DEFINE k == LaneOf[m]
           r == Rest(m, k)
           h == Head(r)
<1>0. /\ TypeOK /\ BooksSound /\ k \in Lanes /\ turn[m] = "active" /\ LaneBooks(k)
      /\ k \in steering => inFlight[k] = 1
      /\ r # <<>> /\ k \in running /\ k \in live
      /\ \A n \in Msgs : LaneOf[n] = k => TurnSound(n)
  BY FinishingTurn DEF IndInv, FinishChain, Ends, TypeOK, BooksSound, LaneBooks
<1>1. /\ turn' = [turn EXCEPT ![m] = "done", ![h] = "spawned"]
      /\ cancels' = cancels \ {m} /\ queue' = [queue EXCEPT ![k] = r]
      /\ UNCHANGED <<live, running, steering, inFlight, readyLanes, runningLanes,
                     steered, maxWorkers, flag, cancelling, cancelled, log>>
  BY DEF FinishChain, Ends
<1>2. /\ r \in Seq(Msgs) /\ DOMAIN r = 1..Len(r) /\ Len(r) \in Nat
      /\ h = r[1] /\ 1 \in DOMAIN r
      /\ \A i \in DOMAIN r :
            /\ r[i] \in Msgs /\ r[i] # m /\ LaneOf[r[i]] = k /\ r[i] \notin steered
            /\ turn[r[i]] \in {"queued", "spawned", "active"}
            /\ i > 1 => turn[r[i]] = "queued"
            /\ \A j \in DOMAIN r : r[i] = r[j] => i = j
      /\ \A n \in Msgs \ {m} : LaneOf[n] = k /\ turn[n] = "queued" =>
            \E i \in DOMAIN r : r[i] = n
  BY <1>0, RestFacts
<1>3. InFlight(k) = {m} /\ inFlight[k] = 1
  BY <1>0, AloneInFlight
<1>4. k \notin Steerable => m \notin steered /\ queue[k] # <<>> /\ queue[k][1] = m /\ r = Tail(queue[k])
  BY <1>0, FinishingTurn DEF LaneBooks, LaneSound
<1> HIDE DEF r, h
<1>5. h \in Msgs /\ h # m /\ LaneOf[h] = k /\ h \notin steered /\ turn[h] = "queued"
  BY <1>2, <1>3 DEF InFlight
<1>6. TypeOK'
  <2>1. "done" \in Stages /\ "spawned" \in Stages
    BY DEF Stages
  <2>2. QED
    BY <2>1, <1>0, <1>1, <1>2, <1>5 DEF TypeOK
<1>7. SlotAccounting' /\ NoLostWakeup'
  <2>1. \A j \in Lanes \ {k} : queue'[j] = queue[j]
    BY <1>0, <1>1 DEF TypeOK
  <2>2. QED
    BY <2>1, <1>0, <1>1 DEF BooksSound, SlotAccounting, NoLostWakeup, TypeOK
<1>8. /\ turn'[m] = "done" /\ turn'[h] = "spawned"
      /\ \A n \in Msgs \ {m, h} : turn'[n] = turn[n]
  BY <1>0, <1>1, <1>5 DEF TypeOK
<1>9. \A n \in Msgs : turn[n] = "done" => turn'[n] = "done"
  BY <1>8, <1>5
<1>10. queue'[k] = r /\ inFlight'[k] = 1
  BY <1>0, <1>1, <1>3 DEF TypeOK
<1>11. LaneBooks(k)'
  <2>1. QueueSound(k)'
    <3>1. \A i \in DOMAIN r : i > 1 => r[i] # h
      BY <1>2
    <3>2. \A i \in DOMAIN r : turn'[r[i]] \in {"queued", "spawned", "active"}
                             /\ (i > 1 => turn'[r[i]] = "queued")
      BY <3>1, <1>2, <1>8
    <3>3. DOMAIN queue'[k] = DOMAIN r /\ k \in live' /\ steered' = steered
      BY <1>0, <1>1, <1>10
    <3>4. QED
      BY <3>2, <3>3, <1>2, <1>10, ZenonT(30) DEF QueueSound
  <2>2. LaneSound(k)'
    <3>1. InFlight(k)' = {h}
      BY <1>3, <1>5, <1>8 DEF InFlight
    <3>2. IsFiniteSet({h}) /\ Cardinality({h}) = 1 /\ {h} # {}
      BY FS_Singleton
    <3>3. QED
      BY <3>1, <3>2, <1>0, <1>1, <1>10 DEF LaneBooks, LaneSound
  <2>3. \A n \in Msgs : LaneOf[n] = k => TurnSound(n)'
    <3> SUFFICES ASSUME NEW n \in Msgs, LaneOf[n] = k PROVE TurnSound(n)'
      OBVIOUS
    <3>1. CASE n = m
      BY <3>1, <1>0, <1>1, <1>8 DEF TurnSound, Started
    <3>2. CASE n = h
      <4>1. n = Head(queue'[k]) /\ queue'[k] # <<>>
        BY <3>2, <1>0, <1>10 DEF h
      <4>2. h \notin cancels'
        BY <1>0, <1>1, <1>5 DEF TurnSound
      <4>3. QED
        BY <3>2, <4>1, <4>2, <1>0, <1>1, <1>5, <1>8 DEF TurnSound, Started
    <3>3. CASE n \notin {m, h}
      <4>1. turn'[n] = turn[n] /\ turn[n] \notin {"spawned", "active"}
        BY <3>3, <1>3, <1>8 DEF InFlight
      <4>2. QED
        BY <3>3, <4>1, <1>0, <1>1, <1>2, <1>10 DEF TurnSound
    <3>4. QED
      BY <3>1, <3>2, <3>3
  <2>4. k \notin Steerable => FifoSound(k)'
    BY <1>0, <1>1, <1>4, <1>8, <1>9, <1>10, FifoPop DEF LaneBooks
  <2>5. QED
    BY <2>1, <2>2, <2>3, <2>4 DEF LaneBooks
<1>12. ASSUME NEW j \in Lanes, j # k
      PROVE  LaneBooks(j)'
  <2>1. Untouched(j)
    BY <1>0, <1>1, <1>5, <1>8, <1>12 DEF Untouched, TypeOK
  <2>2. QED
    BY <2>1, <1>0, <1>9, LaneFrame DEF BooksSound
<1>13. StageOrder
  BY <1>0, <1>5, <1>8 DEF StageOrder
<1>14. QED
  BY <1>13, <1>6, <1>7, <1>11, <1>12 DEF IndInv, BooksSound

(* A lane scheduleLocked wakes: its head message was queued and starts.    *)
LEMMA WokenLane ==
    ASSUME IndInv, NEW j \in Lanes, j \in live \ running,
           NEW h \in Msgs, h = queue[j][1],
           queue[j] # <<>>, turn[h] = "queued", LaneOf[h] = j,
           queue'[j] = queue[j], log'[j] = log[j], inFlight'[j] = 1,
           j \in live', j \in running', j \in steering' <=> j \in steering,
           turn'[h] = "spawned", steered' = steered,
           \A n \in Msgs \ {h} : LaneOf[n] = j => turn'[n] = turn[n],
           \A n \in Msgs : LaneOf[n] = j => (n \in cancels' <=> n \in cancels),
           \A n \in Msgs : turn[n] = "done" => turn'[n] = "done"
    PROVE  LaneBooks(j)'
<1>1. /\ TypeOK /\ LaneBooks(j) /\ QueueSound(j) /\ LaneSound(j)
      /\ queue[j] \in Seq(Msgs) /\ h = Head(queue[j])
      /\ DOMAIN queue[j] = 1..Len(queue[j]) /\ Len(queue[j]) \in Nat \ {0}
      /\ \A n \in Msgs : LaneOf[n] = j => TurnSound(n)
  BY TailFacts DEF IndInv, BooksSound, LaneBooks, TypeOK
<1>2. \A n \in Msgs : LaneOf[n] = j => turn[n] \notin {"spawned", "active"}
  BY <1>1 DEF TurnSound
<1>3. h \notin steered /\ h \notin cancels'
  BY <1>1 DEF TurnSound, Started
<1>4. QueueSound(j)'
  <2>1. \A i \in DOMAIN queue[j] : queue[j][i] \in Msgs /\ LaneOf[queue[j][i]] = j
    BY <1>1, QueueMembers
  <2>2. \A i \in DOMAIN queue[j] : i > 1 => queue[j][i] # h
    BY <1>1 DEF QueueSound
  <2>3. \A i \in DOMAIN queue[j] : turn'[queue[j][i]] \in {"queued", "spawned", "active"}
                                  /\ (i > 1 => turn'[queue[j][i]] = "queued")
    BY <2>1, <2>2, <1>1 DEF QueueSound
  <2>4. QED
    BY <2>1, <2>3, <1>1 DEF QueueSound
<1>5. LaneSound(j)'
  <2>1. InFlight(j)' = {h}
    BY <1>2 DEF InFlight
  <2>2. IsFiniteSet({h}) /\ Cardinality({h}) = 1 /\ {h} # {}
    BY FS_Singleton
  <2>3. QED
    BY <2>1, <2>2, <1>1 DEF LaneSound
<1>6. \A n \in Msgs : LaneOf[n] = j => TurnSound(n)'
  <2> SUFFICES ASSUME NEW n \in Msgs, LaneOf[n] = j PROVE TurnSound(n)'
    OBVIOUS
  <2>1. CASE n = h
    BY <2>1, <1>1, <1>3 DEF TurnSound, Started
  <2>2. CASE n # h
    BY <2>2, <1>1, <1>2 DEF TurnSound
  <2>3. QED
    BY <2>1, <2>2
<1>7. j \notin Steerable => FifoSound(j)'
  BY <1>1, FifoFrame DEF LaneBooks
<1>8. QED
  BY <1>4, <1>5, <1>6, <1>7 DEF LaneBooks

LEMMA FinishFreeStep == ASSUME IndInv, NEW m \in Msgs, FinishFree(m) PROVE IndInv' /\ StageOrder
<1> DEFINE k == LaneOf[m]
           r == Rest(m, k)
           slots == runningLanes - 1
           free == IF maxWorkers > slots THEN maxWorkers - slots ELSE 0
           woken == Promoted(free)
           p == Cardinality(Popped(free))
<1>0. /\ TypeOK /\ BooksSound /\ SlotAccounting /\ NoLostWakeup /\ k \in Lanes
      /\ turn[m] = "active" /\ LaneBooks(k)
      /\ k \in steering => inFlight[k] = 1
      /\ r = <<>> /\ k \in running /\ k \in live
      /\ runningLanes \in Nat \ {0} /\ maxWorkers \in Nat
      /\ \A j \in Lanes : LaneBooks(j)
      /\ \A n \in Msgs : TurnSound(n)
  BY FinishingTurn DEF IndInv, FinishFree, Ends, TypeOK, BooksSound, LaneBooks
<1>1. slots \in Nat /\ free \in Nat
  BY <1>0
<1>2. /\ live' = live \ {k} /\ steering' = steering \ {k}
      /\ queue' = [queue EXCEPT ![k] = <<>>]
      /\ readyLanes' = SubSeq(readyLanes, p + 1, Len(readyLanes))
      /\ running' = (running \ {k}) \cup woken
      /\ runningLanes' = slots + Cardinality(woken)
      /\ inFlight' = [j \in Lanes |-> IF j \in woken THEN 1
                                      ELSE IF j = k THEN 0 ELSE inFlight[j]]
      /\ turn' = [n \in Msgs |-> IF n = m THEN "done"
                                 ELSE IF \E j \in woken : n = Head(queue[j])
                                      THEN "spawned" ELSE turn[n]]
      /\ cancels' = cancels \ {m}
      /\ UNCHANGED <<maxWorkers, flag, steered, cancelling, cancelled, log>>
  BY DEF FinishFree, Ends
<1>3. /\ p \in 0..Len(readyLanes)
      /\ woken = {readyLanes[i] : i \in 1..p}
      /\ IsFiniteSet(woken) /\ Cardinality(woken) = p
  BY <1>0, <1>1, PopReady
<1> HIDE DEF r, free, woken, p
<1>4. InFlight(k) = {m}
  BY <1>0, AloneInFlight
<1>5. DOMAIN readyLanes = 1..Len(readyLanes) /\ Len(readyLanes) \in Nat
      /\ \A i \in DOMAIN readyLanes : readyLanes[i] \in Lanes
  BY <1>0 DEF TypeOK
<1>6. \A i \in 1..p : i \in DOMAIN readyLanes
  BY <1>3, <1>5
<1>7. woken \subseteq live \ running /\ woken \subseteq Lanes /\ k \notin woken
  BY <1>0, <1>3, <1>5, <1>6 DEF NoLostWakeup
<1>8. ASSUME NEW j \in woken
      PROVE  /\ queue[j] # <<>> /\ Head(queue[j]) = queue[j][1]
             /\ queue[j][1] \in Msgs /\ LaneOf[queue[j][1]] = j
             /\ turn[queue[j][1]] = "queued"
  <2>1. queue[j] # <<>> /\ queue[j] \in Seq(Msgs) /\ QueueSound(j)
    BY <1>0, <1>7 DEF NoLostWakeup, TypeOK, LaneBooks
  <2>2. 1 \in DOMAIN queue[j] /\ Head(queue[j]) = queue[j][1] /\ queue[j][1] \in Msgs
    BY <2>1, TailFacts
  <2>3. turn[queue[j][1]] \notin {"spawned", "active"}
    BY <2>1, <2>2, <1>0, <1>7 DEF QueueSound, TurnSound
  <2>4. QED
    BY <2>1, <2>2, <2>3 DEF QueueSound
<1>9. /\ turn'[m] = "done"
      /\ \A j \in woken : turn'[queue[j][1]] = "spawned"
      /\ \A n \in Msgs \ {m} : LaneOf[n] \notin woken => turn'[n] = turn[n]
      /\ \A n \in Msgs : LaneOf[n] \in woken /\ n # queue[LaneOf[n]][1] => turn'[n] = turn[n]
  <2>1. \A j \in woken : queue[j][1] # m
    BY <1>0, <1>8
  <2>2. \A n \in Msgs \ {m} : LaneOf[n] \notin woken => turn'[n] = turn[n]
    BY <1>2, <1>8
  <2>3. \A n \in Msgs : LaneOf[n] \in woken /\ n # queue[LaneOf[n]][1] => turn'[n] = turn[n]
    BY <1>2, <1>7, <1>8
  <2>4. \A j \in woken : turn'[queue[j][1]] = "spawned"
    BY <1>2, <1>8, <2>1
  <2>5. QED
    BY <1>2, <2>2, <2>3, <2>4
<1>10. \A n \in Msgs : turn[n] = "done" => turn'[n] = "done"
  BY <1>8, <1>9
<1>11. TypeOK'
  <2>1. "done" \in Stages /\ "spawned" \in Stages /\ <<>> \in Seq(Msgs)
    BY DEF Stages
  <2>2. readyLanes' \in Seq(Lanes)
    <3>1. readyLanes \in Seq(Lanes)
      BY <1>0 DEF TypeOK
    <3>2. \A i \in (p + 1)..Len(readyLanes) : readyLanes[i] \in Lanes
      BY <1>3, <1>5
    <3>3. QED
      BY <3>1, <3>2, <1>2, <1>3, <1>5, SubSeqProperties
  <2>3. turn' \in [Msgs -> Stages] /\ inFlight' \in [Lanes -> Nat]
    BY <2>1, <1>0, <1>2 DEF TypeOK
  <2>4. runningLanes' \in Nat
    BY <1>1, <1>2, <1>3
  <2>5. live' \subseteq Lanes /\ running' \subseteq Lanes /\ steering' \subseteq Lanes
        /\ cancels' \subseteq Msgs /\ queue' \in [Lanes -> Seq(Msgs)]
    BY <2>1, <1>0, <1>2, <1>7 DEF TypeOK
  <2>6. QED
    BY <2>2, <2>3, <2>4, <2>5, <1>0, <1>2 DEF TypeOK
<1>12. SlotAccounting'
  <2>1. IsFiniteSet(running)
    BY <1>0, FS_Subset DEF TypeOK
  <2>2. IsFiniteSet(running \ {k}) /\ Cardinality(running \ {k}) = Cardinality(running) - 1
    BY <2>1, <1>0, FS_RemoveElement
  <2>3. Cardinality((running \ {k}) \cap woken) = 0
    <3>1. (running \ {k}) \cap woken = {}
      BY <1>7
    <3>2. QED
      BY <3>1, FS_EmptySet
  <2>4. Cardinality(running') = Cardinality(running \ {k}) + Cardinality(woken) - 0
    BY <2>2, <2>3, <1>2, <1>3, FS_Union
  <2>5. Cardinality(running') = runningLanes'
    BY <2>2, <2>4, <1>0, <1>1, <1>2, <1>3 DEF SlotAccounting
  <2>6. running' \subseteq live'
    BY <1>0, <1>2, <1>7 DEF SlotAccounting
  <2>7. QED
    BY <2>5, <2>6 DEF SlotAccounting
<1>13. NoLostWakeup'
  <2>1. /\ Len(readyLanes') = Len(readyLanes) - p
        /\ DOMAIN readyLanes' = 1..(Len(readyLanes) - p)
        /\ \A i \in 1..(Len(readyLanes) - p) : readyLanes'[i] = readyLanes[p + i]
    <3>1. \A i \in (p + 1)..Len(readyLanes) : readyLanes[i] \in Lanes
      BY <1>3, <1>5
    <3>2. p + 1 \in Int /\ Len(readyLanes) \in Int
      BY <1>3, <1>5
    <3>3. /\ readyLanes' \in Seq(Lanes)
          /\ Len(readyLanes') = IF p + 1 <= Len(readyLanes) THEN Len(readyLanes) - (p + 1) + 1 ELSE 0
          /\ \A i \in 1..(Len(readyLanes) - (p + 1) + 1) :
                readyLanes'[i] = readyLanes[(p + 1) + i - 1]
      BY <3>1, <3>2, <1>2, SubSeqProperties
    <3>4. Len(readyLanes') = Len(readyLanes) - p
      <4>1. p \in Nat /\ Len(readyLanes) \in Nat /\ p <= Len(readyLanes)
        BY <1>3, <1>5
      <4>2. CASE p + 1 <= Len(readyLanes)
        BY <4>1, <4>2, <3>3
      <4>3. CASE ~(p + 1 <= Len(readyLanes))
        <5>1. Len(readyLanes) - p = 0
          BY <4>1, <4>3
        <5>2. QED
          BY <5>1, <4>3, <3>3
      <4>4. QED
        BY <4>2, <4>3
    <3>5. DOMAIN readyLanes' = 1..Len(readyLanes')
      BY <3>3
    <3>6. \A i \in 1..(Len(readyLanes) - p) : (p + 1) + i - 1 = p + i
      BY <1>3, <1>5
    <3>7. Len(readyLanes) - (p + 1) + 1 = Len(readyLanes) - p
      BY <1>3, <1>5
    <3>8. QED
      BY <3>3, <3>4, <3>5, <3>6, <3>7
  <2>2. \A i \in DOMAIN readyLanes' : p + i \in DOMAIN readyLanes /\ p + i \notin 1..p
    BY <2>1, <1>3, <1>5
  <2>3. live' \ running' = (live \ running) \ woken
    BY <1>0, <1>2
  <2>4. ASSUME NEW j \in live' \ running'
        PROVE  queue'[j] # <<>> /\ \E i \in DOMAIN readyLanes' : readyLanes'[i] = j
    <3>1. PICK i \in DOMAIN readyLanes : readyLanes[i] = j
      BY <2>3, <1>0 DEF NoLostWakeup
    <3>2. i \notin 1..p
      BY <3>1, <2>3, <1>3
    <3>3. i - p \in DOMAIN readyLanes' /\ readyLanes'[i - p] = j
      BY <3>1, <3>2, <2>1, <1>3, <1>5
    <3>4. queue'[j] = queue[j] /\ queue[j] # <<>>
      BY <2>3, <1>0, <1>2 DEF NoLostWakeup, TypeOK
    <3>5. QED
      BY <3>3, <3>4
  <2>5. \A i \in DOMAIN readyLanes' : readyLanes'[i] \in live' \ running'
    <3> SUFFICES ASSUME NEW i \in DOMAIN readyLanes'
                 PROVE  readyLanes'[i] \in (live \ running) \ woken
      BY <2>3
    <3>1. p + i \in DOMAIN readyLanes /\ p + i \notin 1..p /\ readyLanes'[i] = readyLanes[p + i]
      BY <2>1, <2>2
    <3>2. \A x \in 1..p : readyLanes[x] # readyLanes[p + i]
      BY <3>1, <1>0, <1>6 DEF NoLostWakeup
    <3>3. QED
      BY <3>1, <3>2, <1>0, <1>3 DEF NoLostWakeup
  <2>6. \A i, j \in DOMAIN readyLanes' : readyLanes'[i] = readyLanes'[j] => i = j
    <3> SUFFICES ASSUME NEW i \in DOMAIN readyLanes', NEW j \in DOMAIN readyLanes',
                        readyLanes'[i] = readyLanes'[j]
                 PROVE  i = j
      OBVIOUS
    <3>1. p + i = p + j
      BY <2>1, <2>2, <1>0 DEF NoLostWakeup
    <3>2. QED
      BY <3>1, <2>1, <1>3, <1>5
  <2>7. QED
    BY <2>4, <2>5, <2>6 DEF NoLostWakeup
<1>14. LaneBooks(k)'
  <2>1. queue'[k] = <<>> /\ inFlight'[k] = 0 /\ k \notin live' /\ k \notin running'
        /\ k \notin steering'
    BY <1>0, <1>2, <1>7 DEF TypeOK
  <2>2. \A n \in Msgs : LaneOf[n] = k => turn'[n] \in {"new", "done"}
    <3> SUFFICES ASSUME NEW n \in Msgs, LaneOf[n] = k, n # m
                 PROVE  turn[n] \in {"new", "done"}
      BY <1>7, <1>9
    <3>1. DOMAIN r = {}
      BY <1>0
    <3>2. turn[n] # "queued"
      BY <3>1, <1>0, RestFacts DEF r
    <3>3. turn[n] \notin {"spawned", "active"}
      BY <1>4 DEF InFlight
    <3>4. QED
      BY <3>2, <3>3, <1>0 DEF TypeOK, Stages
  <2>3. QueueSound(k)'
    BY <2>1 DEF QueueSound
  <2>4. LaneSound(k)'
    <3>1. InFlight(k)' = {}
      BY <2>2 DEF InFlight
    <3>2. QED
      BY <3>1, <2>1, FS_EmptySet DEF LaneSound
  <2>5. \A n \in Msgs : LaneOf[n] = k => TurnSound(n)'
    <3> SUFFICES ASSUME NEW n \in Msgs, LaneOf[n] = k PROVE TurnSound(n)'
      OBVIOUS
    <3>1. n \in steered => turn'[n] \in Started
      <4>1. n = m \/ turn'[n] = turn[n]
        BY <1>7, <1>9
      <4>2. QED
        BY <4>1, <1>0, <1>9, <2>2 DEF TurnSound, Started
    <3>2. n \notin cancels'
      BY <1>0, <1>2, <1>4 DEF TurnSound, InFlight
    <3>3. QED
      BY <3>1, <3>2, <2>2, <1>2 DEF TurnSound
  <2>6. k \notin Steerable => FifoSound(k)'
    <3>1. CASE k \notin Steerable
      <4>1. queue[k] # <<>> /\ queue[k][1] = m /\ r = Tail(queue[k])
        BY <3>1, <1>0, FinishingTurn DEF LaneBooks, LaneSound, r
      <4>2. QED
        <5>1. FifoSound(k) /\ queue'[k] = Tail(queue[k]) /\ log'[k] = log[k]
              /\ turn'[queue[k][1]] = "done"
          BY <4>1, <3>1, <2>1, <1>0, <1>2, <1>9 DEF LaneBooks
        <5>2. QED
          BY <5>1, <4>1, <1>0, <1>10, FifoPop
    <3>2. QED
      BY <3>1
  <2>7. QED
    BY <2>3, <2>4, <2>5, <2>6 DEF LaneBooks
<1>15. ASSUME NEW j \in woken
       PROVE  LaneBooks(j)'
  <2>1. /\ j \in Lanes /\ j \in live \ running /\ j # k
        /\ queue'[j] = queue[j] /\ log'[j] = log[j] /\ inFlight'[j] = 1
        /\ j \in live' /\ j \in running' /\ (j \in steering' <=> j \in steering)
    BY <1>0, <1>2, <1>7 DEF TypeOK
  <2>2. \A n \in Msgs : LaneOf[n] = j => (n \in cancels' <=> n \in cancels)
    BY <2>1, <1>2
  <2>3. \A n \in Msgs \ {queue[j][1]} : LaneOf[n] = j => turn'[n] = turn[n]
    BY <1>9
  <2>4. QED
    BY <2>1, <2>2, <2>3, <1>2, <1>8, <1>9, <1>10, WokenLane
<1>16. ASSUME NEW j \in Lanes, j # k, j \notin woken
       PROVE  LaneBooks(j)'
  <2>1. Untouched(j)
    BY <1>0, <1>2, <1>9, <1>16 DEF Untouched, TypeOK
  <2>2. QED
    BY <2>1, <1>0, <1>10, LaneFrame
<1>17. \A j \in Lanes : LaneBooks(j)'
  BY <1>14, <1>15, <1>16
<1>18. StageOrder
  BY <1>0, <1>8, <1>9 DEF StageOrder
<1>19. QED
  BY <1>18, <1>11, <1>12, <1>13, <1>17 DEF IndInv, BooksSound

-----------------------------------------------------------------------------
(* !cancel, a reload and !interactive leave the lanes and turns alone.     *)
LEMMA BooksFrame ==
    ASSUME BooksSound, UNCHANGED <<laneVars, turn, steered, cancels, log>>
    PROVE  BooksSound' /\ StageOrder
<1>1. UNCHANGED <<live, queue, running, steering, inFlight, readyLanes, runningLanes,
                  turn, steered, cancels, log>>
  BY DEF laneVars
<1>2. StageOrder
  BY <1>1 DEF StageOrder
<1>3. SlotAccounting' /\ NoLostWakeup'
  BY <1>1 DEF BooksSound, SlotAccounting, NoLostWakeup
<1>4. ASSUME NEW k \in Lanes
      PROVE  LaneBooks(k)'
  <2>1. LaneBooks(k)
    BY DEF BooksSound
  <2>2. FifoSound(k)' = FifoSound(k)
    BY <1>1 DEF FifoSound, SuffixAfter
  <2>3. QED
    BY <2>1, <2>2, <1>1 DEF LaneBooks, QueueSound, LaneSound, InFlight, TurnSound
<1>5. QED
  BY <1>2, <1>3, <1>4 DEF BooksSound

LEMMA InitInv == Init => IndInv
<1> SUFFICES ASSUME Init PROVE IndInv
  OBVIOUS
<1>1. TypeOK
  BY InitType
<1>2. SlotAccounting /\ NoLostWakeup
  BY FS_EmptySet DEF Init, SlotAccounting, NoLostWakeup
<1>3. ASSUME NEW k \in Lanes
      PROVE  LaneBooks(k)
  <2>1. QueueSound(k) /\ \A m \in Msgs : TurnSound(m)
    BY DEF Init, QueueSound, TurnSound
  <2>2. LaneSound(k)
    <3>1. InFlight(k) = {}
      BY DEF Init, InFlight
    <3>2. QED
      BY <3>1, FS_EmptySet DEF Init, LaneSound
  <2>3. FifoSound(k)
    <3>1. log[k] = <<>> /\ queue[k] = <<>> /\ Len(<<>>) = 0
      BY DEF Init
    <3>2. 0 \in 0..Len(log[k]) /\ SuffixAfter(queue[k], log[k], 0)
      BY <3>1 DEF SuffixAfter
    <3>3. QED
      BY <3>2 DEF FifoSound
  <2>4. QED
    BY <2>1, <2>2, <2>3 DEF LaneBooks
<1>4. QED
  BY <1>1, <1>2, <1>3 DEF IndInv, BooksSound

(* Every step keeps the invariant and no message goes back a stage.        *)
LEMMA NextInv ==
    ASSUME IndInv, [Next]_vars
    PROVE  IndInv' /\ StageOrder
<1>1. ASSUME NEW m \in Msgs, Dispatch(m)
      PROVE  IndInv' /\ StageOrder
  BY <1>1, SteerStep, EnqueueStep, StartNowStep, WaitForSlotStep DEF Dispatch
<1>2. ASSUME NEW m \in Msgs, Register(m)
      PROVE  IndInv' /\ StageOrder
  BY <1>2, RegisterStep
<1>3. ASSUME NEW m \in Msgs, Finish(m)
      PROVE  IndInv' /\ StageOrder
  BY <1>3, FinishSteeredStep, FinishChainStep, FinishFreeStep DEF Finish
<1>4. ASSUME NEW m \in Msgs, CancelCall(m)
      PROVE  IndInv' /\ StageOrder
  <2>1. BooksSound' /\ StageOrder
    BY <1>4, BooksFrame DEF IndInv, CancelCall
  <2>2. TypeOK'
    BY <1>4 DEF IndInv, TypeOK, CancelCall, laneVars
  <2>3. QED
    BY <2>1, <2>2 DEF IndInv
<1>5. ASSUME NEW k \in Lanes, CancelCollect(k)
      PROVE  IndInv' /\ StageOrder
  <2>1. BooksSound' /\ StageOrder
    BY <1>5, BooksFrame DEF IndInv, CancelCollect
  <2>2. TypeOK'
    BY <1>5 DEF IndInv, TypeOK, CancelCollect, laneVars
  <2>3. QED
    BY <2>1, <2>2 DEF IndInv
<1>6. ASSUME NEW k \in Steerable, SetInteractive(k)
      PROVE  IndInv' /\ StageOrder
  <2>1. BooksSound' /\ StageOrder
    BY <1>6, BooksFrame DEF IndInv, SetInteractive, cancelVars
  <2>2. TypeOK'
    BY <1>6 DEF IndInv, TypeOK, SetInteractive, laneVars, cancelVars
  <2>3. QED
    BY <2>1, <2>2 DEF IndInv
<1>7. CASE Reload
  <2>1. BooksSound' /\ StageOrder
    BY <1>7, BooksFrame DEF IndInv, Reload, cancelVars
  <2>2. TypeOK'
    BY <1>7 DEF IndInv, TypeOK, Reload, laneVars, cancelVars
  <2>3. QED
    BY <2>1, <2>2 DEF IndInv
<1>8. CASE UNCHANGED vars
  <2>1. BooksSound' /\ StageOrder
    BY <1>8, BooksFrame DEF IndInv, vars, cancelVars
  <2>2. TypeOK'
    BY <1>8 DEF IndInv, TypeOK, vars, laneVars, cancelVars
  <2>3. QED
    BY <2>1, <2>2 DEF IndInv
<1>9. QED
  BY <1>1, <1>2, <1>3, <1>4, <1>5, <1>6, <1>7, <1>8 DEF Next

-----------------------------------------------------------------------------
(* The inductive invariant holds: queues, slots, ready entries, in-flight  *)
(* counters and cancel registrations agree at every step of every run.     *)
THEOREM Invariance == Spec => []IndInv
<1>1. Init => IndInv
  BY InitInv
<1>2. IndInv /\ [Next]_vars => IndInv'
  BY NextInv
<1>3. QED
  BY <1>1, <1>2, PTL DEF Spec

(* Bot's variables keep their types, however requests, finishing turns,    *)
(* cancels and reloads interleave.                                         *)
THEOREM Typing == Spec => []TypeOK
<1>1. IndInv => TypeOK
  BY DEF IndInv
<1>2. QED
  BY <1>1, Invariance, PTL

(* The slot counter is the number of running lanes, the ready list holds   *)
(* exactly the lanes that wait, once, and each lane's queue, counter and   *)
(* cancel entries describe the turns it really has.                        *)
THEOREM Books == Spec => []BooksSound
<1>1. IndInv => BooksSound
  BY DEF IndInv
<1>2. QED
  BY <1>1, Invariance, PTL

(* finishTurn and scheduleLocked lose no wakeup: a conversation with a     *)
(* backlog is running or in readyLanes.                                    *)
THEOREM Wakeups == Spec => []NoLostWakeup
<1>1. IndInv => NoLostWakeup
  BY DEF IndInv, BooksSound
<1>2. QED
  BY <1>1, Invariance, PTL

(* A slot given back is counted once: runningLanes never drifts.           *)
THEOREM SlotBooks == Spec => []SlotAccounting
<1>1. IndInv => SlotAccounting
  BY DEF IndInv, BooksSound
<1>2. QED
  BY <1>1, Invariance, PTL

(* finishTurn never drops a lane that has a turn or a backlog left.        *)
THEOREM Kept == Spec => []NothingDropped
<1>1. ASSUME IndInv
      PROVE  NothingDropped
  <2> SUFFICES ASSUME NEW m \in Msgs, LaneOf[m] \notin live
               PROVE  turn[m] \in {"new", "done"}
    BY DEF NothingDropped
  <2>1. TypeOK /\ SlotAccounting /\ LaneOf[m] \in Lanes
    BY <1>1 DEF IndInv, BooksSound, TypeOK
  <2>2. TurnSound(m) /\ QueueSound(LaneOf[m])
    BY <1>1, <2>1 DEF IndInv, BooksSound, LaneBooks
  <2>3. turn[m] # "queued"
    <3>1. DOMAIN queue[LaneOf[m]] = {}
      BY <2>2 DEF QueueSound
    <3>2. QED
      BY <3>1, <2>2 DEF TurnSound
  <2>4. turn[m] \notin {"spawned", "active"}
    BY <2>1, <2>2 DEF TurnSound, SlotAccounting
  <2>5. QED
    BY <2>1, <2>3, <2>4 DEF TypeOK, Stages
<1>2. QED
  BY <1>1, Invariance, PTL

(* In a conversation that is never interactive a turn starts only once     *)
(* every earlier message is answered, whatever the other lanes do.         *)
THEOREM Order == Spec => []InOrder
<1>1. ASSUME IndInv
      PROVE  InOrder
  <2> SUFFICES ASSUME NEW k \in Lanes \ Steerable,
                      NEW i \in DOMAIN log[k], NEW j \in DOMAIN log[k],
                      i < j, turn[log[k][j]] \in Started
               PROVE  turn[log[k][i]] = "done"
    BY DEF InOrder, InOrderIn
  <2>1. /\ TypeOK /\ QueueSound(k) /\ FifoSound(k)
        /\ log[k] \in Seq(Msgs) /\ queue[k] \in Seq(Msgs)
    BY <1>1 DEF IndInv, BooksSound, LaneBooks, TypeOK
  <2>2. PICK d \in 0..Len(log[k]) :
           /\ SuffixAfter(queue[k], log[k], d)
           /\ \A x \in 1..d : turn[log[k][x]] = "done"
    BY <2>1 DEF FifoSound
  <2>3. /\ DOMAIN log[k] = 1..Len(log[k]) /\ Len(log[k]) \in Nat
        /\ DOMAIN queue[k] = 1..Len(queue[k]) /\ Len(queue[k]) \in Nat
        /\ Len(log[k]) = d + Len(queue[k])
        /\ \A x \in 1..Len(queue[k]) : queue[k][x] = log[k][d + x]
    BY <2>1, <2>2, LenProperties DEF SuffixAfter
  <2>4. ASSUME j > d + 1
        PROVE  FALSE
    <3>1. j - d \in DOMAIN queue[k] /\ j - d > 1 /\ queue[k][j - d] = log[k][j]
      BY <2>2, <2>3, <2>4
    <3>2. turn[log[k][j]] = "queued"
      BY <3>1, <2>1 DEF QueueSound
    <3>3. QED
      BY <3>2 DEF Started
  <2>5. i \in 1..d
    BY <2>2, <2>3, <2>4
  <2>6. QED
    BY <2>2, <2>5
<1>2. QED
  BY <1>1, Invariance, PTL

(* No event takes a started turn back or runs it again.                    *)
THEOREM NoRestart == Spec => NeverRestarted
<1>1. IndInv /\ [Next]_vars => [StageOrder]_vars
  BY NextInv
<1>2. QED
  BY <1>1, Invariance, PTL DEF Spec, NeverRestarted

(* !cancel collects turns that run, of one conversation; the time between  *)
(* collecting their cancel functions and calling them changes neither.     *)
THEOREM CancelSafety == Spec => []CancelSparesBacklog
<1>1. Init => CancelSparesBacklog
  BY DEF Init, CancelSparesBacklog
<1>2. ASSUME IndInv, CancelSparesBacklog, [Next]_vars
      PROVE  CancelSparesBacklog'
  <2>1. StageOrder /\ TypeOK
    BY <1>2, NextInv DEF IndInv
  <2>2. \A m \in Msgs : turn[m] \in {"active", "done"} => turn'[m] \in {"active", "done"}
    BY <2>1 DEF StageOrder
  <2>3. CASE UNCHANGED <<cancelling, cancelled>>
    BY <2>1, <2>2, <2>3, <1>2 DEF CancelSparesBacklog, TypeOK
  <2>4. CASE \E k \in Lanes : CancelCollect(k)
    <3>1. PICK k \in Lanes : CancelCollect(k)
      BY <2>4
    <3>2. \A m \in cancelling' : m \in Msgs /\ turn[m] = "active" /\ LaneOf[m] = k
      <4>1. \A m \in Msgs : TurnSound(m)
        BY <1>2 DEF IndInv, BooksSound, LaneBooks
      <4>2. QED
        BY <3>1, <4>1, <2>1 DEF CancelCollect, TurnSound, TypeOK
    <3>3. cancelled' = cancelled /\ turn' = turn
      BY <3>1 DEF CancelCollect
    <3>4. QED
      BY <3>2, <3>3, <1>2 DEF CancelSparesBacklog
  <2>5. CASE \E m \in Msgs : CancelCall(m)
    BY <2>5, <1>2 DEF CancelSparesBacklog, CancelCall
  <2>6. QED
    BY <2>3, <2>4, <2>5, <1>2
    DEF Next, Dispatch, Steer, Enqueue, StartNow, WaitForSlot, Arrive, Register,
        Finish, FinishSteered, FinishChain, FinishFree, Ends, SetInteractive, Reload,
        vars, cancelVars
<1>3. QED
  BY <1>1, <1>2, Invariance, PTL DEF Spec

(* Only dispatch and scheduleLocked take a slot, and they look at the cap. *)
LEMMA CapStep ==
    ASSUME IndInv, [Next]_vars, runningLanes' > runningLanes
    PROVE  runningLanes' <= maxWorkers
<1>1. TypeOK /\ NoLostWakeup /\ runningLanes \in Nat /\ maxWorkers \in Nat
  BY DEF IndInv, BooksSound, TypeOK
<1>2. CASE \E m \in Msgs : StartNow(m)
  BY <1>1, <1>2 DEF StartNow
<1>3. CASE \E m \in Msgs : FinishFree(m)
  <2>1. PICK m \in Msgs : FinishFree(m)
    BY <1>3
  <2> DEFINE slots == runningLanes - 1
             free == IF maxWorkers > slots THEN maxWorkers - slots ELSE 0
  <2>2. turn[m] = "active" /\ runningLanes' = slots + Cardinality(Promoted(free))
    BY <2>1 DEF FinishFree, Ends
  <2>3. slots \in Nat /\ free \in Nat
    BY <2>2, <1>1, FinishingTurn
  <2> HIDE DEF free
  <2>4. Cardinality(Promoted(free)) \in Nat /\ Cardinality(Promoted(free)) <= free
    <3>1. Len(readyLanes) \in Nat
      BY <1>1 DEF TypeOK
    <3>2. PICK n \in 0..Len(readyLanes) : n <= free /\ Cardinality(Promoted(free)) = n
      BY <1>1, <2>3, PopReady
    <3>3. QED
      BY <3>1, <3>2
  <2>5. QED
    BY <2>2, <2>3, <2>4, <1>1 DEF free
<1>4. CASE runningLanes' = runningLanes
  BY <1>4, <1>1
<1>5. QED
  BY <1>2, <1>3, <1>4
  DEF Next, Dispatch, Steer, Enqueue, WaitForSlot, Register, Finish, FinishSteered,
      FinishChain, CancelCollect, CancelCall, SetInteractive, Reload, vars, laneVars

(* No step takes a slot beyond the cap in force, reloads included.         *)
THEOREM Cap == Spec => CapRespected
<1>1. IndInv /\ [Next]_vars => [runningLanes' > runningLanes => runningLanes' <= maxWorkers]_vars
  BY CapStep
<1>2. QED
  BY <1>1, Invariance, PTL DEF Spec, CapRespected

(* A drained lane's slot goes to the lanes that wait: scheduleLocked leaves*)
(* a lane waiting only when every slot is taken.                           *)
LEMMA HandOverStep ==
    ASSUME IndInv, [Next]_vars, live' \subseteq live, live' # live
    PROVE  WorkConserving'
<1>1. TypeOK /\ NoLostWakeup /\ runningLanes \in Nat /\ maxWorkers \in Nat
  BY DEF IndInv, BooksSound, TypeOK
<1>2. PICK m \in Msgs : FinishFree(m)
  BY DEF Next, Dispatch, Steer, Enqueue, StartNow, WaitForSlot, Arrive, Register, Finish,
         FinishSteered, FinishChain, CancelCollect, CancelCall, SetInteractive, Reload,
         vars, laneVars
<1> DEFINE slots == runningLanes - 1
           free == IF maxWorkers > slots THEN maxWorkers - slots ELSE 0
<1>3. /\ turn[m] = "active" /\ maxWorkers' = maxWorkers
      /\ runningLanes' = slots + Cardinality(Promoted(free))
      /\ readyLanes' = SubSeq(readyLanes, Cardinality(Popped(free)) + 1, Len(readyLanes))
  BY <1>2 DEF FinishFree, Ends
<1>4. slots \in Nat /\ free \in Nat
  BY <1>3, <1>1, FinishingTurn
<1>5. slots + free >= maxWorkers
  BY <1>4, <1>1
<1> HIDE DEF free
<1>6. PICK n \in 0..Len(readyLanes) : /\ n = free \/ n = Len(readyLanes)
                                      /\ Cardinality(Popped(free)) = n
                                      /\ Cardinality(Promoted(free)) = n
  BY <1>1, <1>4, PopReady
<1>7. CASE n = free
  BY <1>3, <1>5, <1>6, <1>7 DEF WorkConserving
<1>8. CASE n = Len(readyLanes)
  <2>1. readyLanes \in Seq(Lanes) /\ Len(readyLanes) \in Nat
    BY <1>1 DEF TypeOK
  <2>2. readyLanes' = <<>>
    BY <1>3, <1>6, <1>8, <2>1
  <2>3. QED
    BY <2>2 DEF WorkConserving
<1>9. QED
  BY <1>6, <1>7, <1>8

(* No slot idles beside a waiting lane once a lane has drained, whatever   *)
(* reloads did to the cap before.                                          *)
THEOREM Handover == Spec => HandsOver
<1>1. IndInv /\ [Next]_vars =>
         [live' \subseteq live /\ live' # live => WorkConserving']_vars
  BY HandOverStep
<1>2. QED
  BY <1>1, Invariance, PTL DEF Spec, HandsOver

-----------------------------------------------------------------------------
(* Every step of the lane dispatcher is a step of ConversationService, where *)
(* no conversation is interactive.                                         *)
USE DEF ServiceAssumption

(* A lowered cap leaves runningLanes above maxWorkers, never above Slots.  *)
SlotBound == runningLanes <= Slots

LEMMA Bounded == ASSUME ServiceAssumption PROVE Spec => []SlotBound
<1>1. Init => SlotBound
  BY DEF Init, SlotBound
<1>2. ASSUME IndInv, SlotBound, [Next]_vars
      PROVE  SlotBound'
  <2>1. IndInv'
    BY <1>2, NextInv
  <2>2. runningLanes \in Nat /\ runningLanes' \in Nat /\ maxWorkers \in Nat /\ maxWorkers <= Slots
    BY <1>2, <2>1 DEF IndInv, TypeOK
  <2>3. CASE runningLanes' > runningLanes
    BY <1>2, <2>2, <2>3, CapStep DEF SlotBound
  <2>4. CASE ~(runningLanes' > runningLanes)
    BY <1>2, <2>2, <2>4 DEF SlotBound
  <2>5. QED
    BY <2>3, <2>4
<1>3. QED
  BY <1>1, <1>2, Invariance, PTL DEF Spec

-----------------------------------------------------------------------------
(* What an invariant state says of an ordinary lane.                       *)
LEMMA OrdinaryLane ==
    ASSUME ServiceAssumption, IndInv, NEW m \in Msgs, turn[m] \in {"spawned", "active"}
    PROVE  /\ LaneOf[m] \in running
           /\ queue[LaneOf[m]] # <<>>
           /\ m = Head(queue[LaneOf[m]])
           /\ \A n \in Msgs : LaneOf[n] = LaneOf[m] /\ turn[n] \in {"spawned", "active"} => n = m
<1>1. /\ LaneSound(LaneOf[m])
      /\ \A n \in Msgs : LaneOf[n] = LaneOf[m] => TurnSound(n)
  BY DEF IndInv, BooksSound, LaneBooks
<1>2. QED
  BY <1>1 DEF LaneSound, TurnSound

LEMMA NoneSteers == ASSUME ServiceAssumption, IndInv PROVE steering = {} /\ flag = {}
BY DEF IndInv, TypeOK, BooksSound, LaneBooks, LaneSound

-----------------------------------------------------------------------------
LEMMA InitMaps == Init => Service!Init
BY DEF Init, Service!Init, answeredIn, serving

LEMMA DispatchMaps ==
    ASSUME ServiceAssumption, IndInv, NEW m \in Msgs, Dispatch(m)
    PROVE  Service!Receive(m)
<1> DEFINE k == LaneOf[m]
<1>1. /\ TypeOK /\ k \in Lanes /\ turn[m] = "new"
      /\ queue \in [Lanes -> Seq(Msgs)] /\ log \in [Lanes -> Seq(Msgs)]
  BY DEF Dispatch, Steer, Enqueue, StartNow, WaitForSlot, Arrive, IndInv, TypeOK
<1>2. /\ log' = [log EXCEPT ![k] = Append(@, m)]
      /\ queue' = [queue EXCEPT ![k] = Append(@, m)]
      /\ turn' = [turn EXCEPT ![m] = "queued"] \/ turn' = [turn EXCEPT ![m] = "spawned"]
  <2>1. ~Steer(m)
    BY NoneSteers DEF Steer
  <2>2. CASE StartNow(m)
    <3>1. queue[k] = <<>>
      BY <1>1, <2>2, IdleUnqueued DEF StartNow
    <3>2. Head(Append(queue[k], m)) = m
      BY <3>1, <1>1
    <3>3. QED
      BY <3>2, <2>2, <1>1 DEF StartNow, Arrive, TypeOK
  <2>3. QED
    BY <2>1, <2>2 DEF Dispatch, Enqueue, WaitForSlot, Arrive
<1>3. answeredIn' = answeredIn
  <2>1. \A j \in Lanes : Len(log'[j]) - Len(queue'[j]) = Len(log[j]) - Len(queue[j])
    <3>1. Len(Append(log[k], m)) = Len(log[k]) + 1 /\ Len(log[k]) \in Nat
      BY <1>1, AppendProperties, LenProperties
    <3>2. Len(Append(queue[k], m)) = Len(queue[k]) + 1 /\ Len(queue[k]) \in Nat
      BY <1>1, AppendProperties, LenProperties
    <3>3. log'[k] = Append(log[k], m) /\ queue'[k] = Append(queue[k], m)
      BY <1>1, <1>2
    <3>4. \A j \in Lanes \ {k} : log'[j] = log[j] /\ queue'[j] = queue[j]
      BY <1>1, <1>2
    <3>5. Len(log'[k]) - Len(queue'[k]) = Len(log[k]) - Len(queue[k])
      <4>1. \A x, y \in Nat : (x + 1) - (y + 1) = x - y
        OBVIOUS
      <4>2. Len(log'[k]) - Len(queue'[k]) = (Len(log[k]) + 1) - (Len(queue[k]) + 1)
        BY <3>1, <3>2, <3>3
      <4>3. QED
        BY <3>1, <3>2, <4>1, <4>2
    <3>6. QED
      BY <3>4, <3>5
  <2>2. QED
    BY <2>1 DEF answeredIn
<1>4. serving' = serving
  BY <1>1, <1>2 DEF serving, TypeOK
<1>5. QED
  BY <1>2, <1>3, <1>4 DEF Service!Receive

LEMMA RegisterMaps ==
    ASSUME ServiceAssumption, IndInv, SlotBound, NEW m \in Msgs, Register(m)
    PROVE  Service!Begin(LaneOf[m])
<1> DEFINE k == LaneOf[m]
<1>1. /\ TypeOK /\ SlotAccounting /\ k \in Lanes /\ turn[m] = "spawned"
      /\ turn' = [turn EXCEPT ![m] = "active"] /\ turn \in [Msgs -> Stages]
      /\ k \in running /\ queue[k] # <<>> /\ queue[k] \in Seq(Msgs)
      /\ \A n \in Msgs : LaneOf[n] = k /\ turn[n] \in {"spawned", "active"} => n = m
      /\ UNCHANGED <<queue, log>>
  BY OrdinaryLane DEF Register, IndInv, BooksSound, TypeOK, laneVars
<1>2. k \notin serving
  BY <1>1 DEF serving
<1>3. answeredIn[k] < Len(log[k])
  <2>1. Len(queue[k]) \in Nat \ {0} /\ Len(log[k]) \in Nat
    BY <1>1, TailFacts, LenProperties DEF TypeOK
  <2>2. answeredIn[k] = Len(log[k]) - Len(queue[k])
    BY <1>1 DEF answeredIn
  <2>3. \A x \in Nat, y \in Nat \ {0} : x - y < x
    OBVIOUS
  <2>4. QED
    BY <2>1, <2>2, <2>3
<1>4. Cardinality(serving) < Slots
  <2>1. \A n \in Msgs : turn[n] = "active" => LaneOf[n] \in running
    BY OrdinaryLane
  <2>2. serving \subseteq running \ {k}
    BY <2>1, <1>2 DEF serving
  <2>3. IsFiniteSet(running)
    BY <1>1, FS_Subset DEF TypeOK
  <2>4. IsFiniteSet(running \ {k}) /\ Cardinality(running \ {k}) = Cardinality(running) - 1
    BY <2>3, <1>1, FS_RemoveElement
  <2>5. Cardinality(serving) \in Nat /\ Cardinality(serving) <= Cardinality(running \ {k})
    BY <2>2, <2>4, FS_Subset, FS_CardinalityType
  <2>6. QED
    BY <2>4, <2>5, <1>1 DEF SlotAccounting, SlotBound, TypeOK
<1>5. serving' = serving \cup {k}
  BY <1>1 DEF serving
<1>6. UNCHANGED <<log, answeredIn>>
  BY <1>1 DEF answeredIn
<1>7. Service!Cardinality(serving) = Cardinality(serving)
  BY DEF Service!Cardinality, Cardinality, Service!IsFiniteSet, IsFiniteSet
<1>8. QED
  BY <1>2, <1>3, <1>4, <1>5, <1>6, <1>7 DEF Service!Begin

LEMMA FinishMaps ==
    ASSUME ServiceAssumption, IndInv, NEW m \in Msgs, Finish(m)
    PROVE  Service!Answer(LaneOf[m])
<1> DEFINE k == LaneOf[m]
           r == Rest(m, k)
<1>1. /\ TypeOK /\ NoLostWakeup /\ k \in Lanes /\ turn[m] = "active"
      /\ turn \in [Msgs -> Stages] /\ log' = log
      /\ queue \in [Lanes -> Seq(Msgs)] /\ log \in [Lanes -> Seq(Msgs)]
  BY DEF Finish, FinishSteered, FinishChain, FinishFree, Ends, IndInv, BooksSound, TypeOK
<1>2. /\ queue[k] # <<>> /\ m = Head(queue[k])
      /\ \A n \in Msgs : LaneOf[n] = k /\ turn[n] \in {"spawned", "active"} => n = m
  BY <1>1, OrdinaryLane
<1>3. r = Tail(queue[k])
  BY <1>1, FinishingTurn, NoneSteers
<1>4. queue' = [queue EXCEPT ![k] = Tail(queue[k])]
  BY <1>3, NoneSteers DEF Finish, FinishSteered, FinishChain, FinishFree
<1>5. turn'[m] = "done" /\ \A n \in Msgs \ {m} : turn'[n] = turn[n] \/ turn'[n] = "spawned"
  BY <1>1 DEF Finish, FinishSteered, FinishChain, FinishFree
<1>6. \A n \in Msgs \ {m} : turn[n] = "active" => turn'[n] = "active"
  <2>1. \A n \in Msgs : turn[n] = "active" => turn'[n] \in {"active", "done"}
    <3>1. Next
      BY DEF Next
    <3>2. QED
      BY <3>1, NextInv DEF StageOrder
  <2>2. QED
    BY <2>1, <1>5
<1>7. k \in serving /\ serving' = serving \ {k}
  <2>1. k \in serving
    BY <1>1 DEF serving
  <2>2. \A n \in Msgs : turn'[n] = "active" <=> turn[n] = "active" /\ n # m
    BY <1>5, <1>6
  <2>3. \A n \in Msgs \ {m} : turn[n] = "active" => LaneOf[n] # k
    BY <1>2
  <2>4. QED
    BY <2>1, <2>2, <2>3 DEF serving
<1>8. answeredIn' = [answeredIn EXCEPT ![k] = @ + 1]
  <2>1. Len(Tail(queue[k])) = Len(queue[k]) - 1 /\ Len(queue[k]) \in Nat \ {0}
    BY <1>1, <1>2, TailFacts
  <2>2. \A j \in Lanes : Len(log[j]) \in Nat /\ Len(queue[j]) \in Nat
    BY <1>1, LenProperties
  <2>3. /\ log' = log /\ Len(queue'[k]) = Len(queue[k]) - 1
        /\ \A j \in Lanes \ {k} : queue'[j] = queue[j]
    BY <2>1, <1>1, <1>4
  <2>4. Len(log[k]) - (Len(queue[k]) - 1) = (Len(log[k]) - Len(queue[k])) + 1
    BY <2>2
  <2>5. /\ Len(log'[k]) - Len(queue'[k]) = (Len(log[k]) - Len(queue[k])) + 1
        /\ \A j \in Lanes \ {k} : Len(log'[j]) - Len(queue'[j]) = Len(log[j]) - Len(queue[j])
    BY <2>3, <2>4
  <2>6. QED
    BY <2>5, <1>1 DEF answeredIn
<1>9. QED
  BY <1>1, <1>7, <1>8 DEF Service!Answer

LEMMA StepMaps ==
    ASSUME ServiceAssumption, IndInv, SlotBound, [Next]_vars
    PROVE  [Service!Next]_(Service!vars)
<1>1. CASE \E m \in Msgs : Dispatch(m)
  BY <1>1, DispatchMaps DEF Service!Next
<1>2. ASSUME NEW m \in Msgs, Register(m)
      PROVE  Service!Next
  <2>1. LaneOf[m] \in Lanes
    OBVIOUS
  <2>2. QED
    BY <1>2, <2>1, RegisterMaps DEF Service!Next
<1>3. ASSUME NEW m \in Msgs, Finish(m)
      PROVE  Service!Next
  <2>1. LaneOf[m] \in Lanes
    OBVIOUS
  <2>2. QED
    BY <1>3, <2>1, FinishMaps DEF Service!Next
<1>4. CASE UNCHANGED <<queue, log, turn>>
  BY <1>4 DEF Service!vars, answeredIn, serving
<1>5. QED
  BY <1>1, <1>2, <1>3, <1>4
  DEF Next, CancelCollect, CancelCall, SetInteractive, Reload, vars, laneVars

(* Whatever lanes, slots, cancels and reloads do, a reader of the          *)
(* conversations sees them served in order, one turn at a time, at most    *)
(* Slots at once.                                                          *)
THEOREM Refinement == ASSUME ServiceAssumption PROVE Spec => ImplementsSafely
<1>1. Init => Service!Init
  BY InitMaps
<1>2. IndInv /\ SlotBound /\ [Next]_vars => [Service!Next]_(Service!vars)
  BY StepMaps
<1>3. QED
  BY <1>1, <1>2, Invariance, Bounded, PTL DEF Spec, ImplementsSafely, Service!SafeSpec
-----------------------------------------------------------------------------
(* dispatchLoad leaves out the head of a lane that runs.                   *)
Skipped(k) == IF k \in running /\ queue[k] # <<>> THEN 1 ELSE 0

(* No queue is longer than there are messages.                             *)
LEMMA QueueShort ==
    ASSUME IndInv, IsFiniteSet(Msgs), NEW k \in Lanes
    PROVE  Len(queue[k]) <= Cardinality(Msgs)
<1> DEFINE f == [i \in 1..Len(queue[k]) |-> queue[k][i]]
<1>1. queue[k] \in Seq(Msgs) /\ QueueSound(k)
  BY DEF IndInv, TypeOK, BooksSound, LaneBooks
<1>2. Len(queue[k]) \in Nat /\ DOMAIN queue[k] = 1..Len(queue[k])
  BY <1>1, LenProperties
<1>3. f \in Injection(1..Len(queue[k]), Msgs)
  <2>1. \A i \in 1..Len(queue[k]) : queue[k][i] \in Msgs
    BY <1>1, <1>2
  <2>2. \A i, j \in 1..Len(queue[k]) : queue[k][i] = queue[k][j] => i = j
    BY <1>1, <1>2 DEF QueueSound
  <2>3. QED
    BY <2>1, <2>2 DEF Injection, IsInjective
<1>4. Cardinality(1..Len(queue[k])) <= Cardinality(Msgs)
  BY <1>3, FS_Injection
<1>5. QED
  BY <1>2, <1>4, Interval

(* What waits in a lane is its queue from the skipped head on.             *)
LEMMA WaitingPlaces ==
    ASSUME ServiceAssumption, IndInv, NEW k \in Lanes, NEW i \in 1..Len(queue[k])
    PROVE  /\ queue[k][i] \in Msgs /\ LaneOf[queue[k][i]] = k /\ k \in live
           /\ turn[queue[k][i]] = "queued" <=> i > Skipped(k)
<1>1. /\ queue[k] \in Seq(Msgs) /\ QueueSound(k) /\ LaneSound(k) /\ SlotAccounting
      /\ \A m \in Msgs : LaneOf[m] = k => TurnSound(m)
  BY DEF IndInv, TypeOK, BooksSound, LaneBooks
<1>2. Len(queue[k]) \in Nat /\ DOMAIN queue[k] = 1..Len(queue[k]) /\ queue[k] # <<>>
  BY <1>1, LenProperties, EmptySeq
<1>3. queue[k][i] \in Msgs /\ LaneOf[queue[k][i]] = k /\ k \in live
  BY <1>1, <1>2 DEF QueueSound
<1>4. i > 1 => turn[queue[k][i]] = "queued"
  BY <1>1, <1>2 DEF QueueSound
<1>5. CASE k \in running
  <2>1. Skipped(k) = 1
    BY <1>2, <1>5 DEF Skipped
  <2>2. PICK m \in Msgs : LaneOf[m] = k /\ turn[m] \in {"spawned", "active"}
    BY <1>1, <1>5 DEF LaneSound, InFlight
  <2>3. m = Head(queue[k])
    BY <2>2, OrdinaryLane
  <2>4. turn[queue[k][1]] # "queued"
    BY <2>2, <2>3, <1>1, <1>2
  <2>5. i = 1 \/ i > 1
    BY <1>2
  <2>6. QED
    BY <1>3, <1>4, <2>1, <2>4, <2>5
<1>6. CASE k \notin running
  <2>1. Skipped(k) = 0
    BY <1>6 DEF Skipped
  <2>2. turn[queue[k][i]] \in {"queued", "spawned", "active"}
    BY <1>1, <1>2 DEF QueueSound
  <2>3. turn[queue[k][i]] = "queued"
    BY <2>2, <1>1, <1>3, <1>6 DEF TurnSound
  <2>4. i > 0
    BY <1>2
  <2>5. QED
    BY <1>3, <2>1, <2>3, <2>4
<1>7. QED
  BY <1>5, <1>6

LEMMA LoadCounts ==
    ASSUME ServiceAssumption, IndInv, IsFiniteSet(Msgs)
    PROVE  LoadIsExact
<1> DEFINE N == Cardinality(Msgs)
           Q == {m \in Msgs : turn[m] = "queued"}
           places == {s \in live \X (1..N) : s[2] <= Len(queue[s[1]]) - Skipped(s[1])}
           f == [s \in places |-> queue[s[1]][s[2] + Skipped(s[1])]]
<1>1. N \in Nat /\ live \subseteq Lanes /\ IsFiniteSet(Q)
  BY FS_CardinalityType, FS_Subset DEF IndInv, TypeOK
<1>2. \A k \in Lanes : /\ queue[k] \in Seq(Msgs) /\ Len(queue[k]) \in Nat
                       /\ DOMAIN queue[k] = 1..Len(queue[k])
                       /\ Len(queue[k]) <= N
                       /\ Skipped(k) \in 0..1
  BY QueueShort, LenProperties DEF IndInv, TypeOK, Skipped
<1>3. ReportedWaiting = Cardinality(places)
  <2>1. \A k \in Lanes : (IF k \in running /\ queue[k] # <<>>
                          THEN Len(queue[k]) - 1 ELSE Len(queue[k])) = Len(queue[k]) - Skipped(k)
    BY <1>2 DEF Skipped
  <2>2. \A s \in live \X (1..N) :
           (IF s[1] \in running /\ queue[s[1]] # <<>>
            THEN Len(queue[s[1]]) - 1 ELSE Len(queue[s[1]])) = Len(queue[s[1]]) - Skipped(s[1])
    BY <2>1, <1>1
  <2>3. {s \in live \X (1..N) :
           s[2] <= IF s[1] \in running /\ queue[s[1]] # <<>>
                   THEN Len(queue[s[1]]) - 1 ELSE Len(queue[s[1]])} = places
    BY <2>2
  <2>4. QED
    BY <2>3 DEF ReportedWaiting
<1>4. ASSUME NEW s \in places
      PROVE  /\ s[1] \in live /\ s[1] \in Lanes /\ s[2] \in 1..N
             /\ s[2] + Skipped(s[1]) \in 1..Len(queue[s[1]])
             /\ s = <<s[1], s[2]>>
             /\ f[s] = queue[s[1]][s[2] + Skipped(s[1])]
             /\ f[s] \in Q /\ LaneOf[f[s]] = s[1]
  <2>1. s[1] \in live /\ s[1] \in Lanes /\ s[2] \in 1..N /\ s = <<s[1], s[2]>>
    BY <1>1
  <2>2. s[2] <= Len(queue[s[1]]) - Skipped(s[1])
    OBVIOUS
  <2>3. s[2] + Skipped(s[1]) \in 1..Len(queue[s[1]]) /\ s[2] + Skipped(s[1]) > Skipped(s[1])
    BY <1>1, <1>2, <2>1, <2>2
  <2>4. f[s] = queue[s[1]][s[2] + Skipped(s[1])]
    OBVIOUS
  <2>5. f[s] \in Q /\ LaneOf[f[s]] = s[1]
    BY <2>1, <2>3, <2>4, WaitingPlaces
  <2>6. QED
    BY <2>1, <2>3, <2>4, <2>5
<1>5. f \in Injection(places, Q)
  <2>1. ASSUME NEW s \in places, NEW t \in places, f[s] = f[t]
        PROVE  s = t
    <3>1. s[1] = t[1]
      BY <2>1, <1>4
    <3>2. \A i, j \in 1..Len(queue[s[1]]) : queue[s[1]][i] = queue[s[1]][j] => i = j
      <4>1. s[1] \in Lanes
        BY <1>4
      <4>2. QueueSound(s[1])
        BY <4>1 DEF IndInv, BooksSound, LaneBooks
      <4>3. QED
        BY <4>1, <4>2, <1>2 DEF QueueSound
    <3>3. s[2] + Skipped(s[1]) = t[2] + Skipped(s[1])
      <4>1. /\ s[2] + Skipped(s[1]) \in 1..Len(queue[s[1]])
            /\ f[s] = queue[s[1]][s[2] + Skipped(s[1])]
        BY <1>4
      <4>2. /\ t[2] + Skipped(t[1]) \in 1..Len(queue[t[1]])
            /\ f[t] = queue[t[1]][t[2] + Skipped(t[1])]
        BY <1>4
      <4> HIDE DEF f
      <4>3. QED
        BY <4>1, <4>2, <3>1, <3>2, <2>1
    <3>4. s[2] \in Nat /\ t[2] \in Nat /\ Skipped(s[1]) \in Nat
      <4>1. s[2] \in 1..N /\ t[2] \in 1..N /\ s[1] \in Lanes
        BY <1>4
      <4>2. QED
        BY <4>1, <1>1, <1>2
    <3>5. s[2] = t[2]
      BY <3>3, <3>4
    <3>6. s = <<s[1], s[2]>> /\ t = <<t[1], t[2]>>
      BY <1>4
    <3>7. QED
      BY <3>1, <3>5, <3>6
  <2>2. f \in [places -> Q]
    <3>1. \A s \in places : f[s] \in Q
      BY <1>4
    <3>2. f = [s \in places |-> f[s]]
      OBVIOUS
    <3> HIDE DEF f, places, Q
    <3>3. QED
      BY <3>1, <3>2
  <2> HIDE DEF f, places, Q
  <2>3. QED
    BY <2>1, <2>2 DEF Injection, IsInjective
<1>6. f \in Surjection(places, Q)
  <2>1. ASSUME NEW m \in Q
        PROVE  \E s \in places : f[s] = m
    <3> DEFINE k == LaneOf[m]
    <3>1. k \in Lanes /\ TurnSound(m) /\ m \in Msgs /\ turn[m] = "queued"
      BY DEF IndInv, BooksSound, LaneBooks
    <3>2. PICK i \in DOMAIN queue[k] : queue[k][i] = m
      BY <3>1 DEF TurnSound
    <3>3. i \in 1..Len(queue[k])
      BY <3>1, <3>2, <1>2
    <3>4. k \in live /\ i > Skipped(k)
      BY <3>1, <3>2, <3>3, WaitingPlaces
    <3> DEFINE p == i - Skipped(k)
    <3>5. p \in 1..N /\ p <= Len(queue[k]) - Skipped(k) /\ p + Skipped(k) = i
      BY <3>1, <3>3, <3>4, <1>1, <1>2
    <3> HIDE DEF p, k
    <3>6. <<k, p>> \in places
      BY <3>4, <3>5
    <3>7. f[<<k, p>>] = queue[k][p + Skipped(k)]
      BY <3>6
    <3> HIDE DEF f, places
    <3>8. QED
      BY <3>2, <3>5, <3>6, <3>7
  <2>2. f \in [places -> Q]
    BY <1>5 DEF Injection
  <2> HIDE DEF f, places, Q
  <2>3. QED
    BY <2>1, <2>2 DEF Surjection
<1>7. Cardinality(places) = Cardinality(Q)
  <2> HIDE DEF f, places, Q
  <2>1. IsFiniteSet(places) /\ Cardinality(places) <= Cardinality(Q)
           /\ (Cardinality(places) = Cardinality(Q) <=> f \in Surjection(places, Q))
    BY <1>1, <1>5, FS_Injection
  <2>2. QED
    BY <2>1, <1>6
<1>8. QED
  BY <1>3, <1>7 DEF LoadIsExact

(* What !status reports as waiting is, for every number of conversations   *)
(* and messages, the number of messages no turn has started for, as long as *)
(* no conversation is interactive.                                         *)
THEOREM LoadExact == ASSUME ServiceAssumption, IsFiniteSet(Msgs) PROVE Spec => []LoadIsExact
<1>1. IndInv => LoadIsExact
  BY LoadCounts
<1>2. QED
  BY <1>1, Invariance, PTL
=============================================================================
