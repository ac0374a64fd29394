--------------------------- MODULE ChannelsProofs ---------------------------
(* What Telegram and a browser get of a turn, for any turns and any number *)
(* of connections, whatever the capacity of their buffers.                 *)
EXTENDS Channels, Integers, TLAPS

USE ChannelsAssumption

-----------------------------------------------------------------------------
(* A turn that calls has an origin; it reaches Telegram for the stream     *)
(* only.                                                                   *)
Routed ==
    \A t \in Turns : /\ Telegram \in turn[t].left \cup beat[t].left => TargetOf[t] = Stream
                     /\ turn[t].left # {} => turn[t].called # 0
                     /\ turn[t].called # 0 => turn[t].origin \in Origins

(* A connection that is not open has nothing to write.                     *)
Silent == \A c \in Conns : conn[c] # "open" => buffer[c] = <<>> /\ seen[c] = NothingSeen

(* The calls of t itself that wait in the buffer of c, by their place; the *)
(* last one that is behind c.                                              *)
Of(c, t, i) ==
    /\ i \in 1..Len(buffer[c]) /\ ~IsAnswer(buffer[c][i])
    /\ buffer[c][i].turn = t /\ buffer[c][i].no # 0
No(c, i) == buffer[c][i].no
Behind(c, t) == IF c \in turn[t].left THEN turn[t].called - 1 ELSE turn[t].called

(* They are the calls after the last one seen, in order, up to that one.   *)
Waiting(c, t) ==
    /\ \A i \in Nat : Of(c, t, i) => seen[c][t] < No(c, i) /\ No(c, i) <= Behind(c, t)
    /\ \A i, j \in Nat : Of(c, t, i) /\ Of(c, t, j) /\ i < j => No(c, i) < No(c, j)
Complete(c, t) ==
    /\ \A i \in Nat : Of(c, t, i) /\ No(c, i) < Behind(c, t)
          => \E j \in Nat : i < j /\ Of(c, t, j) /\ No(c, j) = No(c, i) + 1
    /\ seen[c][t] <= Behind(c, t)
    /\ seen[c][t] # 0 /\ seen[c][t] < Behind(c, t)
          => \E j \in Nat : Of(c, t, j) /\ No(c, j) = seen[c][t] + 1
Gapless == \A c \in Conns, t \in Turns : conn[c] = "open" => Waiting(c, t) /\ Complete(c, t)

(* The part of TypeOK that calls change.                                   *)
TurnRecs == [plan : Plans, called : Nat, left : SUBSET (Conns \cup {Telegram}),
             origin : Origins \cup {"none"}]
BeatRecs == [kind : {"typing", "text"}, left : SUBSET (Conns \cup {Telegram})]
CallsOK ==
    /\ turn \in [Turns -> TurnRecs] /\ \A t \in Turns : turn[t].called <= Len(turn[t].plan)
    /\ beat \in [Turns -> BeatRecs] /\ calls \in 0..MaxCalls

IndInv == TypeOK /\ Routed /\ Silent /\ Gapless /\ Separate

-----------------------------------------------------------------------------
Items == Frames \cup [workers : SUBSET Targets]

LEMMA ItemKinds ==
    ASSUME NEW f \in Items
    PROVE  \/ IsAnswer(f) /\ f \in [workers : SUBSET Targets]
           \/ ~IsAnswer(f) /\ f \in Frames /\ f.no \in Nat /\ f.turn \in Turns
              /\ (f.kind = "echo" => f.no # 0)
<1>1. CASE f \in [workers : SUBSET Targets]
  BY <1>1 DEF IsAnswer
<1>2. CASE f \in [turn : Turns, no : Nat \ {0}, kind : Kinds]
  BY <1>2 DEF IsAnswer, Frames
<1>3. CASE f \in [turn : Turns, no : {0}, kind : {"typing", "text"}]
  BY <1>3 DEF IsAnswer, Frames
<1>4. QED
  BY <1>1, <1>2, <1>3 DEF Items, Frames

LEMMA OwnIs ==
    ASSUME NEW t \in Turns, NEW k \in Nat \ {0}, NEW kind \in Kinds
    PROVE  /\ Frame(t, k, kind) \in Items /\ Frame(t, k, kind) \in Frames /\ ~IsAnswer(Frame(t, k, kind))
           /\ Frame(t, k, kind).turn = t /\ Frame(t, k, kind).no = k /\ Frame(t, k, kind).kind = kind
BY DEF Frame, Items, Frames, IsAnswer

LEMMA PulseIs ==
    ASSUME NEW t \in Turns, beat[t].kind \in {"typing", "text"}
    PROVE  /\ Pulse(t) \in Items /\ Pulse(t) \in Frames /\ ~IsAnswer(Pulse(t))
           /\ Pulse(t).turn = t /\ Pulse(t).no = 0 /\ Pulse(t).kind # "echo"
BY DEF Pulse, Frame, Items, Frames, IsAnswer

(* The plans have calls of the known kinds.                                *)
LEMMA PlanIs ==
    ASSUME NEW p \in Plans
    PROVE  Len(p) \in Nat \ {0} /\ \A n \in 1..Len(p) : p[n] \in Kinds /\ (p[n] = "echo" => n = 1)
<1>1. CASE p = Worked
  BY <1>1 DEF Worked, Kinds
<1>2. CASE p = Refused
  BY <1>2 DEF Refused, Kinds
<1>3. QED
  BY <1>1, <1>2 DEF Plans

LEMMA AnswerIs ==
    ASSUME NEW S \in SUBSET Targets
    PROVE  Answer(S) \in Items /\ IsAnswer(Answer(S))
BY DEF Answer, Items, IsAnswer

LEMMA BufferType ==
    ASSUME TypeOK, NEW c \in Conns
    PROVE  buffer[c] \in Seq(Items) /\ Len(buffer[c]) \in Nat
BY DEF TypeOK, Items

LEMMA AppendIs ==
    ASSUME NEW q \in Seq(Items), NEW f \in Items
    PROVE  /\ Append(q, f) \in Seq(Items) /\ Len(Append(q, f)) = Len(q) + 1 /\ Len(q) \in Nat
           /\ Append(q, f)[Len(q) + 1] = f
           /\ \A i \in 1..Len(q) : Append(q, f)[i] = q[i]
OBVIOUS

LEMMA TailIs ==
    ASSUME NEW q \in Seq(Items), q # <<>>
    PROVE  /\ Tail(q) \in Seq(Items) /\ Len(Tail(q)) = Len(q) - 1 /\ Len(q) \in Nat \ {0}
           /\ \A i \in 1..Len(Tail(q)) : Tail(q)[i] = q[i + 1]
           /\ Head(q) = q[1] /\ q[1] \in Items
OBVIOUS

LEMMA OfTurn ==
    ASSUME TypeOK, NEW c \in Conns, NEW t \in Turns, NEW i \in Nat, Of(c, t, i)
    PROVE  No(c, i) \in Nat \ {0} /\ buffer[c][i] \in Frames
<1>1. buffer[c] \in Seq(Items) /\ i \in 1..Len(buffer[c])
  BY BufferType DEF Of
<1>2. PICK f \in Items : f = buffer[c][i]
  BY <1>1
<1>3. ~IsAnswer(f) /\ f.no # 0
  BY <1>2 DEF Of
<1>4. QED
  BY <1>2, <1>3, ItemKinds DEF No

LEMMA TurnFacts ==
    ASSUME TypeOK, NEW t \in Turns
    PROVE  /\ turn[t].called \in Nat /\ turn[t].left \subseteq Conns \cup {Telegram}
           /\ turn[t].origin \in Origins \cup {"none"}
           /\ \A c \in Conns : /\ seen[c][t] \in Nat /\ Behind(c, t) \in Int
                               /\ Behind(c, t) <= turn[t].called
BY DEF TypeOK, Behind

LEMMA InitInd == Init => IndInv
<1> SUFFICES ASSUME Init PROVE IndInv
  OBVIOUS
<1>1. TypeOK
  <2>1. Worked \in Plans /\ 0 <= Len(Worked)
    BY PlanIs DEF Plans
  <2>2. \A t \in Turns : turn[t] = [plan |-> Worked, called |-> 0, left |-> {}, origin |-> "none"]
    BY DEF Init
  <2>3. buffer \in [Conns -> Seq(Frames \cup [workers : SUBSET Targets])]
        /\ \A c \in Conns : Len(buffer[c]) <= Capacity
    BY DEF Init
  <2>4. turn \in [Turns -> [plan : Plans, called : Nat, left : SUBSET (Conns \cup {Telegram}),
                            origin : Origins \cup {"none"}]]
    BY <2>1 DEF Init
  <2>5. QED
    BY <2>1, <2>2, <2>3, <2>4 DEF Init, TypeOK, NothingSeen, Idle
<1>2. Routed /\ Silent
  BY DEF Init, Routed, Silent, Idle
<1>3. Gapless
  BY DEF Init, Gapless
<1>4. Separate
  BY DEF Init, Separate
<1>5. QED
  BY <1>1, <1>2, <1>3, <1>4 DEF IndInv

-----------------------------------------------------------------------------
(* Nothing changes for t on c: its frames are what they were.              *)
LEMMA SameFrames ==
    ASSUME NEW c \in Conns, NEW t \in Turns, Waiting(c, t), Complete(c, t),
           \A i \in Nat : Of(c, t, i)' <=> Of(c, t, i),
           \A i \in Nat : Of(c, t, i) => No(c, i)' = No(c, i),
           Behind(c, t)' = Behind(c, t), seen'[c][t] = seen[c][t]
    PROVE  Waiting(c, t)' /\ Complete(c, t)'
BY DEF Waiting, Complete

(* The frame of t's own call k is appended to the buffer of c.                 *)
LEMMA OneMoreCall ==
    ASSUME TypeOK, NEW kind \in Kinds, NEW c \in Conns, NEW t \in Turns, Waiting(c, t), Complete(c, t), NEW k \in Nat \ {0},
           Behind(c, t) = k - 1, Behind(c, t)' = k, seen'[c][t] = seen[c][t],
           buffer'[c] = Append(buffer[c], Frame(t, k, kind))
    PROVE  Waiting(c, t)' /\ Complete(c, t)'
<1> PICK n \in Nat : n = Len(buffer[c]) + 1
  BY BufferType
<1>1. /\ buffer[c] \in Seq(Items) /\ n \in Nat /\ Len(buffer[c]) \in Nat
      /\ Frame(t, k, kind) \in Items /\ ~IsAnswer(Frame(t, k, kind))
      /\ Frame(t, k, kind).turn = t /\ Frame(t, k, kind).no = k
  <2>1. buffer[c] \in Seq(Items) /\ Len(buffer[c]) \in Nat
    BY BufferType
  <2>2. /\ Frame(t, k, kind) \in Items /\ ~IsAnswer(Frame(t, k, kind))
        /\ Frame(t, k, kind).turn = t /\ Frame(t, k, kind).no = k
    BY OwnIs
  <2>3. QED
    BY <2>1, <2>2
<1>2. /\ Len(buffer'[c]) = n /\ buffer'[c][n] = Frame(t, k, kind)
      /\ \A i \in 1..Len(buffer[c]) : buffer'[c][i] = buffer[c][i]
  BY <1>1, AppendIs
<1>3. \A i \in Nat : Of(c, t, i)' <=> Of(c, t, i) \/ i = n
  BY <1>1, <1>2 DEF Of
<1>4. /\ \A i \in Nat : Of(c, t, i) => No(c, i)' = No(c, i) /\ i < n
      /\ No(c, n)' = k
  BY <1>1, <1>2 DEF Of, No
<1>5. seen[c][t] \in Nat /\ \A i \in Nat : Of(c, t, i) => No(c, i) \in Nat \ {0}
  BY TurnFacts, OfTurn
<1>6. Waiting(c, t)'
  <2>1. ASSUME NEW i \in Nat, Of(c, t, i)'
        PROVE  seen'[c][t] < No(c, i)' /\ No(c, i)' <= k
    BY <1>3, <1>4, <1>5, <2>1 DEF Waiting, Complete
  <2>2. ASSUME NEW i \in Nat, NEW j \in Nat, Of(c, t, i)', Of(c, t, j)', i < j
        PROVE  No(c, i)' < No(c, j)'
    <3>1. Of(c, t, i) /\ (Of(c, t, j) \/ j = n)
      BY <1>1, <1>3, <1>4, <2>2
    <3>2. QED
      BY <1>4, <1>5, <2>2, <3>1 DEF Waiting
  <2>3. QED
    BY <2>1, <2>2 DEF Waiting
<1>7. Complete(c, t)'
  <2>1. Of(c, t, n)' /\ No(c, n)' = k
    BY <1>1, <1>3, <1>4
  <2>2. ASSUME NEW i \in Nat, Of(c, t, i)', No(c, i)' < k
        PROVE  \E j \in Nat : i < j /\ Of(c, t, j)' /\ No(c, j)' = No(c, i)' + 1
    <3>1. Of(c, t, i) /\ No(c, i)' = No(c, i) /\ i < n /\ No(c, i) \in Nat \ {0}
      BY <1>3, <1>4, <1>5, <2>1, <2>2
    <3>2. CASE No(c, i) < k - 1
      <4>1. PICK j \in Nat : i < j /\ Of(c, t, j) /\ No(c, j) = No(c, i) + 1
        BY <3>1, <3>2 DEF Complete
      <4>2. QED
        BY <1>3, <1>4, <3>1, <4>1
    <3>3. CASE No(c, i) = k - 1
      BY <1>1, <2>1, <3>1, <3>3
    <3>4. QED
      BY <2>2, <3>1, <3>2, <3>3
  <2>3. seen'[c][t] <= k
    BY <1>5 DEF Complete
  <2>4. ASSUME seen'[c][t] # 0, seen'[c][t] < k
        PROVE  \E j \in Nat : Of(c, t, j)' /\ No(c, j)' = seen'[c][t] + 1
    <3>1. CASE seen[c][t] < k - 1
      <4>1. PICK j \in Nat : Of(c, t, j) /\ No(c, j) = seen[c][t] + 1
        BY <2>4, <3>1 DEF Complete
      <4>2. QED
        BY <1>3, <1>4, <4>1
    <3>2. CASE seen[c][t] = k - 1
      BY <1>1, <2>1, <3>2
    <3>3. QED
      BY <1>5, <2>4, <3>1, <3>2
  <2>5. QED
    BY <2>2, <2>3, <2>4 DEF Complete
<1>8. QED
  BY <1>6, <1>7

(* An item that is no call of t itself is appended.                        *)
LEMMA OtherItem ==
    ASSUME TypeOK, NEW c \in Conns, NEW t \in Turns, Waiting(c, t), Complete(c, t), NEW f \in Items,
           IsAnswer(f) \/ f.turn # t \/ f.no = 0, buffer'[c] = Append(buffer[c], f),
           Behind(c, t)' = Behind(c, t), seen'[c][t] = seen[c][t]
    PROVE  Waiting(c, t)' /\ Complete(c, t)'
<1>1. buffer[c] \in Seq(Items)
  BY BufferType
<1>2. /\ Len(buffer'[c]) = Len(buffer[c]) + 1 /\ Len(buffer[c]) \in Nat
      /\ buffer'[c][Len(buffer[c]) + 1] = f
      /\ \A i \in 1..Len(buffer[c]) : buffer'[c][i] = buffer[c][i]
  BY <1>1, AppendIs
<1>3. \A i \in Nat : Of(c, t, i)' <=> Of(c, t, i)
  BY <1>2 DEF Of
<1>4. \A i \in Nat : Of(c, t, i) => No(c, i)' = No(c, i)
  BY <1>2 DEF Of, No
<1>5. QED
  BY <1>3, <1>4, SameFrames

(* The head is written: an answer, or the frame that comes next.           *)
LEMMA HeadGone ==
    ASSUME TypeOK, NEW c \in Conns, NEW t \in Turns, Waiting(c, t), Complete(c, t),
           buffer[c] # <<>>, buffer'[c] = Tail(buffer[c]), Behind(c, t)' = Behind(c, t),
           IF Of(c, t, 1) THEN seen'[c][t] = No(c, 1) ELSE seen'[c][t] = seen[c][t]
    PROVE  /\ Waiting(c, t)' /\ Complete(c, t)'
           /\ seen[c][t] # 0 => seen'[c][t] \in {seen[c][t], seen[c][t] + 1}
<1>1. buffer[c] \in Seq(Items)
  BY BufferType
<1>2. /\ Len(buffer'[c]) = Len(buffer[c]) - 1 /\ Len(buffer[c]) \in Nat \ {0}
      /\ \A i \in 1..Len(buffer'[c]) : buffer'[c][i] = buffer[c][i + 1]
  BY <1>1, TailIs
<1>3. \A i \in Nat : Of(c, t, i)' <=> i # 0 /\ Of(c, t, i + 1)
  BY <1>2 DEF Of
<1>4. \A i \in Nat : Of(c, t, i)' => No(c, i)' = No(c, i + 1)
  BY <1>2 DEF Of, No
<1>5. /\ seen[c][t] \in Nat /\ Behind(c, t) \in Int
      /\ \A i \in Nat : Of(c, t, i) => No(c, i) \in Nat \ {0} /\ i # 0
  BY TurnFacts, OfTurn DEF Of
<1>6. \A j \in Nat : Of(c, t, j) /\ j # 1 => Of(c, t, j - 1)' /\ j - 1 \in Nat /\ No(c, j - 1)' = No(c, j)
  <2> SUFFICES ASSUME NEW j \in Nat, Of(c, t, j), j # 1
               PROVE  Of(c, t, j - 1)' /\ j - 1 \in Nat /\ No(c, j - 1)' = No(c, j)
    OBVIOUS
  <2>1. j - 1 \in Nat /\ j - 1 # 0 /\ (j - 1) + 1 = j
    BY <1>5
  <2>2. QED
    BY <1>3, <1>4, <2>1
<1>7. CASE Of(c, t, 1)
  <2>1. seen'[c][t] = No(c, 1)
    BY <1>7
  <2>2. Waiting(c, t)'
    <3>1. ASSUME NEW i \in Nat, Of(c, t, i)'
          PROVE  seen'[c][t] < No(c, i)' /\ No(c, i)' <= Behind(c, t)
      <4>1. Of(c, t, i + 1) /\ 1 < i + 1 /\ i + 1 \in Nat /\ No(c, i)' = No(c, i + 1)
        BY <1>3, <1>4, <3>1
      <4>2. QED
        BY <1>7, <2>1, <4>1 DEF Waiting
    <3>2. ASSUME NEW i \in Nat, NEW j \in Nat, Of(c, t, i)', Of(c, t, j)', i < j
          PROVE  No(c, i)' < No(c, j)'
      <4>1. /\ Of(c, t, i + 1) /\ Of(c, t, j + 1) /\ i + 1 < j + 1 /\ i + 1 \in Nat /\ j + 1 \in Nat
            /\ No(c, i)' = No(c, i + 1) /\ No(c, j)' = No(c, j + 1)
        BY <1>3, <1>4, <3>2
      <4>2. QED
        BY <4>1 DEF Waiting
    <3>3. QED
      BY <3>1, <3>2 DEF Waiting
  <2>3. Complete(c, t)'
    BY <1>3, <1>4, <1>5, <1>6, <1>7, <2>1 DEF Waiting, Complete
  <2>4. seen[c][t] # 0 => No(c, 1) = seen[c][t] + 1
    BY <1>5, <1>7 DEF Waiting, Complete
  <2>5. QED
    BY <2>1, <2>2, <2>3, <2>4
<1>8. CASE ~Of(c, t, 1)
  <2>1. Waiting(c, t)'
    <3>1. seen'[c][t] = seen[c][t]
      BY <1>8
    <3>2. ASSUME NEW i \in Nat, Of(c, t, i)'
          PROVE  seen'[c][t] < No(c, i)' /\ No(c, i)' <= Behind(c, t)'
      <4>1. Of(c, t, i + 1) /\ i + 1 \in Nat /\ No(c, i)' = No(c, i + 1)
        BY <1>3, <1>4, <3>2
      <4>2. QED
        BY <3>1, <4>1 DEF Waiting
    <3>3. ASSUME NEW i \in Nat, NEW j \in Nat, Of(c, t, i)', Of(c, t, j)', i < j
          PROVE  No(c, i)' < No(c, j)'
      <4>1. /\ Of(c, t, i + 1) /\ Of(c, t, j + 1) /\ i + 1 < j + 1 /\ i + 1 \in Nat /\ j + 1 \in Nat
            /\ No(c, i)' = No(c, i + 1) /\ No(c, j)' = No(c, j + 1)
        BY <1>3, <1>4, <3>3
      <4>2. QED
        BY <4>1 DEF Waiting
    <3>4. QED
      BY <3>2, <3>3 DEF Waiting
  <2>2. Complete(c, t)'
    <3>1. seen'[c][t] = seen[c][t]
      BY <1>8
    <3>2. ASSUME NEW i \in Nat, Of(c, t, i)', No(c, i)' < Behind(c, t)
          PROVE  \E j \in Nat : i < j /\ Of(c, t, j)' /\ No(c, j)' = No(c, i)' + 1
      <4>1. Of(c, t, i + 1) /\ 1 < i + 1 /\ i + 1 \in Nat /\ No(c, i)' = No(c, i + 1)
        BY <1>3, <1>4, <3>2
      <4>2. PICK j \in Nat : i + 1 < j /\ Of(c, t, j) /\ No(c, j) = No(c, i + 1) + 1
        BY <3>2, <4>1 DEF Complete
      <4>3. Of(c, t, j - 1)' /\ j - 1 \in Nat /\ No(c, j - 1)' = No(c, j) /\ i < j - 1
        BY <1>6, <4>1, <4>2
      <4>4. QED
        BY <4>1, <4>2, <4>3
    <3>3. ASSUME seen[c][t] # 0, seen[c][t] < Behind(c, t)
          PROVE  \E j \in Nat : Of(c, t, j)' /\ No(c, j)' = seen[c][t] + 1
      <4>1. PICK j \in Nat : Of(c, t, j) /\ No(c, j) = seen[c][t] + 1
        BY <3>3 DEF Complete
      <4>2. Of(c, t, j - 1)' /\ j - 1 \in Nat /\ No(c, j - 1)' = No(c, j)
        BY <1>6, <1>8, <4>1
      <4>3. QED
        BY <4>1, <4>2
    <3>4. QED
      BY <3>1, <3>2, <3>3 DEF Complete
  <2>3. QED
    BY <1>8, <2>1, <2>2
<1>9. QED
  BY <1>7, <1>8

LEMMA Untouched ==
    ASSUME NEW c \in Conns, NEW t \in Turns, Waiting(c, t), Complete(c, t), buffer'[c] = buffer[c],
           Behind(c, t)' = Behind(c, t), seen'[c][t] = seen[c][t]
    PROVE  Waiting(c, t)' /\ Complete(c, t)'
<1>1. \A i \in Nat : (Of(c, t, i)' <=> Of(c, t, i)) /\ No(c, i)' = No(c, i)
  BY DEF Of, No
<1>2. QED
  BY <1>1, SameFrames

(* No frame of t, and none seen.                                           *)
LEMMA NoFrames ==
    ASSUME NEW c \in Conns, NEW t \in Turns, \A i \in Nat : ~Of(c, t, i)', seen'[c][t] = 0,
           0 <= Behind(c, t)'
    PROVE  Waiting(c, t)' /\ Complete(c, t)'
BY DEF Waiting, Complete

LEMMA NotBegun ==
    ASSUME IndInv, NEW c \in Conns, conn[c] = "open", NEW t \in Turns, Behind(c, t) <= 0
    PROVE  Behind(c, t) = 0 /\ seen[c][t] = 0 /\ \A i \in Nat : ~Of(c, t, i)
<1>1. Waiting(c, t) /\ Complete(c, t) /\ TypeOK
  BY DEF IndInv, Gapless
<1>2. seen[c][t] \in Nat /\ Behind(c, t) \in Int
  BY <1>1, TurnFacts
<1>3. Behind(c, t) = 0 /\ seen[c][t] = 0
  BY <1>1, <1>2 DEF Complete
<1>4. ASSUME NEW i \in Nat, Of(c, t, i) PROVE FALSE
  <2>1. No(c, i) \in Nat \ {0}
    BY <1>1, <1>4, OfTurn
  <2>2. No(c, i) <= Behind(c, t)
    BY <1>1, <1>4 DEF Waiting
  <2>3. QED
    BY <1>3, <2>1, <2>2
<1>5. QED
  BY <1>3, <1>4

-----------------------------------------------------------------------------
(* A step that leaves every connection as it was.                          *)
Steady == \A c \in Conns, t \in Turns : conn[c] = "open" => Behind(c, t)' = Behind(c, t)
Addressed ==
    \A c \in Conns : \A i \in 1..Len(buffer[c]) :
        ~IsAnswer(buffer[c][i]) /\ buffer[c][i].kind = "echo"
          => turn'[buffer[c][i].turn].origin = turn[buffer[c][i].turn].origin

LEMMA SteadyInd ==
    ASSUME IndInv, Steady, UNCHANGED <<buffer, conn, seen>>
    PROVE  Silent' /\ Gapless'
<1>1. Silent'
  BY DEF IndInv, Silent
<1>2. ASSUME NEW c \in Conns, NEW t \in Turns, conn'[c] = "open"
      PROVE  Waiting(c, t)' /\ Complete(c, t)'
  BY <1>2, Untouched DEF IndInv, Gapless, Steady
<1>3. QED
  BY <1>1, <1>2 DEF Gapless

LEMMA BufferDomain ==
    ASSUME TypeOK, NEW c \in Conns PROVE DOMAIN buffer[c] = 1..Len(buffer[c])
BY BufferType

LEMMA SeparateInd ==
    ASSUME IndInv, TypeOK', Addressed, UNCHANGED buffer,
           \A f \in relayed' : f \in relayed \/ TargetOf[f.turn] = Stream
    PROVE  Separate'
<1>1. ASSUME NEW c \in Conns, NEW i \in DOMAIN buffer'[c], ~IsAnswer(buffer'[c][i]),
             buffer'[c][i].kind = "echo"
      PROVE  turn'[buffer'[c][i].turn].origin = "telegram"
  BY <1>1, BufferDomain DEF IndInv, Separate, Addressed
<1>2. QED
  BY <1>1 DEF IndInv, Separate

LEMMA BeginInd == ASSUME NEW t \in Turns PROVE IndInv /\ Begin(t) => IndInv'
<1> SUFFICES ASSUME IndInv, Begin(t) PROVE IndInv'
  OBVIOUS
<1>1. PICK o \in Origins, p \in Plans :
        /\ turn' = [turn EXCEPT ![t] = [plan |-> p, called |-> 1, left |-> Reaches(t), origin |-> o]]
        /\ turn[t].called = 0 /\ calls + Len(p) <= MaxCalls /\ calls' = calls + Len(p)
        /\ UNCHANGED <<beat, perChat, conn, polled, buffer, listed, shows, seen, relayed>>
  BY DEF Begin, connVars, browserVars
<1>2. TypeOK /\ Reaches(t) \subseteq Conns \cup {Telegram} /\ Len(p) \in Nat \ {0}
      /\ (Telegram \in Reaches(t) => TargetOf[t] = Stream)
      /\ \A c \in Conns : conn[c] = "open" => c \in Reaches(t)
  BY PlanIs DEF IndInv, TypeOK, Reaches
<1>3. /\ turn'[t] = [plan |-> p, called |-> 1, left |-> Reaches(t), origin |-> o]
      /\ \A u \in Turns : u # t => turn'[u] = turn[u]
  BY <1>1, <1>2 DEF TypeOK
<1>4. TypeOK'
  <2>1. turn' \in [Turns -> [plan : Plans, called : Nat, left : SUBSET (Conns \cup {Telegram}),
                            origin : Origins \cup {"none"}]]
    BY <1>1, <1>2 DEF TypeOK
  <2>2. \A u \in Turns : turn'[u].called <= Len(turn'[u].plan)
    <3>1. ASSUME NEW u \in Turns, u = t PROVE turn'[u].called <= Len(turn'[u].plan)
      <4>1. turn'[u].called = 1 /\ turn'[u].plan = p
        BY <1>3, <3>1
      <4>2. QED
        BY <1>2, <4>1
    <3>2. ASSUME NEW u \in Turns, u # t PROVE turn'[u].called <= Len(turn'[u].plan)
      BY <1>2, <1>3, <3>2 DEF TypeOK
    <3>3. QED
      BY <3>1, <3>2
  <2>3. calls' \in 0..MaxCalls
    BY <1>1, <1>2 DEF TypeOK
  <2>4. QED
    BY <1>1, <1>2, <2>1, <2>2, <2>3 DEF TypeOK
<1>5. Routed'
  BY <1>1, <1>2, <1>3 DEF IndInv, Routed
<1>6. \A c \in Conns : conn[c] = "open" =>
        Behind(c, t) = 0 /\ Behind(c, t)' = 0 /\ \A i \in Nat : ~Of(c, t, i)
  <2> SUFFICES ASSUME NEW c \in Conns, conn[c] = "open"
               PROVE  Behind(c, t) = 0 /\ Behind(c, t)' = 0 /\ \A i \in Nat : ~Of(c, t, i)
    OBVIOUS
  <2>1. Behind(c, t) <= 0
    BY <1>1, <1>2, TurnFacts
  <2>2. Behind(c, t)' = 0
    <3>1. turn'[t].left = Reaches(t) /\ turn'[t].called = 1
      BY <1>3
    <3>2. c \in turn'[t].left
      BY <1>2, <3>1
    <3>3. QED
      BY <3>1, <3>2 DEF Behind
  <2>3. QED
    BY <2>1, <2>2, NotBegun
<1>7. Steady
  BY <1>3, <1>6 DEF Steady, Behind
<1>8. Addressed
  <2> SUFFICES ASSUME NEW c \in Conns, NEW i \in 1..Len(buffer[c]), ~IsAnswer(buffer[c][i]),
                      buffer[c][i].kind = "echo"
               PROVE  turn'[buffer[c][i].turn].origin = turn[buffer[c][i].turn].origin
    BY DEF Addressed
  <2>1. buffer[c] \in Seq(Items) /\ buffer[c][i] \in Items /\ i \in Nat /\ Len(buffer[c]) \in Nat
    BY <1>2, BufferType
  <2>2. buffer[c][i].turn \in Turns /\ buffer[c][i].no # 0
    BY <2>1, ItemKinds
  <2>3. conn[c] = "open"
    <3>1. buffer[c] # <<>>
      BY <2>1
    <3>2. QED
      BY <3>1 DEF IndInv, Silent
  <2>4. buffer[c][i].turn # t
    BY <1>6, <2>1, <2>2, <2>3 DEF Of
  <2>5. QED
    BY <1>3, <2>2, <2>4
<1>9. Silent' /\ Gapless'
  BY <1>1, <1>7, SteadyInd
<1>10. Separate'
  BY <1>1, <1>4, <1>8, SeparateInd
<1>11. QED
  BY <1>4, <1>5, <1>9, <1>10 DEF IndInv

(* A call that begins, or is over for one channel, keeps the turn's origin.*)
LEMMA OriginsKept ==
    ASSUME TypeOK, \A u \in Turns : turn'[u].origin = turn[u].origin
    PROVE  Addressed
<1> SUFFICES ASSUME NEW c \in Conns, NEW i \in 1..Len(buffer[c]), ~IsAnswer(buffer[c][i])
             PROVE  turn'[buffer[c][i].turn].origin = turn[buffer[c][i].turn].origin
  BY DEF Addressed
<1>1. buffer[c] \in Seq(Items) /\ buffer[c][i] \in Items
  BY BufferType
<1>2. QED
  BY <1>1, ItemKinds

LEMMA CallInd == ASSUME NEW t \in Turns PROVE IndInv /\ Call(t) => IndInv'
<1> SUFFICES ASSUME IndInv, Call(t) PROVE IndInv'
  OBVIOUS
<1>1. /\ turn[t].called \in 1..(Len(turn[t].plan) - 1) /\ turn[t].left = {}
      /\ turn' = [turn EXCEPT ![t].called = @ + 1, ![t].left = Reaches(t)]
      /\ listed' \in {listed, listed \cup {TargetOf[t]}, listed \ {TargetOf[t]}}
      /\ UNCHANGED <<beat, calls, perChat, conn, polled, buffer, shows, seen, relayed>>
  BY DEF Call, Calls, connVars, browserVars
<1>2. TypeOK /\ Reaches(t) \subseteq Conns \cup {Telegram}
      /\ (Telegram \in Reaches(t) => TargetOf[t] = Stream)
      /\ \A c \in Conns : conn[c] = "open" => c \in Reaches(t)
  BY DEF IndInv, TypeOK, Reaches
<1>3. /\ turn'[t].called = turn[t].called + 1 /\ turn'[t].left = Reaches(t)
      /\ turn'[t].origin = turn[t].origin /\ turn'[t].plan = turn[t].plan
      /\ \A u \in Turns : u # t => turn'[u] = turn[u]
  BY <1>1, <1>2 DEF TypeOK
<1>4. TypeOK'
  <2>1. turn[t] \in TurnRecs /\ turn[t].called + 1 \in Nat /\ turn[t].called + 1 <= Len(turn[t].plan)
    BY <1>1, <1>2, PlanIs DEF TypeOK, TurnRecs
  <2>2. [turn[t] EXCEPT !.called = @ + 1, !.left = Reaches(t)] \in TurnRecs
    BY <1>2, <2>1 DEF TurnRecs
  <2>3. turn' = [turn EXCEPT ![t] = [turn[t] EXCEPT !.called = @ + 1, !.left = Reaches(t)]]
    BY <1>1, <1>2 DEF TypeOK
  <2>4. turn' \in [Turns -> TurnRecs]
    BY <1>2, <2>2, <2>3 DEF TypeOK, TurnRecs
  <2>5. \A u \in Turns : turn'[u].called <= Len(turn'[u].plan)
    BY <1>2, <1>3, <2>1 DEF TypeOK
  <2>6. listed' \subseteq Targets
    BY <1>1, <1>2 DEF TypeOK, Targets
  <2>7. QED
    BY <1>1, <1>2, <2>4, <2>5, <2>6 DEF TypeOK, TurnRecs
<1>5. Routed'
  <2>1. turn[t].origin \in Origins /\ turn'[t].called # 0
    BY <1>1, <1>2, <1>3, TurnFacts DEF IndInv, Routed
  <2>2. QED
    BY <1>1, <1>2, <1>3, <2>1 DEF IndInv, Routed
<1>6. Steady
  <2> SUFFICES ASSUME NEW c \in Conns, NEW u \in Turns, conn[c] = "open"
               PROVE  Behind(c, u)' = Behind(c, u)
    BY DEF Steady
  <2>1. CASE u = t
    <3>1. c \notin turn[t].left /\ c \in turn'[t].left
      BY <1>1, <1>2, <1>3
    <3>2. QED
      BY <1>1, <1>2, <1>3, <2>1, <3>1, TurnFacts DEF Behind
  <2>2. CASE u # t
    BY <1>3, <2>2 DEF Behind
  <2>3. QED
    BY <2>1, <2>2
<1>7. Addressed
  BY <1>2, <1>3, OriginsKept
<1>8. Silent' /\ Gapless'
  BY <1>1, <1>6, SteadyInd
<1>9. Separate'
  BY <1>1, <1>4, <1>7, SeparateInd
<1>10. QED
  BY <1>4, <1>5, <1>8, <1>9 DEF IndInv

(* A channel has got the call of a turn, or of its heartbeat.              *)
LEMMA ReachedFacts ==
    ASSUME IndInv, NEW t \in Turns, NEW ch \in Conns \cup {Telegram}, ch \in turn[t].left, Reached(t, ch)
    PROVE  /\ turn'[t].called = turn[t].called /\ turn'[t].left = turn[t].left \ {ch}
           /\ \A u \in Turns : turn'[u].origin = turn[u].origin
           /\ CallsOK' /\ Routed'
           /\ turn[t].called \in Nat \ {0} /\ turn[t].origin \in Origins
           /\ turn[t].plan \in Plans /\ turn[t].called \in 1..Len(turn[t].plan)
           /\ \A c \in Conns, u \in Turns : c # ch \/ u # t => Behind(c, u)' = Behind(c, u)
<1>1. /\ turn'[t].called = turn[t].called /\ turn'[t].left = turn[t].left \ {ch}
      /\ turn'[t].origin = turn[t].origin /\ turn'[t].plan = turn[t].plan
      /\ \A u \in Turns : u # t => turn'[u] = turn[u]
      /\ turn' \in [Turns -> TurnRecs] /\ UNCHANGED <<beat, calls>>
  <2>1. turn[t] \in TurnRecs
    BY DEF IndInv, TypeOK, TurnRecs
  <2>2. turn' = [turn EXCEPT ![t] = [turn[t] EXCEPT !.left = @ \ {ch}]] /\ UNCHANGED <<beat, calls>>
    BY DEF Reached, IndInv, TypeOK
  <2>3. [turn[t] EXCEPT !.left = @ \ {ch}] \in TurnRecs
    BY <2>1 DEF TurnRecs
  <2>4. turn'[t] = [turn[t] EXCEPT !.left = @ \ {ch}] /\ \A u \in Turns : u # t => turn'[u] = turn[u]
    BY <2>2 DEF IndInv, TypeOK
  <2>5. turn' \in [Turns -> TurnRecs]
    BY <2>2, <2>3 DEF IndInv, TypeOK, TurnRecs
  <2>6. QED
    BY <2>1, <2>2, <2>4, <2>5 DEF TurnRecs
<1>2. Routed'
  BY <1>1 DEF IndInv, Routed
<1>3. CallsOK'
  BY <1>1 DEF IndInv, TypeOK, CallsOK, BeatRecs
<1>4. /\ turn[t].called \in Nat \ {0} /\ turn[t].origin \in Origins
      /\ turn[t].plan \in Plans /\ turn[t].called \in 1..Len(turn[t].plan)
  BY PlanIs DEF IndInv, Routed, TypeOK
<1>5. \A c \in Conns, u \in Turns : c # ch \/ u # t => Behind(c, u)' = Behind(c, u)
  BY <1>1 DEF Behind
<1>6. QED
  BY <1>1, <1>2, <1>3, <1>4, <1>5

LEMMA BeatReachedFacts ==
    ASSUME IndInv, NEW t \in Turns, NEW ch \in Conns \cup {Telegram}, BeatReached(t, ch)
    PROVE  /\ \A u \in Turns : turn'[u].origin = turn[u].origin
           /\ CallsOK' /\ Routed' /\ beat[t].kind \in {"typing", "text"}
           /\ \A c \in Conns, u \in Turns : Behind(c, u)' = Behind(c, u)
<1>1. UNCHANGED <<turn, calls>> /\ beat' = [beat EXCEPT ![t] = [beat[t] EXCEPT !.left = @ \ {ch}]]
  BY DEF BeatReached, IndInv, TypeOK
<1>2. beat[t] \in BeatRecs /\ beat \in [Turns -> BeatRecs]
  BY DEF IndInv, TypeOK, BeatRecs
<1>3. [beat[t] EXCEPT !.left = @ \ {ch}] \in BeatRecs
  BY <1>2 DEF BeatRecs
<1>4. /\ beat' \in [Turns -> BeatRecs] /\ beat'[t].left = beat[t].left \ {ch}
      /\ \A u \in Turns : u # t => beat'[u] = beat[u]
  BY <1>1, <1>2, <1>3 DEF BeatRecs
<1>5. Routed'
  BY <1>1, <1>4 DEF IndInv, Routed
<1>6. CallsOK'
  BY <1>1, <1>4 DEF IndInv, TypeOK, CallsOK, TurnRecs
<1>7. QED
  BY <1>1, <1>2, <1>5, <1>6 DEF BeatRecs, Behind

(* Telegram has got a call of the stream.                                  *)
LEMMA TelegramInd ==
    ASSUME IndInv, CallsOK', Routed', \A u \in Turns : turn'[u].origin = turn[u].origin, Steady,
           NEW f \in Frames, TargetOf[f.turn] = Stream, relayed' \in {relayed, relayed \cup {f}},
           UNCHANGED <<perChat, conn, polled, buffer, listed, shows, seen>>
    PROVE  IndInv'
<1>1. TypeOK'
  BY DEF IndInv, TypeOK, CallsOK, TurnRecs, BeatRecs
<1>2. Addressed
  BY OriginsKept DEF IndInv
<1>3. Silent' /\ Gapless'
  BY SteadyInd
<1>4. \A g \in relayed' : g \in relayed \/ TargetOf[g.turn] = Stream
  OBVIOUS
<1>5. Separate'
  BY <1>1, <1>2, <1>4, SeparateInd
<1>6. QED
  BY <1>1, <1>3, <1>5 DEF IndInv

LEMMA ToTelegramInd == ASSUME NEW t \in Turns PROVE IndInv /\ ToTelegram(t) => IndInv'
<1> SUFFICES ASSUME IndInv, ToTelegram(t) PROVE IndInv'
  OBVIOUS
<1>1. /\ Telegram \in turn[t].left /\ Reached(t, Telegram)
      /\ relayed' \in {relayed, relayed \cup {Own(t)}}
      /\ UNCHANGED <<perChat, conn, polled, buffer, listed, shows, seen>>
  BY DEF ToTelegram, Relays, connVars, browserVars
<1>2. /\ \A u \in Turns : turn'[u].origin = turn[u].origin
      /\ CallsOK' /\ Routed' /\ turn[t].called \in Nat \ {0}
      /\ turn[t].plan \in Plans /\ turn[t].called \in 1..Len(turn[t].plan)
      /\ \A c \in Conns, u \in Turns : c # Telegram \/ u # t => Behind(c, u)' = Behind(c, u)
  BY <1>1, ReachedFacts
<1>3. Kind(t) \in Kinds
  BY <1>2, PlanIs DEF Kind
<1>4. PICK f \in Frames : f = Own(t) /\ f.turn = t
  BY <1>2, <1>3, OwnIs DEF Own
<1>5. TargetOf[t] = Stream /\ Steady
  BY <1>1, <1>2 DEF IndInv, Routed, Steady
<1>6. QED
  BY <1>1, <1>2, <1>4, <1>5, TelegramInd

LEMMA BeatToTelegramInd == ASSUME NEW t \in Turns PROVE IndInv /\ BeatToTelegram(t) => IndInv'
<1> SUFFICES ASSUME IndInv, BeatToTelegram(t) PROVE IndInv'
  OBVIOUS
<1>1. /\ Telegram \in beat[t].left /\ BeatReached(t, Telegram)
      /\ relayed' \in {relayed, relayed \cup {Pulse(t)}}
      /\ UNCHANGED <<perChat, conn, polled, buffer, listed, shows, seen>>
  BY DEF BeatToTelegram, Relays, connVars, browserVars
<1>2. /\ \A u \in Turns : turn'[u].origin = turn[u].origin
      /\ CallsOK' /\ Routed' /\ beat[t].kind \in {"typing", "text"} /\ Steady
  BY <1>1, BeatReachedFacts DEF Steady
<1>3. PICK f \in Frames : f = Pulse(t) /\ f.turn = t
  BY <1>2, PulseIs
<1>4. TargetOf[t] = Stream
  BY <1>1 DEF IndInv, Routed
<1>5. QED
  BY <1>1, <1>2, <1>3, <1>4, TelegramInd

(* A heartbeat begins a call.                                              *)
LEMMA BeatInd ==
    ASSUME IndInv, NEW t \in Turns, NEW b \in {"typing", "text"}, calls' \in 0..MaxCalls,
           beat' = [beat EXCEPT ![t] = [kind |-> b, left |-> Reaches(t)]],
           UNCHANGED <<turn, perChat, conn, polled, buffer, listed, shows, seen, relayed>>
    PROVE  IndInv'
<1>1. TypeOK /\ Reaches(t) \subseteq Conns \cup {Telegram}
      /\ (Telegram \in Reaches(t) => TargetOf[t] = Stream)
  BY DEF IndInv, TypeOK, Reaches
<1>2. /\ beat'[t] = [kind |-> b, left |-> Reaches(t)] /\ \A u \in Turns : u # t => beat'[u] = beat[u]
      /\ beat' \in [Turns -> [kind : {"typing", "text"}, left : SUBSET (Conns \cup {Telegram})]]
  BY <1>1 DEF TypeOK
<1>3. TypeOK'
  BY <1>1, <1>2 DEF TypeOK
<1>4. Routed'
  BY <1>1, <1>2 DEF IndInv, Routed
<1>5. Steady /\ Addressed
  BY DEF Steady, Addressed, Behind
<1>6. Silent' /\ Gapless'
  BY <1>5, SteadyInd
<1>7. Separate'
  BY <1>3, <1>5, SeparateInd
<1>8. QED
  BY <1>3, <1>4, <1>6, <1>7 DEF IndInv

LEMMA TickInd == ASSUME NEW t \in Turns PROVE IndInv /\ (Tick(t) \/ TickText(t)) => IndInv'
<1>1. ASSUME IndInv, Tick(t) PROVE IndInv'
  <2>1. calls' \in 0..MaxCalls
    BY <1>1 DEF IndInv, TypeOK, Tick
  <2>2. /\ beat' = [beat EXCEPT ![t] = [kind |-> "typing", left |-> Reaches(t)]]
        /\ UNCHANGED <<turn, perChat, conn, polled, buffer, listed, shows, seen, relayed>>
    BY <1>1 DEF Tick, connVars, browserVars
  <2>3. QED
    BY <1>1, <2>1, <2>2, BeatInd
<1>2. ASSUME IndInv, TickText(t) PROVE IndInv'
  <2>1. /\ beat' = [beat EXCEPT ![t] = [kind |-> "text", left |-> Reaches(t)]] /\ calls' \in 0..MaxCalls
        /\ UNCHANGED <<turn, perChat, conn, polled, buffer, listed, shows, seen, relayed>>
    BY <1>2 DEF IndInv, TypeOK, TickText, connVars, browserVars
  <2>2. QED
    BY <1>2, <2>1, BeatInd
<1>3. QED
  BY <1>1, <1>2

-----------------------------------------------------------------------------
(* A step that changes one connection, an open one.                        *)
TurnStep(c) ==
    /\ CallsOK' /\ Routed'
    /\ \A u \in Turns : turn'[u].origin = turn[u].origin
    /\ \A d \in Conns, u \in Turns : d # c => Behind(d, u)' = Behind(d, u)

LEMMA BufferInd ==
    ASSUME IndInv, NEW c \in Conns, conn[c] = "open", TurnStep(c),
           NEW q \in Seq(Items), Len(q) <= Capacity, buffer' = [buffer EXCEPT ![c] = q],
           seen' \in [Conns -> [Turns -> Nat]], \A d \in Conns : d # c => seen'[d] = seen[d],
           \/ conn' = conn
           \/ conn' = [conn EXCEPT ![c] = "cancelled"] /\ q = <<>> /\ seen'[c] = NothingSeen,
           polled' \subseteq Conns, shows' \subseteq Targets, UNCHANGED <<perChat, listed, relayed>>,
           conn'[c] = "open" => \A u \in Turns : Waiting(c, u)' /\ Complete(c, u)',
           \A i \in 1..Len(q) :
               ~IsAnswer(q[i]) /\ q[i].kind = "echo" => turn[q[i].turn].origin = "telegram"
    PROVE  IndInv'
<1>1. TypeOK /\ buffer'[c] = q /\ \A d \in Conns : d # c => buffer'[d] = buffer[d] /\ conn'[d] = conn[d]
  BY DEF IndInv, TypeOK
<1>2. TypeOK'
  <2>1. buffer' \in [Conns -> Seq(Items)]
    BY <1>1 DEF TypeOK, Items
  <2>2. \A d \in Conns : Len(buffer'[d]) <= Capacity
    BY <1>1 DEF TypeOK
  <2>3. conn' \in [Conns -> {"none", "open", "cancelled", "gone"}]
    BY <1>1 DEF TypeOK
  <2>4. \A d \in Conns : d \in perChat' <=> conn'[d] \in {"open", "cancelled"}
    BY <1>1 DEF TypeOK
  <2>5. perChat' \subseteq Conns /\ listed' \subseteq Targets /\ relayed' \subseteq Frames
    BY <1>1 DEF TypeOK
  <2>6. QED
    BY <2>1, <2>2, <2>3, <2>4, <2>5 DEF TypeOK, TurnStep, Items, CallsOK, TurnRecs, BeatRecs
<1>3. Silent'
  <2>1. ASSUME NEW d \in Conns, conn'[d] # "open" PROVE buffer'[d] = <<>> /\ seen'[d] = NothingSeen
    <3>1. CASE d = c
      BY <1>1, <2>1, <3>1 DEF TypeOK
    <3>2. CASE d # c
      BY <1>1, <2>1, <3>2 DEF IndInv, Silent
    <3>3. QED
      BY <3>1, <3>2
  <2>2. QED
    BY <2>1 DEF Silent
<1>4. ASSUME NEW d \in Conns, NEW u \in Turns, conn'[d] = "open"
      PROVE  Waiting(d, u)' /\ Complete(d, u)'
  <2>1. CASE d = c
    BY <1>4, <2>1
  <2>2. CASE d # c
    <3>1. Waiting(d, u) /\ Complete(d, u)
      BY <1>1, <1>4, <2>2 DEF IndInv, Gapless
    <3>2. Behind(d, u)' = Behind(d, u)
      BY <2>2 DEF TurnStep
    <3>3. buffer'[d] = buffer[d] /\ seen'[d][u] = seen[d][u]
      BY <1>1, <2>2
    <3>4. QED
      BY <3>1, <3>2, <3>3, Untouched
  <2>3. QED
    BY <2>1, <2>2
<1>5. ASSUME NEW d \in Conns, NEW i \in DOMAIN buffer'[d], ~IsAnswer(buffer'[d][i]),
             buffer'[d][i].kind = "echo"
      PROVE  turn'[buffer'[d][i].turn].origin = "telegram"
  <2>1. buffer'[d] \in Seq(Items) /\ i \in 1..Len(buffer'[d]) /\ buffer'[d][i] \in Items
    <3>1. buffer'[d] \in Seq(Items)
      BY <1>1, BufferType
    <3>2. QED
      BY <3>1
  <2>2. buffer'[d][i].turn \in Turns
    BY <1>5, <2>1, ItemKinds
  <2>3. turn[buffer'[d][i].turn].origin = "telegram"
    <3>1. CASE d = c
      BY <1>1, <1>5, <2>1, <3>1
    <3>2. CASE d # c
      BY <1>1, <1>5, <3>2 DEF IndInv, Separate
    <3>3. QED
      BY <3>1, <3>2
  <2>4. QED
    BY <2>2, <2>3 DEF TurnStep
<1>6. Separate'
  BY <1>1, <1>5 DEF IndInv, Separate
<1>7. QED
  BY <1>2, <1>3, <1>4, <1>6 DEF IndInv, TurnStep, Gapless

(* Nothing happens to the turns.                                           *)
LEMMA TurnsStay ==
    ASSUME IndInv, UNCHANGED <<turn, beat, calls>>, NEW c \in Conns
    PROVE  TurnStep(c) /\ \A d \in Conns, u \in Turns : Behind(d, u)' = Behind(d, u)
BY DEF IndInv, TypeOK, TurnStep, Routed, Behind, CallsOK, TurnRecs, BeatRecs

(* What waits in a buffer was not typed in a browser.                      *)
LEMMA WaitingSeparate ==
    ASSUME IndInv, NEW c \in Conns
    PROVE  \A i \in 1..Len(buffer[c]) :
               ~IsAnswer(buffer[c][i]) /\ buffer[c][i].kind = "echo"
                 => turn[buffer[c][i].turn].origin = "telegram"
<1>1. TypeOK
  BY DEF IndInv
<1>2. QED
  BY <1>1, BufferDomain DEF IndInv, Separate

(* The connection is closed: by its peer, or because its buffer is full.   *)
LEMMA CancelInd ==
    ASSUME IndInv, NEW c \in Conns, conn[c] = "open", TurnStep(c), Cancel(c),
           UNCHANGED <<perChat, listed, shows, relayed>>
    PROVE  IndInv'
<1>1. PICK q : q = <<>> /\ q \in Seq(Items)
  <2>1. <<>> \in Seq(Items)
    OBVIOUS
  <2>2. QED
    BY <2>1
<1>2. TypeOK
  BY DEF IndInv
<1>3. /\ buffer' = [buffer EXCEPT ![c] = q] /\ Len(q) = 0 /\ Len(q) <= Capacity
      /\ conn' = [conn EXCEPT ![c] = "cancelled"] /\ conn'[c] # "open"
  BY <1>1, <1>2 DEF Cancel, TypeOK
<1>4. /\ seen' \in [Conns -> [Turns -> Nat]] /\ seen'[c] = NothingSeen
      /\ \A d \in Conns : d # c => seen'[d] = seen[d]
  BY <1>2 DEF Cancel, TypeOK, NothingSeen
<1>5. polled' \subseteq Conns /\ shows' \subseteq Targets
  BY <1>2 DEF Cancel, TypeOK
<1>6. \A i \in 1..Len(q) :
        ~IsAnswer(q[i]) /\ q[i].kind = "echo" => turn[q[i].turn].origin = "telegram"
  BY <1>3
<1>7. QED
  BY <1>1, <1>3, <1>4, <1>5, <1>6, BufferInd

(* A frame or an answer is buffered.                                       *)
LEMMA BufferedInd ==
    ASSUME IndInv, NEW c \in Conns, conn[c] = "open", TurnStep(c), NEW f \in Items, Buffered(c, f),
           Len(buffer[c]) < Capacity, polled' \subseteq Conns,
           UNCHANGED <<perChat, listed, shows, relayed>>,
           \A u \in Turns : Waiting(c, u)' /\ Complete(c, u)',
           IsAnswer(f) \/ f.kind # "echo" \/ turn[f.turn].origin = "telegram"
    PROVE  IndInv'
<1>1. TypeOK /\ buffer[c] \in Seq(Items)
  BY BufferType DEF IndInv
<1>2. PICK q : q = Append(buffer[c], f) /\ q \in Seq(Items)
  BY <1>1, AppendIs
<1>3. /\ Len(q) = Len(buffer[c]) + 1 /\ Len(buffer[c]) \in Nat /\ q[Len(buffer[c]) + 1] = f
      /\ \A i \in 1..Len(buffer[c]) : q[i] = buffer[c][i]
  BY <1>1, <1>2, AppendIs
<1>4. /\ buffer' = [buffer EXCEPT ![c] = q] /\ Len(q) <= Capacity /\ conn' = conn
      /\ seen' \in [Conns -> [Turns -> Nat]] /\ \A d \in Conns : d # c => seen'[d] = seen[d]
      /\ shows' \subseteq Targets
  BY <1>1, <1>2, <1>3 DEF Buffered, TypeOK
<1>5. ASSUME NEW i \in 1..Len(q), ~IsAnswer(q[i]), q[i].kind = "echo"
      PROVE  turn[q[i].turn].origin = "telegram"
  <2>1. CASE i = Len(buffer[c]) + 1
    BY <1>3, <1>5, <2>1
  <2>2. CASE i \in 1..Len(buffer[c])
    BY <1>3, <1>5, <2>2, WaitingSeparate
  <2>3. QED
    BY <1>3, <2>1, <2>2
<1>6. QED
  BY <1>2, <1>4, <1>5, BufferInd

(* A call reaches a connection whose context is cancelled.                 *)
LEMMA ClosedInd ==
    ASSUME IndInv, NEW c \in Conns, conn[c] # "open", TurnStep(c),
           UNCHANGED <<perChat, conn, polled, buffer, listed, shows, seen, relayed>>
    PROVE  IndInv'
<1>1. TypeOK'
  BY DEF IndInv, TypeOK, TurnStep, CallsOK, TurnRecs, BeatRecs
<1>2. Steady /\ Addressed
  BY OriginsKept DEF IndInv, TurnStep, Steady
<1>3. Silent' /\ Gapless'
  BY <1>2, SteadyInd
<1>4. Separate'
  BY <1>1, <1>2, SeparateInd
<1>5. QED
  BY <1>1, <1>3, <1>4 DEF IndInv, TurnStep

(* Input typed in a browser is not pushed.                                 *)
LEMMA SkippedInd ==
    ASSUME IndInv, NEW c \in Conns, conn[c] = "open", TurnStep(c),
           UNCHANGED <<perChat, conn, polled, buffer, listed, shows, seen, relayed>>,
           \A u \in Turns : Waiting(c, u)' /\ Complete(c, u)'
    PROVE  IndInv'
<1>1. TypeOK /\ buffer[c] \in Seq(Items) /\ Len(buffer[c]) <= Capacity
  BY BufferType DEF IndInv, TypeOK
<1>2. PICK q : q = buffer[c] /\ q \in Seq(Items)
  BY <1>1
<1>3. /\ buffer' = [buffer EXCEPT ![c] = q] /\ Len(q) <= Capacity /\ conn' = conn
      /\ seen' \in [Conns -> [Turns -> Nat]] /\ \A d \in Conns : d # c => seen'[d] = seen[d]
      /\ shows' \subseteq Targets /\ polled' \subseteq Conns
  BY <1>1, <1>2 DEF TypeOK
<1>4. \A i \in 1..Len(q) :
        ~IsAnswer(q[i]) /\ q[i].kind = "echo" => turn[q[i].turn].origin = "telegram"
  BY <1>2, WaitingSeparate
<1>5. QED
  BY <1>2, <1>3, <1>4, BufferInd

(* What a call leaves in an open connection: itself, nothing, or the       *)
(* connection closed.                                                      *)
LEMMA PushInd ==
    ASSUME IndInv, NEW c \in Conns, conn[c] = "open", TurnStep(c), NEW f \in Items, ~IsAnswer(f),
           f.kind # "echo" \/ turn[f.turn].origin = "telegram",
           Push(c, f), UNCHANGED <<perChat, listed, shows, relayed>>,
           buffer'[c] = Append(buffer[c], f) /\ seen' = seen
              => \A u \in Turns : Waiting(c, u)' /\ Complete(c, u)'
    PROVE  IndInv'
<1>1. TypeOK
  BY DEF IndInv
<1>2. CASE Len(buffer[c]) < Capacity
  <2>1. Buffered(c, f) /\ UNCHANGED polled
    BY <1>2 DEF Push
  <2>2. buffer'[c] = Append(buffer[c], f) /\ seen' = seen /\ polled' \subseteq Conns
    BY <1>1, <2>1 DEF Buffered, TypeOK
  <2>3. QED
    BY <1>2, <2>1, <2>2, BufferedInd
<1>3. CASE ~(Len(buffer[c]) < Capacity)
  BY <1>3, CancelInd DEF Push
<1>4. QED
  BY <1>2, <1>3

LEMMA ToConnInd ==
    ASSUME NEW t \in Turns, NEW c \in Conns PROVE IndInv /\ ToConn(t, c) => IndInv'
<1> SUFFICES ASSUME IndInv, ToConn(t, c) PROVE IndInv'
  OBVIOUS
<1>1. /\ c \in turn[t].left /\ Reached(t, c) /\ Sends(c, Own(t))
      /\ UNCHANGED <<perChat, listed, shows, relayed>>
  BY DEF ToConn, NextIn
<1>2. /\ turn'[t].called = turn[t].called /\ turn'[t].left = turn[t].left \ {c}
      /\ turn[t].called \in Nat \ {0} /\ turn[t].origin \in Origins
      /\ turn[t].plan \in Plans /\ turn[t].called \in 1..Len(turn[t].plan)
      /\ \A u \in Turns : u # t => Behind(c, u)' = Behind(c, u)
      /\ TurnStep(c)
  BY <1>1, ReachedFacts DEF TurnStep
<1>3. Behind(c, t) = turn[t].called - 1 /\ Behind(c, t)' = turn[t].called
  BY <1>1, <1>2 DEF Behind
<1>4. TypeOK /\ \A d \in Conns, u \in Turns : conn[d] = "open" => Waiting(d, u) /\ Complete(d, u)
  BY DEF IndInv, Gapless
<1>5. Kind(t) \in Kinds /\ (Kind(t) = "echo" => turn[t].called = 1)
  BY <1>2, PlanIs DEF Kind
<1>6. PICK f \in Items : /\ f = Own(t) /\ f = Frame(t, turn[t].called, Kind(t)) /\ ~IsAnswer(f)
                         /\ f.turn = t /\ f.kind = Kind(t)
  BY <1>2, <1>5, OwnIs DEF Own
<1>7. CASE conn[c] # "open"
  <2>1. UNCHANGED <<buffer, conn, polled, seen>>
    BY <1>1, <1>7 DEF Sends, Push
  <2>2. QED
    BY <1>1, <1>2, <1>7, <2>1, ClosedInd
<1>8. CASE conn[c] = "open" /\ f.kind = "echo" /\ turn[t].origin = "web"
  <2>1. UNCHANGED <<buffer, conn, polled, seen>>
    BY <1>1, <1>6, <1>8 DEF Sends
  <2>2. Waiting(c, t)' /\ Complete(c, t)'
    <3>1. seen[c][t] = 0 /\ \A i \in Nat : ~Of(c, t, i)
      BY <1>3, <1>5, <1>6, <1>8, NotBegun
    <3>2. \A i \in Nat : ~Of(c, t, i)'
      BY <2>1, <3>1 DEF Of
    <3>3. seen'[c][t] = 0 /\ 0 <= Behind(c, t)'
      BY <1>2, <1>3, <2>1, <3>1
    <3>4. QED
      BY <3>2, <3>3, NoFrames
  <2>3. ASSUME NEW u \in Turns, u # t PROVE Waiting(c, u)' /\ Complete(c, u)'
    <3>1. Behind(c, u)' = Behind(c, u) /\ buffer'[c] = buffer[c] /\ seen'[c][u] = seen[c][u]
      BY <1>2, <2>1, <2>3
    <3>2. QED
      BY <1>4, <1>8, <3>1, Untouched
  <2>4. QED
    BY <1>1, <1>2, <1>8, <2>1, <2>2, <2>3, SkippedInd
<1>9. CASE conn[c] = "open" /\ ~(f.kind = "echo" /\ turn[t].origin = "web")
  <2>1. Push(c, f)
    BY <1>1, <1>6, <1>9 DEF Sends
  <2>2. ASSUME buffer'[c] = Append(buffer[c], f), seen' = seen, NEW u \in Turns
        PROVE  Waiting(c, u)' /\ Complete(c, u)'
    <3>1. CASE u = t
      <4>1. buffer'[c] = Append(buffer[c], Frame(t, turn[t].called, Kind(t))) /\ seen'[c][t] = seen[c][t]
        BY <1>6, <2>2
      <4>2. Waiting(c, t)' /\ Complete(c, t)'
        BY <1>2, <1>3, <1>4, <1>5, <1>9, <4>1, OneMoreCall
      <4>3. QED
        BY <3>1, <4>2
    <3>2. CASE u # t
      <4>1. Behind(c, u)' = Behind(c, u) /\ seen'[c][u] = seen[c][u] /\ f.turn # u
        BY <1>2, <1>6, <2>2, <3>2
      <4>2. QED
        BY <1>4, <1>9, <2>2, <4>1, OtherItem
    <3>3. QED
      BY <3>1, <3>2
  <2>3. f.kind # "echo" \/ turn[f.turn].origin = "telegram"
    BY <1>2, <1>6, <1>9 DEF Origins
  <2>4. QED
    BY <1>1, <1>2, <1>6, <1>9, <2>1, <2>2, <2>3, PushInd
<1>10. QED
  BY <1>7, <1>8, <1>9

LEMMA BeatToConnInd ==
    ASSUME NEW t \in Turns, NEW c \in Conns PROVE IndInv /\ BeatToConn(t, c) => IndInv'
<1> SUFFICES ASSUME IndInv, BeatToConn(t, c) PROVE IndInv'
  OBVIOUS
<1>1. BeatReached(t, c) /\ Sends(c, Pulse(t)) /\ UNCHANGED <<perChat, listed, shows, relayed>>
  BY DEF BeatToConn
<1>2. /\ TurnStep(c) /\ beat[t].kind \in {"typing", "text"}
      /\ \A u \in Turns : Behind(c, u)' = Behind(c, u)
  BY <1>1, BeatReachedFacts DEF TurnStep
<1>3. PICK f \in Items : f = Pulse(t) /\ ~IsAnswer(f) /\ f.no = 0 /\ f.kind # "echo"
  BY <1>2, PulseIs
<1>4. Push(c, f)
  BY <1>1, <1>3 DEF Sends
<1>5. CASE conn[c] # "open"
  BY <1>1, <1>2, <1>4, <1>5, ClosedInd DEF Push
<1>6. CASE conn[c] = "open"
  <2>1. ASSUME buffer'[c] = Append(buffer[c], f), seen' = seen, NEW u \in Turns
        PROVE  Waiting(c, u)' /\ Complete(c, u)'
    <3>1. TypeOK /\ Waiting(c, u) /\ Complete(c, u)
      BY <1>6 DEF IndInv, Gapless
    <3>2. QED
      BY <1>2, <1>3, <2>1, <3>1, OtherItem
  <2>2. QED
    BY <1>1, <1>2, <1>3, <1>4, <1>6, <2>1, PushInd
<1>7. QED
  BY <1>5, <1>6

LEMMA PollInd == ASSUME NEW c \in Conns PROVE IndInv /\ Poll(c) => IndInv'
<1> SUFFICES ASSUME IndInv, Poll(c) PROVE IndInv'
  OBVIOUS
<1>1. conn[c] = "open" /\ UNCHANGED <<turn, beat, calls, perChat, listed, shows, relayed>>
  BY DEF Poll
<1>2. TurnStep(c) /\ \A u \in Turns : Behind(c, u)' = Behind(c, u)
  BY <1>1, TurnsStay
<1>3. TypeOK /\ \A u \in Turns : Waiting(c, u) /\ Complete(c, u)
  BY <1>1 DEF IndInv, Gapless
<1>4. CASE Cancel(c)
  BY <1>1, <1>2, <1>4, CancelInd
<1>5. CASE /\ Len(buffer[c]) < Capacity /\ Buffered(c, Answer(listed))
           /\ polled' = polled \cup {c}
  <2>1. PICK f : f = Answer(listed) /\ f \in Items /\ IsAnswer(f)
    BY <1>3, AnswerIs DEF TypeOK
  <2>2. buffer'[c] = Append(buffer[c], f) /\ seen' = seen /\ polled' \subseteq Conns
    BY <1>3, <1>5, <2>1 DEF Buffered, TypeOK
  <2>3. ASSUME NEW u \in Turns PROVE Waiting(c, u)' /\ Complete(c, u)'
    BY <1>2, <1>3, <2>1, <2>2, OtherItem
  <2>4. QED
    BY <1>1, <1>2, <1>5, <2>1, <2>2, <2>3, BufferedInd
<1>6. QED
  BY <1>4, <1>5 DEF Poll

LEMMA DisconnectInd == ASSUME NEW c \in Conns PROVE IndInv /\ Disconnect(c) => IndInv'
<1> SUFFICES ASSUME IndInv, Disconnect(c) PROVE IndInv'
  OBVIOUS
<1>1. conn[c] = "open" /\ Cancel(c) /\ UNCHANGED <<turn, beat, calls, perChat, listed, shows, relayed>>
  BY DEF Disconnect
<1>2. QED
  BY <1>1, TurnsStay, CancelInd

-----------------------------------------------------------------------------
(* What a write does to the frames of every turn.                          *)
LEMMA WriteFacts ==
    ASSUME IndInv, NEW c \in Conns, Write(c)
    PROVE  /\ conn[c] = "open" /\ seen' \in [Conns -> [Turns -> Nat]]
           /\ \A d \in Conns : d # c => seen'[d] = seen[d]
           /\ polled' \subseteq Conns /\ shows' \subseteq Targets
           /\ \A u \in Turns : /\ Waiting(c, u)' /\ Complete(c, u)'
                               /\ seen[c][u] # 0 => seen'[c][u] \in {seen[c][u], seen[c][u] + 1}
<1>1. TypeOK /\ buffer[c] \in Seq(Items) /\ conn[c] = "open" /\ buffer[c] # <<>>
      /\ buffer'[c] = Tail(buffer[c]) /\ UNCHANGED turn
  BY BufferType DEF IndInv, Write, TypeOK
<1>2. PICK f : f = Head(buffer[c]) /\ f = buffer[c][1] /\ f \in Items /\ Handles(c, f)
               /\ Len(buffer[c]) \in Nat \ {0}
  BY <1>1, TailIs DEF Write
<1>3. \A u \in Turns : Of(c, u, 1) <=> ~IsAnswer(f) /\ f.turn = u /\ f.no # 0
  BY <1>2 DEF Of
<1>4. \A u \in Turns : Waiting(c, u) /\ Complete(c, u) /\ Behind(c, u)' = Behind(c, u)
  BY <1>1 DEF IndInv, Gapless, Behind
<1>5. /\ seen' \in [Conns -> [Turns -> Nat]] /\ \A d \in Conns : d # c => seen'[d] = seen[d]
      /\ polled' \subseteq Conns /\ shows' \subseteq Targets
      /\ \A u \in Turns : IF Of(c, u, 1) THEN seen'[c][u] = No(c, 1) ELSE seen'[c][u] = seen[c][u]
  <2>1. CASE IsAnswer(f)
    <3>1. shows' = shows \cap f.workers /\ polled' = polled \ {c} /\ UNCHANGED seen
      BY <1>2, <2>1 DEF Handles
    <3>2. QED
      BY <1>1, <1>3, <2>1, <3>1 DEF TypeOK
  <2>2. CASE ~IsAnswer(f)
    <3>1. f.no \in Nat /\ f.turn \in Turns
      BY <1>2, <2>2, ItemKinds
    <3>2. shows' \in {shows \cup {TargetOf[f.turn]}, shows \ {TargetOf[f.turn]}, shows} /\ UNCHANGED polled
      BY <1>2, <2>2 DEF Handles
    <3>3. shows' \subseteq Targets /\ polled' \subseteq Conns
      BY <1>1, <3>1, <3>2 DEF TypeOK, Targets
    <3>4. seen \in [Conns -> [Turns -> Nat]]
      BY <1>1 DEF TypeOK
    <3>5. PICK k \in Nat : k = IF f.no = 0 THEN seen[c][f.turn] ELSE f.no
      BY <3>1, <3>4
    <3>6. seen' = [seen EXCEPT ![c] = [seen[c] EXCEPT ![f.turn] = k]]
      BY <1>2, <2>2, <3>1, <3>4, <3>5 DEF Handles
    <3>7. [seen[c] EXCEPT ![f.turn] = k] \in [Turns -> Nat]
      BY <3>1, <3>4, <3>5
    <3>8. seen' \in [Conns -> [Turns -> Nat]] /\ \A d \in Conns : d # c => seen'[d] = seen[d]
      BY <3>4, <3>6, <3>7
    <3>9. \A u \in Turns : seen'[c][u] = IF u = f.turn THEN k ELSE seen[c][u]
      BY <3>1, <3>4, <3>6
    <3>10. QED
      BY <1>2, <1>3, <2>2, <3>3, <3>5, <3>8, <3>9 DEF No
  <2>3. QED
    BY <2>1, <2>2
<1>6. ASSUME NEW u \in Turns
      PROVE  /\ Waiting(c, u)' /\ Complete(c, u)'
             /\ seen[c][u] # 0 => seen'[c][u] \in {seen[c][u], seen[c][u] + 1}
  BY <1>1, <1>4, <1>5, HeadGone
<1>7. QED
  BY <1>1, <1>5, <1>6

LEMMA WriteInd == ASSUME NEW c \in Conns PROVE IndInv /\ Write(c) => IndInv'
<1> SUFFICES ASSUME IndInv, Write(c) PROVE IndInv'
  OBVIOUS
<1>1. /\ conn[c] = "open" /\ buffer[c] # <<>>
      /\ buffer' = [buffer EXCEPT ![c] = Tail(buffer[c])]
      /\ UNCHANGED <<turn, beat, calls, perChat, conn, listed, relayed>>
  BY DEF Write
<1>2. TurnStep(c)
  BY <1>1, TurnsStay
<1>3. TypeOK /\ buffer[c] \in Seq(Items) /\ Len(buffer[c]) <= Capacity
  BY BufferType DEF IndInv, TypeOK
<1>4. PICK q : q = Tail(buffer[c]) /\ q \in Seq(Items)
  BY <1>1, <1>3, TailIs
<1>5. /\ Len(q) = Len(buffer[c]) - 1 /\ Len(buffer[c]) \in Nat \ {0} /\ Capacity \in Nat
      /\ \A i \in 1..Len(q) : q[i] = buffer[c][i + 1]
  BY <1>1, <1>3, <1>4, TailIs
<1>6. buffer' = [buffer EXCEPT ![c] = q] /\ Len(q) <= Capacity
  BY <1>1, <1>3, <1>4, <1>5
<1>7. ASSUME NEW i \in 1..Len(q), ~IsAnswer(q[i]), q[i].kind = "echo"
      PROVE  turn[q[i].turn].origin = "telegram"
  <2>1. q[i] = buffer[c][i + 1] /\ i + 1 \in 1..Len(buffer[c])
    BY <1>5
  <2>2. QED
    BY <1>7, <2>1, WaitingSeparate
<1>8. /\ seen' \in [Conns -> [Turns -> Nat]] /\ \A d \in Conns : d # c => seen'[d] = seen[d]
      /\ polled' \subseteq Conns /\ shows' \subseteq Targets
      /\ \A u \in Turns : Waiting(c, u)' /\ Complete(c, u)'
  BY WriteFacts
<1>9. QED
  BY <1>1, <1>2, <1>4, <1>6, <1>7, <1>8, BufferInd

(* A connection is registered: it has no frames, and no turn waits for it. *)
LEMMA ConnectInd == ASSUME NEW c \in Conns PROVE IndInv /\ Connect(c) => IndInv'
<1> SUFFICES ASSUME IndInv, Connect(c) PROVE IndInv'
  OBVIOUS
<1>1. /\ conn[c] = "none" /\ conn' = [conn EXCEPT ![c] = "open"] /\ perChat' = perChat \cup {c}
      /\ UNCHANGED <<turn, beat, calls, buffer, polled, listed, shows, seen, relayed>>
  BY DEF Connect, browserVars
<1>2. TypeOK /\ buffer[c] = <<>> /\ seen[c] = NothingSeen
  BY <1>1 DEF IndInv, Silent
<1>3. TypeOK' /\ Routed' /\ Separate'
  BY <1>1, <1>2 DEF IndInv, TypeOK, Routed, Separate
<1>4. conn'[c] = "open" /\ \A d \in Conns : d # c => conn'[d] = conn[d]
  BY <1>1, <1>2 DEF TypeOK
<1>5. Silent'
  BY <1>1, <1>4 DEF IndInv, Silent
<1>6. ASSUME NEW d \in Conns, NEW u \in Turns, conn'[d] = "open"
      PROVE  Waiting(d, u)' /\ Complete(d, u)'
  <2>1. CASE d = c
    <3>1. \A i \in Nat : ~Of(d, u, i)'
      BY <1>1, <1>2, <2>1 DEF Of
    <3>2. seen'[d][u] = 0
      BY <1>1, <1>2, <2>1 DEF NothingSeen
    <3>3. 0 <= Behind(d, u)'
      BY <1>1, <1>2, TurnFacts DEF IndInv, Routed, Behind
    <3>4. QED
      BY <3>1, <3>2, <3>3, NoFrames
  <2>2. CASE d # c
    <3>1. Waiting(d, u) /\ Complete(d, u)
      BY <1>4, <1>6, <2>2 DEF IndInv, Gapless
    <3>2. Behind(d, u)' = Behind(d, u) /\ buffer'[d] = buffer[d] /\ seen'[d][u] = seen[d][u]
      BY <1>1 DEF Behind
    <3>3. QED
      BY <3>1, <3>2, Untouched
  <2>3. QED
    BY <2>1, <2>2
<1>7. QED
  BY <1>3, <1>5, <1>6 DEF IndInv, Gapless

LEMMA UnregisterInd == ASSUME NEW c \in Conns PROVE IndInv /\ Unregister(c) => IndInv'
<1> SUFFICES ASSUME IndInv, Unregister(c) PROVE IndInv'
  OBVIOUS
<1>1. /\ conn[c] = "cancelled" /\ conn' = [conn EXCEPT ![c] = "gone"] /\ perChat' = perChat \ {c}
      /\ UNCHANGED <<turn, beat, calls, buffer, polled, listed, shows, seen, relayed>>
  BY DEF Unregister, browserVars
<1>2. TypeOK
  BY DEF IndInv
<1>3. TypeOK' /\ Routed' /\ Separate'
  BY <1>1, <1>2 DEF IndInv, TypeOK, Routed, Separate
<1>4. conn'[c] = "gone" /\ \A d \in Conns : d # c => conn'[d] = conn[d]
  BY <1>1, <1>2 DEF TypeOK
<1>5. Silent'
  BY <1>1, <1>4 DEF IndInv, Silent
<1>6. ASSUME NEW d \in Conns, NEW u \in Turns, conn'[d] = "open"
      PROVE  Waiting(d, u)' /\ Complete(d, u)'
  <2>1. d # c /\ Waiting(d, u) /\ Complete(d, u)
    BY <1>4, <1>6 DEF IndInv, Gapless
  <2>2. Behind(d, u)' = Behind(d, u) /\ buffer'[d] = buffer[d] /\ seen'[d][u] = seen[d][u]
    BY <1>1 DEF Behind
  <2>3. QED
    BY <2>1, <2>2, Untouched
<1>7. QED
  BY <1>3, <1>5, <1>6 DEF IndInv, Gapless

LEMMA StutterInd == IndInv /\ UNCHANGED vars => IndInv'
<1> SUFFICES ASSUME IndInv, UNCHANGED vars PROVE IndInv'
  OBVIOUS
<1>1. UNCHANGED <<turn, beat, calls, perChat, conn, polled, buffer, listed, shows, seen, relayed>>
  BY DEF vars, connVars, browserVars
<1>2. TypeOK' /\ Routed' /\ Separate'
  BY <1>1 DEF IndInv, TypeOK, Routed, Separate
<1>3. Steady
  BY <1>1 DEF Steady, Behind
<1>4. Silent' /\ Gapless'
  BY <1>1, <1>3, SteadyInd
<1>5. QED
  BY <1>2, <1>4 DEF IndInv

LEMMA StepInd == IndInv /\ [Next]_vars => IndInv'
<1> SUFFICES ASSUME IndInv, [Next]_vars PROVE IndInv'
  OBVIOUS
<1>1. ASSUME NEW t \in Turns, Turn(t) PROVE IndInv'
  BY <1>1, BeginInd, CallInd, ToTelegramInd, ToConnInd DEF Turn
<1>2. ASSUME NEW c \in Conns, Server(c) \/ Write(c) \/ Poll(c) \/ Disconnect(c) PROVE IndInv'
  BY <1>2, ConnectInd, UnregisterInd, WriteInd, PollInd, DisconnectInd DEF Server
<1>3. ASSUME NEW t \in Turns, Heartbeat(t) PROVE IndInv'
  BY <1>3, TickInd, BeatToTelegramInd, BeatToConnInd DEF Heartbeat
<1>4. QED
  BY <1>1, <1>2, <1>3, StutterInd DEF Next

-----------------------------------------------------------------------------
(* What a connection buffers of a turn is the calls after the last one     *)
(* seen, without a gap (hub.go, chatcontrol.go).                           *)
THEOREM Invariance == Spec => []IndInv
<1>1. Init => IndInv
  BY InitInd
<1>2. IndInv /\ [Next]_vars => IndInv'
  BY StepInd
<1>3. QED
  BY <1>1, <1>2, PTL DEF Spec

(* Telegram gets the stream only, and no browser gets back what was typed  *)
(* in one (Hub.targets, remoteChatChannel.Send).                           *)
THEOREM Separation == Spec => []Separate
<1>1. IndInv => Separate
  BY DEF IndInv
<1>2. QED
  BY <1>1, Invariance, PTL

LEMMA CancelGap ==
    ASSUME IndInv, NEW c \in Conns, Cancel(c)
    PROVE  \A d \in Conns, t \in Turns :
               seen[d][t] # 0 /\ conn'[d] = "open"
                  => seen'[d][t] \in {seen[d][t], seen[d][t] + 1}
BY DEF IndInv, TypeOK, Cancel

LEMMA WriteGap ==
    ASSUME IndInv, NEW c \in Conns, Write(c)
    PROVE  \A d \in Conns, t \in Turns :
               seen[d][t] # 0 /\ conn'[d] = "open"
                  => seen'[d][t] \in {seen[d][t], seen[d][t] + 1}
BY WriteFacts

LEMMA StepGap ==
    ASSUME IndInv, [Next]_vars
    PROVE  [\A c \in Conns, t \in Turns :
               seen[c][t] # 0 /\ conn'[c] = "open"
                  => seen'[c][t] \in {seen[c][t], seen[c][t] + 1}]_seen
<1>1. ASSUME NEW t \in Turns, Turn(t) PROVE UNCHANGED seen \/ \E c \in Conns : Cancel(c)
  BY <1>1 DEF Turn, Begin, Call, Calls, ToTelegram, ToConn, Sends, Push, Buffered, browserVars
<1>2. ASSUME NEW c \in Conns, Server(c) \/ Poll(c) \/ Disconnect(c) PROVE UNCHANGED seen \/ Cancel(c)
  BY <1>2 DEF Server, Connect, Unregister, Poll, Disconnect, Buffered, browserVars
<1>3. UNCHANGED vars => UNCHANGED seen
  BY DEF vars, browserVars
<1>4. CASE UNCHANGED seen
  BY <1>4
<1>5. CASE \E c \in Conns : Cancel(c)
  BY <1>5, CancelGap
<1>6. CASE \E c \in Conns : Write(c)
  BY <1>6, WriteGap
<1>7. ASSUME NEW t \in Turns, Heartbeat(t) PROVE UNCHANGED seen \/ \E c \in Conns : Cancel(c)
  BY <1>7 DEF Heartbeat, Tick, TickText, BeatToTelegram, BeatToConn, Sends, Push, Buffered, browserVars
<1>8. QED
  BY <1>1, <1>2, <1>3, <1>4, <1>5, <1>6, <1>7 DEF Next

(* A slow browser loses its connection rather than a frame: over one       *)
(* connection it sees every call of a turn after the first it saw (push).  *)
THEOREM NoGaps == Spec => NoGap
<1>1. IndInv /\ [Next]_vars
        => [\A c \in Conns, t \in Turns :
               seen[c][t] # 0 /\ conn'[c] = "open"
                  => seen'[c][t] \in {seen[c][t], seen[c][t] + 1}]_seen
  BY StepGap
<1>2. QED
  BY <1>1, Invariance, PTL DEF Spec, NoGap
=============================================================================
