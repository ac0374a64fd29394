--------------------------- MODULE ProjectsProofs ---------------------------
(* Safety of projects and their series of conversations, for any projects, *)
(* scheduled turns, IDs, commands, prunings and restarts.                  *)
EXTENDS Projects, FiniteSetTheorems, SequenceTheorems, WellFoundedInduction, TLAPS

USE ProjectsAssumption

Made == {"made", "checked", "early", "running", "split", "rerun", "saved"}

(* What a turn's stage says of its project and its series.                 *)
Placed(t) ==
    /\ turn[t].at = "chosen" => turn[t].name \in Names
    /\ turn[t].at \in Made => turn[t].name \in Names /\ Depth(t) >= 1
    /\ turn[t].at \in {"early", "split"} => Depth(t) >= 2

(* Record c, the k-th of turn t's series.                                  *)
Belongs(c, t, k) == c # NoConv /\ c.by = t /\ (k = 1 => c.parent = 0)

(* The records of a turn's series are there, its own and different ones,   *)
(* and the series begins at the first, except where a record went under it.*)
Owns(t) ==
    turn[t].at \in Made =>
        \A k \in 1..Depth(t) : <<turn[t].name, turn[t].series[k]>> \notin lost =>
            /\ Belongs(convs[turn[t].name][turn[t].series[k]], t, k)
            /\ \A j \in 1..Depth(t) : turn[t].series[j] = turn[t].series[k] => j = k

Inv == TypeOK /\ \A t \in Turns : Placed(t) /\ Owns(t)

-----------------------------------------------------------------------------
(* About numbers: the least of a set, the largest of a bounded one, and    *)
(* induction over 0..M with a set in place of a predicate.                 *)
LEMMA Least ==
    ASSUME NEW S \in SUBSET Nat, S # {}
    PROVE  \E m \in S : \A n \in S : m <= n
<1>1. PICK x \in S : TRUE
  OBVIOUS
<1> DEFINE U == 0..x
           T == {0..k : k \in {j \in S : j <= x}}
<1>2. IsFiniteSet(U)
  BY FS_Interval
<1>3. IsWellFoundedOn(StrictSubsetOrdering(U), SUBSET U)
  <2> HIDE DEF U
  <2>1. FiniteSubsetsOf(U) = SUBSET U
    BY <1>2, FS_FiniteSubsetsOfFinite
  <2>2. IsWellFoundedOn(StrictSubsetOrdering(U), FiniteSubsetsOf(U))
    BY FS_StrictSubsetOrderingWellFounded
  <2>3. QED
    BY <2>1, <2>2
<1>4. T \subseteq SUBSET U /\ 0..x \in T
  OBVIOUS
<1>5. PICK X \in T : \A Y \in T : <<Y, X>> \notin StrictSubsetOrdering(U)
  <2> HIDE DEF T
  <2>1. T \subseteq SUBSET U /\ T # {}
    BY <1>4
  <2>2. QED
    BY <2>1, <1>3, WFMin
<1>6. PICK m \in S : m <= x /\ X = 0..m
  OBVIOUS
<1>7. ASSUME NEW n \in S, ~(m <= n)
      PROVE  FALSE
  <2>1. n <= x /\ 0..n \in T
    BY <1>6, <1>7
  <2>2. 0..n \subseteq 0..m /\ 0..n # 0..m
    <3>1. m \in 0..m /\ m \notin 0..n
      BY <1>7
    <3>2. QED
      BY <3>1, <1>7
  <2>3. 0..n \in SUBSET U /\ X \in SUBSET U
    BY <2>1, <1>4
  <2>4. <<0..n, X>> \in StrictSubsetOrdering(U)
    BY <2>2, <2>3, <1>6 DEF StrictSubsetOrdering
  <2>5. QED
    BY <2>1, <2>4, <1>5
<1>8. QED
  BY <1>7

LEMMA Largest ==
    ASSUME NEW M \in Nat, NEW S \in SUBSET (1..M), S # {}
    PROVE  \E m \in S : \A n \in S : n <= m
<1> DEFINE T == {k \in 0..M : \A n \in S : n <= k}
<1>1. M \in T /\ T \in SUBSET Nat
  OBVIOUS
<1>2. PICK m \in T : \A k \in T : m <= k
  BY <1>1, Least
<1>3. PICK x \in S : TRUE
  OBVIOUS
<1>4. m \in 1..M
  BY <1>2, <1>3
<1>5. m \in S
  <2>1. SUFFICES ASSUME m \notin S PROVE FALSE
    OBVIOUS
  <2>2. \A n \in S : n <= m - 1
    BY <1>2, <1>4, <2>1
  <2>3. m - 1 \in T
    BY <1>4, <2>2
  <2>4. QED
    BY <1>2, <1>4, <2>3
<1>6. QED
  BY <1>2, <1>5

LEMMA Induct ==
    ASSUME NEW M \in Nat, NEW S, 0 \in S,
           \A k \in 0..(M - 1) : k \in S => k + 1 \in S
    PROVE  0..M \subseteq S
<1> DEFINE T == (0..M) \ S
<1>1. SUFFICES ASSUME T # {} PROVE FALSE
  OBVIOUS
<1>2. PICK m \in T : \A k \in T : m <= k
  <2>1. T \in SUBSET Nat
    OBVIOUS
  <2> HIDE DEF T
  <2>2. QED
    BY <1>1, <2>1, Least
<1>3. m - 1 \in 0..(M - 1) /\ (m - 1) + 1 = m
  BY <1>2
<1>4. m - 1 \in S
  BY <1>2, <1>3
<1>5. QED
  BY <1>2, <1>3, <1>4

(* A step taken again and again, k times for every k up to n.              *)
Iterated(f, n, start, step) == f[0] = start /\ \A k \in 1..n : f[k] = step[f[k - 1]]

LEMMA Iterates ==
    ASSUME NEW M \in Nat, NEW D, NEW start \in D, NEW step \in [D -> D]
    PROVE  \E f \in [0..M -> D] : Iterated(f, M, start, step)
<1> DEFINE Upto(n, f) == f[0] = start /\ \A k \in 1..n : f[k] = step[f[k - 1]]
           S == {n \in 0..M : \E f \in [0..n -> D] : Upto(n, f)}
<1>1. 0 \in S
  <2> DEFINE f == [k \in 0..0 |-> start]
  <2>1. f \in [0..0 -> D] /\ Upto(0, f)
    OBVIOUS
  <2>2. 0 \in 0..M
    OBVIOUS
  <2> HIDE DEF Upto, f
  <2>3. QED
    BY <2>1, <2>2
<1>2. ASSUME NEW n \in 0..(M - 1), n \in S
      PROVE  n + 1 \in S
  <2>1. PICK f \in [0..n -> D] : Upto(n, f)
    BY <1>2
  <2> DEFINE g == [k \in 0..(n + 1) |-> IF k = n + 1 THEN step[f[n]] ELSE f[k]]
  <2>2. g \in [0..(n + 1) -> D]
    <3>1. \A k \in 0..(n + 1) : k = n + 1 \/ k \in 0..n
      OBVIOUS
    <3>2. f[n] \in D
      BY <2>1
    <3>3. QED
      BY <2>1, <3>1, <3>2
  <2>3. Upto(n + 1, g)
    <3>1. g[0] = start
      BY <2>1
    <3>2. g[n + 1] = step[g[(n + 1) - 1]]
      <4>1. (n + 1) - 1 = n /\ n \in 0..(n + 1) /\ n # n + 1 /\ n + 1 \in 0..(n + 1)
        OBVIOUS
      <4>2. g[n] = f[n] /\ g[n + 1] = step[f[n]]
        BY <4>1
      <4> HIDE DEF g
      <4>3. QED
        BY <4>1, <4>2
    <3>3. ASSUME NEW k \in 1..n
          PROVE  g[k] = step[g[k - 1]]
      <4>1. k \in 0..(n + 1) /\ k # n + 1 /\ k - 1 \in 0..(n + 1) /\ k - 1 # n + 1
        OBVIOUS
      <4>2. g[k] = f[k] /\ g[k - 1] = f[k - 1]
        BY <4>1
      <4>3. f[k] = step[f[k - 1]]
        BY <2>1
      <4> HIDE DEF g
      <4>4. QED
        BY <4>2, <4>3
    <3>4. \A k \in 1..(n + 1) : k = n + 1 \/ k \in 1..n
      OBVIOUS
    <3> HIDE DEF g
    <3>5. QED
      BY <3>1, <3>2, <3>3, <3>4
  <2>4. n + 1 \in 0..M
    OBVIOUS
  <2> HIDE DEF g, Upto
  <2>5. QED
    BY <2>2, <2>3, <2>4
<1> HIDE DEF S
<1>3. 0..M \subseteq S
  BY <1>1, <1>2, Induct
<1>4. M \in S
  BY <1>3
<1>5. QED
  BY <1>4 DEF S, Iterated

LEMMA SeqElement ==
    ASSUME NEW S, NEW h \in Seq(S), NEW i \in 1..Len(h)
    PROVE  h[i] \in S
OBVIOUS

-----------------------------------------------------------------------------
(* nextConvID takes an ID that is not in use.                              *)
LEMMA NextIdFacts ==
    ASSUME NEW n
    PROVE  NextId(n) \in 1..(MaxId + 1) /\ NextId(n) \notin Present(n)
<1> DEFINE P == Present(n)
           Right(i) == (\A j \in P : j < i) /\ (i = 1 \/ i - 1 \in P)
<1>1. P \in SUBSET (1..MaxId)
  BY DEF Present, Ids
<1>2. \E i \in 1..(MaxId + 1) : Right(i)
  <2>1. CASE P = {}
    <3>1. 1 \in 1..(MaxId + 1) /\ Right(1)
      BY <2>1
    <3>2. QED
      BY <3>1
  <2>2. CASE P # {}
    <3>1. PICK m \in P : \A j \in P : j <= m
      <4> HIDE DEF P
      <4>1. QED
        BY <1>1, <2>2, Largest
    <3>2. m + 1 \in 1..(MaxId + 1) /\ (m + 1) - 1 = m
      BY <1>1
    <3>3. \A j \in P : j < m + 1
      BY <1>1, <3>1
    <3>4. Right(m + 1)
      BY <3>2, <3>3
    <3>5. QED
      BY <3>2, <3>4
  <2>3. QED
    BY <2>1, <2>2
<1>3. NextId(n) = CHOOSE i \in 1..(MaxId + 1) : Right(i)
  BY DEF NextId
<1>4. NextId(n) \in 1..(MaxId + 1) /\ Right(NextId(n))
  <2> HIDE DEF Right
  <2>1. QED
    BY <1>2, <1>3
<1>5. QED
  BY <1>4

-----------------------------------------------------------------------------
WorkSet == [at : {"new", "pinned", "ended"} \cup InProgress,
            name : Names \cup {NoName}, series : Seq(Ids)]

LEMMA MadeStages == Made \subseteq InProgress /\ "chosen" \in InProgress /\ "chosen" \notin Made
                    /\ \A a \in {"new", "pinned", "ended"} : a \notin Made
                    /\ {"early", "split"} \subseteq Made
BY DEF Made, InProgress

(* What Inv says of a turn that made its first record.                     *)
LEMMA MadeFacts ==
    ASSUME Inv, NEW t \in Turns, turn[t].at \in Made
    PROVE  /\ turn[t].name \in Names /\ turn[t].series \in Seq(Ids)
           /\ Depth(t) \in Nat /\ Depth(t) >= 1 /\ Id(t) \in Ids
           /\ Key(t) \in Names \X Ids
           /\ \A k \in 1..Depth(t) : turn[t].series[k] \in Ids
<1>1. turn[t].name \in Names /\ turn[t].series \in Seq(Ids) /\ Depth(t) >= 1
  BY DEF Inv, TypeOK, Placed
<1>2. Depth(t) \in Nat
  BY <1>1 DEF Depth
<1>3. \A k \in 1..Depth(t) : turn[t].series[k] \in Ids
  BY <1>1, SeqElement DEF Depth
<1>4. Id(t) \in Ids
  BY <1>1, <1>2, <1>3 DEF Id
<1>5. QED
  BY <1>1, <1>2, <1>3, <1>4 DEF Key

(* A worker's copies of its records.                                       *)
LEMMA OwnFacts ==
    ASSUME Inv, NEW t \in Turns, turn[t].at \in Made, NEW k \in 1..Depth(t)
    PROVE  /\ Own(t, k) \in Convs /\ Belongs(Own(t, k), t, k)
           /\ k # 1 => Own(t, k).parent # 0
<1>1. /\ Depth(t) \in Nat
      /\ \A j \in 1..Depth(t) : turn[t].series[j] \in 1..MaxId
  BY MadeFacts DEF Ids
<1> DEFINE p == IF k = 1 THEN 0 ELSE turn[t].series[k - 1]
           c == IF k = Depth(t) THEN 0 ELSE turn[t].series[k + 1]
<1>2. p \in 0..MaxId /\ (k # 1 => p # 0) /\ (k = 1 => p = 0)
  <2>1. k # 1 => k - 1 \in 1..Depth(t)
    BY <1>1
  <2>2. k # 1 => turn[t].series[k - 1] \in 1..MaxId
    BY <1>1, <2>1
  <2>3. QED
    BY <2>2
<1>3. c \in 0..MaxId
  <2>1. k # Depth(t) => k + 1 \in 1..Depth(t)
    BY <1>1
  <2>2. k # Depth(t) => turn[t].series[k + 1] \in 1..MaxId
    BY <1>1, <2>1
  <2>3. QED
    BY <2>2
<1>4. Own(t, k) = [by |-> t, parent |-> p, child |-> c]
  BY DEF Own, Conv
<1> HIDE DEF p, c
<1>5. Own(t, k) \in Convs
  BY <1>2, <1>3, <1>4 DEF Convs
<1>6. QED
  BY <1>2, <1>4, <1>5 DEF Belongs

(* Moves changes where a turn is, and nothing else of it.                  *)
LEMMA MovesFacts ==
    ASSUME TypeOK, NEW t \in Turns, NEW a \in InProgress, Moves(t, a)
    PROVE  /\ turn' \in [Turns -> WorkSet]
           /\ turn'[t].at = a /\ turn'[t].name = turn[t].name /\ turn'[t].series = turn[t].series
           /\ \A u \in Turns \ {t} : turn'[u] = turn[u]
<1>1. turn \in [Turns -> WorkSet]
  BY DEF TypeOK, WorkSet
<1>2. turn' = [turn EXCEPT ![t] = [turn[t] EXCEPT !.at = a]]
  BY <1>1 DEF Moves
<1>3. turn[t] \in WorkSet
  BY <1>1
<1>4. /\ [turn[t] EXCEPT !.at = a] \in WorkSet
      /\ [turn[t] EXCEPT !.at = a].at = a
      /\ [turn[t] EXCEPT !.at = a].name = turn[t].name
      /\ [turn[t] EXCEPT !.at = a].series = turn[t].series
  BY <1>3 DEF WorkSet
<1>5. QED
  BY <1>1, <1>2, <1>4

(* A turn made anew: pinned, chosen, begun, split or ended.                *)
LEMMA WorkFacts ==
    ASSUME TypeOK, NEW t \in Turns, NEW w \in WorkSet, turn' = [turn EXCEPT ![t] = w]
    PROVE  turn' \in [Turns -> WorkSet] /\ turn'[t] = w
           /\ \A u \in Turns \ {t} : turn'[u] = turn[u]
BY DEF TypeOK, WorkSet

LEMMA WorkType ==
    ASSUME NEW a \in {"new", "pinned", "ended"} \cup InProgress,
           NEW n \in Names \cup {NoName}, NEW s \in Seq(Ids)
    PROVE  /\ Work(a, n, s) \in WorkSet /\ Work(a, n, s).at = a
           /\ Work(a, n, s).name = n /\ Work(a, n, s).series = s
BY DEF Work, WorkSet

LEMMA NoSeries ==
    ASSUME NEW a \in {"new", "pinned", "ended"} \cup InProgress, NEW n \in Names \cup {NoName}
    PROVE  /\ Work(a, n, <<>>) \in WorkSet
           /\ Work(a, n, <<>>).at = a /\ Work(a, n, <<>>).name = n
<1> DEFINE s == <<>>
<1>1. s \in Seq(Ids)
  OBVIOUS
<1> HIDE DEF s
<1>2. /\ Work(a, n, s) \in WorkSet /\ Work(a, n, s).at = a
      /\ Work(a, n, s).name = n /\ Work(a, n, s).series = s
  BY <1>1, WorkType
<1>3. QED
  BY <1>2 DEF s

-----------------------------------------------------------------------------
(* What every step keeps of the records.                                   *)
RecordsStay ==
    \A n \in Names, i \in Ids :
        convs[n][i] # NoConv /\ convs'[n][i] # NoConv =>
            \/ convs'[n][i].by = convs[n][i].by
               /\ (convs[n][i].parent # 0 => convs'[n][i].parent # 0)
            \/ <<n, i>> \in lost
LineageStays ==
    \A n \in Names : n \in registered' => \A i \in Lineage(n) : convs'[n][i] # NoConv

(* A turn that a step leaves alone, with the records it made.              *)
LEMMA OwnsFrame ==
    ASSUME Inv, NEW t \in Turns, turn'[t] = turn[t],
           turn[t].at \in Made =>
               \A k \in 1..Depth(t) :
                   <<turn[t].name, turn[t].series[k]>> \notin lost' =>
                       /\ <<turn[t].name, turn[t].series[k]>> \notin lost
                       /\ Belongs(convs[turn[t].name][turn[t].series[k]], t, k) =>
                             convs'[turn[t].name][turn[t].series[k]]
                                 = convs[turn[t].name][turn[t].series[k]]
    PROVE  Placed(t)' /\ Owns(t)'
<1>1. Placed(t)'
  BY DEF Inv, Placed, Depth
<1>2. SUFFICES ASSUME turn[t].at \in Made, NEW k \in 1..Depth(t),
                      <<turn[t].name, turn[t].series[k]>> \notin lost'
               PROVE  /\ Belongs(convs'[turn[t].name][turn[t].series[k]], t, k)
                      /\ \A j \in 1..Depth(t) : turn[t].series[j] = turn[t].series[k] => j = k
  BY <1>1 DEF Owns, Depth, Belongs
<1>3. Owns(t) /\ <<turn[t].name, turn[t].series[k]>> \notin lost
  BY <1>2 DEF Inv
<1>4. QED
  BY <1>2, <1>3 DEF Owns

(* ... because it takes no record away.                                    *)
LEMMA OwnsStay ==
    ASSUME Inv, NEW t \in Turns, turn'[t] = turn[t], lost' = lost,
           \A m \in Names, i \in Ids : convs[m][i] # NoConv => convs'[m][i] = convs[m][i]
    PROVE  Placed(t)' /\ Owns(t)'
<1>1. ASSUME turn[t].at \in Made, NEW k \in 1..Depth(t)
      PROVE  turn[t].name \in Names /\ turn[t].series[k] \in Ids
  BY <1>1, MadeFacts
<1>2. QED
  BY <1>1, OwnsFrame DEF Belongs

(* A step of no turn's that leaves the records and projects alone.         *)
LEMMA StoreFrame ==
    ASSUME Inv, UNCHANGED <<registered, convs, lost>>
    PROVE  /\ RecordsStay /\ LineageStays
           /\ \A u \in Turns : turn'[u] = turn[u] => Placed(u)' /\ Owns(u)'
<1>1. RecordsStay
  BY DEF RecordsStay
<1>2. LineageStays
  BY DEF LineageStays, Lineage, Present
<1>3. \A u \in Turns : turn'[u] = turn[u] => Placed(u)' /\ Owns(u)'
  BY OwnsStay
<1>4. QED
  BY <1>1, <1>2, <1>3

-----------------------------------------------------------------------------
(* A new record takes the place of none.                                   *)
LEMMA CreatesFacts ==
    ASSUME Inv, NEW n \in Names, NEW by \in Turns \cup {"chat"}, Creates(n, by),
           UNCHANGED <<registered, lost>>
    PROVE  /\ n \in registered /\ NextId(n) \in Ids /\ convs[n][NextId(n)] = NoConv
           /\ convs' \in [Names -> [Ids -> Convs \cup {NoConv}]]
           /\ convs'[n][NextId(n)] = Conv(by, 0, 0)
           /\ \A m \in Names, i \in Ids : m # n \/ i # NextId(n) => convs'[m][i] = convs[m][i]
           /\ RecordsStay /\ LineageStays
           /\ \A m \in Names \ registered : Present(m)' = {}
           /\ \A u \in Turns : turn'[u] = turn[u] => Placed(u)' /\ Owns(u)'
<1> DEFINE x == NextId(n)
<1>1. /\ n \in registered /\ x \in Ids
      /\ convs' = [convs EXCEPT ![n][x] = Conv(by, 0, 0)]
  BY DEF Creates
<1>2. convs[n][x] = NoConv
  BY <1>1, NextIdFacts DEF Present
<1> HIDE DEF x
<1>3. convs \in [Names -> [Ids -> Convs \cup {NoConv}]]
  BY DEF Inv, TypeOK
<1>4. Conv(by, 0, 0) \in Convs
  <2>1. 0 \in 0..MaxId
    OBVIOUS
  <2>2. QED
    BY <2>1 DEF Conv, Convs
<1>5. convs' = [convs EXCEPT ![n] = [convs[n] EXCEPT ![x] = Conv(by, 0, 0)]]
  BY <1>1, <1>3
<1>6. [convs[n] EXCEPT ![x] = Conv(by, 0, 0)] \in [Ids -> Convs \cup {NoConv}]
  BY <1>1, <1>3, <1>4
<1>7. convs' \in [Names -> [Ids -> Convs \cup {NoConv}]]
  BY <1>3, <1>5, <1>6
<1>8. convs'[n][x] = Conv(by, 0, 0)
  BY <1>1, <1>3, <1>5
<1>9. \A m \in Names, i \in Ids : m # n \/ i # x => convs'[m][i] = convs[m][i]
  BY <1>1, <1>3, <1>5
<1>10. \A m \in Names, i \in Ids : convs[m][i] # NoConv => convs'[m][i] = convs[m][i]
  BY <1>2, <1>9
<1>11. RecordsStay
  BY <1>10 DEF RecordsStay
<1>12. LineageStays
  BY <1>10 DEF LineageStays, Lineage, Present
<1>13. \A m \in Names \ registered : Present(m)' = {}
  <2>1. \A m \in Names \ registered : Present(m) = {} /\ m # n
    BY <1>1 DEF Inv, TypeOK
  <2>2. QED
    BY <2>1, <1>9 DEF Present
<1>14. \A u \in Turns : turn'[u] = turn[u] => Placed(u)' /\ Owns(u)'
  BY <1>10, OwnsStay
<1>15. QED
  BY <1>1, <1>2, <1>7, <1>8, <1>9, <1>11, <1>12, <1>13, <1>14 DEF x

(* A turn's saves write its own records where they are.                    *)
Rewrites(t) ==
    \A n \in Names, i \in Ids :
        \/ convs'[n][i] = convs[n][i]
        \/ /\ n = turn[t].name /\ n \in registered
           /\ \E k \in 1..Depth(t) : i = turn[t].series[k] /\ convs'[n][i] = Own(t, k)

LEMMA RewritesFacts ==
    ASSUME Inv, NEW t \in Turns, turn[t].at \in Made, Rewrites(t),
           UNCHANGED <<registered, lost>>
    PROVE  /\ RecordsStay /\ LineageStays
           /\ \A m \in Names \ registered : Present(m)' = {}
           /\ \A u \in Turns \ {t} : turn'[u] = turn[u] => Placed(u)' /\ Owns(u)'
           /\ turn'[t].name = turn[t].name /\ turn'[t].series = turn[t].series => Owns(t)'
<1> DEFINE n == turn[t].name
<1>1. \A k \in 1..Depth(t) : /\ Own(t, k) \in Convs /\ Belongs(Own(t, k), t, k)
                             /\ (k # 1 => Own(t, k).parent # 0)
                             /\ turn[t].series[k] \in Ids
  BY OwnFacts, MadeFacts
<1>2. n \in Names /\ \A m \in Names \ registered : Present(m) = {}
  BY MadeFacts DEF Inv, TypeOK
<1>3. Owns(t)
  BY DEF Inv
<1>4. RecordsStay
  <2>1. SUFFICES ASSUME NEW m \in Names, NEW i \in Ids, convs[m][i] # NoConv,
                        convs'[m][i] # convs[m][i], <<m, i>> \notin lost
                 PROVE  /\ convs'[m][i].by = convs[m][i].by
                        /\ (convs[m][i].parent # 0 => convs'[m][i].parent # 0)
    BY DEF RecordsStay
  <2>2. PICK k \in 1..Depth(t) : i = turn[t].series[k] /\ convs'[m][i] = Own(t, k)
    BY <2>1 DEF Rewrites
  <2>3. m = n /\ m \in registered
    BY <2>1 DEF Rewrites
  <2>4. Belongs(convs[m][i], t, k)
    BY <2>1, <2>2, <2>3, <1>3 DEF Owns
  <2>5. QED
    BY <2>2, <2>4, <1>1 DEF Belongs
<1>5. ASSUME NEW m \in Names, NEW i \in Ids, convs[m][i] # NoConv
      PROVE  convs'[m][i] # NoConv
  <2>1. \/ convs'[m][i] = convs[m][i]
        \/ /\ m = turn[t].name /\ m \in registered
           /\ \E k \in 1..Depth(t) : i = turn[t].series[k] /\ convs'[m][i] = Own(t, k)
    BY Zenon DEF Rewrites
  <2>2. QED
    BY <2>1, <1>1, <1>5 DEF Belongs
<1>6. LineageStays
  BY <1>5 DEF LineageStays, Lineage, Present
<1>7. \A m \in Names \ registered : Present(m)' = {}
  BY <1>2 DEF Rewrites, Present
<1>8. ASSUME NEW u \in Turns \ {t}, turn'[u] = turn[u]
      PROVE  Placed(u)' /\ Owns(u)'
  <2>1. ASSUME turn[u].at \in Made, NEW j \in 1..Depth(u),
               <<turn[u].name, turn[u].series[j]>> \notin lost,
               Belongs(convs[turn[u].name][turn[u].series[j]], u, j),
               convs'[turn[u].name][turn[u].series[j]] # convs[turn[u].name][turn[u].series[j]]
        PROVE  FALSE
    <3>1. turn[u].name \in Names /\ turn[u].series[j] \in Ids
      BY <2>1, MadeFacts
    <3>2. PICK m \in Names, i \in Ids : m = turn[u].name /\ i = turn[u].series[j]
      BY <3>1
    <3>3. /\ m = n
          /\ \E k \in 1..Depth(t) : i = turn[t].series[k]
      BY <2>1, <3>2 DEF Rewrites
    <3>4. convs[m][i].by = t
      BY <2>1, <3>2, <3>3, <1>3 DEF Owns, Belongs
    <3>5. QED
      BY <2>1, <3>2, <3>4, <1>8 DEF Belongs
  <2>2. QED
    BY <2>1, <1>8, OwnsFrame
<1>9. ASSUME turn'[t].name = n, turn'[t].series = turn[t].series
      PROVE  Owns(t)'
  <2>1. SUFFICES ASSUME NEW k \in 1..Depth(t), <<n, turn[t].series[k]>> \notin lost
                 PROVE  /\ Belongs(convs'[n][turn[t].series[k]], t, k)
                        /\ \A j \in 1..Depth(t) : turn[t].series[j] = turn[t].series[k] => j = k
    BY <1>9 DEF Owns, Depth, Belongs
  <2>2. /\ Belongs(convs[n][turn[t].series[k]], t, k)
        /\ \A j \in 1..Depth(t) : turn[t].series[j] = turn[t].series[k] => j = k
    BY <2>1, <1>3 DEF Owns
  <2>3. turn[t].series[k] \in Ids
    BY <1>1
  <2>4. \/ convs'[n][turn[t].series[k]] = convs[n][turn[t].series[k]]
        \/ \E j \in 1..Depth(t) : /\ turn[t].series[k] = turn[t].series[j]
                                  /\ convs'[n][turn[t].series[k]] = Own(t, j)
    BY <2>3, <1>2 DEF Rewrites
  <2>5. QED
    BY <2>2, <2>4, <1>1
<1>10. QED
  BY <1>4, <1>6, <1>7, <1>8, <1>9

LEMMA SavesFacts ==
    ASSUME Inv, NEW t \in Turns, turn[t].at \in Made, Saves(t)
    PROVE  Rewrites(t) /\ convs' \in [Names -> [Ids -> Convs \cup {NoConv}]]
<1> DEFINE n == turn[t].name
           x == Id(t)
           r == Own(t, Depth(t))
<1>1. /\ convs \in [Names -> [Ids -> Convs \cup {NoConv}]] /\ n \in Names /\ x \in Ids
      /\ Depth(t) \in 1..Depth(t) /\ x = turn[t].series[Depth(t)]
  BY MadeFacts DEF Inv, TypeOK, Id
<1>2. r \in Convs
  BY <1>1, OwnFacts
<1>3. CASE n \notin registered
  BY <1>1, <1>3 DEF Saves, Rewrites
<1>4. CASE n \in registered
  <2>1. convs' = [convs EXCEPT ![n][x] = r]
    BY <1>4 DEF Saves
  <2> HIDE DEF n, x, r
  <2>2. convs' = [convs EXCEPT ![n] = [convs[n] EXCEPT ![x] = r]]
    BY <2>1, <1>1
  <2>3. [convs[n] EXCEPT ![x] = r] \in [Ids -> Convs \cup {NoConv}]
    BY <1>1, <1>2
  <2>4. convs' \in [Names -> [Ids -> Convs \cup {NoConv}]]
    BY <1>1, <2>2, <2>3
  <2>5. \A m \in Names, i \in Ids :
           \/ convs'[m][i] = convs[m][i]
           \/ m = n /\ i = x /\ convs'[m][i] = r
    BY <1>1, <2>2
  <2>6. Rewrites(t)
    BY <2>5, <1>1, <1>4 DEF Rewrites, n, x, r
  <2>7. QED
    BY <2>4, <2>6
<1>5. QED
  BY <1>3, <1>4

-----------------------------------------------------------------------------
StepOK == Inv' /\ RecordsStay /\ LineageStays

LEMMA InitInv == Init => Inv
<1> SUFFICES ASSUME Init PROVE Inv
  OBVIOUS
<1>1. Work("new", NoName, <<>>) \in WorkSet
  BY NoSeries
<1>2. turn \in [Turns -> WorkSet]
  BY <1>1 DEF Init
<1>3. convs \in [Names -> [Ids -> Convs \cup {NoConv}]]
  BY DEF Init
<1>4. 0 \in 0..MaxEvents
  OBVIOUS
<1>5. TypeOK
  BY <1>2, <1>3, <1>4 DEF Init, TypeOK, WorkSet, Present
<1>6. \A t \in Turns : turn[t].at = "new"
  BY DEF Init, Work
<1>7. QED
  BY <1>5, <1>6 DEF Inv, Placed, Owns, Made

(* A turn that ended, or has not begun, has no records to look after.      *)
LEMMA Outside ==
    ASSUME NEW t \in Turns, turn'[t].at \notin Made,
           turn'[t].at = "chosen" => turn'[t].name \in Names
    PROVE  Placed(t)' /\ Owns(t)'
BY MadeStages DEF Placed, Owns

LEMMA EndsFacts ==
    ASSUME Inv, NEW t \in Turns, Ends(t)
    PROVE  /\ turn' \in [Turns -> WorkSet] /\ Placed(t)' /\ Owns(t)'
           /\ \A u \in Turns \ {t} : turn'[u] = turn[u]
<1>1. Work("ended", NoName, <<>>) \in WorkSet /\ Work("ended", NoName, <<>>).at = "ended"
  BY NoSeries
<1>2. turn' \in [Turns -> WorkSet] /\ turn'[t] = Work("ended", NoName, <<>>)
      /\ \A u \in Turns \ {t} : turn'[u] = turn[u]
  BY <1>1, WorkFacts DEF Ends, Inv
<1>3. turn'[t].at \notin Made /\ turn'[t].at # "chosen"
  BY <1>1, <1>2, MadeStages
<1>4. QED
  BY <1>2, <1>3, Outside

(* A step of turn t that leaves the projects alone.                        *)
LEMMA TurnInd ==
    ASSUME Inv, NEW t \in Turns,
           UNCHANGED <<registered, telegramActive, lost, events>>,
           turn' \in [Turns -> WorkSet],
           convs' \in [Names -> [Ids -> Convs \cup {NoConv}]],
           \A m \in Names \ registered : Present(m)' = {},
           active' \in (Names \X Ids) \cup {NoActive},
           listed' \subseteq Names \X Ids,
           Placed(t)' /\ Owns(t)',
           \A u \in Turns \ {t} : Placed(u)' /\ Owns(u)'
    PROVE  Inv'
<1>1. TypeOK'
  BY DEF Inv, TypeOK, WorkSet
<1>2. \A u \in Turns : Placed(u)' /\ Owns(u)'
  OBVIOUS
<1>3. QED
  BY <1>1, <1>2 DEF Inv

(* ... and the records too.                                                *)
LEMMA StillInd ==
    ASSUME Inv, NEW t \in Turns,
           UNCHANGED <<registered, convs, telegramActive, lost, events>>,
           turn' \in [Turns -> WorkSet],
           active' \in (Names \X Ids) \cup {NoActive},
           listed' \subseteq Names \X Ids,
           Placed(t)' /\ Owns(t)',
           \A u \in Turns \ {t} : turn'[u] = turn[u]
    PROVE  StepOK
<1>1. RecordsStay /\ LineageStays /\ \A u \in Turns \ {t} : Placed(u)' /\ Owns(u)'
  BY StoreFrame
<1>2. convs' \in [Names -> [Ids -> Convs \cup {NoConv}]]
      /\ \A m \in Names \ registered : Present(m)' = {}
  BY DEF Inv, TypeOK, Present
<1>3. Inv'
  BY <1>1, <1>2, TurnInd
<1>4. QED
  BY <1>1, <1>3 DEF StepOK

LEMMA TypeFacts ==
    ASSUME Inv
    PROVE  /\ turn \in [Turns -> WorkSet]
           /\ convs \in [Names -> [Ids -> Convs \cup {NoConv}]]
           /\ registered \subseteq Names /\ telegramActive \in Names \cup {NoName}
           /\ active \in (Names \X Ids) \cup {NoActive}
           /\ listed \subseteq Names \X Ids
           /\ \A m \in Names \ registered : Present(m) = {}
BY DEF Inv, TypeOK, WorkSet

-----------------------------------------------------------------------------
LEMMA PinStep == ASSUME Inv, NEW t \in Turns, Pin(t) PROVE StepOK
<1> DEFINE w == Work("pinned", telegramActive, <<>>)
<1>1. w \in WorkSet /\ w.at = "pinned"
  BY NoSeries, TypeFacts
<1>2. turn' = [turn EXCEPT ![t] = w] /\ UNCHANGED <<storeVars, listed, lost, events>>
  BY DEF Pin
<1> HIDE DEF w
<1>3. turn' \in [Turns -> WorkSet] /\ turn'[t] = w /\ \A u \in Turns \ {t} : turn'[u] = turn[u]
  BY <1>1, <1>2, WorkFacts DEF Inv
<1>4. turn'[t].at \notin Made /\ turn'[t].at # "chosen"
  BY <1>1, <1>3, MadeStages
<1>5. Placed(t)' /\ Owns(t)'
  BY <1>4, Outside
<1>6. QED
  BY <1>2, <1>3, <1>5, TypeFacts, StillInd DEF storeVars

LEMMA ChooseStep == ASSUME Inv, NEW t \in Turns, Choose(t) PROVE StepOK
<1> DEFINE first == CHOOSE n \in registered : \A m \in registered : n <= m
           pinned == turn[t].name
           n == IF pinned \in registered THEN pinned ELSE first
           w == Work("chosen", n, <<>>)
<1>1. UNCHANGED <<storeVars, listed, lost, events>>
  BY DEF Choose
<1>2. CASE registered = {}
  <2>1. Ends(t)
    BY <1>2 DEF Choose
  <2>2. turn' \in [Turns -> WorkSet] /\ Placed(t)' /\ Owns(t)'
        /\ \A u \in Turns \ {t} : turn'[u] = turn[u]
    BY <2>1, EndsFacts
  <2>3. QED
    BY <1>1, <2>2, TypeFacts, StillInd DEF storeVars
<1>3. CASE registered # {}
  <2>1. \E m \in registered : \A k \in registered : m <= k
    <3>1. registered \in SUBSET Nat
      BY TypeFacts
    <3>2. QED
      BY <3>1, <1>3, Least
  <2>2. first \in registered
    BY <2>1
  <2>3. n \in Names
    BY <2>2, TypeFacts
  <2>4. turn' = [turn EXCEPT ![t] = w]
    BY <1>3 DEF Choose
  <2> HIDE DEF n
  <2>5. w \in WorkSet /\ w.at = "chosen" /\ w.name = n
    BY <2>3, NoSeries, MadeStages
  <2> HIDE DEF w
  <2>6. turn' \in [Turns -> WorkSet] /\ turn'[t] = w /\ \A u \in Turns \ {t} : turn'[u] = turn[u]
    BY <2>4, <2>5, WorkFacts DEF Inv
  <2>7. Placed(t)' /\ Owns(t)'
    <3>1. turn'[t].at \notin Made /\ turn'[t].name \in Names
      BY <2>3, <2>5, <2>6, MadeStages
    <3>2. QED
      BY <3>1, Outside
  <2>8. QED
    BY <1>1, <2>6, <2>7, TypeFacts, StillInd DEF storeVars
<1>4. QED
  BY <1>2, <1>3

LEMMA MakeStep == ASSUME Inv, NEW t \in Turns, Make(t) PROVE StepOK
<1> DEFINE n == turn[t].name
<1>1. UNCHANGED <<registered, active, telegramActive, listed, lost, events>> /\ n \in Names
  BY MadeStages DEF Make, Inv, Placed
<1>2. CASE Ends(t) /\ UNCHANGED convs
  <2>1. turn' \in [Turns -> WorkSet] /\ Placed(t)' /\ Owns(t)'
        /\ \A u \in Turns \ {t} : turn'[u] = turn[u]
    BY <1>2, EndsFacts
  <2>2. QED
    BY <1>1, <1>2, <2>1, TypeFacts, StillInd
<1>3. CASE Creates(n, t) /\ turn' = [turn EXCEPT ![t] = Work("made", n, <<NextId(n)>>)]
  <2> DEFINE x == NextId(n)
             s == <<x>>
             w == Work("made", n, s)
  <2>1. /\ n \in registered /\ x \in Ids
        /\ convs' \in [Names -> [Ids -> Convs \cup {NoConv}]]
        /\ convs'[n][x] = Conv(t, 0, 0)
        /\ RecordsStay /\ LineageStays
        /\ \A m \in Names \ registered : Present(m)' = {}
        /\ \A u \in Turns : turn'[u] = turn[u] => Placed(u)' /\ Owns(u)'
    BY <1>1, <1>3, CreatesFacts
  <2> HIDE DEF x
  <2>2. s \in Seq(Ids) /\ Len(s) = 1 /\ s[1] = x
    BY <2>1
  <2>3. turn' = [turn EXCEPT ![t] = w]
    BY <1>3 DEF x
  <2> HIDE DEF s
  <2>4. w \in WorkSet /\ w.at = "made" /\ w.name = n /\ w.series = s
    <3>1. "made" \in {"new", "pinned", "ended"} \cup InProgress
      BY DEF InProgress
    <3> HIDE DEF n
    <3>2. QED
      BY <1>1, <2>2, <3>1, WorkType
  <2> HIDE DEF w
  <2>5. turn' \in [Turns -> WorkSet] /\ turn'[t] = w /\ \A u \in Turns \ {t} : turn'[u] = turn[u]
    BY <2>3, <2>4, WorkFacts DEF Inv
  <2>6. Conv(t, 0, 0) # NoConv /\ Conv(t, 0, 0).by = t /\ Conv(t, 0, 0).parent = 0
    <3>1. Conv(t, 0, 0) \in Convs
      <4>1. 0 \in 0..MaxId
        OBVIOUS
      <4>2. QED
        BY <4>1 DEF Conv, Convs
    <3>2. QED
      BY <3>1 DEF Conv
  <2>7. Placed(t)'
    <3>1. turn'[t].at = "made" /\ turn'[t].name \in Names /\ Len(turn'[t].series) = 1
      BY <1>1, <2>2, <2>4, <2>5
    <3>2. QED
      BY <3>1 DEF Placed, Depth
  <2>8. Owns(t)'
    <3>1. Belongs(convs'[n][s[1]], t, 1)
      BY <2>1, <2>2, <2>6 DEF Belongs
    <3>2. \A k \in 1..Len(s) : k = 1
      BY <2>2
    <3>3. turn'[t].name = n /\ turn'[t].series = s
      BY <2>4, <2>5
    <3> HIDE DEF n
    <3>4. QED
      BY <3>1, <3>2, <3>3 DEF Owns, Depth, Belongs
  <2>9. Inv'
    BY <1>1, <2>1, <2>5, <2>7, <2>8, TypeFacts, TurnInd
  <2>10. QED
    BY <2>1, <2>9 DEF StepOK
<1>4. QED
  BY <1>2, <1>3 DEF Make

(* A move from one stage with records to the next.                         *)
LEMMA MadeMove ==
    ASSUME Inv, NEW t \in Turns, turn[t].at \in Made, NEW a \in Made, Moves(t, a),
           a \in {"early", "split"} => Depth(t) >= 2
    PROVE  /\ turn' \in [Turns -> WorkSet] /\ Placed(t)'
           /\ turn'[t].name = turn[t].name /\ turn'[t].series = turn[t].series
           /\ \A u \in Turns \ {t} : turn'[u] = turn[u]
<1>1. /\ turn' \in [Turns -> WorkSet] /\ turn'[t].at = a
      /\ turn'[t].name = turn[t].name /\ turn'[t].series = turn[t].series
      /\ \A u \in Turns \ {t} : turn'[u] = turn[u]
  BY MadeStages, MovesFacts DEF Inv
<1>2. turn[t].name \in Names /\ Depth(t) >= 1
  BY MadeFacts
<1>3. Placed(t)'
  BY <1>1, <1>2, MadeStages DEF Placed, Depth
<1>4. QED
  BY <1>1, <1>3

(* ... that writes the turn's records.                                     *)
LEMMA RewriteInd ==
    ASSUME Inv, NEW t \in Turns, turn[t].at \in Made, NEW a \in Made, Moves(t, a),
           a \in {"early", "split"} => Depth(t) >= 2,
           Rewrites(t), convs' \in [Names -> [Ids -> Convs \cup {NoConv}]],
           UNCHANGED <<registered, active, telegramActive, lost, events>>,
           listed' \subseteq Names \X Ids
    PROVE  StepOK
<1>1. /\ turn' \in [Turns -> WorkSet] /\ Placed(t)'
      /\ turn'[t].name = turn[t].name /\ turn'[t].series = turn[t].series
      /\ \A u \in Turns \ {t} : turn'[u] = turn[u]
  BY MadeMove
<1>2. /\ RecordsStay /\ LineageStays
      /\ \A m \in Names \ registered : Present(m)' = {}
      /\ \A u \in Turns \ {t} : turn'[u] = turn[u] => Placed(u)' /\ Owns(u)'
      /\ turn'[t].name = turn[t].name /\ turn'[t].series = turn[t].series => Owns(t)'
  BY RewritesFacts
<1>3. Inv'
  BY <1>1, <1>2, TypeFacts, TurnInd
<1>4. QED
  BY <1>2, <1>3 DEF StepOK

LEMMA CheckStep == ASSUME Inv, NEW t \in Turns, Check(t) PROVE StepOK
<1>1. turn[t].at \in Made /\ UNCHANGED <<storeVars, listed, lost, events>>
  BY DEF Check, Made
<1>2. CASE Moves(t, "checked")
  <2>1. "checked" \in Made /\ "checked" \notin {"early", "split"}
    BY DEF Made
  <2>2. Rewrites(t)
    BY <1>1 DEF Rewrites, storeVars
  <2>3. QED
    BY <1>1, <1>2, <2>1, <2>2, TypeFacts, RewriteInd DEF storeVars
<1>3. CASE Ends(t)
  <2>1. turn' \in [Turns -> WorkSet] /\ Placed(t)' /\ Owns(t)'
        /\ \A u \in Turns \ {t} : turn'[u] = turn[u]
    BY <1>3, EndsFacts
  <2>2. QED
    BY <1>1, <2>1, TypeFacts, StillInd DEF storeVars
<1>4. QED
  BY <1>2, <1>3 DEF Check

LEMMA StartStep == ASSUME Inv, NEW t \in Turns, Start(t) PROVE StepOK
<1>1. /\ turn[t].at \in Made /\ Moves(t, "running") /\ Saves(t)
      /\ listed' = listed \cup {Key(t)}
      /\ UNCHANGED <<registered, active, telegramActive, lost, events>>
  BY DEF Start, Lists, Made
<1>2. "running" \in Made /\ "running" \notin {"early", "split"}
  BY DEF Made
<1>3. listed' \subseteq Names \X Ids
  BY <1>1, MadeFacts, TypeFacts
<1>4. QED
  BY <1>1, <1>2, <1>3, SavesFacts, RewriteInd

LEMMA SaveTurnStep == ASSUME Inv, NEW t \in Turns, SaveTurn(t) PROVE StepOK
<1>1. /\ turn[t].at \in Made /\ Moves(t, "saved") /\ Saves(t)
      /\ UNCHANGED <<registered, active, telegramActive, listed, lost, events>>
  BY DEF SaveTurn, Ran, Made
<1>2. "saved" \in Made /\ "saved" \notin {"early", "split"}
  BY DEF Made
<1>3. QED
  BY <1>1, <1>2, TypeFacts, SavesFacts, RewriteInd

LEMMA LinkStep == ASSUME Inv, NEW t \in Turns, Link(t) PROVE StepOK
<1> DEFINE n == turn[t].name
           k == Depth(t)
           x == Id(t)
           y == turn[t].series[k - 1]
           r == IF convs[n][x] # NoConv /\ convs[n][x].by = t THEN Own(t, k) ELSE convs[n][x]
           s == Own(t, k - 1)
           a == IF turn[t].at = "split" THEN "rerun" ELSE "checked"
<1>1. /\ turn[t].at \in {"early", "split"} /\ turn[t].at \in Made /\ Moves(t, a)
      /\ UNCHANGED <<registered, active, telegramActive, listed, lost, events>>
  BY MadeStages DEF Link
<1>2. a \in Made /\ a \notin {"early", "split"}
  BY DEF Made
<1>3. /\ n \in Names /\ k \in Nat /\ k >= 2
      /\ k \in 1..Depth(t) /\ k - 1 \in 1..Depth(t)
      /\ x = turn[t].series[k] /\ x \in Ids /\ y \in Ids
  <2>1. n \in Names /\ k \in Nat /\ k >= 2 /\ x \in Ids
    BY <1>1, MadeFacts DEF Inv, Placed
  <2>2. k \in 1..Depth(t) /\ k - 1 \in 1..Depth(t)
    BY <2>1
  <2>3. y \in Ids
    BY <1>1, <2>2, MadeFacts
  <2>4. QED
    BY <2>1, <2>2, <2>3 DEF Id
<1>4. /\ convs \in [Names -> [Ids -> Convs \cup {NoConv}]]
      /\ Own(t, k) \in Convs /\ s \in Convs
  BY <1>1, <1>3, OwnFacts, TypeFacts
<1>5. r \in Convs \cup {NoConv}
  BY <1>3, <1>4
<1>6. Rewrites(t) /\ convs' \in [Names -> [Ids -> Convs \cup {NoConv}]]
  <2>1. CASE n \notin registered
    <3>1. convs' = convs
      BY <2>1 DEF Link
    <3>2. QED
      BY <3>1, <1>4 DEF Rewrites
  <2>2. CASE n \in registered
    <3>1. convs' = [convs EXCEPT ![n][x] = r, ![n][y] = s]
      BY <2>2 DEF Link
    <3> HIDE DEF n, x, y, r, s
    <3>2. convs' = [convs EXCEPT ![n] = [[convs[n] EXCEPT ![x] = r] EXCEPT ![y] = s]]
      BY <3>1, <1>3, <1>4
    <3>3. [[convs[n] EXCEPT ![x] = r] EXCEPT ![y] = s] \in [Ids -> Convs \cup {NoConv}]
      BY <1>3, <1>4, <1>5
    <3>4. convs' \in [Names -> [Ids -> Convs \cup {NoConv}]]
      BY <1>3, <1>4, <3>2, <3>3
    <3>5. \A m \in Names, i \in Ids :
             \/ convs'[m][i] = convs[m][i]
             \/ m = n /\ i = x /\ convs'[m][i] = r
             \/ m = n /\ i = y /\ convs'[m][i] = s
      BY <1>3, <1>4, <3>2
    <3>6. r = convs[n][x] \/ r = Own(t, k)
      BY DEF r
    <3>7. \A m \in Names, i \in Ids :
             \/ convs'[m][i] = convs[m][i]
             \/ m = n /\ i = turn[t].series[k] /\ convs'[m][i] = Own(t, k)
             \/ m = n /\ i = turn[t].series[k - 1] /\ convs'[m][i] = Own(t, k - 1)
      BY <1>3, <3>5, <3>6 DEF y, s
    <3> HIDE DEF k
    <3>8. Rewrites(t)
      BY <1>3, <2>2, <3>7 DEF Rewrites, n
    <3>9. QED
      BY <3>4, <3>8
  <2>3. QED
    BY <2>1, <2>2
<1> HIDE DEF a
<1>7. QED
  BY <1>1, <1>2, <1>6, TypeFacts, RewriteInd

LEMMA CompleteStep == ASSUME Inv, NEW t \in Turns, Complete(t) PROVE StepOK
<1>1. /\ turn[t].at \in Made /\ Ends(t)
      /\ active' = Key(t) /\ listed' \subseteq listed
      /\ UNCHANGED <<registered, convs, telegramActive, lost, events>>
  BY DEF Complete, Unlists, Made
<1>2. turn' \in [Turns -> WorkSet] /\ Placed(t)' /\ Owns(t)'
      /\ \A u \in Turns \ {t} : turn'[u] = turn[u]
  BY <1>1, EndsFacts
<1>3. active' \in (Names \X Ids) \cup {NoActive}
  BY <1>1, MadeFacts
<1>4. QED
  BY <1>1, <1>2, <1>3, TypeFacts, StillInd

LEMMA FailStep == ASSUME Inv, NEW t \in Turns, Fail(t) PROVE StepOK
<1>1. Ends(t) /\ listed' \subseteq listed /\ UNCHANGED <<storeVars, lost, events>>
  BY DEF Fail, Unlists
<1>2. turn' \in [Turns -> WorkSet] /\ Placed(t)' /\ Owns(t)'
      /\ \A u \in Turns \ {t} : turn'[u] = turn[u]
  BY <1>1, EndsFacts
<1>3. QED
  BY <1>1, <1>2, TypeFacts, StillInd DEF storeVars

LEMMA SplitStep == ASSUME Inv, NEW t \in Turns, Split(t) PROVE StepOK
<1> DEFINE n == turn[t].name
           x == NextId(n)
           old == turn[t].series
           s == Append(old, x)
           a == IF turn[t].at = "running" THEN "split" ELSE "early"
           w == Work(a, n, s)
<1>1. /\ turn[t].at \in Made /\ Creates(n, t)
      /\ UNCHANGED <<registered, active, telegramActive, listed, lost, events>>
  BY DEF Split, Made
<1>2. turn' = [turn EXCEPT ![t] = w]
  BY TypeFacts DEF Split
<1>3. n \in Names /\ old \in Seq(Ids) /\ Len(old) \in Nat /\ Len(old) >= 1
  BY <1>1, MadeFacts DEF Depth
<1>4. /\ n \in registered /\ x \in Ids /\ convs[n][x] = NoConv
      /\ convs' \in [Names -> [Ids -> Convs \cup {NoConv}]]
      /\ convs'[n][x] = Conv(t, 0, 0)
      /\ \A i \in Ids : i # x => convs'[n][i] = convs[n][i]
      /\ RecordsStay /\ LineageStays
      /\ \A m \in Names \ registered : Present(m)' = {}
      /\ \A u \in Turns : turn'[u] = turn[u] => Placed(u)' /\ Owns(u)'
  BY <1>1, <1>3, CreatesFacts
<1> HIDE DEF x
<1>5. /\ s \in Seq(Ids) /\ Len(s) = Len(old) + 1 /\ s[Len(old) + 1] = x
      /\ \A k \in 1..Len(old) : s[k] = old[k]
  BY <1>3, <1>4, AppendProperties
<1>6. a \in {"early", "split"} /\ a \in Made /\ a \in InProgress
  BY MadeStages
<1> HIDE DEF s, a
<1>7. w \in WorkSet /\ w.at = a /\ w.name = n /\ w.series = s
  <2> HIDE DEF n
  <2>1. QED
    BY <1>3, <1>5, <1>6, WorkType
<1> HIDE DEF w
<1>8. turn' \in [Turns -> WorkSet] /\ turn'[t] = w /\ \A u \in Turns \ {t} : turn'[u] = turn[u]
  BY <1>2, <1>7, WorkFacts DEF Inv
<1>9. Placed(t)'
  <2>1. Len(s) >= 1 /\ Len(s) >= 2
    BY <1>3, <1>5
  <2>2. QED
    BY <1>3, <1>6, <1>7, <1>8, <2>1, MadeStages DEF Placed, Depth
<1>10. Owns(t)'
  <2>1. SUFFICES ASSUME NEW k \in 1..Len(s), <<n, s[k]>> \notin lost
                 PROVE  /\ Belongs(convs'[n][s[k]], t, k)
                        /\ \A j \in 1..Len(s) : s[j] = s[k] => j = k
    <3> HIDE DEF n
    <3>1. QED
      BY <1>1, <1>7, <1>8 DEF Owns, Depth, Belongs
  <2>2. \A j \in 1..Len(old) : /\ old[j] \in Ids
                               /\ <<n, old[j]>> \notin lost =>
                                     /\ Belongs(convs[n][old[j]], t, j)
                                     /\ \A l \in 1..Len(old) : old[l] = old[j] => l = j
    BY <1>1, MadeFacts DEF Inv, Owns, Depth
  <2>3. \A j \in 1..Len(old) : <<n, old[j]>> \notin lost => old[j] # x
    BY <1>4, <2>2 DEF Belongs
  <2>4. Belongs(convs'[n][x], t, Len(old) + 1)
    <3>1. Conv(t, 0, 0) \in Convs
      <4>1. 0 \in 0..MaxId
        OBVIOUS
      <4>2. QED
        BY <4>1 DEF Conv, Convs
    <3>2. QED
      BY <3>1, <1>4 DEF Conv, Belongs
  <2>5. \A j \in 1..Len(s) : j = Len(old) + 1 \/ j \in 1..Len(old)
    BY <1>3, <1>5
  <2> HIDE DEF n, old
  <2>6. CASE k \in 1..Len(old)
    <3>1. s[k] = old[k] /\ <<n, old[k]>> \notin lost /\ old[k] # x
      BY <1>5, <2>1, <2>3, <2>6
    <3>2. Belongs(convs'[n][s[k]], t, k)
      BY <1>4, <2>2, <2>6, <3>1
    <3>3. \A j \in 1..Len(s) : s[j] = s[k] => j = k
      BY <1>5, <2>2, <2>5, <2>6, <3>1
    <3>4. QED
      BY <3>2, <3>3
  <2>7. CASE k = Len(old) + 1
    <3>1. s[k] = x /\ <<n, x>> \notin lost
      BY <1>5, <2>1, <2>7
    <3>2. \A j \in 1..Len(s) : s[j] = s[k] => j = k
      BY <1>5, <2>3, <2>5, <2>7, <3>1
    <3>3. QED
      BY <2>4, <2>7, <3>1, <3>2
  <2>8. QED
    BY <2>5, <2>6, <2>7
<1>11. Inv'
  BY <1>1, <1>4, <1>8, <1>9, <1>10, TypeFacts, TurnInd
<1>12. QED
  BY <1>4, <1>11 DEF StepOK

-----------------------------------------------------------------------------
LEMMA ParentType ==
    ASSUME Inv, NEW n \in Names
    PROVE  /\ ParentsIn(n) \in [Ids -> 0..MaxId]
           /\ \A i \in Ids \ Present(n) : ParentsIn(n)[i] = 0
<1>1. convs[n] \in [Ids -> Convs \cup {NoConv}]
  BY TypeFacts
<1>2. \A c \in Convs : c.parent \in 0..MaxId
  BY DEF Convs
<1>3. QED
  BY <1>1, <1>2 DEF ParentsIn, Present

(* The loop of PruneOldConversations, turn by turn.                        *)
LEMMA ProtectedClimb ==
    ASSUME Inv, NEW n \in Names, active[1] = n
    PROVE  \E up : /\ up \in [0..MaxId -> SUBSET (0..MaxId)]
                   /\ up[0] = {active[2]}
                   /\ \A k \in 1..MaxId :
                         up[k] = up[k - 1] \cup {ParentsIn(n)[i] : i \in up[k - 1] \cap Ids}
                   /\ Protected(n) = up[MaxId]
<1> DEFINE par == ParentsIn(n)
           D == SUBSET (0..MaxId)
           start == {active[2]}
           step == [X \in D |-> X \cup {par[i] : i \in X \cap Ids}]
           Body(g) == [k \in 0..MaxId |->
                          IF k = 0 THEN {active[2]} ELSE WithParents(n, g[k - 1])]
           up == CHOOSE g : g = Body(g)
<1>1. par \in [Ids -> 0..MaxId]
  BY ParentType
<1>2. start \in D
  <2>1. active[2] \in 0..MaxId
    BY TypeFacts DEF NoActive, Ids
  <2>2. QED
    BY <2>1
<1>3. step \in [D -> D]
  <2> HIDE DEF par
  <2>1. \A X \in D : X \cup {par[i] : i \in X \cap Ids} \in D
    BY <1>1
  <2>2. QED
    BY <2>1
<1>4. PICK f \in [0..MaxId -> D] : Iterated(f, MaxId, start, step)
  <2> HIDE DEF start, step, D
  <2>1. QED
    BY <1>2, <1>3, Iterates
<1>5. f = Body(f)
  <2>1. ASSUME NEW k \in 1..MaxId
        PROVE  f[k] = f[k - 1] \cup {ParentsIn(n)[i] : i \in f[k - 1] \cap Ids}
    <3>1. k - 1 \in 0..MaxId
      OBVIOUS
    <3>2. f[k - 1] \in D
      BY <3>1
    <3>3. QED
      BY <3>2, <1>4 DEF Iterated
  <2>2. \A k \in 0..MaxId : k = 0 \/ k \in 1..MaxId
    OBVIOUS
  <2>3. \A k \in 0..MaxId : f[k] = Body(f)[k]
    BY <2>1, <2>2, <1>4 DEF Iterated, WithParents
  <2>4. Body(f) = [k \in 0..MaxId |-> Body(f)[k]] /\ f = [k \in 0..MaxId |-> f[k]]
    OBVIOUS
  <2> HIDE DEF Body
  <2>5. QED
    BY <2>3, <2>4
<1>6. up = Body(up)
  <2> HIDE DEF Body
  <2>1. QED
    BY <1>5
<1>7. Protected(n) = up[MaxId]
  BY DEF Protected
<1> HIDE DEF up
<1>8. up[0] = {active[2]}
  BY <1>6
<1>9. \A k \in 1..MaxId : up[k] = up[k - 1] \cup {ParentsIn(n)[i] : i \in up[k - 1] \cap Ids}
  BY <1>6 DEF WithParents
<1>10. up \in [0..MaxId -> D]
  <2> DEFINE S == {k \in 0..MaxId : up[k] \in D}
  <2>1. 0 \in S
    BY <1>2, <1>8
  <2>2. ASSUME NEW k \in 0..(MaxId - 1), k \in S
        PROVE  k + 1 \in S
    <3>1. k + 1 \in 1..MaxId /\ (k + 1) - 1 = k
      OBVIOUS
    <3>2. up[k + 1] = up[k] \cup {par[i] : i \in up[k] \cap Ids}
      BY <3>1, <1>9
    <3>3. up[k] \in D
      BY <2>2
    <3> HIDE DEF par
    <3>4. up[k + 1] \in D
      BY <3>2, <3>3, <1>1
    <3>5. QED
      BY <3>1, <3>4
  <2>3. 0..MaxId \subseteq S
    <3> HIDE DEF S
    <3>1. QED
      BY <2>1, <2>2, Induct
  <2>4. DOMAIN up = 0..MaxId /\ up = [k \in 0..MaxId |-> up[k]]
    BY <1>6
  <2> HIDE DEF D
  <2>5. QED
    BY <2>3, <2>4
<1>11. QED
  BY <1>7, <1>8, <1>9, <1>10

(* PruneOldConversations protects the whole series the active conversation *)
(* goes back on: after MaxId steps nothing is left to climb.               *)
LEMMA ProtectedLineage ==
    ASSUME Inv, NEW n \in Names
    PROVE  Lineage(n) \subseteq Protected(n)
<1>1. SUFFICES ASSUME active[1] = n PROVE Lineage(n) \subseteq Protected(n)
  BY DEF Lineage
<1>2. PICK up : /\ up \in [0..MaxId -> SUBSET (0..MaxId)]
                /\ up[0] = {active[2]}
                /\ \A k \in 1..MaxId :
                      up[k] = up[k - 1] \cup {ParentsIn(n)[i] : i \in up[k - 1] \cap Ids}
                /\ Protected(n) = up[MaxId]
  BY <1>1, ProtectedClimb
<1>3. PICK par : par = ParentsIn(n) /\ par \in [Ids -> 0..MaxId]
  BY ParentType
<1>4. active[2] \in Ids
  BY <1>1, TypeFacts DEF NoActive
<1> DEFINE At(k) == up[k] \cap Ids
           Shut(k) == \A i \in At(k) : par[i] # 0 => par[i] \in At(k)
           S == {k \in 0..MaxId : active[2] \in At(k) /\ (Shut(k) \/ Cardinality(At(k)) >= k + 1)}
<1>5. IsFiniteSet(Ids) /\ Cardinality(Ids) = MaxId
  BY FS_Interval DEF Ids
<1>6. \A k \in 0..MaxId : /\ At(k) \subseteq Ids /\ IsFiniteSet(At(k))
                          /\ Cardinality(At(k)) \in Nat /\ Cardinality(At(k)) <= MaxId
  BY <1>5, FS_Subset, FS_CardinalityType
<1>7. 0 \in S
  <2>1. At(0) = {active[2]}
    BY <1>2, <1>4
  <2>2. Cardinality(At(0)) = 1
    BY <2>1, FS_Singleton
  <2>3. QED
    BY <2>1, <2>2
<1>8. ASSUME NEW k \in 0..(MaxId - 1), k \in S
      PROVE  k + 1 \in S
  <2>1. k \in 0..MaxId /\ k + 1 \in 0..MaxId /\ k + 1 \in 1..MaxId /\ (k + 1) - 1 = k
    OBVIOUS
  <2>2. up[k + 1] = up[k] \cup {par[i] : i \in At(k)}
    BY <2>1, <1>2, <1>3
  <2>3. At(k) \subseteq At(k + 1)
    BY <2>2
  <2>4. CASE Shut(k)
    <3>1. \A i \in At(k) : par[i] \in Ids => par[i] # 0
      BY DEF Ids
    <3>2. At(k + 1) = At(k)
      BY <2>2, <2>4, <3>1
    <3>3. Shut(k + 1)
      BY <2>4, <3>2
    <3>4. QED
      BY <1>8, <2>1, <2>3, <3>3
  <2>5. CASE ~Shut(k)
    <3>1. PICK i \in At(k) : par[i] # 0 /\ par[i] \notin At(k)
      BY <2>5
    <3>2. par[i] \in Ids
      <4>1. par[i] \in 0..MaxId
        BY <1>3
      <4>2. QED
        BY <3>1, <4>1 DEF Ids
    <3>3. At(k) \cup {par[i]} \subseteq At(k + 1)
      BY <2>2, <2>3, <3>2
    <3>4. Cardinality(At(k)) >= k + 1
      BY <1>8, <2>5
    <3>5. Cardinality(At(k) \cup {par[i]}) = Cardinality(At(k)) + 1
      BY <3>1, <1>6, <2>1, FS_AddElement
    <3>6. Cardinality(At(k) \cup {par[i]}) <= Cardinality(At(k + 1))
      BY <3>3, <1>6, <2>1, FS_Subset
    <3>7. /\ Cardinality(At(k)) \in Nat /\ Cardinality(At(k + 1)) \in Nat
      BY <1>6, <2>1
    <3> HIDE DEF At
    <3>8. Cardinality(At(k + 1)) >= (k + 1) + 1
      BY <3>4, <3>5, <3>6, <3>7, <2>1
    <3>9. active[2] \in At(k + 1)
      BY <1>8, <2>3
    <3>10. QED
      BY <2>1, <3>8, <3>9
  <2>6. QED
    BY <2>4, <2>5
<1>9. MaxId \in S
  <2> HIDE DEF S
  <2>1. 0..MaxId \subseteq S
    BY <1>7, <1>8, Induct
  <2>2. QED
    BY <2>1
<1>10. Shut(MaxId) /\ active[2] \in At(MaxId)
  <2>1. Cardinality(At(MaxId)) \in Nat /\ Cardinality(At(MaxId)) <= MaxId
    BY <1>6
  <2> HIDE DEF At, Shut
  <2>2. QED
    BY <1>9, <2>1
<1>11. ASSUME NEW i \in Lineage(n)
       PROVE  i \in Protected(n)
  <2>1. \A X \in SUBSET Ids : active[2] \in X /\ Closed(n, X) => i \in X
    BY DEF Lineage
  <2>2. Closed(n, At(MaxId))
    BY <1>3, <1>10 DEF Closed
  <2>3. At(MaxId) \in SUBSET Ids
    OBVIOUS
  <2>4. i \in At(MaxId)
    BY <2>1, <2>2, <2>3, <1>10
  <2>5. QED
    BY <2>4, <1>2
<1>12. QED
  BY <1>11

-----------------------------------------------------------------------------
(* A command leaves the turns alone.                                       *)
LEMMA CommandInd ==
    ASSUME Inv, Command,
           registered' \subseteq Names, lost' \subseteq Names \X Ids,
           convs' \in [Names -> [Ids -> Convs \cup {NoConv}]],
           \A m \in Names \ registered' : Present(m)' = {},
           active' \in (Names \X Ids) \cup {NoActive},
           telegramActive' \in Names \cup {NoName},
           \A u \in Turns : Placed(u)' /\ Owns(u)'
    PROVE  Inv'
<1>1. events' \in 0..MaxEvents
  BY DEF Inv, TypeOK, Command, Event
<1>2. TypeOK'
  BY <1>1 DEF Inv, TypeOK, Command
<1>3. QED
  BY <1>2 DEF Inv

(* ... and most of them the projects and records.                          *)
LEMMA PointerInd ==
    ASSUME Inv, Command, UNCHANGED <<registered, convs, lost>>,
           active' \in (Names \X Ids) \cup {NoActive},
           telegramActive' \in Names \cup {NoName}
    PROVE  StepOK
<1>1. turn' = turn
  BY DEF Command
<1>2. RecordsStay /\ LineageStays /\ \A u \in Turns : Placed(u)' /\ Owns(u)'
  BY <1>1, StoreFrame
<1>3. lost' \subseteq Names \X Ids /\ \A m \in Names \ registered' : Present(m)' = {}
  BY TypeFacts DEF Inv, TypeOK, Present
<1>4. Inv'
  BY <1>2, <1>3, TypeFacts, CommandInd
<1>5. QED
  BY <1>2, <1>4 DEF StepOK

LEMMA AddProjectStep == ASSUME Inv, NEW n \in Names, AddProject(n) PROVE StepOK
<1>1. /\ Command /\ turn' = turn
      /\ n \notin registered /\ registered' = registered \cup {n}
      /\ UNCHANGED <<convs, active, telegramActive, lost>>
  BY DEF AddProject, Command
<1>2. \A u \in Turns : Placed(u)' /\ Owns(u)'
  BY <1>1, OwnsStay
<1>3. lost' \subseteq Names \X Ids
  BY <1>1 DEF Inv, TypeOK
<1>4. \A m \in Names \ registered' : Present(m)' = {}
  BY <1>1, TypeFacts DEF Present
<1>5. Inv'
  BY <1>1, <1>2, <1>3, <1>4, TypeFacts, CommandInd
<1>6. RecordsStay
  BY <1>1 DEF RecordsStay
<1>7. LineageStays
  BY <1>1 DEF LineageStays, Lineage, Present
<1>8. QED
  BY <1>5, <1>6, <1>7 DEF StepOK

(* Records that go take no other's place, and a turn in progress has none  *)
(* of them any more.                                                       *)
LEMMA FreesFacts ==
    ASSUME Inv, NEW gone \in SUBSET (Names \X Ids), Frees(gone), turn' = turn
    PROVE  /\ convs' \in [Names -> [Ids -> Convs \cup {NoConv}]]
           /\ \A n \in Names, i \in Ids :
                 /\ convs'[n][i] = convs[n][i] \/ convs'[n][i] = NoConv
                 /\ <<n, i>> \notin gone => convs'[n][i] = convs[n][i]
                 /\ <<n, i>> \in gone => convs'[n][i] = NoConv
           /\ RecordsStay /\ lost' \subseteq Names \X Ids
           /\ \A u \in Turns : Placed(u)' /\ Owns(u)'
<1>1. convs \in [Names -> [Ids -> Convs \cup {NoConv}]]
  BY TypeFacts
<1>2. convs' = [n \in Names |-> [i \in Ids |-> IF <<n, i>> \in gone THEN NoConv ELSE convs[n][i]]]
  BY DEF Frees
<1>3. convs' \in [Names -> [Ids -> Convs \cup {NoConv}]]
  BY <1>1, <1>2
<1>4. \A n \in Names, i \in Ids :
         /\ convs'[n][i] = convs[n][i] \/ convs'[n][i] = NoConv
         /\ <<n, i>> \notin gone => convs'[n][i] = convs[n][i]
         /\ <<n, i>> \in gone => convs'[n][i] = NoConv
  BY <1>2
<1>5. RecordsStay
  BY <1>4 DEF RecordsStay
<1>6. lost' \subseteq Names \X Ids
  BY DEF Frees, Inv, TypeOK
<1>7. ASSUME NEW u \in Turns, turn[u].at \in Made, NEW k \in 1..Depth(u),
             <<turn[u].name, turn[u].series[k]>> \notin lost'
      PROVE  /\ <<turn[u].name, turn[u].series[k]>> \notin lost
             /\ convs'[turn[u].name][turn[u].series[k]] = convs[turn[u].name][turn[u].series[k]]
  <2> DEFINE n == turn[u].name
             i == turn[u].series[k]
  <2>1. n \in Names /\ i \in Ids /\ turn[u].series \in Seq(Ids)
    BY <1>7, MadeFacts
  <2>2. k \in DOMAIN turn[u].series /\ turn[u].at \in InProgress
    BY <1>7, <2>1, MadeStages DEF Depth
  <2>3. lost' = lost \cup {c \in gone : \E t \in Turns :
                            /\ turn[t].at \in InProgress /\ turn[t].name = c[1]
                            /\ \E l \in DOMAIN turn[t].series : turn[t].series[l] = c[2]}
    BY DEF Frees
  <2>4. <<n, i>> \notin gone /\ <<n, i>> \notin lost
    <3>1. <<n, i>>[1] = turn[u].name /\ <<n, i>>[2] = turn[u].series[k]
      OBVIOUS
    <3>2. <<n, i>> \notin lost' /\ lost \subseteq lost'
      BY <1>7, <2>3
    <3> HIDE DEF n, i
    <3>3. <<n, i>> \notin gone
      BY <2>2, <2>3, <3>1, <3>2
    <3>4. QED
      BY <3>2, <3>3
  <2>5. QED
    BY <2>1, <2>4, <1>4
<1>8. \A u \in Turns : Placed(u)' /\ Owns(u)'
  BY <1>7, OwnsFrame
<1>9. QED
  BY <1>3, <1>4, <1>5, <1>6, <1>8

LEMMA RemoveProjectStep == ASSUME Inv, NEW n \in Names, RemoveProject(n) PROVE StepOK
<1> DEFINE gone == {n} \X Present(n)
<1>1. /\ Command /\ turn' = turn /\ Frees(gone)
      /\ registered' = registered \ {n}
      /\ active' = active \/ active' = NoActive
      /\ telegramActive' = telegramActive \/ telegramActive' = NoName
  BY DEF RemoveProject, Command
<1>2. gone \in SUBSET (Names \X Ids)
  BY DEF Present
<1>3. \A m \in Names, i \in Ids :
         <<m, i>> \in gone <=> m = n /\ convs[m][i] # NoConv
  BY DEF Present
<1> HIDE DEF gone
<1>4. /\ convs' \in [Names -> [Ids -> Convs \cup {NoConv}]]
      /\ \A m \in Names, i \in Ids :
            /\ convs'[m][i] = convs[m][i] \/ convs'[m][i] = NoConv
            /\ <<m, i>> \notin gone => convs'[m][i] = convs[m][i]
            /\ <<m, i>> \in gone => convs'[m][i] = NoConv
      /\ RecordsStay /\ lost' \subseteq Names \X Ids
      /\ \A u \in Turns : Placed(u)' /\ Owns(u)'
  BY <1>1, <1>2, FreesFacts
<1>5. \A m \in Names \ {n}, i \in Ids : convs'[m][i] = convs[m][i]
  BY <1>3, <1>4
<1>6. \A i \in Ids : convs'[n][i] = NoConv
  BY <1>3, <1>4
<1>7. \A m \in Names \ registered' : Present(m)' = {}
  <2>1. \A m \in Names \ registered : Present(m) = {}
    BY TypeFacts
  <2>2. QED
    BY <2>1, <1>1, <1>5, <1>6 DEF Present
<1>8. Inv'
  BY <1>1, <1>4, <1>7, TypeFacts, CommandInd
<1>9. LineageStays
  <2>1. SUFFICES ASSUME NEW m \in Names, m \in registered', NEW i \in Lineage(m)
                 PROVE  convs'[m][i] # NoConv
    BY DEF LineageStays
  <2>2. i \in Ids /\ convs[m][i] # NoConv /\ m # n
    BY <1>1, <2>1 DEF Lineage, Present
  <2>3. QED
    BY <1>5, <2>2
<1>10. QED
  BY <1>4, <1>8, <1>9 DEF StepOK

(* A pruning spares what the active conversation goes back to, whatever    *)
(* else is old and whoever is at work.                                     *)
LEMMA PruneStep == ASSUME Inv, Prune PROVE StepOK
<1>1. Event /\ UNCHANGED <<registered, active, telegramActive, turn, listed>>
  BY DEF Prune
<1>2. PICK old \in SUBSET {c \in Names \X Ids : c[2] \in Present(c[1])} :
         Frees({c \in old : c[2] \notin Protected(c[1])})
  BY DEF Prune
<1> DEFINE gone == {c \in old : c[2] \notin Protected(c[1])}
<1>3. gone \in SUBSET (Names \X Ids) /\ Frees(gone)
  BY <1>2
<1>4. \A n \in Names : \A i \in Protected(n) : <<n, i>> \notin gone
  OBVIOUS
<1> HIDE DEF gone
<1>5. /\ convs' \in [Names -> [Ids -> Convs \cup {NoConv}]]
      /\ \A m \in Names, i \in Ids :
            /\ convs'[m][i] = convs[m][i] \/ convs'[m][i] = NoConv
            /\ <<m, i>> \notin gone => convs'[m][i] = convs[m][i]
            /\ <<m, i>> \in gone => convs'[m][i] = NoConv
      /\ RecordsStay /\ lost' \subseteq Names \X Ids
      /\ \A u \in Turns : Placed(u)' /\ Owns(u)'
  BY <1>1, <1>3, FreesFacts
<1>6. \A m \in Names \ registered' : Present(m)' = {}
  <2>1. \A m \in Names \ registered : Present(m) = {}
    BY TypeFacts
  <2>2. ASSUME NEW m \in Names \ registered, NEW i \in Ids
        PROVE  convs'[m][i] = NoConv
    <3>1. convs[m][i] = NoConv
      BY <2>1 DEF Present
    <3>2. QED
      BY <3>1, <1>5
  <2>3. QED
    BY <2>2, <1>1 DEF Present
<1>7. events' \in 0..MaxEvents
  BY <1>1 DEF Inv, TypeOK, Event
<1>8. TypeOK'
  BY <1>1, <1>5, <1>6, <1>7 DEF Inv, TypeOK
<1>9. LineageStays
  <2>1. SUFFICES ASSUME NEW n \in Names, NEW i \in Lineage(n)
                 PROVE  convs'[n][i] # NoConv
    BY DEF LineageStays
  <2>2. i \in Ids /\ convs[n][i] # NoConv
    BY <2>1 DEF Lineage, Present
  <2>3. i \in Protected(n)
    BY <2>1, ProtectedLineage
  <2>4. QED
    BY <1>4, <1>5, <2>2, <2>3
<1>10. QED
  BY <1>5, <1>8, <1>9 DEF StepOK, Inv

LEMMA ChatNewStep == ASSUME Inv, ChatNew PROVE StepOK
<1> DEFINE n == active[1]
<1>1. /\ Command /\ turn' = turn /\ n \in Names
      /\ Creates(n, "chat") /\ active' = <<n, NextId(n)>>
      /\ UNCHANGED <<registered, telegramActive, lost>>
  BY TypeFacts DEF ChatNew, Command
<1> HIDE DEF n
<1>2. /\ n \in registered /\ NextId(n) \in Ids
      /\ convs' \in [Names -> [Ids -> Convs \cup {NoConv}]]
      /\ RecordsStay /\ LineageStays
      /\ \A m \in Names \ registered : Present(m)' = {}
      /\ \A u \in Turns : turn'[u] = turn[u] => Placed(u)' /\ Owns(u)'
  BY <1>1, CreatesFacts
<1>3. active' \in (Names \X Ids) \cup {NoActive}
  BY <1>1, <1>2
<1>4. lost' \subseteq Names \X Ids
  BY <1>1 DEF Inv, TypeOK
<1>5. Inv'
  BY <1>1, <1>2, <1>3, <1>4, TypeFacts, CommandInd
<1>6. QED
  BY <1>2, <1>5 DEF StepOK

LEMMA RestartStep == ASSUME Inv, Restart PROVE StepOK
<1>1. /\ Event /\ listed' = {} /\ lost' = {} /\ UNCHANGED storeVars
      /\ turn' = [t \in Turns |-> IF turn[t].at \in InProgress THEN Work("ended", NoName, <<>>)
                                                               ELSE turn[t]]
  BY DEF Restart
<1>2. turn' \in [Turns -> WorkSet] /\ \A t \in Turns : turn'[t].at \notin InProgress
  <2>1. Work("ended", NoName, <<>>) \in WorkSet /\ Work("ended", NoName, <<>>).at = "ended"
    BY NoSeries
  <2>2. turn \in [Turns -> WorkSet]
    BY TypeFacts
  <2>3. "ended" \notin InProgress
    BY DEF InProgress
  <2>4. \A t \in Turns : turn'[t] \in WorkSet /\ turn'[t].at \notin InProgress
    BY <1>1, <2>1, <2>2, <2>3
  <2>5. turn' = [t \in Turns |-> turn'[t]]
    BY <1>1
  <2>6. QED
    BY <2>4, <2>5
<1>3. \A u \in Turns : Placed(u)' /\ Owns(u)'
  <2>1. \A u \in Turns : turn'[u].at \notin Made /\ turn'[u].at # "chosen"
    BY <1>2, MadeStages
  <2>2. QED
    BY <2>1, Outside
<1>4. events' \in 0..MaxEvents
  BY <1>1 DEF Inv, TypeOK, Event
<1>5. TypeOK'
  BY <1>1, <1>2, <1>4 DEF Inv, TypeOK, WorkSet, storeVars, Present
<1>6. RecordsStay /\ LineageStays
  BY <1>1 DEF RecordsStay, LineageStays, Lineage, Present, storeVars
<1>7. QED
  BY <1>3, <1>5, <1>6 DEF StepOK, Inv

-----------------------------------------------------------------------------
LEMMA NextInd ==
    ASSUME Inv, [Next]_vars
    PROVE  StepOK
<1>1. ASSUME NEW t \in Turns, Scheduled(t)
      PROVE  StepOK
  BY <1>1, PinStep, ChooseStep, MakeStep, CheckStep, StartStep, SplitStep, LinkStep,
     SaveTurnStep, CompleteStep, FailStep DEF Scheduled
<1>2. ASSUME NEW n \in Names, AddProject(n) \/ RemoveProject(n)
      PROVE  StepOK
  BY <1>2, AddProjectStep, RemoveProjectStep
<1>3. ASSUME NEW n \in Names, SwitchTelegram(n)
      PROVE  StepOK
  <2>1. Command /\ UNCHANGED <<registered, convs, active, lost>> /\ telegramActive' = n
    BY <1>3 DEF SwitchTelegram
  <2>2. QED
    BY <2>1, TypeFacts, PointerInd
<1>4. ASSUME NEW n \in Names, NEW i \in Ids, ChatUse(n, i)
      PROVE  StepOK
  <2>1. Command /\ UNCHANGED <<registered, convs, telegramActive, lost>> /\ active' = <<n, i>>
    BY <1>4 DEF ChatUse
  <2>2. QED
    BY <2>1, TypeFacts, PointerInd
<1>5. CASE WebActive
  <2>1. Command /\ UNCHANGED <<registered, convs, telegramActive, lost>> /\ active' = NoActive
    BY <1>5 DEF WebActive
  <2>2. QED
    BY <2>1, TypeFacts, PointerInd
<1>6. CASE UNCHANGED vars
  <2>1. UNCHANGED <<registered, convs, active, telegramActive, turn, listed, lost, events>>
    BY <1>6 DEF vars, storeVars
  <2>2. RecordsStay /\ LineageStays /\ \A u \in Turns : Placed(u)' /\ Owns(u)'
    BY <2>1, StoreFrame
  <2>3. TypeOK'
    BY <2>1 DEF Inv, TypeOK, Present
  <2>4. QED
    BY <2>2, <2>3 DEF StepOK, Inv
<1>7. QED
  BY <1>1, <1>2, <1>3, <1>4, <1>5, <1>6, ChatNewStep, PruneStep, RestartStep
  DEF Next

LEMMA Invariance == Spec => []Inv
<1>1. Inv /\ [Next]_vars => Inv'
  BY NextInd DEF StepOK
<1>2. QED
  BY <1>1, InitInv, PTL DEF Spec

(* The store, the pointers and the turns keep their types, and a project   *)
(* that is not registered has no conversations.                            *)
THEOREM Typing == Spec => []TypeOK
<1>1. Inv => TypeOK
  BY DEF Inv
<1>2. QED
  BY <1>1, Invariance, PTL

(* No step writes another's record over a conversation, or loses where it  *)
(* continues from, unless it went under the turn that made it, with its    *)
(* project or pruned, and its ID was given again.                          *)
THEOREM NoOverwrite == Spec => RecordsKept
<1>1. Inv /\ [Next]_vars => RecordsStay
  BY NextInd DEF StepOK
<1>2. RecordsStay =>
         \A n \in Names, i \in Ids :
            convs[n][i] # NoConv /\ convs'[n][i] # NoConv =>
                \/ convs'[n][i].by = convs[n][i].by
                   /\ (convs[n][i].parent # 0 => convs'[n][i].parent # 0)
                \/ <<n, i>> \in lost
  BY DEF RecordsStay
<1>3. QED
  BY <1>1, <1>2, Invariance, PTL DEF Spec, RecordsKept

(* No step, a pruning at any moment of any turns included, takes a record  *)
(* the active conversation goes back to, as long as its project is         *)
(* registered.                                                             *)
THEOREM Lineages == Spec => LineageKept
<1>1. Inv /\ [Next]_vars => LineageStays
  BY NextInd DEF StepOK
<1>2. LineageStays =>
         \A n \in Names : n \in registered' => \A i \in Lineage(n) : convs'[n][i] # NoConv
  BY DEF LineageStays
<1>3. QED
  BY <1>1, <1>2, Invariance, PTL DEF Spec, LineageKept

-----------------------------------------------------------------------------
(* One step up a series, and the climb made of such steps.                 *)
StepUp(n) == [x \in Ids |-> Above(n, x)]

LEMMA ClimbFacts ==
    ASSUME NEW n, NEW i \in Ids
    PROVE  /\ Climb(n, i) \in [0..MaxId -> Ids]
           /\ Iterated(Climb(n, i), MaxId, i, StepUp(n))
<1> DEFINE step == StepUp(n)
           Body(g) == [k \in 0..MaxId |->
                          IF k = 0 THEN i ELSE Above(n, g[k - 1])]
           at == CHOOSE g : g = Body(g)
<1>1. step \in [Ids -> Ids]
  BY DEF StepUp, Above, Present
<1>2. PICK f \in [0..MaxId -> Ids] : Iterated(f, MaxId, i, step)
  <2> HIDE DEF step
  <2>1. QED
    BY <1>1, Iterates
<1>3. f = Body(f)
  <2>1. ASSUME NEW k \in 1..MaxId
        PROVE  f[k] = Above(n, f[k - 1])
    <3>1. k - 1 \in 0..MaxId
      OBVIOUS
    <3>2. f[k - 1] \in Ids
      BY <3>1
    <3>3. QED
      BY <3>2, <1>2 DEF Iterated, StepUp
  <2>2. \A k \in 0..MaxId : k = 0 \/ k \in 1..MaxId
    OBVIOUS
  <2>3. \A k \in 0..MaxId : f[k] = Body(f)[k]
    BY <2>1, <2>2, <1>2 DEF Iterated
  <2>4. Body(f) = [k \in 0..MaxId |-> Body(f)[k]] /\ f = [k \in 0..MaxId |-> f[k]]
    OBVIOUS
  <2> HIDE DEF Body
  <2>5. QED
    BY <2>3, <2>4
<1>4. at = Body(at)
  <2> HIDE DEF Body
  <2>1. QED
    BY <1>3
<1>5. Climb(n, i) = at
  BY DEF Climb
<1> HIDE DEF at
<1>6. at[0] = i
  BY <1>4
<1>7. \A k \in 1..MaxId : at[k] = Above(n, at[k - 1])
  BY <1>4
<1>8. \A k \in 0..MaxId : at[k] \in Ids
  <2> DEFINE S == {k \in 0..MaxId : at[k] \in Ids}
  <2>1. 0 \in S
    BY <1>6
  <2>2. ASSUME NEW k \in 0..(MaxId - 1), k \in S
        PROVE  k + 1 \in S
    <3>1. k + 1 \in 1..MaxId /\ k + 1 \in 0..MaxId /\ (k + 1) - 1 = k
      OBVIOUS
    <3>2. at[k + 1] = at[k] \/ at[k + 1] \in Present(n)
      BY <3>1, <1>7 DEF Above
    <3>3. QED
      BY <2>2, <3>1, <3>2 DEF Present
  <2>3. 0..MaxId \subseteq S
    <3> HIDE DEF S
    <3>1. QED
      BY <2>1, <2>2, Induct
  <2>4. QED
    BY <2>3
<1>9. at \in [0..MaxId -> Ids]
  <2>1. at = [k \in 0..MaxId |-> at[k]]
    BY <1>4
  <2>2. QED
    BY <2>1, <1>8
<1>10. Iterated(at, MaxId, i, step)
  <2>1. \A k \in 1..MaxId : at[k - 1] \in Ids
    BY <1>8
  <2>2. QED
    BY <2>1, <1>6, <1>7 DEF Iterated, StepUp
<1>11. QED
  BY <1>5, <1>9, <1>10

(* webConversationRootID stops at the first record it meets twice; in a    *)
(* series that is no circle this is the first of the series.               *)
LEMMA RootIsEnd ==
    ASSUME NEW n, NEW i \in Ids, Rooted(n, i)
    PROVE  Root(n, i) = Climb(n, i)[MaxId]
<1>1. PICK at : /\ at = Climb(n, i) /\ at \in [0..MaxId -> Ids]
                /\ Iterated(at, MaxId, i, StepUp(n))
  BY ClimbFacts
<1>2. PICK step : step = StepUp(n)
  OBVIOUS
<1>3. /\ at[0] = i /\ \A k \in 1..MaxId : at[k] = step[at[k - 1]]
      /\ \A k \in 0..MaxId : at[k] \in Ids
  BY <1>1, <1>2 DEF Iterated
<1>4. step[at[MaxId]] = at[MaxId]
  BY <1>1, <1>2, <1>3 DEF Rooted, StepUp, Above
<1> DEFINE again == {k \in 1..MaxId : \E j \in 0..(k - 1) : at[j] = at[k]}
<1>5. again # {}
  <2>1. IsFiniteSet(0..MaxId) /\ Cardinality(0..MaxId) = MaxId + 1
    BY FS_Interval
  <2>2. IsFiniteSet(Ids) /\ Cardinality(Ids) = MaxId
    BY FS_Interval DEF Ids
  <2>3. Cardinality(Ids) < Cardinality(0..MaxId)
    BY <2>1, <2>2
  <2>4. PICK x, y \in 0..MaxId : x # y /\ at[x] = at[y]
    BY <1>1, <2>1, <2>2, <2>3, FS_PigeonHole
  <2>5. CASE x < y
    <3>1. y \in again
      BY <2>4, <2>5
    <3>2. QED
      BY <3>1
  <2>6. CASE y < x
    <3>1. x \in again
      BY <2>4, <2>6
    <3>2. QED
      BY <3>1
  <2>7. QED
    BY <2>4, <2>5, <2>6
<1>6. PICK k \in again : Root(n, i) = at[k] /\ \A l \in again : k <= l
  <2>1. \E k \in again : \A l \in again : k <= l
    <3>1. again \in SUBSET Nat
      OBVIOUS
    <3> HIDE DEF again
    <3>2. QED
      BY <1>5, <3>1, Least
  <2>2. Root(n, i) = at[CHOOSE k \in again : \A l \in again : k <= l]
    BY <1>1 DEF Root
  <2> HIDE DEF again
  <2>3. QED
    BY <2>1, <2>2
<1>7. PICK j \in 0..(k - 1) : at[j] = at[k]
  OBVIOUS
<1>8. k \in 1..MaxId
  OBVIOUS
<1> DEFINE C == {at[l] : l \in j..(k - 1)}
           S == {m \in 0..MaxId : m < j \/ at[m] \in C}
<1>9. at[j] \in C
  BY <1>8
<1>10. 0..MaxId \subseteq S
  <2>1. 0 \in S
    <3>1. j = 0 \/ 0 < j
      OBVIOUS
    <3>2. QED
      BY <3>1, <1>9
  <2>2. ASSUME NEW m \in 0..(MaxId - 1), m \in S
        PROVE  m + 1 \in S
    <3>1. m + 1 \in 1..MaxId /\ m + 1 \in 0..MaxId /\ (m + 1) - 1 = m
      OBVIOUS
    <3>2. CASE m < j
      <4>1. m + 1 < j \/ m + 1 = j
        BY <3>2
      <4>2. QED
        BY <3>1, <4>1, <1>9
    <3>3. CASE ~(m < j)
      <4>1. PICK l \in j..(k - 1) : at[m] = at[l]
        BY <2>2, <3>3
      <4>2. l + 1 \in 1..MaxId /\ (l + 1) - 1 = l
        BY <1>8
      <4>3. at[m + 1] = at[l + 1]
        BY <3>1, <4>1, <4>2, <1>3
      <4>4. l + 1 = k \/ l + 1 \in j..(k - 1)
        BY <1>8
      <4>5. at[l + 1] \in C
        BY <4>4, <1>7, <1>9
      <4>6. QED
        BY <3>1, <4>3, <4>5
    <3>4. QED
      BY <3>2, <3>3
  <2> HIDE DEF S
  <2>3. QED
    BY <2>1, <2>2, Induct
<1>11. PICK l \in j..(k - 1) : at[MaxId] = at[l]
  <2>1. MaxId \in S /\ ~(MaxId < j)
    BY <1>8, <1>10
  <2>2. QED
    BY <2>1
<1>12. l + 1 \in 1..MaxId /\ (l + 1) - 1 = l /\ l \in 0..((l + 1) - 1)
  BY <1>8
<1>13. at[l + 1] = at[l]
  BY <1>3, <1>4, <1>11, <1>12
<1>14. l + 1 \in again
  BY <1>12, <1>13
<1>15. k = l + 1
  BY <1>6, <1>8, <1>14
<1>16. QED
  BY <1>1, <1>6, <1>11, <1>13, <1>15

(* A continuation has the root of its parent.                              *)
LEMMA ParentRoot ==
    ASSUME NEW n, NEW i \in Ids, ParentsIn(n)[i] \in Present(n),
           Rooted(n, i), Rooted(n, ParentsIn(n)[i])
    PROVE  Root(n, ParentsIn(n)[i]) = Root(n, i)
<1>1. PICK p : p = ParentsIn(n)[i] /\ p \in Ids
  BY DEF Present
<1>2. PICK at : /\ at = Climb(n, i) /\ at \in [0..MaxId -> Ids]
                /\ Iterated(at, MaxId, i, StepUp(n))
  BY ClimbFacts
<1>3. PICK bt : /\ bt = Climb(n, p) /\ bt \in [0..MaxId -> Ids]
                /\ Iterated(bt, MaxId, p, StepUp(n))
  BY <1>1, ClimbFacts
<1>4. PICK step : step = StepUp(n)
  OBVIOUS
<1>5. /\ at[0] = i /\ \A k \in 1..MaxId : at[k] = step[at[k - 1]]
      /\ bt[0] = p /\ \A k \in 1..MaxId : bt[k] = step[bt[k - 1]]
      /\ step[i] = p
  BY <1>1, <1>2, <1>3, <1>4 DEF Iterated, StepUp, Above
<1>6. step[at[MaxId]] = at[MaxId]
  <2>1. at[MaxId] \in Ids
    BY <1>2
  <2>2. QED
    BY <2>1, <1>2, <1>4 DEF Rooted, StepUp, Above
<1>7. MaxId \in 1..MaxId
  BY DEF Ids
<1> DEFINE S == {k \in 0..(MaxId - 1) : at[k + 1] = bt[k]}
<1>8. 0..(MaxId - 1) \subseteq S
  <2>1. 0 \in S
    <3>1. 0 + 1 \in 1..MaxId /\ (0 + 1) - 1 = 0 /\ 0 \in 0..(MaxId - 1)
      BY <1>7
    <3>2. at[0 + 1] = bt[0]
      BY <3>1, <1>5
    <3>3. QED
      BY <3>1, <3>2
  <2>2. ASSUME NEW k \in 0..((MaxId - 1) - 1), k \in S
        PROVE  k + 1 \in S
    <3>1. /\ (k + 1) + 1 \in 1..MaxId /\ ((k + 1) + 1) - 1 = k + 1
          /\ k + 1 \in 1..MaxId /\ (k + 1) - 1 = k /\ k + 1 \in 0..(MaxId - 1)
      BY <1>7
    <3>2. at[(k + 1) + 1] = bt[k + 1]
      BY <2>2, <3>1, <1>5
    <3>3. QED
      BY <3>1, <3>2
  <2>3. MaxId - 1 \in Nat
    BY <1>7
  <2> HIDE DEF S
  <2>4. QED
    BY <2>1, <2>2, <2>3, Induct
<1>9. at[MaxId] = bt[MaxId - 1]
  <2>1. MaxId - 1 \in S /\ (MaxId - 1) + 1 = MaxId
    BY <1>7, <1>8
  <2>2. QED
    BY <2>1
<1>10. bt[MaxId] = at[MaxId]
  BY <1>5, <1>6, <1>7, <1>9
<1>11. QED
  BY <1>1, <1>2, <1>3, <1>10, RootIsEnd

-----------------------------------------------------------------------------
Topic(n, r) ==
    [root |-> r, members |-> {i \in Present(n) : Root(n, i) = r},
     active |-> active[1] = n /\ active[2] \in Present(n) /\ Root(n, active[2]) = r]

LEMMA TopicsOf ==
    ASSUME NEW n, \A i \in Present(n) : Rooted(n, i)
    PROVE  /\ \A i \in Present(n) : Cardinality({p \in Topics(n) : i \in p.members}) = 1
           /\ \A p \in Topics(n), i \in Present(n) :
                 ParentsIn(n)[i] \in p.members => i \in p.members
           /\ Cardinality({p \in Topics(n) : p.active}) <= 1
<1>1. Topics(n) = {Topic(n, r) : r \in {Root(n, i) : i \in Present(n)}}
  BY DEF Topics, Topic
<1>2. \A r : Topic(n, r).members = {i \in Present(n) : Root(n, i) = r}
  BY DEF Topic
<1>3. ASSUME NEW i \in Present(n)
      PROVE  Cardinality({p \in Topics(n) : i \in p.members}) = 1
  <2>1. {p \in Topics(n) : i \in p.members} = {Topic(n, Root(n, i))}
    BY <1>1, <1>2
  <2>2. QED
    BY <2>1, FS_Singleton
<1>4. ASSUME NEW p \in Topics(n), NEW i \in Present(n), ParentsIn(n)[i] \in p.members
      PROVE  i \in p.members
  <2>1. PICK r : p = Topic(n, r)
    BY <1>1
  <2>2. ParentsIn(n)[i] \in Present(n) /\ Root(n, ParentsIn(n)[i]) = r /\ i \in Ids
    BY <1>2, <1>4, <2>1 DEF Present
  <2>3. Root(n, i) = r
    BY <2>2, ParentRoot
  <2>4. QED
    BY <1>2, <2>1, <2>3
<1>5. Cardinality({p \in Topics(n) : p.active}) <= 1
  <2> DEFINE A == {p \in Topics(n) : p.active}
             B == {Topic(n, Root(n, active[2]))}
  <2>1. \A r : Topic(n, r).active => Root(n, active[2]) = r
    BY DEF Topic
  <2>2. A \subseteq B
    BY <1>1, <2>1
  <2>3. IsFiniteSet(B) /\ Cardinality(B) = 1
    BY FS_Singleton
  <2> HIDE DEF A, B
  <2>4. Cardinality(A) <= 1
    BY <2>2, <2>3, FS_Subset
  <2>5. QED
    BY <2>4 DEF A
<1>6. QED
  BY <1>3, <1>4, <1>5

(* The browser's list shows every conversation in one topic and a series   *)
(* as one topic, and one topic at most as the active one.                  *)
THEOREM Topical == Spec => []TopicsWhole
<1>1. Inv => TopicsWhole
  BY TopicsOf DEF TopicsWhole
<1>2. QED
  BY <1>1, Invariance, PTL
=============================================================================
