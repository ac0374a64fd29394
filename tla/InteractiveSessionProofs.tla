----------------------- MODULE InteractiveSessionProofs -----------------------
(* Safety of the persistent sessions for any number of concurrent turns    *)
(* and any amount of output.                                               *)
EXTENDS InteractiveSession, TLAPS

USE SessionAssumption

-----------------------------------------------------------------------------
(* Nobody knows the session of a turn that has not looked the map up       *)
(* twice.                                                                  *)
Known ==
    \A t \in Turns :
        pc[t] \in {"idle", "booted"} =>
            /\ registered # t /\ t \notin doomed /\ t \notin stopCh
            /\ \A u \in Turns : sess[u] # t

(* A session is stopped because the runner is closed, because the reaper   *)
(* marked it or because another one was inserted first.                    *)
Superseded(s) == registered # s /\ \A u \in Turns : sess[u] # s
StopCause ==
    \A s \in Sessions :
        s \in doomed \cup stopCh => stopReap \/ s \in closing \/ Superseded(s)

(* A queue holds turns of the session, each once; only its head is armed.  *)
Queued ==
    \A s \in Sessions : \A i \in 1..Len(pending[s]) :
        /\ sess[pending[s][i]] = s /\ pc[pending[s][i]] \in {"typing", "done"}
        /\ i # 1 => start[pending[s][i]] = Unarmed
        /\ \A j \in 1..Len(pending[s]) : pending[s][i] = pending[s][j] => i = j
Closed == \A s \in closing : pending[s] = <<>>
HasSession ==
    \A t \in Turns : pc[t] \in {"found", "typing"} => sess[t] \in Sessions

(* A reply lies within the output before the head of the queue was armed.  *)
Replied ==
    \A t \in Turns :
        result[t].kind = "reply" =>
            /\ pc[t] \in {"typing", "done"} /\ sess[t] \in Sessions
            /\ result[t].to <= output[sess[t]]
            /\ pending[sess[t]] # <<>> /\ start[Head1(sess[t])] # Unarmed
                 => result[t].to <= start[Head1(sess[t])]
Armed ==
    \A s \in Sessions :
        pending[s] # <<>> /\ start[Head1(s)] # Unarmed => start[Head1(s)] <= output[s]

RunnerInv == Known /\ StopCause /\ HasSession /\ NoOrphan
QueueInv == Queued /\ Closed
ReplyInv == Replied /\ Armed /\ RepliesDisjoint /\ ReapSparesTurns
IndInv == TypeOK /\ RunnerInv /\ QueueInv /\ ReplyInv

-----------------------------------------------------------------------------
LEMMA TailElements ==
    ASSUME NEW T, NEW q \in Seq(T), q # <<>>
    PROVE  /\ Tail(q) \in Seq(T) /\ Len(Tail(q)) = Len(q) - 1 /\ Len(q) \in Nat \ {0}
           /\ \A i \in 1..Len(Tail(q)) : Tail(q)[i] = q[i + 1]
OBVIOUS

LEMMA AppendElements ==
    ASSUME NEW T, NEW q \in Seq(T), NEW x \in T
    PROVE  /\ Append(q, x) \in Seq(T) /\ Len(Append(q, x)) = Len(q) + 1 /\ Len(q) \in Nat
           /\ \A i \in 1..Len(q) : Append(q, x)[i] = q[i]
           /\ Append(q, x)[Len(q) + 1] = x
OBVIOUS

(* A head is a turn of the session, in no other queue and no second time.  *)
LEMMA HeadTurn ==
    ASSUME TypeOK, Queued, NEW s \in Sessions, pending[s] # <<>>
    PROVE  /\ Head1(s) \in Turns /\ sess[Head1(s)] = s /\ pc[Head1(s)] \in {"typing", "done"}
           /\ Len(pending[s]) \in Nat \ {0} /\ 1 \in 1..Len(pending[s])
<1>1. pending[s] \in Seq(Turns)
  BY DEF TypeOK
<1>2. Len(pending[s]) \in Nat \ {0} /\ 1 \in 1..Len(pending[s]) /\ Head1(s) \in Turns
  BY <1>1 DEF Head1
<1>3. QED
  BY <1>2 DEF Queued, Head1

LEMMA InitInd == Init => IndInv
<1> SUFFICES ASSUME Init PROVE IndInv
  OBVIOUS
<1>1. TypeOK
  BY DEF Init, TypeOK, Sessions, Results, Unresolved
<1>2. RunnerInv
  BY DEF Init, RunnerInv, Known, StopCause, HasSession, NoOrphan, Sessions
<1>3. QueueInv
  BY DEF Init, QueueInv, Queued, Closed, Sessions
<1>4. ReplyInv
  BY DEF Init, ReplyInv, Replied, Armed, RepliesDisjoint, ReapSparesTurns, Unresolved, Failed, Sessions
<1>5. QED
  BY <1>1, <1>2, <1>3, <1>4 DEF IndInv

-----------------------------------------------------------------------------
(* What a step leaves alone it keeps.                                      *)
Steady ==
    \A t \in Turns :
        pc[t] \in {"typing", "done"} => pc'[t] \in {"typing", "done"} /\ sess'[t] = sess[t]

LEMMA QueueSame ==
    ASSUME TypeOK, QueueInv, Steady, UNCHANGED <<pending, start>>,
           \A s \in closing' : s \in closing \/ pending[s] = <<>>
    PROVE  QueueInv'
<1>1. \A s \in Sessions : \A i \in 1..Len(pending[s]) : pending[s][i] \in Turns
  BY DEF TypeOK
<1>2. Queued'
  BY <1>1 DEF QueueInv, Queued, Steady
<1>3. Closed'
  BY DEF QueueInv, Closed
<1>4. QED
  BY <1>2, <1>3 DEF QueueInv

LEMMA ReplySame ==
    ASSUME TypeOK, ReplyInv, Steady, UNCHANGED <<pending, start, result>>, stopReap => stopReap',
           \A s \in Sessions : output'[s] \in Nat /\ output[s] <= output'[s]
    PROVE  ReplyInv'
<1>1. Replied'
  <2> SUFFICES ASSUME NEW t \in Turns, result[t].kind = "reply"
               PROVE  /\ pc'[t] \in {"typing", "done"} /\ sess'[t] \in Sessions
                      /\ result[t].to <= output'[sess'[t]]
                      /\ pending[sess'[t]] # <<>> /\ start[pending[sess'[t]][1]] # Unarmed
                           => result[t].to <= start[pending[sess'[t]][1]]
    BY DEF Replied, Head1
  <2>1. /\ pc'[t] \in {"typing", "done"} /\ sess'[t] = sess[t] /\ sess[t] \in Sessions
        /\ result[t].to <= output[sess[t]]
    BY DEF ReplyInv, Replied, Steady
  <2>2. result[t].to \in Nat
    <3>1. result[t] \in Results
      BY DEF TypeOK
    <3>2. result[t] \in [kind : {"reply"}, from : 0..MaxOutput, to : 0..MaxOutput]
      BY <3>1 DEF Results
    <3>3. QED
      BY <3>2
  <2>3. output[sess[t]] \in Nat /\ output'[sess[t]] \in Nat
    BY <2>1 DEF TypeOK
  <2>4. QED
    BY <2>1, <2>2, <2>3 DEF ReplyInv, Replied, Head1
<1>2. Armed'
  <2> SUFFICES ASSUME NEW s \in Sessions, pending[s] # <<>>, start[pending[s][1]] # Unarmed
               PROVE  start[pending[s][1]] <= output'[s]
    BY DEF Armed, Head1
  <2>1. start[pending[s][1]] <= output[s] /\ pending[s][1] \in Turns
    BY DEF ReplyInv, Armed, Head1, TypeOK
  <2>2. start[pending[s][1]] \in Nat /\ output[s] \in Nat
    BY <2>1 DEF TypeOK
  <2>3. QED
    BY <2>1, <2>2
<1>3. RepliesDisjoint'
  BY DEF ReplyInv, Replied, RepliesDisjoint, Steady
<1>4. ReapSparesTurns'
  BY DEF ReplyInv, ReapSparesTurns
<1>5. QED
  BY <1>1, <1>2, <1>3, <1>4 DEF ReplyInv

LEMMA RunnerSame ==
    ASSUME RunnerInv, UNCHANGED <<runnerVars, sess, tty, stopCh, closing>>,
           \A t \in Turns :
              pc'[t] = pc[t] \/ (pc[t] \in {"found", "typing"} /\ pc'[t] \in {"typing", "done"})
    PROVE  RunnerInv'
<1> USE DEF RunnerInv, runnerVars
<1>1. Known'
  BY DEF Known
<1>2. StopCause'
  BY DEF StopCause, Superseded, stopReap
<1>3. HasSession'
  BY DEF HasSession
<1>4. NoOrphan'
  BY DEF NoOrphan, Sessions
<1>5. QED
  BY <1>1, <1>2, <1>3, <1>4

-----------------------------------------------------------------------------
(* Run looks the session up.                                               *)
LEMMA FindInd == ASSUME NEW t \in Turns PROVE IndInv /\ Find(t) => IndInv'
<1> SUFFICES ASSUME IndInv, Find(t) PROVE IndInv'
  OBVIOUS
<1>1. /\ pc[t] = "idle" /\ registered # NoSession /\ sess' = [sess EXCEPT ![t] = registered]
      /\ pc' = [pc EXCEPT ![t] = "found"] /\ registered \in Sessions
      /\ UNCHANGED <<runnerVars, ttyVars, watchVars, queueVars>>
  BY DEF Find, Goes, IndInv, TypeOK
<1>2. TypeOK'
  BY <1>1 DEF IndInv, TypeOK, runnerVars, ttyVars, watchVars, queueVars
<1>3. Steady
  BY <1>1 DEF IndInv, TypeOK, Steady
<1>4. QueueInv' /\ ReplyInv'
  BY <1>1, <1>3, QueueSame, ReplySame
  DEF IndInv, TypeOK, runnerVars, ttyVars, queueVars, stopReap
<1>5. RunnerInv'
  <2> USE <1>1 DEF IndInv, TypeOK, RunnerInv, runnerVars, ttyVars, watchVars, queueVars
  <2>1. \A u \in Turns : sess'[u] = sess[u] \/ sess'[u] = registered
    OBVIOUS
  <2>2. Known'
    BY <2>1 DEF Known
  <2>3. StopCause'
    BY <2>1 DEF StopCause, Superseded, stopReap
  <2>4. HasSession'
    BY DEF HasSession
  <2>5. NoOrphan'
    BY DEF NoOrphan, Sessions
  <2>6. QED
    BY <2>2, <2>3, <2>4, <2>5
<1>6. QED
  BY <1>2, <1>4, <1>5 DEF IndInv

LEMMA SpawnSessionInd == ASSUME NEW t \in Turns PROVE IndInv /\ SpawnSession(t) => IndInv'
<1> SUFFICES ASSUME IndInv, SpawnSession(t) PROVE IndInv'
  OBVIOUS
<1>1. /\ pc[t] = "idle"
      /\ \/ /\ tty' = [tty EXCEPT ![t] = "up"] /\ watching' = [watching EXCEPT ![t] = "poll"]
            /\ pc' = [pc EXCEPT ![t] = "booted"]
         \/ pc' = [pc EXCEPT ![t] = "done"] /\ UNCHANGED <<tty, watching>>
      /\ UNCHANGED <<runnerVars, sess, output, stopCh, queueVars>>
  BY DEF SpawnSession, Goes
<1>2. TypeOK'
  BY <1>1 DEF IndInv, TypeOK, runnerVars, queueVars, Sessions
<1>3. Steady
  BY <1>1 DEF IndInv, TypeOK, Steady
<1>4. QueueInv' /\ ReplyInv'
  BY <1>1, <1>3, QueueSame, ReplySame DEF IndInv, TypeOK, runnerVars, queueVars, stopReap
<1>5. RunnerInv'
  <2> USE <1>1 DEF IndInv, TypeOK, RunnerInv, runnerVars, queueVars
  <2>1. Known'
    BY DEF Known
  <2>2. StopCause'
    BY DEF StopCause, Superseded, stopReap
  <2>3. HasSession'
    BY DEF HasSession
  <2>4. NoOrphan'
    BY DEF NoOrphan, Sessions
  <2>5. QED
    BY <2>1, <2>2, <2>3, <2>4
<1>6. QED
  BY <1>2, <1>4, <1>5 DEF IndInv

LEMMA InsertInd == ASSUME NEW t \in Turns PROVE IndInv /\ Insert(t) => IndInv'
<1> SUFFICES ASSUME IndInv, Insert(t) PROVE IndInv'
  OBVIOUS
<1>1. /\ pc[t] = "booted" /\ UNCHANGED <<shutdown, ttyVars, watchVars, queueVars>>
      /\ \/ /\ stopReap /\ doomed' = doomed \cup {t} /\ pc' = [pc EXCEPT ![t] = "done"]
            /\ UNCHANGED <<registered, sess>>
         \/ /\ ~stopReap /\ registered # NoSession /\ doomed' = doomed \cup {t}
            /\ pc' = [pc EXCEPT ![t] = "found"] /\ sess' = [sess EXCEPT ![t] = registered]
            /\ UNCHANGED registered
         \/ /\ ~stopReap /\ registered = NoSession /\ registered' = t
            /\ pc' = [pc EXCEPT ![t] = "found"] /\ sess' = [sess EXCEPT ![t] = t]
            /\ UNCHANGED doomed
  BY DEF Insert, Goes
<1>2. TypeOK'
  <2>1. /\ registered' \in Sessions \cup {NoSession} /\ doomed' \subseteq Sessions
        /\ sess' \in [Turns -> Sessions \cup {NoSession}]
    <3>1. registered \in Turns \cup {NoSession} /\ sess \in [Turns -> Turns \cup {NoSession}]
          /\ doomed \subseteq Turns
      BY DEF IndInv, TypeOK, Sessions
    <3>2. registered' \in Turns \cup {NoSession} /\ doomed' \subseteq Turns
      BY <1>1, <3>1
    <3>3. sess' = sess \/ sess' = [sess EXCEPT ![t] = registered] \/ sess' = [sess EXCEPT ![t] = t]
      BY <1>1
    <3>4. sess' \in [Turns -> Turns \cup {NoSession}]
      BY <3>1, <3>3
    <3>5. QED
      BY <3>2, <3>4 DEF Sessions
  <2>2. pc' \in [Turns -> {"idle", "booted", "found", "typing", "done"}]
    BY <1>1 DEF IndInv, TypeOK
  <2>3. QED
    BY <1>1, <2>1, <2>2 DEF IndInv, TypeOK, ttyVars, watchVars, queueVars
<1>3. Steady
  BY <1>1 DEF IndInv, TypeOK, Steady
<1>4. QueueInv' /\ ReplyInv'
  BY <1>1, <1>3, QueueSame, ReplySame DEF IndInv, TypeOK, ttyVars, queueVars, stopReap
<1>5. RunnerInv'
  <2> USE <1>1 DEF IndInv, TypeOK, RunnerInv, ttyVars, watchVars, queueVars
  <2>1. \A u \in Turns : sess'[u] = sess[u] \/ sess'[u] = registered \/ sess'[u] = t
    OBVIOUS
  <2>7. /\ pc'[t] \in {"found", "done"} /\ \A u \in Turns : u # t => pc'[u] = pc[u]
        /\ registered' = registered \/ registered' = t
        /\ doomed' \subseteq doomed \cup {t} /\ stopCh' = stopCh
    OBVIOUS
  <2>2. Known'
    BY <2>1, <2>7 DEF Known
  <2>3. StopCause'
    BY <2>1 DEF StopCause, Superseded, stopReap, Known, Sessions
  <2>4. HasSession'
    <3>1. pc'[t] = "found" => sess'[t] \in Sessions
      BY DEF Sessions
    <3>2. \A u \in Turns : u # t => pc'[u] = pc[u] /\ sess'[u] = sess[u]
      OBVIOUS
    <3>3. QED
      BY <2>7, <3>1, <3>2 DEF HasSession
  <2>5. NoOrphan'
    BY DEF NoOrphan, Sessions, stopReap
  <2>6. QED
    BY <2>2, <2>3, <2>4, <2>5
<1>6. QED
  BY <1>2, <1>4, <1>5 DEF IndInv

(* A call of Run gives up, or ends its write.                              *)
LEMMA CallEndsInd ==
    ASSUME NEW t \in Turns PROVE IndInv /\ (Refused(t) \/ Type(t)) => IndInv'
<1> SUFFICES ASSUME IndInv, Refused(t) \/ Type(t) PROVE IndInv'
  OBVIOUS
<1>1. /\ pc[t] \in {"found", "typing"} /\ pc' = [pc EXCEPT ![t] = "done"]
      /\ UNCHANGED <<runnerVars, sess, ttyVars, watchVars, queueVars>>
  BY DEF Refused, Type, Goes
<1>2. TypeOK'
  BY <1>1 DEF IndInv, TypeOK, runnerVars, ttyVars, watchVars, queueVars
<1>3. Steady
  BY <1>1 DEF IndInv, TypeOK, Steady
<1>4. QueueInv' /\ ReplyInv'
  BY <1>1, <1>3, QueueSame, ReplySame
  DEF IndInv, TypeOK, runnerVars, ttyVars, queueVars, stopReap
<1>5. RunnerInv'
  BY <1>1, RunnerSame DEF IndInv, TypeOK, ttyVars, watchVars, queueVars
<1>6. QED
  BY <1>2, <1>4, <1>5 DEF IndInv

(* The prompt is queued; a turn that finds the queue empty is armed.       *)
LEMMA QueueInd == ASSUME NEW t \in Turns PROVE IndInv /\ Queue(t) => IndInv'
<1> SUFFICES ASSUME IndInv, Queue(t) PROVE IndInv'
  OBVIOUS
<1> DEFINE s == sess[t]
           q == pending[s]
<1>1. /\ pc[t] = "found" /\ s \in Sessions /\ s \notin closing
      /\ pending' = [pending EXCEPT ![s] = Append(@, t)]
      /\ start' = [start EXCEPT ![t] = IF q = <<>> THEN output[s] ELSE Unarmed]
      /\ pc' = [pc EXCEPT ![t] = "typing"]
      /\ UNCHANGED <<runnerVars, sess, ttyVars, watchVars, closing, result>>
  BY DEF Queue, Goes, ArmedWhenQueued, IndInv, RunnerInv, HasSession
<1>2. q \in Seq(Turns)
  BY <1>1 DEF IndInv, TypeOK
<1>3. /\ Append(q, t) \in Seq(Turns) /\ Len(Append(q, t)) = Len(q) + 1 /\ Len(q) \in Nat
      /\ \A i \in 1..Len(q) : Append(q, t)[i] = q[i]
      /\ Append(q, t)[Len(q) + 1] = t
  BY <1>2, AppendElements
<1>4. /\ pending'[s] = Append(q, t)
      /\ \A r \in Sessions : r # s => pending'[r] = pending[r]
      /\ \A u \in Turns : u # t => start'[u] = start[u] /\ pc'[u] = pc[u]
      /\ pc'[t] = "typing" /\ sess' = sess /\ result' = result /\ closing' = closing
      /\ output' = output
      /\ start'[t] = IF q = <<>> THEN output[s] ELSE Unarmed
  BY <1>1 DEF IndInv, TypeOK, ttyVars
<1>5. TypeOK'
  <2>1. start' \in [Turns -> 0..MaxOutput \cup {Unarmed}]
    BY <1>1 DEF IndInv, TypeOK
  <2>2. pending' \in [Sessions -> Seq(Turns)]
    BY <1>1, <1>3 DEF IndInv, TypeOK
  <2>3. pc' \in [Turns -> {"idle", "booted", "found", "typing", "done"}]
    BY <1>1 DEF IndInv, TypeOK
  <2>4. QED
    BY <1>1, <2>1, <2>2, <2>3 DEF IndInv, TypeOK, runnerVars, ttyVars, watchVars
<1>6. RunnerInv'
  <2>1. \A u \in Turns :
          pc'[u] = pc[u] \/ (pc[u] \in {"found", "typing"} /\ pc'[u] \in {"typing", "done"})
    BY <1>1, <1>4
  <2>2. UNCHANGED <<runnerVars, sess, tty, stopCh, closing>>
    BY <1>1 DEF ttyVars, watchVars
  <2>3. QED
    BY <2>1, <2>2, RunnerSame DEF IndInv
<1> HIDE DEF s, q
<1>7. \A r \in Sessions : \A i \in 1..Len(pending[r]) :
         pending[r][i] \in Turns /\ pending[r][i] # t
  <2> TAKE r \in Sessions
  <2> TAKE i \in 1..Len(pending[r])
  <2>1. pending[r][i] \in Turns
    BY DEF IndInv, TypeOK
  <2>2. pc[pending[r][i]] \in {"typing", "done"}
    BY DEF IndInv, QueueInv, Queued
  <2>3. QED
    BY <1>1, <2>1, <2>2
<1>8. QueueInv'
  <2>1. ASSUME NEW r \in Sessions, NEW i \in 1..Len(pending'[r])
        PROVE  /\ sess[pending'[r][i]] = r /\ pc'[pending'[r][i]] \in {"typing", "done"}
               /\ i # 1 => start'[pending'[r][i]] = Unarmed
               /\ \A j \in 1..Len(pending'[r]) : pending'[r][i] = pending'[r][j] => i = j
    <3>1. CASE r # s
      BY <1>4, <1>7, <2>1, <3>1 DEF IndInv, QueueInv, Queued
    <3>2. CASE r = s
      <4>1. pending[s] = q /\ pending'[r] = Append(q, t)
        BY <1>4, <3>2 DEF q
      <4>2. CASE i = Len(q) + 1
        <5>1. pending'[r][i] = t /\ sess[t] = r
          BY <1>3, <3>2, <4>1, <4>2 DEF s
        <5>2. i # 1 => q # <<>>
          BY <1>2, <4>2
        <5>3. i # 1 => start'[t] = Unarmed
          BY <1>4, <5>2
        <5>4. \A j \in 1..Len(q) : Append(q, t)[j] # t
          BY <1>1, <1>3, <1>7, <4>1
        <5>5. QED
          BY <1>3, <1>4, <4>1, <4>2, <5>1, <5>3, <5>4
      <4>3. CASE i \in 1..Len(q)
        <5>1. pending'[r][i] = q[i] /\ q[i] \in Turns /\ q[i] # t
          BY <1>1, <1>3, <1>7, <4>1, <4>3
        <5>2. /\ sess[q[i]] = r /\ pc[q[i]] \in {"typing", "done"}
              /\ i # 1 => start[q[i]] = Unarmed
              /\ \A j \in 1..Len(q) : q[i] = q[j] => i = j
          BY <3>2, <4>1, <4>3 DEF IndInv, QueueInv, Queued
        <5>3. QED
          BY <1>3, <1>4, <4>1, <5>1, <5>2
      <4>4. QED
        BY <1>3, <2>1, <4>1, <4>2, <4>3
    <3>3. QED
      BY <3>1, <3>2
  <2>2. Queued'
    BY <1>4, <2>1 DEF Queued
  <2>3. Closed'
    BY <1>1, <1>4 DEF IndInv, TypeOK, QueueInv, Closed
  <2>4. QED
    BY <2>2, <2>3 DEF QueueInv
<1>9. ASSUME NEW r \in Sessions, pending'[r] # <<>>
      PROVE  IF r = s /\ q = <<>>
             THEN pending'[r][1] = t /\ start'[t] = output[s]
             ELSE /\ pending[r] # <<>> /\ pending'[r][1] = pending[r][1]
                  /\ start'[pending[r][1]] = start[pending[r][1]]
  <2>1. CASE r = s /\ q = <<>>
    BY <1>2, <1>3, <1>4, <2>1
  <2>2. CASE r = s /\ q # <<>>
    <3>1. pending[s] = q /\ 1 \in 1..Len(q)
      BY <1>2, <2>2 DEF q
    <3>2. QED
      BY <1>1, <1>3, <1>4, <1>7, <2>2, <3>1
  <2>3. CASE r # s
    <3>1. pending[r] # <<>> /\ pending'[r] = pending[r] /\ pending[r] \in Seq(Turns)
      BY <1>4, <1>9, <2>3 DEF IndInv, TypeOK
    <3>2. 1 \in 1..Len(pending[r])
      BY <3>1
    <3>3. QED
      BY <1>4, <1>7, <2>3, <3>1, <3>2
  <2>4. QED
    BY <2>1, <2>2, <2>3
<1>10. ReplyInv'
  <2>1. Replied'
    <3> SUFFICES ASSUME NEW u \in Turns, result[u].kind = "reply"
                 PROVE  /\ pc'[u] \in {"typing", "done"} /\ sess[u] \in Sessions
                        /\ result[u].to <= output[sess[u]]
                        /\ pending'[sess[u]] # <<>> /\ start'[pending'[sess[u]][1]] # Unarmed
                             => result[u].to <= start'[pending'[sess[u]][1]]
      BY <1>4 DEF Replied, Head1
    <3>1. /\ pc[u] \in {"typing", "done"} /\ sess[u] \in Sessions
          /\ result[u].to <= output[sess[u]]
          /\ pending[sess[u]] # <<>> /\ start[pending[sess[u]][1]] # Unarmed
               => result[u].to <= start[pending[sess[u]][1]]
      BY DEF IndInv, ReplyInv, Replied, Head1
    <3>2. QED
      BY <1>4, <1>9, <3>1
  <2>2. Armed'
    <3> SUFFICES ASSUME NEW r \in Sessions, pending'[r] # <<>>, start'[pending'[r][1]] # Unarmed
                 PROVE  start'[pending'[r][1]] <= output[r]
      BY <1>4 DEF Armed, Head1
    <3>1. CASE r = s /\ q = <<>>
      <4>1. output[s] \in Nat
        BY <1>1 DEF IndInv, TypeOK
      <4>2. QED
        BY <1>9, <3>1, <4>1
    <3>2. CASE ~(r = s /\ q = <<>>)
      BY <1>9, <3>2 DEF IndInv, ReplyInv, Armed, Head1
    <3>3. QED
      BY <3>1, <3>2
  <2>3. RepliesDisjoint' /\ ReapSparesTurns'
    BY <1>1, <1>4 DEF IndInv, ReplyInv, RepliesDisjoint, ReapSparesTurns, runnerVars, stopReap
  <2>4. QED
    BY <2>1, <2>2, <2>3 DEF ReplyInv
<1>11. QED
  BY <1>5, <1>6, <1>8, <1>10 DEF IndInv

-----------------------------------------------------------------------------
(* The head of a queue is armed where the output is now.                   *)
LEMMA ArmsInd ==
    ASSUME IndInv, NEW s \in Sessions, pending[s] # <<>>, Arms(s),
           UNCHANGED <<runnerVars, pc, sess, ttyVars, stopCh, closing, pending, result>>,
           watching' \in [Sessions -> {"poll", "next", "off"}]
    PROVE  IndInv'
<1> DEFINE h == pending[s][1]
<1>1. /\ h \in Turns /\ sess[h] = s /\ pc[h] \in {"typing", "done"}
      /\ Len(pending[s]) \in Nat \ {0} /\ 1 \in 1..Len(pending[s])
  BY HeadTurn DEF IndInv, QueueInv, Head1
<1>2. /\ start' = [start EXCEPT ![h] = output[s]] /\ output[s] \in 0..MaxOutput
      /\ start'[h] = output[s] /\ \A u \in Turns : u # h => start'[u] = start[u]
  BY <1>1 DEF Arms, Head1, IndInv, TypeOK
<1>3. TypeOK'
  BY <1>2 DEF IndInv, TypeOK, runnerVars, ttyVars
<1>4. RunnerInv'
  BY RunnerSame DEF IndInv, ttyVars
<1> HIDE DEF h
<1>5. QueueInv'
  <2>1. ASSUME NEW r \in Sessions, NEW i \in 1..Len(pending[r]), i # 1
        PROVE  start'[pending[r][i]] = Unarmed
    <3>1. pending[r][i] \in Turns /\ sess[pending[r][i]] = r /\ start[pending[r][i]] = Unarmed
      <4>1. pending[r][i] \in Turns
        BY DEF IndInv, TypeOK
      <4>2. sess[pending[r][i]] = r /\ start[pending[r][i]] = Unarmed
        BY <2>1 DEF IndInv, QueueInv, Queued
      <4>3. QED
        BY <4>1, <4>2
    <3>2. pending[r][i] # h
      BY <1>1, <2>1, <3>1 DEF h, IndInv, QueueInv, Queued
    <3>3. QED
      BY <1>2, <3>1, <3>2
  <2>2. QED
    BY <2>1 DEF IndInv, QueueInv, Queued, Closed
<1>6. ASSUME NEW r \in Sessions, pending[r] # <<>>
      PROVE  IF r = s THEN pending[r][1] = h ELSE start'[pending[r][1]] = start[pending[r][1]]
  <2>1. pending[r][1] \in Turns /\ sess[pending[r][1]] = r
    BY <1>6, HeadTurn DEF IndInv, QueueInv, Head1
  <2>2. QED
    BY <1>1, <1>2, <2>1 DEF h
<1>7. ReplyInv'
  <2>1. Replied'
    <3> SUFFICES ASSUME NEW u \in Turns, result[u].kind = "reply", pending[sess[u]] # <<>>,
                        start'[pending[sess[u]][1]] # Unarmed, sess[u] \in Sessions,
                        result[u].to <= output[sess[u]]
                 PROVE  result[u].to <= start'[pending[sess[u]][1]]
      BY DEF IndInv, ReplyInv, Replied, Head1, ttyVars
    <3>1. CASE sess[u] = s
      BY <1>2, <1>6, <3>1
    <3>2. CASE sess[u] # s
      BY <1>6, <3>2 DEF IndInv, ReplyInv, Replied, Head1
    <3>3. QED
      BY <3>1, <3>2
  <2>2. Armed'
    <3> SUFFICES ASSUME NEW r \in Sessions, pending[r] # <<>>, start'[pending[r][1]] # Unarmed
                 PROVE  start'[pending[r][1]] <= output[r]
      BY DEF Armed, Head1, ttyVars
    <3>1. CASE r = s
      BY <1>2, <1>6, <3>1
    <3>2. CASE r # s
      BY <1>6, <3>2 DEF IndInv, ReplyInv, Armed, Head1
    <3>3. QED
      BY <3>1, <3>2
  <2>3. RepliesDisjoint' /\ ReapSparesTurns'
    BY DEF IndInv, ReplyInv, RepliesDisjoint, ReapSparesTurns, runnerVars, stopReap
  <2>4. QED
    BY <2>1, <2>2, <2>3 DEF ReplyInv
<1>8. QED
  BY <1>3, <1>4, <1>5, <1>7 DEF IndInv

LEMMA TickArmInd == ASSUME NEW s \in Sessions PROVE IndInv /\ TickArm(s) => IndInv'
<1> SUFFICES ASSUME IndInv, TickArm(s) PROVE IndInv'
  OBVIOUS
<1>1. watching' \in [Sessions -> {"poll", "next", "off"}]
  BY DEF TickArm, IndInv, TypeOK, watchVars
<1>2. QED
  BY <1>1, ArmsInd DEF TickArm, Polls, watchVars

LEMMA TickNextInd == ASSUME NEW s \in Sessions PROVE IndInv /\ TickNext(s) => IndInv'
<1> SUFFICES ASSUME IndInv, TickNext(s) PROVE IndInv'
  OBVIOUS
<1>1. watching' \in [Sessions -> {"poll", "next", "off"}]
  BY DEF TickNext, IndInv, TypeOK
<1>2. CASE pending[s] # <<>>
  BY <1>1, <1>2, ArmsInd DEF TickNext
<1>3. CASE pending[s] = <<>>
  <2>1. UNCHANGED <<runnerVars, pc, sess, ttyVars, stopCh, closing, pending, result, start>>
    BY <1>3 DEF TickNext
  <2>2. TypeOK'
    BY <1>1, <2>1 DEF IndInv, TypeOK, runnerVars, ttyVars
  <2>3. Steady
    BY <2>1 DEF Steady
  <2>4. QueueInv' /\ ReplyInv' /\ RunnerInv'
    BY <2>1, <2>3, QueueSame, ReplySame, RunnerSame DEF IndInv, TypeOK, runnerVars, ttyVars, stopReap
  <2>5. QED
    BY <2>2, <2>4 DEF IndInv
<1>4. QED
  BY <1>2, <1>3

(* The head leaves, with a reply that begins where it was armed or with an *)
(* error.                                                                  *)
LEMMA PopsInd ==
    ASSUME IndInv, NEW s \in Sessions, pending[s] # <<>>, start[Head1(s)] # Unarmed, NEW r,
           \/ r = Failed("timeout")
           \/ Answered(s) /\ r = Reply(start[Head1(s)], output[s]),
           Pops(s, r),
           UNCHANGED <<runnerVars, pc, sess, ttyVars, stopCh, closing, start>>,
           watching' \in [Sessions -> {"poll", "next", "off"}]
    PROVE  IndInv'
<1> DEFINE h == pending[s][1]
           q == pending[s]
<1>1. /\ h \in Turns /\ sess[h] = s /\ pc[h] \in {"typing", "done"}
      /\ q \in Seq(Turns) /\ q # <<>>
  BY HeadTurn DEF IndInv, QueueInv, Head1, TypeOK
<1>2. /\ Tail(q) \in Seq(Turns) /\ Len(Tail(q)) = Len(q) - 1 /\ Len(q) \in Nat \ {0}
      /\ \A i \in 1..Len(Tail(q)) : Tail(q)[i] = q[i + 1]
  BY <1>1, TailElements
<1>3. /\ start[h] \in 0..MaxOutput /\ output[s] \in 0..MaxOutput /\ start[h] <= output[s]
      /\ r = Failed("timeout") \/ r = Reply(start[h], output[s])
  BY <1>1 DEF IndInv, TypeOK, ReplyInv, Armed, Head1
<1>4. /\ pending' = [pending EXCEPT ![s] = Tail(q)] /\ pending'[s] = Tail(q)
      /\ \A v \in Sessions : v # s => pending'[v] = pending[v]
      /\ result' = [result EXCEPT ![h] = r] /\ result'[h] = r
      /\ \A u \in Turns : u # h => result'[u] = result[u]
      /\ UNCHANGED <<pc, sess, start, output, shutdown, closing>>
  BY <1>1 DEF Pops, Head1, IndInv, TypeOK, runnerVars, ttyVars
<1>5. TypeOK'
  <2>1. r \in Results
    BY <1>3 DEF Results, Failed, Reply
  <2>2. result' \in [Turns -> Results] /\ pending' \in [Sessions -> Seq(Turns)]
    BY <1>2, <1>4, <2>1 DEF IndInv, TypeOK
  <2>3. QED
    BY <1>4, <2>2 DEF IndInv, TypeOK, runnerVars, ttyVars
<1>6. RunnerInv'
  BY RunnerSame DEF IndInv, ttyVars
<1>7. q = pending[s] /\ h = q[1]
  OBVIOUS
<1> HIDE DEF h, q
<1>8. ASSUME NEW i \in 1..Len(Tail(q))
      PROVE  /\ i + 1 \in 1..Len(q) /\ Tail(q)[i] = q[i + 1] /\ start[Tail(q)[i]] = Unarmed
             /\ sess[Tail(q)[i]] = s /\ pc[Tail(q)[i]] \in {"typing", "done"}
  <2>1. i \in Nat /\ i + 1 \in 1..Len(q) /\ i + 1 # 1
    BY <1>2
  <2>2. Tail(q)[i] = pending[s][i + 1] /\ i + 1 \in 1..Len(pending[s])
    BY <1>2, <1>7, <2>1
  <2>3. QED
    BY <2>1, <2>2, <1>7 DEF IndInv, QueueInv, Queued
<1>9. QueueInv'
  <2>1. ASSUME NEW v \in Sessions, NEW i \in 1..Len(pending'[v])
        PROVE  /\ sess'[pending'[v][i]] = v /\ pc'[pending'[v][i]] \in {"typing", "done"}
               /\ i # 1 => start'[pending'[v][i]] = Unarmed
               /\ \A j \in 1..Len(pending'[v]) : pending'[v][i] = pending'[v][j] => i = j
    <3>1. CASE v # s
      BY <1>4, <2>1, <3>1 DEF IndInv, QueueInv, Queued
    <3>2. CASE v = s
      <4>1. ASSUME NEW j \in 1..Len(Tail(q)), Tail(q)[i] = Tail(q)[j] PROVE i = j
        <5>1. i \in 1..Len(Tail(q)) /\ i \in Nat /\ j \in Nat
          BY <1>4, <2>1, <3>2
        <5>2. i + 1 \in 1..Len(q) /\ j + 1 \in 1..Len(q) /\ q[i + 1] = q[j + 1]
          BY <1>8, <4>1, <5>1
        <5>3. i + 1 = j + 1
          BY <1>7, <5>2 DEF IndInv, QueueInv, Queued
        <5>4. QED
          BY <5>1, <5>3
      <4>2. pending'[v] = Tail(q) /\ i \in 1..Len(Tail(q))
        BY <1>4, <2>1, <3>2
      <4>3. /\ start[Tail(q)[i]] = Unarmed /\ sess[Tail(q)[i]] = s
            /\ pc[Tail(q)[i]] \in {"typing", "done"}
        BY <1>8, <4>2
      <4>4. QED
        BY <1>4, <3>2, <4>1, <4>2, <4>3
    <3>3. QED
      BY <3>1, <3>2
  <2>2. Queued'
    BY <2>1 DEF Queued
  <2>3. Closed'
    BY <1>1, <1>4, <1>7 DEF IndInv, TypeOK, QueueInv, Closed
  <2>4. QED
    BY <2>2, <2>3 DEF QueueInv
<1>10. pending'[s] # <<>> => start[pending'[s][1]] = Unarmed
  <2>1. pending'[s] # <<>> => 1 \in 1..Len(Tail(q))
    BY <1>2, <1>4
  <2>2. QED
    BY <1>4, <1>8, <2>1
<1>11. r.kind = "reply" => r.from = start[h] /\ r.to = output[s] /\ r.from \in Nat /\ r.to \in Nat
  BY <1>3 DEF Failed, Reply
<1>12. ASSUME NEW u \in Turns, result[u].kind = "reply"
       PROVE  /\ pc[u] \in {"typing", "done"} /\ sess[u] \in Sessions
              /\ result[u].to <= output[sess[u]]
              /\ sess[u] = s => result[u].to <= start[h]
  BY <1>1, <1>7, <1>12 DEF IndInv, ReplyInv, Replied, Head1
<1>13. ReplyInv'
  <2>1. Replied'
    <3> SUFFICES ASSUME NEW u \in Turns, result'[u].kind = "reply"
                 PROVE  /\ pc[u] \in {"typing", "done"} /\ sess[u] \in Sessions
                        /\ result'[u].to <= output[sess[u]]
                        /\ pending'[sess[u]] # <<>> /\ start[pending'[sess[u]][1]] # Unarmed
                             => result'[u].to <= start[pending'[sess[u]][1]]
      BY <1>4 DEF Replied, Head1
    <3>1. CASE u = h
      BY <1>1, <1>3, <1>4, <1>10, <1>11, <3>1
    <3>2. CASE u # h
      BY <1>4, <1>10, <1>12, <3>2 DEF IndInv, ReplyInv, Replied, Head1
    <3>3. QED
      BY <3>1, <3>2
  <2>2. Armed'
    BY <1>4, <1>10 DEF IndInv, ReplyInv, Armed, Head1
  <2>3. RepliesDisjoint'
    <3> SUFFICES ASSUME NEW u \in Turns, NEW v \in Turns, u # v, sess[u] = sess[v],
                        result'[u].kind = "reply", result'[v].kind = "reply"
                 PROVE  result'[u].to <= result'[v].from \/ result'[v].to <= result'[u].from
      BY <1>4 DEF RepliesDisjoint
    <3>1. CASE u = h
      BY <1>1, <1>4, <1>11, <1>12, <3>1
    <3>2. CASE v = h
      BY <1>1, <1>4, <1>11, <1>12, <3>2
    <3>3. CASE u # h /\ v # h
      BY <1>4, <3>3 DEF IndInv, ReplyInv, RepliesDisjoint
    <3>4. QED
      BY <3>1, <3>2, <3>3
  <2>4. ReapSparesTurns'
    <3>1. r # Failed("closed")
      BY <1>3 DEF Failed, Reply
    <3>2. QED
      BY <1>4, <3>1 DEF IndInv, ReplyInv, ReapSparesTurns, stopReap
  <2>5. QED
    BY <2>1, <2>2, <2>3, <2>4 DEF ReplyInv
<1>14. QED
  BY <1>5, <1>6, <1>9, <1>13 DEF IndInv

LEMMA TickEndsInd ==
    ASSUME NEW s \in Sessions PROVE IndInv /\ (TickResolve(s) \/ TickTimeout(s)) => IndInv'
<1>1. ASSUME IndInv, TickResolve(s) PROVE IndInv'
  <2>1. watching' \in [Sessions -> {"poll", "next", "off"}]
    BY <1>1 DEF TickResolve, IndInv, TypeOK
  <2>2. QED
    BY <1>1, <2>1, PopsInd DEF TickResolve, Polls
<1>2. ASSUME IndInv, TickTimeout(s) PROVE IndInv'
  <2>1. watching' \in [Sessions -> {"poll", "next", "off"}]
    BY <1>2 DEF TickTimeout, IndInv, TypeOK, watchVars
  <2>2. QED
    BY <1>2, <2>1, PopsInd DEF TickTimeout, Polls, watchVars
<1>3. QED
  BY <1>1, <1>2

(* The queue of a stopped session is failed as a whole: it holds turns     *)
(* only if the runner is closed.                                           *)
LEMMA DrainInd == ASSUME NEW s \in Sessions PROVE IndInv /\ Drain(s) => IndInv'
<1> SUFFICES ASSUME IndInv, Drain(s) PROVE IndInv'
  OBVIOUS
<1>1. /\ s \in stopCh /\ watching' = [watching EXCEPT ![s] = "off"]
      /\ result' = [t \in Turns |-> IF QueuedIn(t, s) THEN Failed("closed") ELSE result[t]]
      /\ pending' = [pending EXCEPT ![s] = <<>>]
      /\ UNCHANGED <<runnerVars, pc, sess, ttyVars, stopCh, closing, start>>
  BY DEF Drain
<1>2. \A t \in Turns : QueuedIn(t, s) => stopReap
  <2> SUFFICES ASSUME NEW t \in Turns, NEW i \in 1..Len(pending[s]), pending[s][i] = t
               PROVE  stopReap
    BY DEF QueuedIn
  <2>1. sess[t] = s
    BY DEF IndInv, QueueInv, Queued
  <2>2. pending[s] # <<>>
    OBVIOUS
  <2>3. QED
    BY <1>1, <2>1, <2>2 DEF IndInv, RunnerInv, StopCause, Superseded, QueueInv, Closed
<1>3. /\ pending'[s] = <<>> /\ \A v \in Sessions : v # s => pending'[v] = pending[v]
      /\ UNCHANGED <<pc, sess, start, output, shutdown, closing>>
  BY <1>1 DEF IndInv, TypeOK, runnerVars, ttyVars
<1>4. TypeOK'
  <2>1. Failed("closed") \in Results /\ <<>> \in Seq(Turns)
    BY DEF Results, Failed
  <2>2. result' \in [Turns -> Results] /\ pending' \in [Sessions -> Seq(Turns)]
    BY <1>1, <2>1 DEF IndInv, TypeOK
  <2>3. QED
    BY <1>1, <2>2 DEF IndInv, TypeOK, runnerVars, ttyVars
<1>5. RunnerInv'
  BY <1>1, RunnerSame DEF IndInv, ttyVars
<1>6. QueueInv'
  <2>1. \A v \in Sessions : \A i \in 1..Len(pending'[v]) : v # s
    BY <1>3
  <2>2. Queued'
    BY <1>3, <2>1 DEF IndInv, QueueInv, Queued
  <2>3. Closed'
    BY <1>3 DEF IndInv, TypeOK, QueueInv, Closed
  <2>4. QED
    BY <2>2, <2>3 DEF QueueInv
<1>7. \A t \in Turns : result'[t].kind = "reply" => result'[t] = result[t]
  BY <1>1 DEF Failed
<1>8. ReplyInv'
  <2>1. Replied'
    BY <1>3, <1>7 DEF IndInv, ReplyInv, Replied, Head1
  <2>2. Armed'
    BY <1>3 DEF IndInv, ReplyInv, Armed, Head1
  <2>3. RepliesDisjoint'
    BY <1>3, <1>7 DEF IndInv, ReplyInv, RepliesDisjoint
  <2>4. ReapSparesTurns'
    BY <1>1, <1>2, <1>3 DEF IndInv, ReplyInv, ReapSparesTurns, stopReap
  <2>5. QED
    BY <2>1, <2>2, <2>3, <2>4 DEF ReplyInv
<1>9. QED
  BY <1>4, <1>5, <1>6, <1>8 DEF IndInv

-----------------------------------------------------------------------------
(* The reaper, Close and the goroutines that stop a session.               *)
LEMMA OthersSame ==
    ASSUME IndInv, UNCHANGED <<pc, sess, pending, start, result>>,
           \A s \in closing' : s \in closing \/ pending[s] = <<>>, stopReap => stopReap',
           \A s \in Sessions : output'[s] \in Nat /\ output[s] <= output'[s]
    PROVE  QueueInv' /\ ReplyInv'
<1>1. Steady
  BY DEF Steady
<1>2. QED
  BY <1>1, QueueSame, ReplySame DEF IndInv

LEMMA ReapInd == ASSUME NEW s \in Sessions PROVE IndInv /\ Reap(s) => IndInv'
<1> SUFFICES ASSUME IndInv, Reap(s) PROVE IndInv'
  OBVIOUS
<1>1. /\ registered = s /\ pending[s] = <<>> /\ closing' = closing \cup {s}
      /\ registered' = NoSession /\ doomed' = doomed \cup {s}
      /\ UNCHANGED <<shutdown, pc, sess, ttyVars, watchVars, pending, start, result>>
  BY DEF Reap, Reapable
<1>2. TypeOK'
  BY <1>1 DEF IndInv, TypeOK, ttyVars, watchVars
<1>3. QueueInv' /\ ReplyInv'
  <2>1. \A v \in closing' : v \in closing \/ pending[v] = <<>>
    BY <1>1
  <2>2. \A v \in Sessions : output'[v] \in Nat /\ output[v] <= output'[v]
    BY <1>1 DEF IndInv, TypeOK, ttyVars
  <2>3. QED
    BY <1>1, <2>1, <2>2, OthersSame DEF stopReap
<1>4. RunnerInv'
  <2> USE <1>1 DEF IndInv, RunnerInv, ttyVars, watchVars
  <2>1. Known'
    BY DEF Known, Sessions
  <2>2. StopCause'
    BY DEF StopCause, Superseded, stopReap, Sessions
  <2>3. HasSession' /\ NoOrphan'
    BY DEF HasSession, NoOrphan
  <2>4. QED
    BY <2>1, <2>2, <2>3
<1>5. QED
  BY <1>2, <1>3, <1>4 DEF IndInv

LEMMA CloseInd == IndInv /\ (CloseBegin \/ CloseAll) => IndInv'
<1> SUFFICES ASSUME IndInv, CloseBegin \/ CloseAll PROVE IndInv'
  OBVIOUS
<1>1. /\ shutdown' \in {"signalled", "swept"}
      /\ \/ shutdown' = "signalled" /\ shutdown = "no" /\ UNCHANGED <<registered, doomed>>
         \/ /\ doomed' = doomed \cup ({registered} \ {NoSession}) /\ registered' = NoSession
      /\ UNCHANGED <<pc, sess, ttyVars, watchVars, queueVars>>
  BY DEF CloseBegin, CloseAll
<1>2. TypeOK'
  BY <1>1 DEF IndInv, TypeOK, ttyVars, watchVars, queueVars
<1>3. QueueInv' /\ ReplyInv'
  BY <1>1, OthersSame DEF IndInv, TypeOK, ttyVars, queueVars, stopReap
<1>4. RunnerInv'
  <2> USE <1>1 DEF IndInv, TypeOK, RunnerInv, ttyVars, watchVars, queueVars
  <2>1. Known'
    BY DEF Known, Sessions
  <2>2. StopCause'
    BY DEF StopCause, stopReap
  <2>3. HasSession' /\ NoOrphan'
    <3>1. HasSession'
      BY DEF HasSession
    <3>2. ASSUME NEW v \in Sessions, tty[v] = "up"
          PROVE  (registered' = v /\ shutdown' # "swept") \/ pc[v] = "booted" \/ v \in doomed'
      <4>1. (registered = v /\ shutdown # "swept") \/ pc[v] = "booted" \/ v \in doomed
        BY <3>2 DEF NoOrphan
      <4>2. v # NoSession
        BY DEF Sessions
      <4>3. QED
        BY <4>1, <4>2
    <3>3. QED
      BY <3>1, <3>2 DEF NoOrphan
  <2>4. QED
    BY <2>1, <2>2, <2>3
<1>5. QED
  BY <1>2, <1>3, <1>4 DEF IndInv

LEMMA StopInd == ASSUME NEW s \in Sessions PROVE IndInv /\ Stop(s) => IndInv'
<1> SUFFICES ASSUME IndInv, Stop(s) PROVE IndInv'
  OBVIOUS
<1>1. /\ s \in doomed /\ doomed' \subseteq doomed /\ stopCh \subseteq stopCh'
      /\ stopCh' \subseteq stopCh \cup {s}
      /\ \A v \in Sessions : v \in doomed \/ v \in doomed' \/ tty'[v] = tty[v]
      /\ \A v \in Sessions : v \in doomed /\ v \notin doomed' => tty'[v] = "down"
      /\ \A v \in Sessions : tty'[v] = "up" => tty[v] = "up"
      /\ tty' \in [Sessions -> {"none", "up", "down"}]
      /\ UNCHANGED <<registered, shutdown, pc, sess, output, watching, queueVars>>
  BY DEF Stop, StopSignal, StopClose, runnerVars, ttyVars, watchVars, IndInv, TypeOK
<1>2. TypeOK'
  BY <1>1 DEF IndInv, TypeOK, queueVars
<1>3. QueueInv' /\ ReplyInv'
  BY <1>1, OthersSame DEF IndInv, TypeOK, queueVars, stopReap
<1>4. RunnerInv'
  <2> USE <1>1 DEF IndInv, RunnerInv, queueVars
  <2>1. Known'
    BY DEF Known, Sessions
  <2>2. StopCause'
    BY DEF StopCause, Superseded, stopReap
  <2>3. HasSession' /\ NoOrphan'
    BY DEF HasSession, NoOrphan
  <2>4. QED
    BY <2>1, <2>2, <2>3
<1>5. QED
  BY <1>2, <1>3, <1>4 DEF IndInv

LEMMA ProcessInd == ASSUME NEW s \in Sessions PROVE IndInv /\ Process(s) => IndInv'
<1> SUFFICES ASSUME IndInv, Process(s) PROVE IndInv'
  OBVIOUS
<1>1. /\ \A v \in Sessions : tty'[v] = "up" => tty[v] = "up"
      /\ tty' \in [Sessions -> {"none", "up", "down"}]
      /\ UNCHANGED <<runnerVars, pc, sess, watchVars, queueVars>>
  BY DEF Process, Emit, Die, IndInv, TypeOK
<1>2. /\ output' \in [Sessions -> 0..MaxOutput]
      /\ \A v \in Sessions : output[v] <= output'[v]
  <2>1. CASE Emit(s)
    <3>1. output[s] + 1 \in 0..MaxOutput /\ output[s] <= output[s] + 1
      BY <2>1 DEF Emit, IndInv, TypeOK
    <3>2. QED
      BY <2>1, <3>1 DEF Emit, IndInv, TypeOK
  <2>2. CASE Die(s)
    BY <2>2 DEF Die, IndInv, TypeOK
  <2>3. QED
    BY <2>1, <2>2 DEF Process
<1>3. TypeOK'
  BY <1>1, <1>2 DEF IndInv, TypeOK, runnerVars, watchVars, queueVars
<1>4. QueueInv' /\ ReplyInv'
  <2>1. \A v \in Sessions : output'[v] \in Nat /\ output[v] <= output'[v]
    BY <1>2
  <2>2. QED
    BY <1>1, <2>1, OthersSame DEF queueVars, runnerVars, stopReap
<1>5. RunnerInv'
  <2> USE <1>1 DEF IndInv, RunnerInv, runnerVars, watchVars, queueVars
  <2>1. Known' /\ HasSession'
    BY DEF Known, HasSession
  <2>2. StopCause'
    BY DEF StopCause, Superseded, stopReap
  <2>3. NoOrphan'
    BY DEF NoOrphan
  <2>4. QED
    BY <2>1, <2>2, <2>3
<1>6. QED
  BY <1>3, <1>4, <1>5 DEF IndInv

-----------------------------------------------------------------------------
LEMMA StutterInd == IndInv /\ UNCHANGED vars => IndInv'
<1> SUFFICES ASSUME IndInv, UNCHANGED vars PROVE IndInv'
  OBVIOUS
<1>1. UNCHANGED <<runnerVars, pc, sess, ttyVars, watchVars, queueVars>>
  BY DEF vars
<1>2. TypeOK'
  BY <1>1 DEF IndInv, TypeOK, runnerVars, ttyVars, watchVars, queueVars
<1>3. QueueInv' /\ ReplyInv'
  BY <1>1, OthersSame DEF IndInv, TypeOK, runnerVars, ttyVars, queueVars, stopReap
<1>4. RunnerInv'
  BY <1>1, RunnerSame DEF IndInv, ttyVars, watchVars, queueVars
<1>5. QED
  BY <1>2, <1>3, <1>4 DEF IndInv

LEMMA StepInd == IndInv /\ [Next]_vars => IndInv'
<1> SUFFICES ASSUME IndInv, [Next]_vars PROVE IndInv'
  OBVIOUS
<1>1. ASSUME NEW t \in Turns, CallRun(t) PROVE IndInv'
  BY <1>1, FindInd, SpawnSessionInd, InsertInd, CallEndsInd, QueueInd DEF CallRun, Submit
<1>2. ASSUME NEW s \in Sessions, Watch(s) \/ Reap(s) \/ Stop(s) \/ Process(s) PROVE IndInv'
  BY <1>2, TickArmInd, TickEndsInd, TickNextInd, DrainInd, ReapInd, StopInd, ProcessInd DEF Watch
<1>3. QED
  BY <1>1, <1>2, CloseInd, StutterInd DEF Next

(* The inductive invariant of Run, watch, the reaper, Close and stop.      *)
THEOREM Invariance == Spec => []IndInv
BY InitInd, StepInd, PTL DEF Spec

(* No two turns of a session are answered with the same output (watch).    *)
THEOREM Disjoint == Spec => []RepliesDisjoint
<1>1. IndInv => RepliesDisjoint
  BY DEF IndInv, ReplyInv
<1>2. QED
  BY <1>1, Invariance, PTL

(* The reaper never fails a turn (reapIfIdle, submit's closing check).     *)
THEOREM ReaperSpares == Spec => []ReapSparesTurns
<1>1. IndInv => ReapSparesTurns
  BY DEF IndInv, ReplyInv
<1>2. QED
  BY <1>1, Invariance, PTL

(* Every process that runs is owned by somebody who will stop it           *)
(* (sessionFor's double check, reapIdleSessions, Close).                   *)
THEOREM Owned == Spec => []NoOrphan
<1>1. IndInv => NoOrphan
  BY DEF IndInv, RunnerInv
<1>2. QED
  BY <1>1, Invariance, PTL
=============================================================================
