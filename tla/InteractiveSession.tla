------------------------- MODULE InteractiveSession -------------------------
(***************************************************************************)
(* The persistent claude process behind an interactive conversation        *)
(* (runner_conpty_windows.go: interactiveClaudeRunner, ptySession).        *)
(*                                                                         *)
(* Turns of one SessionID call Run, several at a time.  Each looks the     *)
(* session up, spawns one if there is none, types its prompt into the      *)
(* terminal and waits for watch to cut its reply out of the output: a      *)
(* reply starts where the turn became the head of the pending queue and    *)
(* ends at the first silence after new output.  A reaper stops sessions    *)
(* left idle, Close stops them all, the process may die by itself.         *)
(*                                                                         *)
(* A session is named by the turn that spawned it; output is its length.   *)
(***************************************************************************)
EXTENDS Naturals, Sequences, FiniteSets

CONSTANTS Turns,      \* calls of Run for one SessionID
          NoSession,  \* no entry in r.sessions
          Unarmed,    \* startOffset = -1
          MaxOutput   \* bound: pieces of output of one process

ASSUME SessionAssumption ==
    /\ NoSession \notin Turns
    /\ Unarmed \notin Nat
    /\ MaxOutput \in Nat

VARIABLES
    registered,  \* r.sessions[SessionID]
    shutdown,    \* Close: "no", "signalled" (stopReap closed), "swept" (map emptied)
    doomed,      \* sessions some goroutine is about to stop()
    pc,          \* where each Run is
    sess,        \* the session each Run works with
    tty,         \* each process: "none", "up", "down" (closed or dead by itself)
    stopCh,      \* sessions whose stopCh is closed
    watching,    \* what watch does next: "poll", "next" (arm the new head), "off"
    closing,     \* sessions marked by reapIfIdle
    pending,     \* s.pending
    start,       \* pendingTurn.startOffset
    result,      \* what was sent on pendingTurn.done
    output       \* s.buf.Len()

runnerVars == <<registered, shutdown, doomed>>
ttyVars == <<tty, output>>
watchVars == <<stopCh, watching>>
queueVars == <<closing, pending, start, result>>
vars == <<runnerVars, pc, sess, ttyVars, watchVars, queueVars>>

Sessions == Turns
Unresolved == [kind |-> "none"]
Failed(why) == [kind |-> why]
Reply(from, to) == [kind |-> "reply", from |-> from, to |-> to]

Init ==
    /\ registered = NoSession /\ shutdown = "no" /\ doomed = {}
    /\ pc = [t \in Turns |-> "idle"] /\ sess = [t \in Turns |-> NoSession]
    /\ tty = [s \in Sessions |-> "none"] /\ output = [s \in Sessions |-> 0]
    /\ stopCh = {} /\ watching = [s \in Sessions |-> "off"]
    /\ closing = {} /\ pending = [s \in Sessions |-> <<>>]
    /\ start = [t \in Turns |-> Unarmed] /\ result = [t \in Turns |-> Unresolved]

stopReap == shutdown # "no"
Goes(t, to) == pc' = [pc EXCEPT ![t] = to]
QueuedIn(t, s) == \E i \in 1..Len(pending[s]) : pending[s][i] = t
InQueue(t) == \E s \in Sessions : QueuedIn(t, s)

-----------------------------------------------------------------------------
(* Run and sessionFor: the session found under the lock, or a spawn        *)
(* without it.                                                             *)
Find(t) ==
    /\ pc[t] = "idle" /\ registered # NoSession
    /\ sess' = [sess EXCEPT ![t] = registered] /\ Goes(t, "found")
    /\ UNCHANGED <<runnerVars, ttyVars, watchVars, queueVars>>

(* spawnSession starts the process and its watch; the boot wait that       *)
(* follows, up to bootIdleTimeout, is the time until Insert.               *)
SpawnSession(t) ==
    /\ pc[t] = "idle" /\ registered = NoSession
    /\ \/ /\ tty' = [tty EXCEPT ![t] = "up"] /\ watching' = [watching EXCEPT ![t] = "poll"]
          /\ Goes(t, "booted")
       \/ /\ Goes(t, "done") /\ UNCHANGED <<tty, watching>>
    /\ UNCHANGED <<runnerVars, sess, output, stopCh, queueVars>>

(* Mistaken: without the look at stopReap; without the second look at the  *)
(* map.                                                                    *)
InsertUnlooked(t) ==
    /\ pc[t] = "booted"
    /\ IF registered # NoSession
       THEN /\ doomed' = doomed \cup {t} /\ sess' = [sess EXCEPT ![t] = registered]
            /\ UNCHANGED registered
       ELSE /\ registered' = t /\ sess' = [sess EXCEPT ![t] = t] /\ UNCHANGED doomed
    /\ Goes(t, "found")
    /\ UNCHANGED <<shutdown, ttyVars, watchVars, queueVars>>

(* The second critical section of sessionFor: a closed runner or a session *)
(* inserted meanwhile makes this one superfluous.                          *)
Insert(t) ==
    /\ pc[t] = "booted"
    /\ \/ /\ stopReap
          /\ doomed' = doomed \cup {t} /\ Goes(t, "done")
          /\ UNCHANGED <<registered, sess>>
       \/ /\ ~stopReap /\ registered # NoSession
          /\ doomed' = doomed \cup {t} /\ Goes(t, "found")
          /\ sess' = [sess EXCEPT ![t] = registered]
          /\ UNCHANGED registered
       \/ /\ ~stopReap /\ registered = NoSession
          /\ registered' = t /\ Goes(t, "found")
          /\ sess' = [sess EXCEPT ![t] = t]
          /\ UNCHANGED doomed
    /\ UNCHANGED <<shutdown, ttyVars, watchVars, queueVars>>

-----------------------------------------------------------------------------
(* submit, whose two writes submitMu keeps together.  A turn that finds    *)
(* the queue empty is armed at once.                                       *)
Submitting(s) == \E u \in Turns : sess[u] = s /\ pc[u] = "typing"

Refused(t) ==
    /\ pc[t] = "found" /\ ~Submitting(sess[t]) /\ sess[t] \in closing
    /\ Goes(t, "done")
    /\ UNCHANGED <<runnerVars, sess, ttyVars, watchVars, queueVars>>

ArmedWhenQueued(s) == IF pending[s] = <<>> THEN output[s] ELSE Unarmed

(* Mistaken: the closing mark not looked at.                               *)
QueueUnlooked(t) ==
    LET s == sess[t] IN
    /\ pc[t] = "found" /\ ~Submitting(s)
    /\ pending' = [pending EXCEPT ![s] = Append(@, t)]
    /\ start' = [start EXCEPT ![t] = ArmedWhenQueued(s)]
    /\ Goes(t, "typing")
    /\ UNCHANGED <<runnerVars, sess, ttyVars, watchVars, closing, result>>

Queue(t) ==
    LET s == sess[t] IN
    /\ pc[t] = "found" /\ ~Submitting(s) /\ s \notin closing
    /\ pending' = [pending EXCEPT ![s] = Append(@, t)]
    /\ start' = [start EXCEPT ![t] = ArmedWhenQueued(s)]
    /\ Goes(t, "typing")
    /\ UNCHANGED <<runnerVars, sess, ttyVars, watchVars, closing, result>>

(* The text, a pause, Enter: a write to a process that is gone fails and   *)
(* leaves the turn queued.  What the terminal shows of it is output.  Run  *)
(* then only waits, for the turn's outcome or its own context's end: in    *)
(* the second case the turn stays queued, so the model need not tell them  *)
(* apart.                                                                  *)
Type(t) ==
    /\ pc[t] = "typing"
    /\ Goes(t, "done")
    /\ UNCHANGED <<runnerVars, sess, ttyVars, watchVars, queueVars>>

-----------------------------------------------------------------------------
(* tick: arm the head; or resolve it once output came and silence          *)
(* followed, arming the next one in the same call; or time it out.         *)
Head1(s) == pending[s][1]
(* Mistaken: armed from the start of the session. *)
ArmsFromTheStart(s) == start' = [start EXCEPT ![Head1(s)] = 0]
Arms(s) == start' = [start EXCEPT ![Head1(s)] = output[s]]
Pops(s, r) ==
    /\ pending' = [pending EXCEPT ![s] = Tail(@)]
    /\ result' = [result EXCEPT ![Head1(s)] = r]
Polls(s) == watching[s] = "poll" /\ pending[s] # <<>>

TickArm(s) ==
    /\ Polls(s) /\ start[Head1(s)] = Unarmed
    /\ Arms(s)
    /\ UNCHANGED <<runnerVars, pc, sess, ttyVars, watchVars, closing, pending, result>>

(* Any output may be followed by turnIdleQuiet of silence, and output may  *)
(* go on without one, or not come, until turnIdleTimeout.                  *)
Answered(s) == output[s] > start[Head1(s)]

TickResolve(s) ==
    /\ Polls(s) /\ start[Head1(s)] # Unarmed /\ Answered(s)
    /\ Pops(s, Reply(start[Head1(s)], output[s]))
    /\ watching' = [watching EXCEPT ![s] = "next"]
    /\ UNCHANGED <<runnerVars, pc, sess, ttyVars, stopCh, closing, start>>

TickNext(s) ==
    /\ watching[s] = "next"
    /\ watching' = [watching EXCEPT ![s] = "poll"]
    /\ IF pending[s] # <<>> THEN Arms(s) ELSE UNCHANGED start
    /\ UNCHANGED <<runnerVars, pc, sess, ttyVars, stopCh, closing, pending, result>>

(* Mistaken: silence without output is waited on for ever.                 *)
TickTimeoutAnswered(s) ==
    /\ Polls(s) /\ start[Head1(s)] # Unarmed /\ Answered(s)
    /\ Pops(s, Failed("timeout"))
    /\ UNCHANGED <<runnerVars, pc, sess, ttyVars, watchVars, closing, start>>

TickTimeout(s) ==
    /\ Polls(s) /\ start[Head1(s)] # Unarmed
    /\ Pops(s, Failed("timeout"))
    /\ UNCHANGED <<runnerVars, pc, sess, ttyVars, watchVars, closing, start>>

(* The stop channel: drainPending fails what is queued, watch ends.        *)
Drain(s) ==
    /\ watching[s] = "poll" /\ s \in stopCh
    /\ watching' = [watching EXCEPT ![s] = "off"]
    /\ result' = [t \in Turns |->
         IF QueuedIn(t, s) THEN Failed("closed") ELSE result[t]]
    /\ pending' = [pending EXCEPT ![s] = <<>>]
    /\ UNCHANGED <<runnerVars, pc, sess, ttyVars, stopCh, closing, start>>

-----------------------------------------------------------------------------
(* reapIdleSessions: check, mark and removal are one step under both       *)
(* locks.  Any session without a turn may have been idle long enough.      *)
Reapable(s) == pending[s] = <<>>

Reap(s) ==
    /\ registered = s /\ Reapable(s)
    /\ closing' = closing \cup {s} /\ registered' = NoSession
    /\ doomed' = doomed \cup {s}
    /\ UNCHANGED <<shutdown, pc, sess, ttyVars, watchVars, pending, start, result>>

(* Close closes stopReap before it takes the lock.                         *)
CloseBegin ==
    /\ shutdown = "no" /\ shutdown' = "signalled"
    /\ UNCHANGED <<registered, doomed, pc, sess, ttyVars, watchVars, queueVars>>

CloseAll ==
    /\ shutdown = "signalled" /\ shutdown' = "swept"
    /\ doomed' = doomed \cup ({registered} \ {NoSession}) /\ registered' = NoSession
    /\ UNCHANGED <<pc, sess, ttyVars, watchVars, queueVars>>

(* stop: signal watch, then close the terminal.                            *)
StopSignal(s) ==
    /\ s \in doomed /\ s \notin stopCh
    /\ stopCh' = stopCh \cup {s}
    /\ UNCHANGED <<runnerVars, pc, sess, ttyVars, watching, queueVars>>

StopClose(s) ==
    /\ s \in doomed /\ s \in stopCh
    /\ doomed' = doomed \ {s} /\ tty' = [tty EXCEPT ![s] = "down"]
    /\ UNCHANGED <<registered, shutdown, pc, sess, output, watchVars, queueVars>>

-----------------------------------------------------------------------------
(* The process: output, of which only the lengths while turns are queued   *)
(* matter, and death.                                                      *)
Emit(s) ==
    /\ tty[s] = "up" /\ pending[s] # <<>> /\ output[s] < MaxOutput
    /\ output' = [output EXCEPT ![s] = @ + 1]
    /\ UNCHANGED <<runnerVars, pc, sess, tty, watchVars, queueVars>>

Die(s) ==
    /\ tty[s] = "up" /\ tty' = [tty EXCEPT ![s] = "down"]
    /\ UNCHANGED <<runnerVars, pc, sess, output, watchVars, queueVars>>

Submit(t) == Refused(t) \/ Queue(t) \/ Type(t)
CallRun(t) == Find(t) \/ SpawnSession(t) \/ Insert(t) \/ Submit(t)
Watch(s) == TickArm(s) \/ TickResolve(s) \/ TickNext(s) \/ TickTimeout(s) \/ Drain(s)
Stop(s) == StopSignal(s) \/ StopClose(s)
Process(s) == Emit(s) \/ Die(s)

Next ==
    \/ \E t \in Turns : CallRun(t)
    \/ \E s \in Sessions : Watch(s) \/ Reap(s) \/ Stop(s) \/ Process(s)
    \/ CloseBegin \/ CloseAll

Spec == Init /\ [][Next]_vars

(* watch polls every 50 ms, and a head that is never answered times out;   *)
(* goroutines that stop a session run.                                     *)
Fairness ==
    /\ \A s \in Sessions : WF_vars(Watch(s)) /\ WF_vars(Stop(s))
    /\ \A t \in Turns : WF_vars(Submit(t))
FairSpec == Spec /\ Fairness

-----------------------------------------------------------------------------
Results == [kind : {"none", "timeout", "closed"}]
           \cup [kind : {"reply"}, from : 0..MaxOutput, to : 0..MaxOutput]

(* Every field has its type; a turn waits in one queue, once, that of the  *)
(* session its Run works with.                                             *)
TypeOK ==
    /\ registered \in Sessions \cup {NoSession} /\ shutdown \in {"no", "signalled", "swept"}
    /\ doomed \subseteq Sessions
    /\ pc \in [Turns -> {"idle", "booted", "found", "typing", "done"}]
    /\ sess \in [Turns -> Sessions \cup {NoSession}]
    /\ tty \in [Sessions -> {"none", "up", "down"}]
    /\ output \in [Sessions -> 0..MaxOutput]
    /\ stopCh \subseteq Sessions /\ watching \in [Sessions -> {"poll", "next", "off"}]
    /\ closing \subseteq Sessions /\ pending \in [Sessions -> Seq(Turns)]
    /\ start \in [Turns -> 0..MaxOutput \cup {Unarmed}] /\ result \in [Turns -> Results]

(* Replies never share output: what one turn got is not handed to another  *)
(* of the session (watch's doc: non-overlapping output).                   *)
RepliesDisjoint ==
    \A t, u \in Turns :
        t # u /\ sess[t] = sess[u] /\ result[t].kind = "reply" /\ result[u].kind = "reply" =>
            \/ result[t].to <= result[u].from
            \/ result[u].to <= result[t].from

(* The reaper never kills a message: a turn that was typed into a session  *)
(* fails with "closed" only when the whole runner is closed (reapIfIdle).  *)
ReapSparesTurns == \A t \in Turns : result[t] = Failed("closed") => stopReap

(* No process is orphaned: one that runs is registered, still held by the  *)
(* call that spawned it, or about to be stopped; Close leaves none behind. *)
NoOrphan ==
    \A s \in Sessions :
        tty[s] = "up" =>
            (registered = s /\ shutdown # "swept") \/ pc[s] = "booted" \/ s \in doomed

(* The queue moves: a turn queued in a session is resolved, even one whose *)
(* caller gave up, whose write failed or whose process died, as long as    *)
(* the session is not stopped.  A queue that stuck would keep the session  *)
(* from ever being reaped.                                                 *)
QueueMoves ==
    \A t \in Turns : InQueue(t) ~> (~InQueue(t) \/ sess[t] \in stopCh)
=============================================================================
