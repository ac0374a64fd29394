---------------------------- MODULE Conversation ----------------------------
(***************************************************************************)
(* Conversation records and the worker turns that rewrite them (manager.go:*)
(* handleTelegram, HandleWebTarget, runWorker, CompactTelegramConversation;*)
(* store.go; the record edits of bot.go).                                  *)
(*                                                                         *)
(* A turn works on a copy of its record, saves the prompt, runs the CLI for*)
(* minutes, recovers a lost session or a full context with a second run,   *)
(* and saves the copy again before it replies.  Edits and !compact are     *)
(* read-modify-writes of the same records.  The CLIs are external.         *)
(***************************************************************************)
EXTENDS Naturals, Sequences, FiniteSets

CONSTANTS Turns,        \* requests, each one turn
          Convs,        \* conversation IDs
          Telegram,     \* the one stream, never deleted
          ConvOf,       \* the conversation each turn belongs to
          Steered,      \* web conversations whose turns may overlap
          Nothing,      \* no record, no turn
          MaxHistory,   \* maxHistoryTurns, 200 in the code
          MaxEdits,     \* bound: edits, deletions and creations of records
          MaxLosses,    \* bound: times the CLIs lose their sessions
          MaxCrashes    \* bound: process restarts

Backends == {"claude", "codex"}
Records == [history : Seq([turn : Turns, answered : BOOLEAN]), session : Nat,
            started : BOOLEAN, backend : Backends]

ASSUME ConversationAssumption ==
    /\ IsFiniteSet(Turns) /\ IsFiniteSet(Convs)
    /\ Telegram \in Convs /\ Convs \ {Telegram} \subseteq Nat \ {0}
    /\ Steered \subseteq Convs \ {Telegram}
    /\ ConvOf \in [Turns -> Convs]
    /\ Nothing \notin Turns \cup Convs \cup Records \cup {"edit", "compact"}
    /\ "edit" \notin Turns /\ "compact" \notin Turns
    /\ MaxHistory \in Nat \ {0}
    /\ MaxEdits \in Nat /\ MaxLosses \in Nat /\ MaxCrashes \in Nat

VARIABLES
    store,       \* each record in memory
    disk,        \* store.json
    shares,      \* the turn whose own copy the store holds: Update* keeps the pointer
    turn,        \* each turn: where it is, its copy, how it ended
    telegramMu,  \* the turn or command holding it
    compaction,  \* !compact: where it is, its copy
    edit,        \* an edit between its read and its write
    cli,         \* sessions the CLIs hold, as <<backend, id>>
    stale,       \* history: writers whose copy misses a write made since they read
    edits, losses, crashes

recordVars == <<store, disk, shares, stale>>
bounds == <<edits, losses, crashes>>
vars == <<recordVars, turn, telegramMu, compaction, edit, cli, bounds>>

Empty == 0   \* SessionID ""

(* One record: backend stands for every field an edit sets.                *)
Record(history, session, started, backend) ==
    [history |-> history, session |-> session, started |-> started, backend |-> backend]
Entry(t, answered) == [turn |-> t, answered |-> answered]

(* A turn has read its record ("read"), runs the CLI ("running", then      *)
(* "recovering" or "retrying"), is durable ("saved") or over ("ended").    *)
Running == {"running", "recovering", "retrying"}
InProgress == {"read", "saved"} \cup Running
Turn(at, copy, result) == [at |-> at, copy |-> copy, result |-> result]

(* newUUID: an ID nothing refers to.                                       *)
Held == ({store[c] : c \in Convs} \cup {disk[c] : c \in Convs} \cup {turn[t].copy : t \in Turns}
         \cup {edit.copy, compaction.copy}) \ {Nothing}
Used == {Empty} \cup {r.session : r \in Held} \cup {s[2] : s \in cli}
Fresh == CHOOSE n \in 1..(Cardinality(Used) + 1) : n \notin Used

Init ==
    /\ store = [c \in Convs |-> Record(<<>>, IF c = Telegram THEN 1 ELSE c + 1, FALSE, "claude")]
    /\ disk = store
    /\ shares = [c \in Convs |-> Nothing]
    /\ turn = [t \in Turns |-> Turn("new", Nothing, "none")]
    /\ telegramMu = Nothing
    /\ compaction = [at |-> "no", copy |-> Nothing]
    /\ edit = [of |-> Nothing, copy |-> Nothing]
    /\ cli = {}
    /\ stale = {}
    /\ edits = 0 /\ losses = 0 /\ crashes = 0

-----------------------------------------------------------------------------
(* Writers other than w that hold a copy of c read before now.             *)
Others(c, w) ==
    ({t \in Turns : ConvOf[t] = c /\ turn[t].at \in {"read"} \cup Running}
     \cup (IF edit.of = c THEN {"edit"} ELSE {})
     \cup (IF c = Telegram /\ compaction.at = "running" THEN {"compact"} ELSE {})) \ {w}

(* UpdateTelegramConversation, UpdateWebConv: the record is replaced by    *)
(* the caller's and the whole store is written.                            *)
Save(c, w, record) ==
    /\ store' = [store EXCEPT ![c] = record]
    /\ disk' = store'
    /\ shares' = [shares EXCEPT ![c] = w]
    /\ stale' = (stale \cup Others(c, w)) \ {w}

(* Mistaken: a return that skips the deferred unlock.                      *)
KeepsLocked(t) == telegramMu' = IF turn[t].at = "saved" /\ telegramMu = t THEN Nothing
                                                                         ELSE telegramMu

Free(t) == telegramMu' = IF telegramMu = t THEN Nothing ELSE telegramMu

(* The dispatcher runs the turns of a conversation one at a time unless it *)
(* is interactive.                                                         *)
Admitted(t) ==
    /\ turn[t].at = "new"
    /\ \/ ConvOf[t] \in Steered
       \/ \A u \in Turns : ConvOf[u] = ConvOf[t] => turn[u].at \notin InProgress
    /\ UNCHANGED <<recordVars, telegramMu, compaction, edit, cli, bounds>>

TurnedAway(t) == turn' = [turn EXCEPT ![t] = Turn("ended", Nothing, "failed")]
Copies(t) == turn' = [turn EXCEPT ![t] = Turn("read", store[ConvOf[t]], "none")]

(* handleTelegram: the record is copied, before telegramMu is taken, unless*)
(* the text was a request to schedule or the backend is not installed.     *)
ReadTelegram(t) ==
    /\ ConvOf[t] = Telegram
    /\ Admitted(t)
    /\ TurnedAway(t) \/ Copies(t)

(* HandleWebTarget: the conversation may be gone.                          *)
ReadWeb(t) ==
    /\ ConvOf[t] # Telegram
    /\ Admitted(t)
    /\ TurnedAway(t) \/ (store[ConvOf[t]] # Nothing /\ Copies(t))

(* A copy whose context is too long goes on in a new session.              *)
Continued(copy) == [copy EXCEPT !.session = Fresh, !.started = FALSE]

(* runWorker up to the CLI: telegram turns take telegramMu, a long context *)
(* is split, the prompt is saved as a turn without an answer.              *)
Begin(t) ==
    LET c == ConvOf[t]
        pending(copy) == [copy EXCEPT !.history = Append(@, Entry(t, FALSE))]
    IN
    /\ turn[t].at = "read"
    /\ IF c = Telegram THEN telegramMu = Nothing /\ telegramMu' = t ELSE UNCHANGED telegramMu
    /\ \E copy \in {turn[t].copy, Continued(turn[t].copy)} :
          /\ turn' = [turn EXCEPT ![t].at = "running", ![t].copy = pending(copy)]
          /\ Save(c, t, pending(copy))
    /\ UNCHANGED <<compaction, edit, cli, bounds>>

(* CheckReadiness refuses, or the project is gone.                         *)
Blocked(t) ==
    /\ turn[t].at = "read"
    /\ ConvOf[t] = Telegram => telegramMu = Nothing
    /\ turn' = [turn EXCEPT ![t] = Turn("ended", Nothing, "failed")]
    /\ stale' = stale \ {t}
    /\ UNCHANGED <<store, disk, shares, telegramMu, compaction, edit, cli, bounds>>

-----------------------------------------------------------------------------
Session(t) == <<turn[t].copy.backend, turn[t].copy.session>>
Resumes(t) == turn[t].at = "running" /\ turn[t].copy.started

(* A resumed session must exist; any other run makes its own.              *)
Works(t) == turn[t].at \in Running /\ (Resumes(t) => Session(t) \in cli)

(* The sessions after t's run, and the ID the CLI tells.  claude takes the *)
(* ID it is given; codex names a thread of its own, which its output may   *)
(* not show.                                                               *)
RunMakes(t, sessions, told) ==
    \/ Resumes(t) /\ sessions = cli /\ told = Empty
    \/ /\ ~Resumes(t) /\ Session(t)[1] = "claude" /\ Session(t)[2] # Empty
       /\ sessions = cli \cup {Session(t)} /\ told = Empty
    \/ /\ ~Resumes(t) /\ Session(t)[1] = "codex"
       /\ sessions = cli \cup {<<"codex", Fresh>>} /\ told \in {Fresh, Empty}

(* Mistaken: the session of a recovered turn is dropped.                   *)
AdoptsUnstarted(t, told) == told # Empty /\ ~turn[t].copy.started

(* The ID replaces the stored one on a first turn and after a recovery,    *)
(* when that one is dead.                                                  *)
Adopts(t, told) ==
    told # Empty /\ (~turn[t].copy.started \/ turn[t].at = "recovering")

(* Mistaken: the answer is added beside the pending prompt.                *)
CompletedBeside(history, t) == Append(history, Entry(t, TRUE))

(* recordCompletedTurn                                                     *)
Completed(history, t) ==
    IF \E i \in DOMAIN history : history[i] = Entry(t, FALSE)
    THEN [i \in DOMAIN history |-> IF history[i] = Entry(t, FALSE) THEN Entry(t, TRUE)
                                                                   ELSE history[i]]
    ELSE Append(history, Entry(t, TRUE))

(* Mistaken: the newest turns are dropped.                                 *)
CappedAtEnd(history) ==
    IF Len(history) > MaxHistory THEN SubSeq(history, 1, MaxHistory) ELSE history

(* The oldest turns over the cap are dropped, when a turn is completed and *)
(* at no other time.                                                       *)
Capped(history) ==
    LET n == Len(history) IN
    IF n > MaxHistory THEN SubSeq(history, n - MaxHistory + 1, n) ELSE history

Finish(t, told, result) ==
    LET copy == turn[t].copy IN
    /\ Save(ConvOf[t], t,
            Record(Capped(Completed(copy.history, t)),
                   IF Adopts(t, told) THEN told ELSE copy.session,
                   TRUE, copy.backend))
    /\ turn' = [turn EXCEPT ![t] = Turn("saved", Nothing, result)]
    /\ UNCHANGED <<telegramMu, compaction, edit, bounds>>

(* The run answered: the turn is completed, marked started and saved.      *)
Answer(t) ==
    /\ Works(t)
    /\ \E sessions \in {cli, cli \cup {Session(t)}, cli \cup {<<"codex", Fresh>>}},
          told \in {Empty, Fresh} :
          /\ RunMakes(t, sessions, told)
          /\ cli' = sessions
          /\ Finish(t, told, IF Session(t)[1] = "codex" /\ ~Resumes(t) /\ told = Empty
                             THEN "untold" ELSE "answered")

(* An expired token, reported as an answer: only the run after a context   *)
(* overflow is not checked for it.  An empty session ID is answered from a *)
(* session nobody knows.                                                   *)
AnswerWithoutSession(t) ==
    /\ \/ turn[t].at = "retrying"
       \/ turn[t].at \in Running /\ ~Resumes(t) /\ Session(t) = <<"claude", Empty>>
    /\ Finish(t, Empty, "unfounded")
    /\ UNCHANGED cli

(* "No conversation found": the same turn runs once more without --resume. *)
Lost(t) ==
    /\ Resumes(t) /\ Session(t) \notin cli
    /\ turn' = [turn EXCEPT ![t].at = "recovering"]
    /\ UNCHANGED <<recordVars, telegramMu, compaction, edit, cli, bounds>>

(* "Prompt is too long": the turn runs once more in a new session.  The    *)
(* store sees the change of a copy it shares; the disk does not.           *)
Overflow(t) ==
    LET c == ConvOf[t] IN
    /\ Works(t) /\ turn[t].at # "retrying"
    /\ turn' = [turn EXCEPT ![t].at = "retrying", ![t].copy = Continued(@)]
    /\ store' = IF shares[c] = t THEN [store EXCEPT ![c] = Continued(turn[t].copy)] ELSE store
    /\ cli' = IF Resumes(t) \/ Session(t)[1] = "codex" THEN cli ELSE cli \cup {Session(t)}
    /\ UNCHANGED <<disk, shares, stale, telegramMu, compaction, edit, bounds>>

(* The run failed, was cancelled, ran into its deadline or could not       *)
(* authenticate: nothing is saved.  claude may have made its session.      *)
Fail(t) ==
    /\ turn[t].at \in Running
    /\ cli' \in {cli} \cup (IF Resumes(t) \/ Session(t)[1] = "codex" THEN {}
                            ELSE {cli \cup {Session(t)}})
    /\ turn' = [turn EXCEPT ![t] = Turn("ended", Nothing, "failed")]
    /\ Free(t)
    /\ stale' = stale \ {t}
    /\ UNCHANGED <<store, disk, shares, compaction, edit, bounds>>

(* The reply is sent, telegramMu released.                                 *)
Reply(t) ==
    /\ turn[t].at = "saved"
    /\ turn' = [turn EXCEPT ![t].at = "ended"]
    /\ Free(t)
    /\ UNCHANGED <<recordVars, compaction, edit, cli, bounds>>

-----------------------------------------------------------------------------
(* !compact, refused while a turn runs at that moment.                     *)
CompactAsk ==
    /\ compaction.at = "no" /\ edits < MaxEdits
    /\ \A t \in Turns : turn[t].at \notin InProgress
    /\ compaction' = [compaction EXCEPT !.at = "asked"]
    /\ edits' = edits + 1
    /\ UNCHANGED <<recordVars, turn, telegramMu, edit, cli, losses, crashes>>

(* Mistaken: !compact relies on the load it checked, not on telegramMu.    *)
CompactBeginUnlocked ==
    /\ compaction.at = "asked" /\ store[Telegram].started
    /\ compaction' = [at |-> "running", copy |-> store[Telegram]]
    /\ UNCHANGED <<recordVars, turn, telegramMu, edit, cli, bounds>>

CompactBegin ==
    LET tc == store[Telegram] IN
    /\ compaction.at = "asked" /\ telegramMu = Nothing
    /\ IF tc.history = <<>> /\ ~tc.started
       THEN compaction' = [at |-> "no", copy |-> Nothing] /\ UNCHANGED telegramMu
       ELSE compaction' = [at |-> "running", copy |-> tc] /\ telegramMu' = "compact"
    /\ UNCHANGED <<recordVars, turn, edit, cli, bounds>>

CompactLeaves ==
    /\ compaction.at = "running"
    /\ compaction' = [at |-> "no", copy |-> Nothing]
    /\ telegramMu' = Nothing
    /\ UNCHANGED <<turn, edit, cli, bounds>>

(* The summary is on file: history and session are dropped.                *)
CompactEnd ==
    /\ CompactLeaves
    /\ compaction.copy.started => <<compaction.copy.backend, compaction.copy.session>> \in cli
    /\ Save(Telegram, "compact", Record(<<>>, Empty, FALSE, compaction.copy.backend))

CompactFail ==
    /\ CompactLeaves
    /\ stale' = stale \ {"compact"}
    /\ UNCHANGED <<store, disk, shares>>

-----------------------------------------------------------------------------
(* setChannelBackend, webRename, webSetDir, SetInteractive: a record is    *)
(* read, then written back with one field changed.                         *)
EditRead(c) ==
    /\ edit.of = Nothing /\ store[c] # Nothing
    /\ edits < MaxEdits /\ edits' = edits + 1
    /\ edit' = [of |-> c, copy |-> store[c]]
    /\ UNCHANGED <<recordVars, turn, telegramMu, compaction, cli, losses, crashes>>

EditWrite ==
    /\ edit.of # Nothing
    /\ edit' = [of |-> Nothing, copy |-> Nothing]
    /\ \E b \in Backends \ {edit.copy.backend} :
          Save(edit.of, "edit", [edit.copy EXCEPT !.backend = b])
    /\ UNCHANGED <<turn, telegramMu, compaction, cli, bounds>>

(* webDelete; webNew, whose nextConvID is one more than the largest ID.    *)
Replace(c, record) ==
    /\ edits < MaxEdits /\ edits' = edits + 1
    /\ store' = [store EXCEPT ![c] = record] /\ disk' = store'
    /\ shares' = [shares EXCEPT ![c] = Nothing]
    /\ stale' = stale \cup Others(c, Nothing)
    /\ UNCHANGED <<turn, telegramMu, compaction, edit, cli, losses, crashes>>

Delete(c) == c # Telegram /\ store[c] # Nothing /\ Replace(c, Nothing)

NewConv(c) ==
    LET present == {d \in Convs \ {Telegram} : store[d] # Nothing} IN
    /\ c # Telegram /\ \A d \in present : d < c
    /\ c - 1 \in present \cup {0}
    /\ Replace(c, Record(<<>>, Fresh, FALSE, "claude"))

(* A CLI update or a pruned rollout: the CLIs forget their sessions.       *)
LoseSessions ==
    /\ losses < MaxLosses /\ losses' = losses + 1
    /\ cli # {} /\ cli' = {}
    /\ UNCHANGED <<recordVars, turn, telegramMu, compaction, edit, edits, crashes>>

(* The process dies; store.json remains.                                   *)
Crash ==
    /\ crashes < MaxCrashes /\ crashes' = crashes + 1
    /\ store' = disk
    /\ shares' = [c \in Convs |-> Nothing]
    /\ turn' = [t \in Turns |->
                   CASE turn[t].at \in {"read"} \cup Running ->
                            Turn("ended", Nothing, "failed")
                     [] turn[t].at = "saved" -> [turn[t] EXCEPT !.at = "ended"]
                     [] OTHER -> turn[t]]
    /\ telegramMu' = Nothing /\ stale' = {}
    /\ compaction' = [at |-> "no", copy |-> Nothing]
    /\ edit' = [of |-> Nothing, copy |-> Nothing]
    /\ UNCHANGED <<disk, cli, edits, losses>>

Next ==
    \/ \E t \in Turns :
          \/ ReadTelegram(t) \/ ReadWeb(t) \/ Begin(t) \/ Blocked(t)
          \/ Lost(t) \/ Overflow(t) \/ Fail(t) \/ Answer(t) \/ AnswerWithoutSession(t) \/ Reply(t)
    \/ CompactAsk \/ CompactBegin \/ CompactEnd \/ CompactFail
    \/ EditWrite \/ LoseSessions \/ Crash
    \/ \E c \in Convs : EditRead(c) \/ Delete(c) \/ NewConv(c)

(* Goroutines run and a turn's run has a deadline; that of !compact has    *)
(* none, so nothing makes CompactEnd or CompactFail happen.                *)
RunEnds(t) == Lost(t) \/ Overflow(t) \/ Fail(t) \/ Answer(t) \/ AnswerWithoutSession(t)
Fairness ==
    /\ \A t \in Turns : WF_vars(Begin(t) \/ Blocked(t)) /\ WF_vars(RunEnds(t))
                        /\ WF_vars(Reply(t))
    /\ WF_vars(CompactBegin) /\ WF_vars(EditWrite)

Spec == Init /\ [][Next]_vars
FairSpec == Spec /\ Fairness

-----------------------------------------------------------------------------
TypeOK ==
    /\ store \in [Convs -> Records \cup {Nothing}] /\ disk \in [Convs -> Records \cup {Nothing}]
    /\ shares \in [Convs -> Turns \cup {Nothing, "edit", "compact"}]
    /\ turn \in [Turns -> [at : {"new", "ended"} \cup InProgress,
                           copy : Records \cup {Nothing},
                           result : {"none", "answered", "untold", "unfounded", "failed"}]]
    /\ telegramMu \in {Nothing} \cup {t \in Turns : turn[t].at \in Running \cup {"saved"}}
                      \cup {c \in {"compact"} : compaction.at = "running"}
    /\ compaction \in [at : {"no", "asked", "running"}, copy : Records \cup {Nothing}]
    /\ edit \in [of : Convs \cup {Nothing}, copy : Records \cup {Nothing}]
    /\ cli \subseteq Backends \X Nat
    /\ stale \subseteq Turns \cup {"edit", "compact"}
    /\ edits \in 0..MaxEdits /\ losses \in 0..MaxLosses /\ crashes \in 0..MaxCrashes

(* telegramMu and the lanes together keep two CLI processes off one        *)
(* session, !compact included, unless the conversation is interactive.     *)
OneProcessPerSession ==
    \A t, u \in {v \in Turns : turn[v].at \in Running} :
        /\ t # u /\ Session(t) = Session(u) => ConvOf[t] \in Steered
        /\ compaction.at = "running" => ConvOf[t] # Telegram

(* A turn stays one entry of its conversation's history, however its runs  *)
(* were retried: pending until it is answered.                             *)
OneEntryPerTurn ==
    \A c \in Convs : store[c] # Nothing =>
        /\ \A i, j \in DOMAIN store[c].history :
              store[c].history[i].turn = store[c].history[j].turn => i = j
        /\ \A i \in DOMAIN store[c].history :
              LET e == store[c].history[i] IN
              /\ ConvOf[e.turn] = c
              /\ e.answered => turn[e.turn].result \notin {"none", "failed"}

AnsweredIn(record) ==
    IF record = Nothing THEN {}
    ELSE {record.history[i].turn : i \in {j \in DOMAIN record.history : record.history[j].answered}}

(* "Send only after the turn is durably in ... History", "a failure never  *)
(* discards history that wasn't actually saved": a turn about to reply has *)
(* its answer on disk, and an answer on disk leaves it only by a deletion, *)
(* a compaction that succeeded, the write of a copy read before the answer *)
(* was saved, or as one of the oldest over the cap.  No failure, retry,    *)
(* recovery or crash drops one.                                            *)
Writes(w) == \/ w = "edit" /\ edit'.of = Nothing
             \/ w = "compact" /\ compaction'.at = "no"
             \/ w \in Turns /\ turn'[w] # turn[w]
Compacted == disk'[Telegram] = Record(<<>>, Empty, FALSE, compaction.copy.backend)
Outlives(c, i) ==
    \E k \in DOMAIN disk'[c].history : disk'[c].history[k].turn = disk[c].history[i].turn
Outgrown(c) ==
    /\ \E t \in Turns : ConvOf[t] = c /\ turn[t].at \in Running /\ turn'[t].at = "saved"
    /\ Len(disk'[c].history) = MaxHistory
    /\ \A i, j \in DOMAIN disk[c].history : Outlives(c, i) /\ ~Outlives(c, j) => j < i
AnswersKept ==
    [][/\ \A t \in Turns :
             turn[t].at # "saved" /\ turn'[t].at = "saved" => t \in AnsweredIn(disk'[ConvOf[t]])
       /\ \A c \in Convs :
             \/ AnsweredIn(disk[c]) \subseteq AnsweredIn(disk'[c])
             \/ disk'[c] = Nothing
             \/ c = Telegram /\ compaction.at = "running" /\ Compacted
             \/ \E w \in stale : Writes(w)
             \/ Outgrown(c)]_vars

(* "otherwise ... the conversation pinned to a session id that never       *)
(* existed", "every later turn would resume the same dead one again": when *)
(* a turn is saved as answered, the session stored with it exists.         *)
SavedSessionLives ==
    [][\A t \in Turns :
          turn[t].at # "saved" /\ turn'[t].at = "saved" /\ turn'[t].result = "answered" =>
              LET r == disk'[ConvOf[t]] IN r.started /\ <<r.backend, r.session>> \in cli']_vars

(* Every turn ends, answered or not, unless !compact holds telegramMu for  *)
(* ever.                                                                   *)
TurnsEnd ==
    []<>(compaction.at # "running") =>
        \A t \in Turns : turn[t].at \in InProgress ~> turn[t].at = "ended"
=============================================================================
