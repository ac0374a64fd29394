------------------------------ MODULE Projects ------------------------------
(***************************************************************************)
(* Projects, their conversations and the scheduled turns that make them    *)
(* (store.go; manager.go: HandleScheduledTask, makeContinuation,           *)
(* projectSink; worker_status.go; !project and !chat of bot.go).           *)
(*                                                                         *)
(* A scheduled turn makes a conversation of its own in its task's project, *)
(* may split it into a series when the context overflows, and saves it at  *)
(* its end, whatever happened to the project meanwhile.  Old conversations *)
(* are pruned beside turns and commands (main.go).  Every change of the    *)
(* store is written at once, so a restart finds the store as it was.       *)
(***************************************************************************)
EXTENDS Naturals, Sequences, FiniteSets

CONSTANTS Names,        \* project names, in alphabetical order
          Turns,        \* fires of scheduled tasks
          NoName,       \* ""
          NoConv,       \* no record
          MaxId,        \* bound: conversation IDs of a project
          MaxEvents     \* bound: commands, prunings and restarts

Ids == 1..MaxId
Convs == [by : Turns \cup {"chat"}, parent : 0..MaxId, child : 0..MaxId]

ASSUME ProjectsAssumption ==
    /\ Names \subseteq Nat /\ Names # {} /\ NoName \notin Names
    /\ NoConv \notin Convs /\ "chat" \notin Turns
    /\ MaxId \in Nat /\ MaxEvents \in Nat

VARIABLES
    registered,     \* the keys of Projects
    convs,          \* each project's conversations, by ID
    active,         \* Active: <<project, ID>>
    telegramActive, \* TelegramActiveProject
    turn,           \* each fire: where it is, its project, the IDs of its series
    listed,         \* worker statuses "running", by <<project, ID>>
    lost,           \* history: IDs whose record went under a turn that still works on it
    events

storeVars == <<registered, convs, active, telegramActive>>
vars == <<storeVars, turn, listed, lost, events>>

NoActive == <<NoName, 0>>
(* A record: who made it, and its neighbours in its series.                *)
Conv(by, parent, child) == [by |-> by, parent |-> parent, child |-> child]
Present(n) == {i \in Ids : convs[n][i] # NoConv}
Work(at, name, series) == [at |-> at, name |-> name, series |-> series]
InProgress == {"chosen", "made", "checked", "early", "running", "split", "rerun", "saved"}

Init ==
    /\ registered = Names
    /\ convs = [n \in Names |-> [i \in Ids |-> NoConv]]
    /\ active = NoActive /\ telegramActive \in Names \cup {NoName}
    /\ turn = [t \in Turns |-> Work("new", NoName, <<>>)]
    /\ listed = {} /\ lost = {}
    /\ events = 0

(* Mistaken: as many as there are, and one.                                *)
NextIdByCount(n) == Cardinality(Present(n)) + 1

(* nextConvID: one more than the largest.                                  *)
NextId(n) == CHOOSE i \in 1..(MaxId + 1) :
                (\A j \in Present(n) : j < i) /\ (i = 1 \/ i - 1 \in Present(n))

(* NewConversation                                                         *)
Creates(n, by) ==
    /\ n \in registered /\ NextId(n) \in Ids
    /\ convs' = [convs EXCEPT ![n][NextId(n)] = Conv(by, 0, 0)]

Ends(t) == turn' = [turn EXCEPT ![t] = Work("ended", NoName, <<>>)]
Moves(t, at) == turn' = [turn EXCEPT ![t].at = at]
Depth(t) == Len(turn[t].series)
Id(t) == turn[t].series[Depth(t)]
Key(t) == <<turn[t].name, Id(t)>>

(* The k-th record of a turn's series as its worker holds it.              *)
Own(t, k) == Conv(t, IF k = 1 THEN 0 ELSE turn[t].series[k - 1],
                  IF k = Depth(t) THEN 0 ELSE turn[t].series[k + 1])

(* UpdateConversation, through projectSink.save: the worker's copy of the  *)
(* record it works on.  It fails, and is logged, when the project is gone. *)
Saves(t) ==
    IF turn[t].name \notin registered THEN UNCHANGED convs
    ELSE convs' = [convs EXCEPT ![turn[t].name][Id(t)] = Own(t, Depth(t))]

(* SetStatus and UpdateStatus of the worker status store: under the ID of  *)
(* the record the worker works on now.                                     *)
Lists(t) == listed' = listed \cup {Key(t)}
Unlists(t) == listed' = listed \ {Key(t)}

-----------------------------------------------------------------------------
ParentsIn(n) == [i \in Ids |-> IF convs[n][i] = NoConv THEN 0 ELSE convs[n][i].parent]

(* The record that i continues, if it is there.  (Mistaken for the first   *)
(* of the series.)                                                         *)
Above(n, i) == IF ParentsIn(n)[i] \in Present(n) THEN ParentsIn(n)[i] ELSE i

(* webConversationRootID: up the series until it ends or repeats.          *)
Climb(n, i) ==
    LET at[k \in 0..MaxId] == IF k = 0 THEN i ELSE Above(n, at[k - 1]) IN at
Root(n, i) ==
    LET at == Climb(n, i)
        again == {k \in 1..MaxId : \E j \in 0..(k - 1) : at[j] = at[k]}
    IN at[CHOOSE k \in again : \A l \in again : k <= l]

(* The series ends: no ancestor is its own ancestor.                       *)
Rooted(n, i) == ParentsIn(n)[Climb(n, i)[MaxId]] \notin Present(n)

-----------------------------------------------------------------------------
(* handleSchedule pins the telegram stream's project to the task.          *)
Pin(t) ==
    /\ turn[t].at = "new"
    /\ turn' = [turn EXCEPT ![t] = Work("pinned", telegramActive, <<>>)]
    /\ UNCHANGED <<storeVars, listed, lost, events>>

(* HandleScheduledTask: the pinned project, or the first one left.         *)
Choose(t) ==
    LET pinned == turn[t].name
        first == CHOOSE n \in registered : \A m \in registered : n <= m
    IN
    /\ turn[t].at = "pinned"
    /\ IF registered = {} THEN Ends(t)
       ELSE turn' = [turn EXCEPT ![t] =
                        Work("chosen", IF pinned \in registered THEN pinned ELSE first, <<>>)]
    /\ UNCHANGED <<storeVars, listed, lost, events>>

(* NewConversation, under a lock of its own: the project may be gone.      *)
Make(t) ==
    LET n == turn[t].name IN
    /\ turn[t].at = "chosen"
    /\ \/ n \notin registered /\ Ends(t) /\ UNCHANGED convs
       \/ Creates(n, t) /\ turn' = [turn EXCEPT ![t] = Work("made", n, <<NextId(n)>>)]
    /\ UNCHANGED <<registered, active, telegramActive, listed, lost, events>>

(* A project gone by now is refused, or ends in the recovered panic of the *)
(* worktree's path.                                                        *)
Check(t) ==
    /\ turn[t].at = "made"
    /\ IF turn[t].name \in registered THEN Moves(t, "checked") ELSE Ends(t)
    /\ UNCHANGED <<storeVars, listed, lost, events>>

(* The status, and the prompt, saved before the CLI runs.                  *)
Start(t) ==
    /\ turn[t].at = "checked"
    /\ Moves(t, "running") /\ Lists(t)
    /\ Saves(t)
    /\ UNCHANGED <<registered, active, telegramActive, lost, events>>

(* makeContinuation: a new conversation for a prompt that is too long, or  *)
(* for a second run after a context overflow.  Without one the turn goes   *)
(* on as it is.  chainInfo climbs the series first, for ever if it is a    *)
(* circle: a project registered again under a turn may tie one.            *)
Split(t) ==
    LET n == turn[t].name IN
    /\ \/ turn[t].at = "checked" /\ Depth(t) = 1
       \/ turn[t].at = "running"
    /\ convs[n][Id(t)] # NoConv => Rooted(n, Id(t))
    /\ Creates(n, t)
    /\ turn' = [turn EXCEPT ![t] = Work(IF @.at = "running" THEN "split" ELSE "early",
                                        n, Append(@.series, NextId(n)))]
    /\ UNCHANGED <<registered, active, telegramActive, listed, lost, events>>

(* ... then its link to the old one, whose copy is saved: written into the *)
(* new record itself, if that is still the stored one.                     *)
Link(t) ==
    LET n == turn[t].name
        k == Depth(t)
    IN
    /\ turn[t].at \in {"early", "split"}
    /\ Moves(t, IF turn[t].at = "split" THEN "rerun" ELSE "checked")
    /\ IF n \notin registered THEN UNCHANGED convs
       ELSE convs' = [convs EXCEPT ![n][Id(t)] = IF @ # NoConv /\ @.by = t THEN Own(t, k) ELSE @,
                                   ![n][turn[t].series[k - 1]] = Own(t, k - 1)]
    /\ UNCHANGED <<registered, active, telegramActive, listed, lost, events>>

-----------------------------------------------------------------------------
Ran(t) == turn[t].at \in {"running", "rerun"}

(* The end of runWorker: save, setActive and UpdateStatus, each under a    *)
(* lock of its own.                                                        *)
SaveTurn(t) ==
    /\ Ran(t) /\ Moves(t, "saved")
    /\ Saves(t)
    /\ UNCHANGED <<registered, active, telegramActive, listed, lost, events>>

Complete(t) ==
    /\ turn[t].at = "saved"
    /\ Ends(t)
    /\ active' = Key(t) /\ Unlists(t)
    /\ UNCHANGED <<registered, convs, telegramActive, lost, events>>

(* Failed, timed out or cancelled: UpdateStatus alone.                     *)
Fail(t) ==
    /\ Ran(t)
    /\ Ends(t) /\ Unlists(t)
    /\ UNCHANGED <<storeVars, lost, events>>

-----------------------------------------------------------------------------
Event == events < MaxEvents /\ events' = events + 1

(* A !project or !chat command, one at a time (cmdMu) beside the turns.    *)
Command == Event /\ UNCHANGED <<turn, listed>>

(* The IDs in gone are freed, some of them under a turn in progress.       *)
Frees(gone) ==
    /\ convs' = [n \in Names |-> [i \in Ids |-> IF <<n, i>> \in gone THEN NoConv ELSE convs[n][i]]]
    /\ lost' = lost \cup {c \in gone : \E t \in Turns :
                            /\ turn[t].at \in InProgress /\ turn[t].name = c[1]
                            /\ \E k \in DOMAIN turn[t].series : turn[t].series[k] = c[2]}

AddProject(n) ==
    /\ n \notin registered /\ Command
    /\ registered' = registered \cup {n}
    /\ UNCHANGED <<convs, active, telegramActive, lost>>

RemoveProject(n) ==
    /\ n \in registered /\ Command
    /\ registered' = registered \ {n}
    /\ Frees({n} \X Present(n))
    /\ active' = IF active[1] = n THEN NoActive ELSE active
    /\ telegramActive' = IF telegramActive = n THEN NoName ELSE telegramActive

(* handleTelegram's switch of the stream's project.                        *)
SwitchTelegram(n) ==
    /\ n \in registered /\ n # telegramActive /\ Command
    /\ telegramActive' = n
    /\ UNCHANGED <<registered, convs, active, lost>>

(* !chat new, !chat use                                                    *)
ChatNew ==
    /\ active # NoActive /\ Command
    /\ Creates(active[1], "chat") /\ active' = <<active[1], NextId(active[1])>>
    /\ UNCHANGED <<registered, telegramActive, lost>>

ChatUse(n, i) ==
    /\ convs[n][i] # NoConv /\ <<n, i>> # active /\ Command
    /\ active' = <<n, i>>
    /\ UNCHANGED <<registered, convs, telegramActive, lost>>

(* A web turn ends: Active names its conversation, of no project; or one   *)
(* is deleted.                                                             *)
WebActive ==
    /\ active # NoActive /\ Command
    /\ active' = NoActive
    /\ UNCHANGED <<registered, convs, telegramActive, lost>>

-----------------------------------------------------------------------------
(* Mistaken: only the active conversation itself.                          *)
ProtectedAlone(n) == IF active[1] = n THEN {active[2]} ELSE {}

WithParents(n, S) == S \cup {ParentsIn(n)[i] : i \in S \cap Ids}

(* PruneOldConversations: the active conversation and its ancestors stay.  *)
Protected(n) ==
    IF active[1] # n THEN {}
    ELSE LET up[k \in 0..MaxId] == IF k = 0 THEN {active[2]} ELSE WithParents(n, up[k - 1])
         IN up[MaxId]

(* runPrune, at a start and daily, beside turns and commands: the records  *)
(* whose last activity is too long ago, which none is more than the one it *)
(* continues.  A turn as long as the limit (in days) has such a record too.*)
Prune ==
    /\ Event
    /\ \E old \in (SUBSET {c \in Names \X Ids : c[2] \in Present(c[1])}) \ {{}} :
          /\ \A c \in old, p \in Ids :
                LET own == convs[c[1]] IN
                p = own[c[2]].parent /\ p \in Present(c[1]) /\ own[p].by = own[c[2]].by
                    => <<c[1], p>> \in old
          /\ Frees({c \in old : c[2] \notin Protected(c[1])})
    /\ UNCHANGED <<registered, active, telegramActive, turn, listed>>

(* A restart: turns and worker statuses are gone, the store is not.        *)
Restart ==
    /\ Event
    /\ turn' = [t \in Turns |-> IF turn[t].at \in InProgress THEN Work("ended", NoName, <<>>)
                                                             ELSE turn[t]]
    /\ listed' = {} /\ lost' = {}
    /\ UNCHANGED storeVars

-----------------------------------------------------------------------------
(* webTopicsForProject: a topic for each series, opened by its active      *)
(* conversation if it has it.  The one that was active last is otherwise   *)
(* chosen; here, any.                                                      *)
Topics(n) ==
    LET root == [i \in Present(n) |-> Root(n, i)] IN
    {[root |-> r, members |-> {i \in Present(n) : root[i] = r},
      active |-> active[1] = n /\ active[2] \in Present(n) /\ root[active[2]] = r] :
     r \in {root[i] : i \in Present(n)}}

Scheduled(t) ==
    \/ Pin(t) \/ Choose(t) \/ Make(t) \/ Check(t) \/ Start(t) \/ Split(t) \/ Link(t)
    \/ SaveTurn(t) \/ Complete(t) \/ Fail(t)

Next ==
    \/ \E t \in Turns : Scheduled(t)
    \/ \E n \in Names : AddProject(n) \/ RemoveProject(n) \/ SwitchTelegram(n)
                        \/ \E i \in Ids : ChatUse(n, i)
    \/ ChatNew \/ WebActive \/ Prune \/ Restart

Spec == Init /\ [][Next]_vars

-----------------------------------------------------------------------------
TypeOK ==
    /\ registered \subseteq Names
    /\ convs \in [Names -> [Ids -> Convs \cup {NoConv}]]
    /\ active \in (Names \X Ids) \cup {NoActive}
    /\ telegramActive \in Names \cup {NoName}
    /\ turn \in [Turns -> [at : {"new", "pinned", "ended"} \cup InProgress,
                           name : Names \cup {NoName}, series : Seq(Ids)]]
    /\ listed \subseteq Names \X Ids /\ lost \subseteq Names \X Ids
    /\ events \in 0..MaxEvents
    /\ \A n \in Names \ registered : Present(n) = {}

(* "executes a pre-scheduled task in a fresh conversation" that "never     *)
(* leaks into a prior conversation's context": a turn takes no ID that is  *)
(* in use and overwrites no other's record, unless its own record went,    *)
(* with the project or pruned, and the ID was given again.                 *)
RecordsKept ==
    [][\A n \in Names, i \in Ids :
          convs[n][i] # NoConv /\ convs'[n][i] # NoConv =>
              \/ convs'[n][i].by = convs[n][i].by
                 /\ (convs[n][i].parent # 0 => convs'[n][i].parent # 0)
              \/ <<n, i>> \in lost]_vars

(* "pruning can never sever the live conversation's context lineage":      *)
(* whatever is pruned, beside whatever turns and commands, the active      *)
(* conversation's series stays whole down to where it begins.              *)
Closed(n, S) == \A i \in S : ParentsIn(n)[i] # 0 => ParentsIn(n)[i] \in S
Lineage(n) ==
    {i \in Present(n) : active[1] = n
        /\ \A S \in SUBSET Ids : active[2] \in S /\ Closed(n, S) => i \in S}
LineageKept ==
    [][\A n \in Names : n \in registered' => \A i \in Lineage(n) : convs'[n][i] # NoConv]_vars

(* The browser shows a series as one topic: every conversation is in one,  *)
(* a continuation is in its parent's, whatever was pruned or is being      *)
(* linked, and one topic at most is the active one, unless a series goes   *)
(* in a circle.                                                            *)
TopicsWhole ==
    \A n \in Names : (\A i \in Present(n) : Rooted(n, i)) =>
        LET topics == Topics(n) IN
        /\ \A i \in Present(n) : Cardinality({p \in topics : i \in p.members}) = 1
        /\ \A p \in topics, i \in Present(n) :
              ParentsIn(n)[i] \in p.members => i \in p.members
        /\ Cardinality({p \in topics : p.active}) <= 1

(* "The authoritative answer to 'is this conversation still working?'":    *)
(* a conversation listed as working is one of a turn that has not ended.   *)
(* Not kept by the code: after a split UpdateStatus names the new ID.      *)
ListedRuns ==
    \A k \in listed :
        LET c == convs[k[1]][k[2]] IN
        c # NoConv => c.by \in Turns /\ turn[c.by].at \in InProgress
=============================================================================
