# teleclaude (aglink): a TLA+ model

teleclaude answers chat messages with local `claude` and `codex` command-line
tools. One Go process receives messages from Telegram, from a web chat and from
its own scheduler, runs at most `MaxWorkers` CLI turns at a time, and keeps every
conversation's history and CLI session in `store.json`.

This directory models the parts of it whose correctness depends on the order of
events, checks them with TLC and proves the safety of each model with TLAPS: every
safety property and every action property that a passing run checks is a theorem.

## Inventory

| Component | State | Operations | What is hard |
|---|---|---|---|
| Turn dispatcher (`bot.go`) | lanes with queues, slots, ready list, cancel functions | dispatch, finish, steer, cancel, load, reload of the cap | lost wakeups, order, fairness, interactive lanes with several turns in flight |
| Scheduler (`scheduler.go`) | tasks, `tasks.json`, cron entries, timers and stop channels | add, pause, resume, cancel, update, fire, defer, remove | timers against commands, the unlocked pre-check, crash between firing and removal |
| Conversations and turns (`manager.go`, `store.go`) | records in memory and on disk, `telegramMu`, CLI sessions | begin, recover, continue, answer, compact, edit, delete, create | copies that are stale when written back, retries after half a failure, crash between saves |
| Projects (`store.go`, `manager.go`, `worker_status.go`) | registered projects, their records, the active conversation, worker statuses | scheduled turn, split into a series, `!project`, `!chat`, prune, list | a project removed or registered again under a turn, series pruned while one grows |
| CLI runners (`runner*.go`) | processes, output streams | run, resume, parse | sessions that vanish, cancelled runs that left a session behind |
| Interactive sessions (`runner_conpty_windows.go`) | a persistent process per session, its queue of turns | find, spawn, insert, submit, watch, reap, close | two turns starting one process, completion guessed from silence, reaping against arrival |
| Hub and channels (`hub.go`, `chatcontrol.go`, `relay.go`) | registered channels, 64-entry send buffers | register, fan out, push, write, poll | slow clients, reconnects, a call that fans out over a copy of the list |
| Commands (`bot.go`) | `cmdMu` | one at a time, some after asking for the load | check-then-act on a load that changes |
| Configuration (`config*.go`, `settings.go`, `main.go`) | `config.yaml`, the live `Config`, the effects of its hooks | load, validate, save, mask, restore, watch, apply | overlapping reloads, saves that start from another version, secrets behind a mask |
| Worker status (`worker_status.go`) | status per conversation | set, update, list | status of a turn that changed conversation |
| Process (`main.go`, `bot.go`, `platform_linux.go`) | PID file, ready files, Telegram's offset | start, kill the previous one, update, hand over, conflict | two processes at once, an update redelivered, answers saved by the older |
| Users and limits (`userstore.go`, `security.go`) | user list, rate windows | add, remove, allow | boundaries of the window |

How they interact: a channel hands a message to `Bot.dispatch`; the lane of its
conversation runs `runTurn`, which calls the manager; the manager copies the
conversation from the store, runs a CLI through a runner (in interactive mode,
through the session's persistent process), saves the copy and replies through
the hub, which fans out over the registered channels. The scheduler calls back
into the dispatcher with `dispatchScheduledTask`. Commands are handled beside
the lanes and touch the dispatcher, the scheduler, the store and the
configuration directly. A process that takes over finds what the older one left
in `store.json` and in Telegram's queue.

Each component is modelled by itself. What it needs from the others is an input
of its actions: `Conversation` gets turns in any order the dispatcher may start
them, `Channels` gets any interleaving of calls, `InteractiveSession` any two
turns of a session, which is what the dispatcher steers into it. `Dispatch` and
`ConversationService` are composed by `DispatchRefinement`.

## Modules

| Module | Models | Role |
|---|---|---|
| `Dispatch` | `bot.go` lanes, `confighot.go` cap reload | the dispatcher, its properties and its inductive invariant |
| `ConversationService` | - | what the dispatcher promises, without lanes or counters |
| `DispatchRefinement` | - | the mapping from the dispatcher to the service |
| `Scheduler` | `scheduler.go` | tasks, timers, cron entries, `tasks.json` |
| `Conversation` | `manager.go`, `store.go`, the record edits of `bot.go` | worker turns on conversation records, `store.json` |
| `Projects` | `store.go`, `manager.go`, `worker_status.go`, `!project`, `!chat` | scheduled turns, series, pruning, topics, worker statuses |
| `InteractiveSession` | `runner_conpty_windows.go` | the persistent process of a session and its queue |
| `Channels` | `hub.go`, `chatcontrol.go`, the senders of `bot.go` | output of turns on its way to Telegram and browsers |
| `ConfigReload` | `config*.go`, `settings.go`, hooks of `main.go` | the file, the live configuration and its effects |
| `Handover` | `main.go`, `bot.go` (`Run`, `handleUpdate`), `platform_linux.go` | the processes that serve a bot one after the other |
| `DispatchProofs`, `SchedulerProofs`, `ConversationProofs`, `ProjectsProofs`, `InteractiveSessionProofs`, `ChannelsProofs`, `ConfigReloadProofs`, `HandoverProofs` | - | theorems |
| `MC...` | - | constants for TLC |

A definition named `...Anyway`, `...Unchecked`, `RunnerKept` and the like, with a
comment that begins "Mistaken", is a plausible bug: put in place of the
definition it varies, it breaks the property `PROJECT.json` names. None is used.

### Dispatch

A critical section of `Bot.mu` is one action. `queue`, `running`, `steering`,
`inFlight` are the fields of a `lane`; `live` is the key set of `b.lanes`;
`readyLanes`, `runningLanes` and `cancels` are the fields of `Bot`. `dispatch` is
split by its branches: `Steer` (interactive lane that runs), `Enqueue`, `StartNow`,
`WaitForSlot`. `finishTurn` is `FinishSteered`, `FinishChain`, `FinishFree`; the
last one contains `scheduleLocked`, written as what its loop pops (`Popped`) and
starts (`Promoted`). `Register` is the start of `runTurn`: between the spawn of a
turn and its registration `!cancel` cannot see it. `CancelCollect` and `CancelCall`
are separate because `cancel` calls the functions after unlocking.

The order in which messages acquire `Bot.mu` is their arrival order (`log`).

### Scheduler

`runner` is what the cron library holds, `cronEntries` and `stopChs` are the maps
the scheduler keeps about it: an entry the maps do not know cannot be removed. A
one-shot is a goroutine (`job`) that is armed, due (its timer won the select),
running its pre-check, or about to remove its task. `saved` is `tasks.json`. The
schedule of a task is `once`, `cron` or `bad`; deferring by a minute is a new timer.
Commands are possible only after `Run` registered the loaded tasks, as `main.go`
starts it before the channels.

### Conversation

A turn is `read` (copy taken), `running`, `recovering` (the session was lost),
`retrying` (the context was full), `saved`, `ended`. `store` is memory, `disk` is
`store.json`. `UpdateTelegramConversation` and `UpdateWebConv` keep the caller's
pointer: `shares` records whose copy the store holds, because a continuation then
changes the stored record without a save. `cli` is the set of sessions the two CLIs
hold. `backend` stands for every field that an edit changes. `stale` is a history
variable: the writers whose copy misses a write made since they read it.

`Capped` drops the oldest entries over `MaxHistory` (200 in the code) when a turn
completes, and at no other time; an answer dropped so is gone from `store.json`. The
prompt text is abstracted away. Telegram turns are never interactive, as in the code.

### Projects

`convs[n][i]` is record `i` of project `n`, reduced to who made it and to its
`parent` and `child` links. `HandleScheduledTask` is several actions, because it
locks the store for each of its calls: choosing the project, `NewConversation`, the
check of the project, the status, the run, `makeContinuation` (which creates the
next record and links it in two steps), the second run, the save and the status at
the end. A turn carries the IDs of its `series`. `!project add/remove/switch` and
`!chat new/clear/switch` are actions on the same records. `Prune` is `runPrune`, which a
goroutine of `main.go` calls after a start and then daily: it may come at any moment,
between the steps of a turn too, and takes any set of old records it does not protect (a
record is never used later than the one it continues). `lost` is history: the IDs whose
record went under a turn that still works on it, by a removed project or by pruning.
The second takes a turn as long as the limit, which is in days; `timeout_minutes` has no
upper bound, so the model has it. `Restart` ends turns and statuses and keeps
the store, which every change writes at once. `Topics` is `webTopicsForProject`: series
by their root, as a browser lists them. `MaxId` bounds the IDs: a creation beyond it is
left out. `MaxEvents` bounds commands, prunings and restarts together.

### InteractiveSession

`pc` is where each call of `Run` stands: `idle`, `found` (a session to use),
`booted` (spawned, not yet inserted), `typing` (queued), `done`. `registered` is the
entry of `r.sessions`. Output is its length, so a reply is an interval of it.
`watching` says whether `watch` waits for silence or arms the next head; the two
seconds of silence and the time limit are choices that may come at any moment
output allows. `closing` is the mark `reapIfIdle` sets with the session's lock held;
`doomed` are sessions that some goroutine has taken out and will `stop()`. `Dies` is
a process that ends by itself.

### Channels

A turn makes the calls of its plan one after the other: its input to the other side,
`typing`, texts, and `done` twice, as `runWorker` returns and as its caller does
(`Worked`); a turn that is refused before it works has no `typing` (`Refused`). Beside it
runs `runHeartbeat`: `Tick` and `TickText` are its `Typing` and `Send`. Nobody waits for
that goroutine, so a tick may come after the last `done`, and switch on an indicator no
frame will switch off again. A call copies the list of channels (`left`) and reaches them
in the order of the list, Telegram first (`NextIn`); each is a step of its own, so channels
register and leave between them, and Telegram's step may never come: the request is made
inside the Hub's loop by a client without a time limit (`main.go:271`). `Push` onto a full
buffer cancels the connection, as `remoteChatChannel.push` does. The browser (external)
shows an indicator from `typing` to `done`, connects again when its connection is gone
and asks `get_active_workers`, whose answer replaces its indicators.

### ConfigReload

The configuration is reduced to a field whose hook is slow (it sends messages:
`screen_control` with `keep_awake`), one whose hook follows it (`backend`) and the
tokens. `Edit` is an editor outside, `SaveForm` and `SaveText` the browsers' saves,
which write in two steps (`os.WriteFile` truncates first). `Fire` is the timer's
goroutine: load, `SetLive`, `LookAwake`, `TurnAwake`, `Rehost`, each a step, for each
reload that runs. `Mask` and `Restore` are `configsecret.go`'s masking and its
reverse, with the order in which it looks a sentinel's owner up. `crossed` and
`missed` are history: what `Settled` excludes.

### Handover

A process is `killing` (the previous one), `starting`, `loaded` (`store.Load` done),
`scheduling`, `waiting` (for the old one's exit), `polling`, `gone` or `lost` (exited
in a way the service does not notice). Telegram delivers from its offset (`acked`)
whatever a poll asks for again, so a message may be taken twice; `taken` says by
whom. `handleUpdate` starts a child, waits for its ready file and exits, or gives it
up after its time-out. `Conflict` is Telegram's answer to two polls, after which
`Run` ends the process. `lingering` is a poll of a dead process that Telegram still
holds. `MaxFaults` bounds deaths, conflicts and time-outs together.

## What is checked

| Run | Properties | Shows |
|---|---|---|
| `dispatch` | `InOrder`, `LoadIsExact`, `HandsOver`, `CapRespected`, `ImplementsService` | the dispatcher under a cap moved between 1 and 3: order, load, slots, and the refinement with its liveness |
| `dispatch_interactive` | `TypeOK`, `BooksSound`, `NothingDropped`, `CancelSparesBacklog`, `NeverRestarted`, `EventuallyAnswered` | interactive and ordinary conversation at one slot, with `!cancel` |
| `sched_commands` | `NoGhostEntry`, `NoStuckOneShot`, `OneFirePerArming`, `NeverRemovedUnfired` | all commands against all timers, with a crash |
| `sched_chain` | `OneShotServed` | a deferred one-shot is served |
| `conversation` | `TypeOK`, `OneProcessPerSession`, `AnswersKept`, `TurnsEnd` | the telegram stream: compaction, edits, recoveries, a history at its cap, crash |
| `web_turns` | `OneEntryPerTurn`, `SavedSessionLives` | overlapping web turns while the conversation is edited, deleted, recreated |
| `projects` | `TopicsWhole`, `RecordsKept`, `LineageKept` | scheduled turns beside `!project` and `!chat`, pruning and restarts at any moment: no record of another is overwritten, the active series survives pruning, the browser's topics partition the records |
| `workers_listed` | `ListedRuns` (violated) | finding: a turn that was split leaves its first conversation listed as working |
| `interactive_session` | `RepliesDisjoint`, `ReapSparesTurns`, `NoOrphan`, `QueueMoves` | two turns on one session with reaper, `Close` and a dying process |
| `channels` | `Separate`, `NoGap`, `TurnsGetOut`, `IndicatorClears` | a telegram and a web turn with their heartbeats, a Telegram that may not answer, a browser that is slow and reconnects |
| `config_reload` | `OnlyValid`, `Settled`, `SecretsKept` | edits, saves, switches and crashes with overlapping reloads |
| `handover` | `Alone`, `NoneSkipped`, `AnswersCarried`, `Served` | an update and a message, four processes, two faults |

Bounds. `dispatch` has four messages in three lanes and caps 1..3: two in one lane
make a queue, three lanes compete for one slot, and a cap of 3 leaves none waiting.
`dispatch_interactive` has three messages in the interactive lane (one queued, one
steered, one more to overtake or be dropped) and one in a competing lane at cap 1.
The scheduler runs have two tasks, three goroutines (a timer, its replacement and a
tick), two commands, two ticks and a crash: the races it is exposed to take two
commands around one firing. The conversation runs have two turns, two edits, one
loss of the sessions and (telegram) one crash: a stale copy needs one turn and one
edit, a session pinned wrongly shows in the second turn. In `conversation`
`MaxHistory` is 1, so that the second turn finds the history full and drops an answer; in
`web_turns` it is 2, so that a turn written twice would show. `projects` has two turns,
two projects of three records and two events (commands, prunings, restarts): a series of
two beside another conversation, removed and registered again, or pruned between the
steps that create and link it. `interactive_session` has two
turns (a race, a queue of two) and two pieces of output per process (one each, or
two for one). `channels` has two connections (one that breaks, one after it), a
buffer of one (any second frame or answer overflows it; the code's 64 differ in when it is
full only) and ten calls: a turn that works beside one that is refused, or with two ticks
of its heartbeat. `config_reload` has three
changes and two reloads at once (an overlap, and a change after it); `handover` four
processes (old, its child, what the service starts, one more) and two faults (a
failure while another is handled). `MaxCommands`, `MaxTicks`, `MaxCrashes`,
`MaxEdits`, `MaxLosses`, `MaxId`, `MaxEvents`, `MaxCalls`, `MaxOutput`, `MaxFaults`, `Jobs`,
`Reloads`, `Conns` and `Instances` are the only bounds the models add. Deadlock is
not checked: every run ends when its messages, edits and crashes are used up.

Fairness. `Dispatch`: a spawned goroutine runs, and a turn ends because `runTurn`
gives it a deadline. New messages, reloads and commands are never assumed.
`Scheduler`: `Run` is called, timers elapse, goroutines take the lock, a pre-check
ends by its deadline. `Conversation`: a turn takes `telegramMu` when it is free,
its CLI run ends by the deadline, it replies. `!compact` has no deadline
(`context.Background()`, `bot.go:726`), so nothing is assumed of it and `TurnsEnd`
says that turns end unless `!compact` holds the lock for ever. `InteractiveSession`:
`watch` ticks, a goroutine that will `stop()` a session does, a turn that found a
session submits; the CLI need not answer, because `watch` has a time limit.
`Channels`: a turn that started calling goes on, except in a request to Telegram, of which
nothing is assumed (the code gives it no time limit), and nothing is assumed of a
heartbeat; the server drops a cancelled connection, a writer writes while the connection is open and the browser polls by
its timer, and it connects again while it can (a bounded number of times); it need not read
fast, since a disconnection is always possible. `Handover`: the service
starts what it shall restart (systemd), a process goes through its start, waits for
its predecessor and handles what it took; that new messages or updates come is not
assumed. The abstract service
promises strong fairness for a waiting conversation; the dispatcher gives it with
weak fairness of its goroutines only, because its ready list is first come, first
served.

`TypeOK` is a property of the runs `dispatch_interactive` and `conversation`; in every
module it is a conjunct of the invariant that is proved below.

## What is proved

All theorems hold for every value of the constants that the module's named
assumption (`DispatchAssumption`, `SchedulerAssumption`, ...) allows. Two state what
they need besides: `Refinement` and `LoadExact` assume `ServiceAssumption` (no
conversation is interactive, no cap exceeds `Slots`), and `LoadExact`, which counts
messages, that there are finitely many.

The named assumptions say that bounds are numbers, that model values for "nothing" are
none of the things they stand beside, and what the code fixes: a lane per
conversation, a web conversation's ID is 1 or more (`nextConvID`), the stream is not
interactive. `Conversation` has finitely many turns and conversations, because
`newUUID` (`util.go`) is a session that no record, copy or CLI holds (`Fresh`): with
random 128-bit numbers a collision is left out, as the code leaves it out.

| Module | Theorem | Statement |
|---|---|---|
| `DispatchProofs` | `Invariance` | `Spec => []IndInv` |
| | `Typing`, `Books`, `Wakeups`, `SlotBooks` | `TypeOK`, `BooksSound`, `NoLostWakeup`, `SlotAccounting` |
| | `Kept`, `Order`, `NoRestart` | `NothingDropped`, `InOrder`, `NeverRestarted` |
| | `CancelSafety`, `Cap`, `Handover` | `CancelSparesBacklog`, `CapRespected`, `HandsOver` |
| | `Refinement` | `ImplementsSafely`: `Spec => Service!SafeSpec` |
| | `LoadExact` | `LoadIsExact` |
| `SchedulerProofs` | `Invariance` | `Spec => []IndInv` |
| | `Entries`, `Timers` | `NoGhostEntry`, `NoStuckOneShot` |
| | `FiresOnce`, `RemovedAfterFiring` | `OneFirePerArming`, `NeverRemovedUnfired` |
| `ConversationProofs` | `Typing`, `Exclusion`, `EntryPerTurn` | `TypeOK`, `OneProcessPerSession`, `OneEntryPerTurn` |
| | `Durability`, `SessionSaved` | `AnswersKept`, `SavedSessionLives` |
| `ProjectsProofs` | `Typing`, `Topical` | `TypeOK`, `TopicsWhole` |
| | `NoOverwrite`, `Lineages` | `RecordsKept`, `LineageKept` |
| `InteractiveSessionProofs` | `Invariance` | `Spec => []IndInv` |
| | `Disjoint`, `ReaperSpares`, `Owned` | `RepliesDisjoint`, `ReapSparesTurns`, `NoOrphan` |
| `ChannelsProofs` | `Invariance` | `Spec => []IndInv` |
| | `Separation`, `NoGaps` | `Separate`, `NoGap` |
| `ConfigReloadProofs` | `Invariance` | `Spec => []IndInv` |
| | `Validity`, `RoundTrips` | `OnlyValid`, `SecretsKept` |
| | `Typing`, `Settles` | `TypeOK`, `Settled` |
| `HandoverProofs` | `Invariance` | `Spec => []IndInv` |
| | `OnePolls`, `NothingSkipped`, `Carries` | `Alone`, `NoneSkipped`, `AnswersCarried` |

In every module each action is one lemma that keeps the invariant, and the properties
follow from it (`Invariance`, or the lemma of that kind in `ConversationProofs` and
`ProjectsProofs`).

**Dispatch.** The invariant is `TypeOK /\ BooksSound`. None of the single properties is
inductive. That a slot freed is not lost (`SlotAccounting`) needs that `readyLanes`
holds exactly the idle lanes, once each (`NoLostWakeup`), or `scheduleLocked` would
start a lane twice. That a finished turn pops the right message needs
`QueueSound` (the head of a lane's queue is the turn that runs, unless it was
steered), `TurnSound` (where a message is follows from its stage) and `LaneSound`
(`inFlight` counts the turns in flight). Order needs `FifoSound`: the queue of an
ordinary lane is the unanswered suffix of what arrived. Framing lemmas (`LaneFrame`,
`FifoFrame`, `BooksFrame`) deal with the lanes an action leaves alone, and `PopReady`
says what `scheduleLocked`'s loop does. The refinement maps each lane to a conversation
with its log, the number answered (log less queue) and whether a turn is active;
`StepMaps` gives each action its step or stutter, and `SlotBound` says that a lowered cap
leaves no more than `Slots` running. `LoadExact` is a count: `dispatchLoad` adds up lengths of
queues, less the head of a lane that runs, and `LoadCounts` shows the places so counted to
be in one-to-one correspondence with the queued messages (`WaitingPlaces`: a place holds
a message no turn has started for exactly if it is not that head).

**Scheduler.** The invariant is `TypeOK`, the two registration properties, what is
known of firing (`SavedInv`, `RemovingInv`, `NeverRemovedUnfired`) and what is known of
the goroutines (`Quietness`, `NeverFired`, `OneFirePerArming`). `register` overwrites
whatever its maps held, so it is right only from a clean start (`Clean`: no entry, no
channel, no armed timer of the task); that `AddTask` and `ResumeTask` have one follows
from the registration properties (`CleanNow`), that `UpdateTask` and a deferral have
one from `deregister` (`CleanAfter`). `RegisterInd` and `DeregisterInd` are then stated
once. `RemovedAfterFiring` needs `RemovingInv` (a goroutine about to remove a task has
handed it out) and, across a crash, `SavedInv`. `FiresOnce` counts the goroutines that may
still hand a task out (`Live`) and uses finite cardinalities: a deferral ends one and
starts one, a registration adds one and is counted. `Jobs` is assumed finite.

**Conversation.** The invariant has four parts beside the types. `Places` says who has a
copy. `Mutual` is the lock (a running turn of the stream and a running `!compact` hold
`telegramMu`) and the lanes (turns of one conversation overlap only where it is
`Steered`). `Contents` quantifies over every place a record can be: memory, disk and the
copies of turns, `!compact` and an edit (`HeldOf`). Two conversations never hold the same
session (`Apart`), or two processes could meet on one although their turns are
serialised; a history has a turn once, of its own conversation, and as answered only if
it was (`Whole`), in stale copies too, since any of them may be written back. `Answers`
is for `AnswersKept`: memory and disk have the same histories, and a copy that is not
stale has that history too (`Kept`); a running turn's copy ends with its pending prompt
(`Pending`); a record that a turn shares with the store has its copy's history
(`Shared`), so that a continuation that changes it without a save adds no answer. A turn
that saves such a copy completes its last entry and drops the oldest over `MaxHistory`
(`CappedParts`, `CappedAnswers`): the exception `Outgrown` of `AnswersKept`. `PlacesKeep` says once what a step may do to the places: each keeps its copy,
drops it, takes the one in memory or on disk, or one conversation gets a new one;
`Apart` and `Whole` then need a look at the new record only. With overlapping turns
`EntryPerTurn` is the theorem that retries, recoveries and edits of copies write a turn
into a history once.

**Projects.** `Placed` says what a turn's stage says of its project and series; `Owns`,
that each record of the series that is not `lost` is there, made by this turn, different
from the others, and the first has no parent. A removed project or a pruning that takes a
record a turn works on makes it `lost`, so `Owns` holds beside both. `RecordsKept` follows,
as a turn writes to records of its own that are not lost, and `nextConvID`, the largest ID
and one, is unused (`NextIdFacts`). Pruning is a step like any other, beside turns; what it
must spare is the active series (`LineageKept`). The code
climbs from child to parent in two loops, and the model has them as recursive functions
over `0..MaxId` (`Protected`, `Climb`). Their values are reached by `Induct`, induction
over `0..M` for a set in place of a predicate, and `Iterates`, that the iterated
function exists. `ProtectedLineage` then says the loop of pruning reaches every record the
active conversation goes back to: the records climbed are different until the chain
ends, so `MaxId` steps are enough. `RootIsEnd` and `ParentRoot` say that a record and its
parent climb to the same root, which is what makes `Topics` a partition. A circle of
records, on which the climb would not end, is the exception that `TopicsWhole` states.

**InteractiveSession.** Its parts are who owns a process (`RunnerInv`:
`Known`, a session that is not inserted yet is known to nobody; `StopCause`, one is stopped
because the runner is closed, the reaper took it or another was inserted first; `HasSession`;
and `NoOrphan`, its own conjunct), the queue
(`QueueInv`: `Queued`, the turns of the session once each and only the head armed;
`Closed`, a session being reaped has an empty queue) and the replies (`ReplyInv`: `Armed`,
only a head is armed and no later than the output; `Replied`, what was answered lies before
the start of any turn still queued; and `RepliesDisjoint`, `ReapSparesTurns`).
`RepliesDisjoint` is kept because of `Replied` when a reply is cut.

**Channels.** `NoGap` needs to know what is still to be seen. The turn's own calls are
numbered; its heartbeat's have number 0. `Gapless` says, for every open connection and
turn, that the turn's numbered calls in the buffer are those after the last one seen, in
order and complete, up to the last call that is not behind this connection (`Waiting`,
`Complete`). A push appends the next call (`OneMoreCall`), a write takes the first
(`HeadGone`), a heartbeat's frame or another turn's is another item (`OtherItem`), and
anything else leaves the turn's calls alone (`Untouched`). `Silent` says a closed
connection's buffer is read by nobody, `Routed` that a turn or its heartbeat reaches
Telegram only from the stream; `Separate` needs it and is then inductive. `TelegramInd` and
`PushInd` state once what a call to Telegram and a push to a browser have to show, for
turns and heartbeats alike, and `BufferInd` the same of any step that changes one open
connection.

**ConfigReload.** Its parts are types (`ConfigTypes`), `OnlyValid`, `LoadedValid` (what a
reload has read and will make live is valid) and `SecretsSound`: the `web_chat` token is the
same in every configuration that is live, in the file, being written or loaded, and is not
the sentinel; an `aglink_chat` token that was left as the sentinel occurs only where there
is no `web_chat` token. `RoundTrips` needs it to know whose token a sentinel stands for.
`Settled` speaks of quiet moments only, so it has an invariant of its own (`Settling`) for
the moments between: how far a reload that runs alone has brought its effects, stage by
stage (`Staged`), that what it loaded or made live is what the file holds unless the timer
runs (`Followed`), and that a keep-awake loop runs exactly if it can be stopped.

**Handover.** Its parts are what Telegram was told (`MessageInv`: `NoneSkipped`, `Passed`:
a message a process has passed was taken), the stores (`StoreInv`: `Takers`, only processes
that polled have messages; `Carried`, the file and every loaded process know what was saved
in time) and the processes (`ProcessInv`: `Pairs`, two working processes are a polling one
and its child; `Few`, one at most is left when the service starts the next; `Named`, the PID
file names the polling process; `Awaited`, a waiting child waits for it). `Alone` follows
from the last: a child polls only after its parent is gone.

Only model-checked: liveness (`EventuallyAnswered`, the fairness in
`ImplementsService`, `OneShotServed`, `TurnsEnd`, `QueueMoves`, `TurnsGetOut`,
`IndicatorClears`, `Served`), which is out of the prover's reach, as `ENABLED` is.
No module uses a `RECURSIVE` operator; what loops compute is a recursive function or,
for the lineage a property speaks of, the least set closed under `parent`.

## Where the code and its documentation part

Checked, with a counterexample in the run named:

- `workers_listed`: after a context overflow `runWorker` goes on with the
  continuation's ID (`manager.go:1228`); a scheduled turn's first conversation keeps the
  status `running` given at `manager.go:1051` until the process restarts, and
  `get_active_workers`, "the authoritative answer to 'is this conversation still
  working?'" (`chatcontrol.go:214`), goes on listing it.

Seen in the models, not kept as runs:

- A message steered to an interactive lane overtakes the lane's backlog (`bot.go:442`
  against `bot.go:68-69` and `427-428`). `InOrder` is stated of conversations that were
  never interactive.
- `fire` does not look again after its pre-check: a task cancelled meanwhile is
  handed out (`scheduler.go:207`).
- A telegram turn takes its copy before the lock, so one that waited for `!compact`
  undoes it (`manager.go:385`, `406` against `454-455`).
- An edit writes whole records back, and with them the history it read before an answer
  was saved (`bot.go:2328`, `manager.go:1308-1320`). `AnswersKept` excludes writers
  whose copy is stale.
- The other direction: the save at the end of a turn writes away a title or folder that
  changed while it ran.

Turns and conversations:

- `dispatchLoad` reports one message too few for an interactive lane whose queued
  turn ended before a steered one (`bot.go:499`), and several cancel functions can
  match one lane, against `bot.go:822-823`.
- `max_workers: 0` passes validation (`config.go:272`); lanes then wait until a
  message arrives after the cap was raised, since `applyReload` schedules nothing.
- The prompts of `!parallel` all go to the telegram lane and run one after another
  (`bot.go:2108` against `2076`).
- After `!compact` the telegram conversation has an empty session ID: the next claude
  turn runs with `--session-id ""` and those after it with `--resume ""`
  (`manager.go:510`, `runner.go:103-105` against `types.go:74`).
- A web conversation deleted while its turn runs is stored again by that turn, over a
  new conversation if `nextConvID` gave its ID away (`store.go:225-235`).
- The run after a context overflow is not checked for an expired token
  (`manager.go:1254-1276`).
- Overlapping turns of one interactive conversation share one worker status: the first
  that ends clears it for both.

Scheduler and projects:

- `ResumeTask` revives cancelled tasks (`scheduler.go:265` against `276`).
- A dependency counts as complete once it was handed out (`scheduler.go:221` against
  `types.go:178`); two tasks may depend on each other (`scheduler.go:323`).
- A one-shot updated to a cron schedule while it fires is removed by the goroutine
  that fired it (`scheduler.go:144`), and one updated or resumed in that window may
  fire again.
- `nextConvID` takes the largest ID and one, where its comment says the smallest
  unused. After a project is removed and registered again the IDs start at 1: a turn that
  runs meanwhile can link its series into a circle, on which `chainInfo`, which has no
  guard, does not end. `TopicsWhole` and `RecordsKept` exclude that case.
- `HandleScheduledTask` uses a project that may have been removed since it was looked
  up; the panic is recovered and the turn is lost.

Interactive sessions:

- `submit` arms an idle queue's turn at once, and `TickNext` arms the head again, where
  the comment at `runner_conpty_windows.go:442-444` says the tick skips it; what came
  between is in no reply.
- The late output of a turn that timed out goes to the next turn's reply, and a turn
  whose prompt could not be written stays queued and may receive another's. So replies are
  disjoint, but a reply need not be the answer to its prompt.
- A session whose process died stays registered until it is reaped; turns that come
  meanwhile fail or time out.

Channels:

- "One dead channel never blocks the others" (`hub.go:34-35`) holds of browsers. A
  Telegram request has no time limit (`main.go:271`) and is made in the fan-out: one that
  hangs holds up the turn and the browsers behind it. `TurnsGetOut` excepts such turns.
- Nobody waits for the heartbeat goroutine (`manager.go:882`, `953`): its `Typing` may
  follow the turn's `Done` and set the browser's indicator again, until the next poll.
- `get_active_workers` may be answered between a turn's `Typing` and its `SetStatus`; the
  browser then clears an indicator of a turn that runs, until the next poll.

Configuration:

- `timer.Stop` does not wait for a reload that runs, and two may overlap: the backend may
  then differ from the live configuration, and `syncKeepAwake` races with itself on its
  stop function (a loop that nothing stops, or a call of nil that ends the process).
- An edit between the first load and the watch is not noticed until the next.
- `os.WriteFile` truncates first: a crash in a save leaves an empty `config.yaml`.
- The settings form writes from the live configuration, and loses an edit of the file
  that is still waiting for its timer.
- A token of `aglink_chat` equal to that of `chat_control` is masked, but given back as
  `web_chat`'s or left as the sentinel (`configsecret.go:47`); a sentinel also stays
  when its secret was removed from the file meanwhile.
- The YAML loader accepts `timeout_minutes` and `max_workers` of 0 or less, the older
  `config.txt` loader does not.

Processes:

- After a hand-over the new process is not systemd's: the service is in state exited, and
  the comment at `bot.go:321-323` ("Exit so systemd restarts us") does not hold of
  it. Its later death is `lost`, the exception in `Served`.
- Both schedulers run during a hand-over, and answers that the old process saves after the
  new one read `store.json` are lost (`late`, the exception in `AnswersCarried`).
- The `!update` message that hands over is never acknowledged; it is redelivered to the
  new process and answered with the refusal "rename not complete" or with one more update.
- `killPreviousInstance` kills the process of the PID file only. The model leaves out a
  service restart inside `RestartSec` of an update; a SIGKILL of a slow old process would
  make systemd restart it and kill the new one.
- `UserStore.persist` writes outside its mutex, so two changes may reach the file in the
  other order.

## Not modelled

The language model's routing decision, prompt building, formatting and chunking,
argument files, history and log files, attachments, first-run setup and
operating-system services: pure I/O or formatting, with no state that outlives a
call. The child web server's supervision and the builds of an update are sequences of
external commands. The parser of NDJSON streams and the channels that drop progress
when full change only what is displayed. The rate limiter and the user list are
sequential under one mutex each. `PROJECT.json` lists them as components with the reason.

What remains for later work: a composition of `Dispatch` with
`InteractiveSession`, so that steered turns come from the lane that runs them; pure
functions (message chunking, history tails, the rate limiter's window) against
reference definitions.
