------------------------------ MODULE Channels ------------------------------
(***************************************************************************)
(* The output of turns on its way to Telegram and to browsers (hub.go, the *)
(* senders of bot.go, chatcontrol.go) and the working indicator a browser  *)
(* keeps from it (worker_status.go, get_active_workers).                   *)
(*                                                                         *)
(* A turn, and the heartbeat beside it, call the Hub for every frame; the  *)
(* Hub copies the list of channels and sends to one after the other,       *)
(* Telegram first.  A browser's connection buffers frames and replies for  *)
(* one writer and is closed when the buffer is full; Telegram may take for *)
(* ever to answer.  The browser (aglink-chat, external) connects again and *)
(* polls.                                                                  *)
(***************************************************************************)
EXTENDS Naturals, Sequences, FiniteSets

CONSTANTS Turns,
          Stream,    \* the telegram stream; other targets are web topics
          TargetOf,  \* the conversation each turn belongs to
          Telegram,  \* the global channel
          Conns,     \* bound: the connections the browser makes
          Capacity,  \* of remoteChatChannel.send (64)
          MaxCalls   \* bound: calls of all turns and heartbeats

ASSUME ChannelsAssumption ==
    /\ Conns \subseteq Nat
    /\ Telegram \notin Conns /\ Capacity \in Nat \ {0} /\ MaxCalls \in Nat

VARIABLES
    turn,      \* each turn: its plan, calls made, channels the last has to reach, origin
    beat,      \* each turn's heartbeat: its last call, channels that has to reach
    calls,     \* those that turns and heartbeats are to make
    perChat,   \* the registered connections
    conn,      \* each connection: "none", "open", "cancelled", "gone"
    buffer,    \* its send channel
    polled,    \* get_active_workers asked and not answered
    listed,    \* conversations with a worker status "running"
    shows,     \* the browser's working indicators
    seen,      \* the last own call of each turn the browser got over each connection
    relayed    \* messages Telegram got

connVars == <<perChat, conn, polled>>
browserVars == <<shows, seen>>
vars == <<turn, beat, calls, connVars, buffer, listed, browserVars, relayed>>

Targets == {TargetOf[t] : t \in Turns}

(* What a turn calls: its input to the other channel, typing, texts        *)
(* (header, progress, chunks; the last once its status is over), done as   *)
(* runWorker returns, and as its caller does.  A turn refused before it    *)
(* works has no typing.                                                    *)
Worked == <<"echo", "typing", "text", "text", "done", "done">>
Refused == <<"echo", "text", "done", "done">>
Plans == {Worked, Refused}
Kinds == {"echo", "typing", "text", "done"}
Origins == {"telegram", "web"}

(* Call no of turn t, 0 for its heartbeat's; an answer to a poll.          *)
Frame(t, no, kind) == [turn |-> t, no |-> no, kind |-> kind]
Answer(convs) == [workers |-> convs]
IsAnswer(f) == "workers" \in DOMAIN f

Kind(t) == turn[t].plan[turn[t].called]
Own(t) == Frame(t, turn[t].called, Kind(t))
Ended(t) == turn[t].called = Len(turn[t].plan) /\ turn[t].left = {}
Idle == [kind |-> "text", left |-> {}]
NothingSeen == [t \in Turns |-> 0]

Init ==
    /\ turn = [t \in Turns |-> [plan |-> Worked, called |-> 0, left |-> {}, origin |-> "none"]]
    /\ beat = [t \in Turns |-> Idle] /\ calls = 0
    /\ perChat = {} /\ conn = [c \in Conns |-> "none"]
    /\ buffer = [c \in Conns |-> <<>>] /\ polled = {}
    /\ listed = {} /\ shows = {}
    /\ seen = [c \in Conns |-> NothingSeen] /\ relayed = {}

-----------------------------------------------------------------------------
(* The context of a connection is cancelled: its writer writes no more and *)
(* the browser learns nothing over it.                                     *)
Cancel(c) ==
    /\ conn' = [conn EXCEPT ![c] = "cancelled"]
    /\ buffer' = [buffer EXCEPT ![c] = <<>>]
    /\ polled' = polled \ {c}
    /\ seen' = [seen EXCEPT ![c] = NothingSeen]

Buffered(c, f) ==
    /\ buffer' = [buffer EXCEPT ![c] = Append(@, f)]
    /\ UNCHANGED <<conn, seen>>

(* Mistaken: a full buffer drops the frame.                                *)
PushDropping(c, f) ==
    IF Len(buffer[c]) < Capacity THEN Buffered(c, f) /\ UNCHANGED polled
    ELSE UNCHANGED <<buffer, conn, polled, seen>>

(* Mistaken: the writer is waited for, one that has ended too.             *)
PushWaiting(c, f) ==
    conn[c] = "open" /\ Len(buffer[c]) < Capacity /\ Buffered(c, f) /\ UNCHANGED polled

(* remoteChatChannel.push: a full buffer closes the connection.  What goes *)
(* to one that is closed stays in a buffer nobody reads.                   *)
Push(c, f) ==
    IF conn[c] # "open" THEN UNCHANGED <<buffer, conn, polled, seen>>
    ELSE IF Len(buffer[c]) < Capacity THEN Buffered(c, f) /\ UNCHANGED polled
    ELSE Cancel(c)

(* Mistaken: every channel, whatever the target.                           *)
ReachesAll(t) == {Telegram} \cup perChat

(* Hub.targets: a copy of the list; Telegram for the stream only.          *)
Reaches(t) == (IF TargetOf[t] = Stream THEN {Telegram} ELSE {}) \cup perChat

(* Bot.Run, or handleInbound with a goroutine for every message, so in any *)
(* order; then dispatchText or dispatchTargeted.  A web topic is addressed *)
(* from the web only.                                                      *)
Begin(t) ==
    /\ turn[t].called = 0
    /\ \E o \in Origins, p \in Plans :
          /\ TargetOf[t] # Stream => o = "web"
          /\ turn' = [turn EXCEPT ![t] = [plan |-> p, called |-> 1, left |-> Reaches(t), origin |-> o]]
          /\ calls + Len(p) <= MaxCalls /\ calls' = calls + Len(p)
    /\ UNCHANGED <<beat, connVars, buffer, listed, browserVars, relayed>>

(* The next call of the turn, once its last one has reached every channel. *)
Calls(t) ==
    /\ turn[t].called \in 1..(Len(turn[t].plan) - 1) /\ turn[t].left = {}
    /\ turn' = [turn EXCEPT ![t].called = @ + 1, ![t].left = Reaches(t)]
    /\ UNCHANGED <<beat, calls, connVars, buffer, browserVars, relayed>>

(* Mistaken: the status of a turn that is over stays running.              *)
CallUnended(t) ==
    /\ Calls(t)
    /\ listed' = IF Kind(t) = "typing" THEN listed \cup {TargetOf[t]} ELSE listed

(* The status becomes running after typing, and goes before the last text. *)
Works(t) == turn[t].plan = Worked
Call(t) ==
    /\ Calls(t)
    /\ listed' = CASE Works(t) /\ turn[t].called = 2 -> listed \cup {TargetOf[t]}
                   [] Works(t) /\ turn[t].called = 3 -> listed \ {TargetOf[t]}
                   [] OTHER -> listed

(* What Telegram is asked for, by a request that has no limit of time.     *)
Asked(f) == f.kind \in {"typing", "text"} \/ (f.kind = "echo" /\ turn[f.turn].origin = "web")

(* telegramChannel: of the requests, texts and input typed in a browser    *)
(* are messages.                                                           *)
Relays(f) ==
    relayed' = IF Asked(f) /\ f.kind # "typing" THEN relayed \cup {f} ELSE relayed

(* remoteChatChannel: everything, but input typed in a browser.            *)
Sends(c, f) ==
    IF f.kind = "echo" /\ turn[f.turn].origin = "web" THEN UNCHANGED <<buffer, conn, polled, seen>>
    ELSE Push(c, f)

Reached(t, ch) == turn' = [turn EXCEPT ![t].left = @ \ {ch}] /\ UNCHANGED <<beat, calls>>

(* The Hub's loop: Telegram, and once it has answered the connections, in  *)
(* the order they were registered in.                                      *)
NextIn(left, c) == c \in left /\ Telegram \notin left /\ \A d \in left : c <= d

ToTelegram(t) ==
    /\ Telegram \in turn[t].left /\ Reached(t, Telegram)
    /\ Relays(Own(t))
    /\ UNCHANGED <<connVars, buffer, listed, browserVars>>

ToConn(t, c) ==
    /\ NextIn(turn[t].left, c) /\ Reached(t, c)
    /\ Sends(c, Own(t))
    /\ UNCHANGED <<perChat, listed, shows, relayed>>

-----------------------------------------------------------------------------
(* runHeartbeat, beside a turn that works: each tick a typing and a text.  *)
(* Nobody waits for it, so a tick may come, or go on, as late as it likes. *)
Pulse(t) == Frame(t, 0, beat[t].kind)

Tick(t) ==
    /\ Works(t) /\ turn[t].called >= 3
    /\ beat[t] = Idle /\ calls + 2 <= MaxCalls /\ calls' = calls + 2
    /\ beat' = [beat EXCEPT ![t] = [kind |-> "typing", left |-> Reaches(t)]]
    /\ UNCHANGED <<turn, connVars, buffer, listed, browserVars, relayed>>

TickText(t) ==
    /\ beat[t] = [kind |-> "typing", left |-> {}]
    /\ beat' = [beat EXCEPT ![t] = [kind |-> "text", left |-> Reaches(t)]]
    /\ UNCHANGED <<turn, calls, connVars, buffer, listed, browserVars, relayed>>

BeatReached(t, ch) == beat' = [beat EXCEPT ![t].left = @ \ {ch}] /\ UNCHANGED <<turn, calls>>

BeatToTelegram(t) ==
    /\ Telegram \in beat[t].left /\ BeatReached(t, Telegram)
    /\ Relays(Pulse(t))
    /\ UNCHANGED <<connVars, buffer, listed, browserVars>>

BeatToConn(t, c) ==
    /\ NextIn(beat[t].left, c) /\ BeatReached(t, c)
    /\ Sends(c, Pulse(t))
    /\ UNCHANGED <<perChat, listed, shows, relayed>>

-----------------------------------------------------------------------------
(* handleControl: a connection is accepted and registered; the browser has *)
(* one that it knows to be open.                                           *)
Connect(c) ==
    /\ conn[c] = "none" /\ \A d \in Conns : (d < c => conn[d] \notin {"none", "open"})
    /\ conn' = [conn EXCEPT ![c] = "open"] /\ perChat' = perChat \cup {c}
    /\ UNCHANGED <<turn, beat, calls, buffer, polled, listed, browserVars, relayed>>

(* The browser handles a frame: typing and done switch the indicator of a  *)
(* conversation, an answer switches off those it does not list.            *)
Handles(c, f) ==
    IF IsAnswer(f)
    THEN shows' = shows \cap f.workers /\ polled' = polled \ {c} /\ UNCHANGED seen
    ELSE /\ shows' = CASE f.kind = "typing" -> shows \cup {TargetOf[f.turn]}
                       [] f.kind = "done" -> shows \ {TargetOf[f.turn]}
                       [] OTHER -> shows
         /\ seen' = [seen EXCEPT ![c][f.turn] = IF f.no = 0 THEN @ ELSE f.no]
         /\ UNCHANGED polled

(* The writer, one for each connection.                                    *)
Write(c) ==
    /\ conn[c] = "open" /\ buffer[c] # <<>>
    /\ Handles(c, Head(buffer[c]))
    /\ buffer' = [buffer EXCEPT ![c] = Tail(@)]
    /\ UNCHANGED <<turn, beat, calls, perChat, conn, listed, relayed>>

(* get_active_workers, answered by the reader from the statuses of now.    *)
Poll(c) ==
    /\ conn[c] = "open" /\ c \notin polled
    /\ \/ /\ Len(buffer[c]) < Capacity /\ Buffered(c, Answer(listed))
          /\ polled' = polled \cup {c}
       \/ Len(buffer[c]) = Capacity /\ Cancel(c)
    /\ UNCHANGED <<turn, beat, calls, perChat, listed, shows, relayed>>

(* The peer is gone, or a write took more than 10 seconds.                 *)
Disconnect(c) ==
    /\ conn[c] = "open" /\ Cancel(c)
    /\ UNCHANGED <<turn, beat, calls, perChat, listed, shows, relayed>>

(* The reader has ended: Unregister.  A call that copied the list before   *)
(* still pushes.                                                           *)
Unregister(c) ==
    /\ conn[c] = "cancelled"
    /\ conn' = [conn EXCEPT ![c] = "gone"] /\ perChat' = perChat \ {c}
    /\ UNCHANGED <<turn, beat, calls, buffer, polled, listed, browserVars, relayed>>

Turn(t) == Begin(t) \/ Call(t) \/ ToTelegram(t) \/ \E c \in Conns : ToConn(t, c)
Heartbeat(t) ==
    Tick(t) \/ TickText(t) \/ BeatToTelegram(t) \/ \E c \in Conns : BeatToConn(t, c)
Server(c) == Connect(c) \/ Unregister(c)

Next ==
    \/ \E t \in Turns : Turn(t) \/ Heartbeat(t)
    \/ \E c \in Conns : Server(c) \/ Write(c) \/ Poll(c) \/ Disconnect(c)

Spec == Init /\ [][Next]_vars

(* A turn that began goes on, except where it asks Telegram; a writer      *)
(* writes or fails, a browser connects and polls while it can.             *)
GoesOn(t) ==
    \/ Call(t) \/ (~Asked(Own(t)) /\ ToTelegram(t))
    \/ \E c \in Conns : ToConn(t, c)
Fairness ==
    /\ \A t \in Turns : WF_vars(turn[t].called > 0 /\ GoesOn(t))
    /\ \A c \in Conns : WF_vars(Server(c)) /\ WF_vars(Write(c)) /\ WF_vars(Poll(c))
FairSpec == Spec /\ Fairness

-----------------------------------------------------------------------------
Frames == [turn : Turns, no : Nat \ {0}, kind : Kinds]
          \cup [turn : Turns, no : {0}, kind : {"typing", "text"}]
TypeOK ==
    /\ turn \in [Turns -> [plan : Plans, called : Nat, left : SUBSET (Conns \cup {Telegram}),
                           origin : Origins \cup {"none"}]]
    /\ \A t \in Turns : turn[t].called <= Len(turn[t].plan)
    /\ beat \in [Turns -> [kind : {"typing", "text"}, left : SUBSET (Conns \cup {Telegram})]]
    /\ calls \in 0..MaxCalls
    /\ perChat \subseteq Conns /\ polled \subseteq Conns
    /\ conn \in [Conns -> {"none", "open", "cancelled", "gone"}]
    /\ buffer \in [Conns -> Seq(Frames \cup [workers : SUBSET Targets])]
    /\ \A c \in Conns : Len(buffer[c]) <= Capacity
    /\ \A c \in Conns : c \in perChat <=> conn[c] \in {"open", "cancelled"}
    /\ listed \subseteq Targets /\ shows \subseteq Targets
    /\ seen \in [Conns -> [Turns -> Nat]] /\ relayed \subseteq Frames

(* "Telegram and web are separate conversation channels", and "fanning to  *)
(* every channel never double-echoes the origin channel": Telegram gets    *)
(* the stream's texts and browsers' input to it; no browser gets back what *)
(* was typed in one.                                                       *)
Separate ==
    /\ \A f \in relayed : TargetOf[f.turn] = Stream
    /\ \A c \in Conns : \A i \in DOMAIN buffer[c] :
          ~IsAnswer(buffer[c][i]) /\ buffer[c][i].kind = "echo"
             => turn[buffer[c][i].turn].origin = "telegram"

(* "drop the slow peer rather than block the Hub": what a browser sees of  *)
(* a turn's own calls over one connection has no gap, however slow it      *)
(* reads and whatever a heartbeat puts between them.  A frame is lost with *)
(* its connection only.                                                    *)
NoGap ==
    [][\A c \in Conns, t \in Turns :
          seen[c][t] # 0 /\ conn'[c] = "open"
             => seen'[c][t] \in {seen[c][t], seen[c][t] + 1}]_seen

(* "one dead channel never blocks the others", as far as it is kept: a     *)
(* turn reaches its end whatever becomes of the connections and of its     *)
(* heartbeat, and stops for ever at nothing but a request that Telegram    *)
(* does not answer; a web topic's turn makes none.                         *)
TurnsGetOut ==
    \A t \in Turns :
        turn[t].called > 0
          ~> (Ended(t) \/ [](TargetOf[t] = Stream /\ Telegram \in turn[t].left /\ Asked(Own(t))))

(* "to correct an indicator that a dropped Done frame would otherwise      *)
(* leave spinning", or that a heartbeat switches on after the last one:    *)
(* once no turn of a conversation is short of the end of its status its    *)
(* indicator goes off, as long as the browser can connect.                 *)
Working(v) == \E t \in Turns : TargetOf[t] = v /\ Works(t) /\ turn[t].called \in 1..3
IndicatorClears ==
    \A v \in Targets :
        v \in shows ~> (v \notin shows \/ Working(v)
                        \/ \A c \in Conns : conn[c] \notin {"none", "open"})
=============================================================================
