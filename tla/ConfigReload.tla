---------------------------- MODULE ConfigReload ----------------------------
(***************************************************************************)
(* config.yaml, the configuration the process runs with, and what follows  *)
(* from it (config.go, config_yaml.go, confighold.go, confighot.go,        *)
(* settings.go, configsecret.go, the reload hooks of main.go).             *)
(*                                                                         *)
(* A change of the file arms a timer (300 ms); the timer's goroutine loads *)
(* the file, swaps the live configuration and calls the hooks one by one,  *)
(* one of them after sending messages.  timer.Stop does not wait for a     *)
(* goroutine that runs, so reloads may overlap.  Browsers write the file   *)
(* too: a form, and the text with its secrets masked.                      *)
(***************************************************************************)
EXTENDS Naturals

CONSTANTS Values,     \* what a secret may be
          NoSecret,
          Sentinel,   \* configSecretSentinel
          Installed,  \* the backends whose CLI was found
          Reloads,    \* bound: reloads at once
          Nothing,
          Initial,    \* the configurations it may start from
          MaxEdits    \* bound: changes of the file and of the backend

(* Of the fields, the slow hook's (screen_control with keep_awake), one    *)
(* whose hook comes after it, and the secrets with the key "token".        *)
Keys == {"web_chat", "chat_control", "aglink_chat"}
Backends == {"", "claude", "codex"}
Secrets == [Keys -> Values \cup {NoSecret, Sentinel}]
Configs == [screen : BOOLEAN, backend : Backends \cup {"other"}, secret : Secrets]
Broken == [screen |-> FALSE, backend |-> "unparsable", secret |-> [k \in Keys |-> NoSecret]]

VARIABLES
    file,      \* config.yaml; Broken when it does not parse
    write,     \* what a browser's save is writing
    editor,    \* the text a browser fetched
    up, watching,
    live,      \* ConfigHolder
    due,       \* the debounce timer runs
    reload,    \* the reloads that run
    keepers,   \* keep-awake loops
    stopper,   \* stopKeepAwake # nil
    active,    \* Manager.backendName
    stored,    \* the backend kept in store.json
    wanted,    \* history: the backend chosen last
    crossed,   \* history: something happened while a reload ran
    missed,    \* history: the file changed before it was watched
    edits

files == <<file, write, editor>>
process == <<up, watching, live, due, reload>>
effects == <<keepers, stopper, active, stored>>
history == <<wanted, crossed, missed>>
vars == <<files, process, effects, history, edits>>

Idle == [at |-> "idle"]
Running == \E r \in Reloads : reload[r] # Idle

(* validate                                                                *)
Valid(c) == c.backend \in Backends

ASSUME ConfigReloadAssumption ==
    /\ Installed \subseteq {"claude", "codex"} /\ Installed # {}
    /\ NoSecret \notin Values /\ Sentinel \notin Values \cup {NoSecret}
    /\ Initial \subseteq Configs
    /\ \A c \in Initial : Valid(c) /\ Sentinel \notin {c.secret[k] : k \in Keys}
    /\ MaxEdits \in Nat

(* chooseBackend                                                           *)
Choose(b) == IF b \in Installed THEN b ELSE IF "claude" \in Installed THEN "claude" ELSE "codex"

Init ==
    /\ file \in Initial
    /\ live = file /\ write = Nothing /\ editor = Nothing
    /\ up = FALSE /\ watching = FALSE /\ due = FALSE
    /\ reload = [r \in Reloads |-> Idle]
    /\ keepers = 0 /\ stopper = FALSE /\ active = Choose("") /\ stored = ""
    /\ wanted = active /\ crossed = FALSE /\ missed = FALSE /\ edits = 0

-----------------------------------------------------------------------------
(* configSecrets, maskConfigSecrets: every occurrence of a secret of the   *)
(* live configuration; aglink_chat's is not among them.                    *)
Masked(c) == {c.secret["web_chat"], c.secret["chat_control"]} \ {NoSecret}
Mask(text, c) ==
    [text EXCEPT !.secret = [k \in Keys |-> IF text.secret[k] \in Masked(c) THEN Sentinel
                                            ELSE text.secret[k]]]

(* Mistaken: the section is not looked at.                                 *)
RestoredKeyless(k, c) == c.secret["web_chat"]

(* restoreConfigSecrets: a masked token outside chat_control is            *)
(* web_chat's, and stays masked when there is none.                        *)
Restored(k, c) == c.secret[IF k = "chat_control" THEN "chat_control" ELSE "web_chat"]
Restore(text, c) ==
    [text EXCEPT !.secret =
        [k \in Keys |-> IF text.secret[k] = Sentinel /\ Restored(k, c) # NoSecret
                        THEN Restored(k, c) ELSE text.secret[k]]]

(* The fields a form edits, one at a time.                                 *)
FormEdits(c) == {[c EXCEPT !.screen = ~@]}
                \cup {[c EXCEPT !.backend = b] : b \in Backends \cup {"other"}}
HandEdits(c) == FormEdits(c) \cup {[c EXCEPT !.secret["chat_control"] = NoSecret], Broken}

(* Mistaken: an event while a reload runs is passed over.                  *)
ChangedUnlessRunning(f) ==
    /\ file' = f /\ due' = (due \/ (watching /\ ~Running))
    /\ missed' = (missed \/ (up /\ ~watching))

(* The file changes; WatchConfig arms the timer.                           *)
Changed(f) ==
    /\ file' = f /\ due' = (due \/ watching)
    /\ missed' = (missed \/ (up /\ ~watching))

(* An editor saves the file by renaming.                                   *)
Edit ==
    /\ write = Nothing
    /\ \E f \in HandEdits(IF file = Broken THEN live ELSE file) : f # file /\ Changed(f)
    /\ edits < MaxEdits /\ edits' = edits + 1
    /\ UNCHANGED <<write, editor, up, watching, live, reload, effects, wanted, crossed>>

(* os.WriteFile empties the file, then writes it.                          *)
Begin(c) ==
    /\ write = Nothing /\ write' = c /\ Changed(Broken)
    /\ edits < MaxEdits /\ edits' = edits + 1
    /\ UNCHANGED <<up, watching, live, reload, effects, wanted, crossed>>

Finish ==
    /\ write # Nothing /\ Changed(write) /\ write' = Nothing
    /\ UNCHANGED <<editor, up, watching, live, reload, effects, wanted, crossed, edits>>

(* set_settings: applySettingsUpdate, from the live configuration.         *)
SaveForm ==
    /\ up /\ \E c \in FormEdits(live) : Valid(c) /\ Begin(c)
    /\ UNCHANGED editor

(* get_config: readMaskedConfig                                            *)
FetchText ==
    /\ up /\ file # Broken /\ editor' = Mask(file, live) /\ editor' # editor
    /\ UNCHANGED <<file, write, process, effects, history, edits>>

(* Mistaken: what is written is not validated.                             *)
SaveTextUnchecked ==
    /\ up /\ editor # Nothing /\ editor' = Nothing
    /\ \E text \in {editor} \cup FormEdits(editor) : Begin(Restore(text, live))

(* set_config: writeValidatedConfig                                        *)
SaveText ==
    /\ up /\ editor # Nothing /\ editor' = Nothing
    /\ \E text \in {editor} \cup FormEdits(editor) :
          Valid(Restore(text, live)) /\ Begin(Restore(text, live))

-----------------------------------------------------------------------------
(* run: loads the configuration, picks the backend (the stored one first), *)
(* keeps the screen awake; the file is watched only later.                 *)
Start ==
    /\ ~up /\ Valid(file) /\ up' = TRUE /\ live' = file
    /\ active' = Choose(IF stored # "" THEN stored ELSE file.backend) /\ wanted' = active'
    /\ keepers' = (IF file.screen THEN 1 ELSE 0) /\ stopper' = file.screen
    /\ crossed' = FALSE /\ missed' = FALSE
    /\ UNCHANGED <<files, watching, due, reload, stored, edits>>

Watch ==
    /\ up /\ ~watching /\ watching' = TRUE
    /\ UNCHANGED <<files, up, live, due, reload, effects, history, edits>>

Dies ==
    /\ up' = FALSE /\ watching' = FALSE /\ due' = FALSE
    /\ reload' = [r \in Reloads |-> Idle] /\ keepers' = 0 /\ stopper' = FALSE

Crash ==
    /\ up /\ Dies /\ write' = Nothing /\ editor' = Nothing
    /\ edits < MaxEdits /\ edits' = edits + 1
    /\ UNCHANGED <<file, live, active, stored, history>>

(* !backend, and a message that asks for a backend.                        *)
Switch ==
    /\ up /\ \E b \in Installed \ {active} : active' = b /\ stored' = b /\ wanted' = b
    /\ crossed' = (crossed \/ Running)
    /\ edits < MaxEdits /\ edits' = edits + 1
    /\ UNCHANGED <<files, process, keepers, stopper, missed>>

(* The timer's goroutine: LoadConfig; one that does not validate is        *)
(* reported and left.                                                      *)
Fire(r) ==
    /\ due /\ reload[r] = Idle /\ due' = FALSE
    /\ reload' = IF Valid(file) THEN [reload EXCEPT ![r] = [at |-> "loaded", new |-> file]]
                 ELSE reload
    /\ missed' = (missed /\ ~Valid(file)) /\ crossed' = (crossed \/ Running)
    /\ UNCHANGED <<files, up, watching, live, effects, wanted, edits>>

SetLive(r) ==
    /\ reload[r].at = "loaded"
    /\ LET new == reload[r].new IN
       /\ live' = new
       /\ reload' = [reload EXCEPT ![r] = [at |-> "screen", old |-> live, new |-> new]]
       /\ wanted' = IF live.backend # new.backend /\ new.backend \in Installed
                    THEN new.backend ELSE wanted
    /\ UNCHANGED <<files, up, watching, due, effects, crossed, missed, edits>>

(* OnScreenControl, OnKeepAwake: after the messages, syncKeepAwake looks   *)
(* at the live configuration, not at the one it was called for.            *)
LookAwake(r) ==
    /\ reload[r].at = "screen"
    /\ reload' = [reload EXCEPT ![r].at =
                    IF reload[r].old.screen = reload[r].new.screen \/ live.screen = stopper
                    THEN "backend" ELSE IF live.screen THEN "on" ELSE "off"]
    /\ UNCHANGED <<files, up, watching, live, due, effects, history, edits>>

(* No lock: another reload may have come between; then a loop is started   *)
(* that nothing stops, or a nil function is called, which ends the process.*)
TurnAwake(r) ==
    /\ reload[r].at \in {"on", "off"}
    /\ LET on == reload[r].at = "on" IN
       IF on \/ stopper
       THEN /\ keepers' = (IF on THEN keepers + 1 ELSE keepers - 1) /\ stopper' = on
            /\ reload' = [reload EXCEPT ![r].at = "backend"]
            /\ UNCHANGED <<files, up, watching, due>>
       ELSE Dies /\ write' = Nothing /\ editor' = Nothing /\ UNCHANGED file
    /\ UNCHANGED <<live, active, stored, history, edits>>

(* OnDefaultBackend: SetBackend, which refuses one that is not installed.  *)
Rehost(r) ==
    /\ reload[r].at = "backend"
    /\ LET new == reload[r].new.backend IN
       IF reload[r].old.backend # new /\ new \in Installed
       THEN active' = new /\ stored' = new
       ELSE UNCHANGED <<active, stored>>
    /\ reload' = [reload EXCEPT ![r] = Idle]
    /\ UNCHANGED <<files, up, watching, live, due, keepers, stopper, history, edits>>

Next ==
    \/ Edit \/ Finish \/ SaveForm \/ FetchText \/ SaveText
    \/ Start \/ Watch \/ Crash \/ Switch
    \/ \E r \in Reloads : Fire(r) \/ SetLive(r) \/ LookAwake(r) \/ TurnAwake(r) \/ Rehost(r)

Spec == Init /\ [][Next]_vars

-----------------------------------------------------------------------------
Reloading == [at : {"loaded"}, new : Configs]
             \cup [at : {"screen", "on", "off", "backend"}, old : Configs, new : Configs]
TypeOK ==
    /\ file \in Configs \cup {Broken} /\ live \in Configs
    /\ write \in Configs \cup {Nothing} /\ editor \in Configs \cup {Nothing}
    /\ <<up, watching, due, stopper, crossed, missed>> \in
          BOOLEAN \X BOOLEAN \X BOOLEAN \X BOOLEAN \X BOOLEAN \X BOOLEAN
    /\ reload \in [Reloads -> Reloading \cup {Idle}]
    /\ keepers \in Nat /\ active \in Installed /\ wanted \in Installed
    /\ stored \in Installed \cup {""} /\ edits \in 0..MaxEdits
    /\ (due => watching) /\ (watching => up)

(* "only if valid" (writeValidatedConfig), "keep the old settings" (the    *)
(* reload): whatever the file holds and whoever edits it, the process runs *)
(* with a configuration it would start with, and writes no other.          *)
OnlyValid == Valid(live) /\ (write # Nothing => Valid(write))

(* Once the events are handled the process does what the file says: the    *)
(* live configuration, the keep-awake loop and the backend chosen last.    *)
(* Not so after reloads that overlapped, or when the file changed between  *)
(* its loading and its watching.                                           *)
Quiet == watching /\ ~due /\ ~Running /\ write = Nothing
Settled ==
    Quiet /\ ~crossed /\ ~missed /\ Valid(file) =>
        /\ live = file
        /\ keepers = (IF live.screen THEN 1 ELSE 0) /\ stopper = live.screen
        /\ active = wanted

(* "swapped back to the stored secret on save": a text that was fetched    *)
(* and comes back as it was leaves the secrets of the file as they were,   *)
(* unless aglink_chat has the token of chat_control and not of web_chat.   *)
Ambiguous(c) == c.secret["aglink_chat"] = c.secret["chat_control"]
                /\ c.secret["aglink_chat"] # c.secret["web_chat"]
SecretsKept ==
    up /\ file = live /\ ~Ambiguous(file) => Restore(Mask(file, live), live) = file
=============================================================================
