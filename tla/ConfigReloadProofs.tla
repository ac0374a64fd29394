------------------------- MODULE ConfigReloadProofs -------------------------
(* Safety of the configuration's reload for every set of secrets, of       *)
(* starting configurations and of reloads at once.                         *)
EXTENDS ConfigReload, TLAPS

USE ConfigReloadAssumption

-----------------------------------------------------------------------------
(* What a reload loaded was valid; what stop() needs is there.             *)
LoadedValid == \A r \in Reloads : reload[r] # Idle => Valid(reload[r].new)

(* Nobody changes the web_chat token here, so that a masked aglink_chat    *)
(* token stays masked only when there is no such token.                    *)
web == live.secret["web_chat"]
Sound(c) == /\ c.secret["web_chat"] = web
            /\ c.secret["aglink_chat"] = Sentinel => web = NoSecret
SecretsSound ==
    /\ web # Sentinel /\ Sound(live)
    /\ file # Broken => Sound(file)
    /\ write # Nothing => Sound(write)
    /\ editor # Nothing =>
          editor.secret["web_chat"] = IF web = NoSecret THEN NoSecret ELSE Sentinel
    /\ \A r \in Reloads : reload[r] # Idle => Sound(reload[r].new)

(* Only what decides which configuration is where.                         *)
ConfigTypes ==
    /\ file \in Configs \cup {Broken} /\ live \in Configs
    /\ write \in Configs \cup {Nothing} /\ editor \in Configs \cup {Nothing}
    /\ reload \in [Reloads -> Reloading \cup {Idle}]

IndInv == ConfigTypes /\ OnlyValid /\ LoadedValid /\ SecretsSound

-----------------------------------------------------------------------------
LEMMA BrokenInvalid == Broken \notin Configs /\ ~Valid(Broken)
BY DEF Broken, Configs, Backends, Valid

LEMMA FormTypes ==
    ASSUME NEW c \in Configs, NEW d \in FormEdits(c)
    PROVE  d \in Configs /\ d.secret = c.secret
BY DEF FormEdits, Configs, Backends

LEMMA HandTypes ==
    ASSUME NEW c \in Configs, NEW d \in HandEdits(c), d # Broken
    PROVE  /\ d \in Configs
           /\ d.secret["web_chat"] = c.secret["web_chat"]
           /\ d.secret["aglink_chat"] = c.secret["aglink_chat"]
<1>1. CASE d \in FormEdits(c)
  BY <1>1, FormTypes
<1>2. CASE d = [c EXCEPT !.secret["chat_control"] = NoSecret]
  BY <1>2 DEF Configs, Secrets, Keys
<1>3. QED
  BY <1>1, <1>2 DEF HandEdits

LEMMA MaskTypes ==
    ASSUME NEW c \in Configs, NEW d \in Configs
    PROVE  /\ Mask(c, d) \in Configs
           /\ \A k \in Keys : Mask(c, d).secret[k] =
                 IF c.secret[k] \in Masked(d) THEN Sentinel ELSE c.secret[k]
BY DEF Mask, Configs, Secrets

LEMMA RestoreTypes ==
    ASSUME NEW c \in Configs, NEW d \in Configs
    PROVE  /\ Restore(c, d) \in Configs
           /\ \A k \in Keys : Restore(c, d).secret[k] =
                 IF c.secret[k] = Sentinel /\ Restored(k, d) # NoSecret
                 THEN Restored(k, d) ELSE c.secret[k]
<1>1. \A k \in Keys : Restored(k, d) \in Values \cup {NoSecret, Sentinel}
  BY DEF Restored, Configs, Secrets, Keys
<1>2. QED
  BY <1>1 DEF Restore, Configs, Secrets
-----------------------------------------------------------------------------
LEMMA InitInd == Init => IndInv
<1> SUFFICES ASSUME Init PROVE IndInv
  OBVIOUS
<1>1. /\ file \in Configs /\ Valid(file) /\ live = file
      /\ Sentinel \notin {file.secret[k] : k \in Keys}
  BY DEF Init
<1>2. Sound(file) /\ web # Sentinel
  BY <1>1 DEF Sound, web, Keys
<1>3. ConfigTypes /\ (\A r \in Reloads : reload[r] = Idle)
  BY <1>1 DEF Init, ConfigTypes
<1>4. QED
  BY <1>1, <1>2, <1>3 DEF Init, IndInv, OnlyValid, LoadedValid, SecretsSound

(* A change of the file alone: what it holds afterwards must be sound.     *)
LEMMA FileChange ==
    ASSUME IndInv, file' = Broken \/ (file' \in Configs /\ Sound(file')),
           UNCHANGED <<live, reload>>,
           \/ UNCHANGED <<write, editor>>
           \/ write' = Nothing /\ editor' \in {editor, Nothing}
    PROVE  IndInv'
BY DEF IndInv, ConfigTypes, OnlyValid, LoadedValid, SecretsSound, Sound, web

LEMMA EditInd == IndInv /\ Edit => IndInv'
<1> SUFFICES ASSUME IndInv, Edit PROVE IndInv'
  OBVIOUS
<1> DEFINE c == IF file = Broken THEN live ELSE file
<1>1. c \in Configs /\ Sound(c)
  BY DEF IndInv, ConfigTypes, SecretsSound
<1>2. PICK f \in HandEdits(c) : f # file /\ file' = f
  BY DEF Edit, Changed
<1>3. f = Broken \/ (f \in Configs /\ Sound(f))
  <2>1. ASSUME f # Broken PROVE f \in Configs /\ Sound(f)
    <3> HIDE DEF c
    <3>1. QED
      BY <1>1, <1>2, <2>1, HandTypes DEF Sound
  <2>2. QED
    BY <2>1
<1>4. UNCHANGED <<live, reload, write, editor>>
  BY DEF Edit
<1>5. QED
  BY <1>2, <1>3, <1>4, FileChange

LEMMA FinishInd == IndInv /\ Finish => IndInv'
<1> SUFFICES ASSUME IndInv, Finish PROVE IndInv'
  OBVIOUS
<1>1. file' = write /\ write \in Configs /\ Sound(write)
  BY DEF Finish, Changed, IndInv, ConfigTypes, SecretsSound
<1>2. UNCHANGED <<live, reload, editor>> /\ write' = Nothing
  BY DEF Finish
<1>3. QED
  BY <1>1, <1>2, FileChange

(* A save: what it is about to write is valid and sound.                   *)
LEMMA BeginInd ==
    ASSUME IndInv, NEW c \in Configs, Valid(c), Sound(c), Begin(c),
           editor' \in {editor, Nothing}
    PROVE  IndInv'
<1>1. file' = Broken /\ write' = c /\ UNCHANGED <<live, reload>>
  BY DEF Begin, Changed
<1>2. QED
  BY <1>1 DEF IndInv, ConfigTypes, OnlyValid, LoadedValid, SecretsSound, Sound, web

LEMMA SaveFormInd == IndInv /\ SaveForm => IndInv'
<1> SUFFICES ASSUME IndInv, SaveForm PROVE IndInv'
  OBVIOUS
<1>1. PICK c \in FormEdits(live) : Valid(c) /\ Begin(c)
  BY DEF SaveForm
<1>2. live \in Configs /\ Sound(live) /\ UNCHANGED editor
  BY DEF SaveForm, IndInv, ConfigTypes, SecretsSound
<1>3. c \in Configs /\ c.secret = live.secret
  BY <1>1, <1>2, FormTypes
<1>4. Sound(c)
  BY <1>2, <1>3 DEF Sound
<1>5. QED
  BY <1>1, <1>2, <1>3, <1>4, BeginInd

LEMMA SaveTextInd == IndInv /\ SaveText => IndInv'
<1> SUFFICES ASSUME IndInv, SaveText PROVE IndInv'
  OBVIOUS
<1>1. PICK text \in {editor} \cup FormEdits(editor) :
         Valid(Restore(text, live)) /\ Begin(Restore(text, live))
  BY DEF SaveText
<1>2. /\ editor # Nothing /\ editor' = Nothing /\ editor \in Configs /\ live \in Configs
      /\ web # Sentinel
      /\ editor.secret["web_chat"] = IF web = NoSecret THEN NoSecret ELSE Sentinel
  BY DEF SaveText, IndInv, ConfigTypes, SecretsSound
<1>3. text \in Configs /\ text.secret = editor.secret
  BY <1>1, <1>2, FormTypes
<1>4. Sound(Restore(text, live))
  <2>1. "web_chat" \in Keys /\ "aglink_chat" \in Keys
    BY DEF Keys
  <2>2. Restored("web_chat", live) = web /\ Restored("aglink_chat", live) = web
    BY DEF Restored, web
  <2>3. Restore(text, live).secret["web_chat"] = web
    BY <1>2, <1>3, <2>1, <2>2, RestoreTypes
  <2>4. Restore(text, live).secret["aglink_chat"] = Sentinel => web = NoSecret
    BY <1>2, <1>3, <2>1, <2>2, RestoreTypes
  <2>5. QED
    BY <2>3, <2>4 DEF Sound
<1>5. Restore(text, live) \in Configs
  BY <1>2, <1>3, RestoreTypes
<1>6. QED
  BY <1>1, <1>2, <1>4, <1>5, BeginInd

LEMMA FetchInd == IndInv /\ FetchText => IndInv'
<1> SUFFICES ASSUME IndInv, FetchText PROVE IndInv'
  OBVIOUS
<1>1. /\ file \in Configs /\ live \in Configs /\ Sound(file) /\ web # Sentinel
      /\ editor' = Mask(file, live) /\ UNCHANGED <<file, write, live, reload>>
  BY DEF FetchText, process, IndInv, ConfigTypes, SecretsSound
<1>2. web \in Masked(live) <=> web # NoSecret
  BY DEF Masked, web
<1>3. /\ editor' \in Configs
      /\ editor'.secret["web_chat"] = IF web = NoSecret THEN NoSecret ELSE Sentinel
  BY <1>1, <1>2, MaskTypes DEF Sound, Keys
<1>4. QED
  BY <1>1, <1>3 DEF IndInv, ConfigTypes, OnlyValid, LoadedValid, SecretsSound, Sound, web

(* The live configuration becomes one that is valid and sound.             *)
LEMMA StartInd == IndInv /\ Start => IndInv'
<1> SUFFICES ASSUME IndInv, Start PROVE IndInv'
  OBVIOUS
<1>1. Valid(file) /\ file \in Configs /\ file # Broken /\ Sound(file)
  BY BrokenInvalid DEF Start, IndInv, ConfigTypes, SecretsSound
<1>2. live' = file /\ UNCHANGED <<file, write, editor, reload>>
  BY DEF Start, files
<1>3. web' = web
  BY <1>1, <1>2 DEF web, Sound
<1>4. QED
  BY <1>1, <1>2, <1>3 DEF IndInv, ConfigTypes, OnlyValid, LoadedValid, SecretsSound, Sound

LEMMA FireInd == ASSUME NEW r \in Reloads PROVE IndInv /\ Fire(r) => IndInv'
<1> SUFFICES ASSUME IndInv, Fire(r) PROVE IndInv'
  OBVIOUS
<1>1. UNCHANGED <<file, write, editor, live>>
  BY DEF Fire, files
<1>2. CASE ~Valid(file)
  BY <1>1, <1>2 DEF Fire, IndInv, ConfigTypes, OnlyValid, LoadedValid, SecretsSound, Sound, web
<1>3. CASE Valid(file)
  <2> DEFINE w == [at |-> "loaded", new |-> file]
  <2>1. file \in Configs /\ Sound(file)
    BY <1>3, BrokenInvalid DEF IndInv, ConfigTypes, SecretsSound
  <2>2. reload' = [reload EXCEPT ![r] = w] /\ w.new = file /\ w \in Reloading
    BY <1>3, <2>1 DEF Fire, Reloading
  <2>3. \A q \in Reloads : reload'[q] = IF q = r THEN w ELSE reload[q]
    BY <2>2 DEF IndInv, ConfigTypes
  <2> HIDE DEF w
  <2>4. ConfigTypes'
    BY <1>1, <2>2 DEF IndInv, ConfigTypes
  <2>5. LoadedValid' /\ OnlyValid'
    BY <1>1, <1>3, <2>2, <2>3 DEF IndInv, LoadedValid, OnlyValid, Valid
  <2>6. SecretsSound'
    BY <1>1, <2>1, <2>2, <2>3 DEF IndInv, SecretsSound, Sound, web
  <2>7. QED
    BY <2>4, <2>5, <2>6 DEF IndInv
<1>4. QED
  BY <1>2, <1>3

LEMMA SetLiveInd == ASSUME NEW r \in Reloads PROVE IndInv /\ SetLive(r) => IndInv'
<1> SUFFICES ASSUME IndInv, SetLive(r) PROVE IndInv'
  OBVIOUS
<1> DEFINE new == reload[r].new
           w == [at |-> "screen", old |-> live, new |-> new]
<1>1. reload[r] # Idle /\ reload[r].at = "loaded"
  BY DEF SetLive, Idle
<1>2. new \in Configs /\ Valid(new) /\ Sound(new)
  BY <1>1 DEF IndInv, ConfigTypes, Reloading, LoadedValid, SecretsSound
<1>3. /\ live' = new /\ reload' = [reload EXCEPT ![r] = w]
      /\ UNCHANGED <<file, write, editor>>
  BY DEF SetLive, files
<1>4. w \in Reloading /\ w.new = new
  BY <1>2 DEF Reloading, IndInv, ConfigTypes
<1> HIDE DEF w, new
<1>5. \A q \in Reloads : reload'[q] = IF q = r THEN w ELSE reload[q]
  BY <1>3 DEF IndInv, ConfigTypes
<1>6. web' = web
  BY <1>2, <1>3 DEF web, Sound
<1>7. ConfigTypes'
  BY <1>2, <1>3, <1>4 DEF IndInv, ConfigTypes
<1>8. LoadedValid' /\ OnlyValid'
  BY <1>2, <1>3, <1>4, <1>5 DEF IndInv, LoadedValid, OnlyValid, Valid
<1>9. SecretsSound'
  BY <1>2, <1>3, <1>4, <1>5, <1>6 DEF IndInv, SecretsSound, Sound
<1>10. QED
  BY <1>7, <1>8, <1>9 DEF IndInv

(* The steps of the hooks: the configuration a reload holds stays.         *)
LEMMA HookInd ==
    ASSUME IndInv, NEW r \in Reloads, reload[r] # Idle, reload[r].at # "loaded",
           NEW to \in {"screen", "on", "off", "backend"},
           \/ reload' = [reload EXCEPT ![r].at = to]
           \/ reload' = [reload EXCEPT ![r] = Idle]
           \/ reload' = [q \in Reloads |-> Idle],
           UNCHANGED <<file, live>>,
           UNCHANGED <<write, editor>> \/ (write' = Nothing /\ editor' = Nothing)
    PROVE  IndInv'
<1>1. reload[r] \in [at : {"screen", "on", "off", "backend"}, old : Configs, new : Configs]
  BY DEF IndInv, ConfigTypes, Reloading
<1>2. \A q \in Reloads : reload'[q] = Idle \/ (reload[q] # Idle /\ reload'[q].new = reload[q].new)
                           \/ reload'[q] = reload[q]
  BY <1>1 DEF IndInv, ConfigTypes
<1>3. reload' \in [Reloads -> Reloading \cup {Idle}]
  BY <1>1 DEF IndInv, ConfigTypes, Reloading
<1>4. ConfigTypes'
  BY <1>3 DEF IndInv, ConfigTypes
<1>5. LoadedValid' /\ OnlyValid'
  BY <1>2 DEF IndInv, LoadedValid, OnlyValid, Valid
<1>6. SecretsSound'
  BY <1>2 DEF IndInv, SecretsSound, Sound, web
<1>7. QED
  BY <1>4, <1>5, <1>6 DEF IndInv

LEMMA StepInd == IndInv /\ [Next]_vars => IndInv'
<1> SUFFICES ASSUME IndInv, [Next]_vars PROVE IndInv'
  OBVIOUS
<1> USE DEF files, process, effects
<1>1. CASE Watch \/ Switch \/ UNCHANGED vars
  BY <1>1 DEF Watch, Switch, vars, IndInv, ConfigTypes, OnlyValid, LoadedValid, SecretsSound,
              Sound, web
<1>2. CASE Crash
  <2>1. /\ reload' = [r \in Reloads |-> Idle] /\ write' = Nothing /\ editor' = Nothing
        /\ UNCHANGED <<file, live>>
    BY <1>2 DEF Crash, Dies
  <2>2. QED
    BY <2>1 DEF IndInv, ConfigTypes, OnlyValid, LoadedValid, SecretsSound, Sound, web
<1>3. ASSUME NEW r \in Reloads, LookAwake(r) PROVE IndInv'
  <2>1. reload[r] # Idle /\ reload[r].at # "loaded"
    BY <1>3 DEF LookAwake, Idle
  <2>2. \E to \in {"on", "off", "backend"} : reload' = [reload EXCEPT ![r].at = to]
    BY <1>3 DEF LookAwake
  <2>3. UNCHANGED <<file, live, write, editor>>
    BY <1>3 DEF LookAwake
  <2>4. QED
    BY <1>3, <2>1, <2>2, <2>3, HookInd
<1>4. ASSUME NEW r \in Reloads, TurnAwake(r) PROVE IndInv'
  <2>1. reload[r] # Idle /\ reload[r].at # "loaded" /\ UNCHANGED live
    BY <1>4 DEF TurnAwake, Idle
  <2>2. \/ reload' = [reload EXCEPT ![r].at = "backend"] /\ UNCHANGED <<file, write, editor>>
        \/ /\ reload' = [q \in Reloads |-> Idle] /\ write' = Nothing /\ editor' = Nothing
           /\ UNCHANGED file
    BY <1>4 DEF TurnAwake, Dies
  <2>3. QED
    BY <1>4, <2>1, <2>2, HookInd
<1>5. ASSUME NEW r \in Reloads, Rehost(r) PROVE IndInv'
  <2>1. reload[r] # Idle /\ reload[r].at # "loaded"
    BY <1>5 DEF Rehost, Idle
  <2>2. reload' = [reload EXCEPT ![r] = Idle] /\ UNCHANGED <<file, live, write, editor>>
    BY <1>5 DEF Rehost
  <2>3. QED
    BY <1>5, <2>1, <2>2, HookInd
<1>6. QED
  BY <1>1, <1>2, <1>3, <1>4, <1>5, EditInd, FinishInd, SaveFormInd, FetchInd, SaveTextInd,
     StartInd, FireInd, SetLiveInd DEF Next

(* The invariant holds in every reachable state, for any tokens, any valid *)
(* starting configurations and any number of overlapping reloads.          *)
THEOREM Invariance == Spec => []IndInv
<1>1. QED
  BY InitInd, StepInd, PTL DEF Spec

(* Whatever the file holds and whoever edits it meanwhile, the process     *)
(* runs with a valid configuration and a browser's save writes no other.   *)
THEOREM Validity == Spec => []OnlyValid
<1>1. IndInv => OnlyValid
  BY DEF IndInv
<1>2. QED
  BY <1>1, Invariance, PTL

-----------------------------------------------------------------------------
(* A configuration that is masked for a browser and comes back as it was   *)
(* is what it was.                                                         *)
LEMMA RoundTrip ==
    ASSUME NEW c \in Configs, ~Ambiguous(c),
           c.secret["aglink_chat"] = Sentinel => c.secret["web_chat"] = NoSecret
    PROVE  Restore(Mask(c, c), c) = c
<1> DEFINE w == c.secret["web_chat"]
           b == c.secret["chat_control"]
           a == c.secret["aglink_chat"]
           text == Mask(c, c)
           back == Restore(text, c)
<1>1. Keys = {"web_chat", "chat_control", "aglink_chat"}
  BY DEF Keys
<1>2. /\ text \in Configs
      /\ \A k \in Keys : text.secret[k] = IF c.secret[k] \in Masked(c) THEN Sentinel ELSE c.secret[k]
  BY MaskTypes
<1>3. /\ back \in Configs
      /\ \A k \in Keys : back.secret[k] =
            IF text.secret[k] = Sentinel /\ Restored(k, c) # NoSecret THEN Restored(k, c)
            ELSE text.secret[k]
  BY <1>2, RestoreTypes
<1>4. /\ Restored("web_chat", c) = w /\ Restored("chat_control", c) = b
      /\ Restored("aglink_chat", c) = w /\ Masked(c) = {w, b} \ {NoSecret}
  BY DEF Restored, Masked
<1>5. a = b => a = w
  BY DEF Ambiguous
<1>6. /\ text.secret["web_chat"] = IF w # NoSecret THEN Sentinel ELSE w
      /\ text.secret["chat_control"] = IF b # NoSecret THEN Sentinel ELSE b
      /\ text.secret["aglink_chat"] = IF a = w /\ w # NoSecret THEN Sentinel ELSE a
  <2> HIDE DEF text
  <2>1. QED
    BY <1>1, <1>2, <1>4, <1>5
<1>7. back.secret["web_chat"] = w
  <2> HIDE DEF back, text
  <2>1. QED
    BY <1>1, <1>3, <1>4, <1>6
<1>8. back.secret["chat_control"] = b
  <2> HIDE DEF back, text
  <2>1. QED
    BY <1>1, <1>3, <1>4, <1>6
<1>9. back.secret["aglink_chat"] = a
  <2> HIDE DEF back, text
  <2>1. QED
    BY <1>1, <1>3, <1>4, <1>6
<1>10. back.secret = c.secret
  <2>1. back.secret \in Secrets /\ c.secret \in Secrets
    BY <1>3 DEF Configs
  <2>2. \A k \in Keys : back.secret[k] = c.secret[k]
    BY <1>1, <1>7, <1>8, <1>9
  <2> HIDE DEF back
  <2>3. QED
    BY <2>1, <2>2 DEF Secrets
<1>11. back.screen = c.screen /\ back.backend = c.backend
  BY DEF Restore, Mask, Configs
<1>12. QED
  <2> HIDE DEF back
  <2>1. back = c
    BY <1>3, <1>10, <1>11 DEF Configs
  <2>2. QED
    BY <2>1 DEF back

(* At every moment at which a browser may fetch the file and save it       *)
(* unedited, the tokens survive, unless aglink_chat shares chat_control's. *)
THEOREM RoundTrips == Spec => []SecretsKept
<1>1. IndInv => SecretsKept
  <2> SUFFICES ASSUME IndInv, up, file = live, ~Ambiguous(file)
               PROVE  Restore(Mask(file, live), live) = file
    BY DEF SecretsKept
  <2>1. live \in Configs /\ (live.secret["aglink_chat"] = Sentinel => web = NoSecret)
    BY DEF IndInv, ConfigTypes, SecretsSound, Sound
  <2>2. QED
    BY <2>1, RoundTrip DEF web
<1>2. QED
  BY <1>1, Invariance, PTL
-----------------------------------------------------------------------------
(* When the process does not run no reload does, and a keep-awake loop that *)
(* can be stopped is one that runs.                                        *)
Life == (~up => \A r \in Reloads : reload[r] = Idle) /\ (stopper => keepers > 0)

(* How far a reload that runs alone has brought its effects.               *)
Chosen(w) == w.at # "loaded" /\ w.old.backend # w.new.backend /\ w.new.backend \in Installed
Staged(w) ==
    /\ w.at \in {"loaded", "backend"} => stopper = live.screen
    /\ w.at = "screen" => stopper = w.old.screen
    /\ w.at \in {"on", "off"} => live.screen = (w.at = "on") /\ stopper = (w.at = "off")
    /\ w.at # "loaded" => live = w.new
    /\ wanted = IF Chosen(w) THEN w.new.backend ELSE active

(* Without an event under a reload: one runs at most, its effects are those*)
(* of its stage, and what was loaded or is live is what the file holds,    *)
(* unless the timer runs.                                                  *)
Alone == \A r, s \in Reloads : reload[r] # Idle /\ reload[s] # Idle => r = s
Loaded == \A r \in Reloads : reload[r].at = "loaded" => reload[r].new = file
Followed ==
    ~missed /\ ~due /\ Valid(file) =>
        Loaded /\ ((\A r \in Reloads : reload[r].at # "loaded") => live = file)
SettleInv ==
    up /\ ~crossed =>
        /\ Alone /\ Followed
        /\ keepers = (IF stopper THEN 1 ELSE 0)
        /\ ~Running => stopper = live.screen /\ active = wanted
        /\ \A r \in Reloads : reload[r] # Idle => Staged(reload[r])

Settling == TypeOK /\ Life /\ SettleInv

LEMMA Stages ==
    ASSUME TypeOK, NEW r \in Reloads
    PROVE  /\ reload[r] = Idle <=> reload[r].at = "idle"
           /\ reload[r] # Idle => /\ reload[r].at \in {"loaded", "screen", "on", "off", "backend"}
                                  /\ reload[r].new \in Configs
           /\ reload[r] # Idle /\ reload[r].at # "loaded" =>
                 reload[r] \in [at : {"screen", "on", "off", "backend"}, old : Configs, new : Configs]
<1>1. reload[r] \in Reloading \cup {Idle}
  BY DEF TypeOK
<1>2. QED
  BY <1>1 DEF Reloading, Idle

LEMMA TypeParts ==
    ASSUME TypeOK
    PROVE  /\ up \in BOOLEAN /\ watching \in BOOLEAN /\ due \in BOOLEAN /\ stopper \in BOOLEAN
           /\ crossed \in BOOLEAN /\ missed \in BOOLEAN
BY DEF TypeOK

LEMMA ChooseType == ASSUME NEW b PROVE Choose(b) \in Installed
BY DEF Choose

LEMMA EditBound ==
    ASSUME TypeOK, edits < MaxEdits, edits' = edits + 1
    PROVE  edits' \in 0..MaxEdits
<1>1. edits \in 0..MaxEdits /\ MaxEdits \in Nat
  BY ConfigReloadAssumption DEF TypeOK
<1>2. QED
  BY <1>1

LEMMA SettleInit == Init => Settling
<1> SUFFICES ASSUME Init PROVE Settling
  OBVIOUS
<1>1. file \in Configs /\ live = file
  BY ConfigReloadAssumption DEF Init
<1>2. active \in Installed /\ wanted = active
  BY ChooseType DEF Init
<1>3. TypeOK
  <2>1. edits \in 0..MaxEdits
    <3>1. edits = 0
      BY DEF Init
    <3>2. MaxEdits \in Nat
      BY ConfigReloadAssumption
    <3>3. QED
      BY <3>1, <3>2
  <2>2. reload \in [Reloads -> Reloading \cup {Idle}]
    BY DEF Init
  <2>3. /\ up = FALSE /\ watching = FALSE /\ due = FALSE /\ stopper = FALSE
        /\ crossed = FALSE /\ missed = FALSE /\ keepers = 0 /\ stored = ""
        /\ write = Nothing /\ editor = Nothing
    BY DEF Init
  <2>4. QED
    BY <1>1, <1>2, <2>1, <2>2, <2>3 DEF TypeOK
<1>4. QED
  BY <1>3 DEF Init, Settling, Life, SettleInv

(* The file changes: the timer runs now, or the change was missed.         *)
LEMMA ChangeSettles ==
    ASSUME Settling, NEW f \in Configs \cup {Broken}, Changed(f),
           write' \in Configs \cup {Nothing}, editor' \in Configs \cup {Nothing},
           edits' \in 0..MaxEdits,
           UNCHANGED <<up, watching, live, reload, effects, wanted, crossed>>
    PROVE  Settling'
<1>1. TypeOK'
  BY TypeParts DEF Settling, TypeOK, Changed, effects
<1>2. Life'
  BY DEF Settling, Life, effects
<1>3. up => due' \/ missed'
  BY TypeParts DEF Settling, Changed
<1>4. SettleInv'
  BY <1>3, TypeParts DEF Settling, SettleInv, Alone, Followed, Running, Staged, Chosen, effects
<1>5. QED
  BY <1>1, <1>2, <1>4 DEF Settling

LEMMA EditSettles == Settling /\ Edit => Settling'
<1> SUFFICES ASSUME Settling, Edit PROVE Settling'
  OBVIOUS
<1> DEFINE c == IF file = Broken THEN live ELSE file
<1>1. c \in Configs
  BY DEF Settling, TypeOK
<1>2. PICK f \in HandEdits(c) : f # file /\ Changed(f)
  BY DEF Edit
<1>3. f \in Configs \cup {Broken}
  <2> HIDE DEF c
  <2>1. QED
    BY <1>1, <1>2, HandTypes
<1>4. edits' \in 0..MaxEdits
  BY EditBound DEF Edit, Settling
<1>5. QED
  BY <1>2, <1>3, <1>4, ChangeSettles DEF Edit, Settling, TypeOK

LEMMA FinishSettles == Settling /\ Finish => Settling'
<1> SUFFICES ASSUME Settling, Finish PROVE Settling'
  OBVIOUS
<1>1. write \in Configs /\ Changed(write) /\ write' = Nothing
  BY DEF Finish, Settling, TypeOK
<1>2. QED
  BY <1>1, ChangeSettles DEF Finish, Settling, TypeOK

LEMMA BeginSettles ==
    ASSUME Settling, NEW c \in Configs, Begin(c), editor' \in {editor, Nothing}
    PROVE  Settling'
<1>1. Changed(Broken) /\ write' \in Configs
  BY DEF Begin
<1>3. edits' \in 0..MaxEdits
  BY EditBound DEF Begin, Settling
<1>2. QED
  BY <1>1, <1>3, ChangeSettles DEF Begin, Settling, TypeOK

LEMMA SavesSettle == Settling /\ (SaveForm \/ SaveText) => Settling'
<1>1. ASSUME Settling, SaveForm PROVE Settling'
  <2>1. PICK c \in FormEdits(live) : Begin(c)
    BY <1>1 DEF SaveForm
  <2>2. c \in Configs
    BY <1>1, <2>1, FormTypes DEF Settling, TypeOK
  <2>3. QED
    BY <1>1, <2>1, <2>2, BeginSettles DEF SaveForm
<1>2. ASSUME Settling, SaveText PROVE Settling'
  <2>1. PICK text \in {editor} \cup FormEdits(editor) : Begin(Restore(text, live))
    BY <1>2 DEF SaveText
  <2>2. editor \in Configs /\ live \in Configs /\ editor' = Nothing
    BY <1>2 DEF SaveText, Settling, TypeOK
  <2>3. Restore(text, live) \in Configs
    BY <2>1, <2>2, FormTypes, RestoreTypes
  <2>4. QED
    BY <1>2, <2>1, <2>2, <2>3, BeginSettles
<1>3. QED
  BY <1>1, <1>2

LEMMA FetchSettles == Settling /\ FetchText => Settling'
<1> SUFFICES ASSUME Settling, FetchText PROVE Settling'
  OBVIOUS
<1>1. /\ editor' \in Configs
      /\ UNCHANGED <<file, write, up, watching, live, due, reload, keepers, stopper, active,
                     stored, wanted, crossed, missed, edits>>
  BY MaskTypes DEF FetchText, process, effects, history, Settling, TypeOK
<1>2. TypeOK'
  BY <1>1 DEF Settling, TypeOK
<1>3. QED
  BY <1>1, <1>2 DEF Settling, Life, SettleInv, Alone, Followed, Loaded, Running, Staged, Chosen

LEMMA StartSettles == Settling /\ Start => Settling'
<1> SUFFICES ASSUME Settling, Start PROVE Settling'
  OBVIOUS
<1>1. /\ file \in Configs /\ live' = file /\ \A r \in Reloads : reload[r] = Idle
      /\ up' /\ ~crossed' /\ ~missed' /\ active' \in Installed /\ wanted' = active'
      /\ keepers' = (IF file.screen THEN 1 ELSE 0) /\ stopper' = file.screen
      /\ UNCHANGED <<file, write, editor, watching, due, reload, stored, edits>>
  BY BrokenInvalid, ChooseType DEF Start, files, Settling, Life, TypeOK
<1>2. file.screen \in BOOLEAN
  BY <1>1 DEF Configs
<1>3. TypeOK'
  <2>1. /\ crossed' = FALSE /\ missed' = FALSE /\ up' = TRUE
    BY DEF Start
  <2>2. due \in BOOLEAN /\ watching \in BOOLEAN
    BY TypeParts DEF Settling
  <2>3. QED
    BY <1>1, <1>2, <2>1, <2>2 DEF Settling, TypeOK
<1>4. Life'
  BY <1>1 DEF Life
<1>5. SettleInv'
  BY <1>1, <1>2 DEF Idle, SettleInv, Alone, Followed, Loaded, Running
<1>6. QED
  BY <1>3, <1>4, <1>5 DEF Settling

LEMMA WatchSettles == Settling /\ Watch => Settling'
<1> SUFFICES ASSUME Settling, Watch PROVE Settling'
  OBVIOUS
<1>1. /\ up /\ watching' = TRUE
      /\ UNCHANGED <<file, write, editor, up, live, due, reload, keepers, stopper, active,
                     stored, wanted, crossed, missed, edits>>
  BY DEF Watch, files, effects, history
<1>2. TypeOK'
  BY <1>1, TypeParts DEF Settling, TypeOK
<1>3. QED
  BY <1>1, <1>2 DEF Settling, Life, SettleInv, Alone, Followed, Loaded, Running, Staged, Chosen

(* The process is gone, whatever ran in it.                                *)
LEMMA DeathSettles ==
    ASSUME Settling, Dies, write' = Nothing, editor' = Nothing, edits' \in 0..MaxEdits,
           UNCHANGED <<file, live, active, stored, history>>
    PROVE  Settling'
<1>1. /\ up' = FALSE /\ watching' = FALSE /\ due' = FALSE /\ stopper' = FALSE /\ keepers' = 0
      /\ reload' = [r \in Reloads |-> Idle]
  BY DEF Dies
<1>2. TypeOK'
  BY <1>1, TypeParts DEF Settling, TypeOK, history
<1>3. QED
  BY <1>1, <1>2 DEF Settling, Life, SettleInv

LEMMA SwitchSettles == Settling /\ Switch => Settling'
<1> SUFFICES ASSUME Settling, Switch PROVE Settling'
  OBVIOUS
<1>1. /\ active' \in Installed /\ stored' = active' /\ wanted' = active'
      /\ crossed' = (crossed \/ Running)
      /\ UNCHANGED <<file, write, editor, up, watching, live, due, reload, keepers, stopper, missed>>
  BY DEF Switch, files, process, Settling, TypeOK
<1>2. Running \in BOOLEAN /\ edits' \in 0..MaxEdits
  BY EditBound DEF Running, Switch, Settling
<1>3. TypeOK'
  <2>1. crossed' \in BOOLEAN
    BY <1>1, <1>2, TypeParts DEF Settling
  <2>2. QED
    BY <1>1, <1>2, <2>1, TypeParts DEF Settling, TypeOK
<1>4. SettleInv'
  <2> SUFFICES ASSUME up', ~crossed'
               PROVE  /\ Alone' /\ Followed' /\ keepers' = (IF stopper' THEN 1 ELSE 0)
                      /\ ~Running' => stopper' = live'.screen /\ active' = wanted'
                      /\ \A r \in Reloads : reload'[r] # Idle => Staged(reload[r])'
    BY DEF SettleInv
  <2>1. ~Running /\ ~crossed /\ up /\ \A r \in Reloads : reload'[r] = Idle
    BY <1>1, <1>2, TypeParts DEF Settling, Running
  <2>2. QED
    BY <1>1, <2>1 DEF Settling, SettleInv, Alone, Followed, Loaded
<1>5. QED
  BY <1>1, <1>3, <1>4 DEF Settling, Life

LEMMA CrashSettles == Settling /\ Crash => Settling'
<1> SUFFICES ASSUME Settling, Crash PROVE Settling'
  OBVIOUS
<1>1. edits' \in 0..MaxEdits
  BY EditBound DEF Crash, Settling
<1>2. QED
  BY <1>1, DeathSettles DEF Crash

(* What is loaded is what the file holds; a reload that fires while another*)
(* runs is an event under it.                                              *)
LEMMA FireSettles == ASSUME NEW r \in Reloads PROVE Settling /\ Fire(r) => Settling'
<1> SUFFICES ASSUME Settling, Fire(r) PROVE Settling'
  OBVIOUS
<1>1. /\ due /\ due' = FALSE /\ reload[r] = Idle
      /\ missed' = (missed /\ ~Valid(file)) /\ crossed' = (crossed \/ Running)
      /\ UNCHANGED <<file, write, editor, up, watching, live, keepers, stopper, active, stored,
                     wanted, edits>>
  BY DEF Fire, files, effects
<1>2. reload' = IF Valid(file) THEN [reload EXCEPT ![r] = [at |-> "loaded", new |-> file]]
                ELSE reload
  BY DEF Fire
<1>3. up
  BY <1>1 DEF Settling, TypeOK
<1>4. Valid(file) => [at |-> "loaded", new |-> file] \in Reloading
  BY BrokenInvalid DEF Settling, TypeOK, Reloading
<1>5. TypeOK'
  <2>1. reload' \in [Reloads -> Reloading \cup {Idle}]
    BY <1>2, <1>4 DEF Settling, TypeOK
  <2>2. crossed' \in BOOLEAN /\ missed' \in BOOLEAN
    BY <1>1, TypeParts DEF Settling, Running, Valid
  <2>3. QED
    BY <1>1, <2>1, <2>2, TypeParts DEF Settling, TypeOK
<1>6. Life'
  BY <1>1, <1>3 DEF Settling, Life
<1>7. SettleInv'
  <2> SUFFICES ASSUME ~crossed' PROVE SettleInv'
    BY DEF SettleInv
  <2>1. ~Running /\ ~crossed /\ \A s \in Reloads : reload[s] = Idle
    BY <1>1 DEF Running
  <2>2. keepers = (IF stopper THEN 1 ELSE 0) /\ stopper = live.screen /\ active = wanted
    BY <1>3, <2>1 DEF Settling, SettleInv
  <2>3. CASE Valid(file)
    <3>1. /\ reload'[r] = [at |-> "loaded", new |-> file]
          /\ \A s \in Reloads : s # r => reload'[s] = Idle
      BY <1>2, <2>1, <2>3 DEF Settling, TypeOK
    <3>2. Alone' /\ Followed'
      BY <1>1, <3>1 DEF Alone, Followed, Loaded, Idle
    <3>3. Staged(reload[r])' /\ Running'
      BY <1>1, <2>2, <3>1 DEF Staged, Chosen, Running, Idle
    <3>4. QED
      BY <1>1, <2>2, <3>1, <3>2, <3>3 DEF SettleInv
  <2>4. CASE ~Valid(file)
    <3>1. reload' = reload
      BY <1>2, <2>4
    <3>2. QED
      BY <1>1, <2>1, <2>2, <2>4, <3>1 DEF SettleInv, Alone, Followed, Valid
  <2>5. QED
    BY <2>3, <2>4
<1>8. QED
  BY <1>5, <1>6, <1>7 DEF Settling

(* The stage of a reload changes, and what it is the only one to change.   *)
LEMMA StageSettles ==
    ASSUME Settling, NEW r \in Reloads, reload[r] # Idle,
           NEW w \in Reloading \cup {Idle}, reload' = [reload EXCEPT ![r] = w],
           UNCHANGED <<file, write, editor, up, watching, due, crossed, missed, edits>>,
           live' \in Configs, keepers' \in Nat, stopper' \in BOOLEAN,
           active' \in Installed, wanted' \in Installed, stored' \in Installed \cup {""},
           stopper' => keepers' > 0,
           up /\ ~crossed =>
              /\ keepers' = (IF stopper' THEN 1 ELSE 0)
              /\ w # Idle => Staged(reload[r])' /\ w.at # "loaded"
              /\ w = Idle => stopper' = live'.screen /\ active' = wanted'
              /\ ~missed /\ ~due /\ Valid(file) => live' = file
    PROVE  Settling'
<1>1. /\ reload'[r] = w
      /\ \A s \in Reloads : s # r => reload'[s] = reload[s]
      /\ reload' \in [Reloads -> Reloading \cup {Idle}]
  BY DEF Settling, TypeOK
<1>2. TypeOK'
  BY <1>1, TypeParts DEF Settling, TypeOK
<1>3. up
  BY DEF Settling, Life
<1>4. Life'
  BY <1>3 DEF Life
<1>5. SettleInv'
  <2> SUFFICES ASSUME ~crossed PROVE SettleInv'
    BY DEF SettleInv
  <2>1. \A s \in Reloads : s # r => reload'[s] = Idle
    BY <1>1, <1>3 DEF Settling, SettleInv, Alone
  <2>2. Alone'
    BY <2>1 DEF Alone
  <2>3. Followed'
    <3>1. \A s \in Reloads : reload'[s].at # "loaded"
      <4>1. Idle.at # "loaded"
        BY DEF Idle
      <4>2. w # Idle => w.at # "loaded"
        BY <1>3
      <4>3. QED
        BY <1>1, <2>1, <4>1, <4>2
    <3>2. ~missed' /\ ~due' /\ Valid(file)' => live' = file'
      BY <1>3 DEF Valid
    <3>3. QED
      BY <3>1, <3>2 DEF Followed, Loaded
  <2>4. \A s \in Reloads : reload'[s] # Idle => Staged(reload[s])'
    BY <1>1, <1>3, <2>1
  <2>5. ~Running' => stopper' = live'.screen /\ active' = wanted'
    BY <1>1, <1>3 DEF Running
  <2>6. QED
    BY <1>3, <2>2, <2>3, <2>4, <2>5 DEF SettleInv
<1>6. QED
  BY <1>2, <1>4, <1>5 DEF Settling

LEMMA SetLiveSettles == ASSUME NEW r \in Reloads PROVE Settling /\ SetLive(r) => Settling'
<1> SUFFICES ASSUME Settling, SetLive(r) PROVE Settling'
  OBVIOUS
<1> DEFINE new == reload[r].new
           w == [at |-> "screen", old |-> live, new |-> new]
<1>1. /\ reload[r].at = "loaded" /\ live' = new /\ reload' = [reload EXCEPT ![r] = w]
      /\ wanted' = IF live.backend # new.backend /\ new.backend \in Installed
                   THEN new.backend ELSE wanted
      /\ UNCHANGED <<file, write, editor, up, watching, due, keepers, stopper, active, stored,
                     crossed, missed, edits>>
  BY DEF SetLive, files, effects
<1>2. /\ reload[r] # Idle /\ new \in Configs /\ w \in Reloading /\ wanted' \in Installed
      /\ w # Idle
  BY <1>1, Stages DEF Settling, TypeOK, Reloading, Idle
<1>3. up /\ (stopper => keepers > 0)
  BY <1>2 DEF Settling, Life
<1>4. reload'[r] = w
  BY <1>1 DEF Settling, TypeOK
<1>5. ASSUME ~crossed
      PROVE  /\ keepers = (IF stopper THEN 1 ELSE 0) /\ Staged(reload[r])'
             /\ ~missed /\ ~due /\ Valid(file) => new = file
  <2>1. keepers = (IF stopper THEN 1 ELSE 0) /\ Staged(reload[r]) /\ Followed
    BY <1>2, <1>3, <1>5 DEF Settling, SettleInv
  <2>2. stopper = live.screen /\ wanted = active
    BY <1>1, <2>1 DEF Staged, Chosen
  <2>3. Staged(reload[r])'
    BY <1>1, <1>4, <2>2 DEF Staged, Chosen
  <2>4. QED
    BY <1>1, <2>1, <2>3 DEF Followed, Loaded
<1>6. w.at # "loaded"
  OBVIOUS
<1> HIDE DEF w, new
<1>7. QED
  BY <1>1, <1>2, <1>3, <1>5, <1>6, StageSettles DEF Settling, TypeOK

LEMMA LookAwakeSettles == ASSUME NEW r \in Reloads PROVE Settling /\ LookAwake(r) => Settling'
<1> SUFFICES ASSUME Settling, LookAwake(r) PROVE Settling'
  OBVIOUS
<1> DEFINE at == IF reload[r].old.screen = reload[r].new.screen \/ live.screen = stopper
                 THEN "backend" ELSE IF live.screen THEN "on" ELSE "off"
           w == [reload[r] EXCEPT !.at = at]
<1>1. /\ reload[r].at = "screen" /\ reload' = [reload EXCEPT ![r] = w]
      /\ UNCHANGED <<file, write, editor, up, watching, live, due, keepers, stopper, active, stored,
                     wanted, crossed, missed, edits>>
  <2>1. reload' = [reload EXCEPT ![r] = w]
    BY DEF LookAwake, Settling, TypeOK
  <2>2. QED
    BY <2>1 DEF LookAwake, files, effects, history
<1>2. /\ reload[r] # Idle
      /\ reload[r] \in [at : {"screen", "on", "off", "backend"}, old : Configs, new : Configs]
  BY <1>1, Stages DEF Settling, Idle
<1>3. /\ w \in Reloading /\ w # Idle /\ w.at = at /\ w.old = reload[r].old /\ w.new = reload[r].new
      /\ at \in {"on", "off", "backend"}
  BY <1>2 DEF Reloading, Idle
<1>4. up /\ (stopper => keepers > 0) /\ stopper \in BOOLEAN /\ live.screen \in BOOLEAN
  BY <1>2, TypeParts DEF Settling, Life, TypeOK, Configs
<1>5. reload'[r] = w
  BY <1>1 DEF Settling, TypeOK
<1>6. ASSUME ~crossed
      PROVE  /\ keepers = (IF stopper THEN 1 ELSE 0) /\ Staged(reload[r])'
             /\ ~missed /\ ~due /\ Valid(file) => live = file
  <2>1. keepers = (IF stopper THEN 1 ELSE 0) /\ Staged(reload[r]) /\ Followed /\ Alone
    BY <1>2, <1>4, <1>6 DEF Settling, SettleInv
  <2>2. stopper = reload[r].old.screen /\ live = reload[r].new
    BY <1>1, <2>1 DEF Staged
  <2>3. /\ at = "backend" => stopper = live.screen
        /\ at \in {"on", "off"} => live.screen = (at = "on") /\ stopper = (at = "off")
    BY <1>4, <2>2
  <2>4. Staged(reload[r])'
    <3> HIDE DEF at, w
    <3>1. QED
      BY <1>1, <1>3, <1>5, <2>1, <2>2, <2>3 DEF Staged, Chosen
  <2>5. \A s \in Reloads : reload[s].at # "loaded"
    BY <1>1, <1>2, <2>1, Stages DEF Settling, Alone, Idle
  <2>6. QED
    BY <2>1, <2>4, <2>5 DEF Followed
<1> HIDE DEF w, at
<1>7. w.at # "loaded"
  BY <1>3
<1>8. QED
  BY <1>1, <1>2, <1>3, <1>4, <1>6, <1>7, StageSettles DEF Settling, TypeOK

(* Alone, a reload neither starts a second loop nor stops one that is not; *)
(* what may end the process is that another one came between.              *)
LEMMA TurnAwakeSettles == ASSUME NEW r \in Reloads PROVE Settling /\ TurnAwake(r) => Settling'
<1> SUFFICES ASSUME Settling, TurnAwake(r) PROVE Settling'
  OBVIOUS
<1> DEFINE w == [reload[r] EXCEPT !.at = "backend"]
<1>1. reload[r].at \in {"on", "off"} /\ UNCHANGED <<live, active, stored, history, edits>>
  BY DEF TurnAwake
<1>2. /\ reload[r] # Idle
      /\ reload[r] \in [at : {"screen", "on", "off", "backend"}, old : Configs, new : Configs]
  BY <1>1, Stages DEF Settling, Idle
<1>3. /\ w \in Reloading /\ w # Idle /\ w.at = "backend" /\ w.old = reload[r].old
      /\ w.new = reload[r].new
  BY <1>2 DEF Reloading, Idle
<1>4. CASE reload[r].at = "on" \/ stopper
  <2>1. /\ reload[r].at = "on" => keepers' = keepers + 1 /\ stopper' = TRUE
        /\ reload[r].at = "off" => stopper = TRUE /\ keepers' = keepers - 1 /\ stopper' = FALSE
        /\ reload' = [reload EXCEPT ![r] = w]
        /\ UNCHANGED <<file, write, editor, up, watching, due>>
    <3>1. reload' = [reload EXCEPT ![r] = w]
      BY <1>4 DEF TurnAwake, Settling, TypeOK
    <3>2. UNCHANGED <<file, write, editor, up, watching, due>>
      BY <1>4 DEF TurnAwake, files
    <3>3. reload[r].at = "on" => keepers' = keepers + 1 /\ stopper' = TRUE
      BY <1>4 DEF TurnAwake
    <3>4. reload[r].at = "off" => stopper = TRUE /\ keepers' = keepers - 1 /\ stopper' = FALSE
      BY <1>4, TypeParts DEF TurnAwake, Settling
    <3>5. QED
      BY <3>1, <3>2, <3>3, <3>4
  <2>2. up /\ (stopper => keepers > 0) /\ stopper \in BOOLEAN /\ keepers \in Nat
        /\ live.screen \in BOOLEAN
    BY <1>2, TypeParts DEF Settling, Life, TypeOK, Configs
  <2>3. keepers' \in Nat /\ stopper' \in BOOLEAN /\ (stopper' => keepers' > 0)
    <3>1. CASE reload[r].at = "on"
      <4>1. keepers \in Nat /\ keepers' = keepers + 1
        BY <2>1, <2>2, <3>1
      <4>2. keepers' \in Nat /\ keepers' > 0
        BY <4>1
      <4>3. QED
        BY <2>1, <3>1, <4>2
    <3>2. CASE reload[r].at = "off"
      <4>1. keepers \in Nat /\ keepers > 0 /\ keepers' = keepers - 1 /\ stopper' = FALSE
        BY <2>1, <2>2, <3>2
      <4>2. keepers' \in Nat
        BY <4>1
      <4>3. QED
        BY <4>1, <4>2
    <3>3. QED
      BY <1>1, <3>1, <3>2
  <2>4. reload'[r] = w
    BY <2>1 DEF Settling, TypeOK
  <2>5. ASSUME ~crossed
        PROVE  /\ keepers' = (IF stopper' THEN 1 ELSE 0) /\ Staged(reload[r])'
               /\ ~missed /\ ~due /\ Valid(file) => live = file
    <3>1. keepers = (IF stopper THEN 1 ELSE 0) /\ Staged(reload[r]) /\ Followed /\ Alone
      BY <1>2, <2>2, <2>5 DEF Settling, SettleInv
    <3>2. live.screen = (reload[r].at = "on") /\ stopper = (reload[r].at = "off") /\ live = reload[r].new
          /\ wanted = IF Chosen(reload[r]) THEN reload[r].new.backend ELSE active
      BY <1>1, <3>1 DEF Staged
    <3>3. stopper' = live.screen /\ keepers' = (IF stopper' THEN 1 ELSE 0)
      <4>1. CASE reload[r].at = "on"
        <5>1. stopper = FALSE /\ live.screen = TRUE
          BY <2>2, <3>2, <4>1
        <5>2. keepers = 0 /\ keepers' = keepers + 1 /\ stopper' = TRUE
          BY <2>1, <3>1, <4>1, <5>1
        <5>3. keepers' = 1
          BY <5>2
        <5>4. QED
          BY <5>1, <5>2, <5>3
      <4>2. CASE reload[r].at = "off"
        <5>1. stopper = TRUE /\ live.screen = FALSE
          BY <2>1, <2>2, <3>2, <4>2
        <5>2. keepers = 1 /\ keepers' = keepers - 1 /\ stopper' = FALSE
          BY <2>1, <3>1, <4>2, <5>1
        <5>3. keepers' = 0
          BY <5>2
        <5>4. QED
          BY <5>1, <5>2, <5>3
      <4>3. QED
        BY <1>1, <4>1, <4>2
    <3>4. Staged(reload[r])'
      <4>1. UNCHANGED <<live, active, wanted>>
        BY <1>1 DEF history
      <4>2. Chosen(w) <=> Chosen(reload[r])
        BY <1>1, <1>3 DEF Chosen
      <4> HIDE DEF w
      <4>3. QED
        BY <1>3, <2>4, <3>2, <3>3, <4>1, <4>2 DEF Staged, Chosen
    <3>5. \A s \in Reloads : reload[s].at # "loaded"
      BY <1>1, <1>2, <3>1, Stages DEF Settling, Alone, Idle
    <3>6. QED
      BY <3>1, <3>3, <3>4, <3>5 DEF Followed
  <2> HIDE DEF w
  <2>6. QED
    BY <1>1, <1>2, <1>3, <2>1, <2>3, <2>5, StageSettles DEF Settling, TypeOK, history
<1>5. CASE ~(reload[r].at = "on" \/ stopper)
  <2>1. Dies /\ write' = Nothing /\ editor' = Nothing /\ UNCHANGED file
    BY <1>5 DEF TurnAwake
  <2>2. edits' \in 0..MaxEdits
    BY <1>1 DEF Settling, TypeOK
  <2>3. QED
    BY <1>1, <2>1, <2>2, DeathSettles
<1>6. QED
  BY <1>4, <1>5

LEMMA RehostSettles == ASSUME NEW r \in Reloads PROVE Settling /\ Rehost(r) => Settling'
<1> SUFFICES ASSUME Settling, Rehost(r) PROVE Settling'
  OBVIOUS
<1>1. /\ reload[r].at = "backend" /\ reload' = [reload EXCEPT ![r] = Idle]
      /\ UNCHANGED <<file, write, editor, up, watching, live, due, keepers, stopper, wanted, crossed,
                     missed, edits>>
  BY DEF Rehost, files, history
<1>2. /\ reload[r] # Idle
      /\ reload[r] \in [at : {"screen", "on", "off", "backend"}, old : Configs, new : Configs]
  BY <1>1, Stages DEF Settling, Idle
<1>3. IF Chosen(reload[r]) THEN active' = reload[r].new.backend /\ stored' = active'
      ELSE UNCHANGED <<active, stored>>
  BY <1>1 DEF Rehost, Chosen
<1>4. active' \in Installed /\ stored' \in Installed \cup {""}
  BY <1>3 DEF Chosen, Settling, TypeOK
<1>5. up /\ (stopper => keepers > 0)
  BY <1>2 DEF Settling, Life
<1>6. ASSUME ~crossed
      PROVE  /\ keepers = (IF stopper THEN 1 ELSE 0) /\ stopper = live.screen /\ active' = wanted
             /\ ~missed /\ ~due /\ Valid(file) => live = file
  <2>1. keepers = (IF stopper THEN 1 ELSE 0) /\ Staged(reload[r]) /\ Followed /\ Alone
    BY <1>2, <1>5, <1>6 DEF Settling, SettleInv
  <2>2. stopper = live.screen /\ wanted = IF Chosen(reload[r]) THEN reload[r].new.backend ELSE active
    BY <1>1, <2>1 DEF Staged
  <2>3. \A s \in Reloads : reload[s].at # "loaded"
    BY <1>1, <1>2, <2>1, Stages DEF Settling, Alone, Idle
  <2>4. QED
    BY <1>3, <2>1, <2>2, <2>3 DEF Followed
<1>7. QED
  BY <1>1, <1>2, <1>4, <1>5, <1>6, StageSettles DEF Settling, TypeOK

LEMMA SettleStep == Settling /\ [Next]_vars => Settling'
<1> SUFFICES ASSUME Settling, [Next]_vars PROVE Settling'
  OBVIOUS
<1>1. CASE Edit \/ Finish \/ SaveForm \/ SaveText \/ FetchText
  BY <1>1, EditSettles, FinishSettles, SavesSettle, FetchSettles
<1>2. CASE Start \/ Watch \/ Crash \/ Switch
  BY <1>2, StartSettles, WatchSettles, CrashSettles, SwitchSettles
<1>3. ASSUME NEW r \in Reloads,
             Fire(r) \/ SetLive(r) \/ LookAwake(r) \/ TurnAwake(r) \/ Rehost(r)
      PROVE  Settling'
  BY <1>3, FireSettles, SetLiveSettles, LookAwakeSettles, TurnAwakeSettles, RehostSettles
<1>4. CASE UNCHANGED vars
  <2>1. UNCHANGED <<file, write, editor, up, watching, live, due, reload, keepers, stopper, active,
                    stored, wanted, crossed, missed, edits>>
    BY <1>4 DEF vars, files, process, effects, history
  <2>2. TypeOK'
    BY <2>1 DEF Settling, TypeOK
  <2>3. QED
    BY <2>1, <2>2 DEF Settling, Life, SettleInv, Alone, Followed, Loaded, Running, Staged, Chosen, Valid
<1>5. QED
  BY <1>1, <1>2, <1>3, <1>4 DEF Next

LEMMA SettleInvariance == Spec => []Settling
<1>1. QED
  BY SettleInit, SettleStep, PTL DEF Spec

(* Every configuration, every stage of a reload and every backend is one   *)
(* of those the code can hold.                                             *)
THEOREM Typing == Spec => []TypeOK
<1>1. Settling => TypeOK
  BY DEF Settling
<1>2. QED
  BY <1>1, SettleInvariance, PTL

(* Unless reloads overlapped or the file changed before it was watched,    *)
(* the live configuration, the keep-awake loop and the backend follow what *)
(* the file says, however edits, saves, switches, restarts and reloads     *)
(* interleave.                                                             *)
THEOREM Settles == Spec => []Settled
<1>1. Settling => Settled
  <2> SUFFICES ASSUME Settling, Quiet, ~crossed, ~missed, Valid(file)
               PROVE  /\ live = file /\ keepers = (IF live.screen THEN 1 ELSE 0)
                      /\ stopper = live.screen /\ active = wanted
    BY DEF Settled
  <2>1. up /\ ~due /\ ~Running /\ \A r \in Reloads : reload[r] = Idle
    BY DEF Settling, TypeOK, Quiet, Running
  <2>2. Followed /\ keepers = (IF stopper THEN 1 ELSE 0) /\ stopper = live.screen /\ active = wanted
    BY <2>1 DEF Settling, SettleInv
  <2>3. live = file
    BY <2>1, <2>2 DEF Followed, Idle
  <2>4. QED
    BY <2>2, <2>3
<1>2. QED
  BY <1>1, SettleInvariance, PTL
=============================================================================
