------------------------- MODULE ConversationProofs -------------------------
(* Safety of the conversation records for any set of turns and             *)
(* conversations and any number of edits, lost sessions and restarts.      *)
EXTENDS Conversation, FiniteSetTheorems, SequenceTheorems, TLAPS

USE ConversationAssumption

-----------------------------------------------------------------------------
(* The records a conversation has: in memory, on disk, and the copies its  *)
(* turns, an edit and !compact work on.                                    *)
Holds(c, r) ==
    \/ r = store[c] \/ r = disk[c] \/ \E t \in Turns : ConvOf[t] = c /\ r = turn[t].copy
    \/ edit.of = c /\ r = edit.copy
    \/ c = Telegram /\ r = compaction.copy
HeldOf(c) == {r \in Held : Holds(c, r)}

(* Who works on a copy.                                                    *)
Copying == {"read"} \cup Running
Places ==
    /\ \A t \in Turns : turn[t].copy # Nothing <=> turn[t].at \in Copying
    /\ \A t \in Turns : turn[t].at = "retrying" => ~turn[t].copy.started
    /\ edit.copy # Nothing <=> edit.of # Nothing
    /\ compaction.copy # Nothing <=> compaction.at = "running"
    /\ store[Telegram] # Nothing /\ disk[Telegram] # Nothing
    /\ IsFiniteSet(cli)

(* telegramMu, and the lanes.                                              *)
Locked ==
    /\ compaction.at = "running" => telegramMu = "compact"
    /\ \A t \in Turns :
          ConvOf[t] = Telegram /\ turn[t].at \in Running \cup {"saved"} => telegramMu = t
Serial ==
    \A t, u \in Turns :
        t # u /\ turn[t].at \in InProgress /\ turn[u].at \in InProgress /\ ConvOf[t] = ConvOf[u]
            => ConvOf[t] \in Steered

(* Two conversations never come by the same session, and only the stream's *)
(* may be empty.                                                           *)
Apart ==
    /\ \A c, d \in Convs : c # d =>
          \A r \in HeldOf(c), s \in HeldOf(d) : r.session # s.session
    /\ \A c \in Convs \ {Telegram} : \A r \in HeldOf(c) : r.session # Empty

(* A history has a turn once, of its own conversation, that has run, and as*)
(* answered only when it succeeded.                                        *)
Once(h) == \A i, j \in DOMAIN h : h[i].turn = h[j].turn => i = j
Ran(t) == turn[t].at \notin {"new", "read"}
Succeeded(t) == turn[t].at \in {"saved", "ended"} /\ turn[t].result \notin {"none", "failed"}
Sound(c, h) ==
    /\ Once(h)
    /\ \A i \in DOMAIN h :
          /\ ConvOf[h[i].turn] = c /\ Ran(h[i].turn)
          /\ h[i].answered => Succeeded(h[i].turn)
Whole == \A c \in Convs : \A r \in HeldOf(c) : Sound(c, r.history)

(* Memory and disk have the same histories, and so has a copy that is not  *)
(* stale; a running turn's copy ends with its prompt.                      *)
SameHistory(r, s) == (r = Nothing <=> s = Nothing) /\ (r # Nothing => r.history = s.history)
Kept ==
    /\ \A c \in Convs : SameHistory(store[c], disk[c])
    /\ \A t \in Turns \ stale : turn[t].at \in Copying => SameHistory(turn[t].copy, disk[ConvOf[t]])
    /\ edit.of # Nothing /\ "edit" \notin stale => SameHistory(edit.copy, disk[edit.of])
Ends(h, t) == Len(h) >= 1 /\ h[Len(h)] = Entry(t, FALSE)
Pending == \A t \in Turns : turn[t].at \in Running => Ends(turn[t].copy.history, t)
Shared ==
    \A t \in Turns :
        turn[t].at \in Running /\ shares[ConvOf[t]] = t =>
            store[ConvOf[t]] # Nothing /\ store[ConvOf[t]].history = turn[t].copy.history

Mutual == Locked /\ Serial
Contents == Apart /\ Whole
Answers == Kept /\ Pending /\ Shared
Inv == TypeOK /\ Places /\ Mutual /\ Contents /\ Answers

-----------------------------------------------------------------------------
LEMMA ImageFinite ==
    ASSUME NEW S, IsFiniteSet(S), NEW f
    PROVE  IsFiniteSet({f[x] : x \in S})
<1> DEFINE T == {f[x] : x \in S}
           g == [x \in S |-> f[x]]
<1>1. g \in [S -> T] /\ \A y \in T : \E x \in S : g[x] = y
  OBVIOUS
<1>2. g \in Surjection(S, T)
  <2> HIDE DEF T, g
  <2>1. QED
    BY <1>1 DEF Surjection
<1>3. IsFiniteSet(T)
  <2> HIDE DEF T, g
  <2>1. QED
    BY <1>2, FS_Surjection
<1>4. QED
  BY <1>3

LEMMA TurnParts ==
    ASSUME TypeOK, NEW t \in Turns
    PROVE  /\ turn[t] \in [at : {"new", "ended"} \cup InProgress, copy : Records \cup {Nothing},
                           result : {"none", "answered", "untold", "unfounded", "failed"}]
           /\ ConvOf[t] \in Convs
BY DEF TypeOK

LEMMA HeldRecords == ASSUME TypeOK PROVE Held \subseteq Records
BY TurnParts DEF TypeOK, Held

LEMMA HeldFinite == ASSUME TypeOK PROVE IsFiniteSet(Held)
<1> DEFINE S == {store[c] : c \in Convs}
           D == {disk[c] : c \in Convs}
           T == {turn[t].copy : t \in Turns}
           copies == [t \in Turns |-> turn[t].copy]
<1>1. IsFiniteSet(S) /\ IsFiniteSet(D)
  BY ImageFinite
<1>2. IsFiniteSet({copies[t] : t \in Turns})
  <2> HIDE DEF copies
  <2>1. QED
    BY ImageFinite
<1>3. T = {copies[t] : t \in Turns}
  OBVIOUS
<1>4. IsFiniteSet({edit.copy, compaction.copy})
  <2>1. IsFiniteSet({edit.copy})
    BY FS_Singleton
  <2>2. IsFiniteSet({edit.copy} \cup {compaction.copy})
    BY <2>1, FS_AddElement
  <2>3. {edit.copy} \cup {compaction.copy} = {edit.copy, compaction.copy}
    OBVIOUS
  <2>4. QED
    BY <2>2, <2>3
<1>5. IsFiniteSet(S \cup D \cup T \cup {edit.copy, compaction.copy})
  <2>1. IsFiniteSet(T)
    BY <1>2, <1>3
  <2> HIDE DEF S, D, T
  <2>2. QED
    BY <1>1, <1>4, <2>1, FS_Union
<1>6. Held \subseteq S \cup D \cup T \cup {edit.copy, compaction.copy}
  BY DEF Held
<1>7. QED
  <2> HIDE DEF S, D, T
  <2>1. QED
    BY <1>5, <1>6, FS_Subset

LEMMA UsedFinite == ASSUME TypeOK, Places PROVE IsFiniteSet(Used)
<1> DEFINE session == [r \in Held |-> r.session]
           id == [s \in cli |-> s[2]]
           R == {r.session : r \in Held}
           I == {s[2] : s \in cli}
<1>1. IsFiniteSet({session[r] : r \in Held}) /\ IsFiniteSet({id[s] : s \in cli})
  <2>1. IsFiniteSet(Held) /\ IsFiniteSet(cli)
    BY HeldFinite DEF Places
  <2> HIDE DEF session, id
  <2>2. QED
    BY <2>1, ImageFinite
<1>2. R = {session[r] : r \in Held} /\ I = {id[s] : s \in cli}
  OBVIOUS
<1>3. IsFiniteSet(R) /\ IsFiniteSet(I) /\ IsFiniteSet({Empty})
  BY <1>1, <1>2, FS_Singleton
<1>4. IsFiniteSet({Empty} \cup R \cup I)
  <2> HIDE DEF R, I
  <2>1. QED
    BY <1>3, FS_Union
<1>5. QED
  BY <1>4 DEF Used

(* There is always an ID that nothing refers to.                           *)
LEMMA FreshNew ==
    ASSUME TypeOK, Places
    PROVE  Fresh \in Nat /\ Fresh \notin Used
<1> DEFINE n == Cardinality(Used)
<1>1. IsFiniteSet(Used) /\ n \in Nat
  BY UsedFinite, FS_CardinalityType
<1>2. \E k \in 1..(n + 1) : k \notin Used
  <2> SUFFICES ASSUME 1..(n + 1) \subseteq Used PROVE FALSE
    OBVIOUS
  <2>1. Cardinality(1..(n + 1)) <= n
    BY <1>1, FS_Subset
  <2>2. Cardinality(1..(n + 1)) = n + 1
    <3> HIDE DEF n
    <3>1. 1 \in Int /\ n + 1 \in Int /\ ~(1 > n + 1) /\ (n + 1) - 1 + 1 = n + 1
      BY <1>1
    <3>2. Cardinality(1..(n + 1)) = IF 1 > n + 1 THEN 0 ELSE (n + 1) - 1 + 1
      BY <3>1, FS_Interval
    <3>3. QED
      BY <3>1, <3>2
  <2> HIDE DEF n
  <2>3. QED
    BY <1>1, <2>1, <2>2
<1>3. Fresh \in 1..(n + 1) /\ Fresh \notin Used
  BY <1>2 DEF Fresh
<1>4. QED
  <2> HIDE DEF n
  <2>1. QED
    BY <1>1, <1>3

-----------------------------------------------------------------------------
(* What a step does to the records: each place keeps its copy, drops it,   *)
(* takes the one in memory or on disk or, in one conversation, gets a new  *)
(* one.                                                                    *)
PlacesKeep(k, n) ==
    /\ \A c \in Convs :
          /\ store'[c] \in {store[c], disk[c], Nothing} \cup (IF c = k THEN {n} ELSE {})
          /\ disk'[c] \in {store[c], disk[c], Nothing} \cup (IF c = k THEN {n} ELSE {})
    /\ \A t \in Turns : turn'[t].copy \in {turn[t].copy, store[ConvOf[t]], Nothing}
                                          \cup (IF ConvOf[t] = k THEN {n} ELSE {})
    /\ edit' = edit \/ edit'.copy = Nothing
       \/ \E c \in Convs : edit'.of = c /\ edit'.copy = store[c]
    /\ compaction'.copy \in {compaction.copy, store[Telegram], Nothing}

(* What has run stays run, what succeeded stays so.                        *)
Goes == \A t \in Turns : (Ran(t) => Ran(t)') /\ (Succeeded(t) => Succeeded(t)')

LEMMA Growth ==
    ASSUME NEW k \in Convs, NEW n, PlacesKeep(k, n), NEW c \in Convs, NEW r \in HeldOf(c)'
    PROVE  r \in HeldOf(c) \/ (c = k /\ r = n)
<1>1. r # Nothing /\ Holds(c, r)'
  BY DEF HeldOf, Held
<1>2. r = store[c] \/ r = disk[c] => r \in HeldOf(c)
  BY <1>1 DEF HeldOf, Held, Holds
<1>3. CASE r = store'[c] \/ r = disk'[c]
  BY <1>1, <1>2, <1>3 DEF PlacesKeep
<1>4. ASSUME NEW t \in Turns, ConvOf[t] = c, r = turn'[t].copy
      PROVE  r \in HeldOf(c) \/ (c = k /\ r = n)
  <2>1. r = turn[t].copy => r \in HeldOf(c)
    BY <1>1, <1>4 DEF HeldOf, Held, Holds
  <2>2. QED
    BY <1>1, <1>2, <1>4, <2>1 DEF PlacesKeep
<1>5. CASE edit'.of = c /\ r = edit'.copy
  <2>1. edit' = edit => r \in HeldOf(c)
    BY <1>1, <1>5 DEF HeldOf, Held, Holds
  <2>2. QED
    BY <1>1, <1>2, <1>5, <2>1 DEF PlacesKeep
<1>6. CASE c = Telegram /\ r = compaction'.copy
  <2>1. r = compaction.copy => r \in HeldOf(c)
    BY <1>1, <1>6 DEF HeldOf, Held, Holds
  <2>2. QED
    BY <1>1, <1>2, <1>6, <2>1 DEF PlacesKeep
<1>7. QED
  BY <1>1, <1>3, <1>4, <1>5, <1>6 DEF Holds

LEMMA SeqElement == ASSUME NEW S, NEW h \in Seq(S) PROVE \A i \in DOMAIN h : h[i] \in S
OBVIOUS

LEMMA SoundStays ==
    ASSUME Goes, NEW c, NEW h \in Seq([turn : Turns, answered : BOOLEAN]), Sound(c, h)
    PROVE  Sound(c, h)'
<1>1. \A i \in DOMAIN h : h[i].turn \in Turns
  <2>1. \A i \in DOMAIN h : h[i] \in [turn : Turns, answered : BOOLEAN]
    BY SeqElement
  <2>2. QED
    BY <2>1
<1>2. \A i \in DOMAIN h : Ran(h[i].turn)' /\ (h[i].answered => Succeeded(h[i].turn)')
  BY <1>1 DEF Goes, Sound
<1>3. QED
  BY <1>2 DEF Sound

LEMMA HeldOfRecords == ASSUME TypeOK, NEW c PROVE HeldOf(c) \subseteq Records \cap Held
BY HeldRecords DEF HeldOf

(* Sessions stay apart: a new record has a session of its conversation, a  *)
(* fresh one or, in the stream, none.                                      *)
LEMMA StepContents ==
    ASSUME Inv, Goes, NEW k \in Convs, NEW n \in Records, PlacesKeep(k, n), Sound(k, n.history)',
           \/ n.session = Fresh \/ (k = Telegram /\ n.session = Empty)
           \/ \E r \in HeldOf(k) : n.session = r.session
    PROVE  Contents'
<1>1. TypeOK /\ Places /\ Apart /\ Whole
  BY DEF Inv, Contents
<1>2. \A d \in Convs : d # k => \A s \in HeldOf(d) : n.session # s.session
  <2> SUFFICES ASSUME NEW d \in Convs, d # k, NEW s \in HeldOf(d) PROVE n.session # s.session
    OBVIOUS
  <2>1. s.session # Fresh
    <3>1. s.session \in Used
      BY <1>1, HeldOfRecords DEF Used
    <3>2. QED
      BY <1>1, <3>1, FreshNew
  <2>2. k = Telegram => s.session # Empty
    BY <1>1 DEF Apart
  <2>3. \A r \in HeldOf(k) : r.session # s.session
    BY <1>1 DEF Apart
  <2>4. QED
    BY <2>1, <2>2, <2>3
<1>3. k # Telegram => n.session # Empty
  <2>1. Fresh # Empty
    BY <1>1, FreshNew DEF Used
  <2>2. QED
    BY <1>1, <2>1 DEF Apart
<1>4. Apart'
  <2>1. ASSUME NEW c \in Convs, NEW d \in Convs, c # d, NEW r \in HeldOf(c)', NEW s \in HeldOf(d)'
        PROVE  r.session # s.session
    <3>1. r \in HeldOf(c) \/ (c = k /\ r = n)
      BY Growth
    <3>2. s \in HeldOf(d) \/ (d = k /\ s = n)
      BY Growth
    <3>3. QED
      BY <1>1, <1>2, <2>1, <3>1, <3>2 DEF Apart
  <2>2. ASSUME NEW c \in Convs \ {Telegram}, NEW r \in HeldOf(c)'
        PROVE  r.session # Empty
    <3>1. r \in HeldOf(c) \/ (c = k /\ r = n)
      BY Growth
    <3>2. QED
      BY <1>1, <1>3, <3>1 DEF Apart
  <2>3. QED
    BY <2>1, <2>2 DEF Apart
<1>5. Whole'
  <2> SUFFICES ASSUME NEW c \in Convs, NEW r \in HeldOf(c)' PROVE Sound(c, r.history)'
    BY DEF Whole
  <2>1. r \in HeldOf(c) \/ (c = k /\ r = n)
    BY Growth
  <2>2. CASE r \in HeldOf(c)
    <3>1. Sound(c, r.history)
      BY <1>1, <2>2 DEF Whole
    <3>2. r.history \in Seq([turn : Turns, answered : BOOLEAN])
      <4>1. r \in Records
        BY <1>1, <2>2, HeldOfRecords
      <4>2. QED
        BY <4>1 DEF Records
    <3>3. QED
      BY <3>1, <3>2, SoundStays
  <2>3. CASE c = k /\ r = n
    BY <2>3
  <2>4. QED
    BY <2>1, <2>2, <2>3
<1>6. QED
  BY <1>4, <1>5 DEF Contents

(* A record of the conversation with another history or session.           *)
LEMMA StepSame ==
    ASSUME Inv, Goes, PlacesKeep(Telegram, store[Telegram])
    PROVE  Contents'
<1>1. PICK n : n = store[Telegram]
  OBVIOUS
<1>2. n \in Records /\ n \in HeldOf(Telegram)
  BY <1>1 DEF Inv, TypeOK, Places, HeldOf, Held, Holds
<1>3. Sound(Telegram, n.history)
  BY <1>2 DEF Inv, Contents, Whole
<1>4. Sound(Telegram, n.history)'
  BY <1>2, <1>3, SoundStays DEF Records
<1>5. PlacesKeep(Telegram, n)
  BY <1>1
<1>6. QED
  BY <1>2, <1>4, <1>5, StepContents

(* A writer saves: the others' copies of the record are stale from then on.*)
LEMMA WriteAnswers ==
    ASSUME Inv, NEW c \in Convs, NEW w, NEW record,
           store' = [store EXCEPT ![c] = record], disk' = store', shares' = [shares EXCEPT ![c] = w],
           (stale \cup Others(c, w)) \ {w} \subseteq stale',
           \A t \in Turns : t # w => turn'[t] = turn[t],
           w \in Turns /\ turn'[w].at \in Copying =>
              turn'[w].copy = record /\ ConvOf[w] = c /\ record # Nothing,
           edit'.of # Nothing => edit' = edit /\ w # "edit"
    PROVE  Kept' /\ Shared'
<1>1. TypeOK /\ Kept /\ Shared
  BY DEF Inv, Answers
<1>2. /\ store'[c] = record /\ disk'[c] = record
      /\ \A d \in Convs : d # c => store'[d] = store[d] /\ disk'[d] = store[d]
  BY <1>1 DEF TypeOK
<1>3. ASSUME NEW d \in Convs, d # c PROVE SameHistory(disk'[d], disk[d])
  BY <1>1, <1>2, <1>3 DEF Kept, SameHistory
<1>4. ASSUME NEW t \in Turns \ stale', turn'[t].at \in Copying
      PROVE  SameHistory(turn'[t].copy, disk'[ConvOf[t]])
  <2>1. CASE t = w
    BY <1>2, <1>4, <2>1 DEF SameHistory
  <2>2. CASE t # w
    <3>1. turn'[t] = turn[t] /\ t \notin stale /\ t \notin Others(c, w)
      BY <2>2
    <3>2. ConvOf[t] # c
      BY <1>4, <2>2, <3>1 DEF Others, Copying
    <3>3. ConvOf[t] \in Convs /\ SameHistory(turn[t].copy, disk[ConvOf[t]])
      BY <1>1, <1>4, <3>1 DEF Kept
    <3>4. QED
      BY <1>3, <3>1, <3>2, <3>3 DEF SameHistory
  <2>3. QED
    BY <2>1, <2>2
<1>5. ASSUME edit'.of # Nothing, "edit" \notin stale'
      PROVE  SameHistory(edit'.copy, disk'[edit'.of])
  <2>1. edit' = edit /\ "edit" \notin stale /\ "edit" \notin Others(c, w) /\ w # "edit"
    BY <1>5
  <2>2. edit.of # c /\ edit.of \in Convs
    BY <1>1, <1>5, <2>1 DEF Others, TypeOK
  <2>3. QED
    BY <1>1, <1>3, <1>5, <2>1, <2>2 DEF Kept, SameHistory
<1>6. Kept'
  <2>1. \A d \in Convs : SameHistory(store'[d], disk'[d])
    BY DEF SameHistory
  <2>2. QED
    BY <1>4, <1>5, <2>1 DEF Kept
<1>7. Shared'
  <2> SUFFICES ASSUME NEW t \in Turns, turn'[t].at \in Running, shares'[ConvOf[t]] = t
               PROVE  /\ store'[ConvOf[t]] # Nothing
                      /\ store'[ConvOf[t]].history = turn'[t].copy.history
    BY DEF Shared
  <2>1. CASE t = w
    BY <1>2, <2>1 DEF Copying
  <2>2. CASE t # w
    <3>1. ConvOf[t] # c /\ ConvOf[t] \in Convs
      BY <1>1, <2>2 DEF TypeOK
    <3>2. QED
      BY <1>1, <1>2, <2>2, <3>1 DEF TypeOK, Shared
  <2>3. QED
    BY <2>1, <2>2
<1>8. QED
  BY <1>6, <1>7

(* Nothing is saved: copies are dropped, read or keep their history.       *)
LEMMA SameAnswers == ASSUME NEW r, NEW s, SameHistory(r, s) PROVE AnsweredIn(r) = AnsweredIn(s)
BY DEF SameHistory, AnsweredIn

LEMMA StayAnswers ==
    ASSUME Inv, disk' = disk, shares' = shares,
           \A c \in Convs : SameHistory(store'[c], store[c]),
           \A t \in Turns : turn'[t].at \in Copying =>
              \/ turn'[t].at = "read" /\ turn'[t].copy = store[ConvOf[t]]
              \/ /\ turn[t].at \in Copying /\ SameHistory(turn'[t].copy, turn[t].copy)
                 /\ turn'[t].at \in Running => turn[t].at \in Running
                 /\ t \in stale => t \in stale',
           edit'.of # Nothing =>
              \/ edit' = edit /\ ("edit" \in stale => "edit" \in stale')
              \/ edit'.of \in Convs /\ edit'.copy = store[edit'.of]
    PROVE  Answers'
<1>1. TypeOK /\ Kept /\ Pending /\ Shared
  BY DEF Inv, Answers
<1>2. \A c \in Convs : SameHistory(store'[c], disk'[c])
                       /\ SameHistory(store[c], disk'[c])
  BY <1>1 DEF Kept, SameHistory
<1>3. ASSUME NEW t \in Turns \ stale', turn'[t].at \in Copying
      PROVE  SameHistory(turn'[t].copy, disk'[ConvOf[t]])
  <2>1. ConvOf[t] \in Convs
    BY <1>1
  <2>2. CASE turn'[t].copy = store[ConvOf[t]]
    BY <1>2, <2>1, <2>2
  <2>3. CASE turn[t].at \in Copying /\ SameHistory(turn'[t].copy, turn[t].copy) /\ t \notin stale
    <3>1. SameHistory(turn[t].copy, disk[ConvOf[t]])
      BY <1>1, <2>3 DEF Kept
    <3>2. QED
      BY <2>3, <3>1 DEF SameHistory
  <2>4. QED
    BY <1>3, <2>2, <2>3
<1>4. ASSUME edit'.of # Nothing, "edit" \notin stale'
      PROVE  SameHistory(edit'.copy, disk'[edit'.of])
  BY <1>1, <1>2, <1>4 DEF Kept
<1>5. Kept'
  BY <1>2, <1>3, <1>4 DEF Kept
<1>6. Shared'
  <2> SUFFICES ASSUME NEW t \in Turns, turn'[t].at \in Running, shares[ConvOf[t]] = t
               PROVE  /\ store'[ConvOf[t]] # Nothing
                      /\ store'[ConvOf[t]].history = turn'[t].copy.history
    BY DEF Shared
  <2>1. turn[t].at \in Running /\ SameHistory(turn'[t].copy, turn[t].copy) /\ turn[t].copy # Nothing
    BY DEF Running, Copying, Inv, Places
  <2>2. store[ConvOf[t]] # Nothing /\ store[ConvOf[t]].history = turn[t].copy.history
    BY <1>1, <2>1 DEF Shared
  <2>3. QED
    BY <1>1, <2>1, <2>2 DEF SameHistory
<1>7. Pending'
  <2> SUFFICES ASSUME NEW t \in Turns, turn'[t].at \in Running PROVE Ends(turn'[t].copy.history, t)
    BY DEF Pending
  <2>1. turn[t].at \in Running /\ turn'[t].copy.history = turn[t].copy.history
    BY DEF Running, Copying, Inv, Places, SameHistory
  <2>2. QED
    BY <1>1, <2>1 DEF Pending
<1>8. QED
  BY <1>5, <1>6, <1>7 DEF Answers

-----------------------------------------------------------------------------
TurnRecords == [at : {"new", "ended"} \cup InProgress, copy : Records \cup {Nothing},
                result : {"none", "answered", "untold", "unfounded", "failed"}]
MuSound ==
    telegramMu \in {Nothing} \cup {t \in Turns : turn[t].at \in Running \cup {"saved"}}
                   \cup {c \in {"compact"} : compaction.at = "running"}

(* One turn moves.  It comes to be in progress only when admitted, and     *)
(* takes telegramMu only when it is free.                                  *)
Moves(t, w) ==
    /\ turn' = [turn EXCEPT ![t] = w]
    /\ w.copy # Nothing <=> w.at \in Copying
    /\ w.at = "retrying" => ~w.copy.started
    /\ Ran(t) => w.at \notin {"new", "read"}
    /\ Succeeded(t) => w.at \in {"saved", "ended"} /\ w.result = turn[t].result
    /\ \/ w.at \notin InProgress \/ turn[t].at \in InProgress \/ ConvOf[t] \in Steered
       \/ \A u \in Turns : ConvOf[u] = ConvOf[t] => turn[u].at \notin InProgress
    /\ w.at \in Running \cup {"saved"} /\ ConvOf[t] = Telegram => telegramMu' = t
    /\ telegramMu' = t => w.at \in Running \cup {"saved"}
    /\ \/ telegramMu' = telegramMu
       \/ telegramMu' = t /\ telegramMu = Nothing
       \/ telegramMu = t /\ telegramMu' = Nothing
    /\ IsFiniteSet(cli') /\ cli' \subseteq Backends \X Nat
    /\ UNCHANGED <<edit, compaction, bounds>>

LEMMA TurnStep ==
    ASSUME Inv, NEW t \in Turns, NEW w \in TurnRecords, Moves(t, w),
           store'[Telegram] # Nothing, disk'[Telegram] # Nothing
    PROVE  /\ Goes /\ Places' /\ Mutual' /\ MuSound' /\ turn' \in [Turns -> TurnRecords]
           /\ turn'[t] = w /\ \A u \in Turns : u # t => turn'[u] = turn[u]
<1>1. TypeOK /\ Places /\ Locked /\ Serial /\ MuSound
  BY DEF Inv, Mutual, TypeOK, MuSound
<1>2. /\ turn'[t] = w /\ \A u \in Turns : u # t => turn'[u] = turn[u]
      /\ turn' \in [Turns -> TurnRecords]
  BY <1>1 DEF TypeOK, TurnRecords, Moves
<1>3. Goes
  BY <1>2 DEF Goes, Ran, Succeeded, Moves
<1>4. Places'
  BY <1>1, <1>2 DEF Places, Moves
<1>5. Locked'
  <2>1. compaction'.at = "running" => telegramMu' = "compact"
    BY <1>1 DEF Locked, Moves
  <2>2. ASSUME NEW u \in Turns, ConvOf[u] = Telegram, turn'[u].at \in Running \cup {"saved"}
        PROVE  telegramMu' = u
    BY <1>1, <1>2, <2>2 DEF Locked, Moves
  <2>3. QED
    BY <2>1, <2>2 DEF Locked
<1>6. Serial'
  BY <1>1, <1>2 DEF Serial, Moves
<1>7. MuSound'
  BY <1>1, <1>2 DEF MuSound, Moves
<1>8. QED
  BY <1>2, <1>3, <1>4, <1>5, <1>6, <1>7 DEF Mutual

(* A turn that moves and saves nothing.                                    *)
LEMMA QuietTurn ==
    ASSUME Inv, NEW t \in Turns, NEW w \in TurnRecords, Moves(t, w),
           UNCHANGED <<store, disk, shares>>,
           stale' = stale \/ (stale' = stale \ {t} /\ w.at \notin Copying),
           w.at \in Copying =>
              \/ w.at = "read" /\ w.copy = store[ConvOf[t]]
              \/ w.copy = turn[t].copy /\ turn[t].at \in Copying
                 /\ (w.at \in Running => turn[t].at \in Running)
    PROVE  Inv'
<1>1. TypeOK /\ Places
  BY DEF Inv
<1>2. /\ Goes /\ Places' /\ Mutual' /\ MuSound' /\ turn' \in [Turns -> TurnRecords]
      /\ turn'[t] = w /\ \A u \in Turns : u # t => turn'[u] = turn[u]
  BY <1>1, TurnStep DEF Places
<1>3. TypeOK'
  BY <1>1, <1>2 DEF TypeOK, MuSound, TurnRecords, Moves, bounds
<1>4. PlacesKeep(Telegram, store[Telegram])
  BY <1>1, <1>2 DEF PlacesKeep, Moves, Places
<1>5. Contents'
  BY <1>2, <1>4, StepSame
<1>6. Answers'
  <2>1. \A c \in Convs : SameHistory(store'[c], store[c])
    BY DEF SameHistory
  <2>2. \A u \in Turns : turn'[u].at \in Copying =>
              \/ turn'[u].at = "read" /\ turn'[u].copy = store[ConvOf[u]]
              \/ /\ turn[u].at \in Copying /\ SameHistory(turn'[u].copy, turn[u].copy)
                 /\ turn'[u].at \in Running => turn[u].at \in Running
                 /\ u \in stale => u \in stale'
    BY <1>2 DEF SameHistory
  <2>3. edit' = edit /\ ("edit" \in stale => "edit" \in stale')
    BY DEF Moves
  <2>4. QED
    BY <2>1, <2>2, <2>3, StayAnswers
<1>7. QED
  BY <1>2, <1>3, <1>5, <1>6 DEF Inv

(* A turn that moves and saves.                                            *)
LEMMA SavingTurn ==
    ASSUME Inv, NEW t \in Turns, NEW w \in TurnRecords, Moves(t, w), NEW n \in Records,
           Save(ConvOf[t], t, n), w.at \in Copying => w.copy = n, w.at \in Running => Ends(n.history, t),
           Sound(ConvOf[t], n.history)',
           n.session = Fresh \/ \E r \in HeldOf(ConvOf[t]) : n.session = r.session
    PROVE  Inv'
<1> DEFINE c == ConvOf[t]
<1>1. TypeOK /\ Places /\ c \in Convs
  BY DEF Inv
<1>2. /\ store' = [store EXCEPT ![c] = n] /\ disk' = store' /\ shares' = [shares EXCEPT ![c] = t]
      /\ stale' = (stale \cup Others(c, t)) \ {t}
  BY DEF Save
<1>3. store'[c] = n /\ \A d \in Convs : d # c => store'[d] = store[d]
  BY <1>1, <1>2 DEF TypeOK
<1>4. store'[Telegram] # Nothing /\ disk'[Telegram] # Nothing
  BY <1>1, <1>2, <1>3 DEF Places
<1>5. /\ Goes /\ Places' /\ Mutual' /\ MuSound' /\ turn' \in [Turns -> TurnRecords]
      /\ turn'[t] = w /\ \A u \in Turns : u # t => turn'[u] = turn[u]
  BY <1>4, TurnStep
<1>6. TypeOK'
  <2>1. Others(c, t) \subseteq Turns \cup {"edit", "compact"}
    BY DEF Others
  <2>2. store' \in [Convs -> Records \cup {Nothing}] /\ disk' \in [Convs -> Records \cup {Nothing}]
    BY <1>1, <1>2 DEF TypeOK
  <2>3. shares' \in [Convs -> Turns \cup {Nothing, "edit", "compact"}]
    BY <1>1, <1>2 DEF TypeOK
  <2>4. stale' \subseteq Turns \cup {"edit", "compact"}
    BY <1>1, <1>2, <2>1 DEF TypeOK
  <2>5. QED
    BY <1>1, <1>5, <2>2, <2>3, <2>4 DEF TypeOK, MuSound, TurnRecords, Moves, bounds
<1>7. PlacesKeep(c, n)
  BY <1>1, <1>2, <1>3, <1>5 DEF PlacesKeep, Moves, Places
<1>8. Contents'
  <2>1. PICK k : k = c
    OBVIOUS
  <2>2. k \in Convs /\ PlacesKeep(k, n) /\ Sound(k, n.history)'
    BY <1>1, <1>7, <2>1
  <2>3. \/ n.session = Fresh \/ (k = Telegram /\ n.session = Empty)
        \/ \E r \in HeldOf(k) : n.session = r.session
    BY <2>1
  <2>4. QED
    BY <1>5, <2>2, <2>3, StepContents
<1>9. Answers'
  <2>1. edit' = edit /\ t # "edit"
    BY DEF Moves
  <2> HIDE DEF c
  <2>2. t \in Turns /\ turn'[t].at \in Copying => turn'[t].copy = n /\ ConvOf[t] = c /\ n # Nothing
    BY <1>5 DEF c
  <2>3. (stale \cup Others(c, t)) \ {t} \subseteq stale'
    BY <1>2
  <2>4. Kept' /\ Shared'
    BY <1>1, <1>2, <1>5, <2>1, <2>2, <2>3, WriteAnswers
  <2>5. Pending'
    <3> SUFFICES ASSUME NEW u \in Turns, turn'[u].at \in Running PROVE Ends(turn'[u].copy.history, u)
      BY DEF Pending
    <3>1. CASE u = t
      BY <1>5, <3>1 DEF Running, Copying
    <3>2. CASE u # t
      BY <1>5, <3>2 DEF Inv, Answers, Pending
    <3>3. QED
      BY <3>1, <3>2
  <2>6. QED
    BY <2>4, <2>5 DEF Answers
<1>10. QED
  BY <1>5, <1>6, <1>8, <1>9 DEF Inv

-----------------------------------------------------------------------------
LEMMA MuHolder ==
    ASSUME Inv, NEW t \in Turns, telegramMu = t
    PROVE  turn[t].at \in Running \cup {"saved"}
BY DEF Inv, TypeOK

LEMMA Stays == ASSUME Inv PROVE IsFiniteSet(cli) /\ cli \subseteq Backends \X Nat
BY DEF Inv, TypeOK, Places

LEMMA ReadInv ==
    ASSUME Inv, NEW t \in Turns, ReadTelegram(t) \/ ReadWeb(t)
    PROVE  Inv'
<1>1. /\ Admitted(t) /\ ConvOf[t] \in Convs
      /\ TurnedAway(t) \/ (store[ConvOf[t]] # Nothing /\ Copies(t))
  BY DEF ReadTelegram, ReadWeb, Inv, Places
<1>2. /\ turn[t].at = "new" /\ telegramMu # t
      /\ UNCHANGED <<store, disk, shares, stale, telegramMu, compaction, edit, cli, bounds>>
      /\ ConvOf[t] \in Steered
         \/ \A u \in Turns : ConvOf[u] = ConvOf[t] => turn[u].at \notin InProgress
  BY <1>1, MuHolder DEF Admitted, recordVars, Running
<1>3. CASE TurnedAway(t)
  <2> DEFINE w == Turn("ended", Nothing, "failed")
  <2>1. w \in TurnRecords /\ w.at = "ended" /\ w.copy = Nothing
    BY DEF Turn, TurnRecords
  <2>2. Moves(t, w)
    BY <1>2, <1>3, <2>1, Stays
       DEF Moves, TurnedAway, Ran, Succeeded, InProgress, Running, Copying
  <2> HIDE DEF w
  <2>3. QED
    BY <1>2, <2>1, <2>2, QuietTurn DEF Copying, Running
<1>4. CASE store[ConvOf[t]] # Nothing /\ Copies(t)
  <2> DEFINE w == Turn("read", store[ConvOf[t]], "none")
  <2>1. /\ w \in TurnRecords /\ w.at = "read" /\ w.copy = store[ConvOf[t]] /\ w.copy # Nothing
    BY <1>1, <1>4 DEF Turn, TurnRecords, InProgress, Inv, TypeOK
  <2>2. Moves(t, w)
    BY <1>2, <1>4, <2>1, Stays
       DEF Moves, Copies, Ran, Succeeded, Running, Copying
  <2> HIDE DEF w
  <2>3. QED
    BY <1>2, <2>1, <2>2, QuietTurn
<1>5. QED
  BY <1>1, <1>3, <1>4

LEMMA BlockedInv == ASSUME Inv, NEW t \in Turns, Blocked(t) PROVE Inv'
<1> DEFINE w == Turn("ended", Nothing, "failed")
<1>1. /\ turn[t].at = "read" /\ turn' = [turn EXCEPT ![t] = w] /\ stale' = stale \ {t}
      /\ UNCHANGED <<store, disk, shares, telegramMu, compaction, edit, cli, bounds>>
  BY DEF Blocked
<1>2. w \in TurnRecords /\ w.at = "ended" /\ w.copy = Nothing
  BY DEF Turn, TurnRecords
<1>3. telegramMu # t
  BY <1>1, MuHolder DEF Running
<1>4. Moves(t, w)
  <2> HIDE DEF w
  <2>1. QED
    BY <1>1, <1>2, <1>3, Stays DEF Moves, Ran, Succeeded, InProgress, Running, Copying
<1> HIDE DEF w
<1>5. QED
  BY <1>1, <1>2, <1>4, QuietTurn DEF Copying, Running

LEMMA LostInv == ASSUME Inv, NEW t \in Turns, Lost(t) PROVE Inv'
<1> DEFINE w == [turn[t] EXCEPT !.at = "recovering"]
<1>1. /\ turn[t].at = "running" /\ turn' = [turn EXCEPT ![t] = w]
      /\ UNCHANGED <<store, disk, shares, stale, telegramMu, compaction, edit, cli, bounds>>
  BY DEF Lost, Resumes, recordVars, Inv, TypeOK
<1>2. /\ w \in TurnRecords /\ w.at = "recovering" /\ w.copy = turn[t].copy
  BY TurnParts DEF TurnRecords, InProgress, Running, Inv
<1>3. w.copy # Nothing /\ (ConvOf[t] = Telegram => telegramMu = t)
  BY <1>1, <1>2 DEF Inv, Mutual, Places, Locked, Copying, Running
<1>4. Moves(t, w)
  <2> HIDE DEF w
  <2>1. QED
    BY <1>1, <1>2, <1>3, Stays DEF Moves, Ran, Succeeded, InProgress, Running, Copying
<1> HIDE DEF w
<1>5. QED
  BY <1>1, <1>2, <1>4, QuietTurn DEF Copying, Running

LEMMA RunningTurn ==
    ASSUME Inv, NEW t \in Turns, turn[t].at \in Running
    PROVE  /\ turn[t].copy \in Records /\ turn[t].copy # Nothing /\ Session(t) \in Backends \X Nat
           /\ turn[t].copy \in HeldOf(ConvOf[t]) /\ ConvOf[t] \in Convs
           /\ ConvOf[t] = Telegram => telegramMu = t
<1>1. turn[t].copy \in Records /\ turn[t].copy # Nothing /\ ConvOf[t] \in Convs
  BY TurnParts DEF Inv, Places, Copying
<1>2. turn[t].copy \in HeldOf(ConvOf[t])
  BY <1>1 DEF HeldOf, Held, Holds
<1>3. Session(t) \in Backends \X Nat
  BY <1>1 DEF Session, Records
<1>4. QED
  BY <1>1, <1>2, <1>3 DEF Inv, Mutual, Locked

LEMMA FailInv == ASSUME Inv, NEW t \in Turns, Fail(t) PROVE Inv'
<1> DEFINE w == Turn("ended", Nothing, "failed")
<1>1. /\ turn[t].at \in Running /\ turn' = [turn EXCEPT ![t] = w] /\ stale' = stale \ {t}
      /\ cli' \in {cli, cli \cup {Session(t)}} /\ Free(t)
      /\ UNCHANGED <<store, disk, shares, compaction, edit, bounds>>
  BY DEF Fail
<1>2. w \in TurnRecords /\ w.at = "ended" /\ w.copy = Nothing
  BY DEF Turn, TurnRecords
<1>3. IsFiniteSet(cli') /\ cli' \subseteq Backends \X Nat
  BY <1>1, Stays, RunningTurn, FS_AddElement
<1>4. Moves(t, w)
  <2> HIDE DEF w
  <2>1. QED
    BY <1>1, <1>2, <1>3 DEF Moves, Free, Ran, Succeeded, InProgress, Running, Copying
<1> HIDE DEF w
<1>5. QED
  BY <1>1, <1>2, <1>4, QuietTurn DEF Copying, Running

LEMMA ReplyInv == ASSUME Inv, NEW t \in Turns, Reply(t) PROVE Inv'
<1> DEFINE w == [turn[t] EXCEPT !.at = "ended"]
<1>1. /\ turn[t].at = "saved" /\ turn' = [turn EXCEPT ![t] = w] /\ Free(t)
      /\ UNCHANGED <<store, disk, shares, stale, compaction, edit, cli, bounds>>
  BY DEF Reply, recordVars, Inv, TypeOK
<1>2. /\ w \in TurnRecords /\ w.at = "ended" /\ w.copy = turn[t].copy /\ w.result = turn[t].result
  BY TurnParts DEF TurnRecords, Inv
<1>3. w.copy = Nothing
  BY <1>1, <1>2 DEF Inv, Places, Copying, Running
<1>4. Moves(t, w)
  <2> HIDE DEF w
  <2>1. QED
    BY <1>1, <1>2, <1>3, Stays DEF Moves, Free, Ran, Succeeded, InProgress, Running, Copying
<1> HIDE DEF w
<1>5. QED
  BY <1>1, <1>2, <1>4, QuietTurn DEF Copying, Running

-----------------------------------------------------------------------------
Entries == [turn : Turns, answered : BOOLEAN]

LEMMA MovesGo ==
    ASSUME Inv, NEW t \in Turns, NEW w \in TurnRecords, Moves(t, w)
    PROVE  Goes /\ turn'[t] = w /\ \A u \in Turns : u # t => turn'[u] = turn[u]
<1>1. turn'[t] = w /\ \A u \in Turns : u # t => turn'[u] = turn[u]
  BY DEF Inv, TypeOK, Moves
<1>2. QED
  BY <1>1 DEF Goes, Ran, Succeeded, Moves

LEMMA AppendElements ==
    ASSUME NEW S, NEW h \in Seq(S), NEW e \in S
    PROVE  /\ Append(h, e) \in Seq(S) /\ DOMAIN Append(h, e) = 1..(Len(h) + 1)
           /\ DOMAIN h = 1..Len(h) /\ Len(h) \in Nat
           /\ Append(h, e)[Len(h) + 1] = e /\ \A i \in 1..Len(h) : Append(h, e)[i] = h[i]
OBVIOUS

(* An entry of a turn that has none is added.                              *)
LEMMA AppendSound ==
    ASSUME Goes, NEW t \in Turns, NEW h \in Seq(Entries), Sound(ConvOf[t], h), NEW answered \in BOOLEAN,
           \A i \in DOMAIN h : h[i].turn # t, Ran(t)', answered => Succeeded(t)'
    PROVE  Append(h, Entry(t, answered)) \in Seq(Entries) /\ Sound(ConvOf[t], Append(h, Entry(t, answered)))'
<1> DEFINE e == Entry(t, answered)
           g == Append(h, e)
<1>1. e \in Entries /\ e.turn = t /\ e.answered = answered
  BY DEF Entry, Entries
<1>2. /\ g \in Seq(Entries) /\ DOMAIN g = 1..(Len(h) + 1) /\ DOMAIN h = 1..Len(h) /\ Len(h) \in Nat
      /\ g[Len(h) + 1] = e /\ \A i \in 1..Len(h) : g[i] = h[i]
  <2> HIDE DEF e
  <2>1. QED
    BY <1>1, AppendElements
<1>3. PICK k : k = g
  OBVIOUS
<1>4. Sound(ConvOf[t], h)'
  BY SoundStays DEF Entries
<1>5. Once(k)
  <2> HIDE DEF e, g
  <2>1. QED
    BY <1>1, <1>2, <1>3, <1>4 DEF Sound, Once
<1>6. \A i \in DOMAIN k : /\ ConvOf[k[i].turn] = ConvOf[t] /\ Ran(k[i].turn)'
                          /\ k[i].answered => Succeeded(k[i].turn)'
  <2> HIDE DEF e, g
  <2> SUFFICES ASSUME NEW i \in DOMAIN k
               PROVE  /\ ConvOf[k[i].turn] = ConvOf[t] /\ Ran(k[i].turn)'
                      /\ k[i].answered => Succeeded(k[i].turn)'
    OBVIOUS
  <2>1. CASE i = Len(h) + 1
    BY <1>1, <1>2, <1>3, <2>1
  <2>2. CASE i # Len(h) + 1
    <3>1. i \in DOMAIN h /\ k[i] = h[i]
      BY <1>2, <1>3, <2>2
    <3>2. QED
      BY <1>4, <3>1 DEF Sound
  <2>3. QED
    BY <2>1, <2>2
<1>7. Sound(ConvOf[t], k)'
  BY <1>5, <1>6 DEF Sound
<1>8. QED
  BY <1>2, <1>3, <1>7

(* recordCompletedTurn: the pending entry is answered, or one is added.    *)
LEMMA CompletedSound ==
    ASSUME Goes, NEW t \in Turns, NEW h \in Seq(Entries), Sound(ConvOf[t], h),
           ~Succeeded(t), Succeeded(t)', Ran(t)'
    PROVE  Completed(h, t) \in Seq(Entries) /\ Sound(ConvOf[t], Completed(h, t))'
<1>1. \A i \in DOMAIN h : h[i] \in Entries
  BY SeqElement
<1>2. CASE \E i \in DOMAIN h : h[i] = Entry(t, FALSE)
  <2> DEFINE g == [i \in DOMAIN h |-> IF h[i] = Entry(t, FALSE) THEN Entry(t, TRUE) ELSE h[i]]
  <2>1. Completed(h, t) = g
    BY <1>2 DEF Completed
  <2>2. \A i \in DOMAIN h : g[i] \in Entries
    BY <1>1 DEF Entry, Entries
  <2>3. g \in Seq(Entries)
    <3>1. DOMAIN h = 1..Len(h) /\ Len(h) \in Nat
      OBVIOUS
    <3>2. g \in [1..Len(h) -> Entries]
      BY <2>2, <3>1
    <3> HIDE DEF g
    <3>3. QED
      BY <3>1, <3>2
  <2>4. \A i \in DOMAIN h : g[i].turn = h[i].turn
                            /\ (g[i].answered => h[i].answered \/ h[i].turn = t)
    BY <1>1 DEF Entry, Entries
  <2>5. PICK k : k = g
    OBVIOUS
  <2>6. Sound(ConvOf[t], h)'
    BY SoundStays DEF Entries
  <2>7. DOMAIN k = DOMAIN h
    BY <2>5
  <2>8. Sound(ConvOf[t], k)'
    <3> HIDE DEF g
    <3>1. QED
      BY <2>4, <2>5, <2>6, <2>7 DEF Sound, Once
  <2>9. QED
    BY <2>1, <2>3, <2>5, <2>8
<1>3. CASE ~\E i \in DOMAIN h : h[i] = Entry(t, FALSE)
  <2>1. Completed(h, t) = Append(h, Entry(t, TRUE))
    BY <1>3 DEF Completed
  <2>2. \A i \in DOMAIN h : h[i].turn # t
    <3> SUFFICES ASSUME NEW i \in DOMAIN h, h[i].turn = t PROVE FALSE
      OBVIOUS
    <3>1. h[i].answered = FALSE
      BY <1>1 DEF Sound, Entries
    <3>2. h[i] = Entry(t, FALSE)
      BY <1>1, <3>1 DEF Entry, Entries
    <3>3. QED
      BY <1>3, <3>2
  <2>3. PICK k : k = Append(h, Entry(t, TRUE))
    OBVIOUS
  <2>4. k \in Seq(Entries) /\ Sound(ConvOf[t], k)'
    BY <2>2, <2>3, AppendSound
  <2>5. QED
    BY <2>1, <2>3, <2>4
<1>4. QED
  BY <1>2, <1>3

(* The cap keeps the end of a history.                                     *)
LEMMA CappedParts ==
    ASSUME NEW h \in Seq(Entries)
    PROVE  \E d \in Nat :
               /\ Capped(h) \in Seq(Entries) /\ Len(h) = d + Len(Capped(h))
               /\ d = 0 \/ Len(Capped(h)) = MaxHistory
               /\ \A i \in 1..Len(Capped(h)) : Capped(h)[i] = h[d + i]
<1>1. Len(h) \in Nat /\ DOMAIN h = 1..Len(h)
  OBVIOUS
<1>2. CASE Len(h) > MaxHistory
  <2> DEFINE d == Len(h) - MaxHistory
             k == SubSeq(h, d + 1, Len(h))
  <2>1. Capped(h) = k
    BY <1>2 DEF Capped
  <2>2. d + 1 \in Int /\ Len(h) \in Int /\ \A i \in (d + 1)..Len(h) : h[i] \in Entries
    BY <1>1, <1>2, SeqElement
  <2>3. /\ k \in Seq(Entries) /\ Len(k) = IF d + 1 <= Len(h) THEN Len(h) - (d + 1) + 1 ELSE 0
        /\ \A i \in 1..(Len(h) - (d + 1) + 1) : k[i] = h[d + 1 + i - 1]
    <3> HIDE DEF d
    <3>1. QED
      BY <2>2, SubSeqProperties
  <2>4. /\ d \in Nat /\ d + 1 <= Len(h) /\ Len(h) - (d + 1) + 1 = MaxHistory
        /\ Len(h) = d + MaxHistory /\ \A i \in 1..MaxHistory : d + 1 + i - 1 = d + i
    BY <1>1, <1>2
  <2> HIDE DEF d, k
  <2>5. Len(k) = MaxHistory /\ \A i \in 1..Len(k) : k[i] = h[d + i]
    BY <2>3, <2>4
  <2>6. QED
    BY <2>1, <2>3, <2>4, <2>5
<1>3. CASE ~(Len(h) > MaxHistory)
  <2>1. Capped(h) = h
    BY <1>3 DEF Capped
  <2>2. Len(h) = 0 + Len(h) /\ \A i \in 1..Len(h) : h[i] = h[0 + i]
    BY <1>1
  <2>3. QED
    BY <2>1, <2>2
<1>4. QED
  BY <1>2, <1>3

LEMMA CappedSound ==
    ASSUME NEW c, NEW h \in Seq(Entries), Sound(c, h)'
    PROVE  Capped(h) \in Seq(Entries) /\ Sound(c, Capped(h))'
<1>1. PICK d \in Nat :
         /\ Capped(h) \in Seq(Entries) /\ Len(h) = d + Len(Capped(h))
         /\ \A i \in 1..Len(Capped(h)) : Capped(h)[i] = h[d + i]
  BY CappedParts
<1>2. PICK k : k = Capped(h)
  OBVIOUS
<1>3. \A i \in DOMAIN k : d + i \in DOMAIN h /\ k[i] = h[d + i] /\ i \in Nat
  <2>1. DOMAIN h = 1..Len(h) /\ DOMAIN k = 1..Len(k) /\ Len(k) \in Nat
    BY <1>1, <1>2
  <2>2. QED
    BY <1>1, <1>2, <2>1
<1>4. Once(k)
  BY <1>3 DEF Sound, Once
<1>5. Sound(c, k)'
  BY <1>3, <1>4 DEF Sound
<1>6. QED
  BY <1>1, <1>2, <1>5

LEMMA ContinuedRecord ==
    ASSUME Inv, NEW r \in Records
    PROVE  /\ Continued(r) \in Records /\ Continued(r).history = r.history
           /\ Continued(r).session = Fresh /\ ~Continued(r).started
<1>1. Fresh \in Nat
  BY FreshNew DEF Inv
<1>2. QED
  BY <1>1 DEF Continued, Records

LEMMA HeldSound ==
    ASSUME Inv, NEW c \in Convs, NEW r \in HeldOf(c)
    PROVE  r \in Records /\ r.history \in Seq(Entries) /\ Sound(c, r.history)
<1>1. r \in Records
  BY HeldOfRecords DEF Inv
<1>2. QED
  BY <1>1 DEF Inv, Contents, Whole, Records, Entries

(* The prompt is saved.                                                    *)
LEMMA BeginInv == ASSUME Inv, NEW t \in Turns, Begin(t) PROVE Inv'
<1> DEFINE c == ConvOf[t]
           pending(r) == [r EXCEPT !.history = Append(@, Entry(t, FALSE))]
<1>1. PICK copy \in {turn[t].copy, Continued(turn[t].copy)} :
          /\ turn' = [turn EXCEPT ![t].at = "running", ![t].copy = pending(copy)]
          /\ Save(c, t, pending(copy))
  BY DEF Begin
<1>2. /\ turn[t].at = "read" /\ UNCHANGED <<compaction, edit, cli, bounds>>
      /\ IF c = Telegram THEN telegramMu = Nothing /\ telegramMu' = t ELSE UNCHANGED telegramMu
  BY DEF Begin
<1>3. /\ turn[t].copy \in Records /\ turn[t].copy # Nothing /\ turn[t].copy \in HeldOf(c)
      /\ c \in Convs
  <2>1. turn[t].copy \in Records /\ turn[t].copy # Nothing
    BY <1>2, TurnParts DEF Inv, Places, Copying
  <2>2. QED
    BY <2>1 DEF HeldOf, Held, Holds
<1>4. /\ copy \in Records /\ copy.history = turn[t].copy.history
      /\ copy.session = Fresh \/ copy.session = turn[t].copy.session
  BY <1>1, <1>3, ContinuedRecord
<1> DEFINE h == turn[t].copy.history
<1>5. h \in Seq(Entries) /\ Sound(c, h) /\ \A i \in DOMAIN h : h[i].turn # t
  <2>1. h \in Seq(Entries) /\ Sound(c, h)
    BY <1>3, HeldSound
  <2>2. ~Ran(t)
    BY <1>2 DEF Ran
  <2>3. QED
    BY <2>1, <2>2 DEF Sound
<1>6. Entry(t, FALSE) \in Entries /\ Append(h, Entry(t, FALSE)) \in Seq(Entries)
  <2>1. Entry(t, FALSE) \in Entries
    BY DEF Entry, Entries
  <2> HIDE DEF h
  <2>2. QED
    BY <1>5, <2>1, AppendElements
<1>7. PICK n : n = pending(copy)
  OBVIOUS
<1>8. n \in Records /\ n.history = Append(h, Entry(t, FALSE)) /\ n.session = copy.session /\ n # Nothing
  <2>1. n.history = Append(h, Entry(t, FALSE)) /\ n.session = copy.session
    BY <1>4, <1>7 DEF Records
  <2>2. n \in Records
    BY <1>4, <1>6, <1>7 DEF Records, Entries
  <2>3. QED
    BY <2>1, <2>2
<1> DEFINE w == [turn[t] EXCEPT !.at = "running", !.copy = n]
<1>9. w \in TurnRecords /\ w.at = "running" /\ w.copy = n /\ turn' = [turn EXCEPT ![t] = w]
  <2>1. turn[t] \in TurnRecords
    BY TurnParts DEF Inv, TurnRecords
  <2>2. w \in TurnRecords /\ w.at = "running" /\ w.copy = n
    BY <1>8, <2>1 DEF TurnRecords, InProgress, Running
  <2>3. turn' = [turn EXCEPT ![t].at = "running", ![t].copy = n]
    BY <1>1, <1>7
  <2>4. QED
    BY <2>1, <2>2, <2>3 DEF Inv, TypeOK
<1>10. Moves(t, w)
  <2>1. ~Ran(t) /\ ~Succeeded(t) /\ turn[t].at \in InProgress
    BY <1>2 DEF Ran, Succeeded, InProgress
  <2>2. c # Telegram => telegramMu # t
    BY <1>2, MuHolder DEF Running
  <2> HIDE DEF w
  <2>3. QED
    BY <1>2, <1>8, <1>9, <2>1, <2>2, Stays DEF Moves, Running, Copying
<1>11. Sound(c, n.history)'
  <2>1. Goes /\ turn'[t] = w
    BY <1>9, <1>10, MovesGo
  <2>2. Ran(t)'
    BY <1>9, <2>1 DEF Ran
  <2>3. PICK g : g = h
    OBVIOUS
  <2>4. Sound(c, Append(g, Entry(t, FALSE)))'
    BY <1>5, <2>1, <2>2, <2>3, AppendSound
  <2>5. n.history = Append(g, Entry(t, FALSE))
    BY <1>8, <2>3
  <2>6. QED
    BY <2>4, <2>5
<1>12. Save(c, t, n)
  BY <1>1, <1>7
<1>13. n.session = Fresh \/ \E r \in HeldOf(c) : n.session = r.session
  BY <1>3, <1>4, <1>8
<1>14. Ends(n.history, t)
  <2>1. PICK g : g = Append(h, Entry(t, FALSE))
    OBVIOUS
  <2> HIDE DEF h
  <2>2. Len(g) = Len(h) + 1 /\ g[Len(h) + 1] = Entry(t, FALSE) /\ Len(h) \in Nat
    <3>1. PICK e \in Entries : e = Entry(t, FALSE)
      BY <1>6
    <3>2. h \in Seq(Entries)
      BY <1>5
    <3>3. g = Append(h, e)
      BY <2>1, <3>1
    <3>4. g \in Seq(Entries) /\ DOMAIN g = 1..(Len(h) + 1) /\ Len(h) \in Nat /\ g[Len(h) + 1] = e
      BY <3>2, <3>3, AppendElements
    <3>5. QED
      BY <3>1, <3>4
  <2>3. Ends(g, t)
    BY <2>2 DEF Ends
  <2>4. QED
    BY <1>8, <2>1, <2>3
<1>15. QED
  <2> HIDE DEF w
  <2>1. QED
    BY <1>8, <1>9, <1>10, <1>11, <1>12, <1>13, <1>14, SavingTurn

(* The answer is saved.                                                    *)
LEMMA FinishInv ==
    ASSUME Inv, NEW t \in Turns, turn[t].at \in Running,
           NEW told \in {Empty, Fresh}, NEW result \in {"answered", "untold", "unfounded"},
           Finish(t, told, result), IsFiniteSet(cli'), cli' \subseteq Backends \X Nat
    PROVE  Inv'
<1> DEFINE c == ConvOf[t]
           w == Turn("saved", Nothing, result)
<1>0. PICK h : h = turn[t].copy.history
  OBVIOUS
<1>1. /\ turn[t].copy \in Records /\ turn[t].copy \in HeldOf(c) /\ c \in Convs
      /\ c = Telegram => telegramMu = t
  BY RunningTurn
<1>2. PICK n : n = Record(Capped(Completed(h, t)), IF Adopts(t, told) THEN told ELSE turn[t].copy.session,
                          TRUE, turn[t].copy.backend)
  OBVIOUS
<1>3. /\ Save(c, t, n) /\ turn' = [turn EXCEPT ![t] = w]
      /\ UNCHANGED <<telegramMu, compaction, edit, bounds>>
  BY <1>0, <1>2 DEF Finish
<1>4. w \in TurnRecords /\ w.at = "saved" /\ w.copy = Nothing /\ w.result = result
  BY DEF Turn, TurnRecords, InProgress
<1>5. Moves(t, w)
  <2>1. Ran(t) /\ ~Succeeded(t) /\ turn[t].at \in InProgress
    BY DEF Ran, Succeeded, InProgress, Running
  <2> HIDE DEF w
  <2>2. QED
    BY <1>1, <1>3, <1>4, <2>1 DEF Moves, Running, Copying
<1>6. Capped(Completed(h, t)) \in Seq(Entries) /\ Sound(c, Capped(Completed(h, t)))'
  <2>1. Goes /\ turn'[t] = w
    BY <1>4, <1>5, MovesGo
  <2>2. Ran(t)' /\ Succeeded(t)' /\ ~Succeeded(t)
    BY <1>4, <2>1 DEF Ran, Succeeded, Running
  <2>3. h \in Seq(Entries) /\ Sound(c, h)
    BY <1>0, <1>1, HeldSound
  <2>4. Completed(h, t) \in Seq(Entries) /\ Sound(c, Completed(h, t))'
    BY <2>1, <2>2, <2>3, CompletedSound
  <2>5. PICK g : g = Completed(h, t)
    OBVIOUS
  <2>6. g \in Seq(Entries) /\ Sound(c, g)'
    BY <2>4, <2>5
  <2>7. Capped(g) \in Seq(Entries) /\ Sound(c, Capped(g))'
    BY <2>6, CappedSound
  <2>8. QED
    BY <2>5, <2>7
<1>7. n \in Records /\ n.history = Capped(Completed(h, t))
  <2>1. Adopts(t, told) => told \in Nat
    BY FreshNew DEF Adopts, Inv
  <2>2. QED
    BY <1>1, <1>2, <1>6, <2>1 DEF Record, Records, Entries
<1>8. n.session = Fresh \/ \E r \in HeldOf(c) : n.session = r.session
  BY <1>1, <1>2 DEF Record, Adopts
<1>9. Sound(c, n.history)'
  BY <1>6, <1>7
<1>10. QED
  <2> HIDE DEF w
  <2>1. w.at \notin Copying /\ w.at \notin Running
    BY <1>4 DEF Copying, Running
  <2>2. QED
    BY <1>3, <1>4, <1>5, <1>7, <1>8, <1>9, <2>1, SavingTurn

LEMMA AnswerInv == ASSUME Inv, NEW t \in Turns, Answer(t) PROVE Inv'
<1>1. turn[t].at \in Running
  BY DEF Answer, Works
<1>2. PICK told \in {Empty, Fresh} :
         /\ cli' \in {cli, cli \cup {Session(t)}, cli \cup {<<"codex", Fresh>>}}
         /\ Finish(t, told, IF Session(t)[1] = "codex" /\ ~Resumes(t) /\ told = Empty
                            THEN "untold" ELSE "answered")
  BY DEF Answer
<1>3. IsFiniteSet(cli') /\ cli' \subseteq Backends \X Nat
  <2>1. Session(t) \in Backends \X Nat /\ <<"codex", Fresh>> \in Backends \X Nat
    BY <1>1, RunningTurn, FreshNew DEF Backends, Inv
  <2>2. ASSUME NEW s \in Backends \X Nat
        PROVE  IsFiniteSet(cli \cup {s}) /\ cli \cup {s} \subseteq Backends \X Nat
    BY Stays, FS_AddElement
  <2>3. QED
    BY <1>2, <2>1, <2>2, Stays
<1>4. QED
  BY <1>1, <1>2, <1>3, FinishInv

LEMMA AnswerWithoutSessionInv ==
    ASSUME Inv, NEW t \in Turns, AnswerWithoutSession(t) PROVE Inv'
<1>1. turn[t].at \in Running /\ Finish(t, Empty, "unfounded") /\ UNCHANGED cli
  BY DEF AnswerWithoutSession, Running
<1>2. QED
  BY <1>1, Stays, FinishInv

(* The context was too long: the copy changes, and the record in memory    *)
(* with it when it is the same one.                                        *)
LEMMA OverflowInv == ASSUME Inv, NEW t \in Turns, Overflow(t) PROVE Inv'
<1> DEFINE c == ConvOf[t]
<1>1. turn[t].at \in Running /\ TypeOK
  BY DEF Overflow, Works, Inv
<1>2. /\ turn[t].copy \in Records /\ turn[t].copy # Nothing /\ turn[t].copy \in HeldOf(c)
      /\ c \in Convs /\ Session(t) \in Backends \X Nat /\ (c = Telegram => telegramMu = t)
  BY <1>1, RunningTurn
<1>3. PICK n : n = Continued(turn[t].copy)
  OBVIOUS
<1>4. n \in Records /\ n # Nothing /\ n.history = turn[t].copy.history /\ n.session = Fresh /\ ~n.started
  BY <1>2, <1>3, ContinuedRecord
<1> DEFINE w == [turn[t] EXCEPT !.at = "retrying", !.copy = n]
<1>5. /\ cli' \in {cli, cli \cup {Session(t)}}
      /\ store' = IF shares[c] = t THEN [store EXCEPT ![c] = n] ELSE store
      /\ UNCHANGED <<disk, shares, stale, telegramMu, compaction, edit, bounds>>
  BY <1>3 DEF Overflow
<1>6. w \in TurnRecords /\ w.at = "retrying" /\ w.copy = n /\ turn' = [turn EXCEPT ![t] = w]
  <2>1. turn[t] \in TurnRecords
    BY TurnParts DEF Inv, TurnRecords
  <2>2. w \in TurnRecords /\ w.at = "retrying" /\ w.copy = n
    BY <1>4, <2>1 DEF TurnRecords, InProgress, Running
  <2>3. turn' = [turn EXCEPT ![t].at = "retrying", ![t].copy = n]
    BY <1>1, <1>3 DEF Overflow, TypeOK
  <2>4. QED
    BY <1>1, <2>1, <2>2, <2>3 DEF TypeOK
<1>7. Moves(t, w)
  <2>1. IsFiniteSet(cli') /\ cli' \subseteq Backends \X Nat
    BY <1>2, <1>5, Stays, FS_AddElement
  <2>2. turn[t].at \in InProgress /\ Ran(t) /\ ~Succeeded(t)
    BY <1>1 DEF Ran, Succeeded, InProgress, Running
  <2> HIDE DEF w
  <2>3. QED
    BY <1>2, <1>4, <1>5, <1>6, <2>1, <2>2 DEF Moves, Running, Copying
<1>8. /\ store' \in [Convs -> Records \cup {Nothing}]
      /\ \A d \in Convs : store'[d] = store[d] \/ (d = c /\ shares[c] = t /\ store'[d] = n)
  BY <1>1, <1>2, <1>4, <1>5 DEF TypeOK
<1>9. store'[Telegram] # Nothing /\ disk'[Telegram] # Nothing
  BY <1>4, <1>5, <1>8 DEF Inv, Places
<1> HIDE DEF w
<1>10. /\ Goes /\ Places' /\ Mutual' /\ MuSound' /\ turn' \in [Turns -> TurnRecords]
       /\ turn'[t] = w /\ \A u \in Turns : u # t => turn'[u] = turn[u]
  BY <1>6, <1>7, <1>9, TurnStep
<1>11. TypeOK'
  BY <1>1, <1>5, <1>7, <1>8, <1>10 DEF TypeOK, MuSound, TurnRecords, Moves, bounds
<1>12. Contents'
  <2>1. PICK k : k = c
    OBVIOUS
  <2>2. PlacesKeep(k, n)
    BY <1>5, <1>6, <1>8, <1>10, <2>1 DEF PlacesKeep
  <2>3. PICK h : h = turn[t].copy.history
    OBVIOUS
  <2>4. h \in Seq(Entries) /\ Sound(k, h)
    BY <1>2, <2>1, <2>3, HeldSound
  <2>5. Sound(k, h)'
    BY <1>10, <2>4, SoundStays DEF Entries
  <2>6. n.history = h /\ k \in Convs /\ n.session = Fresh
    BY <1>2, <1>4, <2>1, <2>3
  <2>7. QED
    BY <1>4, <1>10, <2>2, <2>5, <2>6, StepContents
<1>13. Answers'
  <2>1. \A d \in Convs : SameHistory(store'[d], store[d])
    <3>1. shares[c] = t => store[c] # Nothing /\ store[c].history = turn[t].copy.history
      BY <1>1 DEF Inv, Answers, Shared
    <3>2. QED
      BY <1>4, <1>8, <3>1 DEF SameHistory
  <2>2. \A u \in Turns : turn'[u].at \in Copying =>
           /\ turn[u].at \in Copying /\ SameHistory(turn'[u].copy, turn[u].copy)
           /\ turn'[u].at \in Running => turn[u].at \in Running
    BY <1>1, <1>2, <1>4, <1>6, <1>10 DEF SameHistory, Copying
  <2>3. QED
    BY <1>5, <2>1, <2>2, StayAnswers
<1>14. QED
  BY <1>10, <1>11, <1>12, <1>13 DEF Inv

-----------------------------------------------------------------------------
(* A writer that is no turn changes a record, or deletes it.               *)
LEMMA RecordWrite ==
    ASSUME Inv, NEW c \in Convs, NEW w \in {Nothing, "edit", "compact"},
           NEW record \in Records \cup {Nothing}, c = Telegram => record # Nothing,
           store' = [store EXCEPT ![c] = record], disk' = store', shares' = [shares EXCEPT ![c] = w],
           (stale \cup Others(c, w)) \ {w} \subseteq stale', stale' \subseteq Turns \cup {"edit", "compact"},
           (edit' = edit /\ w # "edit") \/ edit' = [of |-> Nothing, copy |-> Nothing],
           compaction' = compaction \/ compaction' = [at |-> "no", copy |-> Nothing],
           Mutual', MuSound', edits' \in 0..MaxEdits, UNCHANGED <<turn, cli, losses, crashes>>,
           record # Nothing => Sound(c, record.history)
                               /\ (\/ record.session = Fresh \/ (c = Telegram /\ record.session = Empty)
                                   \/ \E r \in HeldOf(c) : record.session = r.session)
    PROVE  Inv'
<1>1. TypeOK /\ Places
  BY DEF Inv
<1>2. store'[c] = record /\ \A d \in Convs : d # c => store'[d] = store[d]
  BY <1>1 DEF TypeOK
<1>3. TypeOK'
  <2>1. store' \in [Convs -> Records \cup {Nothing}]
    BY <1>1 DEF TypeOK
  <2>2. shares' \in [Convs -> Turns \cup {Nothing, "edit", "compact"}]
    BY <1>1 DEF TypeOK
  <2>3. QED
    BY <1>1, <2>1, <2>2 DEF TypeOK, MuSound
<1>4. Places'
  BY <1>1, <1>2 DEF Places
<1>5. Goes
  BY DEF Goes, Ran, Succeeded
<1>6. PlacesKeep(c, record)
  BY <1>2 DEF PlacesKeep
<1>7. Contents'
  <2>1. CASE record = Nothing
    <3>1. PlacesKeep(Telegram, store[Telegram])
      BY <1>2, <2>1 DEF PlacesKeep
    <3>2. QED
      BY <1>5, <3>1, StepSame
  <2>2. CASE record # Nothing
    <3>1. record.history \in Seq(Entries)
      BY <2>2 DEF Records, Entries
    <3>2. Sound(c, record.history)'
      BY <1>5, <2>2, <3>1, SoundStays DEF Entries
    <3>3. QED
      BY <1>5, <1>6, <2>2, <3>2, StepContents
  <2>3. QED
    BY <2>1, <2>2
<1>8. Answers'
  <2>1. w \notin Turns
    OBVIOUS
  <2>2. edit'.of # Nothing => edit' = edit /\ w # "edit"
    OBVIOUS
  <2>3. Kept' /\ Shared'
    BY <2>1, <2>2, WriteAnswers
  <2>4. Pending'
    BY DEF Inv, Answers, Pending
  <2>5. QED
    BY <2>3, <2>4 DEF Answers
<1>9. QED
  BY <1>3, <1>4, <1>7, <1>8 DEF Inv

(* No record and no turn changes.                                          *)
LEMMA QuietStep ==
    ASSUME Inv, UNCHANGED <<store, disk, shares, turn>>, stale' = stale \/ stale' = stale \ {"compact"},
           \/ edit' = edit
           \/ \E c \in Convs : edit' = [of |-> c, copy |-> store[c]] /\ store[c] # Nothing,
           compaction' \in [at : {"no", "asked", "running"}, copy : Records \cup {Nothing}],
           compaction'.copy # Nothing <=> compaction'.at = "running",
           compaction'.copy \in {compaction.copy, store[Telegram], Nothing},
           Mutual', MuSound', IsFiniteSet(cli'), cli' \subseteq Backends \X Nat,
           edits' \in 0..MaxEdits, losses' \in 0..MaxLosses, crashes' \in 0..MaxCrashes
    PROVE  Inv'
<1>1. TypeOK /\ Places
  BY DEF Inv
<1>2. edit' \in [of : Convs \cup {Nothing}, copy : Records \cup {Nothing}]
  BY <1>1 DEF TypeOK
<1>3. TypeOK'
  BY <1>1, <1>2 DEF TypeOK, MuSound
<1>4. Places'
  <2>1. edit'.copy # Nothing <=> edit'.of # Nothing
    BY <1>1 DEF Places
  <2>2. QED
    BY <1>1, <2>1 DEF Places
<1>5. Goes
  BY DEF Goes, Ran, Succeeded
<1>6. PlacesKeep(Telegram, store[Telegram])
  BY DEF PlacesKeep
<1>7. Contents'
  BY <1>5, <1>6, StepSame
<1>8. Answers'
  <2>1. \A c \in Convs : SameHistory(store'[c], store[c])
    BY DEF SameHistory
  <2>2. \A t \in Turns : SameHistory(turn'[t].copy, turn[t].copy) /\ (t \in stale => t \in stale')
    BY DEF SameHistory
  <2>3. edit'.of # Nothing =>
              \/ edit' = edit /\ ("edit" \in stale => "edit" \in stale')
              \/ edit'.of \in Convs /\ edit'.copy = store[edit'.of]
    OBVIOUS
  <2>4. QED
    BY <2>1, <2>2, <2>3, StayAnswers
<1>9. QED
  BY <1>3, <1>4, <1>7, <1>8 DEF Inv

LEMMA Bounds ==
    ASSUME Inv
    PROVE  /\ edits \in 0..MaxEdits /\ losses \in 0..MaxLosses /\ crashes \in 0..MaxCrashes
           /\ edits < MaxEdits => edits + 1 \in 0..MaxEdits
           /\ losses < MaxLosses => losses + 1 \in 0..MaxLosses
           /\ crashes < MaxCrashes => crashes + 1 \in 0..MaxCrashes
<1>1. edits \in 0..MaxEdits /\ losses \in 0..MaxLosses /\ crashes \in 0..MaxCrashes
  BY DEF Inv, TypeOK
<1>2. MaxEdits \in Nat /\ MaxLosses \in Nat /\ MaxCrashes \in Nat
  OBVIOUS
<1>3. QED
  BY <1>1, <1>2

LEMMA CompactAskInv == ASSUME Inv, CompactAsk PROVE Inv'
<1>1. /\ compaction.at = "no" /\ compaction' = [compaction EXCEPT !.at = "asked"]
      /\ edits' \in 0..MaxEdits
      /\ UNCHANGED <<store, disk, shares, stale, turn, telegramMu, edit, cli, losses, crashes>>
  BY Bounds DEF CompactAsk, recordVars
<1>2. /\ compaction' \in [at : {"no", "asked", "running"}, copy : Records \cup {Nothing}]
      /\ compaction'.at = "asked" /\ compaction'.copy = compaction.copy /\ compaction.copy = Nothing
  BY <1>1 DEF Inv, TypeOK, Places
<1>3. Mutual' /\ MuSound'
  BY <1>1, <1>2 DEF Inv, TypeOK, Mutual, MuSound, Locked, Serial
<1>4. QED
  BY <1>1, <1>2, <1>3, Stays, Bounds, QuietStep

LEMMA CompactBeginInv == ASSUME Inv, CompactBegin PROVE Inv'
<1>1. /\ compaction.at = "asked" /\ telegramMu = Nothing
      /\ UNCHANGED <<store, disk, shares, stale, turn, edit, cli, edits, losses, crashes>>
  BY DEF CompactBegin, recordVars, bounds
<1>2. store[Telegram] \in Records /\ store[Telegram] # Nothing
  BY DEF Inv, TypeOK, Places
<1>3. \A t \in Turns : ConvOf[t] = Telegram => turn[t].at \notin Running \cup {"saved"}
  BY <1>1 DEF Inv, Mutual, Locked
<1>4. CASE compaction' = [at |-> "no", copy |-> Nothing] /\ UNCHANGED telegramMu
  <2>1. Mutual' /\ MuSound'
    BY <1>1, <1>4 DEF Inv, TypeOK, Mutual, MuSound, Locked, Serial
  <2>2. QED
    BY <1>1, <1>4, <2>1, Stays, Bounds, QuietStep
<1>5. CASE compaction' = [at |-> "running", copy |-> store[Telegram]] /\ telegramMu' = "compact"
  <2>1. Mutual' /\ MuSound'
    BY <1>1, <1>3, <1>5 DEF Inv, Mutual, MuSound, Locked, Serial
  <2>2. QED
    BY <1>1, <1>2, <1>5, <2>1, Stays, Bounds, QuietStep
<1>6. QED
  BY <1>4, <1>5 DEF CompactBegin

LEMMA CompactLeft ==
    ASSUME Inv, CompactLeaves
    PROVE  /\ Mutual' /\ MuSound' /\ compaction' = [at |-> "no", copy |-> Nothing]
           /\ compaction.copy \in Records /\ compaction.copy # Nothing
           /\ UNCHANGED <<turn, edit, cli, edits, losses, crashes>>
<1>1. /\ compaction.at = "running" /\ compaction' = [at |-> "no", copy |-> Nothing]
      /\ telegramMu' = Nothing /\ UNCHANGED <<turn, edit, cli, edits, losses, crashes>>
  BY DEF CompactLeaves, bounds
<1>2. compaction.copy \in Records /\ compaction.copy # Nothing
  BY <1>1 DEF Inv, TypeOK, Places
<1>3. \A t \in Turns : ConvOf[t] = Telegram => turn[t].at \notin Running \cup {"saved"}
  BY <1>1 DEF Inv, Mutual, Locked
<1>4. Mutual' /\ MuSound'
  BY <1>1, <1>3 DEF Inv, Mutual, MuSound, Locked, Serial
<1>5. QED
  BY <1>1, <1>2, <1>4

LEMMA CompactFailInv == ASSUME Inv, CompactFail PROVE Inv'
<1>1. /\ CompactLeaves /\ stale' = stale \ {"compact"} /\ UNCHANGED <<store, disk, shares>>
  BY DEF CompactFail
<1>2. QED
  BY <1>1, CompactLeft, Stays, Bounds, QuietStep

LEMMA CompactEndInv == ASSUME Inv, CompactEnd PROVE Inv'
<1>1. PICK record : record = Record(<<>>, Empty, FALSE, compaction.copy.backend)
  OBVIOUS
<1>2. CompactLeaves /\ Save(Telegram, "compact", record)
  BY <1>1 DEF CompactEnd
<1>3. record \in Records /\ record # Nothing /\ record.session = Empty /\ record.history = <<>>
  <2>1. <<>> \in Seq([turn : Turns, answered : BOOLEAN])
    OBVIOUS
  <2>2. record \in Records /\ record.session = Empty /\ record.history = <<>>
    BY <1>1, <1>2, <2>1, CompactLeft DEF Record, Records, Empty
  <2>3. QED
    BY <2>2
<1>4. Sound(Telegram, record.history)
  BY <1>3 DEF Sound, Once
<1>5. stale' \subseteq Turns \cup {"edit", "compact"}
  BY <1>2 DEF Save, Others, Inv, TypeOK
<1>6. QED
  BY <1>2, <1>3, <1>4, <1>5, CompactLeft, Bounds, RecordWrite DEF Save

LEMMA EditReadInv == ASSUME Inv, NEW c \in Convs, EditRead(c) PROVE Inv'
<1>1. /\ edit' = [of |-> c, copy |-> store[c]] /\ store[c] # Nothing /\ edits' \in 0..MaxEdits
      /\ UNCHANGED <<store, disk, shares, stale, turn, telegramMu, compaction, cli, losses, crashes>>
  BY Bounds DEF EditRead, recordVars
<1>2. Mutual' /\ MuSound'
  BY <1>1 DEF Inv, TypeOK, Mutual, MuSound, Locked, Serial
<1>3. /\ compaction \in [at : {"no", "asked", "running"}, copy : Records \cup {Nothing}]
      /\ compaction.copy # Nothing <=> compaction.at = "running"
  BY DEF Inv, TypeOK, Places
<1>4. QED
  BY <1>1, <1>2, <1>3, Stays, Bounds, QuietStep

LEMMA EditWriteInv == ASSUME Inv, EditWrite PROVE Inv'
<1>1. PICK b \in Backends : Save(edit.of, "edit", [edit.copy EXCEPT !.backend = b])
  BY DEF EditWrite
<1>2. PICK record : record = [edit.copy EXCEPT !.backend = b]
  OBVIOUS
<1>3. PICK c : c = edit.of
  OBVIOUS
<1>4. /\ edit.of # Nothing /\ edit' = [of |-> Nothing, copy |-> Nothing]
      /\ UNCHANGED <<turn, telegramMu, compaction, cli, edits, losses, crashes>>
  BY DEF EditWrite, bounds
<1>5. c \in Convs /\ edit.copy \in Records /\ edit.copy \in HeldOf(c)
  <2>1. c \in Convs /\ edit.copy \in Records /\ edit.copy # Nothing
    BY <1>3, <1>4 DEF Inv, TypeOK, Places
  <2>2. QED
    BY <1>3, <2>1 DEF HeldOf, Held, Holds
<1>6. /\ record \in Records /\ record # Nothing /\ record.session = edit.copy.session
      /\ record.history = edit.copy.history
  BY <1>2, <1>5 DEF Records
<1>7. Sound(c, record.history)
  BY <1>5, <1>6, HeldSound
<1>8. Mutual' /\ MuSound'
  BY <1>4 DEF Inv, TypeOK, Mutual, MuSound, Locked, Serial
<1>9. Save(c, "edit", record)
  BY <1>1, <1>2, <1>3
<1>10. stale' \subseteq Turns \cup {"edit", "compact"}
  BY <1>9 DEF Save, Others, Inv, TypeOK
<1>11. \E r \in HeldOf(c) : record.session = r.session
  BY <1>5, <1>6
<1>12. QED
  BY <1>4, <1>5, <1>6, <1>7, <1>8, <1>9, <1>10, <1>11, Bounds, RecordWrite DEF Save

LEMMA ReplaceInv ==
    ASSUME Inv, NEW c \in Convs \ {Telegram}, NEW record \in Records \cup {Nothing}, Replace(c, record),
           record # Nothing => record.session = Fresh /\ record.history = <<>>
    PROVE  Inv'
<1>1. /\ store' = [store EXCEPT ![c] = record] /\ disk' = store'
      /\ shares' = [shares EXCEPT ![c] = Nothing] /\ stale' = stale \cup Others(c, Nothing)
      /\ UNCHANGED <<turn, telegramMu, compaction, edit, cli, losses, crashes>>
      /\ edits' \in 0..MaxEdits
  BY Bounds DEF Replace
<1>2. Mutual' /\ MuSound'
  BY <1>1 DEF Inv, TypeOK, Mutual, MuSound, Locked, Serial
<1>3. stale' \subseteq Turns \cup {"edit", "compact"}
  BY <1>1 DEF Others, Inv, TypeOK
<1>4. record # Nothing => Sound(c, record.history)
  BY DEF Sound, Once
<1>5. QED
  BY <1>1, <1>2, <1>3, <1>4, RecordWrite

LEMMA DeleteInv == ASSUME Inv, NEW c \in Convs, Delete(c) PROVE Inv'
BY ReplaceInv DEF Delete

LEMMA NewConvInv == ASSUME Inv, NEW c \in Convs, NewConv(c) PROVE Inv'
<1>1. PICK record : record = Record(<<>>, Fresh, FALSE, "claude")
  OBVIOUS
<1>2. c # Telegram /\ Replace(c, record)
  BY <1>1 DEF NewConv
<1>3. record \in Records /\ record.session = Fresh /\ record.history = <<>>
  <2>1. <<>> \in Seq([turn : Turns, answered : BOOLEAN])
    OBVIOUS
  <2>2. Fresh \in Nat
    BY FreshNew DEF Inv
  <2>3. QED
    BY <1>1, <2>1, <2>2 DEF Record, Records, Backends
<1>4. QED
  BY <1>2, <1>3, ReplaceInv

LEMMA LoseInv == ASSUME Inv, LoseSessions PROVE Inv'
<1>1. /\ cli' = {} /\ losses' \in 0..MaxLosses
      /\ UNCHANGED <<store, disk, shares, stale, turn, telegramMu, compaction, edit, edits, crashes>>
  BY Bounds DEF LoseSessions, recordVars
<1>2. Mutual' /\ MuSound'
  BY <1>1 DEF Inv, TypeOK, Mutual, MuSound, Locked, Serial
<1>3. /\ compaction \in [at : {"no", "asked", "running"}, copy : Records \cup {Nothing}]
      /\ compaction.copy # Nothing <=> compaction.at = "running"
  BY DEF Inv, TypeOK, Places
<1>4. IsFiniteSet(cli') /\ cli' \subseteq Backends \X Nat
  BY <1>1, FS_EmptySet
<1>5. QED
  BY <1>1, <1>2, <1>3, <1>4, Bounds, QuietStep

(* What was durable is what memory has again; no copy survives.            *)
LEMMA CrashInv == ASSUME Inv, Crash PROVE Inv'
<1>1. /\ store' = disk /\ shares' = [c \in Convs |-> Nothing] /\ telegramMu' = Nothing /\ stale' = {}
      /\ compaction' = [at |-> "no", copy |-> Nothing] /\ edit' = [of |-> Nothing, copy |-> Nothing]
      /\ crashes' \in 0..MaxCrashes /\ UNCHANGED <<disk, cli, edits, losses>>
  BY Bounds DEF Crash
<1>2. TypeOK /\ Places
  BY DEF Inv
<1>3. /\ DOMAIN turn' = Turns /\ turn' = [t \in Turns |-> turn'[t]]
      /\ \A t \in Turns :
            /\ turn[t].at \in {"read"} \cup Running => turn'[t] = Turn("ended", Nothing, "failed")
            /\ turn[t].at = "saved" => turn'[t] = [turn[t] EXCEPT !.at = "ended"]
            /\ turn[t].at \in {"new", "ended"} => turn'[t] = turn[t]
  BY DEF Crash, Running
<1>4. \A t \in Turns :
         /\ turn'[t] \in TurnRecords /\ turn'[t].at \in {"new", "ended"} /\ turn'[t].copy = Nothing
         /\ turn[t].at \in {"saved", "ended"} => turn'[t].at = "ended" /\ turn'[t].result = turn[t].result
         /\ turn'[t].at = "new" => turn[t].at = "new"
  <2> SUFFICES ASSUME NEW t \in Turns
               PROVE  /\ turn'[t] \in TurnRecords /\ turn'[t].at \in {"new", "ended"}
                      /\ turn'[t].copy = Nothing
                      /\ turn[t].at \in {"saved", "ended"} =>
                            turn'[t].at = "ended" /\ turn'[t].result = turn[t].result
                      /\ turn'[t].at = "new" => turn[t].at = "new"
    OBVIOUS
  <2>1. turn[t] \in TurnRecords /\ turn[t].at \in {"new", "ended", "read", "saved"} \cup Running
    BY <1>2, TurnParts DEF TurnRecords, InProgress
  <2>2. turn[t].at \in {"new", "ended", "saved"} => turn[t].copy = Nothing
    BY <1>2 DEF Places, Copying, Running
  <2>3. CASE turn[t].at \in {"read"} \cup Running
    BY <1>3, <2>3 DEF Turn, TurnRecords, Running
  <2>4. CASE turn[t].at = "saved"
    BY <1>3, <2>1, <2>2, <2>4 DEF TurnRecords
  <2>5. CASE turn[t].at \in {"new", "ended"}
    BY <1>3, <2>1, <2>2, <2>5
  <2>6. QED
    BY <2>1, <2>3, <2>4, <2>5
<1>5. turn' \in [Turns -> TurnRecords]
  BY <1>3, <1>4
<1>6. TypeOK'
  BY <1>1, <1>2, <1>5 DEF TypeOK, TurnRecords
<1>7. Places'
  BY <1>1, <1>2, <1>4 DEF Places, Copying, Running
<1>8. Mutual'
  BY <1>1, <1>4 DEF Mutual, Locked, Serial, InProgress, Running
<1>9. Goes
  BY <1>4 DEF Goes, Ran, Succeeded
<1>10. PlacesKeep(Telegram, store[Telegram])
  BY <1>1, <1>4 DEF PlacesKeep
<1>11. Contents'
  BY <1>9, <1>10, StepSame
<1>12. Answers'
  BY <1>1, <1>4 DEF Answers, Kept, Pending, Shared, SameHistory, Copying, Running
<1>13. QED
  BY <1>6, <1>7, <1>8, <1>11, <1>12 DEF Inv

LEMMA InitInv == Init => Inv
<1> SUFFICES ASSUME Init PROVE Inv
  OBVIOUS
<1>1. /\ store = [c \in Convs |-> Record(<<>>, IF c = Telegram THEN 1 ELSE c + 1, FALSE, "claude")]
      /\ disk = store /\ shares = [c \in Convs |-> Nothing]
      /\ turn = [t \in Turns |-> Turn("new", Nothing, "none")] /\ telegramMu = Nothing
      /\ compaction = [at |-> "no", copy |-> Nothing] /\ edit = [of |-> Nothing, copy |-> Nothing]
      /\ cli = {} /\ stale = {} /\ edits = 0 /\ losses = 0 /\ crashes = 0
  BY DEF Init
<1>2. \A c \in Convs : /\ store[c] \in Records /\ store[c] # Nothing /\ store[c].history = <<>>
                       /\ store[c].session = IF c = Telegram THEN 1 ELSE c + 1
  <2> SUFFICES ASSUME NEW c \in Convs
               PROVE  /\ store[c] \in Records /\ store[c].history = <<>>
                      /\ store[c].session = IF c = Telegram THEN 1 ELSE c + 1
    OBVIOUS
  <2>1. PICK n : n = IF c = Telegram THEN 1 ELSE c + 1
    OBVIOUS
  <2>2. n \in Nat
    BY <2>1
  <2>3. <<>> \in Seq([turn : Turns, answered : BOOLEAN])
    OBVIOUS
  <2>4. store[c] = Record(<<>>, n, FALSE, "claude")
    BY <1>1, <2>1
  <2>5. QED
    BY <2>1, <2>2, <2>3, <2>4 DEF Record, Records, Backends
<1>3. \A t \in Turns : /\ turn[t] \in TurnRecords /\ turn[t].at = "new" /\ turn[t].copy = Nothing
  BY <1>1 DEF Turn, TurnRecords
<1>4. TypeOK
  <2>1. store \in [Convs -> Records \cup {Nothing}]
    BY <1>1, <1>2
  <2>2. turn \in [Turns -> TurnRecords]
    BY <1>1, <1>3
  <2>3. edits \in 0..MaxEdits /\ losses \in 0..MaxLosses /\ crashes \in 0..MaxCrashes
    <3>1. MaxEdits \in Nat /\ MaxLosses \in Nat /\ MaxCrashes \in Nat
      OBVIOUS
    <3>2. QED
      BY <1>1, <3>1
  <2>4. QED
    BY <1>1, <2>1, <2>2, <2>3 DEF TypeOK, TurnRecords
<1>5. Places
  BY <1>1, <1>2, <1>3, FS_EmptySet DEF Places, Copying, Running
<1>6. Mutual
  BY <1>1, <1>3 DEF Mutual, Locked, Serial, InProgress, Running
<1>7. \A c \in Convs : \A r \in HeldOf(c) : r = store[c]
  BY <1>1, <1>3 DEF HeldOf, Held, Holds
<1>8. Contents
  <2>1. ASSUME NEW c \in Convs, NEW d \in Convs, c # d PROVE store[c].session # store[d].session
    BY <1>2, <2>1
  <2>2. ASSUME NEW c \in Convs \ {Telegram} PROVE store[c].session # Empty
    <3>1. c \in Nat /\ store[c].session = c + 1
      BY <1>2
    <3>2. QED
      BY <3>1 DEF Empty
  <2>3. Apart
    BY <1>7, <2>1, <2>2 DEF Apart
  <2>4. Whole
    BY <1>2, <1>7 DEF Whole, Sound, Once
  <2>5. QED
    BY <2>3, <2>4 DEF Contents
<1>9. Answers
  BY <1>1, <1>3 DEF Answers, Kept, Pending, Shared, SameHistory, Copying, Running
<1>10. QED
  BY <1>4, <1>5, <1>6, <1>8, <1>9 DEF Inv

LEMMA StepInv == Inv /\ [Next]_vars => Inv'
<1> SUFFICES ASSUME Inv, [Next]_vars PROVE Inv'
  OBVIOUS
<1>1. ASSUME NEW t \in Turns, ReadTelegram(t) \/ ReadWeb(t) \/ Begin(t) \/ Blocked(t) PROVE Inv'
  BY <1>1, ReadInv, BeginInv, BlockedInv
<1>2. ASSUME NEW t \in Turns, Lost(t) \/ Overflow(t) \/ Fail(t) PROVE Inv'
  BY <1>2, LostInv, OverflowInv, FailInv
<1>3. ASSUME NEW t \in Turns, Answer(t) \/ AnswerWithoutSession(t) \/ Reply(t) PROVE Inv'
  BY <1>3, AnswerInv, AnswerWithoutSessionInv, ReplyInv
<1>4. CASE CompactAsk \/ CompactBegin \/ CompactEnd \/ CompactFail
  BY <1>4, CompactAskInv, CompactBeginInv, CompactEndInv, CompactFailInv
<1>5. CASE EditWrite \/ LoseSessions \/ Crash
  BY <1>5, EditWriteInv, LoseInv, CrashInv
<1>6. ASSUME NEW c \in Convs, EditRead(c) \/ Delete(c) \/ NewConv(c) PROVE Inv'
  BY <1>6, EditReadInv, DeleteInv, NewConvInv
<1>7. CASE UNCHANGED vars
  <2>1. UNCHANGED <<store, disk, shares, stale, turn, telegramMu, compaction, edit, cli, edits, losses,
                    crashes>>
    BY <1>7 DEF vars, recordVars, bounds
  <2>2. Mutual' /\ MuSound'
    BY <2>1 DEF Inv, TypeOK, Mutual, MuSound, Locked, Serial
  <2>3. /\ compaction \in [at : {"no", "asked", "running"}, copy : Records \cup {Nothing}]
        /\ compaction.copy # Nothing <=> compaction.at = "running"
    BY DEF Inv, TypeOK, Places
  <2>4. QED
    BY <2>1, <2>2, <2>3, Stays, Bounds, QuietStep
<1>8. QED
  BY <1>1, <1>2, <1>3, <1>4, <1>5, <1>6, <1>7 DEF Next

LEMMA Invariance == Spec => []Inv
<1>1. QED
  BY InitInv, StepInv, PTL DEF Spec

-----------------------------------------------------------------------------
(* telegramMu is held by a turn that runs or has yet to reply, or by       *)
(* !compact, and by nobody once its holder ended, failed or crashed; every *)
(* record and copy is whole.                                               *)
THEOREM Typing == Spec => []TypeOK
<1>1. Inv => TypeOK
  BY DEF Inv
<1>2. QED
  BY <1>1, Invariance, PTL

(* Two CLI processes work on one session only in an interactive web        *)
(* conversation, and none on the stream while !compact runs, whatever      *)
(* conversations are created, deleted, edited or recovered meanwhile.      *)
THEOREM Exclusion == Spec => []OneProcessPerSession
<1>1. Inv => OneProcessPerSession
  <2> SUFFICES ASSUME Inv, NEW t \in Turns, turn[t].at \in Running,
                      NEW u \in Turns, turn[u].at \in Running
               PROVE  /\ t # u /\ Session(t) = Session(u) => ConvOf[t] \in Steered
                      /\ compaction.at = "running" => ConvOf[t] # Telegram
    BY DEF OneProcessPerSession
  <2>1. ASSUME t # u, Session(t) = Session(u) PROVE ConvOf[t] \in Steered
    <3>1. turn[t].copy.session = turn[u].copy.session
      BY <2>1 DEF Session
    <3>2. /\ turn[t].copy \in HeldOf(ConvOf[t]) /\ turn[u].copy \in HeldOf(ConvOf[u])
          /\ ConvOf[t] \in Convs /\ ConvOf[u] \in Convs
      BY RunningTurn
    <3>3. ConvOf[t] = ConvOf[u]
      BY <3>1, <3>2 DEF Inv, Contents, Apart
    <3>4. QED
      BY <2>1, <3>3 DEF Inv, Mutual, Serial, InProgress
  <2>2. ASSUME compaction.at = "running" PROVE ConvOf[t] # Telegram
    BY <2>2 DEF Inv, Mutual, Locked
  <2>3. QED
    BY <2>1, <2>2
<1>2. QED
  BY <1>1, Invariance, PTL

(* However a turn is retried, recovered or overtaken by edits and crashes, *)
(* the history in memory has it once, and as answered only when it was.    *)
THEOREM EntryPerTurn == Spec => []OneEntryPerTurn
<1>1. Inv => OneEntryPerTurn
  <2> SUFFICES ASSUME Inv, NEW c \in Convs, store[c] # Nothing
               PROVE  /\ Once(store[c].history)
                      /\ \A i \in DOMAIN store[c].history :
                            LET e == store[c].history[i] IN
                            /\ ConvOf[e.turn] = c
                            /\ e.answered => turn[e.turn].result \notin {"none", "failed"}
    BY DEF OneEntryPerTurn, Once
  <2>1. store[c] \in HeldOf(c)
    BY DEF HeldOf, Held, Holds
  <2>2. Sound(c, store[c].history)
    BY <2>1, HeldSound
  <2>3. QED
    BY <2>2 DEF Sound, Succeeded
<1>2. QED
  BY <1>1, Invariance, PTL

-----------------------------------------------------------------------------
Replied(t) == turn[t].at # "saved" /\ turn'[t].at = "saved"
RepliesAfter == \A t \in Turns : Replied(t) => t \in AnsweredIn(disk'[ConvOf[t]])
KeepsAnswers ==
    \A c \in Convs :
        \/ AnsweredIn(disk[c]) \subseteq AnsweredIn(disk'[c])
        \/ disk'[c] = Nothing
        \/ c = Telegram /\ compaction.at = "running" /\ Compacted
        \/ \E w \in stale : Writes(w)
        \/ Outgrown(c)

(* A save keeps the answers of the other records, and those of its own when*)
(* its copy was not stale.                                                 *)
LEMMA SaveKeeps ==
    ASSUME Inv, NEW c \in Convs, NEW w, NEW record, store' = [store EXCEPT ![c] = record],
           disk' = store',
           \/ record = Nothing \/ (w \in stale /\ Writes(w))
           \/ AnsweredIn(disk[c]) \subseteq AnsweredIn(record)
           \/ c = Telegram /\ compaction.at = "running" /\ Compacted
           \/ Outgrown(c)
    PROVE  KeepsAnswers
<1>1. disk'[c] = record /\ \A d \in Convs : d # c => disk'[d] = store[d]
  BY DEF Inv, TypeOK
<1>2. \A d \in Convs : AnsweredIn(store[d]) = AnsweredIn(disk[d])
  BY SameAnswers DEF Inv, Answers, Kept
<1>3. QED
  BY <1>1, <1>2 DEF KeepsAnswers

LEMMA AppendAnswers ==
    ASSUME NEW h \in Seq(Entries), NEW e \in Entries, NEW r, NEW s, r # Nothing, s # Nothing,
           r.history = h, s.history = Append(h, e)
    PROVE  AnsweredIn(r) \subseteq AnsweredIn(s)
<1>1. /\ DOMAIN h = 1..Len(h) /\ DOMAIN Append(h, e) = 1..(Len(h) + 1) /\ Len(h) \in Nat
      /\ \A i \in 1..Len(h) : Append(h, e)[i] = h[i]
  BY AppendElements
<1>2. \A i \in DOMAIN h : i \in DOMAIN Append(h, e) /\ Append(h, e)[i] = h[i]
  BY <1>1
<1>3. QED
  BY <1>2 DEF AnsweredIn

(* The pending prompt is answered in its place.                            *)
LEMMA CompletedParts ==
    ASSUME NEW h \in Seq(Entries), NEW t \in Turns, Ends(h, t)
    PROVE  \E g :
               /\ g = Completed(h, t)
               /\ g \in Seq(Entries) /\ DOMAIN g = DOMAIN h /\ Len(g) = Len(h) /\ g[Len(h)] = Entry(t, TRUE)
               /\ \A i \in DOMAIN h : g[i].turn = h[i].turn /\ (h[i].answered => g[i] = h[i])
<1>1. /\ Len(h) \in DOMAIN h /\ h[Len(h)] = Entry(t, FALSE) /\ \A i \in DOMAIN h : h[i] \in Entries
      /\ DOMAIN h = 1..Len(h) /\ Len(h) \in Nat
  BY SeqElement DEF Ends
<1>2. PICK g : g = Completed(h, t)
  OBVIOUS
<1>3. g = [i \in DOMAIN h |-> IF h[i] = Entry(t, FALSE) THEN Entry(t, TRUE) ELSE h[i]]
  BY <1>1, <1>2 DEF Completed
<1>4. /\ DOMAIN g = DOMAIN h /\ g[Len(h)] = Entry(t, TRUE)
      /\ \A i \in DOMAIN h : g[i].turn = h[i].turn /\ (h[i].answered => g[i] = h[i])
  BY <1>1, <1>3 DEF Entry, Entries
<1>5. g \in [1..Len(h) -> Entries]
  BY <1>1, <1>3 DEF Entry, Entries
<1>6. g \in Seq(Entries) /\ Len(g) = Len(h)
  BY <1>1, <1>5
<1>7. QED
  BY <1>2, <1>4, <1>6

LEMMA BeginKeeps == ASSUME Inv, NEW t \in Turns, Begin(t) PROVE KeepsAnswers
<1> DEFINE c == ConvOf[t]
<1>1. PICK copy \in {turn[t].copy, Continued(turn[t].copy)} :
          /\ turn' = [turn EXCEPT ![t].at = "running",
                                  ![t].copy = [copy EXCEPT !.history = Append(@, Entry(t, FALSE))]]
          /\ Save(c, t, [copy EXCEPT !.history = Append(@, Entry(t, FALSE))])
  BY DEF Begin
<1>2. turn[t].at = "read" /\ c \in Convs /\ turn[t].copy \in Records /\ turn[t].copy # Nothing
  BY TurnParts DEF Begin, Inv, Places, Copying
<1>3. copy \in Records /\ copy.history = turn[t].copy.history
  BY <1>1, <1>2, ContinuedRecord
<1>4. PICK n : n = [copy EXCEPT !.history = Append(@, Entry(t, FALSE))]
  OBVIOUS
<1>5. n.history = Append(turn[t].copy.history, Entry(t, FALSE)) /\ n # Nothing
  <2>1. Entry(t, FALSE) \in Entries /\ copy.history \in Seq(Entries)
    BY <1>3 DEF Entry, Entries, Records
  <2>2. Append(copy.history, Entry(t, FALSE)) \in Seq(Entries)
    BY <2>1, AppendElements
  <2>3. n \in Records
    BY <1>3, <1>4, <2>2 DEF Records, Entries
  <2>4. n.history = Append(copy.history, Entry(t, FALSE))
    BY <1>3, <1>4 DEF Records
  <2>5. QED
    BY <1>3, <2>3, <2>4
<1>6. AnsweredIn(turn[t].copy) \subseteq AnsweredIn(n)
  <2>1. PICK h : h = turn[t].copy.history
    OBVIOUS
  <2>2. PICK e : e = Entry(t, FALSE)
    OBVIOUS
  <2>3. e \in Entries /\ h \in Seq(Entries)
    BY <1>2, <2>1, <2>2 DEF Entry, Entries, Records
  <2>4. n.history = Append(h, e)
    BY <1>5, <2>1, <2>2
  <2>5. QED
    BY <1>2, <1>5, <2>1, <2>3, <2>4, AppendAnswers
<1>7. store' = [store EXCEPT ![c] = n] /\ disk' = store'
  BY <1>1, <1>4 DEF Save
<1>8. CASE t \in stale
  <2>1. turn'[t].at = "running"
    BY <1>1 DEF Inv, TypeOK
  <2>2. Writes(t)
    BY <1>2, <2>1 DEF Writes
  <2>3. QED
    BY <1>2, <1>7, <1>8, <2>2, SaveKeeps
<1>9. CASE t \notin stale
  <2>1. AnsweredIn(disk[c]) \subseteq AnsweredIn(turn[t].copy)
    BY <1>2, <1>9, SameAnswers DEF Inv, Answers, Kept, Copying
  <2>2. AnsweredIn(disk[c]) \subseteq AnsweredIn(n)
    BY <1>6, <2>1
  <2>3. QED
    BY <1>2, <1>7, <2>2, SaveKeeps
<1>10. QED
  BY <1>8, <1>9

(* A completed and capped history ends with the answer; an answer it lacks *)
(* was older than every turn it keeps.                                     *)
InHistory(turnOf, k) == \E m \in DOMAIN k : k[m].turn = turnOf
OldestDropped(h, k) ==
    /\ Len(k) = MaxHistory
    /\ \A i, j \in DOMAIN h : InHistory(h[i].turn, k) /\ ~InHistory(h[j].turn, k) => j < i
LEMMA CappedAnswers ==
    ASSUME NEW h \in Seq(Entries), Once(h), NEW t \in Turns, Ends(h, t)
    PROVE  \E k :
               /\ k = Capped(Completed(h, t))
               /\ k \in Seq(Entries) /\ \E i \in DOMAIN k : k[i] = Entry(t, TRUE)
               /\ \/ \A i \in DOMAIN h : h[i].answered => i \in DOMAIN k /\ k[i] = h[i]
                  \/ OldestDropped(h, k)
<1> DEFINE Answered(k) ==
               /\ k \in Seq(Entries) /\ \E i \in DOMAIN k : k[i] = Entry(t, TRUE)
               /\ \/ \A i \in DOMAIN h : h[i].answered => i \in DOMAIN k /\ k[i] = h[i]
                  \/ OldestDropped(h, k)
<1>0. PICK k : k = Capped(Completed(h, t))
  OBVIOUS
<1> SUFFICES Answered(k)
  BY <1>0
<1>1. PICK g :
         /\ g = Completed(h, t)
         /\ g \in Seq(Entries) /\ DOMAIN g = DOMAIN h /\ Len(g) = Len(h) /\ g[Len(h)] = Entry(t, TRUE)
         /\ \A i \in DOMAIN h : g[i].turn = h[i].turn /\ (h[i].answered => g[i] = h[i])
  BY CompletedParts
<1>2. PICK d \in Nat :
         /\ Capped(g) \in Seq(Entries) /\ Len(g) = d + Len(Capped(g))
         /\ d = 0 \/ Len(Capped(g)) = MaxHistory
         /\ \A i \in 1..Len(Capped(g)) : Capped(g)[i] = g[d + i]
  BY <1>1, CappedParts
<1>3. /\ k \in Seq(Entries) /\ Len(g) = d + Len(k)
      /\ d = 0 \/ Len(k) = MaxHistory
      /\ \A i \in 1..Len(k) : k[i] = g[d + i]
  BY <1>0, <1>1, <1>2
<1>4. PICK l \in Nat : l = Len(k)
  BY <1>3
<1>5. /\ DOMAIN k = 1..l /\ DOMAIN h = 1..(d + l) /\ Len(h) = d + l /\ d + l >= 1
      /\ d = 0 \/ l = MaxHistory
  <2>1. DOMAIN k = 1..l /\ DOMAIN h = 1..Len(h)
    BY <1>3, <1>4
  <2>2. QED
    BY <1>1, <1>3, <1>4, <2>1 DEF Ends
<1>6. \A i \in 1..l : i \in Nat /\ d + i \in 1..(d + l) /\ k[i] = g[d + i] /\ i <= d + i
  <2>1. \A i \in 1..l : i \in Nat /\ d + i \in 1..(d + l) /\ i <= d + i
    OBVIOUS
  <2>2. QED
    BY <1>3, <1>4, <2>1
<1>7. l \in 1..l
  BY <1>5
<1>8. k[l] = Entry(t, TRUE)
  BY <1>1, <1>5, <1>6, <1>7
<1>9. CASE d = 0
  <2>1. \A i \in 1..l : 0 + i = i
    OBVIOUS
  <2>2. \A i \in DOMAIN h : i \in DOMAIN k /\ k[i] = g[i]
    BY <1>5, <1>6, <1>9, <2>1
  <2>3. QED
    BY <1>1, <1>3, <1>5, <1>7, <1>8, <2>2
<1>10. CASE l = MaxHistory
  <2>1. ASSUME NEW i \in DOMAIN h, NEW j \in DOMAIN h, InHistory(h[i].turn, k), ~InHistory(h[j].turn, k)
        PROVE  j < i
    <3>1. PICK m \in 1..l : k[m].turn = h[i].turn
      BY <1>5, <2>1 DEF InHistory
    <3>2. i = d + m
      <4>1. d + m \in DOMAIN h /\ h[d + m].turn = h[i].turn
        BY <1>1, <1>5, <1>6, <3>1
      <4>2. QED
        BY <4>1 DEF Once
    <3>3. ASSUME NEW p \in 1..l PROVE j # d + p
      <4>1. d + p \in DOMAIN h /\ k[p].turn = h[d + p].turn
        BY <1>1, <1>5, <1>6
      <4>2. QED
        BY <1>5, <2>1, <4>1 DEF InHistory
    <3>4. j <= d
      <4>1. j \in 1..(d + l)
        BY <1>5
      <4>2. CASE j > d
        <5>1. j - d \in 1..l /\ j = d + (j - d)
          BY <4>1, <4>2
        <5>2. QED
          BY <3>3, <5>1
      <4>3. QED
        BY <4>1, <4>2
    <3>5. QED
      BY <1>5, <3>2, <3>4
  <2>2. QED
    BY <1>3, <1>4, <1>5, <1>7, <1>8, <1>10, <2>1 DEF OldestDropped
<1>11. QED
  BY <1>5, <1>9, <1>10

LEMMA FinishKeeps ==
    ASSUME Inv, NEW t \in Turns, turn[t].at \in Running, NEW told \in {Empty, Fresh}, NEW result,
           Finish(t, told, result)
    PROVE  KeepsAnswers /\ t \in AnsweredIn(disk'[ConvOf[t]])
<1> DEFINE c == ConvOf[t]
<1>1. PICK h : h = turn[t].copy.history
  OBVIOUS
<1>2. PICK k :
         /\ k = Capped(Completed(h, t))
         /\ k \in Seq(Entries) /\ \E i \in DOMAIN k : k[i] = Entry(t, TRUE)
         /\ \/ \A i \in DOMAIN h : h[i].answered => i \in DOMAIN k /\ k[i] = h[i]
            \/ OldestDropped(h, k)
  <2>1. turn[t].copy \in HeldOf(ConvOf[t]) /\ ConvOf[t] \in Convs
    BY RunningTurn
  <2>2. h \in Seq(Entries) /\ Once(h)
    BY <1>1, <2>1, HeldSound DEF Sound
  <2>3. Ends(h, t)
    BY <1>1 DEF Inv, Answers, Pending
  <2>4. QED
    BY <2>2, <2>3, CappedAnswers
<1>3. PICK n : n = Record(k, IF Adopts(t, told) THEN told ELSE turn[t].copy.session,
                          TRUE, turn[t].copy.backend)
  OBVIOUS
<1>4. /\ store' = [store EXCEPT ![c] = n] /\ disk' = store' /\ n.history = k
      /\ turn' = [turn EXCEPT ![t] = Turn("saved", Nothing, result)]
  BY <1>1, <1>2, <1>3 DEF Finish, Save, Record
<1>5. turn[t].copy \in HeldOf(c) /\ turn[t].copy # Nothing /\ c \in Convs
  BY RunningTurn
<1>6. disk'[c] = n /\ turn'[t].at = "saved" /\ Writes(t)
  <2>1. disk'[c] = n /\ turn'[t].at = "saved"
    BY <1>4, <1>5 DEF Inv, TypeOK, Turn
  <2>2. QED
    BY <2>1 DEF Writes, Running
<1>7. n # Nothing
  <2>1. turn[t].copy \in Records
    BY <1>5, HeldSound
  <2>2. Adopts(t, told) => told \in Nat
    BY FreshNew DEF Adopts, Inv
  <2>3. n \in Records
    BY <1>2, <1>3, <2>1, <2>2 DEF Record, Records, Entries
  <2>4. QED
    BY <2>3
<1>8. t \in AnsweredIn(disk'[c])
  BY <1>2, <1>4, <1>6, <1>7 DEF AnsweredIn, Entry
<1>9. CASE t \in stale
  BY <1>4, <1>5, <1>6, <1>8, <1>9, SaveKeeps
<1>10. CASE t \notin stale
  <2>1. disk[c] # Nothing /\ disk[c].history = h
    BY <1>1, <1>5, <1>10 DEF Inv, Answers, Kept, SameHistory, Copying
  <2>2. CASE \A i \in DOMAIN h : h[i].answered => i \in DOMAIN k /\ k[i] = h[i]
    <3>1. AnsweredIn(disk[c]) \subseteq AnsweredIn(n)
      BY <1>4, <1>7, <2>1, <2>2 DEF AnsweredIn
    <3>2. QED
      BY <1>4, <1>5, <1>8, <3>1, SaveKeeps
  <2>3. CASE OldestDropped(h, k)
    <3>1. disk'[c].history = k
      BY <1>4, <1>6
    <3>2. Outgrown(c)
      BY <1>6, <2>1, <2>3, <3>1 DEF Outgrown, Outlives, OldestDropped, InHistory
    <3>3. QED
      BY <1>4, <1>5, <1>8, <3>2, SaveKeeps
  <2>4. QED
    BY <1>2, <2>2, <2>3
<1>11. QED
  BY <1>8, <1>9, <1>10

LEMMA CompactEndKeeps == ASSUME Inv, CompactEnd PROVE KeepsAnswers
<1>1. PICK record : record = Record(<<>>, Empty, FALSE, compaction.copy.backend)
  OBVIOUS
<1>2. /\ compaction.at = "running" /\ store' = [store EXCEPT ![Telegram] = record] /\ disk' = store'
  BY <1>1 DEF CompactEnd, CompactLeaves, Save
<1>3. Compacted
  BY <1>1, <1>2 DEF Compacted, Inv, TypeOK
<1>4. QED
  BY <1>2, <1>3, SaveKeeps

LEMMA EditWriteKeeps == ASSUME Inv, EditWrite PROVE KeepsAnswers
<1>1. PICK b \in Backends : Save(edit.of, "edit", [edit.copy EXCEPT !.backend = b])
  BY DEF EditWrite
<1>2. PICK n : n = [edit.copy EXCEPT !.backend = b]
  OBVIOUS
<1>3. /\ edit.of # Nothing /\ edit.of \in Convs /\ edit.copy \in Records /\ edit.copy # Nothing
      /\ edit' = [of |-> Nothing, copy |-> Nothing]
  BY DEF EditWrite, Inv, TypeOK, Places
<1>4. store' = [store EXCEPT ![edit.of] = n] /\ disk' = store'
  BY <1>1, <1>2 DEF Save
<1>5. SameHistory(n, edit.copy)
  BY <1>2, <1>3 DEF SameHistory, Records
<1>6. CASE "edit" \in stale
  BY <1>3, <1>4, <1>6, SaveKeeps DEF Writes
<1>7. CASE "edit" \notin stale
  <2>1. AnsweredIn(disk[edit.of]) \subseteq AnsweredIn(edit.copy)
    BY <1>3, <1>7, SameAnswers DEF Inv, Answers, Kept
  <2>2. AnsweredIn(n) = AnsweredIn(edit.copy)
    BY <1>5, SameAnswers
  <2>3. QED
    BY <1>3, <1>4, <2>1, <2>2, SaveKeeps
<1>8. QED
  BY <1>6, <1>7

LEMMA ReplaceKeeps ==
    ASSUME Inv, NEW c \in Convs, Delete(c) \/ NewConv(c)
    PROVE  KeepsAnswers
<1>1. CASE Delete(c)
  BY <1>1, SaveKeeps DEF Delete, Replace
<1>2. CASE NewConv(c)
  <2>1. PICK record : record = Record(<<>>, Fresh, FALSE, "claude")
    OBVIOUS
  <2>2. /\ store' = [store EXCEPT ![c] = record] /\ disk' = store'
        /\ store[c] = Nothing
    <3>1. c # Telegram /\ ~(c < c)
      BY <1>2 DEF NewConv
    <3>2. store[c] = Nothing
      BY <1>2, <3>1 DEF NewConv
    <3>3. QED
      BY <1>2, <2>1, <3>2 DEF NewConv, Replace
  <2>3. AnsweredIn(disk[c]) = {}
    BY <2>2 DEF Inv, Answers, Kept, SameHistory, AnsweredIn
  <2>4. QED
    BY <2>2, <2>3, SaveKeeps
<1>3. QED
  BY <1>1, <1>2

NoReply == \A t \in Turns : ~Replied(t)

(* A turn comes to reply by its answer alone.                              *)
LEMMA RepliesAnswer ==
    ASSUME Inv, Next
    PROVE  \A t \in Turns : Replied(t) => Answer(t) \/ AnswerWithoutSession(t)
<1>1. ASSUME NEW t \in Turns, NEW w, turn' = [turn EXCEPT ![t] = w],
             w.at # "saved"
      PROVE  NoReply
  <2>1. turn'[t] = w /\ \A u \in Turns : u # t => turn'[u] = turn[u]
    BY <1>1 DEF Inv, TypeOK
  <2>2. QED
    BY <1>1, <2>1 DEF NoReply, Replied
<1>2. turn' = turn => NoReply
  BY DEF NoReply, Replied
<1>3. ASSUME NEW t \in Turns, ReadTelegram(t) \/ ReadWeb(t) \/ Blocked(t) \/ Fail(t)
      PROVE  NoReply
  <2>1. PICK w : w \in {Turn("ended", Nothing, "failed"), Turn("read", store[ConvOf[t]], "none")}
                 /\ turn' = [turn EXCEPT ![t] = w]
    BY <1>3 DEF ReadTelegram, ReadWeb, TurnedAway, Copies, Blocked, Fail
  <2>2. w.at # "saved"
    BY <2>1 DEF Turn
  <2>3. QED
    BY <1>1, <2>1, <2>2
<1>4. ASSUME NEW t \in Turns, Begin(t) \/ Lost(t) \/ Overflow(t) \/ Reply(t)
      PROVE  NoReply
  <2>1. turn \in [Turns -> TurnRecords]
    BY DEF Inv, TypeOK, TurnRecords
  <2>2. CASE Lost(t) \/ Reply(t)
    <3>1. PICK at \in {"recovering", "ended"} : turn' = [turn EXCEPT ![t].at = at]
      BY <2>2 DEF Lost, Reply
    <3>2. turn'[t].at = at /\ \A u \in Turns : u # t => turn'[u] = turn[u]
      BY <2>1, <3>1 DEF TurnRecords
    <3>3. QED
      BY <3>1, <3>2 DEF NoReply, Replied
  <2>3. ASSUME NEW copy, NEW at \in {"running", "retrying"},
               turn' = [turn EXCEPT ![t].at = at, ![t].copy = copy]
        PROVE  NoReply
    <3>1. turn'[t].at = at /\ \A u \in Turns : u # t => turn'[u] = turn[u]
      BY <2>1, <2>3 DEF TurnRecords
    <3>2. QED
      BY <3>1 DEF NoReply, Replied
  <2>4. CASE Begin(t)
    <3>1. PICK copy :
             turn' = [turn EXCEPT ![t].at = "running",
                                  ![t].copy = [copy EXCEPT !.history = Append(@, Entry(t, FALSE))]]
      BY <2>4 DEF Begin
    <3>2. QED
      BY <2>3, <3>1
  <2>5. CASE Overflow(t)
    <3>1. turn' = [turn EXCEPT ![t].at = "retrying", ![t].copy = Continued(turn[t].copy)]
      BY <2>1, <2>5 DEF Overflow, TurnRecords
    <3>2. QED
      BY <2>3, <3>1
  <2>6. QED
    BY <1>4, <2>2, <2>4, <2>5
<1>5. ASSUME NEW t \in Turns, Answer(t) \/ AnswerWithoutSession(t)
      PROVE  \A u \in Turns : Replied(u) => u = t
  <2>1. PICK w : turn' = [turn EXCEPT ![t] = w]
    BY <1>5 DEF Answer, AnswerWithoutSession, Finish
  <2>2. QED
    BY <2>1 DEF Inv, TypeOK, Replied
<1>6. ASSUME CompactAsk \/ CompactBegin \/ CompactEnd \/ CompactFail \/ EditWrite \/ LoseSessions
      PROVE  NoReply
  BY <1>2, <1>6 DEF CompactAsk, CompactBegin, CompactEnd, CompactFail, CompactLeaves, EditWrite,
                    LoseSessions
<1>7. ASSUME NEW c \in Convs, EditRead(c) \/ Delete(c) \/ NewConv(c) PROVE NoReply
  BY <1>2, <1>7 DEF EditRead, Delete, NewConv, Replace
<1>8. ASSUME Crash PROVE NoReply
  <2>1. \A t \in Turns : turn'[t].at # "saved" \/ turn'[t] = turn[t]
    BY <1>8 DEF Crash, Turn, Inv, TypeOK
  <2>2. QED
    BY <2>1 DEF NoReply, Replied
<1>9. QED
  BY <1>3, <1>4, <1>5, <1>6, <1>7, <1>8 DEF Next, NoReply

(* A turn replies only when its answer is durable; a durable answer leaves *)
(* the disk only with its conversation, with a compaction that succeeded,  *)
(* under the write of a copy that missed it, or as one of the oldest of a  *)
(* history that outgrew the cap.  No failure, retry, recovery or crash     *)
(* drops one.                                                              *)
THEOREM Durability == Spec => AnswersKept
<1>1. Inv /\ [Next]_vars => [RepliesAfter /\ KeepsAnswers]_vars
  <2> SUFFICES ASSUME Inv, Next PROVE RepliesAfter /\ KeepsAnswers
    OBVIOUS
  <2>1. disk' = disk => KeepsAnswers
    BY DEF KeepsAnswers
  <2>2. ASSUME NEW t \in Turns,
               ReadTelegram(t) \/ ReadWeb(t) \/ Blocked(t) \/ Lost(t) \/ Overflow(t) \/ Fail(t) \/ Reply(t)
        PROVE  KeepsAnswers
    BY <2>1, <2>2 DEF ReadTelegram, ReadWeb, Admitted, Blocked, Lost, Overflow, Fail, Reply, recordVars
  <2>3. ASSUME NEW t \in Turns, Begin(t) \/ Answer(t) \/ AnswerWithoutSession(t)
        PROVE  KeepsAnswers
    <3>1. CASE Begin(t)
      BY <3>1, BeginKeeps
    <3>2. CASE Answer(t)
      BY <3>2, FinishKeeps DEF Answer, Works
    <3>3. CASE AnswerWithoutSession(t)
      BY <3>3, FinishKeeps DEF AnswerWithoutSession, Running
    <3>4. QED
      BY <2>3, <3>1, <3>2, <3>3
  <2>4. ASSUME CompactAsk \/ CompactBegin \/ CompactFail \/ LoseSessions \/ Crash PROVE KeepsAnswers
    BY <2>1, <2>4 DEF CompactAsk, CompactBegin, CompactFail, LoseSessions, Crash, recordVars
  <2>5. ASSUME CompactEnd \/ EditWrite PROVE KeepsAnswers
    BY <2>5, CompactEndKeeps, EditWriteKeeps
  <2>6. ASSUME NEW c \in Convs, EditRead(c) \/ Delete(c) \/ NewConv(c) PROVE KeepsAnswers
    BY <2>1, <2>6, ReplaceKeeps DEF EditRead, recordVars
  <2>7. RepliesAfter
    <3> SUFFICES ASSUME NEW t \in Turns, Replied(t) PROVE t \in AnsweredIn(disk'[ConvOf[t]])
      BY DEF RepliesAfter
    <3>1. Answer(t) \/ AnswerWithoutSession(t)
      BY RepliesAnswer
    <3>2. CASE Answer(t)
      BY <3>2, FinishKeeps DEF Answer, Works
    <3>3. CASE AnswerWithoutSession(t)
      BY <3>3, FinishKeeps DEF AnswerWithoutSession, Running
    <3>4. QED
      BY <3>1, <3>2, <3>3
  <2>8. QED
    BY <2>2, <2>3, <2>4, <2>5, <2>6, <2>7 DEF Next
<1>2. QED
  BY <1>1, Invariance, PTL DEF Spec, AnswersKept, RepliesAfter, Replied, KeepsAnswers

-----------------------------------------------------------------------------
LivesOn ==
    \A t \in Turns :
        turn[t].at # "saved" /\ turn'[t].at = "saved" /\ turn'[t].result = "answered" =>
            LET r == disk'[ConvOf[t]] IN r.started /\ <<r.backend, r.session>> \in cli'

(* A turn that saves an answer runs or makes the session it saves: a new   *)
(* one is adopted on a first turn, after a recovery and after an overflow. *)
LEMMA AnswerLives == ASSUME Inv, NEW t \in Turns, Answer(t) PROVE LivesOn
<1> DEFINE c == ConvOf[t]
<1>1. turn[t].at \in Running /\ (Resumes(t) => Session(t) \in cli)
  BY DEF Answer, Works
<1>2. PICK told \in {Empty, Fresh} :
         /\ RunMakes(t, cli', told)
         /\ Finish(t, told, IF Session(t)[1] = "codex" /\ ~Resumes(t) /\ told = Empty
                            THEN "untold" ELSE "answered")
  BY DEF Answer
<1>3. /\ turn[t].copy \in Records /\ c \in Convs
      /\ Session(t) = <<turn[t].copy.backend, turn[t].copy.session>>
  BY <1>1, RunningTurn DEF Session
<1>4. PICK n : n = Record(Capped(Completed(turn[t].copy.history, t)),
                          IF Adopts(t, told) THEN told ELSE turn[t].copy.session,
                          TRUE, turn[t].copy.backend)
  OBVIOUS
<1>5. /\ disk' = [store EXCEPT ![c] = n] /\ n.started = TRUE /\ n.backend = turn[t].copy.backend
      /\ n.session = IF Adopts(t, told) THEN told ELSE turn[t].copy.session
  BY <1>2, <1>4 DEF Finish, Save, Record
<1>6. disk'[c] = n
  BY <1>3, <1>5 DEF Inv, TypeOK
<1>7. PICK result : result = IF Session(t)[1] = "codex" /\ ~Resumes(t) /\ told = Empty
                             THEN "untold" ELSE "answered"
  OBVIOUS
<1>8. turn'[t].result = result /\ \A u \in Turns : u # t => turn'[u] = turn[u]
  <2>1. turn' = [turn EXCEPT ![t] = Turn("saved", Nothing, result)]
    BY <1>2, <1>7 DEF Finish
  <2>2. QED
    BY <2>1 DEF Inv, TypeOK, Turn
<1>9. ASSUME result = "answered" PROVE <<n.backend, n.session>> \in cli'
  <2>1. CASE Resumes(t)
    <3>1. cli' = cli /\ told = Empty
      BY <1>2, <2>1 DEF RunMakes
    <3>2. QED
      BY <1>1, <1>3, <1>5, <2>1, <3>1 DEF Adopts
  <2>2. CASE ~Resumes(t) /\ Session(t)[1] = "claude"
    <3>1. cli' = cli \cup {Session(t)} /\ told = Empty
      BY <1>2, <2>2 DEF RunMakes
    <3>2. QED
      BY <1>3, <1>5, <3>1 DEF Adopts
  <2>3. CASE ~Resumes(t) /\ Session(t)[1] = "codex"
    <3>1. cli' = cli \cup {<<"codex", Fresh>>} /\ told = Fresh
      BY <1>2, <1>7, <1>9, <2>3 DEF RunMakes
    <3>2. Fresh # Empty
      BY FreshNew DEF Inv, Used
    <3>3. ~turn[t].copy.started \/ turn[t].at = "recovering"
      BY <1>1, <2>3 DEF Resumes, Running, Inv, Places
    <3>4. Adopts(t, told)
      BY <3>1, <3>2, <3>3 DEF Adopts
    <3>5. n.session = Fresh /\ n.backend = "codex"
      BY <1>3, <1>5, <2>3, <3>1, <3>4
    <3>6. QED
      BY <3>1, <3>5
  <2>4. QED
    BY <1>2, <2>1, <2>2, <2>3 DEF RunMakes
<1>10. QED
  BY <1>5, <1>6, <1>8, <1>9 DEF LivesOn

(* A turn that is saved as answered leaves a record whose session the CLI  *)
(* has: no later turn is pinned to one that never existed.                 *)
THEOREM SessionSaved == Spec => SavedSessionLives
<1>1. Inv /\ [Next]_vars => [LivesOn]_vars
  <2> SUFFICES ASSUME Inv, Next, NEW t \in Turns, Replied(t), turn'[t].result = "answered"
               PROVE  LivesOn
    BY DEF LivesOn, Replied
  <2>1. CASE Answer(t)
    BY <2>1, AnswerLives
  <2>2. CASE AnswerWithoutSession(t)
    <3>1. turn' = [turn EXCEPT ![t] = Turn("saved", Nothing, "unfounded")]
      BY <2>2 DEF AnswerWithoutSession, Finish
    <3>2. QED
      BY <3>1 DEF Turn, Inv, TypeOK
  <2>3. QED
    BY <2>1, <2>2, RepliesAnswer
<1>2. QED
  BY <1>1, Invariance, PTL DEF Spec, SavedSessionLives, LivesOn
=============================================================================
