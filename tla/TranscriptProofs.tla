--------------------------- MODULE TranscriptProofs --------------------------
(***************************************************************************)
(* Converse implements TranscriptStore, what it stores is made of whole    *)
(* turns, and what a turn is served from the shared cache was collected in *)
(* its own conversation, about its own focus, and has not outlived its     *)
(* TTL: for any number of turns, caps, TTLs and clocks, and whichever      *)
(* turns race, fail or die.                                                *)
(***************************************************************************)
EXTENDS ConverseProofs

\* A transcript that is made of whole turns, each there once.
Whole(s) ==
    /\ Len(s) % 2 = 0
    /\ \A i \in 1..(Len(s) \div 2) : \E t \in Turns :
           s[2 * i - 1] = Question(t) /\ s[2 * i] = Reply(t)
    /\ \A i, j \in DOMAIN s : s[i] = s[j] => i = j

\* Its turns have returned, with success.
AllDone(s) == \A i \in DOMAIN s : pc[s[i].turn] = "done"

\* Turn t works from s and has so far added to it what is its own.
WorksFrom(t, s) == s \in Seq(Messages) /\ view[t] = s \o Pending(t)

\* Strengthens WholeTurns: what is stored is whole and by turns that are over, and so
\* is what a turn will put itself at the end of.  So it is not there yet.
WholeInv ==
    /\ SoundInv
    /\ \A c \in DOMAIN store : Whole(store[c]) /\ AllDone(store[c])
    /\ \A t \in Turns : pc[t] \in Focused =>
           \E s : WorksFrom(t, s) /\ Whole(s) /\ AllDone(s)

\* The variables of TranscriptStore.
snapOfAll == [t \in Turns |-> Snap(t)]
abstract == <<store, snapOfAll>>

---------------------------------------------------------------------------
(* Transcripts.                                                            *)

LEMMA EmptyIsWhole == Whole(<<>>) /\ AllDone(<<>>)
BY DEF Whole, AllDone

\* One more turn, that is not there yet.
LEMMA OneMoreTurn ==
    ASSUME NEW s \in Seq(Messages), Whole(s), NEW t \in Turns,
           \A i \in DOMAIN s : s[i].turn # t
    PROVE  Whole(s \o <<Question(t), Reply(t)>>)
<1> DEFINE n == Len(s)
           r == s \o <<Question(t), Reply(t)>>
<1>1. Question(t) \in Messages /\ Reply(t) \in Messages /\ Question(t) # Reply(t)
  BY DEF Question, Reply, Messages
<1>2. n \in Nat /\ n % 2 = 0 /\ DOMAIN s = 1..n
  BY LenProperties DEF Whole
<1>3. <<Question(t), Reply(t)>> \in Seq(Messages)
  BY <1>1
<1>4. r \in Seq(Messages) /\ Len(r) = n + 2
  BY <1>2, <1>3, ConcatProperties
<1>5. DOMAIN r = 1..(n + 2)
  BY <1>4, LenProperties
<1>6. /\ \A i \in 1..n : r[i] = s[i]
      /\ r[n + 1] = Question(t) /\ r[n + 2] = Reply(t)
  BY <1>2, <1>3, ConcatProperties
<1> HIDE DEF r
<1>7. Len(r) % 2 = 0
  BY <1>2, <1>4
<1>8. ASSUME NEW i \in 1..(Len(r) \div 2)
      PROVE  \E u \in Turns : r[2 * i - 1] = Question(u) /\ r[2 * i] = Reply(u)
  <2>1. CASE i \in 1..(n \div 2)
    <3>1. 2 * i - 1 \in 1..n /\ 2 * i \in 1..n
      BY <1>2, <2>1
    <3>2. PICK u \in Turns : s[2 * i - 1] = Question(u) /\ s[2 * i] = Reply(u)
      BY <2>1 DEF Whole
    <3>3. QED
      BY <1>6, <3>1, <3>2
  <2>2. CASE i \notin 1..(n \div 2)
    <3>1. 2 * i = n + 2
      BY <1>2, <1>4, <1>8, <2>2
    <3>2. 2 * i - 1 = n + 1
      BY <1>2, <3>1
    <3>3. QED
      BY <1>6, <3>1, <3>2
  <2>3. QED
    BY <2>1, <2>2
<1>9. ASSUME NEW i \in DOMAIN r, NEW j \in DOMAIN r, r[i] = r[j]
      PROVE  i = j
  <2>1. \A k \in 1..n : r[k].turn # t
    BY <1>2, <1>6
  <2>2. r[n + 1].turn = t /\ r[n + 2].turn = t
    BY <1>6 DEF Question, Reply
  <2>3. CASE i \in 1..n /\ j \in 1..n
    BY <1>2, <1>6, <1>9, <2>3 DEF Whole
  <2>4. CASE i \in {n + 1, n + 2} /\ j \in {n + 1, n + 2}
    BY <1>1, <1>6, <1>9, <2>4
  <2>5. i \in 1..n \/ i \in {n + 1, n + 2}
    BY <1>2, <1>5
  <2>6. j \in 1..n \/ j \in {n + 1, n + 2}
    BY <1>2, <1>5
  <2>7. QED
    BY <1>9, <2>1, <2>2, <2>3, <2>4, <2>5, <2>6
<1>10. Whole(r)
  BY <1>7, <1>8, <1>9 DEF Whole
<1>11. QED
  BY <1>10 DEF r

\* A sequence without what was put at its end.
LEMMA FrontOf ==
    ASSUME NEW s \in Seq(Messages), NEW own \in Seq(Messages)
    PROVE  SubSeq(s \o own, 1, Len(s \o own) - Len(own)) = s
<1>1. Len(s) \in Nat /\ Len(own) \in Nat
  BY LenProperties
<1>2. /\ s \o own \in Seq(Messages) /\ Len(s \o own) = Len(s) + Len(own)
      /\ \A i \in 1..Len(s) : (s \o own)[i] = s[i]
  BY <1>1, ConcatProperties
<1>3. \A i \in 1..Len(s) : (s \o own)[i] \in Messages
  BY <1>2, ElementOfSeq
<1>4. /\ SubSeq(s \o own, 1, Len(s)) \in Seq(Messages)
      /\ Len(SubSeq(s \o own, 1, Len(s))) = Len(s)
      /\ \A i \in 1..Len(s) : SubSeq(s \o own, 1, Len(s))[i] = (s \o own)[i]
  BY <1>1, <1>3, SubSeqProperties
<1>5. SubSeq(s \o own, 1, Len(s)) = s
  BY <1>2, <1>4, SeqEqual
<1>6. Len(s \o own) - Len(own) = Len(s)
  BY <1>1, <1>2
<1>7. QED
  BY <1>5, <1>6

\* A turn's own messages, so far.
LEMMA PendingTyped ==
    ASSUME NEW t \in Turns
    PROVE  /\ Pending(t) \in Seq(Messages)
           /\ Len(Pending(t)) = IF pc[t] \in {"persist", "create"} THEN 2 ELSE 1
<1>1. Question(t) \in Messages /\ Reply(t) \in Messages
  BY DEF Question, Reply, Messages
<1>2. QED
  BY <1>1 DEF Pending

\* Snap is what the turn works from.
LEMMA SnapIs ==
    ASSUME NEW t \in Turns, NEW s, WorksFrom(t, s), pc[t] \in Focused
    PROVE  Snap(t) = {s}
<1>1. SubSeq(view[t], 1, Len(view[t]) - Len(Pending(t))) = s
  BY PendingTyped, FrontOf DEF WorksFrom
<1>2. QED
  BY <1>1, PendingTyped DEF Snap, Focused

LEMMA NoSnap == ASSUME NEW t \in Turns, pc[t] \notin Focused PROVE Snap(t) = {}
BY DEF Snap, Focused

---------------------------------------------------------------------------
(* The steps.                                                              *)

\* Steps that store nothing; whoever is between its read and its write afterwards was
\* so before, with the same messages.
Quiet ==
    /\ UNCHANGED store
    /\ \A t \in Turns : pc[t] = "done" => pc'[t] = "done"
    /\ \A t \in Turns : pc'[t] \in Focused =>
           /\ pc[t] \in Focused /\ view'[t] = view[t]
           /\ pc'[t] \in {"persist", "create"} <=> pc[t] \in {"persist", "create"}

\* The turns of a stored or a read transcript do not come undone.
LEMMA DoneStays ==
    ASSUME NEW s \in Seq(Messages), AllDone(s),
           \A t \in Turns : pc[t] = "done" => pc'[t] = "done"
    PROVE  AllDone(s)'
<1>1. ASSUME NEW i \in DOMAIN s
      PROVE  s[i].turn \in Turns
  <2>1. s[i] \in Messages
    BY LenProperties, ElementOfSeq
  <2>2. QED
    BY <2>1 DEF Messages
<1>2. QED
  BY <1>1 DEF AllDone

\* Turns that end without a trace, if any do.
LEMMA QuietStutters ==
    ASSUME Quiet PROVE [Transcripts!Next]_abstract
<1> DEFINE gone == {t \in Turns : Snap(t) # {} /\ pc'[t] \notin Focused}
<1>1. ASSUME NEW t \in Turns, pc'[t] \in Focused
      PROVE  Snap(t)' = Snap(t)
  BY <1>1 DEF Quiet, Snap, Focused
<1>2. ASSUME NEW t \in Turns, pc'[t] \notin Focused
      PROVE  Snap(t)' = {}
  BY <1>2 DEF Snap, Focused
<1>3. snapOfAll' = [t \in Turns |-> IF t \in gone THEN {} ELSE snapOfAll[t]]
  BY <1>1, <1>2 DEF snapOfAll
<1>4. CASE gone = {}
  <2>1. snapOfAll' = snapOfAll
    BY <1>3, <1>4 DEF snapOfAll
  <2>2. QED
    BY <2>1 DEF Quiet, abstract
<1>5. CASE gone # {}
  <2>1. \A t \in gone : snapOfAll[t] # {}
    BY DEF snapOfAll
  <2>2. Transcripts!Abandon(gone)
    BY <1>3, <1>5, <2>1 DEF Quiet, Transcripts!Abandon, snapOfAll
  <2>3. gone \in SUBSET Turns
    OBVIOUS
  <2>4. QED
    BY <2>2, <2>3 DEF Transcripts!Next
<1>6. QED
  BY <1>4, <1>5

LEMMA QuietKeeps ==
    ASSUME WholeInv, SoundInv', Quiet
    PROVE  WholeInv'
<1>1. ASSUME NEW c \in DOMAIN store'
      PROVE  Whole(store[c])' /\ AllDone(store[c])'
  <2>1. PICK s : s = store[c]
    OBVIOUS
  <2>2. s \in Seq(Messages) /\ Whole(s) /\ AllDone(s)
    BY <2>1 DEF WholeInv, SoundInv, TypeOK, Quiet
  <2>3. AllDone(s)'
    BY <2>2, DoneStays DEF Quiet
  <2>4. Whole(s)'
    BY <2>2 DEF Whole, Question, Reply
  <2>5. store'[c] = s
    BY <2>1 DEF Quiet
  <2>6. QED
    BY <2>3, <2>4, <2>5 DEF Whole, AllDone, Question, Reply
<1>2. ASSUME NEW t \in Turns, pc'[t] \in Focused
      PROVE  (\E s : WorksFrom(t, s) /\ Whole(s) /\ AllDone(s))'
  <2>1. PICK s : WorksFrom(t, s) /\ Whole(s) /\ AllDone(s)
    BY <1>2 DEF WholeInv, Quiet
  <2>2. WorksFrom(t, s)'
    BY <1>2, <2>1 DEF Quiet, WorksFrom, Pending, Question, Reply
  <2>3. AllDone(s)'
    BY <2>1, DoneStays DEF WorksFrom, Quiet
  <2>4. Whole(s)'
    BY <2>1 DEF Whole, Question, Reply
  <2>5. QED
    BY <2>2, <2>3, <2>4
<1>3. QED
  BY <1>1, <1>2 DEF WholeInv

\* What holds of every other turn when one of them moves.
LEMMA OthersKeep ==
    ASSUME WholeInv, NEW t \in Turns, NEW from, NEW to, Goto(t, from, to), from # "done",
           NEW u \in Turns \ {t}, view'[u] = view[u], pc'[u] \in Focused
    PROVE  (\E s : WorksFrom(u, s) /\ Whole(s) /\ AllDone(s))'
<1>1. pc \in [Turns -> {"idle"} \cup Active \cup Settled]
  BY DEF WholeInv, SoundInv, TypeOK
<1>2. pc'[u] = pc[u] /\ \A v \in Turns : pc[v] = "done" => pc'[v] = "done"
  BY <1>1 DEF Goto
<1>3. PICK s : WorksFrom(u, s) /\ Whole(s) /\ AllDone(s)
  BY <1>2 DEF WholeInv
<1>4. WorksFrom(u, s)'
  BY <1>2, <1>3 DEF WorksFrom, Pending, Question, Reply
<1>5. AllDone(s)'
  BY <1>2, <1>3, DoneStays DEF WorksFrom
<1>6. Whole(s)'
  BY <1>3 DEF Whole, Question, Reply
<1>7. QED
  BY <1>4, <1>5, <1>6

\* The same of what is stored and not written over.
LEMMA StoredKeeps ==
    ASSUME WholeInv, NEW t \in Turns, NEW from, NEW to, Goto(t, from, to), from # "done",
           NEW c \in DOMAIN store, c \in DOMAIN store', store'[c] = store[c]
    PROVE  Whole(store[c])' /\ AllDone(store[c])'
<1>1. pc \in [Turns -> {"idle"} \cup Active \cup Settled]
  BY DEF WholeInv, SoundInv, TypeOK
<1>2. \A v \in Turns : pc[v] = "done" => pc'[v] = "done"
  BY <1>1 DEF Goto
<1>3. PICK s : s = store[c]
  OBVIOUS
<1>4. s \in Seq(Messages) /\ Whole(s) /\ AllDone(s)
  BY <1>3 DEF WholeInv, SoundInv, TypeOK
<1>5. AllDone(s)'
  BY <1>2, <1>4, DoneStays
<1>6. Whole(s)'
  BY <1>4 DEF Whole, Question, Reply
<1>7. store'[c] = s
  BY <1>3
<1>8. QED
  BY <1>5, <1>6, <1>7 DEF Whole, AllDone, Question, Reply

\* The read.
LEMMA BeginIsBegin ==
    ASSUME WholeInv, SoundInv', NEW t \in Turns, NEW c, NEW s \in Seq(Messages), NEW read,
           NEW from \in {"load", "idUse"}, Goto(t, from, "purge"),
           BeginTurn(t, c, s, read),
           s = <<>> \/ \E d \in DOMAIN store : s = store[d]
    PROVE  WholeInv' /\ Transcripts!Begin(t)
<1>1. /\ pc \in [Turns -> {"idle"} \cup Active \cup Settled]
      /\ view \in [Turns -> Seq(Messages)]
  BY DEF WholeInv, SoundInv, TypeOK
<1>2. /\ UNCHANGED store /\ view' = [view EXCEPT ![t] = Append(s, Question(t))]
      /\ pc[t] = from /\ pc' = [pc EXCEPT ![t] = "purge"]
  BY DEF BeginTurn, shared, Goto
<1>3. \A u \in Turns \ {t} : view'[u] = view[u] /\ pc'[u] = pc[u]
  BY <1>1, <1>2
<1>4. view'[t] = Append(s, Question(t)) /\ pc'[t] = "purge"
  BY <1>1, <1>2
<1>5. Whole(s) /\ AllDone(s)
  BY EmptyIsWhole DEF WholeInv
<1>6. \A v \in Turns : pc[v] = "done" => pc'[v] = "done"
  BY <1>1, <1>2
<1>7. Whole(s)' /\ AllDone(s)'
  BY <1>5, <1>6, DoneStays DEF Whole, Question, Reply
<1>8. WorksFrom(t, s)'
  <2>1. Append(s, Question(t)) = s \o <<Question(t)>>
    BY AppendIsConcat DEF Messages, Question
  <2>2. QED
    BY <1>4, <2>1 DEF WorksFrom, Pending, Question, Reply
<1>9. WholeInv'
  <2>1. \A d \in DOMAIN store' : Whole(store[d])' /\ AllDone(store[d])'
    BY <1>2, StoredKeeps
  <2>2. \A u \in Turns : pc'[u] \in Focused =>
            (\E r : WorksFrom(u, r) /\ Whole(r) /\ AllDone(r))'
    BY <1>3, <1>7, <1>8, OthersKeep
  <2>3. QED
    BY <2>1, <2>2 DEF WholeInv
<1>10. Snap(t) = {} /\ Snap(t)' = {s}
  <2>1. Snap(t) = {}
    BY <1>2, NoSnap DEF Focused
  <2>2. Snap(t)' = {SubSeq(view'[t], 1, Len(view'[t]) - 1)}
    BY <1>4 DEF Snap
  <2>3. Question(t) \in Messages
    BY DEF Messages, Question
  <2>4. <<Question(t)>> \in Seq(Messages) /\ Len(<<Question(t)>>) = 1
    BY <2>3
  <2>5. view'[t] = s \o <<Question(t)>>
    BY <1>4, <2>3, AppendIsConcat
  <2>6. SubSeq(view'[t], 1, Len(view'[t]) - 1) = s
    BY <2>4, <2>5, FrontOf
  <2>7. QED
    BY <2>1, <2>2, <2>6
<1>11. \A u \in Turns \ {t} : Snap(u)' = Snap(u)
  BY <1>3 DEF Snap
<1>12. snapOfAll' = [snapOfAll EXCEPT ![t] = {s}]
  BY <1>10, <1>11 DEF snapOfAll
<1>13. QED
  BY <1>2, <1>9, <1>10, <1>12 DEF Transcripts!Begin, snapOfAll

\* The reply.
LEMMA NarrateIsQuiet ==
    ASSUME WholeInv, SoundInv', NEW t \in Turns, Narrate(t)
    PROVE  WholeInv' /\ UNCHANGED abstract
<1>1. /\ pc \in [Turns -> {"idle"} \cup Active \cup Settled]
      /\ view \in [Turns -> Seq(Messages)]
  BY DEF WholeInv, SoundInv, TypeOK
<1>2. /\ UNCHANGED store /\ view' = [view EXCEPT ![t] = Append(@, Reply(t))]
      /\ pc[t] = "narrate" /\ pc' = [pc EXCEPT ![t] = "persist"]
      /\ Goto(t, "narrate", "persist")
  BY DEF Narrate, shared, Goto
<1>3. \A u \in Turns \ {t} : view'[u] = view[u] /\ pc'[u] = pc[u]
  BY <1>1, <1>2
<1>4. view'[t] = Append(view[t], Reply(t)) /\ pc'[t] = "persist"
  BY <1>1, <1>2
<1>5. PICK s : WorksFrom(t, s) /\ Whole(s) /\ AllDone(s)
  BY <1>2 DEF WholeInv, Focused
<1>6. WorksFrom(t, s)'
  <2>1. s \in Seq(Messages) /\ Question(t) \in Messages /\ Reply(t) \in Messages
    BY <1>5 DEF WorksFrom, Messages, Question, Reply
  <2>2. view[t] = s \o <<Question(t)>>
    BY <1>2, <1>5 DEF WorksFrom, Pending
  <2>3. Append(s \o <<Question(t)>>, Reply(t)) = s \o <<Question(t), Reply(t)>>
    BY <2>1
  <2>4. QED
    BY <1>4, <2>1, <2>2, <2>3 DEF WorksFrom, Pending, Question, Reply
<1>7. \A v \in Turns : pc[v] = "done" => pc'[v] = "done"
  BY <1>1, <1>2
<1>8. Whole(s)' /\ AllDone(s)'
  BY <1>5, <1>7, DoneStays DEF WorksFrom, Whole, Question, Reply
<1>9. WholeInv'
  <2>1. \A d \in DOMAIN store' : Whole(store[d])' /\ AllDone(store[d])'
    BY <1>2, StoredKeeps
  <2>2. \A u \in Turns : pc'[u] \in Focused =>
            (\E r : WorksFrom(u, r) /\ Whole(r) /\ AllDone(r))'
    BY <1>2, <1>3, <1>6, <1>8, OthersKeep
  <2>3. QED
    BY <2>1, <2>2 DEF WholeInv
<1>10. Snap(t)' = Snap(t)
  <2>1. Snap(t) = {s}
    BY <1>2, <1>5, SnapIs DEF Focused
  <2>2. PICK m \in Seq(Messages) : m = s
    BY <1>5 DEF WorksFrom
  <2>3. Snap(t)' = {SubSeq(view'[t], 1, Len(view'[t]) - 2)}
    BY <1>4 DEF Snap
  <2>4. <<Question(t), Reply(t)>> \in Seq(Messages) /\ Len(<<Question(t), Reply(t)>>) = 2
    BY DEF Messages, Question, Reply
  <2>5. view'[t] = s \o <<Question(t), Reply(t)>>
    BY <1>4, <1>6 DEF WorksFrom, Pending, Question, Reply
  <2>6. SubSeq(view'[t], 1, Len(view'[t]) - 2) = s
    BY <2>2, <2>4, <2>5, FrontOf
  <2>7. QED
    BY <2>1, <2>3, <2>6
<1>11. \A u \in Turns \ {t} : Snap(u)' = Snap(u)
  BY <1>3 DEF Snap
<1>12. snapOfAll' = snapOfAll
  BY <1>10, <1>11 DEF snapOfAll
<1>13. QED
  BY <1>2, <1>9, <1>12 DEF abstract

\* The write.
LEMMA StoredIsCommit ==
    ASSUME WholeInv, SoundInv', NEW t \in Turns, NEW from \in {"persist", "create"},
           Goto(t, from, "done"), Stored(t)
    PROVE  WholeInv' /\ Transcripts!Commit(t)
<1>1. /\ pc \in [Turns -> {"idle"} \cup Active \cup Settled]
      /\ view \in [Turns -> Seq(Messages)]
  BY DEF WholeInv, SoundInv, TypeOK
<1>2. PICK c : c = conv[t]
  OBVIOUS
<1>3. /\ pc[t] = from /\ pc' = [pc EXCEPT ![t] = "done"]
      /\ store' = With(store, c, view[t]) /\ Return({t})
  BY <1>2 DEF Goto, Stored
<1>4. \A u \in Turns \ {t} : view'[u] = view[u] /\ pc'[u] = pc[u]
  BY <1>1, <1>3 DEF Return
<1>5. pc'[t] = "done" /\ \A v \in Turns : pc[v] = "done" => pc'[v] = "done"
  BY <1>1, <1>3
<1>6. PICK s : WorksFrom(t, s) /\ Whole(s) /\ AllDone(s)
  BY <1>3 DEF WholeInv, Focused
<1>7. view[t] = s \o <<Question(t), Reply(t)>> /\ s \in Seq(Messages)
  BY <1>3, <1>6 DEF WorksFrom, Pending
<1>8. \A i \in DOMAIN s : s[i].turn # t
  BY <1>3, <1>6 DEF AllDone
<1>9. Whole(view[t])
  BY <1>6, <1>7, <1>8, OneMoreTurn
<1>10. \A i \in DOMAIN view[t] : pc'[view[t][i].turn] = "done"
  <2>1. Question(t) \in Messages /\ Reply(t) \in Messages
    BY DEF Messages, Question, Reply
  <2>2. <<Question(t), Reply(t)>> \in Seq(Messages)
    BY <2>1
  <2>3. /\ Len(s) \in Nat /\ DOMAIN s = 1..Len(s)
        /\ DOMAIN view[t] = 1..(Len(s) + 2)
        /\ \A i \in 1..Len(s) : view[t][i] = s[i]
        /\ view[t][Len(s) + 1] = Question(t) /\ view[t][Len(s) + 2] = Reply(t)
    BY <1>7, <2>1, <2>2, ConcatProperties, LenProperties
  <2>4. AllDone(s)'
    BY <1>5, <1>6, <1>7, DoneStays
  <2>5. \A i \in 1..Len(s) : pc'[s[i].turn] = "done"
    BY <2>3, <2>4 DEF AllDone
  <2>6. Question(t).turn = t /\ Reply(t).turn = t
    BY DEF Question, Reply
  <2>7. \A i \in 1..(Len(s) + 2) : i \in 1..Len(s) \/ i = Len(s) + 1 \/ i = Len(s) + 2
    BY <2>3
  <2>8. QED
    BY <1>5, <2>3, <2>5, <2>6, <2>7
<1>11. /\ DOMAIN store' = DOMAIN store \cup {c} /\ store'[c] = view[t]
       /\ \A d \in DOMAIN store : d # c => store'[d] = store[d]
  BY <1>3 DEF With
<1>12. WholeInv'
  <2>1. ASSUME NEW d \in DOMAIN store'
        PROVE  Whole(store[d])' /\ AllDone(store[d])'
    <3>1. CASE d = c
      <4>1. PICK r : r = view[t]
        OBVIOUS
      <4>2. store'[d] = r /\ Whole(r) /\ \A i \in DOMAIN r : pc'[r[i].turn] = "done"
        BY <1>9, <1>10, <1>11, <3>1, <4>1
      <4>3. QED
        BY <4>2 DEF Whole, AllDone, Question, Reply
    <3>2. CASE d # c
      BY <1>11, <3>2, StoredKeeps
    <3>3. QED
      BY <3>1, <3>2
  <2>2. \A u \in Turns : pc'[u] \in Focused =>
            (\E r : WorksFrom(u, r) /\ Whole(r) /\ AllDone(r))'
    BY <1>4, <1>5, OthersKeep DEF Focused
  <2>3. QED
    BY <2>1, <2>2 DEF WholeInv
<1>13. Snap(t) = {s} /\ Snap(t)' = {}
  BY <1>3, <1>5, <1>6, SnapIs DEF Focused, Snap
<1>14. \A u \in Turns \ {t} : Snap(u)' = Snap(u)
  BY <1>4 DEF Snap
<1>15. snapOfAll' = [snapOfAll EXCEPT ![t] = {}] /\ s \in snapOfAll[t]
  BY <1>13, <1>14 DEF snapOfAll
<1>16. store' = [d \in DOMAIN store \cup {c} |->
                    IF d = c THEN s \o <<Transcripts!Question(t), Transcripts!Reply(t)>>
                    ELSE store[d]]
  BY <1>3, <1>7 DEF With, Question, Reply, Transcripts!Question, Transcripts!Reply
<1>17. c \in DOMAIN store'
  BY <1>11
<1>18. QED
  BY <1>12, <1>15, <1>16, <1>17 DEF Transcripts!Commit, snapOfAll

\* A turn that moves on, before its read or within the stretch from read to reply.
LEMMA GotoIsQuiet ==
    ASSUME SoundInv, UNCHANGED <<store, view>>,
           NEW t \in Turns, NEW from, NEW to, Goto(t, from, to), from # "done",
           \/ to \notin Focused
           \/ /\ from \in Focused
              /\ to \in {"persist", "create"} <=> from \in {"persist", "create"}
    PROVE  Quiet
<1>1. pc \in [Turns -> {"idle"} \cup Active \cup Settled]
  BY DEF SoundInv, TypeOK
<1>2. pc[t] = from /\ pc'[t] = to /\ \A u \in Turns \ {t} : pc'[u] = pc[u]
  BY <1>1 DEF Goto
<1>3. QED
  BY <1>2 DEF Quiet

\* Every step keeps the invariant and is one of TranscriptStore's, or none.
LEMMA StepImplements ==
    ASSUME WholeInv, [Next]_vars
    PROVE  WholeInv' /\ [Transcripts!Next]_abstract
<1>0. SoundInv /\ SoundInv'
  BY TypeStep DEF WholeInv
<1>1. CASE Quiet
  BY <1>0, <1>1, QuietKeeps, QuietStutters
<1>2. ASSUME NEW t \in Turns, NEW id, Admit(t, id)
      PROVE  Quiet
  <2>1. PICK to \in {"id", "load"} : Goto(t, "idle", to)
    BY <1>2 DEF Admit
  <2>2. UNCHANGED <<store, view>>
    BY <1>2 DEF Admit, shared, locals
  <2>3. QED
    BY <1>0, <2>1, <2>2, GotoIsQuiet DEF Focused
<1>3. ASSUME NEW t \in Turns, Reject(t) \/ ReadCounter(t) \/ WriteCounter(t)
      PROVE  Quiet
  <2>1. PICK from \in {"idle", "id", "idWrite"}, to \in {"rejected", "idWrite", "idUse"} :
            Goto(t, from, to)
    BY <1>3 DEF Reject, ReadCounter, WriteCounter
  <2>2. UNCHANGED <<store, view>>
    BY <1>3 DEF Reject, ReadCounter, WriteCounter, shared, locals
  <2>3. QED
    BY <1>0, <2>1, <2>2, GotoIsQuiet DEF Focused
<1>4. ASSUME NEW t \in Turns,
             StartPlan(t) \/ Planned(t) \/ Executed(t) \/ NoRowUpdated(t)
      PROVE  Quiet
  <2>1. UNCHANGED <<store, view>>
    BY <1>4 DEF StartPlan, Planned, Executed, NoRowUpdated, shared, locals
  <2>2. PICK from \in Focused, to \in Focused :
            /\ Goto(t, from, to)
            /\ to \in {"persist", "create"} <=> from \in {"persist", "create"}
    BY <1>4 DEF StartPlan, Planned, Executed, NoRowUpdated, Focused
  <2>3. QED
    BY <1>0, <2>1, <2>2, GotoIsQuiet DEF Focused
<1>5. ASSUME NEW t \in Turns,
             CheckCached(t) \/ ServeCached(t) \/ LostCached(t) \/ Collect(t) \/ Unavailable(t)
      PROVE  Quiet
  BY <1>5 DEF CheckCached, ServeCached, LostCached, Collect, Unavailable, shared, Quiet
<1>6. ASSUME NEW t \in Turns, StoreFails(t)
      PROVE  Quiet
  <2>1. PICK from \in {"persist", "create"} : Goto(t, from, "failed")
    BY <1>6 DEF StoreFails
  <2>2. /\ UNCHANGED store
        /\ \A u \in Turns \ {t} : view'[u] = view[u] /\ pc'[u] = pc[u]
        /\ pc[t] = from /\ pc'[t] = "failed"
    BY <1>0, <1>6, <2>1 DEF StoreFails, shared, Return, Goto, SoundInv, TypeOK
  <2>3. QED
    BY <2>2 DEF Quiet, Focused
<1>7. ASSUME Restart
      PROVE  Quiet
  <2>1. \A u \in Turns : /\ pc'[u] = IF pc[u] \in Active THEN "dead" ELSE pc[u]
                         /\ view'[u] = IF u \in Held THEN <<>> ELSE view[u]
    BY <1>7 DEF Restart, Return
  <2>2. UNCHANGED store
    BY <1>7 DEF Restart
  <2>3. QED
    BY <2>1, <2>2 DEF Quiet, Held, Active, Focused
<1>8. ASSUME Tick \/ UNCHANGED vars
      PROVE  Quiet
  BY <1>8 DEF Tick, vars, shared, locals, Quiet
<1>9. ASSUME NEW t \in Turns, FreshId(t)
      PROVE  WholeInv' /\ [Transcripts!Next]_abstract
  <2>1. PICK n \in {reg[t] + 1, counter} :
            /\ Goto(t, "idUse", "purge")
            /\ BeginTurn(t, <<now, n>>, <<>>, <<now, n>> \notin DOMAIN store)
    BY <1>9 DEF FreshId
  <2>2. <<>> \in Seq(Messages)
    BY EmptySeq
  <2>3. QED
    BY <1>0, <2>1, <2>2, BeginIsBegin DEF Transcripts!Next
<1>10. ASSUME NEW t \in Turns, Load(t) \/ LoadFails(t)
       PROVE  WholeInv' /\ [Transcripts!Next]_abstract
  <2>1. <<>> \in Seq(Messages)
    BY EmptySeq
  <2>2. CASE LoadFails(t) \/ conv[t] \notin DOMAIN store
    <3>1. /\ Goto(t, "load", "purge")
          /\ \E read \in BOOLEAN : BeginTurn(t, conv[t], <<>>, read)
      BY <1>10, <2>2 DEF Load, LoadFails
    <3>2. QED
      BY <1>0, <2>1, <3>1, BeginIsBegin DEF Transcripts!Next
  <2>3. CASE Load(t) /\ conv[t] \in DOMAIN store
    <3>1. PICK s : s = store[conv[t]]
      OBVIOUS
    <3>2. s \in Seq(Messages) /\ \E d \in DOMAIN store : s = store[d]
      BY <1>0, <2>3, <3>1 DEF SoundInv, TypeOK
    <3>3. Goto(t, "load", "purge") /\ BeginTurn(t, conv[t], s, TRUE)
      BY <2>3, <3>1 DEF Load
    <3>4. QED
      BY <1>0, <3>2, <3>3, BeginIsBegin DEF Transcripts!Next
  <2>4. QED
    BY <1>10, <2>2, <2>3
<1>11. ASSUME NEW t \in Turns, Narrate(t)
       PROVE  WholeInv' /\ [Transcripts!Next]_abstract
  BY <1>0, <1>11, NarrateIsQuiet
<1>12. ASSUME NEW t \in Turns, Persist(t) \/ CreateRow(t)
       PROVE  WholeInv' /\ [Transcripts!Next]_abstract
  BY <1>0, <1>12, StoredIsCommit DEF Persist, CreateRow, Transcripts!Next
<1>13. QED
  BY <1>1, <1>2, <1>3, <1>4, <1>5, <1>6, <1>7, <1>8, <1>9, <1>10, <1>11, <1>12
     DEF Next, TurnStep

LEMMA WholeInit == Init => WholeInv /\ Transcripts!Init
<1>1. SUFFICES ASSUME Init PROVE WholeInv /\ Transcripts!Init
  OBVIOUS
<1>2. SoundInv
  BY <1>1, TypeInit
<1>3. \A t \in Turns : pc[t] \notin Focused
  BY <1>1 DEF Init, Focused
<1>4. DOMAIN store = {} /\ store = [c \in {} |-> <<>>]
  BY <1>1 DEF Init
<1>5. WholeInv
  BY <1>2, <1>3, <1>4 DEF WholeInv
<1>6. Transcripts!Init
  BY <1>3, <1>4, NoSnap DEF Transcripts!Init
<1>7. QED
  BY <1>5, <1>6

---------------------------------------------------------------------------

\* Stored transcripts are made of whole turns, each there once, for any number of turns
\* of any conversations on either store, with failing reads and writes and restarts
\* (engine.go:72-184, store.go:166-207, sqlite_store.go:87-105).
THEOREM TranscriptsAreWhole == Spec => []WholeTurns
<1>1. WholeInv => WholeTurns
  BY DEF WholeInv, Whole, WholeTurns
<1>2. Init => WholeInv
  BY WholeInit
<1>3. WholeInv /\ [Next]_vars => WholeInv'
  BY StepImplements
<1>4. QED
  BY <1>1, <1>2, <1>3, PTL DEF Spec

\* The engine with its cache, its handlers and either store implements TranscriptStore.
THEOREM EngineImplementsStore == Spec => TranscriptsSpec
<1>1. Init => WholeInv /\ Transcripts!Init
  BY WholeInit
<1>2. WholeInv /\ [Next]_vars => WholeInv' /\ [Transcripts!Next]_abstract
  BY StepImplements
<1>3. QED
  BY <1>1, <1>2, PTL DEF Spec, TranscriptsSpec, Transcripts!Spec, abstract, snapOfAll

---------------------------------------------------------------------------
(* What a turn is served from the cache.                                   *)

\* A turn that has read the store keeps its id, its clock reading and its focus, also
\* when it has returned.
Begun(t) == pc[t] \notin {"idle", "id", "idWrite", "idUse", "load"}

\* The entry under key k of conversation c is what one turn of it left there.
FromTurn(c, k, e) ==
    /\ Begun(e.by) /\ conv[e.by] = c
    /\ focus[e.by] = k[2] /\ e.At = start[e.by]

CachedInScope ==
    \A c \in DOMAIN cache : \A k \in DOMAIN cache[c].entries :
        FromTurn(c, k, cache[c].entries[k])

TakenInScope ==
    \A t \in Turns : \A e \in served[t] :
        /\ Begun(t) /\ FromTurn(conv[t], e.key, e.entry)
        /\ e.key[2] = focus[t]
        /\ start[t] - e.entry.At <= ttlFor(e.key[1])

\* Strengthens ServedInScope: what is still in the cache is in scope, too, and whoever
\* collected it does not change its mind.
ScopeInv == SoundInv /\ CachedInScope /\ TakenInScope

---------------------------------------------------------------------------
(* The cache never makes an entry up.                                      *)

\* What is in `after` was in `before`.
NothingNew(before, after) ==
    \A c \in DOMAIN after :
        /\ c \in DOMAIN before
        /\ \A k \in DOMAIN after[c].entries :
               k \in DOMAIN before[c].entries /\ after[c].entries[k] = before[c].entries[k]

LEMMA TouchAddsNothing ==
    ASSUME NEW before, CacheTyped(before, Entries), NEW c, NEW time
    PROVE  NothingNew(before, Touch(before, c, time))
BY DEF NothingNew, Touch, CacheTyped

LEMMA PurgeAddsNothing ==
    ASSUME NEW before, NEW time
    PROVE  NothingNew(before, Purge(before, time))
BY DEF NothingNew, Purge, Drop

\* put adds one entry.
LEMMA PutAddsOne ==
    ASSUME NEW before, NEW c, NEW key, NEW e, NEW time,
           NEW after \in Put(before, c, key, e, time)
    PROVE  \A d \in DOMAIN after : \A k \in DOMAIN after[d].entries :
               \/ d = c /\ k = key /\ after[d].entries[k] = e
               \/ /\ d \in DOMAIN before /\ k \in DOMAIN before[d].entries
                  /\ after[d].entries[k] = before[d].entries[k]
<1>1. PICK room \in WithRoomFor(before, c) : after = Insert(room, c, key, e, time)
  BY DEF Put
<1>2. NothingNew(before, room)
  BY <1>1 DEF NothingNew, WithRoomFor, Drop
<1>3. \A d \in DOMAIN after : d = c \/ d \in DOMAIN room
  BY <1>1 DEF Insert
<1>4. \A d \in DOMAIN after : d # c => after[d] = room[d]
  BY <1>1 DEF Insert
<1>5. after[c] = StoreEntry(IF c \in DOMAIN room THEN room[c] ELSE NewConvoCache(time),
                            key, e, time)
  BY <1>1 DEF Insert
<1>6. ASSUME NEW cc
      PROVE  \A k \in DOMAIN StoreEntry(cc, key, e, time).entries :
                 IF k = key THEN StoreEntry(cc, key, e, time).entries[k] = e
                 ELSE /\ k \in DOMAIN cc.entries
                      /\ StoreEntry(cc, key, e, time).entries[k] = cc.entries[k]
  BY DEF StoreEntry
<1>7. \A k \in DOMAIN after[c].entries :
          \/ k = key /\ after[c].entries[k] = e
          \/ /\ c \in DOMAIN room /\ k \in DOMAIN room[c].entries
             /\ after[c].entries[k] = room[c].entries[k]
  <2>1. DOMAIN NewConvoCache(time).entries = {}
    BY DEF NewConvoCache
  <2>2. CASE c \in DOMAIN room
    BY <1>5, <1>6, <2>2
  <2>3. CASE c \notin DOMAIN room
    BY <1>5, <1>6, <2>1, <2>3
  <2>4. QED
    BY <2>2, <2>3
<1>8. QED
  BY <1>2, <1>3, <1>4, <1>7 DEF NothingNew

---------------------------------------------------------------------------
(* The steps.                                                              *)

\* What a turn that has begun is about does not change.
LEMMA BegunIsFixed ==
    ASSUME SoundInv, [Next]_vars, NEW u \in Turns, Begun(u)
    PROVE  /\ Begun(u)'
           /\ conv'[u] = conv[u] /\ start'[u] = start[u] /\ focus'[u] = focus[u]
<1>1. /\ pc \in [Turns -> {"idle"} \cup Active \cup Settled]
      /\ conv \in [Turns -> AnyId] /\ start \in [Turns -> Nat]
      /\ focus \in [Turns -> Foci \cup {NoId}]
  BY DEF SoundInv, TypeOK
<1>2. ASSUME NEW t \in Turns, NEW id, Admit(t, id)
      PROVE  Begun(u)' /\ UNCHANGED <<conv[u], start[u], focus[u]>>
  BY <1>1, <1>2 DEF Admit, Goto, Begun
<1>3. ASSUME NEW t \in Turns,
             Reject(t) \/ ReadCounter(t) \/ WriteCounter(t) \/ StartPlan(t) \/ Planned(t)
             \/ Executed(t) \/ Narrate(t) \/ NoRowUpdated(t) \/ Persist(t) \/ CreateRow(t)
             \/ StoreFails(t)
      PROVE  Begun(u)' /\ UNCHANGED <<conv[u], start[u], focus[u]>>
  <2>1. UNCHANGED scope
    BY <1>3 DEF Reject, ReadCounter, WriteCounter, StartPlan, Planned, Executed, Narrate,
                NoRowUpdated, Persist, CreateRow, Stored, StoreFails
  <2>2. Begun(u)'
    BY <1>1, <1>3 DEF Reject, ReadCounter, WriteCounter, StartPlan, Planned, Executed,
                Narrate, NoRowUpdated, Persist, CreateRow, StoreFails, Goto, Begun
  <2>3. QED
    BY <2>1, <2>2 DEF scope
<1>4. ASSUME NEW t \in Turns, FreshId(t) \/ Load(t) \/ LoadFails(t)
      PROVE  Begun(u)' /\ UNCHANGED <<conv[u], start[u], focus[u]>>
  <2>1. /\ pc[t] \in {"idUse", "load"} /\ pc' = [pc EXCEPT ![t] = "purge"]
        /\ conv' = conv \/ \E c : conv' = [conv EXCEPT ![t] = c]
        /\ start' = start /\ \E f \in Foci : focus' = [focus EXCEPT ![t] = f]
    BY <1>4 DEF FreshId, Load, LoadFails, BeginTurn, Goto
  <2>2. u # t
    BY <2>1 DEF Begun
  <2>3. QED
    BY <1>1, <2>1, <2>2 DEF Begun
<1>5. ASSUME NEW t \in Turns,
             CheckCached(t) \/ ServeCached(t) \/ LostCached(t) \/ Collect(t) \/ Unavailable(t)
      PROVE  Begun(u)' /\ UNCHANGED <<conv[u], start[u], focus[u]>>
  BY <1>5 DEF CheckCached, ServeCached, LostCached, Collect, Unavailable, shared, scope, Begun
<1>6. CASE Tick
  BY <1>6 DEF Tick, scope, Begun
<1>7. CASE Restart
  BY <1>1, <1>7 DEF Restart, scope, Begun
<1>8. CASE UNCHANGED vars
  BY <1>8 DEF vars, scope, Begun
<1>9. QED
  BY <1>2, <1>3, <1>4, <1>5, <1>6, <1>7, <1>8 DEF Next, TurnStep

\* An entry that was in scope stays so.
LEMMA StaysInScope ==
    ASSUME SoundInv, [Next]_vars, NEW c, NEW k, NEW e \in Entries, FromTurn(c, k, e)
    PROVE  FromTurn(c, k, e)'
<1>1. e.by \in Turns /\ Begun(e.by)
  BY DEF Entries, FromTurn
<1>2. QED
  BY <1>1, BegunIsFixed DEF FromTurn

\* What the cache holds after a step it held before, or the turn has collected it.
LEMMA CacheComesFrom ==
    ASSUME SoundInv, [Next]_vars,
           NEW c \in DOMAIN cache', NEW k \in DOMAIN cache'[c].entries
    PROVE  \/ \E t \in Turns :
                  /\ Collect(t) /\ c = conv[t]
                  /\ k = cacheKey(Current(t).collector, focus[t])
                  /\ cache'[c].entries[k] = Collected(t)
           \/ /\ c \in DOMAIN cache /\ k \in DOMAIN cache[c].entries
              /\ cache'[c].entries[k] = cache[c].entries[k]
<1>1. CASE UNCHANGED cache
  BY <1>1
<1>2. CASE NothingNew(cache, cache')
  BY <1>2 DEF NothingNew
<1>3. ASSUME NEW t \in Turns, StartPlan(t)
      PROVE  NothingNew(cache, cache')
  BY <1>3, PurgeAddsNothing DEF StartPlan
<1>4. ASSUME NEW t \in Turns, CheckCached(t) \/ ServeCached(t) \/ LostCached(t)
      PROVE  NothingNew(cache, cache')
  <2>1. cache' = Touch(cache, conv[t], start[t])
    BY <1>4 DEF CheckCached, ServeCached, LostCached
  <2>2. QED
    BY <2>1, TouchAddsNothing DEF SoundInv, TypeOK
<1>5. ASSUME NEW t \in Turns, Collect(t)
      PROVE  \/ /\ c = conv[t] /\ k = cacheKey(Current(t).collector, focus[t])
                /\ cache'[c].entries[k] = Collected(t)
             \/ /\ c \in DOMAIN cache /\ k \in DOMAIN cache[c].entries
                /\ cache'[c].entries[k] = cache[c].entries[k]
  BY <1>5, PutAddsOne DEF Collect
<1>6. CASE Restart
  BY <1>6 DEF Restart, EmptyCache
<1>7. \/ \E t \in Turns : StartPlan(t) \/ CheckCached(t) \/ ServeCached(t) \/ LostCached(t)
                          \/ Collect(t)
      \/ Restart
      \/ UNCHANGED cache
  <2>1. ASSUME NEW t \in Turns, TurnStep(t)
        PROVE  \/ StartPlan(t) \/ CheckCached(t) \/ ServeCached(t) \/ LostCached(t)
               \/ Collect(t)
               \/ UNCHANGED cache
    BY <2>1 DEF TurnStep, ReadCounter, WriteCounter, FreshId, Load, LoadFails, BeginTurn,
         Planned, Unavailable, Executed, Narrate, Persist, NoRowUpdated, CreateRow,
         Stored, StoreFails, shared
  <2>2. QED
    BY <2>1 DEF Next, Admit, Reject, Tick, shared, vars
<1>8. QED
  BY <1>1, <1>2, <1>3, <1>4, <1>5, <1>6, <1>7

\* What a turn has after a step it had before, or it has just been served it.
LEMMA ServedComesFrom ==
    ASSUME SoundInv, [Next]_vars, NEW t \in Turns, NEW e \in served'[t]
    PROVE  \/ e \in served[t]
           \/ /\ ServeCached(t)
              /\ e.key = cacheKey(Current(t).collector, focus[t])
              /\ e.entry = cache[conv[t]].entries[e.key]
<1>1. served \in [Turns -> SUBSET [key : Keys, entry : Entries]]
  BY DEF SoundInv, TypeOK
<1>2. CASE UNCHANGED served
  BY <1>2
<1>3. ASSUME NEW u \in Turns, ServeCached(u)
      PROVE  \/ e \in served[t]
             \/ /\ ServeCached(t)
                /\ e.key = cacheKey(Current(t).collector, focus[t])
                /\ e.entry = cache[conv[t]].entries[e.key]
  <2>1. CASE u # t
    BY <1>1, <1>3, <2>1 DEF ServeCached
  <2>2. CASE u = t
    <3>1. PICK key : key = cacheKey(Current(t).collector, focus[t])
      OBVIOUS
    <3>2. served' = [served EXCEPT ![t] =
                        @ \cup {[key |-> key, entry |-> cache[conv[t]].entries[key]]}]
      BY <1>3, <2>2, <3>1 DEF ServeCached
    <3>3. e \in served[t] \/ e = [key |-> key, entry |-> cache[conv[t]].entries[key]]
      BY <1>1, <3>2
    <3>4. QED
      BY <1>3, <2>2, <3>1, <3>3
  <2>3. QED
    BY <2>1, <2>2
<1>4. ASSUME NEW gone, Return(gone)
      PROVE  e \in served[t]
  BY <1>4 DEF Return
<1>5. \/ \E u \in Turns : ServeCached(u)
      \/ \E gone : Return(gone)
      \/ UNCHANGED served
  <2>1. ASSUME NEW u \in Turns, TurnStep(u)
        PROVE  ServeCached(u) \/ Return({u}) \/ UNCHANGED served
    BY <2>1 DEF TurnStep, ReadCounter, WriteCounter, FreshId, Load, LoadFails, BeginTurn,
         StartPlan, CheckCached, LostCached, Collect, Planned, Unavailable, Executed, Narrate,
         Persist, NoRowUpdated, CreateRow, Stored, StoreFails, locals
  <2>2. CASE Restart
    BY <2>2 DEF Restart
  <2>3. QED
    BY <2>1, <2>2 DEF Next, Admit, Reject, Tick, locals, vars
<1>6. QED
  BY <1>2, <1>3, <1>4, <1>5

LEMMA ScopeInit == Init => ScopeInv
<1>1. SUFFICES ASSUME Init PROVE CachedInScope /\ TakenInScope
  BY TypeInit DEF ScopeInv
<1>2. DOMAIN cache = {}
  BY <1>1 DEF Init, EmptyCache
<1>3. \A t \in Turns : served[t] = {}
  BY <1>1 DEF Init
<1>4. QED
  BY <1>2, <1>3 DEF CachedInScope, TakenInScope

LEMMA ScopeStep == ScopeInv /\ [Next]_vars => ScopeInv'
<1> SUFFICES ASSUME ScopeInv, [Next]_vars
             PROVE  ScopeInv'
  OBVIOUS
<1>1. SoundInv /\ SoundInv'
  BY TypeStep DEF ScopeInv
<1>2. ASSUME NEW c \in DOMAIN cache', NEW k \in DOMAIN cache'[c].entries
      PROVE  FromTurn(c, k, cache[c].entries[k])'
  <2>1. PICK e : e = cache'[c].entries[k]
    OBVIOUS
  <2>2. CASE /\ c \in DOMAIN cache /\ k \in DOMAIN cache[c].entries
             /\ e = cache[c].entries[k]
    <3>1. e \in Entries
      BY <1>1, <2>2 DEF SoundInv, TypeOK, CacheTyped
    <3>2. FromTurn(c, k, e)
      BY <2>2 DEF ScopeInv, CachedInScope
    <3>3. FromTurn(c, k, e)'
      BY <1>1, <3>1, <3>2, StaysInScope
    <3>4. QED
      BY <2>1, <3>3
  <2>3. ASSUME NEW t \in Turns, Collect(t), c = conv[t],
               k = cacheKey(Current(t).collector, focus[t]), e = Collected(t)
        PROVE  FromTurn(c, k, e)'
    <3>1. Begun(t) /\ e.by = t /\ e.At = start[t] /\ k[2] = focus[t]
      BY <2>3 DEF Collect, Begun, Collected, cacheKey
    <3>2. Begun(t)' /\ conv'[t] = conv[t] /\ start'[t] = start[t] /\ focus'[t] = focus[t]
      BY <1>1, <3>1, BegunIsFixed
    <3>3. QED
      BY <2>3, <3>1, <3>2 DEF FromTurn
  <2>4. QED
    BY <1>1, <2>1, <2>2, <2>3, CacheComesFrom
<1>3. ASSUME NEW t \in Turns, NEW e \in served'[t]
      PROVE  /\ Begun(t)' /\ FromTurn(conv[t], e.key, e.entry)'
             /\ e.key[2] = focus'[t]
             /\ start'[t] - e.entry.At <= ttlFor(e.key[1])
  <2>1. ASSUME /\ Begun(t) /\ FromTurn(conv[t], e.key, e.entry)
               /\ e.entry \in Entries /\ e.key[2] = focus[t]
               /\ start[t] - e.entry.At <= ttlFor(e.key[1])
        PROVE  /\ Begun(t)' /\ FromTurn(conv[t], e.key, e.entry)'
               /\ e.key[2] = focus'[t]
               /\ start'[t] - e.entry.At <= ttlFor(e.key[1])
    <3>1. conv'[t] = conv[t] /\ start'[t] = start[t] /\ focus'[t] = focus[t] /\ Begun(t)'
      BY <1>1, <2>1, BegunIsFixed
    <3>2. PICK c, k, entry : c = conv[t] /\ k = e.key /\ entry = e.entry
      OBVIOUS
    <3>3. FromTurn(c, k, entry)'
      BY <1>1, <2>1, <3>2, StaysInScope
    <3>4. QED
      BY <2>1, <3>1, <3>2, <3>3 DEF FromTurn
  <2>2. CASE e \in served[t]
    BY <1>1, <2>1, <2>2 DEF ScopeInv, TakenInScope, SoundInv, TypeOK
  <2>3. CASE /\ ServeCached(t)
             /\ e.key = cacheKey(Current(t).collector, focus[t])
             /\ e.entry = cache[conv[t]].entries[e.key]
    <3>1. Begun(t)
      BY <2>3 DEF ServeCached, Begun
    <3>2. /\ conv[t] \in DOMAIN cache /\ e.key \in DOMAIN cache[conv[t]].entries
          /\ start[t] - e.entry.At <= ttlFor(Current(t).collector)
      BY <2>3 DEF ServeCached, Hit, Fresh
    <3>3. e.key[1] = Current(t).collector /\ e.key[2] = focus[t]
      BY <2>3 DEF cacheKey
    <3>4. FromTurn(conv[t], e.key, e.entry) /\ e.entry \in Entries
      BY <1>1, <2>3, <3>2 DEF ScopeInv, CachedInScope, SoundInv, TypeOK, CacheTyped
    <3>5. QED
      BY <2>1, <3>1, <3>2, <3>3, <3>4
  <2>4. QED
    BY <1>1, <2>2, <2>3, ServedComesFrom
<1>4. CachedInScope'
  BY <1>2 DEF CachedInScope
<1>5. TakenInScope'
  BY <1>3 DEF TakenInScope
<1>6. QED
  BY <1>1, <1>4, <1>5 DEF ScopeInv

\* Evidence is never served across conversations or foci, nor beyond its TTL by the
\* clock of the turn, whatever turns store, evict and purge in between and with
\* whatever readings of the clock (evidcache.go:58-132, planner.go:106-157).
THEOREM EvidenceIsServedInScope == Spec => []ServedInScope
<1>1. ScopeInv => ServedInScope
  BY DEF ScopeInv, TakenInScope, FromTurn, ServedInScope
<1>2. QED
  BY ScopeInit, ScopeStep, <1>1, PTL DEF Spec
=============================================================================
