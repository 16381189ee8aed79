--------------------------- MODULE HostEngineSafety ---------------------------
(***************************************************************************)
(* Proofs about HostEngine that look at what a step makes of one session:  *)
(* HostEngine implements CommandLedger, no output is lost, the decision    *)
(* shown is the one told, and a turn that is over is quiet.                *)
(***************************************************************************)
EXTENDS HostEngineProofs

\* What a client would be answered: the live copy, or the stored value.
Latest(s) == IF live[s] # NoLive THEN live[s].value ELSE disk[s]

\* Two values that differ at most in revision, stamps, title and settings.
Same(v, w) == /\ v.status = w.status /\ v.run = w.run /\ v.question = w.question
              /\ v.blocks = w.blocks

\* The commands of a session accepted in a step, and the deltas taken.
Accepts(s, new) ==
  \A d \in Commands : SessionOf(d) = s =>
    /\ d \in receipts' <=> d \in receipts \/ d \in new
    /\ d \in receipts /\ ~StartsTurn(d) => effects'[d] = effects[d]
SameGiven(s) ==
  \A c \in Commands : StartsTurn(c) /\ SessionOf(c) = s => given'[c] = given[c]
Quietly(s) == Accepts(s, {}) /\ SameGiven(s)

\* What a step can make of a session: it is not there afterwards; its content
\* is the same, in the store as before or as in the live copy;
Absent(s) == disk'[s] = NoSession /\ Quietly(s)
Content(s) ==
  /\ disk[s] # NoSession /\ disk'[s] # NoSession
  /\ Same(Latest(s)', Latest(s))
  /\ Same(disk'[s], disk[s]) \/ Same(disk'[s], Latest(s))
  /\ Quietly(s)
\* it is created, or a command is accepted;
Made(s) ==
  /\ disk[s] = NoSession /\ live'[s] = NoLive /\ SameGiven(s)
  /\ \E c \in Commands : /\ Type(c) = "create" /\ SessionOf(c) = s /\ c \notin receipts
                         /\ disk'[s] = Created(c) /\ Accepts(s, {c})
Commanded(s) ==
  /\ disk[s] # NoSession /\ disk'[s] # NoSession /\ SameGiven(s)
  /\ \E c \in Commands, v \in Values :
       /\ Type(c) # "create" /\ SessionOf(c) = s /\ c \notin receipts
       /\ Same(v, Latest(s)) /\ Acceptable(c, v)
       /\ Same(disk'[s], After(c, v)) /\ Same(Latest(s)', After(c, v))
       /\ Accepts(s, {c})
       /\ Type(c) = "approve" => effects'[c] = effects[c] + 1
\* an event is taken, and stored or not;
Told(s) ==
  /\ disk[s] # NoSession /\ disk'[s] # NoSession /\ Accepts(s, {})
  /\ Latest(s) \in Values /\ Latest(s).status = "running"
  /\ live[s] # NoLive /\ live'[s] # NoLive
  /\ \E e \in Events :
       /\ Possible(e, Latest(s)) /\ Same(Latest(s)', Apply(e, Latest(s)))
       /\ Same(disk'[s], disk[s]) \/ Same(disk'[s], Latest(s)')
       /\ \A c \in Commands : StartsTurn(c) /\ SessionOf(c) = s =>
            given'[c] = IF e = "delta" /\ c = Latest(s).run THEN given[c] + 1 ELSE given[c]
\* its turn is settled; or the process ends.
Ends(s) ==
  /\ disk[s] # NoSession /\ disk'[s] # NoSession /\ live'[s] = NoLive /\ Quietly(s)
  /\ \E v \in Values, st \in {"idle", "interrupted"}, clean \in BOOLEAN :
       Same(v, Latest(s)) /\ v.status = "running" /\ Same(disk'[s], Settled(v, st, clean))
Dropped(s) ==
  /\ disk[s] # NoSession /\ disk'[s] = disk[s] /\ live'[s] = NoLive /\ Accepts(s, {})
  /\ \A c \in Commands : StartsTurn(c) /\ SessionOf(c) = s =>
       given'[c] = IF live[s] # NoLive /\ Latest(s).run = c
                   THEN disk[s].blocks[<<c, "answer">>].text ELSE given[c]

Change(s) == \/ Absent(s) \/ Content(s) \/ Made(s) \/ Commanded(s) \/ Told(s)
             \/ Ends(s) \/ Dropped(s)

\* A step that is about session s leaves the others.
Elsewhere(s) ==
  \A t \in Sessions \ {s} : disk'[t] = disk[t] /\ live'[t] = live[t] /\ Quietly(t)

LEMMA ElsewhereChange ==
  ASSUME IInv, NEW s \in Sessions, Elsewhere(s), NEW t \in Sessions \ {s}
  PROVE  Change(t)
<1>1. disk'[t] = disk[t] /\ live'[t] = live[t] /\ Quietly(t)
  BY DEF Elsewhere
<1>2. CASE disk[t] = NoSession
  BY <1>1, <1>2 DEF Change, Absent
<1>3. CASE disk[t] # NoSession
  <2>1. Latest(t)' = Latest(t)
    BY <1>1 DEF Latest
  <2> QED
    BY <1>1, <1>3, <2>1 DEF Change, Content, Same
<1> QED
  BY <1>2, <1>3

-----------------------------------------------------------------------------
(* The shape of every step *)

\* save keeps the content.
LEMMA WrittenSame ==
  ASSUME NEW p \in Values, NEW n \in Values
  PROVE  Written(p, n) \in Values /\ Same(Written(p, n), n)
BY WrittenValue DEF Same

\* flush brings the store to the content of the live copy.
LEMMA FlushedSame ==
  ASSUME IInv, NEW s \in Sessions, disk[s] # NoSession
  PROVE  /\ Flushed(s) \in Values /\ Latest(s) \in Values /\ disk[s] \in Values
         /\ Same(Flushed(s), Latest(s))
         /\ Latest(s).status = disk[s].status /\ Latest(s).run = disk[s].run
         /\ ~Dirty(s) => Latest(s) = disk[s]
<1>1. TypeOK /\ Consistent(s) /\ Flushed(s) \in Values /\ disk[s] \in Values
  BY FlushedFacts DEF IInv
<1>2. CASE Dirty(s)
  <2>1. /\ live[s] # NoLive /\ live[s].value \in Values
        /\ live[s].value.status = disk[s].status /\ live[s].value.run = disk[s].run
    BY <1>1, <1>2 DEF Dirty, TypeOK, Live, Consistent, Running
  <2>2. Same(Written(disk[s], live[s].value), live[s].value)
    BY <1>1, <2>1, WrittenSame
  <2> QED
    BY <1>1, <1>2, <2>1, <2>2 DEF Flushed, Latest
<1>3. CASE ~Dirty(s)
  <2>1. Latest(s) = disk[s]
    BY <1>1, <1>3 DEF Latest, Dirty, Consistent
  <2> QED
    BY <1>1, <1>3, <2>1 DEF Flushed, Same
<1> QED
  BY <1>2, <1>3

\* What is stored and kept is what a client is answered.
LEMMA StoredLatest ==
  ASSUME TypeOK, NEW s \in Sessions, NEW w \in Values, Store(s, w), Keep(s, w)
  PROVE  /\ disk'[s] = w /\ Latest(s)' = w /\ disk'[s] # NoSession
         /\ live'[s] = NoLive <=> live[s] = NoLive
         /\ \A t \in Sessions \ {s} : disk'[t] = disk[t] /\ live'[t] = live[t]
<1>1. disk'[s] = w /\ live'[s] = Kept(s, w) /\ w # NoSession
  BY NullAssumption DEF Store, Keep, TypeOK
<1>2. Kept(s, w) = NoLive <=> live[s] = NoLive
  <2>1. live[s] # NoLive => Kept(s, w) \in Live
    BY DEF Kept, Live
  <2> QED
    BY <2>1, NullAssumption DEF Kept
<1>3. live[s] # NoLive => Kept(s, w).value = w
  BY DEF Kept
<1> QED
  BY <1>1, <1>2, <1>3 DEF Latest, Store, Keep, TypeOK

\* Steps that accept nothing and take no delta.
LEMMA AllQuiet ==
  ASSUME UNCHANGED <<receipts, given>>,
         \A d \in Commands : d \in receipts /\ ~StartsTurn(d) => effects'[d] = effects[d],
         NEW s \in Sessions
  PROVE  Quietly(s)
BY DEF Quietly, Accepts, SameGiven

\* A step that leaves store and live copies alone, or writes again what is there.
LEMMA KeptChange ==
  ASSUME IInv, NEW s \in Sessions,
         UNCHANGED <<receipts, effects, given>>,
         \/ UNCHANGED <<disk, live>>
         \/ FlushThrows(s)
         \/ /\ disk[s] # NoSession
            /\ \E w \in Values : Same(w, Latest(s)) /\ Store(s, w) /\ Keep(s, w)
  PROVE  \A t \in Sessions : Change(t)
<1>1. TypeOK /\ \A t \in Sessions : Quietly(t)
  BY AllQuiet DEF IInv
<1>2. CASE UNCHANGED <<disk, live>>
  <2>1. ASSUME NEW t \in Sessions
        PROVE  Change(t)
    <3>1. CASE disk[t] = NoSession
      BY <1>1, <1>2, <3>1 DEF Change, Absent
    <3>2. CASE disk[t] # NoSession
      <4>1. Latest(t)' = Latest(t)
        BY <1>2 DEF Latest
      <4> QED
        BY <1>1, <1>2, <3>2, <4>1 DEF Change, Content, Same
    <3> QED
      BY <3>1, <3>2
  <2> QED
    BY <2>1
<1>3. CASE FlushThrows(s)
  <2>1. /\ disk' = disk /\ live[s] # NoLive /\ live[s] \in Live
        /\ live' = [live EXCEPT ![s].timer = "none"]
    BY <1>1, <1>3 DEF FlushThrows, Dirty, TypeOK
  <2>2. /\ live'[s] # NoLive /\ live'[s].value = live[s].value
        /\ \A t \in Sessions \ {s} : live'[t] = live[t]
    BY <1>1, <2>1, NullAssumption DEF TypeOK, Live
  <2>3. disk[s] # NoSession
    BY <2>1 DEF IInv, Consistent, Running
  <2>4. Latest(s)' = Latest(s)
    BY <2>1, <2>2 DEF Latest
  <2>5. Change(s)
    BY <1>1, <2>1, <2>3, <2>4 DEF Change, Content, Same
  <2>6. Elsewhere(s)
    BY <1>1, <2>1, <2>2 DEF Elsewhere
  <2> QED
    BY <2>5, <2>6, ElsewhereChange
<1>4. ASSUME disk[s] # NoSession, NEW w \in Values, Same(w, Latest(s)), Store(s, w), Keep(s, w)
      PROVE  \A t \in Sessions : Change(t)
  <2>1. /\ disk'[s] = w /\ Latest(s)' = w /\ disk'[s] # NoSession
        /\ \A t \in Sessions \ {s} : disk'[t] = disk[t] /\ live'[t] = live[t]
    BY <1>1, <1>4, StoredLatest
  <2>2. Change(s)
    BY <1>1, <1>4, <2>1 DEF Change, Content
  <2>3. Elsewhere(s)
    BY <1>1, <2>1 DEF Elsewhere
  <2> QED
    BY <2>2, <2>3, ElsewhereChange
<1> QED
  BY <1>2, <1>3, <1>4

\* A turned down command, a rename and a title leave the content.
LEMMA RefuseChange ==
  ASSUME IInv, NEW c \in Commands, Refuse(c)
  PROVE  \A t \in Sessions : Change(t)
<1> DEFINE s == SessionOf(c)
<1>1. s \in Sessions /\ UNCHANGED <<receipts, effects, given>>
  BY PayloadFields DEF Refuse
<1>2. \/ UNCHANGED <<disk, live>>
      \/ FlushThrows(s)
      \/ /\ disk[s] # NoSession
         /\ Store(s, Flushed(s)) /\ Keep(s, Flushed(s))
  BY DEF Refuse
<1> QED
  BY <1>1, <1>2, KeptChange, FlushedSame

LEMMA TitledSame ==
  ASSUME NEW v \in Values, NEW t \in {"prompt", "generated", "renamed"}
  PROVE  /\ Written(v, [v EXCEPT !.title = t]) \in Values
         /\ Same(Written(v, [v EXCEPT !.title = t]), v)
<1>1. [v EXCEPT !.title = t] \in Values /\ Same([v EXCEPT !.title = t], v)
  BY DEF Values, Same
<1> QED
  BY <1>1, WrittenSame DEF Same

LEMMA TitleChange ==
  ASSUME IInv, NEW s \in Sessions, Rename(s) \/ TitleArrives(s)
  PROVE  \A t \in Sessions : Change(t)
<1> DEFINE f == Flushed(s)
           u == Written(f, [f EXCEPT !.title = "renamed"])
           w == Written(f, [f EXCEPT !.title = "generated"])
<1>1. disk[s] # NoSession /\ UNCHANGED <<receipts, effects, given>>
  BY DEF Rename, TitleArrives
<1>2. f \in Values /\ Same(f, Latest(s))
  BY <1>1, FlushedSame
<1>3. /\ u \in Values /\ Same(u, Latest(s))
      /\ w \in Values /\ Same(w, Latest(s))
  <2> HIDE DEF f
  <2> QED
    BY <1>2, TitledSame DEF Same
<1>4. FlushThrows(s) \/ \E x \in {f, u, w} : Store(s, x) /\ Keep(s, x)
  BY DEF Rename, TitleArrives
<1> HIDE DEF f, u, w
<1>5. FlushThrows(s) \/ \E x \in Values : Same(x, Latest(s)) /\ Store(s, x) /\ Keep(s, x)
  BY <1>2, <1>3, <1>4
<1> QED
  BY <1>1, <1>5, KeptChange

LEMMA CreateChange ==
  ASSUME IInv, NEW c \in Commands, Create(c)
  PROVE  \A t \in Sessions : Change(t)
<1> DEFINE s == SessionOf(c)
<1>1. TypeOK /\ s \in Sessions /\ disk[s] = NoSession /\ live[s] = NoLive
  BY PayloadFields DEF IInv, Create, Consistent, Running
<1>2. /\ disk' = [disk EXCEPT ![s] = Created(c)] /\ receipts' = receipts \cup {c}
      /\ Type(c) = "create" /\ c \notin receipts
      /\ UNCHANGED <<live, effects, given>>
  BY DEF Create, Store
<1>3. disk'[s] = Created(c) /\ \A t \in Sessions \ {s} : disk'[t] = disk[t]
  BY <1>1, <1>2 DEF TypeOK
<1>4. Accepts(s, {c}) /\ SameGiven(s)
  BY <1>2 DEF Accepts, SameGiven
<1>5. Change(s)
  BY <1>1, <1>2, <1>3, <1>4 DEF Change, Made
<1>6. ASSUME NEW t \in Sessions \ {s}
      PROVE  Quietly(t)
  BY <1>2, <1>6 DEF Quietly, Accepts, SameGiven
<1>7. Elsewhere(s)
  BY <1>2, <1>3, <1>6 DEF Elsewhere
<1> QED
  BY <1>1, <1>5, <1>7, ElsewhereChange

\* An accepted command: of a turn, and of any other.
LEMMA AcceptChange ==
  ASSUME IInv, NEW c \in Commands, Accept(c)
  PROVE  \A t \in Sessions : Change(t)
<1> DEFINE s == SessionOf(c)
           f == Flushed(s)
           a == After(c, f)
           w == Written(f, a)
<1>1. /\ TypeOK /\ s \in Sessions /\ disk[s] # NoSession /\ Acceptable(c, f)
      /\ Type(c) # "create" /\ c \notin receipts
      /\ Store(s, w) /\ receipts' = receipts \cup {c} /\ Effect(c, w)
      /\ UNCHANGED <<up, switching, process, given, budget>>
  BY PayloadFields DEF IInv, Accept
<1>2. f \in Values /\ Same(f, Latest(s))
  BY <1>1, FlushedSame
<1>3. a \in Values
  BY <1>2, AfterValue
<1>4. w \in Values /\ Same(w, a) /\ w # NoSession
  BY <1>2, <1>3, WrittenSame, NullAssumption
<1> HIDE DEF w
<1>5. /\ disk'[s] = w /\ Latest(s)' = w
      /\ \A t \in Sessions \ {s} : disk'[t] = disk[t] /\ live'[t] = live[t]
  <2>1. CASE StartsTurn(c)
    <3> DEFINE l == [value |-> w, dirty |-> FALSE, timer |-> "none"]
    <3>1. live' = [live EXCEPT ![s] = l]
      BY <1>1, <2>1 DEF Effect
    <3>2. l \in Live /\ l # NoLive /\ l.value = w
      <4>1. l \in Live
        BY <1>4 DEF Live
      <4> QED
        BY <4>1, NullAssumption
    <3> HIDE DEF l
    <3> QED
      BY <1>1, <3>1, <3>2 DEF Store, TypeOK, Latest
  <2>2. CASE ~StartsTurn(c)
    <3>1. Keep(s, w)
      BY <1>1, <2>2 DEF Effect
    <3> QED
      BY <1>1, <1>4, <3>1, StoredLatest
  <2> QED
    BY <2>1, <2>2
<1>6. /\ effects' \in {effects, [effects EXCEPT ![c] = @ + 1]}
      /\ Type(c) = "approve" => effects' = [effects EXCEPT ![c] = @ + 1]
  <2>1. CASE StartsTurn(c)
    BY <1>1, <2>1 DEF Effect, StartsTurn
  <2>2. CASE ~StartsTurn(c)
    BY <1>1, <2>2 DEF Effect
  <2> QED
    BY <2>1, <2>2
<1>7. /\ \A d \in receipts : effects'[d] = effects[d]
      /\ Type(c) = "approve" => effects'[c] = effects[c] + 1
  BY <1>1, <1>6 DEF TypeOK
<1>8. Accepts(s, {c}) /\ SameGiven(s)
  BY <1>1, <1>7 DEF Accepts, SameGiven
<1>9. Commanded(s)
  BY <1>1, <1>2, <1>4, <1>5, <1>7, <1>8 DEF Commanded
<1>10. ASSUME NEW t \in Sessions \ {s}
       PROVE  Quietly(t)
  BY <1>1, <1>7, <1>10 DEF Quietly, Accepts, SameGiven
<1>11. Elsewhere(s)
  BY <1>5, <1>10 DEF Elsewhere
<1> QED
  BY <1>1, <1>9, <1>11, ElsewhereChange DEF Change

-----------------------------------------------------------------------------

LEMMA CallProviderChange ==
  ASSUME IInv, NEW s \in Sessions, CallProvider(s)
  PROVE  \A t \in Sessions : Change(t)
<1>1. /\ TypeOK /\ running[s].id \in Commands /\ StartsTurn(running[s].id)
      /\ UNCHANGED <<disk, live, receipts, given>>
      /\ effects' \in {effects, [effects EXCEPT ![running[s].id] = @ + 1]}
  BY DEF IInv, CallProvider, Consistent, TypeOK, Turn
<1>2. \A d \in Commands : ~StartsTurn(d) => effects'[d] = effects[d]
  BY <1>1 DEF TypeOK
<1>3. ASSUME NEW t \in Sessions
      PROVE  Change(t)
  <2>1. Quietly(t)
    BY <1>1, <1>2 DEF Quietly, Accepts, SameGiven
  <2>2. CASE disk[t] = NoSession
    BY <1>1, <2>1, <2>2 DEF Change, Absent
  <2>3. CASE disk[t] # NoSession
    <3>1. Latest(t)' = Latest(t)
      BY <1>1 DEF Latest
    <3> QED
      BY <1>1, <2>1, <2>3, <3>1 DEF Change, Content, Same
  <2> QED
    BY <2>2, <2>3
<1> QED
  BY <1>3

\* A settled turn.
LEMMA SettleChange ==
  ASSUME IInv, NEW s \in Sessions, Finish(s) \/ FinishRetry(s)
  PROVE  \A t \in Sessions : Change(t)
<1>1. PICK st \in {"idle", "interrupted"}, clean \in BOOLEAN :
        Settle(s, st, clean) /\ running[s] # NoTurn
  BY DEF Finish, FinishRetry
<1> DEFINE v == Flushed(s)
           n == Settled(v, st, clean)
           w == Written(v, n)
<1>2. TypeOK /\ Consistent(s) /\ disk[s] # NoSession /\ Running(s)
  BY <1>1 DEF IInv, Consistent, Running
<1>3. /\ v \in Values /\ Same(v, Latest(s))
      /\ v.run = running[s].id /\ v.status = "running"
  <2>1. v \in Values /\ Same(v, Latest(s))
    BY <1>2, FlushedSame
  <2>2. v.status = disk[s].status /\ v.run = disk[s].run
    BY <1>2, FlushedFacts
  <2> QED
    BY <1>1, <1>2, <2>1, <2>2 DEF Consistent, Running
<1>4. n \in Values
  BY <1>3, SettledValue
<1>5. w \in Values /\ Same(w, n) /\ w # NoSession
  BY <1>3, <1>4, WrittenSame, NullAssumption
<1>6. disk' = [disk EXCEPT ![s] = w] /\ live' = [live EXCEPT ![s] = NoLive]
      /\ UNCHANGED <<receipts, effects, given>>
  BY <1>1, <1>3 DEF Settle, Store
<1> HIDE DEF w
<1>7. /\ disk'[s] = w /\ live'[s] = NoLive
      /\ \A t \in Sessions \ {s} : disk'[t] = disk[t] /\ live'[t] = live[t]
  BY <1>2, <1>6 DEF TypeOK
<1>8. \A t \in Sessions : Quietly(t)
  BY <1>6, AllQuiet
<1>9. Change(s)
  BY <1>2, <1>3, <1>5, <1>7, <1>8 DEF Change, Ends
<1>10. Elsewhere(s)
  BY <1>7, <1>8 DEF Elsewhere
<1> QED
  BY <1>9, <1>10, ElsewhereChange

\* A turn that cannot be settled keeps its content, perhaps stored now.
LEMMA SettleFailsChange ==
  ASSUME IInv, NEW s \in Sessions, NEW p \in {"stopping", "retrying"}, SettleFails(s, p)
  PROVE  \A t \in Sessions : Change(t)
<1>1. /\ TypeOK /\ Consistent(s) /\ disk[s] # NoSession
      /\ UNCHANGED <<receipts, effects, given>>
  BY DEF IInv, SettleFails, Consistent, Running
<1>2. \A t \in Sessions : Quietly(t)
  BY <1>1, AllQuiet
<1>3. CASE UNCHANGED disk /\ live' \in {TimerCleared(s), live}
  <2>1. /\ live'[s] = NoLive <=> live[s] = NoLive
        /\ live[s] # NoLive => live'[s].value = live[s].value
        /\ \A t \in Sessions \ {s} : live'[t] = live[t]
    <3>1. CASE live[s] = NoLive
      BY <1>3, <3>1 DEF TimerCleared
    <3>2. CASE live[s] # NoLive
      <4> DEFINE m == [live[s] EXCEPT !.timer = IF @ = "armed" THEN "cleared" ELSE @]
      <4>1. m \in Live /\ m.value = live[s].value
        BY <1>1, <3>2 DEF TypeOK, Live
      <4>2. live' = live \/ live' = [live EXCEPT ![s] = m]
        BY <1>1, <1>3, <3>2 DEF TimerCleared, TypeOK, Live
      <4> HIDE DEF m
      <4> QED
        BY <1>1, <3>2, <4>1, <4>2, NullAssumption DEF TypeOK
    <3> QED
      BY <3>1, <3>2
  <2>2. Latest(s)' = Latest(s)
    BY <1>3, <2>1 DEF Latest
  <2>3. Change(s)
    BY <1>1, <1>2, <1>3, <2>2 DEF Change, Content, Same
  <2>4. Elsewhere(s)
    BY <1>2, <1>3, <2>1 DEF Elsewhere
  <2> QED
    BY <2>3, <2>4, ElsewhereChange
<1>4. CASE FlushThrows(s) \/ (Store(s, Flushed(s)) /\ Keep(s, Flushed(s)))
  BY <1>1, <1>4, KeptChange, FlushedSame
<1>5. CASE Store(s, Flushed(s)) /\ live' = [live EXCEPT ![s] = NoLive]
  <2> DEFINE f == Flushed(s)
  <2>1. f \in Values /\ Same(f, Latest(s)) /\ f # NoSession
    BY <1>1, FlushedSame, NullAssumption
  <2>2. /\ disk'[s] = f /\ live'[s] = NoLive
        /\ \A t \in Sessions \ {s} : disk'[t] = disk[t] /\ live'[t] = live[t]
    BY <1>1, <1>5 DEF Store, TypeOK
  <2> HIDE DEF f
  <2>3. Latest(s)' = f
    BY <2>2 DEF Latest
  <2>4. Change(s)
    BY <1>1, <1>2, <2>1, <2>2, <2>3 DEF Change, Content
  <2>5. Elsewhere(s)
    BY <1>2, <2>2 DEF Elsewhere
  <2> QED
    BY <2>4, <2>5, ElsewhereChange
<1> QED
  BY <1>3, <1>4, <1>5 DEF SettleFails, FlushThrows

\* scheduledFlush of the live copy with an event more: stored, or kept.
LEMMA FlushChange ==
  ASSUME IInv, NEW s \in Sessions, live[s] # NoLive, NEW l \in Live,
         ScheduledFlush(s, l)
  PROVE  /\ disk'[s] # NoSession /\ live'[s] # NoLive
         /\ Same(Latest(s)', l.value)
         /\ disk'[s] = disk[s] \/ Same(disk'[s], l.value)
         /\ \A t \in Sessions \ {s} : disk'[t] = disk[t] /\ live'[t] = live[t]
<1>1. /\ TypeOK /\ disk[s] # NoSession /\ disk[s] \in Values /\ l.value \in Values
  BY DEF IInv, Consistent, Running, TypeOK, Live
<1> DEFINE w == Written(disk[s], l.value)
           m == [value |-> w, dirty |-> FALSE, timer |-> "none"]
           k == [l EXCEPT !.timer = "none"]
<1>2. w \in Values /\ Same(w, l.value) /\ w # NoSession
  BY <1>1, WrittenSame, NullAssumption
<1>3. m \in Live /\ m # NoLive /\ m.value = w
  <2> HIDE DEF w
  <2>1. m \in Live
    BY <1>2 DEF Live
  <2> QED
    BY <2>1, NullAssumption
<1>4. k \in Live /\ k # NoLive /\ k.value = l.value
  <2>1. k \in Live /\ k.value = l.value
    BY DEF Live
  <2> QED
    BY <2>1, NullAssumption
<1>5. \/ disk' = [disk EXCEPT ![s] = w] /\ live' = [live EXCEPT ![s] = m]
      \/ disk' = disk /\ live' = [live EXCEPT ![s] = k]
  <2>1. CASE /\ disk' = [disk EXCEPT ![s] = Written(@, l.value)]
             /\ live' = [live EXCEPT ![s] = [value |-> Written(disk[s], l.value),
                                             dirty |-> FALSE, timer |-> "none"]]
    BY <1>1, <2>1 DEF TypeOK
  <2>2. CASE disk' = disk /\ live' = [live EXCEPT ![s] = [l EXCEPT !.timer = "none"]]
    BY <2>2
  <2> QED
    BY <2>1, <2>2 DEF ScheduledFlush
<1> HIDE DEF w, m, k
<1>6. CASE disk' = [disk EXCEPT ![s] = w] /\ live' = [live EXCEPT ![s] = m]
  BY <1>1, <1>2, <1>3, <1>6 DEF TypeOK, Latest
<1>7. CASE disk' = disk /\ live' = [live EXCEPT ![s] = k]
  <2>1. Latest(s)' = l.value
    BY <1>1, <1>4, <1>7 DEF TypeOK, Latest
  <2> QED
    BY <1>1, <1>4, <1>7, <2>1 DEF TypeOK, Same
<1> QED
  BY <1>5, <1>6, <1>7

LEMMA EventChange ==
  ASSUME IInv, NEW s \in Sessions, NEW r \in Commands, NEW e \in Events, Event(s, r, e)
  PROVE  \A t \in Sessions : Change(t)
<1> DEFINE w == Apply(e, live[s].value)
           l == [live[s] EXCEPT !.value = w, !.dirty = TRUE]
<1>1. /\ TypeOK /\ disk[s] # NoSession /\ live[s] # NoLive /\ live[s] \in Live
      /\ live[s].value \in Values /\ Latest(s) = live[s].value
      /\ Latest(s).run = r /\ Latest(s).status = "running" /\ Possible(e, Latest(s))
      /\ UNCHANGED <<receipts, effects>>
  BY DEF IInv, Event, Consistent, Running, TypeOK, Live, Latest
<1>2. w \in Values
  BY <1>1, ApplyValue
<1>3. l = [live[s] EXCEPT !.value = Apply(e, @), !.dirty = TRUE]
  BY <1>1 DEF Live
<1>4. l \in Live /\ l.value = w
  <2> HIDE DEF w
  <2> QED
    BY <1>1, <1>2 DEF Live
<1>5. /\ given' = IF e = "delta" THEN [given EXCEPT ![r] = @ + 1] ELSE given
      /\ disk'[s] # NoSession /\ live'[s] # NoLive
      /\ Same(Latest(s)', w) /\ (disk'[s] = disk[s] \/ Same(disk'[s], w))
      /\ \A t \in Sessions \ {s} : disk'[t] = disk[t] /\ live'[t] = live[t]
  <2>1. CASE e = "delta"
    <3> DEFINE m == [l EXCEPT !.timer = IF @ = "none" THEN "armed" ELSE @]
    <3>1. /\ given' = [given EXCEPT ![r] = @ + 1] /\ UNCHANGED disk
          /\ live' = [live EXCEPT ![s] = m]
      BY <1>3, <2>1 DEF Event
    <3>2. m.value = w /\ m # NoLive
      <4> HIDE DEF l, w
      <4>1. m \in Live /\ m.value = l.value
        BY <1>4 DEF Live
      <4> QED
        BY <1>4, <4>1, NullAssumption
    <3> HIDE DEF m, l, w
    <3>3. Latest(s)' = w
      BY <1>1, <3>1, <3>2 DEF TypeOK, Latest
    <3> QED
      BY <1>1, <2>1, <3>1, <3>2, <3>3 DEF TypeOK, Same
  <2>2. CASE e # "delta"
    <3>1. ScheduledFlush(s, l) /\ UNCHANGED given
      BY <1>3, <2>2 DEF Event
    <3> HIDE DEF l, w
    <3> QED
      BY <1>1, <1>4, <2>2, <3>1, FlushChange
  <2> QED
    BY <2>1, <2>2
<1>6. \A c \in Commands : given'[c] = IF e = "delta" /\ c = r THEN given[c] + 1 ELSE given[c]
  BY <1>1, <1>5 DEF TypeOK
<1>7. /\ Same(Latest(s)', Apply(e, Latest(s)))
      /\ Same(disk'[s], disk[s]) \/ Same(disk'[s], Latest(s)')
  BY <1>1, <1>5 DEF Same
<1>8. Accepts(s, {})
  BY <1>1 DEF Accepts
<1> HIDE DEF w, l
<1>9. Told(s)
  BY <1>1, <1>5, <1>6, <1>7, <1>8 DEF Told
<1>10. ASSUME NEW t \in Sessions \ {s}
       PROVE  Quietly(t)
  <2>1. Accepts(t, {})
    BY <1>1 DEF Accepts
  <2>2. SessionOf(r) = s
    BY DEF Event
  <2> QED
    BY <1>6, <1>10, <2>1, <2>2 DEF Quietly, SameGiven
<1>11. Elsewhere(s)
  BY <1>5, <1>10 DEF Elsewhere
<1> QED
  BY <1>9, <1>11, ElsewhereChange DEF Change

LEMMA FlushTimerChange ==
  ASSUME IInv, NEW s \in Sessions, FlushTimer(s)
  PROVE  \A t \in Sessions : Change(t)
<1>1. /\ TypeOK /\ Consistent(s) /\ disk[s] # NoSession /\ live[s] # NoLive
      /\ live[s] \in Live /\ live[s].value \in Values /\ Latest(s) = live[s].value
      /\ UNCHANGED <<receipts, effects, given>>
  BY DEF IInv, FlushTimer, Consistent, Running, TypeOK, Live, Latest
<1>2. CASE live[s].dirty
  <2>1. /\ disk'[s] # NoSession /\ Same(Latest(s)', Latest(s))
        /\ disk'[s] = disk[s] \/ Same(disk'[s], Latest(s))
        /\ \A t \in Sessions \ {s} : disk'[t] = disk[t] /\ live'[t] = live[t]
    BY <1>1, <1>2, FlushChange DEF FlushTimer
  <2>2. \A t \in Sessions : Quietly(t)
    BY <1>1, AllQuiet
  <2>3. Change(s)
    BY <1>1, <2>1, <2>2 DEF Change, Content, Same
  <2>4. Elsewhere(s)
    BY <2>1, <2>2 DEF Elsewhere
  <2> QED
    BY <2>3, <2>4, ElsewhereChange
<1>3. CASE ~live[s].dirty
  <2>1. Keep(s, live[s].value) /\ UNCHANGED disk /\ live[s].value = disk[s]
    BY <1>1, <1>3 DEF FlushTimer, Consistent
  <2>2. Store(s, disk[s]) /\ Same(disk[s], Latest(s))
    BY <1>1, <2>1 DEF Store, TypeOK, Same
  <2>3. disk[s] \in Values
    BY <1>1, <2>1
  <2> QED
    BY <1>1, <2>1, <2>2, <2>3, KeptChange
<1> QED
  BY <1>2, <1>3

LEMMA DeleteChange ==
  ASSUME IInv, NEW s \in Sessions, Delete(s)
  PROVE  \A t \in Sessions : Change(t)
<1>1. /\ TypeOK /\ disk' = [disk EXCEPT ![s] = NoSession]
      /\ UNCHANGED <<live, receipts, effects, given>>
  BY DEF IInv, Delete, Store, turns
<1>2. disk'[s] = NoSession /\ \A t \in Sessions \ {s} : disk'[t] = disk[t]
  BY <1>1 DEF TypeOK
<1>3. \A t \in Sessions : Quietly(t)
  BY <1>1, AllQuiet
<1>4. Change(s) /\ Elsewhere(s)
  BY <1>1, <1>2, <1>3 DEF Change, Absent, Elsewhere
<1> QED
  BY <1>4, ElsewhereChange

\* The end of a process: its sessions drop what was not stored.
LEMMA GoneChange ==
  ASSUME IInv, Gone, NEW s \in Sessions
  PROVE  Change(s)
<1>1. /\ UNCHANGED <<disk, receipts, effects>> /\ live'[s] = NoLive
      /\ live[s] # NoLive => disk[s] # NoSession
  BY DEF Gone, IInv, Consistent, Running
<1>2. Accepts(s, {})
  BY <1>1 DEF Accepts
<1>3. \A c \in Commands : StartsTurn(c) /\ SessionOf(c) = s =>
        given'[c] = IF live[s] # NoLive /\ live[s].value.run = c
                    THEN disk[s].blocks[<<c, "answer">>].text ELSE given[c]
  BY DEF Gone
<1>4. CASE disk[s] = NoSession
  <2>1. SameGiven(s)
    BY <1>1, <1>3, <1>4 DEF SameGiven
  <2> QED
    BY <1>1, <1>2, <1>4, <2>1 DEF Change, Absent, Quietly
<1>5. CASE disk[s] # NoSession
  BY <1>1, <1>2, <1>3, <1>5 DEF Change, Dropped, Latest
<1> QED
  BY <1>4, <1>5

\* The start of a process settles what is stored.
LEMMA StartChange ==
  ASSUME IInv, Start, NEW s \in Sessions
  PROVE  Change(s)
<1>1. /\ TypeOK /\ Consistent(s) /\ up = "down" /\ live[s] = NoLive /\ live'[s] = NoLive
      /\ UNCHANGED <<receipts, effects, given>>
  BY DEF IInv, Consistent, Start
<1>2. Quietly(s)
  BY <1>1, AllQuiet
<1>3. \/ disk'[s] = disk[s]
      \/ /\ Running(s)
         /\ disk'[s] = Written(disk[s], Settled(disk[s], "interrupted", FALSE))
  BY DEF Start
<1>4. CASE disk'[s] = disk[s]
  <2>1. Latest(s)' = Latest(s)
    BY <1>1, <1>4 DEF Latest
  <2> QED
    BY <1>2, <1>4, <2>1 DEF Change, Absent, Content, Same
<1>5. CASE Running(s) /\ disk'[s] = Written(disk[s], Settled(disk[s], "interrupted", FALSE))
  <2> DEFINE v == disk[s]
             n == Settled(v, "interrupted", FALSE)
  <2>1. v \in Values /\ v.status = "running" /\ v # NoSession /\ Latest(s) = v
    BY <1>1, <1>5 DEF Running, TypeOK, Latest
  <2>2. n \in Values
    BY <2>1, SettledValue
  <2>3. Same(disk'[s], n) /\ disk'[s] # NoSession
    BY <1>5, <2>1, <2>2, WrittenSame, NullAssumption
  <2> HIDE DEF v
  <2>4. Same(v, Latest(s))
    BY <2>1 DEF Same
  <2>5. disk[s] # NoSession
    BY <2>1 DEF v
  <2> QED
    BY <1>1, <1>2, <2>1, <2>3, <2>4, <2>5 DEF Change, Ends
<1> QED
  BY <1>3, <1>4, <1>5

\* Every step is one of these for every session.
LEMMA StepChange ==
  ASSUME IInv, [Next]_vars
  PROVE  \A t \in Sessions : Change(t)
<1>1. ASSUME NEW c \in Commands, Refuse(c) \/ Create(c) \/ Accept(c)
      PROVE  \A t \in Sessions : Change(t)
  BY <1>1, RefuseChange, CreateChange, AcceptChange
<1>2. CASE UNCHANGED <<disk, live, receipts, effects, given>>
  BY <1>2, KeptChange
<1>3. ASSUME NEW s \in Sessions, TurnStep(s)
      PROVE  \A t \in Sessions : Change(t)
  <2>1. ASSUME NEW x \in Emits, Event(s, x[1], x[2])
        PROVE  \A t \in Sessions : Change(t)
    <3>1. x[1] \in Commands /\ x[2] \in Events
      BY BoundsAssumption
    <3> QED
      BY <2>1, <3>1, EventChange
  <2>2. SendReturns(s) \/ RetryFires(s) => UNCHANGED <<disk, live, receipts, effects, given>>
    BY DEF SendReturns, RetryFires, stored
  <2> QED
    BY <1>2, <1>3, <2>1, <2>2, CallProviderChange, SettleChange, SettleFailsChange,
       FlushTimerChange DEF TurnStep
<1>4. ASSUME NEW s \in Sessions, Side(s)
      PROVE  \A t \in Sessions : Change(t)
  <2>1. NoTitle(s) => UNCHANGED <<disk, live, receipts, effects, given>>
    BY DEF NoTitle, stored, turns
  <2> QED
    BY <1>2, <1>4, <2>1, TitleChange, DeleteChange DEF Side
<1>5. BeginSwitch \/ EndSwitch \/ BeginClose \/ UNCHANGED vars =>
        UNCHANGED <<disk, live, receipts, effects, given>>
  BY DEF BeginSwitch, EndSwitch, BeginClose, vars, stored, turns
<1>6. Exit \/ Crash => Gone
  BY DEF Exit, Crash
<1> QED
  BY <1>1, <1>2, <1>3, <1>4, <1>5, <1>6, GoneChange, StartChange DEF Next, Request

-----------------------------------------------------------------------------
(* HostEngine implements CommandLedger *)

\* A step that accepts no turn opens none.
LEMMA NothingOpens ==
  ASSUME IInv, NEW s \in Sessions, Change(s),
         \A c \in Commands : StartsTurn(c) /\ SessionOf(c) = s /\ c \in receipts' => c \in receipts
  PROVE  Running(s)' => Running(s) /\ disk'[s].run = disk[s].run
<1>1. /\ disk[s] # NoSession => /\ Latest(s).status = disk[s].status
                                /\ Latest(s).run = disk[s].run
      /\ disk[s] # NoSession => Latest(s) \in Values
  BY FlushedSame
<1>2. CASE Absent(s) \/ Content(s) \/ Dropped(s)
  BY <1>1, <1>2 DEF Absent, Content, Dropped, Same, Running
<1>3. CASE Made(s)
  BY <1>3, CreatedValue DEF Made, Running
<1>4. CASE Commanded(s)
  <2>1. PICK c \in Commands, v \in Values :
          /\ SessionOf(c) = s /\ c \notin receipts
          /\ Same(v, Latest(s)) /\ Same(disk'[s], After(c, v)) /\ Accepts(s, {c})
    BY <1>4 DEF Commanded
  <2>2. ~StartsTurn(c)
    BY <2>1 DEF Accepts
  <2>3. After(c, v).status = v.status /\ After(c, v).run = v.run
    BY <2>2, AfterValue
  <2> QED
    BY <1>1, <1>4, <2>1, <2>3 DEF Same, Running, Commanded
<1>5. CASE Told(s)
  <2>1. PICK e \in Events : /\ Same(Latest(s)', Apply(e, Latest(s)))
                            /\ Same(disk'[s], disk[s]) \/ Same(disk'[s], Latest(s)')
    BY <1>5 DEF Told
  <2>2. /\ Apply(e, Latest(s)).status = Latest(s).status
        /\ Apply(e, Latest(s)).run = Latest(s).run
    BY <1>5, ApplyValue DEF Told
  <2> QED
    BY <1>1, <1>5, <2>1, <2>2 DEF Same, Running, Told
<1>6. CASE Ends(s)
  <2>1. PICK v \in Values, st \in {"idle", "interrupted"}, clean \in BOOLEAN :
          Same(disk'[s], Settled(v, st, clean))
    BY <1>6 DEF Ends
  <2>2. Settled(v, st, clean).status \in {"idle", "interrupted"}
    BY SettledValue
  <2> QED
    BY <2>1, <2>2 DEF Same, Running
<1> QED
  BY <1>2, <1>3, <1>4, <1>5, <1>6 DEF Change

\* No turn is open that was not open before.
LEMMA OpensNone ==
  ASSUME IInv, [Next]_vars,
         \A c \in Commands : StartsTurn(c) /\ c \in receipts' => c \in receipts
  PROVE  OpenTurns' \subseteq OpenTurns
<1> SUFFICES ASSUME NEW c \in OpenTurns'
             PROVE  c \in OpenTurns
  OBVIOUS
<1> DEFINE s == SessionOf(c)
<1>1. c \in receipts' /\ StartsTurn(c) /\ Running(s)' /\ disk'[s].run = c
  BY DEF OpenTurns
<1>2. c \in Commands /\ s \in Sessions
  BY <1>1, PayloadFields, StepIInv DEF IInv, TypeOK
<1>3. Change(s)
  BY <1>2, StepChange
<1>4. Running(s) /\ disk[s].run = c
  BY <1>1, <1>2, <1>3, NothingOpens
<1> QED
  BY <1>1, <1>2, <1>4 DEF OpenTurns

\* Commands only take effect in the two actions below.
LEMMA NoEffect ==
  ASSUME [Next]_vars
  PROVE  \/ \E c \in Commands : Create(c) \/ Accept(c)
         \/ \E s \in Sessions : CallProvider(s)
         \/ UNCHANGED <<receipts, effects>>
<1>1. ASSUME NEW s \in Sessions, TurnStep(s)
      PROVE  CallProvider(s) \/ UNCHANGED <<receipts, effects>>
  <2>1. Finish(s) \/ FinishRetry(s) => UNCHANGED <<receipts, effects>>
    BY DEF Finish, FinishRetry, Settle
  <2>2. (\E p \in {"stopping", "retrying"} : SettleFails(s, p)) => UNCHANGED <<receipts, effects>>
    BY DEF SettleFails
  <2>3. (\E x \in Emits : Event(s, x[1], x[2])) => UNCHANGED <<receipts, effects>>
    BY DEF Event
  <2> QED
    BY <1>1, <2>1, <2>2, <2>3 DEF TurnStep, SendReturns, RetryFires, FlushTimer, stored
<1>2. ASSUME NEW s \in Sessions, Side(s)
      PROVE  UNCHANGED <<receipts, effects>>
  BY <1>2 DEF Side, Rename, Delete, TitleArrives, NoTitle, stored
<1>3. BeginSwitch \/ EndSwitch \/ BeginClose \/ Exit \/ Crash \/ Start \/ UNCHANGED vars =>
        UNCHANGED <<receipts, effects>>
  BY DEF BeginSwitch, EndSwitch, BeginClose, Exit, Crash, Gone, Start, vars, stored
<1>4. ASSUME NEW c \in Commands, Refuse(c)
      PROVE  UNCHANGED <<receipts, effects>>
  BY <1>4 DEF Refuse
<1> QED
  BY <1>1, <1>2, <1>3, <1>4 DEF Next, Request

LEMMA LedgerStep ==
  ASSUME IInv, [Next]_vars
  PROVE  [Ledger!Next]_Ledger!vars
<1>1. TypeOK
  BY DEF IInv
<1>2. CASE UNCHANGED <<receipts, effects>>
  <2>1. OpenTurns' \subseteq OpenTurns
    BY <1>2, OpensNone
  <2>2. OpenTurns' = OpenTurns \ (OpenTurns \ OpenTurns')
    BY <2>1
  <2>3. Ledger!Close
    BY <1>2, <2>2 DEF Ledger!Close
  <2> QED
    BY <2>3 DEF Ledger!Next
<1>3. ASSUME NEW s \in Sessions, CallProvider(s)
      PROVE  [Ledger!Next]_Ledger!vars
  <2> DEFINE c == running[s].id
  <2>1. /\ running[s] # NoTurn /\ running[s].phase = "queued" /\ c \in Commands
        /\ c \in receipts /\ StartsTurn(c) /\ SessionOf(c) = s /\ Running(s)
        /\ disk[s].run = c /\ effects[c] = 0
    BY <1>1, <1>3 DEF CallProvider, IInv, Consistent, TypeOK, Turn
  <2>2. c \in OpenTurns
    BY <2>1 DEF OpenTurns
  <2>3. UNCHANGED <<disk, receipts>>
    BY <1>3 DEF CallProvider
  <2>4. OpenTurns' = OpenTurns
    BY <2>3 DEF OpenTurns, Running
  <2>5. effects' = effects \/ effects' = [effects EXCEPT ![c] = @ + 1]
    BY <1>3 DEF CallProvider
  <2>6. effects' = effects \/ effects' = [effects EXCEPT ![c] = 1]
    BY <1>1, <2>1, <2>5 DEF TypeOK
  <2> HIDE DEF c
  <2>7. Ledger!Hand(c) \/ UNCHANGED Ledger!vars
    BY <2>1, <2>2, <2>3, <2>4, <2>6 DEF Ledger!Hand, Ledger!vars
  <2> QED
    BY <2>1, <2>7 DEF Ledger!Next
<1>4. ASSUME NEW c \in Commands, (Create(c) \/ Accept(c)), ~StartsTurn(c)
      PROVE  [Ledger!Next]_Ledger!vars
  <2>1. c \notin receipts /\ receipts' = receipts \cup {c}
    BY <1>4 DEF Create, Accept
  <2>2. OpenTurns' \subseteq OpenTurns
    BY <1>4, <2>1, OpensNone
  <2>3. OpenTurns \subseteq OpenTurns'
    <3> SUFFICES ASSUME NEW d \in OpenTurns
                 PROVE  d \in OpenTurns'
      OBVIOUS
    <3> DEFINE s == SessionOf(d)
    <3>1. d \in Commands /\ d \in receipts /\ StartsTurn(d) /\ Running(s) /\ disk[s].run = d
      BY <1>1 DEF OpenTurns, TypeOK
    <3>2. s \in Sessions /\ SessionOf(c) \in Sessions
      BY <3>1, PayloadFields
    <3>3. disk'[s] # NoSession /\ disk'[s].status = "running" /\ disk'[s].run = d
      <4>1. CASE Create(c)
        <5>1. SessionOf(c) # s
          BY <3>1, <4>1 DEF Create, Running
        <5> QED
          BY <1>1, <3>1, <3>2, <4>1, <5>1 DEF Create, Store, TypeOK, Running
      <4>2. CASE Accept(c)
        <5> DEFINE r == SessionOf(c)
                   f == Flushed(r)
                   w == Written(f, After(c, f))
        <5>1. disk[r] # NoSession /\ Store(r, w)
          BY <4>2 DEF Accept
        <5>2. f \in Values /\ f.status = disk[r].status /\ f.run = disk[r].run
          BY <3>2, <5>1, FlushedFacts
        <5>3. w \in Values /\ w.status = disk[r].status /\ w.run = disk[r].run
          BY <1>4, <5>2, AfterValue, WrittenValue
        <5> HIDE DEF w
        <5> QED
          BY <1>1, <3>1, <3>2, <5>1, <5>3, NullAssumption DEF Store, TypeOK, Running
      <4> QED
        BY <1>4, <4>1, <4>2
    <3> QED
      BY <2>1, <3>1, <3>3 DEF OpenTurns, Running
  <2>4. OpenTurns' = OpenTurns
    BY <2>2, <2>3
  <2>5. effects' = effects \/ effects' = [effects EXCEPT ![c] = @ + 1]
    BY <1>4 DEF Create, Accept, Effect
  <2>6. \E n \in {0, 1} : effects' = [effects EXCEPT ![c] = @ + n]
    <3>1. CASE effects' = effects
      <4>1. effects' = [effects EXCEPT ![c] = @ + 0]
        BY <1>1, <3>1 DEF TypeOK
      <4> QED
        BY <4>1
    <3>2. CASE effects' = [effects EXCEPT ![c] = @ + 1]
      BY <3>2
    <3> QED
      BY <2>5, <3>1, <3>2
  <2>7. Ledger!Accept(c)
    BY <1>4, <2>1, <2>4, <2>6 DEF Ledger!Accept
  <2> QED
    BY <2>7 DEF Ledger!Next
<1>5. ASSUME NEW c \in Commands, (Create(c) \/ Accept(c)), StartsTurn(c)
      PROVE  [Ledger!Next]_Ledger!vars
  <2> DEFINE s == SessionOf(c)
             f == Flushed(s)
             w == Written(f, After(c, f))
  <2>1. Accept(c)
    BY <1>5 DEF Create, StartsTurn
  <2>2. /\ s \in Sessions /\ disk[s] # NoSession /\ Acceptable(c, f) /\ Store(s, w)
        /\ c \notin receipts /\ receipts' = receipts \cup {c} /\ Effect(c, w)
    BY <2>1, PayloadFields DEF Accept
  <2>3. effects' = effects
    BY <1>5, <2>2 DEF Effect
  <2>4. f \in Values /\ f.status = disk[s].status
    BY <2>2, FlushedFacts
  <2>5. ~Running(s)
    BY <1>5, <2>2, <2>4 DEF Acceptable, StartsTurn, Running
  <2>6. w \in Values /\ w.status = "running" /\ w.run = c /\ w # NoSession
    <3>1. After(c, f) \in Values /\ After(c, f) = Started(c, f)
      BY <1>5, <2>4, AfterValue
    <3>2. After(c, f).status = "running" /\ After(c, f).run = c
      BY <2>4, <3>1, StartedValue
    <3> QED
      BY <2>4, <3>1, <3>2, WrittenValue, NullAssumption
  <2> HIDE DEF w, f
  <2>7. /\ disk'[s] = w /\ Running(s)'
        /\ \A t \in Sessions \ {s} : disk'[t] = disk[t]
    BY <1>1, <2>2, <2>6 DEF Store, TypeOK, Running
  <2>8. ASSUME NEW d \in Commands, d # c
        PROVE  d \in OpenTurns' <=> d \in OpenTurns
    <3>1. SessionOf(d) \in Sessions
      BY PayloadFields
    <3>2. CASE SessionOf(d) = s
      BY <2>5, <2>6, <2>7, <2>8, <3>2 DEF OpenTurns
    <3>3. CASE SessionOf(d) # s
      BY <2>2, <2>7, <2>8, <3>1, <3>3 DEF OpenTurns, Running
    <3> QED
      BY <3>2, <3>3
  <2>9. c \in OpenTurns' /\ c \notin OpenTurns
    BY <1>5, <2>2, <2>6, <2>7 DEF OpenTurns
  <2>10. OpenTurns \subseteq Commands /\ OpenTurns' \subseteq Commands
    BY <1>1, <2>2 DEF OpenTurns, TypeOK
  <2>11. OpenTurns' = OpenTurns \cup {c}
    BY <2>8, <2>9, <2>10
  <2>12. \A d \in OpenTurns : SessionOf(d) # s
    BY <2>5 DEF OpenTurns
  <2>13. Ledger!Open(c)
    BY <1>5, <2>2, <2>3, <2>11, <2>12 DEF Ledger!Open
  <2> QED
    BY <2>13 DEF Ledger!Next
<1> QED
  BY <1>2, <1>3, <1>4, <1>5, NoEffect

\* However the host fails, restarts and is asked again: a command takes effect
\* at most once, only once it has its receipt, and turns open one at a time.
THEOREM ImplementsLedger == Spec => LedgerSpec
<1>1. Init => Ledger!Init
  BY DEF Init, Ledger!Init, OpenTurns
<1>2. IInv /\ [Next]_vars => [Ledger!Next]_Ledger!vars
  BY LedgerStep
<1> QED
  BY <1>1, <1>2, Agreement, PTL DEF Spec, LedgerSpec, Ledger!Spec
=============================================================================
