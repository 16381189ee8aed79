--------------------------- MODULE HostEngineProofs ---------------------------
(***************************************************************************)
(* Proofs about HostEngine: its types, the order of turns and processes,   *)
(* and the live copies.                                                    *)
(***************************************************************************)
EXTENDS HostEngine, TLAPS

USE DEF Marked

-----------------------------------------------------------------------------
(* What the operations on a stored value return *)

\* Payload: what is known of a command.
LEMMA PayloadFields ==
  ASSUME NEW c \in Commands
  PROVE  /\ Type(c) \in Types /\ SessionOf(c) \in Sessions
         /\ Payload[c].decision \in {"none", "allow", "deny"}
         /\ Payload[c].run \in Commands \cup {NoRun}
         /\ Payload[c].draft \in Commands \cup {NoRun}
         /\ Payload[c].plan \in Commands \cup {NoRun}
BY PayloadAssumption DEF Payloads, Type, SessionOf

\* blockRevisions stamps every block with a number.
LEMMA StampsType ==
  ASSUME NEW p \in Values, NEW n \in Values, NEW r \in Nat
  PROVE  BlockRevisions(p, n, r) \in [BlockIds -> Nat]
BY DEF BlockRevisions, Values

\* save keeps the value and raises the revision by one.
LEMMA WrittenValue ==
  ASSUME NEW p \in Values, NEW n \in Values
  PROVE  LET w == Written(p, n) IN
         /\ w \in Values
         /\ w.rev = p.rev + 1 /\ w.status = n.status /\ w.run = n.run
         /\ w.title = n.title /\ w.question = n.question /\ w.blocks = n.blocks
         /\ w.settings = n.settings
         /\ w.stamps = BlockRevisions(p, n, p.rev + 1)
<1>1. p.rev + 1 \in Nat
  BY DEF Values
<1>2. BlockRevisions(p, n, p.rev + 1) \in [BlockIds -> Nat]
  BY <1>1, StampsType
<1> QED
  BY <1>1, <1>2 DEF Written, Values

\* A created session is a value, and it is idle.
LEMMA CreatedValue ==
  ASSUME NEW c \in Commands
  PROVE  /\ Created(c) \in Values /\ Created(c).status = "idle" /\ Created(c).rev = 1
         /\ Created(c).blocks = [i \in BlockIds |-> NoBlock]
         /\ ~Created(c).question /\ Created(c).run = NoRun
BY DEF Created, Values, Blocks

\* Marked blocks are blocks.
LEMMA MarkedBlock ==
  ASSUME NEW m \in Marks
  PROVE  Marked(m) \in Blocks
BY DEF Blocks

\* A start of a turn is a value: it runs.
LEMMA StartedValue ==
  ASSUME NEW c \in Commands, NEW v \in Values
  PROVE  /\ Started(c, v) \in Values
         /\ Started(c, v).status = "running" /\ Started(c, v).run = c
<1>1. [i \in BlockIds |->
        IF i = <<c, "user">> THEN Marked("none")
        ELSE IF v.blocks[i].mark = "draft" THEN NoBlock
        ELSE IF i = <<Payload[c].plan, "plan">> THEN Marked("building")
        ELSE v.blocks[i]] \in [BlockIds -> Blocks]
  BY MarkedBlock DEF Values, Blocks, Marks
<1> QED
  BY <1>1 DEF Started, Values

\* A decision changes blocks only.
LEMMA ResolvedValue ==
  ASSUME NEW v \in Values, NEW d \in Marks
  PROVE  /\ Resolved(v, d) \in Values
         /\ Resolved(v, d).rev = v.rev /\ Resolved(v, d).status = v.status
         /\ Resolved(v, d).run = v.run /\ Resolved(v, d).title = v.title
         /\ Resolved(v, d).question = v.question
<1> DEFINE b == [i \in BlockIds |->
         IF i[2] = "tool" /\ v.blocks[i] # NoBlock THEN Marked(d) ELSE v.blocks[i]]
<1>1. b \in [BlockIds -> Blocks]
  BY MarkedBlock DEF Values
<1>2. Resolved(v, d) = [v EXCEPT !.blocks = b]
  BY DEF Resolved, Values
<1> HIDE DEF b
<1> QED
  BY <1>1, <1>2 DEF Values

\* A block id may be put into the transcript only if it is one; a change of the
\* block at another place is none.
LEMMA BlockReplaced ==
  ASSUME NEW v \in Values, NEW i, NEW b \in Blocks
  PROVE  [v.blocks EXCEPT ![i] = b] \in [BlockIds -> Blocks]
BY DEF Values

\* command(): a command that starts no turn leaves revision, turn and status.
LEMMA AfterValue ==
  ASSUME NEW c \in Commands, NEW v \in Values
  PROVE  /\ After(c, v) \in Values
         /\ StartsTurn(c) => After(c, v) = Started(c, v)
         /\ ~StartsTurn(c) => /\ After(c, v).status = v.status
                              /\ After(c, v).run = v.run
<1>1. CASE StartsTurn(c)
  <2>1. After(c, v) = Started(c, v)
    BY <1>1 DEF After, StartsTurn
  <2> QED
    BY <1>1, <2>1, StartedValue
<1>2. CASE ~StartsTurn(c)
  <2>1. CASE Type(c) = "configure"
    <3>1. After(c, v) = [v EXCEPT !.settings = c]
      BY <2>1 DEF After, StartsTurn
    <3> QED
      BY <1>2, <3>1 DEF Values
  <2>2. CASE Type(c) = "draft"
    <3> DEFINE t == IF Present(v) = {} THEN "prompt" ELSE v.title
               b == [v.blocks EXCEPT ![<<c, "user">>] = Marked("draft")]
    <3>1. b \in [BlockIds -> Blocks]
      BY BlockReplaced, MarkedBlock DEF Marks
    <3>2. After(c, v) = [v EXCEPT !.title = t, !.blocks = b]
      BY <2>2 DEF After, StartsTurn, Values
    <3>3. t \in {"new", "prompt", "generated", "renamed"}
      BY DEF Values
    <3> HIDE DEF t, b
    <3> QED
      BY <1>2, <3>1, <3>2, <3>3 DEF Values
  <2>3. CASE Type(c) = "removeDraft"
    <3> DEFINE b == [v.blocks EXCEPT ![<<Payload[c].draft, "user">>] = NoBlock]
    <3>1. b \in [BlockIds -> Blocks]
      BY BlockReplaced DEF Blocks
    <3>2. After(c, v) = [v EXCEPT !.blocks = b]
      BY <2>3 DEF After, StartsTurn, Values
    <3> HIDE DEF b
    <3> QED
      BY <1>2, <3>1, <3>2 DEF Values
  <2>4. CASE Type(c) = "approve"
    <3>1. After(c, v) = Resolved(v, Payload[c].decision)
      BY <2>4 DEF After, StartsTurn
    <3>2. Payload[c].decision \in Marks
      BY PayloadFields DEF Marks
    <3> QED
      BY <1>2, <3>1, <3>2, ResolvedValue
  <2>5. CASE Type(c) = "answer"
    <3>1. After(c, v) = [v EXCEPT !.question = FALSE]
      BY <2>5 DEF After, StartsTurn
    <3> QED
      BY <1>2, <3>1 DEF Values
  <2>6. CASE Type(c) \notin {"configure", "draft", "removeDraft", "approve", "answer"}
    <3>1. After(c, v) = v
      BY <1>2, <2>6 DEF After
    <3> QED
      BY <1>2, <3>1
  <2> QED
    BY <2>1, <2>2, <2>3, <2>4, <2>5, <2>6
<1> QED
  BY <1>1, <1>2

\* applyHarnessEvent: an event changes blocks and the question only.
LEMMA ApplyValue ==
  ASSUME NEW e \in Events, NEW v \in Values
  PROVE  LET w == Apply(e, v) IN
         /\ w \in Values
         /\ w.rev = v.rev /\ w.status = v.status /\ w.run = v.run /\ w.title = v.title
<1>1. CASE e = "delta"
  <2> DEFINE i == <<v.run, "answer">>
             b == [v.blocks EXCEPT ![i] = [text |-> v.blocks[i].text + 1, mark |-> "streaming"]]
  <2>1. b \in [BlockIds -> Blocks]
    <3>1. CASE i \in BlockIds
      <4>1. v.blocks[i].text \in Nat
        BY <3>1 DEF Values, Blocks, NoBlock
      <4>2. [text |-> v.blocks[i].text + 1, mark |-> "streaming"] \in Blocks
        BY <4>1 DEF Blocks, Marks
      <4> QED
        BY <4>2, BlockReplaced
    <3>2. CASE i \notin BlockIds
      <4>1. b = v.blocks
        BY <3>2 DEF Values
      <4> QED
        BY <4>1 DEF Values
    <3> QED
      BY <3>1, <3>2
  <2>2. Apply(e, v) = [v EXCEPT !.blocks = b]
    BY <1>1 DEF Apply, Values
  <2> HIDE DEF b
  <2> QED
    BY <2>1, <2>2 DEF Values
<1>2. CASE e = "withdraw"
  <2>1. Apply(e, v) = Resolved(v, "cancelled")
    BY <1>2 DEF Apply
  <2> QED
    BY <2>1, ResolvedValue DEF Marks
<1>3. CASE e = "question"
  <2>1. Apply(e, v) = [v EXCEPT !.question = TRUE]
    BY <1>3 DEF Apply
  <2> QED
    BY <2>1 DEF Values
<1>4. CASE e \in {"ask", "plan"}
  <2> DEFINE b == [v.blocks EXCEPT ![IF e = "ask" THEN <<v.run, "tool">> ELSE <<v.run, "plan">>] =
                     Marked(IF e = "ask" THEN "asked" ELSE "ready")]
  <2>1. b \in [BlockIds -> Blocks]
    BY <1>4, BlockReplaced, MarkedBlock DEF Marks
  <2>2. Apply(e, v) = [v EXCEPT !.blocks = b]
    BY <1>4 DEF Apply, Values
  <2> HIDE DEF b
  <2> QED
    BY <2>1, <2>2 DEF Values
<1> QED
  BY <1>1, <1>2, <1>3, <1>4 DEF Events

\* stopStreaming: an ended block is a block.
LEMMA EndedBlock ==
  ASSUME NEW b \in Blocks, NEW clean \in BOOLEAN
  PROVE  /\ Ended(b, clean) \in Blocks
         /\ Ended(b, clean).mark \notin {"streaming", "asked", "building"}
         /\ Ended(b, clean).text = b.text \/ b.mark \in {"asked", "building"}
<1>1. CASE b.mark = "streaming"
  <2>1. b \in [text : Nat, mark : Marks]
    BY <1>1 DEF Blocks, NoBlock
  <2> QED
    BY <1>1, <2>1 DEF Ended, Blocks, Marks
<1>2. CASE b.mark = "asked"
  BY <1>2, MarkedBlock DEF Ended, Marks
<1>3. CASE b.mark = "building"
  BY <1>3, MarkedBlock DEF Ended, Marks
<1>4. CASE b.mark \notin {"streaming", "asked", "building"}
  BY <1>4 DEF Ended
<1> QED
  BY <1>1, <1>2, <1>3, <1>4

\* settled: the turn stays, its status is the given one.
LEMMA SettledValue ==
  ASSUME NEW v \in Values, NEW st \in {"idle", "interrupted"}, NEW clean \in BOOLEAN
  PROVE  LET w == Settled(v, st, clean) IN
         /\ w \in Values
         /\ w.rev = v.rev /\ w.status = st /\ w.run = v.run /\ w.title = v.title
         /\ ~w.question
         /\ w.blocks = [i \in BlockIds |->
              IF i = <<v.run, "user">> THEN Marked("timed")
              ELSE IF i = <<v.run, "note">> /\ ~clean THEN Marked("none")
              ELSE Ended(v.blocks[i], clean)]
<1> DEFINE b == [i \in BlockIds |->
              IF i = <<v.run, "user">> THEN Marked("timed")
              ELSE IF i = <<v.run, "note">> /\ ~clean THEN Marked("none")
              ELSE Ended(v.blocks[i], clean)]
<1>1. b \in [BlockIds -> Blocks]
  <2>1. \A i \in BlockIds : Ended(v.blocks[i], clean) \in Blocks
    BY EndedBlock DEF Values
  <2>2. Marked("timed") \in Blocks /\ Marked("none") \in Blocks
    BY MarkedBlock DEF Marks
  <2> QED
    BY <2>1, <2>2
<1>2. Settled(v, st, clean) = [v EXCEPT !.status = st, !.question = FALSE, !.blocks = b]
  BY DEF Settled, Values
<1> HIDE DEF b
<1>3. /\ Settled(v, st, clean) \in Values
      /\ Settled(v, st, clean).rev = v.rev /\ Settled(v, st, clean).status = st
      /\ Settled(v, st, clean).run = v.run /\ Settled(v, st, clean).title = v.title
      /\ ~Settled(v, st, clean).question /\ Settled(v, st, clean).blocks = b
  BY <1>1, <1>2 DEF Values
<1> QED
  BY <1>3 DEF b

-----------------------------------------------------------------------------
(* Types *)

\* flush returns the next revision of the live copy, or the stored value.
LEMMA FlushedValue ==
  ASSUME TypeOK, NEW s \in Sessions, disk[s] # NoSession
  PROVE  Flushed(s) \in Values
<1>1. disk[s] \in Values
  BY DEF TypeOK
<1>2. CASE Dirty(s)
  <2>1. live[s].value \in Values
    BY <1>2 DEF TypeOK, Dirty, Live
  <2> QED
    BY <1>1, <1>2, <2>1, WrittenValue DEF Flushed
<1>3. CASE ~Dirty(s)
  BY <1>1, <1>3 DEF Flushed
<1> QED
  BY <1>2, <1>3

LEMMA KeepType ==
  ASSUME TypeOK, NEW s \in Sessions, NEW v \in Values, Keep(s, v)
  PROVE  live' \in [Sessions -> Live \cup {NoLive}]
BY DEF Keep, Kept, TypeOK, Live

LEMMA StoreType ==
  ASSUME TypeOK, NEW s \in Sessions, NEW v \in Values \cup {NoSession}, Store(s, v)
  PROVE  disk' \in [Sessions -> Values \cup {NoSession}]
BY DEF Store, TypeOK

LEMMA FaultType ==
  ASSUME TypeOK, Fault
  PROVE  faults' \in 0..MaxFaults /\ crashes' \in 0..MaxCrashes
BY BoundsAssumption DEF Fault, TypeOK

LEMMA LiveFieldType ==
  ASSUME TypeOK, NEW s \in Sessions, live[s] # NoLive,
         NEW t \in {"none", "armed", "cleared"}
  PROVE  [live EXCEPT ![s].timer = t] \in [Sessions -> Live \cup {NoLive}]
BY DEF TypeOK, Live

LEMMA PhaseType ==
  ASSUME TypeOK, NEW s \in Sessions, running[s] # NoTurn, NEW p \in Phases
  PROVE  [running EXCEPT ![s].phase = p] \in [Sessions -> Turn \cup {NoTurn}]
BY DEF TypeOK, Turn

\* save of what a settled turn leaves.
LEMMA SettleType ==
  ASSUME TypeOK, NEW s \in Sessions, disk[s] # NoSession,
         NEW st \in {"idle", "interrupted"}, NEW clean \in BOOLEAN, Settle(s, st, clean)
  PROVE  TypeOK'
<1> DEFINE v == Flushed(s)
           w == IF v.run = running[s].id /\ v.status = "running"
                THEN Written(v, Settled(v, st, clean)) ELSE v
<1>1. v \in Values
  BY FlushedValue
<1>2. w \in Values
  BY <1>1, SettledValue, WrittenValue
<1>3. Store(s, w)
  BY DEF Settle
<1>4. disk' \in [Sessions -> Values \cup {NoSession}]
  BY <1>2, <1>3, StoreType
<1> HIDE DEF w, v
<1> QED
  BY <1>4 DEF Settle, TypeOK, budget

LEMMA ScheduledFlushType ==
  ASSUME TypeOK, NEW s \in Sessions, disk[s] # NoSession, live[s] # NoLive,
         NEW l \in Live, ScheduledFlush(s, l)
  PROVE  /\ disk' \in [Sessions -> Values \cup {NoSession}]
         /\ live' \in [Sessions -> Live \cup {NoLive}]
         /\ running' \in [Sessions -> Turn \cup {NoTurn}]
         /\ faults' \in 0..MaxFaults /\ crashes' \in 0..MaxCrashes
<1>1. disk[s] \in Values /\ l.value \in Values
  BY DEF TypeOK, Live
<1>2. Written(disk[s], l.value) \in Values
  BY <1>1, WrittenValue
<1>3. CASE /\ disk' = [disk EXCEPT ![s] = Written(disk[s], l.value)]
           /\ live' = [live EXCEPT ![s] = [value |-> Written(disk[s], l.value),
                                           dirty |-> FALSE, timer |-> "none"]]
           /\ UNCHANGED <<running, budget>>
  BY <1>2, <1>3 DEF TypeOK, Live, budget
<1>4. CASE /\ Fault
           /\ live' = [live EXCEPT ![s] = [l EXCEPT !.timer = "none"]]
           /\ running' = IF running[s] = NoTurn THEN running
                         ELSE [running EXCEPT ![s].failed = TRUE]
           /\ UNCHANGED disk
  <2>1. running' \in [Sessions -> Turn \cup {NoTurn}]
    BY <1>4 DEF TypeOK, Turn
  <2>2. live' \in [Sessions -> Live \cup {NoLive}]
    BY <1>4 DEF TypeOK, Live
  <2> QED
    BY <2>1, <2>2, <1>4, FaultType DEF TypeOK
<1> QED
  BY <1>3, <1>4 DEF ScheduledFlush

-----------------------------------------------------------------------------
(* The inductive invariant *)

\* What ties the store, the running map, the live copies and the provider
\* processes together, for one session.
Consistent(s) ==
  /\ running[s] # NoTurn => Running(s) /\ disk[s].run = running[s].id
  /\ live[s] # NoLive =>
       /\ Running(s) /\ live[s].value.status = "running"
       /\ live[s].value.rev = disk[s].rev /\ live[s].value.run = disk[s].run
       /\ live[s].value.title = disk[s].title
       /\ ~live[s].dirty => live[s].value = disk[s]
  /\ up = "down" => running[s] = NoTurn /\ live[s] = NoLive
  /\ Running(s) => /\ disk[s].run \in receipts /\ StartsTurn(disk[s].run)
                   /\ SessionOf(disk[s].run) = s
  /\ s \in process => running[s] # NoTurn /\ running[s].phase # "queued"
  /\ running[s] # NoTurn /\ running[s].phase = "queued" => effects[running[s].id] = 0
  /\ switching => ~Running(s)

Untouched == \A c \in Commands : c \notin receipts => effects[c] = 0

IInv == TypeOK /\ Untouched /\ \A s \in Sessions : Consistent(s)

\* A step that is about one session.
OnlyAt(s) ==
  /\ \A t \in Sessions \ {s} : /\ disk'[t] = disk[t] /\ running'[t] = running[t]
                               /\ live'[t] = live[t] /\ (t \in process' => t \in process)
  /\ \A c \in Commands : SessionOf(c) # s => effects'[c] = effects[c]
  /\ receipts \subseteq receipts'
  /\ up' = "down" => up = "down"
  /\ switching' => switching

\* It leaves what is known of the other sessions.
LEMMA Frame ==
  ASSUME IInv, NEW s \in Sessions, OnlyAt(s), TypeOK', Untouched', Consistent(s)'
  PROVE  IInv'
<1>1. ASSUME NEW t \in Sessions, t # s
      PROVE  Consistent(t)'
  <2>1. Consistent(t)
    BY DEF IInv
  <2>2. /\ disk'[t] = disk[t] /\ running'[t] = running[t] /\ live'[t] = live[t]
        /\ t \in process' => t \in process
    BY <1>1 DEF OnlyAt
  <2>3. Running(t)' <=> Running(t)
    BY <2>2 DEF Running
  <2>4. running[t] # NoTurn /\ running[t].phase = "queued" =>
          effects'[running[t].id] = 0
    <3> SUFFICES ASSUME running[t] # NoTurn, running[t].phase = "queued"
                 PROVE  effects'[running[t].id] = 0
      OBVIOUS
    <3>1. running[t].id \in Commands /\ SessionOf(running[t].id) = t
      BY <2>1 DEF Consistent, IInv, TypeOK, Turn
    <3>2. effects'[running[t].id] = effects[running[t].id]
      BY <1>1, <3>1 DEF OnlyAt
    <3> QED
      BY <2>1, <3>2 DEF Consistent
  <2> QED
    BY <2>1, <2>2, <2>3, <2>4 DEF Consistent, OnlyAt
<1> QED
  BY <1>1 DEF IInv

\* flush keeps status, turn and title of the stored value.
LEMMA FlushedFacts ==
  ASSUME IInv, NEW s \in Sessions, disk[s] # NoSession
  PROVE  /\ Flushed(s) \in Values /\ disk[s] \in Values
         /\ Flushed(s).status = disk[s].status /\ Flushed(s).run = disk[s].run
         /\ Flushed(s).title = disk[s].title
<1>1. TypeOK /\ Consistent(s) /\ disk[s] \in Values
  BY DEF IInv, TypeOK
<1>2. CASE Dirty(s)
  <2>1. /\ live[s].value \in Values /\ live[s].value.status = disk[s].status
        /\ live[s].value.run = disk[s].run /\ live[s].value.title = disk[s].title
    BY <1>1, <1>2 DEF Dirty, TypeOK, Live, Consistent, Running
  <2>2. Flushed(s) = Written(disk[s], live[s].value)
    BY <1>2 DEF Flushed
  <2> QED
    BY <1>1, <2>1, <2>2, WrittenValue
<1>3. CASE ~Dirty(s)
  BY <1>1, <1>3 DEF Flushed
<1> QED
  BY <1>2, <1>3

\* The turn under way keeps its phase, and no turn is handed to a provider.
SameTurn(s) ==
  /\ running'[s] = NoTurn <=> running[s] = NoTurn
  /\ running[s] # NoTurn => /\ running'[s].id = running[s].id
                            /\ running'[s].phase = running[s].phase
  /\ \A t \in Sessions \ {s} : running'[t] = running[t]
  /\ \A d \in Commands : StartsTurn(d) \/ SessionOf(d) # s => effects'[d] = effects[d]

\* A session whose value is replaced by one of the same turn and status, in the
\* store and in the live copy.
LEMMA Revised ==
  ASSUME IInv, NEW s \in Sessions, disk[s] # NoSession, NEW w \in Values,
         w.status = disk[s].status, w.run = disk[s].run,
         Store(s, w), Keep(s, w), SameTurn(s), process' = process, up' = up,
         receipts \subseteq receipts', switching' = switching
  PROVE  OnlyAt(s) /\ Consistent(s)'
<1>1. TypeOK /\ Consistent(s) /\ w # NoSession
  BY NullAssumption DEF IInv
<1>2. disk'[s] = w /\ live'[s] = Kept(s, w)
  BY <1>1 DEF Store, Keep, TypeOK
<1>3. OnlyAt(s)
  BY <1>1 DEF OnlyAt, Store, Keep, TypeOK, SameTurn
<1>4. Running(s)' <=> Running(s)
  BY <1>1, <1>2 DEF Running
<1>5. live'[s] # NoLive => /\ live[s] # NoLive /\ live'[s].value = w
                           /\ live'[s].value.status = "running"
  BY <1>1, <1>2 DEF Kept, Consistent, Running
<1>6. running[s] # NoTurn => /\ running[s].id \in Commands /\ StartsTurn(running[s].id)
                             /\ effects'[running[s].id] = effects[running[s].id]
  BY <1>1 DEF Consistent, TypeOK, Turn, SameTurn
<1>7. Consistent(s)'
  BY <1>1, <1>2, <1>4, <1>5, <1>6 DEF Consistent, SameTurn
<1> QED
  BY <1>3, <1>7

\* A flush that throws.
LEMMA FlushThrowsKeeps ==
  ASSUME IInv, NEW s \in Sessions, FlushThrows(s),
         running' = running, process' = process, effects' = effects, up' = up,
         receipts' = receipts, switching' = switching
  PROVE  OnlyAt(s) /\ Consistent(s)'
         /\ live' \in [Sessions -> Live \cup {NoLive}]
<1>1. TypeOK /\ Consistent(s) /\ live[s] \in Live
  BY DEF IInv, FlushThrows, Dirty, TypeOK
<1>2. /\ disk' = disk /\ live'[s] # NoLive
      /\ live'[s].value = live[s].value /\ live'[s].dirty = live[s].dirty
      /\ \A t \in Sessions \ {s} : live'[t] = live[t]
      /\ live' \in [Sessions -> Live \cup {NoLive}]
  BY <1>1, NullAssumption DEF FlushThrows, TypeOK, Live
<1>3. OnlyAt(s)
  BY <1>2 DEF OnlyAt
<1>4. live[s] # NoLive
  BY <1>1, NullAssumption
<1>5. Running(s)' <=> Running(s)
  BY <1>2 DEF Running
<1>6. Consistent(s)'
  BY <1>1, <1>2, <1>4, <1>5 DEF Consistent
<1> QED
  BY <1>2, <1>3, <1>6

-----------------------------------------------------------------------------
(* Commands *)

\* The type of a step that changes only the store and the live copies.
LEMMA StoreStepType ==
  ASSUME TypeOK,
         disk' \in [Sessions -> Values \cup {NoSession}],
         live' \in [Sessions -> Live \cup {NoLive}],
         faults' \in 0..MaxFaults, crashes' \in 0..MaxCrashes,
         UNCHANGED <<receipts, up, running, switching, process, effects, given>>,
         naming' \in SUBSET Sessions
  PROVE  TypeOK'
BY DEF TypeOK

\* Every step of budget keeps its type.
LEMMA BudgetType ==
  ASSUME TypeOK, Fault \/ UNCHANGED budget
  PROVE  faults' \in 0..MaxFaults /\ crashes' \in 0..MaxCrashes
BY FaultType DEF budget, TypeOK

LEMMA RefuseKeeps ==
  ASSUME IInv, NEW c \in Commands, Refuse(c)
  PROVE  IInv'
<1> DEFINE s == SessionOf(c)
<1>1. TypeOK /\ s \in Sessions
  BY PayloadFields DEF IInv
<1>2. UNCHANGED <<receipts, up, running, naming, switching, process, effects, given>>
  BY DEF Refuse
<1>3. Untouched'
  BY <1>2 DEF IInv, Untouched
<1>4. CASE FlushThrows(s)
  <2>1. /\ OnlyAt(s) /\ Consistent(s)'
        /\ live' \in [Sessions -> Live \cup {NoLive}]
    BY <1>1, <1>2, <1>4, FlushThrowsKeeps
  <2>2. TypeOK'
    BY <1>1, <1>2, <1>4, <2>1, BudgetType, StoreStepType DEF FlushThrows, TypeOK
  <2> QED
    BY <1>1, <1>3, <2>1, <2>2, Frame
<1>5. CASE /\ disk[s] # NoSession /\ Store(s, Flushed(s)) /\ Keep(s, Flushed(s))
           /\ (Fault \/ UNCHANGED budget)
  <2>1. /\ Flushed(s) \in Values
        /\ Flushed(s).status = disk[s].status /\ Flushed(s).run = disk[s].run
    BY <1>1, <1>5, FlushedFacts
  <2>2. OnlyAt(s) /\ Consistent(s)'
    BY <1>1, <1>2, <1>5, <2>1, Revised DEF SameTurn
  <2>3. /\ disk' \in [Sessions -> Values \cup {NoSession}]
        /\ live' \in [Sessions -> Live \cup {NoLive}]
    BY <1>1, <1>5, <2>1, StoreType, KeepType
  <2>4. TypeOK'
    BY <1>1, <1>2, <1>5, <2>3, BudgetType, StoreStepType DEF TypeOK
  <2> QED
    BY <1>1, <1>3, <2>2, <2>4, Frame
<1>6. CASE Fault /\ UNCHANGED <<disk, live>>
  <2>1. TypeOK'
    BY <1>1, <1>2, <1>6, BudgetType DEF TypeOK
  <2>2. \A t \in Sessions : Consistent(t)'
    BY <1>2, <1>6 DEF IInv, Consistent, Running
  <2> QED
    BY <1>3, <2>1, <2>2 DEF IInv
<1> QED
  BY <1>4, <1>5, <1>6 DEF Refuse

LEMMA CreateKeeps ==
  ASSUME IInv, NEW c \in Commands, Create(c)
  PROVE  IInv'
<1> DEFINE s == SessionOf(c)
<1>1. TypeOK /\ s \in Sessions /\ Consistent(s) /\ disk[s] = NoSession
  BY PayloadFields DEF IInv, Create
<1>2. /\ Created(c) \in Values /\ Created(c).status = "idle"
      /\ Created(c) # NoSession
  BY CreatedValue, NullAssumption
<1>3. disk' = [disk EXCEPT ![s] = Created(c)] /\ receipts' = receipts \cup {c}
  BY DEF Create, Store
<1>4. /\ UNCHANGED <<up, running, live, naming, switching, process, effects, given, budget>>
      /\ disk'[s] = Created(c)
  BY <1>1, <1>3 DEF Create, TypeOK
<1>5. running[s] = NoTurn /\ live[s] = NoLive
  BY <1>1 DEF Consistent, Running
<1>6. TypeOK'
  BY <1>1, <1>2, <1>3, <1>4 DEF TypeOK, budget
<1>7. Consistent(s)'
  BY <1>1, <1>2, <1>4, <1>5 DEF Consistent, Running
<1>8. OnlyAt(s)
  BY <1>1, <1>3, <1>4 DEF OnlyAt, TypeOK
<1>9. Untouched'
  BY <1>3, <1>4 DEF IInv, Untouched
<1> QED
  BY <1>1, <1>6, <1>7, <1>8, <1>9, Frame

\* A turn can only start where none is open.
LEMMA AcceptTurnKeeps ==
  ASSUME IInv, NEW c \in Commands, Accept(c), StartsTurn(c)
  PROVE  IInv'
<1> DEFINE s == SessionOf(c)
           f == Flushed(s)
           v == Written(f, After(c, f))
<1>1. TypeOK /\ s \in Sessions /\ Consistent(s) /\ disk[s] # NoSession
  BY PayloadFields DEF IInv, Accept
<1>2. f \in Values /\ f.status = disk[s].status
  BY <1>1, FlushedFacts
<1>3. /\ After(c, f) \in Values
      /\ After(c, f).status = "running" /\ After(c, f).run = c
  BY <1>2, AfterValue, StartedValue
<1>4. v \in Values /\ v.status = "running" /\ v.run = c /\ v # NoSession
  BY <1>2, <1>3, WrittenValue, NullAssumption
<1>5. f.status # "running"
  BY DEF Accept, Acceptable, StartsTurn
<1>6. running[s] = NoTurn /\ live[s] = NoLive /\ ~Running(s) /\ s \notin process
  BY <1>1, <1>2, <1>5 DEF Consistent, Running
<1> DEFINE turn == [id |-> c, phase |-> "queued", cancelled |-> FALSE,
                    failed |-> FALSE, error |-> FALSE]
           copy == [value |-> v, dirty |-> FALSE, timer |-> "none"]
<1>7. turn \in Turn /\ copy \in Live /\ turn # NoTurn /\ copy # NoLive
  <2> HIDE DEF v, f
  <2>1. turn \in Turn
    BY DEF Turn, Phases
  <2>2. copy \in Live
    BY <1>4 DEF Live
  <2> QED
    BY <2>1, <2>2, NullAssumption
<1>8. /\ disk' = [disk EXCEPT ![s] = v] /\ receipts' = receipts \cup {c}
      /\ running' = [running EXCEPT ![s] = turn] /\ live' = [live EXCEPT ![s] = copy]
      /\ naming' \in SUBSET Sessions /\ ~switching
      /\ UNCHANGED <<effects, up, switching, process, given, budget>>
  <2>1. /\ Effect(c, v) /\ Store(s, v) /\ receipts' = receipts \cup {c} /\ ~switching
        /\ UNCHANGED <<up, switching, process, given, budget>>
    BY DEF Accept
  <2>2. /\ running' = [running EXCEPT ![s] = turn] /\ live' = [live EXCEPT ![s] = copy]
        /\ UNCHANGED effects /\ naming' \in {naming, naming \cup {s}}
    BY <2>1 DEF Effect
  <2> QED
    BY <1>1, <2>1, <2>2 DEF Store, TypeOK
<1>9. c \notin receipts /\ effects[c] = 0
  BY DEF Accept, IInv, Untouched
<1>10. /\ disk'[s] = v /\ running'[s] = turn /\ live'[s] = copy
       /\ \A t \in Sessions \ {s} : disk'[t] = disk[t] /\ running'[t] = running[t]
                                    /\ live'[t] = live[t]
  BY <1>1, <1>8 DEF TypeOK
<1>11. TypeOK'
  <2>1. disk' \in [Sessions -> Values \cup {NoSession}]
    BY <1>1, <1>4, <1>8 DEF TypeOK
  <2>2. /\ running' \in [Sessions -> Turn \cup {NoTurn}]
        /\ live' \in [Sessions -> Live \cup {NoLive}]
    BY <1>1, <1>7, <1>8 DEF TypeOK
  <2> QED
    BY <1>1, <1>8, <2>1, <2>2 DEF TypeOK, budget
<1>12. OnlyAt(s)
  BY <1>8, <1>10 DEF OnlyAt
<1>13. turn.id = c /\ turn.phase = "queued" /\ copy.value = v /\ ~copy.dirty
  OBVIOUS
<1>14. Consistent(s)'
  <2> HIDE DEF v, f, turn, copy
  <2>1. Running(s)'
    BY <1>4, <1>10 DEF Running
  <2>2. up' # "down" /\ c \in receipts'
    BY <1>8 DEF Accept
  <2> QED
    BY <1>4, <1>6, <1>7, <1>8, <1>9, <1>10, <1>13, <2>1, <2>2 DEF Consistent
<1>15. Untouched'
  BY <1>8 DEF IInv, Untouched
<1> QED
  BY <1>1, <1>11, <1>12, <1>14, <1>15, Frame

\* The other commands change the value of the turn that is open.
LEMMA AcceptWordKeeps ==
  ASSUME IInv, NEW c \in Commands, Accept(c), ~StartsTurn(c)
  PROVE  IInv'
<1> DEFINE s == SessionOf(c)
           f == Flushed(s)
           v == Written(f, After(c, f))
<1>1. TypeOK /\ s \in Sessions /\ Consistent(s) /\ disk[s] # NoSession
  BY PayloadFields DEF IInv, Accept
<1>2. f \in Values /\ f.status = disk[s].status /\ f.run = disk[s].run
  BY <1>1, FlushedFacts
<1>3. v \in Values /\ v.status = disk[s].status /\ v.run = disk[s].run
  BY <1>2, AfterValue, WrittenValue
<1>4. /\ Store(s, v) /\ receipts' = receipts \cup {c} /\ Effect(c, v)
      /\ UNCHANGED <<up, switching, process, given, budget>>
  BY DEF Accept
<1> HIDE DEF v, f
<1>5. /\ \/ running' = [running EXCEPT ![s].cancelled = TRUE] /\ running[s] # NoTurn
         \/ running' = running
      /\ Keep(s, v) /\ UNCHANGED naming
      /\ effects' \in {effects, [effects EXCEPT ![c] = @ + 1]}
  BY <1>4 DEF Effect
<1>6. SameTurn(s) /\ running' \in [Sessions -> Turn \cup {NoTurn}]
  <2>1. CASE running' = running
    <3>1. effects' \in [Commands -> Nat] /\ \A d \in Commands : StartsTurn(d) => effects'[d] = effects[d]
      BY <1>1, <1>5 DEF TypeOK
    <3>2. \A d \in Commands : SessionOf(d) # s => effects'[d] = effects[d]
      BY <1>1, <1>5 DEF TypeOK
    <3> QED
      BY <1>1, <2>1, <3>1, <3>2 DEF SameTurn, TypeOK
  <2>2. CASE running' = [running EXCEPT ![s].cancelled = TRUE] /\ running[s] # NoTurn
    <3> DEFINE t == [running[s] EXCEPT !.cancelled = TRUE]
    <3>1. t \in Turn /\ t.id = running[s].id /\ t.phase = running[s].phase
      BY <1>1, <2>2 DEF TypeOK, Turn
    <3>2. running' = [running EXCEPT ![s] = t]
      BY <1>1, <2>2 DEF TypeOK
    <3>3. \A d \in Commands : StartsTurn(d) \/ SessionOf(d) # s => effects'[d] = effects[d]
      BY <1>1, <1>5 DEF TypeOK
    <3> HIDE DEF t
    <3> QED
      BY <1>1, <2>2, <3>1, <3>2, <3>3, NullAssumption DEF SameTurn, TypeOK
  <2> QED
    BY <1>5, <2>1, <2>2
<1>7. OnlyAt(s) /\ Consistent(s)'
  BY <1>1, <1>3, <1>4, <1>5, <1>6, Revised
<1>8. TypeOK'
  <2>1. /\ disk' \in [Sessions -> Values \cup {NoSession}]
        /\ live' \in [Sessions -> Live \cup {NoLive}]
    BY <1>1, <1>3, <1>4, <1>5, StoreType, KeepType
  <2> QED
    BY <1>1, <1>4, <1>5, <1>6, <2>1 DEF TypeOK, budget
<1>9. Untouched'
  BY <1>1, <1>4, <1>5 DEF IInv, Untouched, TypeOK
<1> QED
  BY <1>1, <1>7, <1>8, <1>9, Frame

-----------------------------------------------------------------------------
(* The turn's own steps *)

\* A step that changes nothing but how far a turn has come.
LEMMA PhaseKeeps ==
  ASSUME IInv, NEW s \in Sessions, running[s] # NoTurn, NEW t \in Turn,
         t.id = running[s].id, t.phase # "queued", up # "down",
         running' = [running EXCEPT ![s] = t],
         UNCHANGED <<stored, up, live, naming, switching, process, effects, given, budget>>
  PROVE  IInv'
<1>1. TypeOK /\ Consistent(s) /\ t # NoTurn /\ running'[s] = t
  BY NullAssumption DEF IInv, TypeOK
<1>2. TypeOK'
  BY <1>1 DEF TypeOK, stored, budget
<1>3. OnlyAt(s)
  BY <1>1 DEF OnlyAt, TypeOK, stored
<1>4. Consistent(s)'
  BY <1>1 DEF Consistent, Running, stored
<1>5. Untouched'
  BY DEF IInv, Untouched, stored
<1> QED
  BY <1>2, <1>3, <1>4, <1>5, Frame

LEMMA CallProviderKeeps ==
  ASSUME IInv, NEW s \in Sessions, CallProvider(s)
  PROVE  IInv'
<1>1. /\ TypeOK /\ Consistent(s) /\ running[s] \in Turn /\ running[s].phase = "queued"
      /\ up # "down" /\ running[s] # NoTurn
  BY DEF IInv, TypeOK, CallProvider
<1>2. /\ \A t \in Turn : [t EXCEPT !.phase = "stopping"] \in Turn
      /\ \A t \in Turn : [t EXCEPT !.phase = "sending"] \in Turn
  BY DEF Turn, Phases
<1>3. CASE /\ running' = [running EXCEPT ![s].phase = "stopping"]
           /\ UNCHANGED <<process, effects>>
  <2> DEFINE t == [running[s] EXCEPT !.phase = "stopping"]
  <2>1. t \in Turn /\ t.id = running[s].id /\ t.phase # "queued"
    BY <1>1, <1>2 DEF Turn
  <2>2. running' = [running EXCEPT ![s] = t]
    BY <1>1, <1>3 DEF TypeOK
  <2> HIDE DEF t
  <2> QED
    BY <1>1, <1>3, <2>1, <2>2, PhaseKeeps DEF CallProvider, stored, budget
<1>4. CASE /\ running' = [running EXCEPT ![s].phase = "sending"]
           /\ process' = process \cup {s}
           /\ effects' = [effects EXCEPT ![running[s].id] = @ + 1]
  <2> DEFINE t == [running[s] EXCEPT !.phase = "sending"]
             c == running[s].id
  <2>1. t \in Turn /\ t.phase = "sending" /\ t # NoTurn /\ t.id = c /\ c \in Commands
    BY <1>1, <1>2, NullAssumption DEF Turn
  <2>2. running' = [running EXCEPT ![s] = t]
    BY <1>1, <1>4 DEF TypeOK
  <2>3. c \in receipts /\ SessionOf(c) = s
    BY <1>1 DEF Consistent
  <2>4. effects' = [effects EXCEPT ![c] = effects[c] + 1]
    BY <1>1, <1>4 DEF TypeOK
  <2> HIDE DEF t, c
  <2>5. UNCHANGED <<disk, receipts, up, live, naming, switching, given, budget>>
    BY DEF CallProvider
  <2>6. TypeOK'
    BY <1>1, <1>4, <2>1, <2>2, <2>4, <2>5 DEF TypeOK, budget
  <2>7. OnlyAt(s)
    BY <1>1, <1>4, <2>2, <2>3, <2>4, <2>5 DEF OnlyAt, TypeOK
  <2>8. running'[s] = t
    BY <1>1, <2>2 DEF TypeOK
  <2>9. t.id = running[s].id
    BY <2>1 DEF c
  <2>10. Consistent(s)'
    BY <1>1, <2>1, <2>5, <2>8, <2>9 DEF Consistent, Running
  <2>11. Untouched'
    BY <1>1, <2>1, <2>3, <2>4, <2>5 DEF IInv, Untouched, TypeOK
  <2> QED
    BY <2>6, <2>7, <2>10, <2>11, Frame
<1> QED
  BY <1>3, <1>4 DEF CallProvider

LEMMA SendReturnsKeeps ==
  ASSUME IInv, NEW s \in Sessions, SendReturns(s) \/ RetryFires(s)
  PROVE  IInv'
<1>1. /\ TypeOK /\ running[s] \in Turn /\ running[s] # NoTurn /\ up # "down"
      /\ UNCHANGED <<stored, up, live, naming, switching, process, effects, given, budget>>
  BY DEF IInv, TypeOK, SendReturns, RetryFires
<1>2. PICK t \in Turn : /\ t.id = running[s].id /\ t.phase # "queued"
                        /\ running' = [running EXCEPT ![s] = t]
  <2>1. CASE SendReturns(s)
    <3>1. PICK b \in BOOLEAN :
            running' = [running EXCEPT ![s].phase = "stopping", ![s].error = b]
      BY <2>1 DEF SendReturns
    <3> DEFINE t == [running[s] EXCEPT !.phase = "stopping", !.error = b]
    <3>2. t \in Turn /\ t.id = running[s].id /\ t.phase = "stopping"
      BY <1>1 DEF Turn, Phases
    <3>3. running' = [running EXCEPT ![s] = t]
      BY <1>1, <3>1 DEF TypeOK
    <3> QED
      BY <3>2, <3>3
  <2>2. CASE RetryFires(s)
    <3> DEFINE t == [running[s] EXCEPT !.phase = "retrying"]
    <3>1. t \in Turn /\ t.id = running[s].id /\ t.phase = "retrying"
      BY <1>1 DEF Turn, Phases
    <3>2. running' = [running EXCEPT ![s] = t]
      BY <1>1, <2>2 DEF TypeOK, RetryFires
    <3> QED
      BY <3>1, <3>2
  <2> QED
    BY <2>1, <2>2
<1> QED
  BY <1>1, <1>2, PhaseKeeps

\* The end of a turn: session, turn and process go together.
LEMMA SettleKeeps ==
  ASSUME IInv, NEW s \in Sessions, running[s] # NoTurn,
         NEW st \in {"idle", "interrupted"}, NEW clean \in BOOLEAN, Settle(s, st, clean)
  PROVE  IInv'
<1> DEFINE v == Flushed(s)
           w == IF v.run = running[s].id /\ v.status = "running"
                THEN Written(v, Settled(v, st, clean)) ELSE v
<1>1. TypeOK /\ Consistent(s) /\ disk[s] # NoSession /\ Running(s)
  BY DEF IInv, Consistent, Running
<1>2. v \in Values /\ v.run = running[s].id /\ v.status = "running"
  BY <1>1, FlushedFacts DEF Consistent, Running
<1>3. w \in Values /\ w.status = st /\ w # NoSession
  <2>1. Settled(v, st, clean) \in Values /\ Settled(v, st, clean).status = st
    BY <1>2, SettledValue
  <2>2. w = Written(v, Settled(v, st, clean))
    BY <1>2
  <2> HIDE DEF w, v
  <2> QED
    BY <1>2, <2>1, <2>2, WrittenValue, NullAssumption
<1>4. TypeOK'
  BY <1>1, SettleType
<1>5. /\ disk' = [disk EXCEPT ![s] = w] /\ process' = process \ {s}
      /\ live' = [live EXCEPT ![s] = NoLive] /\ running' = [running EXCEPT ![s] = NoTurn]
      /\ UNCHANGED <<receipts, up, switching, effects>>
  BY DEF Settle, Store
<1> HIDE DEF w, v
<1>6. disk'[s] = w /\ live'[s] = NoLive /\ running'[s] = NoTurn
  BY <1>1, <1>5 DEF TypeOK
<1>7. OnlyAt(s)
  BY <1>1, <1>5 DEF OnlyAt, TypeOK
<1>8. Consistent(s)'
  BY <1>1, <1>3, <1>5, <1>6 DEF Consistent, Running
<1>9. Untouched'
  BY <1>5 DEF IInv, Untouched
<1> QED
  BY <1>4, <1>7, <1>8, <1>9, Frame

LEMMA FinishKeeps ==
  ASSUME IInv, NEW s \in Sessions, Finish(s) \/ FinishRetry(s)
  PROVE  IInv'
<1>1. CASE Finish(s)
  <2> DEFINE st == IF up = "closing" \/ running[s].failed THEN "interrupted" ELSE "idle"
             clean == /\ up = "up" /\ ~running[s].failed /\ ~running[s].cancelled
                      /\ ~running[s].error
  <2>1. Settle(s, st, clean) /\ running[s] # NoTurn
    BY <1>1 DEF Finish
  <2>2. st \in {"idle", "interrupted"} /\ clean \in BOOLEAN
    OBVIOUS
  <2> HIDE DEF st, clean
  <2> QED
    BY <2>1, <2>2, SettleKeeps
<1>2. CASE FinishRetry(s)
  BY <1>2, SettleKeeps DEF FinishRetry
<1> QED
  BY <1>1, <1>2

LEMMA PostponedTurn ==
  ASSUME TypeOK, NEW s \in Sessions, running[s] # NoTurn, running' = Postponed(s)
  PROVE  \E t \in Turn : /\ t.id = running[s].id /\ t.phase # "queued"
                         /\ running' = [running EXCEPT ![s] = t]
<1> DEFINE p == IF up = "closing" THEN "lost" ELSE "waiting"
           t == [running[s] EXCEPT !.phase = p]
<1>1. t \in Turn /\ t.id = running[s].id /\ t.phase # "queued"
  BY DEF Turn, Phases, TypeOK
<1>2. running' = [running EXCEPT ![s] = t]
  BY DEF Postponed, TypeOK
<1> HIDE DEF t
<1> QED
  BY <1>1, <1>2

\* A turn that cannot be settled yet.
LEMMA SettleFailsKeeps ==
  ASSUME IInv, NEW s \in Sessions, NEW p \in {"stopping", "retrying"}, SettleFails(s, p)
  PROVE  IInv'
<1>1. /\ TypeOK /\ Consistent(s) /\ running[s] \in Turn /\ running[s] # NoTurn
      /\ running[s].phase # "queued" /\ Running(s) /\ disk[s] # NoSession /\ up # "down"
  BY DEF IInv, TypeOK, SettleFails, Consistent, Running
<1>2. PICK t \in Turn : /\ t.id = running[s].id /\ t.phase # "queued"
                        /\ running' = [running EXCEPT ![s] = t]
  BY <1>1, PostponedTurn DEF SettleFails
<1>3. /\ t # NoTurn /\ running'[s] = t /\ UNCHANGED <<receipts, up, switching, effects>>
      /\ \A r \in Sessions \ {s} : running'[r] = running[r]
      /\ running' \in [Sessions -> Turn \cup {NoTurn}] /\ Fault
      /\ process' \in {process, process \ {s}}
      /\ UNCHANGED <<naming, given>>
  BY <1>1, <1>2, NullAssumption DEF SettleFails, TypeOK
<1>4. Untouched'
  BY <1>3 DEF IInv, Untouched
<1>5. CASE UNCHANGED disk /\ (live' \in {TimerCleared(s), live} \/ FlushThrows(s))
  <2>1. \/ live' = live
        \/ /\ live[s] # NoLive
           /\ \E m \in {"none", "armed", "cleared"} : live' = [live EXCEPT ![s].timer = m]
    <3>1. CASE FlushThrows(s)
      BY <1>1, <3>1, NullAssumption DEF FlushThrows, Dirty
    <3>2. CASE live' = TimerCleared(s)
      BY <1>1, <3>2 DEF TimerCleared, TypeOK, Live
    <3> QED
      BY <1>5, <3>1, <3>2
  <2>2. live' \in [Sessions -> Live \cup {NoLive}]
    <3>1. CASE live' = live
      BY <1>1, <3>1 DEF TypeOK
    <3>2. ASSUME live[s] # NoLive, NEW m \in {"none", "armed", "cleared"},
                 live' = [live EXCEPT ![s].timer = m]
          PROVE  live' \in [Sessions -> Live \cup {NoLive}]
      BY <1>1, <3>2, LiveFieldType
    <3> QED
      BY <2>1, <3>1, <3>2
  <2>3. /\ live'[s] # NoLive => /\ live[s] # NoLive /\ live'[s].value = live[s].value
                                /\ live'[s].dirty = live[s].dirty
        /\ \A r \in Sessions \ {s} : live'[r] = live[r]
    BY <1>1, <2>1 DEF TypeOK, Live
  <2>4. TypeOK'
    BY <1>1, <1>3, <1>5, <2>2, FaultType DEF TypeOK
  <2>5. OnlyAt(s)
    BY <1>3, <1>5, <2>3 DEF OnlyAt
  <2>6. Consistent(s)'
    BY <1>1, <1>2, <1>3, <1>5, <2>3 DEF Consistent, Running
  <2> QED
    BY <1>4, <2>4, <2>5, <2>6, Frame
<1>6. CASE /\ Store(s, Flushed(s))
           /\ live' = [live EXCEPT ![s] = NoLive] \/ Keep(s, Flushed(s))
  <2> DEFINE v == Flushed(s)
  <2>1. v \in Values /\ v.status = disk[s].status /\ v.run = disk[s].run /\ v # NoSession
    BY <1>1, FlushedFacts, NullAssumption
  <2>2. disk'[s] = v /\ \A r \in Sessions \ {s} : disk'[r] = disk[r] /\ live'[r] = live[r]
    BY <1>1, <1>6 DEF Store, Keep, TypeOK
  <2>3. live'[s] = NoLive \/ live'[s] = Kept(s, v)
    BY <1>1, <1>6 DEF Keep, TypeOK
  <2>4. /\ disk' \in [Sessions -> Values \cup {NoSession}]
        /\ live' \in [Sessions -> Live \cup {NoLive}]
    BY <1>1, <1>6, <2>1, StoreType, KeepType DEF TypeOK
  <2>5. TypeOK'
    BY <1>1, <1>3, <2>4, FaultType DEF TypeOK
  <2>6. OnlyAt(s)
    BY <1>3, <2>2 DEF OnlyAt
  <2> HIDE DEF v
  <2>7. live'[s] # NoLive => live'[s].value = v
    BY <2>3 DEF Kept
  <2>8. Consistent(s)'
    BY <1>1, <1>2, <1>3, <2>1, <2>2, <2>7 DEF Consistent, Running
  <2> QED
    BY <1>4, <2>5, <2>6, <2>8, Frame
<1> QED
  BY <1>1, <1>5, <1>6 DEF SettleFails, FlushThrows

-----------------------------------------------------------------------------
(* Events *)

\* scheduledFlush, of the live copy as it is or with one event more.
LEMMA ScheduledFlushKeeps ==
  ASSUME IInv, NEW s \in Sessions, live[s] # NoLive, NEW l \in Live,
         l.value.status = "running", l.value.run = disk[s].run,
         l.value.rev = disk[s].rev, l.value.title = disk[s].title, l.dirty,
         ScheduledFlush(s, l),
         UNCHANGED <<receipts, up, naming, switching, process, effects>>,
         given' \in [Commands -> Nat]
  PROVE  IInv'
<1>1. /\ TypeOK /\ Consistent(s) /\ Running(s) /\ disk[s] # NoSession
      /\ disk[s] \in Values /\ l.value \in Values /\ l # NoLive
  BY NullAssumption DEF IInv, Consistent, Running, TypeOK, Live
<1>2. TypeOK'
  BY <1>1, ScheduledFlushType DEF TypeOK
<1>3. Untouched'
  BY DEF IInv, Untouched
<1>4. CASE /\ disk' = [disk EXCEPT ![s] = Written(disk[s], l.value)]
           /\ live' = [live EXCEPT ![s] = [value |-> Written(disk[s], l.value),
                                           dirty |-> FALSE, timer |-> "none"]]
           /\ UNCHANGED <<running, budget>>
  <2> DEFINE w == Written(disk[s], l.value)
  <2>1. w \in Values /\ w.status = "running" /\ w.run = disk[s].run
    BY <1>1, WrittenValue
  <2>2. /\ Store(s, w) /\ Keep(s, w)
    BY <1>4 DEF Store, Keep, Kept
  <2>3. SameTurn(s)
    BY <1>4 DEF SameTurn
  <2>4. OnlyAt(s) /\ Consistent(s)'
    <3> HIDE DEF w
    <3> QED
      BY <1>1, <2>1, <2>2, <2>3, Revised DEF Running
  <2> QED
    BY <1>2, <1>3, <2>4, Frame
<1>5. CASE /\ Fault
           /\ live' = [live EXCEPT ![s] = [l EXCEPT !.timer = "none"]]
           /\ running' = IF running[s] = NoTurn THEN running
                         ELSE [running EXCEPT ![s].failed = TRUE]
           /\ UNCHANGED disk
  <2>1. /\ live'[s] # NoLive /\ live'[s].value = l.value /\ live'[s].dirty
        /\ \A r \in Sessions \ {s} : live'[r] = live[r]
    BY <1>1, <1>5, NullAssumption DEF TypeOK, Live
  <2>2. /\ running'[s] = NoTurn <=> running[s] = NoTurn
        /\ running[s] # NoTurn => /\ running'[s].id = running[s].id
                                  /\ running'[s].phase = running[s].phase
        /\ \A r \in Sessions \ {s} : running'[r] = running[r]
    <3>1. CASE running[s] = NoTurn
      BY <1>5, <3>1
    <3>2. CASE running[s] # NoTurn
      <4> DEFINE t == [running[s] EXCEPT !.failed = TRUE]
      <4>1. t \in Turn /\ t.id = running[s].id /\ t.phase = running[s].phase
        BY <1>1, <3>2 DEF TypeOK, Turn
      <4>2. running' = [running EXCEPT ![s] = t]
        BY <1>1, <1>5, <3>2 DEF TypeOK
      <4> HIDE DEF t
      <4> QED
        BY <1>1, <3>2, <4>1, <4>2, NullAssumption DEF TypeOK
    <3> QED
      BY <3>1, <3>2
  <2>3. OnlyAt(s)
    BY <1>5, <2>1, <2>2 DEF OnlyAt
  <2>4. Consistent(s)'
    BY <1>1, <1>5, <2>1, <2>2 DEF Consistent, Running
  <2> QED
    BY <1>2, <1>3, <2>3, <2>4, Frame
<1> QED
  BY <1>4, <1>5 DEF ScheduledFlush

\* event(): streamed deltas wait in the live copy, other events are written.
LEMMA EventKeeps ==
  ASSUME IInv, NEW s \in Sessions, NEW r \in Commands, NEW e \in Events, Event(s, r, e)
  PROVE  IInv'
<1> DEFINE w == Apply(e, live[s].value)
           l == [live[s] EXCEPT !.value = w, !.dirty = TRUE]
<1>1. /\ TypeOK /\ Consistent(s) /\ live[s] # NoLive /\ live[s] \in Live
      /\ live[s].value \in Values /\ Running(s) /\ up # "down"
  BY DEF IInv, Event, Consistent, TypeOK, Live
<1>2. /\ w \in Values /\ w.rev = disk[s].rev /\ w.status = "running"
      /\ w.run = disk[s].run /\ w.title = disk[s].title
  BY <1>1, ApplyValue DEF Consistent
<1>3. l = [live[s] EXCEPT !.value = Apply(e, @), !.dirty = TRUE]
  BY <1>1 DEF Live
<1>4. l \in Live /\ l.value = w /\ l.dirty /\ l # NoLive
  <2> HIDE DEF w
  <2>1. l \in Live /\ l.value = w /\ l.dirty
    BY <1>1, <1>2 DEF Live
  <2> QED
    BY <2>1, NullAssumption
<1>5. UNCHANGED <<receipts, up, naming, switching, process, effects>>
  BY DEF Event
<1>6. CASE e = "delta"
  <2> DEFINE m == [l EXCEPT !.timer = IF @ = "none" THEN "armed" ELSE @]
  <2>1. /\ given' = [given EXCEPT ![r] = @ + 1] /\ UNCHANGED <<disk, running, budget>>
        /\ live' = [live EXCEPT ![s] = m]
    BY <1>3, <1>6 DEF Event
  <2>2. m \in Live /\ m.value = w /\ m.dirty /\ m # NoLive
    <3> HIDE DEF l, w
    <3>1. m \in Live /\ m.value = l.value /\ m.dirty = l.dirty
      BY <1>4 DEF Live
    <3> QED
      BY <1>4, <3>1, NullAssumption
  <2> HIDE DEF m, l, w
  <2>3. TypeOK'
    BY <1>1, <1>5, <2>1, <2>2 DEF TypeOK, budget
  <2>4. live'[s] = m
    BY <1>1, <2>1 DEF TypeOK
  <2>5. OnlyAt(s)
    BY <1>1, <1>5, <2>1 DEF OnlyAt, TypeOK
  <2>6. Consistent(s)'
    BY <1>1, <1>2, <1>5, <2>1, <2>2, <2>4 DEF Consistent, Running
  <2>7. Untouched'
    BY <1>5 DEF IInv, Untouched
  <2> QED
    BY <2>3, <2>5, <2>6, <2>7, Frame
<1>7. CASE e # "delta"
  <2>1. ScheduledFlush(s, l) /\ UNCHANGED given
    BY <1>3, <1>7 DEF Event
  <2> HIDE DEF l, w
  <2>2. l.value.status = "running" /\ l.value.run = disk[s].run
        /\ l.value.rev = disk[s].rev /\ l.value.title = disk[s].title
    BY <1>2, <1>4
  <2>3. given' \in [Commands -> Nat]
    BY <1>1, <2>1 DEF TypeOK
  <2> QED
    BY <1>1, <1>4, <1>5, <2>1, <2>2, <2>3, ScheduledFlushKeeps
<1> QED
  BY <1>6, <1>7

\* The batch timer writes what waits, or finds it written.
LEMMA FlushTimerKeeps ==
  ASSUME IInv, NEW s \in Sessions, FlushTimer(s)
  PROVE  IInv'
<1>1. /\ TypeOK /\ Consistent(s) /\ live[s] # NoLive /\ live[s] \in Live /\ Running(s)
      /\ disk[s] # NoSession /\ live[s].value \in Values
      /\ UNCHANGED <<receipts, up, naming, switching, process, effects, given>>
  BY DEF IInv, FlushTimer, Consistent, Running, TypeOK, Live
<1>2. Untouched'
  BY <1>1 DEF IInv, Untouched
<1>3. CASE live[s].dirty
  <2>1. ScheduledFlush(s, live[s])
    BY <1>3 DEF FlushTimer
  <2>2. given' \in [Commands -> Nat]
    BY <1>1 DEF TypeOK
  <2> QED
    BY <1>1, <1>3, <2>1, <2>2, ScheduledFlushKeeps DEF Consistent
<1>4. CASE ~live[s].dirty
  <2>1. Keep(s, live[s].value) /\ UNCHANGED <<disk, running, budget>>
    BY <1>4 DEF FlushTimer
  <2>2. live[s].value = disk[s]
    BY <1>1, <1>4 DEF Consistent
  <2>3. Store(s, disk[s])
    BY <1>1, <2>1 DEF Store, TypeOK
  <2>4. OnlyAt(s) /\ Consistent(s)'
    BY <1>1, <2>1, <2>2, <2>3, Revised DEF SameTurn
  <2>5. TypeOK'
    BY <1>1, <2>1, KeepType DEF TypeOK, budget
  <2> QED
    BY <1>2, <2>4, <2>5, Frame
<1> QED
  BY <1>3, <1>4

-----------------------------------------------------------------------------
(* The other requests *)

\* A session written anew beside its turn, or a flush that throws, or one that
\* goes through although the write after it does not.
LEMMA RevisionKeeps ==
  ASSUME IInv, NEW s \in Sessions, disk[s] # NoSession, NEW w \in Values,
         w.status = disk[s].status, w.run = disk[s].run,
         \/ FlushThrows(s)
         \/ Store(s, w) /\ Keep(s, w) /\ (Fault \/ UNCHANGED budget),
         UNCHANGED <<receipts, up, running, switching, process, effects, given>>,
         naming' \in SUBSET Sessions
  PROVE  IInv'
<1>1. TypeOK /\ Untouched'
  BY DEF IInv, Untouched
<1>2. CASE FlushThrows(s)
  <2>1. /\ OnlyAt(s) /\ Consistent(s)' /\ live' \in [Sessions -> Live \cup {NoLive}]
    BY <1>2, FlushThrowsKeeps
  <2>2. TypeOK'
    BY <1>1, <1>2, <2>1, BudgetType, StoreStepType DEF FlushThrows, TypeOK
  <2> QED
    BY <1>1, <2>1, <2>2, Frame
<1>3. CASE Store(s, w) /\ Keep(s, w) /\ (Fault \/ UNCHANGED budget)
  <2>1. OnlyAt(s) /\ Consistent(s)'
    BY <1>3, Revised DEF SameTurn
  <2>2. /\ disk' \in [Sessions -> Values \cup {NoSession}]
        /\ live' \in [Sessions -> Live \cup {NoLive}]
    BY <1>1, <1>3, StoreType, KeepType
  <2>3. TypeOK'
    BY <1>1, <1>3, <2>2, BudgetType, StoreStepType
  <2> QED
    BY <1>1, <2>1, <2>3, Frame
<1> QED
  BY <1>2, <1>3

\* A new title is a value of the same turn.
LEMMA TitledValue ==
  ASSUME NEW v \in Values, NEW t \in {"prompt", "generated", "renamed"}
  PROVE  /\ Written(v, [v EXCEPT !.title = t]) \in Values
         /\ Written(v, [v EXCEPT !.title = t]).status = v.status
         /\ Written(v, [v EXCEPT !.title = t]).run = v.run
<1>1. [v EXCEPT !.title = t] \in Values /\ [v EXCEPT !.title = t].status = v.status
      /\ [v EXCEPT !.title = t].run = v.run
  BY DEF Values
<1> QED
  BY <1>1, WrittenValue

LEMMA RenameKeeps ==
  ASSUME IInv, NEW s \in Sessions, Rename(s)
  PROVE  IInv'
<1> DEFINE f == Flushed(s)
           v == Written(f, [f EXCEPT !.title = "renamed"])
<1>1. /\ disk[s] # NoSession /\ naming' \in SUBSET Sessions
      /\ UNCHANGED <<receipts, up, running, switching, process, effects, given>>
  BY DEF Rename, IInv, TypeOK
<1>2. f \in Values /\ f.status = disk[s].status /\ f.run = disk[s].run
  BY <1>1, FlushedFacts
<1>3. v \in Values /\ v.status = disk[s].status /\ v.run = disk[s].run
  BY <1>2, TitledValue
<1>4. \/ FlushThrows(s)
      \/ Store(s, v) /\ Keep(s, v) /\ UNCHANGED budget
      \/ Store(s, f) /\ Keep(s, f) /\ Fault
  BY DEF Rename
<1> HIDE DEF v, f
<1> QED
  BY <1>1, <1>2, <1>3, <1>4, RevisionKeeps

LEMMA TitleKeeps ==
  ASSUME IInv, NEW s \in Sessions, TitleArrives(s)
  PROVE  IInv'
<1> DEFINE f == Flushed(s)
           v == IF f.title = "prompt" THEN Written(f, [f EXCEPT !.title = "generated"])
                ELSE f
<1>1. /\ disk[s] # NoSession /\ naming' \in SUBSET Sessions
      /\ UNCHANGED <<receipts, up, running, switching, process, effects, given>>
  BY DEF TitleArrives, IInv, TypeOK
<1>2. f \in Values /\ f.status = disk[s].status /\ f.run = disk[s].run
  BY <1>1, FlushedFacts
<1>3. v \in Values /\ v.status = disk[s].status /\ v.run = disk[s].run
  BY <1>2, TitledValue
<1>4. \/ FlushThrows(s)
      \/ Store(s, v) /\ Keep(s, v) /\ UNCHANGED budget
      \/ Store(s, f) /\ Keep(s, f) /\ Fault
  BY DEF TitleArrives
<1> HIDE DEF v, f
<1> QED
  BY <1>1, <1>2, <1>3, <1>4, RevisionKeeps

\* Only a session at rest is deleted.
LEMMA DeleteKeeps ==
  ASSUME IInv, NEW s \in Sessions, Delete(s)
  PROVE  IInv'
<1>1. TypeOK /\ Consistent(s) /\ ~Running(s)
  BY DEF IInv, Delete
<1>2. /\ disk' = [disk EXCEPT ![s] = NoSession]
      /\ UNCHANGED <<receipts, up, running, live, process, naming, switching, effects,
                     given, budget>>
  BY DEF Delete, Store, turns
<1>3. TypeOK'
  BY <1>1, <1>2 DEF TypeOK, budget
<1>4. disk'[s] = NoSession
  BY <1>1, <1>2 DEF TypeOK
<1>5. OnlyAt(s)
  BY <1>1, <1>2 DEF OnlyAt, TypeOK
<1>6. Consistent(s)'
  BY <1>1, <1>2, <1>4 DEF Consistent, Running
<1>7. Untouched'
  BY <1>2 DEF IInv, Untouched
<1> QED
  BY <1>3, <1>5, <1>6, <1>7, Frame

\* Titles that do not come, and branch switches: they begin when nothing runs.
LEMMA AsideKeeps ==
  ASSUME IInv, (\E s \in Sessions : NoTitle(s)) \/ BeginSwitch \/ EndSwitch
  PROVE  IInv'
<1>1. /\ UNCHANGED <<disk, receipts, up, running, live, process, effects, given, budget>>
      /\ naming' \in SUBSET Sessions /\ switching' \in BOOLEAN
      /\ switching' => switching \/ \A s \in Sessions : ~Running(s)
  <2>1. CASE \E s \in Sessions : NoTitle(s)
    BY <2>1 DEF IInv, TypeOK, NoTitle, stored, turns
  <2>2. CASE BeginSwitch
    BY <2>2 DEF IInv, TypeOK, BeginSwitch, stored, turns
  <2>3. CASE EndSwitch
    BY <2>3 DEF IInv, TypeOK, EndSwitch, stored, turns
  <2> QED
    BY <2>1, <2>2, <2>3
<1>2. TypeOK'
  BY <1>1 DEF IInv, TypeOK, budget
<1>3. Untouched'
  BY <1>1 DEF IInv, Untouched
<1>4. ASSUME NEW s \in Sessions
      PROVE  Consistent(s)'
  BY <1>1 DEF IInv, Consistent, Running
<1> QED
  BY <1>2, <1>3, <1>4 DEF IInv

LEMMA BeginCloseKeeps ==
  ASSUME IInv, BeginClose
  PROVE  IInv'
<1>1. /\ UNCHANGED <<disk, receipts, live, naming, switching, process, effects, given, budget>>
      /\ up' = "closing" /\ up = "up" /\ TypeOK
  BY DEF IInv, BeginClose, stored
<1>2. ASSUME NEW s \in Sessions
      PROVE  /\ running'[s] \in Turn \cup {NoTurn}
             /\ running'[s] = NoTurn <=> running[s] = NoTurn
             /\ running[s] # NoTurn =>
                  /\ running'[s].id = running[s].id
                  /\ running'[s].phase = "queued" <=> running[s].phase = "queued"
  <2>1. running'[s] = IF running[s] # NoTurn /\ running[s].phase = "waiting"
                      THEN [running[s] EXCEPT !.phase = "lost"] ELSE running[s]
    BY DEF BeginClose
  <2>2. CASE running[s] # NoTurn /\ running[s].phase = "waiting"
    <3> DEFINE t == [running[s] EXCEPT !.phase = "lost"]
    <3>1. t \in Turn /\ t.id = running[s].id /\ t.phase = "lost"
      BY <1>1, <2>2 DEF TypeOK, Turn, Phases
    <3>2. t # NoTurn /\ running'[s] = t
      BY <2>1, <2>2, <3>1, NullAssumption
    <3> HIDE DEF t
    <3> QED
      BY <2>2, <3>1, <3>2
  <2>3. CASE ~(running[s] # NoTurn /\ running[s].phase = "waiting")
    BY <1>1, <2>1, <2>3 DEF TypeOK
  <2> QED
    BY <2>2, <2>3
<1>3. running' \in [Sessions -> Turn \cup {NoTurn}]
  BY <1>2 DEF BeginClose
<1>4. TypeOK'
  BY <1>1, <1>3 DEF TypeOK, budget
<1>5. Untouched'
  BY <1>1 DEF IInv, Untouched
<1>6. ASSUME NEW s \in Sessions
      PROVE  Consistent(s)'
  <2>1. Running(s)' <=> Running(s)
    BY <1>1 DEF Running
  <2>2. Consistent(s)
    BY DEF IInv
  <2> QED
    BY <1>1, <1>2, <2>1, <2>2 DEF Consistent
<1> QED
  BY <1>4, <1>5, <1>6 DEF IInv

\* The end of the process leaves the store alone.
LEMMA GoneKeeps ==
  ASSUME IInv, Gone, faults' \in 0..MaxFaults, crashes' \in 0..MaxCrashes
  PROVE  IInv'
<1>1. /\ UNCHANGED <<disk, receipts, effects>> /\ up' = "down" /\ TypeOK
      /\ naming' = {} /\ switching' = FALSE /\ process' = {}
      /\ \A s \in Sessions : running'[s] = NoTurn /\ live'[s] = NoLive
      /\ running' \in [Sessions -> Turn \cup {NoTurn}]
      /\ live' \in [Sessions -> Live \cup {NoLive}]
  BY DEF IInv, Gone
<1>2. given' \in [Commands -> Nat]
  <2>1. ASSUME NEW c \in Commands, StartsTurn(c), live[SessionOf(c)] # NoLive
        PROVE  disk[SessionOf(c)].blocks[<<c, "answer">>].text \in Nat
    <3>1. SessionOf(c) \in Sessions
      BY PayloadFields
    <3>2. disk[SessionOf(c)] \in Values
      BY <1>1, <2>1, <3>1 DEF IInv, Consistent, Running, TypeOK
    <3>3. <<c, "answer">> \in BlockIds
      BY <2>1 DEF BlockIds
    <3>4. disk[SessionOf(c)].blocks[<<c, "answer">>] \in Blocks
      BY <3>2, <3>3 DEF Values
    <3> QED
      BY <3>4 DEF Blocks, NoBlock
  <2>2. \A c \in Commands : given[c] \in Nat
    BY <1>1 DEF TypeOK
  <2> QED
    BY <2>1, <2>2 DEF Gone
<1>3. TypeOK'
  BY <1>1, <1>2 DEF TypeOK
<1>4. Untouched'
  BY <1>1 DEF IInv, Untouched
<1>5. ASSUME NEW s \in Sessions
      PROVE  Consistent(s)'
  BY <1>1 DEF IInv, Consistent, Running
<1> QED
  BY <1>3, <1>4, <1>5 DEF IInv

LEMMA EndKeeps ==
  ASSUME IInv, Exit \/ Crash
  PROVE  IInv'
<1>1. Gone /\ faults' \in 0..MaxFaults /\ crashes' \in 0..MaxCrashes
  BY BoundsAssumption DEF IInv, TypeOK, Exit, Crash, budget
<1> QED
  BY <1>1, GoneKeeps

\* A start settles some of the stored sessions, or all of them.
LEMMA StartKeeps ==
  ASSUME IInv, Start
  PROVE  IInv'
<1>1. /\ TypeOK /\ up = "down" /\ up' \in {"up", "down"}
      /\ UNCHANGED <<receipts, running, live, naming, switching, process, effects, given>>
      /\ Fault \/ UNCHANGED budget
  BY DEF IInv, Start, budget
<1>2. PICK done \in SUBSET {s \in Sessions : Running(s)} :
        disk' = [s \in Sessions |->
          IF s \in done THEN Written(disk[s], Settled(disk[s], "interrupted", FALSE))
          ELSE disk[s]]
  BY DEF Start
<1>3. ASSUME NEW s \in Sessions
      PROVE  /\ disk'[s] \in Values \cup {NoSession}
             /\ disk'[s] = disk[s] \/ (disk'[s].status = "interrupted" /\ disk'[s] # NoSession)
  <2>1. CASE s \in done
    <3> DEFINE n == Settled(disk[s], "interrupted", FALSE)
    <3>1. disk[s] \in Values
      BY <1>1, <1>2, <2>1 DEF TypeOK, Running
    <3>2. n \in Values /\ n.status = "interrupted"
      BY <3>1, SettledValue
    <3>3. disk'[s] = Written(disk[s], n)
      BY <1>2, <2>1
    <3> HIDE DEF n
    <3> QED
      BY <3>1, <3>2, <3>3, WrittenValue, NullAssumption
  <2>2. CASE s \notin done
    BY <1>1, <1>2, <2>2 DEF TypeOK
  <2> QED
    BY <2>1, <2>2
<1>4. disk' \in [Sessions -> Values \cup {NoSession}]
  BY <1>2, <1>3
<1>5. TypeOK'
  BY <1>1, <1>4, BudgetType DEF TypeOK
<1>6. Untouched'
  BY <1>1 DEF IInv, Untouched
<1>7. ASSUME NEW s \in Sessions
      PROVE  Consistent(s)'
  <2>1. Running(s)' => disk'[s] = disk[s]
    BY <1>3 DEF Running
  <2>2. Consistent(s) /\ running[s] = NoTurn /\ live[s] = NoLive
    BY <1>1 DEF IInv, Consistent
  <2>3. Running(s)' => Running(s)
    BY <2>1 DEF Running
  <2> QED
    BY <1>1, <2>1, <2>2, <2>3 DEF Consistent
<1> QED
  BY <1>5, <1>6, <1>7 DEF IInv

-----------------------------------------------------------------------------
(* Every reachable state *)

LEMMA InitIInv ==
  ASSUME Init
  PROVE  IInv
<1>1. TypeOK
  <2>1. faults \in 0..MaxFaults /\ crashes \in 0..MaxCrashes
    BY BoundsAssumption DEF Init
  <2>2. /\ disk \in [Sessions -> Values \cup {NoSession}]
        /\ running \in [Sessions -> Turn \cup {NoTurn}]
        /\ live \in [Sessions -> Live \cup {NoLive}]
        /\ effects \in [Commands -> Nat] /\ given \in [Commands -> Nat]
    BY DEF Init
  <2> QED
    BY <2>1, <2>2 DEF Init, TypeOK
<1>2. Untouched /\ \A s \in Sessions : Consistent(s)
  BY DEF Init, Untouched, Consistent, Running
<1> QED
  BY <1>1, <1>2 DEF IInv

LEMMA StepIInv ==
  ASSUME IInv, [Next]_vars
  PROVE  IInv'
<1>1. ASSUME NEW c \in Commands, Refuse(c) \/ Create(c) \/ Accept(c)
      PROVE  IInv'
  BY <1>1, RefuseKeeps, CreateKeeps, AcceptTurnKeeps, AcceptWordKeeps
<1>2. ASSUME NEW s \in Sessions, TurnStep(s)
      PROVE  IInv'
  <2>1. ASSUME NEW x \in Emits, Event(s, x[1], x[2])
        PROVE  IInv'
    <3>1. x[1] \in Commands /\ x[2] \in Events
      BY BoundsAssumption
    <3> QED
      BY <2>1, <3>1, EventKeeps
  <2> QED
    BY <1>2, <2>1, CallProviderKeeps, SendReturnsKeeps, FinishKeeps, SettleFailsKeeps,
       FlushTimerKeeps DEF TurnStep
<1>3. ASSUME NEW s \in Sessions, Side(s)
      PROVE  IInv'
  BY <1>3, RenameKeeps, DeleteKeeps, TitleKeeps, AsideKeeps DEF Side
<1>4. CASE UNCHANGED vars
  <2>1. TypeOK'
    BY <1>4 DEF IInv, TypeOK, vars
  <2>2. Untouched' /\ \A s \in Sessions : Consistent(s)'
    BY <1>4 DEF IInv, Untouched, Consistent, Running, vars
  <2> QED
    BY <2>1, <2>2 DEF IInv
<1> QED
  BY <1>1, <1>2, <1>3, <1>4, AsideKeeps, BeginCloseKeeps, EndKeeps, StartKeeps
     DEF Next, Request

\* The store, the running map, the live copies and the provider processes agree
\* whatever the host has been through.
THEOREM Agreement == Spec => []IInv
<1>1. Init => IInv
  BY InitIInv
<1>2. IInv /\ [Next]_vars => IInv'
  BY StepIInv
<1> QED
  BY <1>1, <1>2, PTL DEF Spec

\* Types are kept by every step of the host.
THEOREM TypesKept == Spec => []TypeOK
<1>1. IInv => TypeOK
  BY DEF IInv
<1> QED
  BY <1>1, Agreement, PTL

\* No desktop sees the copy of a running turn fall behind the store (flush,
\* updateSession, command).
THEOREM LiveCopies == Spec => []LiveIsCurrent
<1>1. IInv => LiveIsCurrent
  BY DEF IInv, Consistent, LiveIsCurrent
<1> QED
  BY <1>1, Agreement, PTL

\* A turn is queued only once the process of the turn before it is gone (run).
THEOREM OneProcess == Spec => []StoppedBeforeNext
<1>1. IInv => StoppedBeforeNext
  BY DEF IInv, Consistent, StoppedBeforeNext
<1> QED
  BY <1>1, Agreement, PTL

\* Nothing runs in a checkout whose branch is being switched (withIdleProject).
THEOREM SwitchedAtRest == Spec => []CheckoutIdle
<1>1. IInv => CheckoutIdle
  <2> SUFFICES ASSUME IInv, switching
               PROVE  process = {} /\ \A s \in Sessions : ~Running(s) /\ running[s] = NoTurn
    BY DEF CheckoutIdle
  <2>1. \A s \in Sessions : ~Running(s) /\ running[s] = NoTurn /\ s \notin process
    BY DEF IInv, Consistent
  <2> QED
    BY <2>1 DEF IInv, TypeOK
<1> QED
  BY <1>1, Agreement, PTL
=============================================================================
