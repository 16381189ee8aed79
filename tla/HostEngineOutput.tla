--------------------------- MODULE HostEngineOutput ---------------------------
(***************************************************************************)
(* Proofs about HostEngine: what its transcripts hold.  Nothing of a turn  *)
(* that is over goes on, the decision shown is the one told, and no output *)
(* is lost.                                                                *)
(***************************************************************************)
EXTENDS HostEngineSafety

USE DEF Marked

-----------------------------------------------------------------------------
(* What commands, events and the end of a turn do to single blocks *)

\* Blocks of the one part never are blocks of another, a draft's id shows a draft
\* or nothing, and only of a turn that runs are some streaming, asking or built.
Sound(v) ==
  /\ v.question => v.status = "running"
  /\ \A i \in BlockIds :
       /\ v.blocks[i].mark = "draft" => i[2] = "user"
       /\ Type(i[1]) = "draft" => v.blocks[i].mark \in {"draft", "absent"}
       /\ v.blocks[i].mark = "streaming" => v.status = "running"
       /\ v.blocks[i].mark = "building" => v.status = "running" /\ i[2] = "plan"
       /\ v.blocks[i].mark = "asked" => v.status = "running" /\ i = <<v.run, "tool">>

\* The text of an answer.
Text(v, c) == v.blocks[<<c, "answer">>].text

\* Drafts have no parts but their message.
LEMMA DraftId ==
  ASSUME NEW i \in BlockIds, Type(i[1]) = "draft"
  PROVE  ~StartsTurn(i[1]) /\ i[2] = "user"
BY DEF BlockIds, StartsTurn

LEMMA AnswerId ==
  ASSUME NEW c \in Commands, StartsTurn(c)
  PROVE  \A p \in {"user", "answer", "tool", "plan", "note"} : <<c, p>> \in BlockIds
BY DEF BlockIds

\* Started, Resolved and Apply as functions of the block.
LEMMA StartedBlocks ==
  ASSUME NEW c \in Commands, NEW v \in Values, NEW i \in BlockIds
  PROVE  /\ ~Started(c, v).question
         /\ Started(c, v).blocks[i] =
              IF i = <<c, "user">> THEN Marked("none")
              ELSE IF v.blocks[i].mark = "draft" THEN NoBlock
              ELSE IF i = <<Payload[c].plan, "plan">> THEN Marked("building")
              ELSE v.blocks[i]
BY DEF Started, Values

LEMMA ResolvedBlocks ==
  ASSUME NEW d \in Marks, NEW v \in Values, NEW i \in BlockIds
  PROVE  Resolved(v, d).blocks[i] =
           IF i[2] = "tool" /\ v.blocks[i] # NoBlock THEN Marked(d) ELSE v.blocks[i]
BY DEF Resolved, Values

\* A command that starts no turn changes one message, or the tool calls
\* that asked.
LEMMA WordBlocks ==
  ASSUME NEW c \in Commands, NEW v \in Values, ~StartsTurn(c), NEW i \in BlockIds
  PROVE  /\ \/ After(c, v).blocks[i] = v.blocks[i]
            \/ /\ i[2] = "user" /\ After(c, v).blocks[i] \in {Marked("draft"), NoBlock}
            \/ /\ Type(c) = "approve" /\ i[2] = "tool"
               /\ v.blocks[i] # NoBlock
               /\ After(c, v).blocks[i] = Marked(Payload[c].decision)
         /\ Type(c) = "approve" /\ i[2] = "tool" /\ v.blocks[i] # NoBlock =>
              After(c, v).blocks[i] = Marked(Payload[c].decision)
<1>1. CASE Type(c) = "configure"
  <2>1. After(c, v) = [v EXCEPT !.settings = c]
    BY <1>1 DEF After, StartsTurn
  <2> QED
    BY <1>1, <2>1 DEF Values
<1>2. CASE Type(c) = "draft"
  <2> DEFINE t == IF Present(v) = {} THEN "prompt" ELSE v.title
             b == [v.blocks EXCEPT ![<<c, "user">>] = Marked("draft")]
  <2>1. After(c, v) = [v EXCEPT !.title = t, !.blocks = b]
    BY <1>2 DEF After, StartsTurn, Values
  <2>2. b[i] = IF i = <<c, "user">> THEN Marked("draft") ELSE v.blocks[i]
    BY DEF Values
  <2> HIDE DEF t, b
  <2>3. After(c, v).blocks = b /\ After(c, v).question = v.question
    BY <2>1 DEF Values
  <2> QED
    BY <1>2, <2>2, <2>3
<1>3. CASE Type(c) = "removeDraft"
  <2> DEFINE b == [v.blocks EXCEPT ![<<Payload[c].draft, "user">>] = NoBlock]
  <2>1. After(c, v) = [v EXCEPT !.blocks = b]
    BY <1>3 DEF After, StartsTurn, Values
  <2>2. b[i] = IF i = <<Payload[c].draft, "user">> THEN NoBlock ELSE v.blocks[i]
    BY DEF Values
  <2> HIDE DEF b
  <2>3. After(c, v).blocks = b /\ After(c, v).question = v.question
    BY <2>1 DEF Values
  <2> QED
    BY <1>3, <2>2, <2>3
<1>4. CASE Type(c) = "approve"
  <2>1. After(c, v) = Resolved(v, Payload[c].decision)
    BY <1>4 DEF After, StartsTurn
  <2>2. Payload[c].decision \in Marks
    BY PayloadFields DEF Marks
  <2>3. Resolved(v, Payload[c].decision).question = v.question
    BY <2>2, ResolvedValue
  <2> QED
    BY <1>4, <2>1, <2>2, <2>3, ResolvedBlocks
<1>5. CASE Type(c) = "answer"
  <2>1. After(c, v) = [v EXCEPT !.question = FALSE]
    BY <1>5 DEF After, StartsTurn
  <2> QED
    BY <1>5, <2>1 DEF Values
<1>6. CASE Type(c) \notin {"configure", "draft", "removeDraft", "approve", "answer"}
  <2>1. After(c, v) = v
    BY <1>6 DEF After
  <2> QED
    BY <1>6, <2>1
<1> QED
  BY <1>1, <1>2, <1>3, <1>4, <1>5, <1>6

\* An event changes one block of its turn, or withdraws the request.
LEMMA EventBlocks ==
  ASSUME NEW e \in Events, NEW v \in Values, v.run \in Commands, StartsTurn(v.run),
         NEW i \in BlockIds
  PROVE  /\ e = "delta" /\ i = <<v.run, "answer">> =>
              Apply(e, v).blocks[i] = [text |-> v.blocks[i].text + 1, mark |-> "streaming"]
         /\ e = "ask" /\ i = <<v.run, "tool">> => Apply(e, v).blocks[i] = Marked("asked")
         /\ e = "plan" /\ i = <<v.run, "plan">> => Apply(e, v).blocks[i] = Marked("ready")
         /\ e = "withdraw" => Apply(e, v).blocks[i] =
              IF i[2] = "tool" /\ v.blocks[i] # NoBlock THEN Marked("cancelled")
              ELSE v.blocks[i]
         /\ e # "withdraw" /\ i \notin {<<v.run, "answer">>, <<v.run, "tool">>, <<v.run, "plan">>}
              => Apply(e, v).blocks[i] = v.blocks[i]
         /\ e # "delta" /\ i = <<v.run, "answer">> => Apply(e, v).blocks[i] = v.blocks[i]
         /\ e \notin {"ask", "withdraw"} /\ i[2] = "tool" => Apply(e, v).blocks[i] = v.blocks[i]
         /\ e # "plan" /\ i[2] = "plan" => Apply(e, v).blocks[i] = v.blocks[i]
<1>1. CASE e = "delta"
  <2> DEFINE j == <<v.run, "answer">>
             b == [v.blocks EXCEPT ![j] = [text |-> v.blocks[j].text + 1, mark |-> "streaming"]]
  <2>1. Apply(e, v) = [v EXCEPT !.blocks = b]
    BY <1>1, AnswerId DEF Apply, Values
  <2>2. b[i] = IF i = j THEN [text |-> v.blocks[i].text + 1, mark |-> "streaming"]
               ELSE v.blocks[i]
    BY DEF Values
  <2> HIDE DEF b
  <2>3. Apply(e, v).blocks = b
    BY <2>1 DEF Values
  <2> QED
    BY <1>1, <2>2, <2>3
<1>2. CASE e = "withdraw"
  <2>1. Apply(e, v) = Resolved(v, "cancelled")
    BY <1>2 DEF Apply
  <2>2. "cancelled" \in Marks
    BY DEF Marks
  <2>3. Apply(e, v).blocks[i] =
          IF i[2] = "tool" /\ v.blocks[i] # NoBlock THEN Marked("cancelled") ELSE v.blocks[i]
    BY <2>1, <2>2, ResolvedBlocks
  <2> QED
    BY <1>2, <2>3
<1>3. CASE e = "question"
  <2>1. Apply(e, v) = [v EXCEPT !.question = TRUE]
    BY <1>3 DEF Apply
  <2>2. Apply(e, v).blocks = v.blocks
    BY <2>1 DEF Values
  <2> QED
    BY <1>3, <2>2
<1>4. CASE e \in {"ask", "plan"}
  <2> DEFINE j == IF e = "ask" THEN <<v.run, "tool">> ELSE <<v.run, "plan">>
             m == Marked(IF e = "ask" THEN "asked" ELSE "ready")
             b == [v.blocks EXCEPT ![j] = m]
  <2>1. Apply(e, v) = [v EXCEPT !.blocks = b]
    BY <1>4 DEF Apply, Values
  <2>2. b[i] = IF i = j THEN m ELSE v.blocks[i]
    BY DEF Values
  <2> HIDE DEF b
  <2>3. Apply(e, v).blocks = b
    BY <2>1 DEF Values
  <2> QED
    BY <1>4, <2>2, <2>3
<1> QED
  BY <1>1, <1>2, <1>3, <1>4 DEF Events

\* A settled turn as a function of the block.
LEMMA SettledBlocks ==
  ASSUME NEW v \in Values, NEW st \in {"idle", "interrupted"}, NEW clean \in BOOLEAN,
         NEW i \in BlockIds
  PROVE  /\ Settled(v, st, clean).status = st /\ ~Settled(v, st, clean).question
         /\ Settled(v, st, clean).run = v.run
         /\ Settled(v, st, clean).blocks[i] =
              IF i = <<v.run, "user">> THEN Marked("timed")
              ELSE IF i = <<v.run, "note">> /\ ~clean THEN Marked("none")
              ELSE Ended(v.blocks[i], clean)
BY DEF Settled, Values

-----------------------------------------------------------------------------
(* Soundness is kept *)

LEMMA SoundSame ==
  ASSUME NEW v, NEW w, Same(v, w)
  PROVE  Sound(v) <=> Sound(w)
BY DEF Same, Sound

LEMMA SoundCreated ==
  ASSUME NEW c \in Commands
  PROVE  Sound(Created(c))
BY CreatedValue DEF Sound, NoBlock

LEMMA SoundAfter ==
  ASSUME NEW c \in Commands, NEW v \in Values, Sound(v), Type(c) # "create", Acceptable(c, v)
  PROVE  Sound(After(c, v))
<1>1. CASE StartsTurn(c)
  <2>1. v.status # "running" /\ After(c, v) = Started(c, v)
    BY <1>1, AfterValue DEF Acceptable, StartsTurn
  <2>2. Started(c, v).status = "running" /\ ~Started(c, v).question
    BY StartedValue DEF Started, Values
  <2>3. ASSUME NEW i \in BlockIds
        PROVE  /\ Started(c, v).blocks[i].mark \notin {"draft", "streaming", "asked"}
               /\ Started(c, v).blocks[i].mark = "building" => i[2] = "plan"
               /\ Type(i[1]) = "draft" => Started(c, v).blocks[i].mark = "absent"
    <3>1. Started(c, v).blocks[i] \in
            {Marked("none"), NoBlock, v.blocks[i]} \cup
              (IF i = <<Payload[c].plan, "plan">> THEN {Marked("building")} ELSE {})
      BY StartedBlocks
    <3>2. v.blocks[i].mark \notin {"streaming", "asked", "building"}
      BY <2>1 DEF Sound
    <3>3. v.blocks[i].mark = "draft" => Started(c, v).blocks[i] \in {Marked("none"), NoBlock}
      BY StartedBlocks
    <3>4. Type(i[1]) = "draft" => Started(c, v).blocks[i].mark = "absent"
      <4> SUFFICES ASSUME Type(i[1]) = "draft"
                   PROVE  Started(c, v).blocks[i].mark = "absent"
        OBVIOUS
      <4>1. i # <<c, "user">> /\ i # <<Payload[c].plan, "plan">>
        BY <1>1, DraftId
      <4>2. Started(c, v).blocks[i] \in {NoBlock, v.blocks[i]}
        BY <4>1, StartedBlocks
      <4> QED
        BY <3>3, <4>2 DEF NoBlock, Sound
    <3> QED
      BY <3>1, <3>2, <3>3, <3>4 DEF NoBlock
  <2> QED
    BY <2>1, <2>2, <2>3 DEF Sound
<1>2. CASE ~StartsTurn(c)
  <2>1. /\ After(c, v).status = v.status /\ After(c, v).run = v.run
        /\ After(c, v).question => v.question
    <3>1. CASE Type(c) = "approve"
      <4>1. After(c, v) = Resolved(v, Payload[c].decision) /\ Payload[c].decision \in Marks
        BY <3>1, PayloadFields DEF After, StartsTurn, Marks
      <4> QED
        BY <4>1, ResolvedValue
    <3>2. CASE Type(c) # "approve"
      <4>1. After(c, v).question => v.question
        BY <1>2, <3>2 DEF After, StartsTurn, Values
      <4> QED
        BY <1>2, <4>1, AfterValue
    <3> QED
      BY <3>1, <3>2
  <2>2. Payload[c].decision \in {"none", "allow", "deny"}
    BY PayloadFields
  <2>3. ASSUME NEW i \in BlockIds
        PROVE  \/ After(c, v).blocks[i] = v.blocks[i]
               \/ i[2] = "user" /\ After(c, v).blocks[i].mark \in {"draft", "absent"}
               \/ i[2] = "tool" /\ After(c, v).blocks[i].mark \in {"none", "allow", "deny"}
    <3>1. \/ After(c, v).blocks[i] = v.blocks[i]
          \/ i[2] = "user" /\ After(c, v).blocks[i] \in {Marked("draft"), NoBlock}
          \/ i[2] = "tool" /\ After(c, v).blocks[i] = Marked(Payload[c].decision)
      BY <1>2, WordBlocks
    <3>2. Marked("draft").mark = "draft" /\ NoBlock.mark = "absent"
          /\ Marked(Payload[c].decision).mark = Payload[c].decision
      BY DEF NoBlock
    <3> QED
      BY <2>2, <3>1, <3>2
  <2> QED
    BY <2>1, <2>3, DraftId DEF Sound
<1> QED
  BY <1>1, <1>2

LEMMA SoundApply ==
  ASSUME NEW e \in Events, NEW v \in Values, Sound(v), v.status = "running",
         v.run \in Commands, StartsTurn(v.run)
  PROVE  Sound(Apply(e, v))
<1>1. Apply(e, v).status = "running" /\ Apply(e, v).run = v.run
  BY ApplyValue
<1>2. ASSUME NEW i \in BlockIds
      PROVE  \/ Apply(e, v).blocks[i] = v.blocks[i]
             \/ /\ Apply(e, v).blocks[i].mark \in {"streaming", "ready", "cancelled"}
                /\ i[2] # "user"
             \/ Apply(e, v).blocks[i].mark = "asked" /\ i = <<v.run, "tool">>
  <2> DEFINE b == Apply(e, v).blocks[i]
  <2>1. CASE i = <<v.run, "answer">>
    <3>1. b = v.blocks[i] \/ b = [text |-> v.blocks[i].text + 1, mark |-> "streaming"]
      BY <2>1, EventBlocks
    <3> QED
      BY <2>1, <3>1
  <2>2. CASE i = <<v.run, "tool">>
    <3>1. b = v.blocks[i] \/ b = Marked("asked") \/ b = Marked("cancelled")
      BY <2>2, EventBlocks
    <3> QED
      BY <2>2, <3>1
  <2>3. CASE i = <<v.run, "plan">>
    <3>1. b = v.blocks[i] \/ b = Marked("ready") \/ b = Marked("cancelled")
      BY <2>3, EventBlocks
    <3> QED
      BY <2>3, <3>1
  <2>4. CASE i \notin {<<v.run, "answer">>, <<v.run, "tool">>, <<v.run, "plan">>}
    <3>1. b = v.blocks[i] \/ (b = Marked("cancelled") /\ i[2] = "tool")
      BY <2>4, EventBlocks
    <3> QED
      BY <3>1
  <2> QED
    BY <2>1, <2>2, <2>3, <2>4
<1> QED
  BY <1>1, <1>2, DraftId DEF Sound

LEMMA EndedMark ==
  ASSUME NEW b \in Blocks, NEW clean \in BOOLEAN
  PROVE  /\ Ended(b, clean).mark = "draft" => b.mark = "draft"
         /\ b.mark \in {"draft", "absent"} => Ended(b, clean) = b
         /\ b.mark \notin {"asked", "building"} => Ended(b, clean).text = b.text
         /\ \A d \in {"none", "allow", "deny"} : b = Marked(d) => Ended(b, clean) = b
<1>1. CASE b.mark = "streaming"
  <2>1. b \in [text : Nat, mark : Marks]
    BY <1>1 DEF Blocks, NoBlock
  <2> QED
    BY <1>1, <2>1 DEF Ended
<1>2. CASE b.mark = "asked"
  BY <1>2 DEF Ended
<1>3. CASE b.mark = "building"
  BY <1>3 DEF Ended
<1>4. CASE b.mark \notin {"streaming", "asked", "building"}
  BY <1>4 DEF Ended
<1> QED
  BY <1>1, <1>2, <1>3, <1>4

LEMMA SoundSettled ==
  ASSUME NEW v \in Values, NEW st \in {"idle", "interrupted"}, NEW clean \in BOOLEAN,
         Sound(v), StartsTurn(v.run)
  PROVE  Sound(Settled(v, st, clean))
<1>1. ASSUME NEW i \in BlockIds
      PROVE  /\ Settled(v, st, clean).blocks[i].mark \notin {"streaming", "asked", "building"}
             /\ Settled(v, st, clean).blocks[i].mark = "draft" => i[2] = "user"
             /\ Type(i[1]) = "draft" => Settled(v, st, clean).blocks[i] = v.blocks[i]
  <2>1. v.blocks[i] \in Blocks
    BY DEF Values
  <2>2. /\ Ended(v.blocks[i], clean).mark \notin {"streaming", "asked", "building"}
        /\ Ended(v.blocks[i], clean).mark = "draft" => i[2] = "user"
    BY <2>1, EndedBlock, EndedMark DEF Sound
  <2>3. /\ Settled(v, st, clean).blocks[i].mark \notin {"streaming", "asked", "building"}
        /\ Settled(v, st, clean).blocks[i].mark = "draft" => i[2] = "user"
    BY <2>2, SettledBlocks
  <2>4. Type(i[1]) = "draft" => Settled(v, st, clean).blocks[i] = v.blocks[i]
    <3> SUFFICES ASSUME Type(i[1]) = "draft"
                 PROVE  Settled(v, st, clean).blocks[i] = v.blocks[i]
      OBVIOUS
    <3>1. i # <<v.run, "user">> /\ i # <<v.run, "note">>
      BY DraftId
    <3>2. Settled(v, st, clean).blocks[i] = Ended(v.blocks[i], clean)
      BY <3>1, SettledBlocks
    <3>3. v.blocks[i].mark \in {"draft", "absent"}
      BY DEF Sound
    <3> QED
      BY <2>1, <3>2, <3>3, EndedMark
  <2> QED
    BY <2>3, <2>4
<1>2. ~Settled(v, st, clean).question
  BY DEF Settled, Values
<1> QED
  BY <1>1, <1>2 DEF Sound

-----------------------------------------------------------------------------
(* Answers are only changed by their turn's deltas *)

LEMMA TextAfter ==
  ASSUME NEW c \in Commands, NEW v \in Values, Sound(v), Type(c) # "create",
         NEW d \in Commands, StartsTurn(d)
  PROVE  Text(After(c, v), d) = Text(v, d)
<1> DEFINE i == <<d, "answer">>
<1>1. i \in BlockIds /\ i[2] = "answer"
  BY AnswerId
<1>2. v.blocks[i].mark # "draft"
  BY <1>1 DEF Sound
<1>3. CASE StartsTurn(c)
  <2>1. After(c, v) = Started(c, v)
    BY <1>3, AfterValue
  <2>2. Started(c, v).blocks[i] = v.blocks[i]
    BY <1>1, <1>2, StartedBlocks
  <2> QED
    BY <2>1, <2>2 DEF Text
<1>4. CASE ~StartsTurn(c)
  BY <1>1, <1>4, WordBlocks DEF Text
<1> QED
  BY <1>3, <1>4

LEMMA TextApply ==
  ASSUME NEW e \in Events, NEW v \in Values, v.run \in Commands, StartsTurn(v.run),
         NEW d \in Commands, StartsTurn(d)
  PROVE  Text(Apply(e, v), d) =
           IF e = "delta" /\ d = v.run THEN Text(v, d) + 1 ELSE Text(v, d)
<1> DEFINE i == <<d, "answer">>
<1>1. i \in BlockIds /\ i[2] = "answer"
  BY AnswerId
<1>2. CASE d = v.run
  <2>1. i = <<v.run, "answer">>
    BY <1>2
  <2> HIDE DEF i
  <2>2. /\ e = "delta" => Apply(e, v).blocks[i].text = v.blocks[i].text + 1
        /\ e # "delta" => Apply(e, v).blocks[i] = v.blocks[i]
    <3>1. e = "delta" =>
            Apply(e, v).blocks[i] = [text |-> v.blocks[i].text + 1, mark |-> "streaming"]
      BY <1>1, <2>1, EventBlocks
    <3>2. e # "delta" => Apply(e, v).blocks[i] = v.blocks[i]
      BY <1>1, <2>1, EventBlocks
    <3> QED
      BY <3>1, <3>2
  <2> QED
    BY <1>2, <2>1, <2>2 DEF Text
<1>3. CASE d # v.run
  <2>1. i \notin {<<v.run, "answer">>, <<v.run, "tool">>, <<v.run, "plan">>}
    BY <1>3
  <2> QED
    BY <1>1, <1>3, <2>1, EventBlocks DEF Text
<1> QED
  BY <1>2, <1>3

LEMMA TextSettled ==
  ASSUME NEW v \in Values, NEW st \in {"idle", "interrupted"}, NEW clean \in BOOLEAN,
         Sound(v), NEW d \in Commands, StartsTurn(d)
  PROVE  Text(Settled(v, st, clean), d) = Text(v, d)
<1> DEFINE i == <<d, "answer">>
<1>1. i \in BlockIds /\ i[2] = "answer" /\ v.blocks[i] \in Blocks
  BY AnswerId DEF Values
<1>2. v.blocks[i].mark \notin {"asked", "building"}
  BY <1>1 DEF Sound
<1>3. Settled(v, st, clean).blocks[i] = Ended(v.blocks[i], clean)
  BY <1>1, SettledBlocks
<1> QED
  BY <1>1, <1>2, <1>3, EndedMark DEF Text

-----------------------------------------------------------------------------
(* The invariant of the transcripts *)

\* Of the commands in R, those that decide on the turn v is in are shown in v.
Decided(R, s, v) ==
  \A c \in R : Type(c) = "approve" /\ SessionOf(c) = s /\ v.run = Payload[c].run =>
    v.blocks[<<v.run, "tool">>] = Marked(Payload[c].decision)

\* The stored value and the live copy are sound, and both show the decisions
\* accepted of their turn, each of which was told to the provider.
Honest(s) ==
  /\ \A c \in receipts : Type(c) = "approve" /\ SessionOf(c) = s =>
       /\ effects[c] = 1 /\ Payload[c].run \in receipts
       /\ StartsTurn(Payload[c].run) /\ SessionOf(Payload[c].run) = s
  /\ disk[s] # NoSession =>
       /\ Sound(disk[s]) /\ Decided(receipts, s, disk[s])
       /\ Sound(Latest(s)) /\ Decided(receipts, s, Latest(s))

\* The live copy holds every delta taken, the store those of the turns that are
\* over; a session that is deleted does not come back.
Whole(s) ==
  /\ disk[s] # NoSession \/ (\E c \in receipts : SessionOf(c) = s) =>
       \E c \in receipts : Type(c) = "create" /\ SessionOf(c) = s
  /\ \A c \in Commands : StartsTurn(c) /\ SessionOf(c) = s =>
       /\ c \notin receipts => given[c] = 0
       /\ disk[s] # NoSession =>
            /\ Text(Latest(s), c) = given[c]
            /\ c # disk[s].run => Text(disk[s], c) = given[c]

HInv == IInv /\ \A s \in Sessions : Honest(s) /\ Whole(s)

LEMMA SameText ==
  ASSUME NEW v, NEW w, Same(v, w), NEW c
  PROVE  Text(v, c) = Text(w, c) /\ v.run = w.run
BY DEF Same, Text

LEMMA SameDecided ==
  ASSUME NEW R, NEW s, NEW v, NEW w, Same(v, w), Decided(R, s, v)
  PROVE  Decided(R, s, w)
BY DEF Same, Decided

\* An approved request's block, and the ways it cannot be.
LEMMA DecisionMark ==
  ASSUME NEW c \in Commands
  PROVE  /\ Marked(Payload[c].decision).mark \in {"none", "allow", "deny"}
         /\ Marked(Payload[c].decision) # NoBlock
         /\ \A clean \in BOOLEAN : Ended(Marked(Payload[c].decision), clean) =
                                     Marked(Payload[c].decision)
<1>1. Payload[c].decision \in {"none", "allow", "deny"}
  BY PayloadFields
<1> DEFINE m == Marked(Payload[c].decision)
<1>2. m.mark \in {"none", "allow", "deny"}
  BY <1>1
<1>3. m # NoBlock /\ \A clean \in BOOLEAN : Ended(m, clean) = m
  BY <1>2 DEF Ended, NoBlock
<1> QED
  BY <1>2, <1>3

\* Decisions stay, or are made, when a command is accepted.
LEMMA DecidedAfter ==
  ASSUME HInv, NEW s \in Sessions, NEW c \in Commands, NEW v \in Values,
         SessionOf(c) = s, c \notin receipts, Type(c) # "create", Acceptable(c, v),
         Sound(v), Decided(receipts, s, v),
         NEW R, \A d \in R : SessionOf(d) = s => d \in receipts \/ d = c
  PROVE  Decided(R, s, After(c, v))
<1> DEFINE w == After(c, v)
<1>1. Honest(s) /\ receipts \subseteq Commands
  BY DEF HInv, IInv, TypeOK
<1> SUFFICES ASSUME NEW d \in R, Type(d) = "approve", SessionOf(d) = s,
                    w.run = Payload[d].run
             PROVE  w.blocks[<<w.run, "tool">>] = Marked(Payload[d].decision)
  BY DEF Decided
<1>2. d \in Commands /\ (d \in receipts \/ d = c)
  BY <1>1
<1>3. CASE StartsTurn(c)
  <2>1. w.run = c
    BY <1>3, AfterValue, StartedValue
  <2>2. d # c /\ d \in receipts
    BY <1>2, <1>3 DEF StartsTurn
  <2> QED
    BY <1>1, <2>1, <2>2 DEF Honest
<1>4. CASE ~StartsTurn(c)
  <2>1. w.run = v.run
    BY <1>4, AfterValue
  <2>2. CASE d = c
    <3>1. v.status = "running" /\ Waiting(v) # {}
      BY <2>2 DEF Acceptable, InTurn
    <3>2. <<v.run, "tool">> \in BlockIds /\ v.blocks[<<v.run, "tool">>].mark = "asked"
      BY <3>1 DEF Waiting, Sound
    <3>3. v.blocks[<<v.run, "tool">>] # NoBlock
      BY <3>2 DEF NoBlock
    <3> QED
      BY <1>4, <2>1, <2>2, <3>2, <3>3, WordBlocks
  <2>3. CASE d # c
    <3>1. /\ d \in receipts /\ Payload[d].run \in Commands /\ StartsTurn(Payload[d].run)
      BY <1>1, <1>2, <2>3 DEF Honest
    <3>2. v.blocks[<<v.run, "tool">>] = Marked(Payload[d].decision)
      BY <2>1, <3>1 DEF Decided
    <3>3. <<v.run, "tool">> \in BlockIds
      BY <2>1, <3>1, AnswerId
    <3>4. CASE Type(c) = "approve"
      <4>1. v.status = "running" /\ v.run = Payload[c].run /\ Waiting(v) # {}
        BY <3>4 DEF Acceptable, InTurn
      <4>2. v.blocks[<<v.run, "tool">>].mark = "asked"
        BY <4>1 DEF Waiting, Sound
      <4> QED
        BY <1>2, <3>2, <4>2, DecisionMark
    <3>5. CASE Type(c) # "approve"
      BY <1>4, <2>1, <3>2, <3>3, <3>5, WordBlocks
    <3> QED
      BY <3>4, <3>5
  <2> QED
    BY <2>2, <2>3
<1> QED
  BY <1>3, <1>4

\* Events and the end of the turn leave a decided request.
LEMMA DecidedApply ==
  ASSUME HInv, NEW s \in Sessions, NEW e \in Events, NEW v \in Values,
         Decided(receipts, s, v), Possible(e, v)
  PROVE  Decided(receipts, s, Apply(e, v))
<1>1. Honest(s) /\ receipts \subseteq Commands /\ Apply(e, v).run = v.run
  BY ApplyValue DEF HInv, IInv, TypeOK
<1> SUFFICES ASSUME NEW d \in receipts, Type(d) = "approve", SessionOf(d) = s,
                    v.run = Payload[d].run
             PROVE  Apply(e, v).blocks[<<v.run, "tool">>] = Marked(Payload[d].decision)
  BY <1>1 DEF Decided
<1> DEFINE i == <<v.run, "tool">>
<1>2. v.run \in Commands /\ StartsTurn(v.run) /\ i \in BlockIds /\ i[2] = "tool"
  BY <1>1, AnswerId DEF Honest
<1>3. v.blocks[i] = Marked(Payload[d].decision)
  BY DEF Decided
<1>4. v.blocks[i] # NoBlock /\ v.blocks[i].mark # "asked"
  BY <1>1, <1>3, DecisionMark
<1>5. e \notin {"ask", "withdraw"}
  BY <1>4 DEF Possible
<1> HIDE DEF i
<1>6. Apply(e, v).blocks[i] = v.blocks[i]
  BY <1>2, <1>5, EventBlocks
<1> QED
  BY <1>3, <1>6 DEF i

LEMMA DecidedSettled ==
  ASSUME HInv, NEW s \in Sessions, NEW v \in Values, NEW st \in {"idle", "interrupted"},
         NEW clean \in BOOLEAN, Decided(receipts, s, v)
  PROVE  Decided(receipts, s, Settled(v, st, clean))
<1>1. Honest(s) /\ receipts \subseteq Commands /\ Settled(v, st, clean).run = v.run
  BY DEF HInv, IInv, TypeOK, Settled, Values
<1> SUFFICES ASSUME NEW d \in receipts, Type(d) = "approve", SessionOf(d) = s,
                    v.run = Payload[d].run
             PROVE  Settled(v, st, clean).blocks[<<v.run, "tool">>] =
                      Marked(Payload[d].decision)
  BY <1>1 DEF Decided
<1> DEFINE i == <<v.run, "tool">>
<1>2. i \in BlockIds /\ i # <<v.run, "user">> /\ i # <<v.run, "note">>
  BY <1>1, AnswerId DEF Honest
<1>3. v.blocks[i] = Marked(Payload[d].decision)
  BY DEF Decided
<1>4. Settled(v, st, clean).blocks[i] = Ended(v.blocks[i], clean)
  BY <1>2, SettledBlocks
<1> QED
  BY <1>1, <1>3, <1>4, DecisionMark

-----------------------------------------------------------------------------
(* Every kind of change keeps it *)

\* The first part of Honest, when no command is accepted.
LEMMA TellingKept ==
  ASSUME HInv, IInv', NEW s \in Sessions, NEW new \in SUBSET Commands, Accepts(s, new),
         \A c \in new : c \notin receipts /\ SessionOf(c) = s,
         \A c \in new : Type(c) = "approve" =>
           /\ effects'[c] = effects[c] + 1 /\ Payload[c].run \in receipts
           /\ StartsTurn(Payload[c].run) /\ SessionOf(Payload[c].run) = s
  PROVE  \A c \in receipts' : Type(c) = "approve" /\ SessionOf(c) = s =>
           /\ effects'[c] = 1 /\ Payload[c].run \in receipts'
           /\ StartsTurn(Payload[c].run) /\ SessionOf(Payload[c].run) = s
<1> SUFFICES ASSUME NEW c \in receipts', Type(c) = "approve", SessionOf(c) = s
             PROVE  /\ effects'[c] = 1 /\ Payload[c].run \in receipts'
                    /\ StartsTurn(Payload[c].run) /\ SessionOf(Payload[c].run) = s
  OBVIOUS
<1>1. Honest(s) /\ Untouched /\ receipts \subseteq Commands /\ receipts' \subseteq Commands
  BY DEF HInv, IInv, TypeOK
<1>2. c \in receipts \/ c \in new
  BY <1>1 DEF Accepts
<1>3. \A d \in Commands : d \in receipts /\ SessionOf(d) = s => d \in receipts'
  BY DEF Accepts
<1>4. CASE c \in receipts
  <2>1. effects'[c] = effects[c]
    BY <1>1, <1>4 DEF Accepts, StartsTurn
  <2> QED
    BY <1>1, <1>3, <1>4, <2>1 DEF Honest
<1>5. CASE c \in new
  BY <1>1, <1>3, <1>5 DEF Untouched
<1> QED
  BY <1>2, <1>4, <1>5

LEMMA HonestKept ==
  ASSUME HInv, IInv', NEW s \in Sessions, Change(s)
  PROVE  Honest(s)'
<1>1. /\ IInv /\ Consistent(s) /\ Honest(s) /\ receipts \subseteq Commands
      /\ receipts' \subseteq Commands
      /\ disk[s] # NoSession => /\ Latest(s) \in Values /\ disk[s] \in Values
                                /\ Latest(s).run = disk[s].run
                                /\ Latest(s).status = disk[s].status
  BY FlushedSame DEF HInv, IInv, TypeOK
<1> DEFINE Decides(c) ==
             /\ effects'[c] = 1 /\ Payload[c].run \in receipts'
             /\ StartsTurn(Payload[c].run) /\ SessionOf(Payload[c].run) = s
           Shown(v) == Sound(v) /\ Decided(receipts', s, v)
<1>2. /\ \A c \in receipts' : Type(c) = "approve" /\ SessionOf(c) = s => Decides(c)
      /\ disk'[s] # NoSession => Shown(disk'[s]) /\ Shown(Latest(s)')
  <2>1. ASSUME Accepts(s, {})
        PROVE  /\ \A c \in receipts' : Type(c) = "approve" /\ SessionOf(c) = s => Decides(c)
               /\ \A v : Decided(receipts, s, v) => Decided(receipts', s, v)
    <3>1. \A c \in Commands : SessionOf(c) = s => (c \in receipts' <=> c \in receipts)
      BY <2>1 DEF Accepts
    <3>2. \A c \in receipts' : Type(c) = "approve" /\ SessionOf(c) = s => Decides(c)
      BY <1>1, <2>1, TellingKept
    <3> QED
      BY <1>1, <3>1, <3>2 DEF Decided
  <2>2. \A v, w : Same(v, w) /\ Shown(v) => Shown(w)
    BY SoundSame, SameDecided
  <2>3. CASE Absent(s)
    BY <2>1, <2>3 DEF Absent, Quietly
  <2>4. CASE Content(s)
    <3>1. Accepts(s, {}) /\ disk[s] # NoSession
      BY <2>4 DEF Content, Quietly
    <3>2. Shown(disk[s]) /\ Shown(Latest(s))
      BY <1>1, <2>1, <3>1 DEF Honest
    <3>3. Same(disk[s], disk'[s]) \/ Same(Latest(s), disk'[s])
      BY <2>4 DEF Content, Same
    <3>4. Same(Latest(s), Latest(s)')
      BY <2>4 DEF Content, Same
    <3> HIDE DEF Shown, Decides
    <3> QED
      BY <2>1, <2>2, <3>1, <3>2, <3>3, <3>4
  <2>5. CASE Made(s)
    <3>1. PICK c \in Commands :
            /\ Type(c) = "create" /\ SessionOf(c) = s /\ c \notin receipts
            /\ disk'[s] = Created(c) /\ Accepts(s, {c}) /\ live'[s] = NoLive
      BY <2>5 DEF Made
    <3>2. \A d \in receipts' : Type(d) = "approve" /\ SessionOf(d) = s => Decides(d)
      BY <1>1, <3>1, TellingKept
    <3>3. Latest(s)' = Created(c) /\ Sound(Created(c)) /\ Created(c).run = NoRun
      BY <3>1, SoundCreated, CreatedValue DEF Latest
    <3>4. Decided(receipts', s, Created(c))
      <4>1. \A d \in receipts' : Type(d) = "approve" /\ SessionOf(d) = s =>
              Payload[d].run # NoRun
        BY <1>1, <3>2, PayloadAssumption
      <4> QED
        BY <3>3, <4>1 DEF Decided
    <3> QED
      BY <3>1, <3>2, <3>3, <3>4
  <2>6. CASE Commanded(s)
    <3>1. PICK c \in Commands, v \in Values :
            /\ Type(c) # "create" /\ SessionOf(c) = s /\ c \notin receipts
            /\ Same(v, Latest(s)) /\ Acceptable(c, v)
            /\ Same(disk'[s], After(c, v)) /\ Same(Latest(s)', After(c, v))
            /\ Accepts(s, {c})
            /\ Type(c) = "approve" => effects'[c] = effects[c] + 1
      BY <2>6 DEF Commanded
    <3>2. disk[s] # NoSession
      BY <2>6 DEF Commanded
    <3>3. Same(Latest(s), v)
      BY <3>1 DEF Same
    <3>4. Sound(v) /\ Decided(receipts, s, v)
      BY <1>1, <3>2, <3>3, SoundSame, SameDecided DEF Honest
    <3>5. \A d \in receipts' : SessionOf(d) = s => d \in receipts \/ d = c
      BY <1>1, <3>1 DEF Accepts
    <3>6. Shown(After(c, v))
      BY <3>1, <3>4, <3>5, SoundAfter, DecidedAfter
    <3>7. Type(c) = "approve" =>
            /\ Payload[c].run \in receipts
            /\ StartsTurn(Payload[c].run) /\ SessionOf(Payload[c].run) = s
      <4>1. Type(c) = "approve" => v.run = Payload[c].run /\ v.status = "running"
        BY <3>1 DEF Acceptable, InTurn
      <4>2. v.run = disk[s].run /\ v.status = disk[s].status
        BY <1>1, <3>1, <3>2 DEF Same
      <4> QED
        BY <1>1, <3>2, <4>1, <4>2 DEF Consistent, Running
    <3>8. \A d \in receipts' : Type(d) = "approve" /\ SessionOf(d) = s => Decides(d)
      BY <1>1, <3>1, <3>7, TellingKept
    <3>9. Same(After(c, v), disk'[s]) /\ Same(After(c, v), Latest(s)')
      BY <3>1 DEF Same
    <3> HIDE DEF Shown, Decides
    <3> QED
      BY <2>2, <3>6, <3>8, <3>9
  <2>7. CASE Told(s)
    <3> DEFINE v == Latest(s)
    <3>1. PICK e \in Events :
            /\ Possible(e, v) /\ Same(Latest(s)', Apply(e, v))
            /\ Same(disk'[s], disk[s]) \/ Same(disk'[s], Latest(s)')
      BY <2>7 DEF Told
    <3>2. /\ Accepts(s, {}) /\ disk[s] # NoSession /\ v \in Values /\ v.status = "running"
      BY <2>7 DEF Told
    <3>3. v.run \in Commands /\ StartsTurn(v.run)
      BY <1>1, <3>2 DEF Consistent, Running
    <3>4. Sound(v) /\ Decided(receipts, s, v) /\ Shown(disk[s])
      BY <1>1, <2>1, <3>2 DEF Honest
    <3>5. Shown(Apply(e, v))
      <4>1. Sound(Apply(e, v))
        BY <3>2, <3>3, <3>4, SoundApply
      <4>2. Decided(receipts, s, Apply(e, v))
        BY <3>1, <3>2, <3>4, DecidedApply
      <4> QED
        BY <2>1, <3>2, <4>1, <4>2
    <3>6. /\ Same(Apply(e, v), Latest(s)')
          /\ Same(disk[s], disk'[s]) \/ Same(Apply(e, v), disk'[s])
      BY <3>1 DEF Same
    <3> HIDE DEF Shown, Decides, v
    <3> QED
      BY <2>1, <2>2, <3>2, <3>4, <3>5, <3>6
  <2>8. CASE Ends(s)
    <3>1. PICK v \in Values, st \in {"idle", "interrupted"}, clean \in BOOLEAN :
            Same(v, Latest(s)) /\ Same(disk'[s], Settled(v, st, clean))
      BY <2>8 DEF Ends
    <3>2. Accepts(s, {}) /\ disk[s] # NoSession /\ Latest(s)' = disk'[s]
      BY <2>8 DEF Ends, Quietly, Latest
    <3>3. Same(Latest(s), v) /\ Same(Settled(v, st, clean), disk'[s])
      BY <3>1 DEF Same
    <3>4. Sound(v) /\ Decided(receipts, s, v)
      BY <1>1, <3>2, <3>3, SoundSame, SameDecided DEF Honest
    <3>5. Sound(Settled(v, st, clean))
      <4>1. v.run = disk[s].run /\ disk[s].status = "running"
        BY <1>1, <2>8, <3>1, <3>2 DEF Ends, Same
      <4>2. StartsTurn(v.run)
        BY <1>1, <3>2, <4>1 DEF Consistent, Running
      <4> QED
        BY <3>4, <4>2, SoundSettled
    <3>6. Decided(receipts, s, Settled(v, st, clean))
      BY <3>4, DecidedSettled
    <3>7. Shown(Settled(v, st, clean))
      BY <2>1, <3>2, <3>5, <3>6
    <3> HIDE DEF Shown, Decides
    <3> QED
      BY <2>1, <2>2, <3>2, <3>3, <3>7
  <2>9. CASE Dropped(s)
    <3>1. Accepts(s, {}) /\ disk[s] # NoSession /\ disk'[s] = disk[s] /\ Latest(s)' = disk[s]
      BY <2>9 DEF Dropped, Latest
    <3>2. Shown(disk[s])
      BY <1>1, <2>1, <3>1 DEF Honest
    <3> HIDE DEF Shown, Decides
    <3> QED
      BY <2>1, <3>1, <3>2
  <2> QED
    BY <2>3, <2>4, <2>5, <2>6, <2>7, <2>8, <2>9 DEF Change
<1> QED
  BY <1>2 DEF Honest

\* Whole, for every kind of change.
LEMMA WholeKept ==
  ASSUME HInv, IInv', NEW s \in Sessions, Change(s)
  PROVE  Whole(s)'
<1>1. /\ IInv /\ Consistent(s) /\ Honest(s) /\ Whole(s) /\ receipts \subseteq Commands
      /\ receipts' \subseteq Commands /\ \A c \in Commands : given[c] \in Nat
      /\ disk[s] # NoSession => /\ Latest(s) \in Values /\ disk[s] \in Values
                                /\ Latest(s).run = disk[s].run
                                /\ Latest(s).status = disk[s].status
      /\ disk[s] = NoSession => live[s] = NoLive
  BY FlushedSame DEF HInv, IInv, TypeOK, Consistent, Running
\* The session was created by a command, for good.
<1>2. \E new \in SUBSET Commands :
        Accepts(s, new) /\ (new # {} /\ disk[s] = NoSession => 
          \E c \in new : Type(c) = "create" /\ SessionOf(c) = s)
  BY DEF Change, Absent, Content, Made, Commanded, Told, Ends, Dropped, Quietly
<1>3. disk[s] = NoSession /\ disk'[s] # NoSession => Made(s)
  BY DEF Change, Absent, Content, Commanded, Told, Ends, Dropped
<1>4. disk'[s] # NoSession \/ (\E c \in receipts' : SessionOf(c) = s) =>
        \E c \in receipts' : Type(c) = "create" /\ SessionOf(c) = s
  <2>1. PICK new \in SUBSET Commands :
          Accepts(s, new) /\ (new # {} /\ disk[s] = NoSession =>
            \E c \in new : Type(c) = "create" /\ SessionOf(c) = s)
    BY <1>2
  <2>2. \A d \in Commands : SessionOf(d) = s => (d \in receipts' <=> d \in receipts \/ d \in new)
    BY <2>1 DEF Accepts
  <2>3. CASE \E c \in receipts : Type(c) = "create" /\ SessionOf(c) = s
    BY <1>1, <2>2, <2>3
  <2>4. CASE ~\E c \in receipts : Type(c) = "create" /\ SessionOf(c) = s
    <3>1. disk[s] = NoSession /\ \A c \in receipts : SessionOf(c) # s
      BY <1>1, <2>4 DEF Whole
    <3>2. CASE disk'[s] # NoSession
      BY <1>1, <1>3, <3>1, <3>2 DEF Made, Accepts
    <3>3. CASE \E c \in receipts' : SessionOf(c) = s
      <4>1. new # {}
        BY <1>1, <2>2, <3>1, <3>3
      <4> QED
        BY <2>1, <2>2, <3>1, <4>1
    <3> QED
      BY <3>2, <3>3
  <2> QED
    BY <2>3, <2>4
\* The texts and the deltas taken.
<1>5. ASSUME NEW c \in Commands, StartsTurn(c), SessionOf(c) = s
      PROVE  /\ c \notin receipts' => given'[c] = 0
             /\ disk'[s] # NoSession =>
                  /\ Text(Latest(s)', c) = given'[c]
                  /\ c # disk'[s].run => Text(disk'[s], c) = given'[c]
  <2>1. /\ c \notin receipts => given[c] = 0
        /\ disk[s] # NoSession => /\ Text(Latest(s), c) = given[c]
                                  /\ c # disk[s].run => Text(disk[s], c) = given[c]
    BY <1>1, <1>5 DEF Whole
  <2>2. c \in receipts => c \in receipts'
    BY <1>2, <1>5 DEF Accepts
  <2>3. SameGiven(s) => given'[c] = given[c]
    BY <1>5 DEF SameGiven
  <2>4. CASE Absent(s)
    BY <2>1, <2>2, <2>3, <2>4 DEF Absent, Quietly
  <2>5. CASE Content(s)
    <3>1. /\ Text(Latest(s)', c) = Text(Latest(s), c) /\ Latest(s)'.run = Latest(s).run
          /\ \/ Text(disk'[s], c) = Text(disk[s], c) /\ disk'[s].run = disk[s].run
             \/ Text(disk'[s], c) = Text(Latest(s), c)
      BY <2>5, SameText DEF Content
    <3> QED
      BY <2>1, <2>2, <2>3, <2>5, <3>1 DEF Content, Quietly
  <2>6. CASE Made(s)
    <3>1. PICK d \in Commands :
            /\ Type(d) = "create" /\ SessionOf(d) = s /\ d \notin receipts
            /\ disk'[s] = Created(d) /\ live'[s] = NoLive
      BY <2>6 DEF Made
    <3>2. c \notin receipts
      BY <1>1, <1>5, <3>1, NullAssumption DEF Whole
    <3>3. <<c, "answer">> \in BlockIds
      BY <1>5, AnswerId
    <3>4. Text(Created(d), c) = 0
      BY <3>3 DEF Text, Created, NoBlock
    <3>5. Latest(s)' = Created(d)
      BY <3>1 DEF Latest
    <3> QED
      BY <2>1, <2>3, <2>6, <3>1, <3>2, <3>4, <3>5 DEF Made
  <2>7. CASE Commanded(s)
    <3>1. PICK d \in Commands, v \in Values :
            /\ Type(d) # "create" /\ Same(v, Latest(s))
            /\ Same(disk'[s], After(d, v)) /\ Same(Latest(s)', After(d, v))
      BY <2>7 DEF Commanded
    <3>2. disk[s] # NoSession /\ SameGiven(s)
      BY <2>7 DEF Commanded
    <3>3. Sound(v)
      BY <1>1, <3>1, <3>2, SoundSame DEF Honest
    <3>4. Text(After(d, v), c) = Text(v, c)
      BY <1>5, <3>1, <3>3, TextAfter
    <3>5. /\ Text(v, c) = Text(Latest(s), c)
          /\ Text(disk'[s], c) = Text(After(d, v), c)
          /\ Text(Latest(s)', c) = Text(After(d, v), c)
      BY <3>1, SameText
    <3> QED
      BY <2>1, <2>2, <2>3, <3>2, <3>4, <3>5
  <2>8. CASE Told(s)
    <3> DEFINE v == Latest(s)
    <3>1. PICK e \in Events :
            /\ Same(Latest(s)', Apply(e, v))
            /\ Same(disk'[s], disk[s]) \/ Same(disk'[s], Latest(s)')
            /\ given'[c] = IF e = "delta" /\ c = v.run THEN given[c] + 1 ELSE given[c]
      BY <1>5, <2>8 DEF Told
    <3>2. disk[s] # NoSession /\ v \in Values /\ v.status = "running"
      BY <2>8 DEF Told
    <3>3. v.run \in Commands /\ StartsTurn(v.run) /\ v.run \in receipts /\ v.run = disk[s].run
      BY <1>1, <3>2 DEF Consistent, Running
    <3>4. Text(Apply(e, v), c) = IF e = "delta" /\ c = v.run THEN Text(v, c) + 1 ELSE Text(v, c)
      BY <1>5, <3>2, <3>3, TextApply
    <3>5. /\ Text(Latest(s)', c) = Text(Apply(e, v), c)
          /\ \/ Text(disk'[s], c) = Text(disk[s], c) /\ disk'[s].run = disk[s].run
             \/ Text(disk'[s], c) = Text(Latest(s)', c)
      BY <3>1, SameText
    <3> HIDE DEF v
    <3>6. Text(v, c) = given[c]
      BY <2>1, <3>2 DEF v
    <3>7. c # v.run => given'[c] = given[c]
      BY <3>1
    <3>8. Text(Latest(s)', c) = given'[c]
      BY <3>1, <3>4, <3>5, <3>6
    <3> QED
      BY <2>1, <2>2, <3>2, <3>3, <3>5, <3>7, <3>8
  <2>9. CASE Ends(s)
    <3>1. PICK v \in Values, st \in {"idle", "interrupted"}, clean \in BOOLEAN :
            Same(v, Latest(s)) /\ Same(disk'[s], Settled(v, st, clean))
      BY <2>9 DEF Ends
    <3>2. disk[s] # NoSession /\ Latest(s)' = disk'[s] /\ SameGiven(s)
      BY <2>9 DEF Ends, Latest, Quietly
    <3>3. Sound(v)
      BY <1>1, <3>1, <3>2, SoundSame DEF Honest
    <3>4. Text(Settled(v, st, clean), c) = Text(v, c)
      BY <1>5, <3>3, TextSettled
    <3>5. Text(v, c) = Text(Latest(s), c) /\ Text(disk'[s], c) = Text(Settled(v, st, clean), c)
      BY <3>1, SameText
    <3> QED
      BY <2>1, <2>2, <2>3, <3>2, <3>4, <3>5
  <2>10. CASE Dropped(s)
    <3>1. /\ disk[s] # NoSession /\ disk'[s] = disk[s] /\ Latest(s)' = disk[s]
          /\ given'[c] = IF live[s] # NoLive /\ Latest(s).run = c THEN Text(disk[s], c)
                         ELSE given[c]
      BY <1>5, <2>10 DEF Dropped, Latest, Text
    <3>2. live[s] = NoLive => Latest(s) = disk[s]
      BY DEF Latest
    <3>3. Text(disk[s], c) = given'[c]
      BY <1>1, <2>1, <3>1, <3>2
    <3>4. c \notin receipts => c # disk[s].run \/ live[s] = NoLive
      BY <1>1, <3>1 DEF Consistent, Running
    <3>5. c \notin receipts' => given'[c] = 0
      BY <1>1, <2>1, <2>2, <3>1, <3>4
    <3> QED
      BY <3>1, <3>3, <3>5
  <2> QED
    BY <2>4, <2>5, <2>6, <2>7, <2>8, <2>9, <2>10 DEF Change
<1> QED
  BY <1>4, <1>5 DEF Whole

LEMMA StepHInv ==
  ASSUME HInv, [Next]_vars
  PROVE  HInv'
<1>1. IInv'
  BY StepIInv DEF HInv
<1>2. \A s \in Sessions : Change(s)
  BY StepChange DEF HInv
<1>3. \A s \in Sessions : Honest(s)' /\ Whole(s)'
  BY <1>1, <1>2, HonestKept, WholeKept
<1> QED
  BY <1>1, <1>3 DEF HInv

\* What every transcript holds, in every reachable state.
THEOREM TranscriptsHold == Spec => []HInv
<1>1. Init => HInv
  <2> SUFFICES ASSUME Init
               PROVE  HInv
    OBVIOUS
  <2>1. IInv
    BY InitIInv
  <2>2. \A s \in Sessions : Honest(s) /\ Whole(s)
    BY DEF Init, Honest, Whole
  <2> QED
    BY <2>1, <2>2 DEF HInv
<1>2. HInv /\ [Next]_vars => HInv'
  BY StepHInv
<1> QED
  BY <1>1, <1>2, PTL DEF Spec

\* Nothing of a turn that is over streams, waits or is being built (settled).
THEOREM OverIsQuiet == Spec => []QuietWhenOver
<1>1. HInv => QuietWhenOver
  BY DEF HInv, Honest, Sound, QuietWhenOver
<1> QED
  BY <1>1, TranscriptsHold, PTL

\* The decision on the latest turn's request that the store shows is the one
\* the provider was told, once (command, applyHarnessEvent).
THEOREM DecisionShown == Spec => []DecisionTold
<1>1. HInv => DecisionTold
  <2> SUFFICES ASSUME HInv, NEW c \in receipts, Type(c) = "approve",
                      disk[SessionOf(c)] # NoSession, disk[SessionOf(c)].run = Payload[c].run
               PROVE  /\ effects[c] = 1
                      /\ disk[SessionOf(c)].blocks[<<disk[SessionOf(c)].run, "tool">>] =
                           Marked(Payload[c].decision)
    BY DEF DecisionTold
  <2>1. SessionOf(c) \in Sessions
    BY PayloadFields DEF HInv, IInv, TypeOK
  <2>2. Honest(SessionOf(c))
    BY <2>1 DEF HInv
  <2> QED
    BY <2>2 DEF Honest, Decided
<1> QED
  BY <1>1, TranscriptsHold, PTL

\* Every delta taken of a turn is stored when the turn is over (flush,
\* retrySettlement).
THEOREM NoOutputLost == Spec => []OutputKept
<1>1. HInv => OutputKept
  <2> SUFFICES ASSUME HInv, NEW c \in Commands, StartsTurn(c),
                      disk[SessionOf(c)] # NoSession, live[SessionOf(c)] = NoLive
               PROVE  disk[SessionOf(c)].blocks[<<c, "answer">>].text = given[c]
    BY DEF OutputKept
  <2>1. SessionOf(c) \in Sessions
    BY PayloadFields
  <2>2. Whole(SessionOf(c)) /\ Latest(SessionOf(c)) = disk[SessionOf(c)]
    BY <2>1 DEF HInv, Latest
  <2> QED
    BY <2>2 DEF Whole, Text
<1> QED
  BY <1>1, TranscriptsHold, PTL
=============================================================================
