----------------------------- MODULE SessionStore -----------------------------
(***************************************************************************)
(* A session as the agent host stores it (src/host/store.ts), and what     *)
(* commands, provider events and the end of a turn make of it              *)
(* (src/host/engine.ts, harness/apply.ts).                                 *)
(*                                                                         *)
(* Abstractions.  A transcript is a function from block ids to blocks,     *)
(* NoBlock where there is none: the order of the blocks is the host's and  *)
(* travels whole with every sync.  A block id is a command and the part    *)
(* the block plays in that command's turn; the id drawn for a turn is the  *)
(* command that started it.  Of a text only the number of deltas is kept.  *)
(* A turn asks at most once for an approval, and its request carries the   *)
(* number 1: Codex and OpenCode count the requests of each turn anew.      *)
(***************************************************************************)
EXTENDS Naturals

CONSTANTS
  Commands,   \* command ids
  Sessions,   \* session ids
  NoRun,      \* no command: no turn, no draft, no plan
  NoView,     \* a client that knows nothing of a session yet
  Payload     \* what each command id was issued with

Types == {"create", "configure", "draft", "removeDraft", "send", "compact",
          "cancel", "approve", "answer"}
Payloads ==
  [type : Types, session : Sessions, decision : {"none", "allow", "deny"},
   run : Commands \cup {NoRun}, draft : Commands \cup {NoRun},
   plan : Commands \cup {NoRun}]

ASSUME PayloadAssumption ==
  /\ NoRun \notin Commands
  /\ Payload \in [Commands -> Payloads]

Type(c) == Payload[c].type
SessionOf(c) == Payload[c].session
StartsTurn(c) == Type(c) \in {"send", "compact"}

\* A user message or draft, and of a turn the answer, the tool call that
\* asks for an approval, the plan, and the note on how the turn ended.
BlockIds ==
  {i \in Commands \X {"user", "answer", "tool", "plan", "note"} :
     StartsTurn(i[1]) \/ (Type(i[1]) = "draft" /\ i[2] = "user")}

Marks == {"none", "draft", "timed", "streaming", "asked", "allow", "deny",
          "cancelled", "ready", "building", "built"}
NoBlock == [text |-> 0, mark |-> "absent"]
Blocks == [text : Nat, mark : Marks] \cup {NoBlock}
Marked(m) == [text |-> 0, mark |-> m]

Values ==
  [rev : Nat, status : {"idle", "running", "interrupted"},
   run : Commands \cup {NoRun}, title : {"new", "prompt", "generated", "renamed"},
   settings : Commands \cup {NoRun}, question : BOOLEAN,
   blocks : [BlockIds -> Blocks], stamps : [BlockIds -> Nat]]

Present(v) == {i \in BlockIds : v.blocks[i] # NoBlock}
WaitingDecided(v) == {i \in Present(v) : i[2] = "tool"}
Waiting(v) == {i \in BlockIds : v.blocks[i].mark = "asked"}
Drafts(v)  == {i \in BlockIds : v.blocks[i].mark = "draft"}

-----------------------------------------------------------------------------
(* store.ts *)

BlockRevisionsBehind(previous, next, rev) ==
  [i \in BlockIds |->
     IF next.blocks[i] = NoBlock THEN 0
     ELSE IF next.blocks[i] = previous.blocks[i] THEN previous.stamps[i]
     ELSE rev - 1]
\* blockRevisions: an unchanged block keeps its stamp.
BlockRevisions(previous, next, rev) ==
  [i \in BlockIds |->
     IF next.blocks[i] = NoBlock THEN 0
     ELSE IF next.blocks[i] = previous.blocks[i] THEN previous.stamps[i]
     ELSE rev]

\* save: the next revision of a value derived from the stored one.
Written(previous, next) ==
  [next EXCEPT !.rev = previous.rev + 1,
               !.stamps = BlockRevisions(previous, next, previous.rev + 1)]

-----------------------------------------------------------------------------
(* Commands (engine.ts) and events (apply.ts) *)

Created(c) ==
  [rev |-> 1, status |-> "idle", run |-> NoRun, title |-> "new", settings |-> c,
   question |-> FALSE, blocks |-> [i \in BlockIds |-> NoBlock],
   stamps |-> [i \in BlockIds |-> 0]]

\* The guards of command(), the branch switch aside.
InTurn(c, v) == v.run = Payload[c].run /\ v.status = "running"
DraftFound(c, v) == <<Payload[c].draft, "user">> \in Drafts(v)
PlanReady(c, v) ==
  /\ <<Payload[c].plan, "plan">> \in Present(v)
  /\ v.blocks[<<Payload[c].plan, "plan">>].mark = "ready"
Acceptable(c, v) ==
  CASE Type(c) = "configure" -> v.status # "running"
    [] Type(c) = "draft" -> v.status # "running" /\ Drafts(v) = {}
    [] Type(c) = "removeDraft" -> DraftFound(c, v)
    [] Type(c) = "send" -> /\ v.status # "running"
                           /\ Payload[c].draft # NoRun => DraftFound(c, v)
                           /\ Payload[c].plan # NoRun => PlanReady(c, v)
    [] Type(c) = "compact" -> v.status # "running"
    [] Type(c) = "cancel" -> InTurn(c, v)
    [] Type(c) = "approve" -> InTurn(c, v) /\ Waiting(v) # {}
    [] Type(c) = "answer" -> InTurn(c, v) /\ v.question
    [] OTHER -> FALSE

\* applyHarnessEvent of approval.resolved: every request with this number.
Resolved(v, decision) ==
  [v EXCEPT !.blocks = [i \in BlockIds |->
     IF i[2] = "tool" /\ @[i] # NoBlock THEN Marked(decision) ELSE @[i]]]

FirstTurn(v) == Present(v) = Drafts(v)

\* A turn starts: the drafts leave, its plan is being built, its message comes.
Started(c, v) ==
  [v EXCEPT !.status = "running", !.run = c, !.question = FALSE,
     !.title = IF Type(c) = "send" /\ FirstTurn(v) /\ @ = "new" THEN "prompt" ELSE @,
     !.blocks = [i \in BlockIds |->
        IF i = <<c, "user">> THEN Marked("none")
        ELSE IF @[i].mark = "draft" THEN NoBlock
        ELSE IF i = <<Payload[c].plan, "plan">> THEN Marked("building")
        ELSE @[i]]]

\* What an accepted command makes of the value.
After(c, v) ==
  CASE Type(c) = "configure" -> [v EXCEPT !.settings = c]
    [] Type(c) = "draft" ->
         [v EXCEPT !.title = IF Present(v) = {} THEN "prompt" ELSE @,
                   !.blocks[<<c, "user">>] = Marked("draft")]
    [] Type(c) = "removeDraft" ->
         [v EXCEPT !.blocks[<<Payload[c].draft, "user">>] = NoBlock]
    [] StartsTurn(c) -> Started(c, v)
    [] Type(c) = "approve" -> Resolved(v, Payload[c].decision)
    [] Type(c) = "answer" -> [v EXCEPT !.question = FALSE]
    [] OTHER -> v

\* Events of a turn; all but the first are written at once (BATCHED).
Events == {"delta", "ask", "withdraw", "question", "plan"}
Possible(e, v) ==
  CASE e = "ask" -> v.blocks[<<v.run, "tool">>] = NoBlock
    [] e = "withdraw" -> v.blocks[<<v.run, "tool">>].mark = "asked"
    [] e = "question" -> ~v.question
    [] e = "plan" -> v.blocks[<<v.run, "plan">>] = NoBlock
    [] OTHER -> TRUE
Apply(e, v) ==
  CASE e = "delta" ->
         [v EXCEPT !.blocks[<<v.run, "answer">>] =
                     [text |-> @.text + 1, mark |-> "streaming"]]
    [] e = "ask" -> [v EXCEPT !.blocks[<<v.run, "tool">>] = Marked("asked")]
    [] e = "withdraw" -> Resolved(v, "cancelled")
    [] e = "question" -> [v EXCEPT !.question = TRUE]
    [] e = "plan" -> [v EXCEPT !.blocks[<<v.run, "plan">>] = Marked("ready")]

EndedAsking(block, clean) ==
  CASE block.mark = "streaming" -> [block EXCEPT !.mark = "none"]
    [] block.mark = "building" -> Marked(IF clean THEN "built" ELSE "ready")
    [] OTHER -> block
EndedUnmarked(block, clean) == [block EXCEPT !.mark = "over"]
\* settled: nothing streams or waits any more; a plan counts as built only
\* when its turn ended by itself, which is also when there is no note.
Ended(block, clean) ==
  CASE block.mark = "streaming" -> [block EXCEPT !.mark = "none"]
    [] block.mark = "asked" -> Marked("cancelled")
    [] block.mark = "building" -> Marked(IF clean THEN "built" ELSE "ready")
    [] OTHER -> block
Settled(v, status, clean) ==
  [v EXCEPT !.status = status, !.question = FALSE,
     !.blocks = [i \in BlockIds |->
        IF i = <<v.run, "user">> THEN Marked("timed")
        ELSE IF i = <<v.run, "note">> /\ ~clean THEN Marked("none")
        ELSE Ended(@[i], clean)]]

-----------------------------------------------------------------------------
(* Sync: what the host answers a client that knows a revision, and what the  *)
(* client makes of it (protocol.ts).                                         *)

\* A client never sees the stamps.
Seen(v) == [v EXCEPT !.stamps = [i \in BlockIds |-> 0]]

Sync(v, known) ==
  IF known # NoView /\ known.rev = v.rev THEN [kind |-> "unchanged", base |-> v.rev]
  ELSE IF known = NoView \/ known.rev > v.rev THEN [kind |-> "snapshot", value |-> Seen(v)]
  ELSE [kind |-> "delta", base |-> known.rev,
        value |-> [Seen(v) EXCEPT !.blocks = [i \in BlockIds |-> 
           IF v.stamps[i] > known.rev THEN @[i] ELSE NoBlock]],
        ids |-> Present(v)]

Fits(known, sync) ==
  \/ sync.kind = "snapshot"
  \/ /\ known # NoView /\ known.rev = sync.base
     /\ sync.kind = "delta" =>
          sync.ids \subseteq Present(known) \cup Present(sync.value)
ApplySync(known, sync) ==
  CASE sync.kind = "snapshot" -> sync.value
    [] sync.kind = "unchanged" -> known
    [] sync.kind = "delta" ->
         [sync.value EXCEPT !.blocks = [i \in BlockIds |->
            IF i \notin sync.ids THEN NoBlock
            ELSE IF @[i] # NoBlock THEN @[i] ELSE known.blocks[i]]]
=============================================================================
