------------------------------ MODULE HostEngine ------------------------------
(***************************************************************************)
(* The agent host (src/host): HostEngine over HostStore.  Commands from    *)
(* any desktop, one provider turn per session with its streamed events,    *)
(* batched writes, storage that fails, titles generated on the side,       *)
(* branch switches, shutdown, crash and restart.                           *)
(*                                                                         *)
(* Abstractions.  One project.  A step is one synchronous stretch of the   *)
(* event loop, between two awaits.  A transaction fails as a whole; at     *)
(* most MaxFaults of them do, rejections of provider.stop among them.      *)
(* Events of a turn are bounded by MaxEvents.  The provider is external:   *)
(* it emits events while its process lives, ends its turn when it likes,   *)
(* and stop() ends it; the guard process kills it with the host.  Branch   *)
(* names for worktrees, attachments and settings other than their author   *)
(* are left out.                                                           *)
(***************************************************************************)
EXTENDS SessionStore

CONSTANTS
  NoSession,    \* not in the store
  NoTurn, NoLive,
  Emits,        \* which events a turn's provider emits
  GeneratesTitles,  \* can it name a conversation?
  HasBranches,  \* is the project a Git checkout?
  MaxFaults, MaxCrashes, MaxEvents

ASSUME BoundsAssumption ==
  /\ Emits \subseteq Commands \X Events
  /\ GeneratesTitles \in BOOLEAN /\ HasBranches \in BOOLEAN
  /\ MaxFaults \in Nat /\ MaxCrashes \in Nat /\ MaxEvents \in Nat

VARIABLES
  disk,       \* the sessions table: the stored value of each session
  receipts,   \* the receipts table: the commands in it
  up,         \* is the process "up", "closing" or "down"?
  running,    \* HostEngine.running and how far each turn has come
  live,       \* HostEngine.live: running sessions with events not yet stored
  naming,     \* sessions whose title is being generated
  switching,  \* is the project in switchingProjects?
  process,    \* sessions whose provider process lives
  effects,    \* history: how often each command reached a provider
  given,      \* history: the deltas of each turn taken into live
  faults, crashes   \* what is left of the bounds

stored == <<disk, receipts>>
turns == <<running, live, process>>
budget == <<faults, crashes>>
vars == <<disk, receipts, up, running, live, naming, switching, process, effects,
          given, faults, crashes>>

\* queued: provider.send is not called yet; sending: it has not returned;
\* stopping: awaiting provider.stop; waiting: the retry timer runs; retrying:
\* awaiting provider.stop again; lost: left to the next start.
Phases == {"queued", "sending", "stopping", "waiting", "retrying", "lost"}
Turn == [id : Commands, phase : Phases, cancelled : BOOLEAN, failed : BOOLEAN,
         error : BOOLEAN]
Live == [value : Values, dirty : BOOLEAN, timer : {"none", "armed", "cleared"}]

\* A session's id is drawn as it is created: no two commands create the same.
ASSUME NullAssumption ==
  /\ NoSession \notin Values /\ NoTurn \notin Turn /\ NoLive \notin Live
  /\ \A c, d \in Commands :
       Type(c) = "create" /\ Type(d) = "create" /\ SessionOf(c) = SessionOf(d) => c = d

Running(s) == disk[s] # NoSession /\ disk[s].status = "running"
Dirty(s) == live[s] # NoLive /\ live[s].dirty

TypeOK ==
  /\ disk \in [Sessions -> Values \cup {NoSession}]
  /\ receipts \in SUBSET Commands
  /\ up \in {"up", "closing", "down"}
  /\ running \in [Sessions -> Turn \cup {NoTurn}]
  /\ live \in [Sessions -> Live \cup {NoLive}]
  /\ naming \in SUBSET Sessions /\ switching \in BOOLEAN
  /\ process \in SUBSET Sessions
  /\ effects \in [Commands -> Nat] /\ given \in [Commands -> Nat]
  /\ faults \in 0..MaxFaults /\ crashes \in 0..MaxCrashes

Init ==
  /\ disk = [s \in Sessions |-> NoSession]
  /\ receipts = {}
  /\ up = "up"
  /\ running = [s \in Sessions |-> NoTurn]
  /\ live = [s \in Sessions |-> NoLive]
  /\ naming = {} /\ switching = FALSE /\ process = {}
  /\ effects = [c \in Commands |-> 0] /\ given = [c \in Commands |-> 0]
  /\ faults = MaxFaults /\ crashes = MaxCrashes

Fault == faults > 0 /\ faults' = faults - 1 /\ UNCHANGED crashes

-----------------------------------------------------------------------------
(* Storing *)

\* flush, when it succeeds: the events not yet stored become the next revision.
Flushed(s) == IF Dirty(s) THEN Written(disk[s], live[s].value) ELSE disk[s]
Kept(s, v) == IF live[s] = NoLive THEN NoLive
              ELSE [value |-> v, dirty |-> FALSE, timer |-> "none"]
Store(s, v) == disk' = [disk EXCEPT ![s] = v]
KeepStale(s, v) ==
  live' = IF live[s] = NoLive THEN live ELSE [live EXCEPT ![s].dirty = FALSE]
Keep(s, v) == live' = [live EXCEPT ![s] = Kept(s, v)]

FlushThrowsClean(s) ==
  /\ Dirty(s) /\ Fault
  /\ live' = [live EXCEPT ![s].timer = "none", ![s].dirty = FALSE]
  /\ UNCHANGED disk
\* flush throws: the events stay, the timer is gone.
FlushThrows(s) ==
  /\ Dirty(s) /\ Fault
  /\ live' = [live EXCEPT ![s].timer = "none"]
  /\ UNCHANGED disk

-----------------------------------------------------------------------------
(* command() *)

\* A command is refused, or its transaction fails, after the flush.
Refuse(c) ==
  LET s == SessionOf(c) IN
  /\ up = "up" /\ c \notin receipts
  /\ \/ Type(c) # "create" /\ FlushThrows(s)
     \/ /\ Type(c) # "create" /\ disk[s] # NoSession
        /\ Store(s, Flushed(s)) /\ Keep(s, Flushed(s))
        /\ \/ Fault
           \/ UNCHANGED budget /\ ~Acceptable(c, Flushed(s))
           \/ UNCHANGED budget /\ StartsTurn(c) /\ switching
     \/ Type(c) = "create" /\ Fault /\ UNCHANGED <<disk, live>>
  /\ UNCHANGED <<receipts, up, running, naming, switching, process, effects, given>>

\* A command is turned away before anything happens.
TurnAway(c) ==
  /\ up = "up" /\ c \notin receipts
  /\ IF Type(c) = "create" THEN switching ELSE disk[SessionOf(c)] = NoSession
  /\ UNCHANGED vars

Create(c) ==
  LET s == SessionOf(c) IN
  /\ up = "up" /\ c \notin receipts /\ Type(c) = "create"
  /\ ~switching /\ disk[s] = NoSession
  /\ Store(s, Created(c)) /\ receipts' = receipts \cup {c}
  /\ UNCHANGED <<up, running, live, naming, switching, process, effects, given, budget>>

\* What a command does to the turn once it is stored: run() for a new turn,
\* a word to the provider for the others.
Effect(c, v) ==
  LET s == SessionOf(c) IN
  IF StartsTurn(c)
  THEN /\ running' = [running EXCEPT ![s] =
            [id |-> c, phase |-> "queued", cancelled |-> FALSE, failed |-> FALSE,
             error |-> FALSE]]
       /\ live' = [live EXCEPT ![s] = [value |-> v, dirty |-> FALSE, timer |-> "none"]]
       /\ naming' = IF /\ GeneratesTitles /\ Type(c) = "send"
                       /\ FirstTurn(disk[s]) /\ disk[s].title = "new"
                    THEN naming \cup {s} ELSE naming
       /\ UNCHANGED effects
  ELSE /\ running' = IF Type(c) = "cancel" /\ running[s] # NoTurn
                     THEN [running EXCEPT ![s].cancelled = TRUE] ELSE running
       /\ Keep(s, v)
       /\ effects' = IF Type(c) \in {"cancel", "approve", "answer"}
                     THEN [effects EXCEPT ![c] = @ + 1] ELSE effects
       /\ UNCHANGED naming

Accept(c) ==
  LET s == SessionOf(c)
      v == Written(Flushed(s), After(c, Flushed(s))) IN
  /\ up = "up" /\ c \notin receipts /\ Type(c) # "create"
  /\ disk[s] # NoSession /\ Acceptable(c, Flushed(s))
  /\ StartsTurn(c) => ~switching
  /\ Store(s, v) /\ receipts' = receipts \cup {c}
  /\ Effect(c, v)
  /\ UNCHANGED <<up, switching, process, given, budget>>

-----------------------------------------------------------------------------
(* run() *)

\* Nothing is sent when the turn was cancelled, or the host is closing, first.
CallProvider(s) ==
  /\ up # "down" /\ running[s] # NoTurn /\ running[s].phase = "queued"
  /\ IF up = "closing" \/ running[s].cancelled
     THEN running' = [running EXCEPT ![s].phase = "stopping"]
          /\ UNCHANGED <<process, effects>>
     ELSE /\ running' = [running EXCEPT ![s].phase = "sending"]
          /\ process' = process \cup {s}
          /\ effects' = [effects EXCEPT ![running[s].id] = @ + 1]
  /\ UNCHANGED <<disk, receipts, up, live, naming, switching, given, budget>>

SendReturnsAnew(s) ==
  /\ up # "down" /\ running[s] # NoTurn /\ running[s].phase = "sending"
  /\ \E failed \in BOOLEAN :
       running' = [running EXCEPT ![s].phase = IF failed THEN "queued" ELSE "stopping"]
  /\ UNCHANGED <<stored, up, live, naming, switching, process, effects, given, budget>>
\* provider.send resolves, or rejects.
SendReturns(s) ==
  /\ up # "down" /\ running[s] # NoTurn /\ running[s].phase = "sending"
  /\ \E failed \in BOOLEAN :
       running' = [running EXCEPT ![s].phase = "stopping", ![s].error = failed]
  /\ UNCHANGED <<stored, up, live, naming, switching, process, effects, given, budget>>

PostponedNever(s) == [running EXCEPT ![s].phase = "lost"]
\* retrySettlement arms its timer unless the host is closing.
Postponed(s) == [running EXCEPT ![s].phase = IF up = "closing" THEN "lost" ELSE "waiting"]
TimerCleared(s) == IF live[s] = NoLive THEN live ELSE
  [live EXCEPT ![s].timer = IF @ = "armed" THEN "cleared" ELSE @]

\* The turn cannot be settled: provider.stop rejects, the flush throws, or the
\* settled value cannot be stored.
SettleFails(s, phase) ==
  /\ up # "down" /\ running[s] # NoTurn /\ running[s].phase = phase
  /\ Fault
  /\ \/ /\ UNCHANGED <<disk, process>>
        /\ live' = IF phase = "stopping" THEN TimerCleared(s) ELSE live
     \/ /\ process' = process \ {s} /\ Dirty(s) /\ UNCHANGED disk
        /\ live' = [live EXCEPT ![s].timer = "none"]
     \/ /\ process' = process \ {s} /\ Store(s, Flushed(s))
        /\ IF phase = "stopping" THEN live' = [live EXCEPT ![s] = NoLive]
                                 ELSE Keep(s, Flushed(s))
  /\ running' = Postponed(s)
  /\ UNCHANGED <<receipts, up, naming, switching, effects, given>>

SettleUnstopped(s, status, clean) ==
  LET v == Flushed(s) IN
  /\ Store(s, IF v.run = running[s].id /\ v.status = "running"
              THEN Written(v, Settled(v, status, clean)) ELSE v)
  /\ live' = [live EXCEPT ![s] = NoLive]
  /\ running' = [running EXCEPT ![s] = NoTurn]
  /\ UNCHANGED <<receipts, up, naming, switching, process, effects, given, budget>>
Settle(s, status, clean) ==
  LET v == Flushed(s) IN
  /\ process' = process \ {s}
  /\ Store(s, IF v.run = running[s].id /\ v.status = "running"
              THEN Written(v, Settled(v, status, clean)) ELSE v)
  /\ live' = [live EXCEPT ![s] = NoLive]
  /\ running' = [running EXCEPT ![s] = NoTurn]
  /\ UNCHANGED <<receipts, up, naming, switching, effects, given, budget>>

Finish(s) ==
  /\ up # "down" /\ running[s] # NoTurn /\ running[s].phase = "stopping"
  /\ Settle(s, IF up = "closing" \/ running[s].failed THEN "interrupted" ELSE "idle",
            /\ up = "up" /\ ~running[s].failed /\ ~running[s].cancelled
            /\ ~running[s].error)

RetryFires(s) ==
  /\ up = "up" /\ running[s] # NoTurn /\ running[s].phase = "waiting"
  /\ running' = [running EXCEPT ![s].phase = "retrying"]
  /\ UNCHANGED <<stored, up, live, naming, switching, process, effects, given, budget>>

FinishRetry(s) ==
  /\ up # "down" /\ running[s] # NoTurn /\ running[s].phase = "retrying"
  /\ Settle(s, "interrupted", FALSE)

-----------------------------------------------------------------------------
(* event() and the batch timer *)

\* scheduledFlush: on a failure the turn is marked and its provider stopped.
ScheduledFlush(s, l) ==
  \/ /\ disk' = [disk EXCEPT ![s] = Written(@, l.value)]
     /\ live' = [live EXCEPT ![s] = [value |-> Written(disk[s], l.value),
                                     dirty |-> FALSE, timer |-> "none"]]
     /\ UNCHANGED <<running, budget>>
  \/ /\ Fault
     /\ live' = [live EXCEPT ![s] = [l EXCEPT !.timer = "none"]]
     /\ running' = IF running[s] = NoTurn THEN running
                   ELSE [running EXCEPT ![s].failed = TRUE]
     /\ UNCHANGED disk

\* An event of turn r, which may be over by now.
Event(s, r, e) ==
  /\ up # "down" /\ effects[r] > 0 /\ StartsTurn(r) /\ SessionOf(r) = s
  /\ live[s] # NoLive /\ live[s].value.run = r /\ live[s].value.status = "running"
  /\ s \in process
  /\ Possible(e, live[s].value)
  /\ LET l == [live[s] EXCEPT !.value = Apply(e, @), !.dirty = TRUE] IN
     IF e = "delta"
     THEN /\ given[r] < MaxEvents /\ given' = [given EXCEPT ![r] = @ + 1]
          /\ live' = [live EXCEPT ![s] =
                        [l EXCEPT !.timer = IF @ = "none" THEN "armed" ELSE @]]
          /\ UNCHANGED <<disk, running, budget>>
     ELSE ScheduledFlush(s, l) /\ UNCHANGED given
  /\ UNCHANGED <<receipts, up, naming, switching, process, effects>>

FlushTimer(s) ==
  /\ up # "down" /\ live[s] # NoLive /\ live[s].timer = "armed"
  /\ IF live[s].dirty THEN ScheduledFlush(s, live[s])
     ELSE Keep(s, live[s].value) /\ UNCHANGED <<disk, running, budget>>
  /\ UNCHANGED <<receipts, up, naming, switching, process, effects, given>>

-----------------------------------------------------------------------------
(* Requests that carry no command id, titles and branch switches *)

\* updateSession, here of the title.
Rename(s) ==
  LET v == Written(Flushed(s), [Flushed(s) EXCEPT !.title = "renamed"]) IN
  /\ up = "up" /\ disk[s] # NoSession /\ disk[s].title # "renamed"
  /\ \/ FlushThrows(s)
     \/ Store(s, v) /\ Keep(s, v) /\ UNCHANGED budget
     \/ Store(s, Flushed(s)) /\ Keep(s, Flushed(s)) /\ Fault
  /\ UNCHANGED <<receipts, up, running, naming, switching, process, effects, given>>

\* sessions.delete; the receipts of its commands stay.
Delete(s) ==
  /\ up = "up" /\ disk[s] # NoSession /\ ~Running(s)
  /\ Store(s, NoSession)
  /\ UNCHANGED <<receipts, up, turns, naming, switching, effects, given, budget>>

\* generateTitle resolves: the title is taken unless it changed meanwhile.
TitleArrives(s) ==
  LET v == IF Flushed(s).title = "prompt"
           THEN Written(Flushed(s), [Flushed(s) EXCEPT !.title = "generated"])
           ELSE Flushed(s) IN
  /\ up # "down" /\ s \in naming /\ disk[s] # NoSession
  /\ naming' = naming \ {s}
  /\ \/ FlushThrows(s)
     \/ Store(s, v) /\ Keep(s, v) /\ UNCHANGED budget
     \/ /\ v # Flushed(s) /\ Fault
        /\ Store(s, Flushed(s)) /\ Keep(s, Flushed(s))
  /\ UNCHANGED <<receipts, up, running, switching, process, effects, given>>

\* No title came, or its session is gone.
NoTitle(s) ==
  /\ up # "down" /\ s \in naming
  /\ naming' = naming \ {s}
  /\ UNCHANGED <<stored, up, turns, switching, effects, given, budget>>

BeginSwitchBusy ==
  /\ up = "up" /\ HasBranches /\ ~switching
  /\ switching' = TRUE
  /\ UNCHANGED <<stored, up, turns, naming, effects, given, budget>>
BeginSwitch ==
  /\ up = "up" /\ HasBranches /\ ~switching /\ \A s \in Sessions : ~Running(s)
  /\ switching' = TRUE
  /\ UNCHANGED <<stored, up, turns, naming, effects, given, budget>>

EndSwitch ==
  /\ up # "down" /\ switching
  /\ switching' = FALSE
  /\ UNCHANGED <<stored, up, turns, naming, effects, given, budget>>

-----------------------------------------------------------------------------
(* The end of the process, and the next one *)

\* close(): no retry is started any more, and every provider is told to stop.
BeginClose ==
  /\ up = "up" /\ up' = "closing"
  /\ running' = [s \in Sessions |->
       IF running[s] # NoTurn /\ running[s].phase = "waiting"
       THEN [running[s] EXCEPT !.phase = "lost"] ELSE running[s]]
  /\ UNCHANGED <<stored, live, naming, switching, process, effects, given, budget>>

OverSettled(s) == running[s] = NoTurn
Over(s) == running[s] # NoTurn => running[s].phase \in {"lost", "retrying"}

\* The process is gone, and with it what only its memory held.
Gone ==
  /\ up' = "down"
  /\ running' = [s \in Sessions |-> NoTurn]
  /\ live' = [s \in Sessions |-> NoLive]
  /\ naming' = {} /\ switching' = FALSE /\ process' = {}
  /\ given' = [c \in Commands |->
       IF StartsTurn(c) /\ live[SessionOf(c)] # NoLive /\ live[SessionOf(c)].value.run = c
       THEN disk[SessionOf(c)].blocks[<<c, "answer">>].text ELSE given[c]]
  /\ UNCHANGED <<disk, receipts, effects>>

\* close() has seen every turn of its own off; the process ends.
Exit == up = "closing" /\ (\A s \in Sessions : Over(s)) /\ Gone /\ UNCHANGED budget

Crash ==
  /\ up # "down" /\ crashes > 0
  /\ crashes' = crashes - 1 /\ UNCHANGED faults
  /\ Gone

\* The constructor settles one stored session after the other; a failed write
\* ends the new process.
Start ==
  /\ up = "down"
  /\ \E done \in SUBSET {s \in Sessions : Running(s)} :
       /\ disk' = [s \in Sessions |->
            IF s \in done THEN Written(disk[s], Settled(disk[s], "interrupted", FALSE))
            ELSE disk[s]]
       /\ \/ /\ done = {s \in Sessions : Running(s)}
             /\ up' = "up" /\ UNCHANGED budget
          \/ /\ done # {s \in Sessions : Running(s)} /\ Fault
             /\ UNCHANGED up
  /\ UNCHANGED <<receipts, running, live, naming, switching, process, effects, given>>

-----------------------------------------------------------------------------

Request == \E c \in Commands : Refuse(c) \/ Create(c) \/ Accept(c)
TurnStep(s) ==
  \/ CallProvider(s) \/ SendReturns(s) \/ Finish(s) \/ RetryFires(s) \/ FinishRetry(s)
  \/ \E p \in {"stopping", "retrying"} : SettleFails(s, p)
  \/ \E x \in Emits : Event(s, x[1], x[2])
  \/ FlushTimer(s)
Side(s) == Rename(s) \/ Delete(s) \/ TitleArrives(s) \/ NoTitle(s)

Next ==
  \/ Request
  \/ \E s \in Sessions : TurnStep(s) \/ Side(s)
  \/ BeginSwitch \/ EndSwitch
  \/ BeginClose \/ Exit \/ Crash \/ Start

Spec == Init /\ [][Next]_vars

\* The event loop runs what is due, and a stopped provider ends its turn (its
\* process is killed after a timeout).  Nothing makes a provider end a turn by
\* itself, not even a cancel.
Stopped(s) == up = "closing" \/ (running[s] # NoTurn /\ running[s].failed)
Proceed(s) == \/ CallProvider(s) \/ Finish(s) \/ RetryFires(s) \/ FinishRetry(s)
              \/ Stopped(s) /\ SendReturns(s)
FairSpec ==
  /\ Spec /\ \A s \in Sessions : WF_vars(Proceed(s))
  /\ WF_vars(Exit) /\ WF_vars(Start)

-----------------------------------------------------------------------------
(* Properties *)

\* The turns that are open as far as the store knows.
OpenTurns == {c \in receipts : /\ StartsTurn(c) /\ Running(SessionOf(c))
                               /\ disk[SessionOf(c)].run = c}
Ledger == INSTANCE CommandLedger WITH
  Turns <- {c \in Commands : StartsTurn(c)}, accepted <- receipts, open <- OpenTurns

\* Commands take effect at most once and turns open one at a time, across
\* crashes, failed writes and repeated requests (engine.ts command, run and
\* the constructor).
LedgerSpec == Ledger!Spec

\* Every delta the host took of a turn is in the store once the turn is no
\* longer running, whatever writes failed meanwhile: only a crash loses output,
\* and then only what the batch timer still held back (flush, retrySettlement).
OutputKept ==
  \A c \in Commands : StartsTurn(c) /\ disk[SessionOf(c)] # NoSession /\ live[SessionOf(c)] = NoLive =>
    disk[SessionOf(c)].blocks[<<c, "answer">>].text = given[c]

\* The copy a running turn streams into is never behind the store: an update
\* by a command, a rename or a title is not undone by the next batch (live).
LiveIsCurrent ==
  \A s \in Sessions : live[s] # NoLive =>
    /\ Running(s) /\ disk[s].rev = live[s].value.rev
    /\ ~live[s].dirty => live[s].value = disk[s]
    /\ live[s].value.title = disk[s].title

\* A turn is handed to the provider only after the process of the turn before
\* has stopped (run: "Otherwise a follow-up can race cleanup").
StoppedBeforeNext ==
  \A s \in Sessions : running[s] # NoTurn /\ running[s].phase = "queued" => s \notin process

\* While a branch is switched, no turn runs and no provider works in the
\* checkout (withIdleProject, command).
CheckoutIdle ==
  switching => process = {} /\ \A s \in Sessions : ~Running(s) /\ running[s] = NoTurn

\* Whichever desktops decide on the request of the latest turn, and whatever is
\* streamed, flushed or settled meanwhile: the store shows the decision that was
\* passed on to the provider, and there is one (command, applyHarnessEvent).
DecisionTold ==
  \A c \in receipts :
    LET v == disk[SessionOf(c)] IN
    Type(c) = "approve" /\ v # NoSession /\ v.run = Payload[c].run =>
      /\ effects[c] = 1
      /\ v.blocks[<<v.run, "tool">>] = Marked(Payload[c].decision)

\* Nothing of a turn that is not running streams, waits for an answer or is
\* being built (settled, stopStreaming).
QuietWhenOver ==
  \A s \in Sessions : disk[s] # NoSession /\ disk[s].status # "running" =>
    /\ ~disk[s].question
    /\ \A i \in BlockIds : disk[s].blocks[i].mark \notin {"streaming", "asked", "building"}

\* A turn whose provider has returned, whose storage failed, or whose host
\* went down does not stay running for ever.
TurnsEnd ==
  \A s \in Sessions :
    (Running(s) /\ (up = "down" \/ (running[s] # NoTurn /\
       (running[s].failed \/ running[s].phase \notin {"queued", "sending"})))) ~> ~Running(s)

\* Shutting down comes to an end.
CloseEnds == (up = "closing") ~> (up = "down")
=============================================================================
