----------------------------- MODULE RemoteSession -----------------------------
(***************************************************************************)
(* A desktop's tab on a session of the agent host (connections/ui/         *)
(* RemoteSession.tsx, connections/model), over HostEngine: its outbox in   *)
(* localStorage, the one request it has under way, lost requests and lost  *)
(* answers, retries, restarts of the app, and the polling that keeps its   *)
(* copy of the transcript.  Other desktops command the host directly.      *)
(*                                                                         *)
(* Abstractions.  The tab stays with one session, the one it creates.  A   *)
(* request under way to the host is there at most once: a retry joins what *)
(* is left of the first attempt.  MaxLosses bounds the requests that fail, *)
(* the commands that localStorage is too full for and the restarts of the  *)
(* app; Retries that it is too full for, which leave the outbox alone, are *)
(* not counted.  A sync in pieces is one step, for the pieces are of one   *)
(* serialized value.                                                       *)
(***************************************************************************)
EXTENDS HostEngine

CONSTANTS
  Mine,         \* the commands this tab issues
  Followup,     \* the message a create command is issued for
  NoPoll,
  MaxLosses

ASSUME RemoteAssumption ==
  /\ Mine \subseteq Commands /\ MaxLosses \in Nat
  /\ Followup \in [Mine -> Mine \cup {NoRun}]
  /\ \A s, t \in Sessions : s = t

VARIABLES
  outbox,     \* the commands in localStorage
  bound,      \* does the tab show the session yet? (in localStorage, too)
  pending,    \* the command the tab waits to have confirmed
  sending,    \* the command whose answer run() awaits
  retried,    \* was the turn shown last sent by the notice's Retry?
  wire,       \* requests that may still reach the host
  reply,      \* the answer to the request under way
  known,      \* snapshot: what the tab shows of the session
  poll,       \* a sync under way: what the tab knew, and the host's answer
  unseen,     \* unseenSend: a turn the transcript does not show yet
  starting,   \* the turn shown as started, and whether it failed
  losses,     \* what is left of MaxLosses
  answer      \* history: what the tab was told of each of its commands

stores == <<outbox, bound>>
request == <<pending, sending, retried, wire, reply>>
screen == <<known, poll, unseen, starting>>
tab == <<stores, request, screen, losses, answer>>
remoteVars == <<vars, tab>>

NotStarting == [id |-> NoRun, failed |-> FALSE]
Shows(c) == known # NoView /\ <<c, "user">> \in Present(known)

\* Every variable has its type, and an answer is kept for the request under way
\* only.
RemoteTypeOK ==
  /\ outbox \subseteq Mine /\ wire \subseteq Mine
  /\ bound \in BOOLEAN /\ retried \in BOOLEAN
  /\ {pending, sending, unseen} \subseteq Mine \cup {NoRun}
  /\ reply \in {"none", "receipt", "rejected"} /\ losses \in 0..MaxLosses
  /\ reply # "none" => sending \in outbox \ wire
  /\ known \in Values \cup {NoView}
  /\ starting \in [id : Mine \cup {NoRun}, failed : BOOLEAN]
  /\ answer \in [Mine -> {"fresh", "open", "receipt", "rejected"}]

RemoteInit ==
  /\ Init
  /\ outbox = {} /\ bound = FALSE
  /\ pending = NoRun /\ sending = NoRun /\ retried = FALSE /\ wire = {} /\ reply = "none"
  /\ known = NoView /\ poll = NoPoll /\ unseen = NoRun /\ starting = NotStarting
  /\ losses = MaxLosses /\ answer = [c \in Mine |-> "fresh"]

-----------------------------------------------------------------------------
(* What the user may do *)

Unfinished(c) == c # NoRun /\ ~Shows(c)
Busy ==
  \/ known # NoView /\ known.status = "running"
  \/ Unfinished(unseen)
  \/ ~starting.failed /\ Unfinished(starting.id) /\ Type(starting.id) # "draft"
  \/ Unfinished(pending) /\ StartsTurn(pending)

\* A conversation starts with a create command; everything else needs the
\* transcript.  Only commands about the running turn go out beside a pending
\* one.  Removing a draft that is all there is deletes the session instead.
UserMay(c) ==
  /\ sending = NoRun /\ answer[c] = "fresh"
  /\ IF Type(c) = "create" THEN ~bound ELSE bound /\ known # NoView
  /\ CASE Type(c) = "cancel" -> known.status = "running" /\ known.run = Payload[c].run
       [] Type(c) = "approve" -> Waiting(known) # {} /\ known.run = Payload[c].run
       [] Type(c) = "answer" -> known.question /\ known.run = Payload[c].run
       [] OTHER -> pending = NoRun /\ ~Busy
  /\ Type(c) = "removeDraft" =>
       DraftFound(c, known) /\ Present(known) # {<<Payload[c].draft, "user">>}

\* The turn a command shows as started.
Starts(c) == IF Type(c) = "create" THEN Followup[c]
             ELSE IF Type(c) \in {"send", "draft"} THEN c ELSE NoRun
Starting(c, failed) ==
  IF Starts(c) = NoRun THEN starting ELSE [id |-> Starts(c), failed |-> failed]
StartingAgain == IF Shows(starting.id) THEN NotStarting
                 ELSE [starting EXCEPT !.failed = FALSE]

-----------------------------------------------------------------------------
(* run() *)

SendUnsaved(c) ==
  /\ UNCHANGED outbox /\ pending' = c
  /\ sending' = c /\ wire' = wire \cup {c} /\ reply' = "none"
  /\ unseen' = IF StartsTurn(c) /\ ~Shows(c) THEN c ELSE unseen
  /\ answer' = [answer EXCEPT ![c] = "open"]
\* The command is saved before it is sent.
Send(c) ==
  /\ outbox' = outbox \cup {c} /\ pending' = c
  /\ sending' = c /\ wire' = wire \cup {c} /\ reply' = "none"
  /\ unseen' = IF StartsTurn(c) /\ ~Shows(c) THEN c ELSE unseen
  /\ answer' = [answer EXCEPT ![c] = "open"]

Submit(c) ==
  /\ UserMay(c) /\ Send(c)
  /\ retried' = IF Starts(c) = NoRun THEN retried ELSE FALSE
  /\ starting' = Starting(c, FALSE)
  /\ UNCHANGED <<vars, bound, known, poll, losses>>

\* The command of the notice's Try again, once nothing is pending.
AgainMay(c) ==
  /\ sending = NoRun /\ pending = NoRun /\ starting.failed
  /\ IF bound THEN c = starting.id
     ELSE answer[c] = "fresh" /\ Followup[c] = starting.id /\ Type(c) = "create"

TryAgain(c) ==
  /\ AgainMay(c) /\ Send(c)
  /\ retried' = FALSE /\ starting' = StartingAgain
  /\ UNCHANGED <<vars, bound, known, poll, losses>>

\* The notice's Retry.
Retry ==
  /\ sending = NoRun /\ pending # NoRun
  /\ Send(pending) /\ retried' = TRUE
  /\ starting' = StartingAgain
  /\ UNCHANGED <<vars, bound, known, poll, losses>>

\* localStorage is full: nothing is sent, and nothing more is pending.  What
\* Retry meant to send stays in the outbox; its failure is not shown either.
Unsaved(c) ==
  /\ unseen' = IF StartsTurn(c) /\ ~Shows(c) THEN c ELSE unseen
  /\ UNCHANGED <<vars, stores, pending, sending, wire, reply, known, poll, answer>>
SaveFails(c) ==
  /\ UserMay(c) \/ AgainMay(c)
  /\ losses > 0 /\ losses' = losses - 1
  /\ Unsaved(c) /\ starting' = Starting(c, TRUE) /\ UNCHANGED retried
RetryUnsaved ==
  /\ sending = NoRun /\ pending # NoRun
  /\ Unsaved(pending) /\ starting' = StartingAgain /\ retried' = TRUE
  /\ UNCHANGED losses

Remaining(entries) == IF entries = {} THEN {NoRun} ELSE entries

\* "Accepted drafts are actionable before the next snapshot arrives."
WithDraft(c) ==
  LET v == IF known # NoView THEN known
           ELSE [Created(c) EXCEPT !.rev = 0] IN
  [v EXCEPT !.status = "idle",
     !.blocks = [i \in BlockIds |->
        IF i = <<c, "user">> THEN Marked("draft")
        ELSE IF @[i].mark = "draft" THEN NoBlock ELSE @[i]]]

BegunAlone ==
  LET c == sending IN
  /\ reply = "receipt" /\ Type(c) = "create"
  /\ bound' = TRUE /\ poll' = NoPoll
  /\ outbox' = outbox \ {c} /\ pending' \in Remaining(outbox \ {c})
  /\ sending' = NoRun /\ reply' = "none"
  /\ answer' = [answer EXCEPT ![c] = "receipt"]
  /\ UNCHANGED <<vars, retried, wire, unseen, known, starting, losses>>
\* A receipt: the entry goes and the transcript is asked for anew.  The message
\* a conversation was created for is saved before that, and sent.
Begun ==
  LET c == sending IN
  /\ reply = "receipt" /\ Type(c) = "create"
  /\ bound' = TRUE /\ poll' = NoPoll
  /\ IF Followup[c] = NoRun
     THEN /\ outbox' = outbox \ {c} /\ pending' \in Remaining(outbox \ {c})
          /\ sending' = NoRun /\ reply' = "none"
          /\ answer' = [answer EXCEPT ![c] = "receipt"]
          /\ UNCHANGED <<wire, unseen>>
     ELSE /\ outbox' = (outbox \ {c}) \cup {Followup[c]}
          /\ pending' = Followup[c] /\ sending' = Followup[c] /\ reply' = "none"
          /\ wire' = wire \cup {Followup[c]}
          /\ unseen' = IF StartsTurn(Followup[c]) THEN Followup[c] ELSE unseen
          /\ answer' = [answer EXCEPT ![c] = "receipt", ![Followup[c]] = "open"]
  /\ UNCHANGED <<vars, retried, known, starting, losses>>

Confirmed ==
  LET c == sending IN
  /\ reply = "receipt" /\ Type(c) # "create"
  /\ outbox' = outbox \ {c} /\ pending' \in Remaining(outbox \ {c})
  /\ sending' = NoRun /\ reply' = "none" /\ poll' = NoPoll
  /\ known' = IF Type(c) = "draft" THEN WithDraft(c) ELSE known
  /\ starting' = IF Type(c) = "draft" THEN NotStarting ELSE starting
  /\ answer' = [answer EXCEPT ![c] = "receipt"]
  /\ UNCHANGED <<vars, bound, retried, wire, unseen, losses>>

AfterFailureUnmarked(c) == starting
\* The turn of a command that failed is marked, unless Retry sent it.
AfterFailure(c) == IF retried THEN starting ELSE Starting(c, TRUE)

\* "Host rejected request": the entry goes as well.  Only who submitted the turn
\* hears of the failure; the Retry that was turned down does not.
Rejected ==
  LET c == sending IN
  /\ reply = "rejected"
  /\ outbox' = outbox \ {c} /\ pending' \in Remaining(outbox \ {c})
  /\ sending' = NoRun /\ reply' = "none"
  /\ unseen' = IF unseen = c THEN NoRun ELSE unseen
  /\ starting' = AfterFailure(c)
  /\ answer' = [answer EXCEPT ![c] = "rejected"]
  /\ UNCHANGED <<vars, bound, retried, wire, known, poll, losses>>

\* "The host request did not complete": it may have been carried out, may not,
\* or may be yet.  After the receipt of a create command it is localStorage that
\* is too full for the message (RemoteSession.tsx:580): the create stays.
Fails ==
  LET c == sending IN
  /\ c # NoRun /\ losses > 0 /\ losses' = losses - 1
  /\ wire' \in {wire, wire \ {c}}
  /\ sending' = NoRun /\ reply' = "none"
  /\ starting' = AfterFailure(c)
  /\ UNCHANGED <<vars, stores, pending, retried, known, poll, unseen, answer>>

\* The app starts again, with what localStorage holds.
Restart ==
  /\ losses > 0 /\ losses' = losses - 1
  /\ sending' = NoRun /\ retried' = FALSE /\ reply' = "none"
  /\ known' = NoView /\ poll' = NoPoll /\ unseen' = NoRun /\ starting' = NotStarting
  /\ pending' \in Remaining(outbox)
  /\ UNCHANGED <<vars, stores, wire, answer>>

-----------------------------------------------------------------------------
(* The host's side of a request *)

AnswerUnmatched(c, r) ==
  /\ wire' = wire \ {c} /\ reply' = r
  /\ UNCHANGED <<stores, pending, sending, retried, screen, losses, answer>>
Answer(c, r) ==
  /\ wire' = wire \ {c}
  /\ reply' = IF sending = c THEN r ELSE reply
  /\ UNCHANGED <<stores, pending, sending, retried, screen, losses, answer>>

\* Receipts are looked up before anything else (engine.ts command()).
Serve(c) ==
  /\ up = "up" /\ c \in wire
  /\ \/ c \in receipts /\ UNCHANGED vars /\ Answer(c, "receipt")
     \/ (Create(c) \/ Accept(c)) /\ Answer(c, "receipt")
     \/ (Refuse(c) \/ TurnAway(c)) /\ Answer(c, "rejected")

-----------------------------------------------------------------------------
(* The poll: sessions.sync with the revision the tab knows *)

Asked(s, v) == [known |-> v, sync |-> Sync(disk[s], v)]

PollAsks(s) ==
  /\ up = "up" /\ bound /\ poll = NoPoll /\ disk[s] # NoSession
  /\ poll' = Asked(s, known)
  /\ UNCHANGED <<vars, stores, request, known, unseen, starting, losses, answer>>

PollTakes ==
  /\ poll # NoPoll /\ Fits(poll.known, poll.sync)
  /\ poll' = NoPoll /\ known' = ApplySync(poll.known, poll.sync)
  /\ unseen' = IF <<unseen, "user">> \in Present(known') THEN NoRun ELSE unseen
  /\ starting' = IF <<starting.id, "user">> \in Present(known') /\ ~starting.failed
                 THEN NotStarting ELSE starting
  /\ UNCHANGED <<vars, stores, request, losses, answer>>

PollAsksTheSame(s) ==
  /\ up = "up" /\ poll # NoPoll /\ ~Fits(poll.known, poll.sync) /\ disk[s] # NoSession
  /\ poll' = Asked(s, poll.known)
  /\ UNCHANGED <<vars, stores, request, known, unseen, starting, losses, answer>>
\* The update does not apply: a snapshot is asked for.
PollAsksAgain(s) ==
  /\ up = "up" /\ poll # NoPoll /\ ~Fits(poll.known, poll.sync) /\ disk[s] # NoSession
  /\ poll' = Asked(s, NoView)
  /\ UNCHANGED <<vars, stores, request, known, unseen, starting, losses, answer>>

PollFails ==
  /\ poll # NoPoll /\ poll' = NoPoll
  /\ UNCHANGED <<vars, stores, request, known, unseen, starting, losses, answer>>

-----------------------------------------------------------------------------

Host ==
  /\ \/ \E c \in Commands \ Mine : Refuse(c) \/ Create(c) \/ Accept(c)
     \/ \E s \in Sessions : TurnStep(s) \/ Side(s)
     \/ BeginSwitch \/ EndSwitch
     \/ BeginClose \/ Exit \/ Crash \/ Start
  /\ UNCHANGED tab
Tab ==
  \/ \E c \in Mine : Submit(c) \/ TryAgain(c) \/ SaveFails(c) \/ Serve(c)
  \/ Retry \/ RetryUnsaved \/ Begun \/ Confirmed \/ Rejected \/ Fails \/ Restart
  \/ \E s \in Sessions : PollAsks(s) \/ PollAsksAgain(s)
  \/ PollTakes \/ PollFails

RemoteSpec == RemoteInit /\ [][Host \/ Tab]_remoteVars

\* The poll is repeated for ever, and the connection works again and again.
RemoteFairSpec ==
  /\ RemoteSpec /\ WF_remoteVars(Start /\ UNCHANGED tab)
  /\ SF_remoteVars(PollTakes)
  /\ \A s \in Sessions : SF_remoteVars(PollAsks(s)) /\ SF_remoteVars(PollAsksAgain(s))

-----------------------------------------------------------------------------
(* Properties *)

\* Across lost answers and restarts of the app, a command the host may have
\* accepted stays in the outbox until the tab was told; what it was told is
\* true ("Persistence must succeed before dispatch", connections.ts).
NothingForgotten ==
  /\ wire \subseteq outbox
  /\ \A c \in Mine :
       /\ c \in receipts \ outbox => answer[c] = "receipt"
       /\ answer[c] = "receipt" => c \in receipts
       /\ answer[c] = "rejected" => c \notin receipts

\* The message a conversation was begun with is not lost between the two
\* commands it takes: until the host answered it, the create command or the
\* message is in the outbox (PendingEntry.followup).
FollowupKept ==
  \A c \in Mine : Type(c) = "create" /\ Followup[c] # NoRun =>
    \/ answer[c] \in {"fresh", "rejected"} \/ c \in outbox
    \/ Followup[c] \in outbox \/ answer[Followup[c]] \in {"receipt", "rejected"}

\* At the host's revision the tab shows the host's transcript, whatever updates
\* were lost, applied late or applied after an accepted draft was put in by
\* hand; drafts are the exception (sync, blockRevisions, applySessionSync).
TranscriptFaithful ==
  \A s \in Sessions :
    known # NoView /\ disk[s] # NoSession /\ known.rev = disk[s].rev =>
      \A i \in BlockIds :
        \/ known.blocks[i] = disk[s].blocks[i]
        \/ {known.blocks[i].mark, disk[s].blocks[i].mark} \subseteq {"draft", "absent"}

\* The tab catches up with the host again and again, whatever it was shown.
CatchesUp ==
  \A s \in Sessions :
    []<>(bound /\ up = "up" /\ disk[s] # NoSession =>
           known # NoView /\ known.rev = disk[s].rev)

\* A turn that is shown as started, and keeps the tab busy, is on its way or was
\* accepted ("An accepted turn stays on screen", RemoteSession.tsx:332; submit,
\* Try again and startSession mark a turn the host turned down as failed).
\* Only the notice's Retry (retryPending, 1029-1038) does not: it clears the
\* mark and drops run()'s result.
StartedIsAccepted ==
  /\ sending = NoRun /\ pending = NoRun /\ ~retried
  /\ starting.id # NoRun /\ ~starting.failed /\ Type(starting.id) # "draft"
  => answer[starting.id] = "receipt"
=============================================================================
