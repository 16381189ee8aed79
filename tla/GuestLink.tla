------------------------------- MODULE GuestLink -------------------------------
(***************************************************************************)
(* One guest of a hosted session: the worker thread of collab/guest.rs and *)
(* the view kept by guestRuntime.ts, joined through sockets that may fail  *)
(* to the host of HostedSession, whose session and connection threads are  *)
(* used here as they are.  Every connection the guest makes is a           *)
(* participant of its own.                                                 *)
(*                                                                         *)
(* Abstractions.  A socket delivers in order what it delivers, until it    *)
(* fails and loses what is under way in both directions.  Opening a socket *)
(* and sending the join are one step; file requests, heartbeats and error  *)
(* replies, which change nothing here, are left out; the control, status   *)
(* and exit channels reach the view at once (small messages keep their     *)
(* order), while the answer to the connect call may arrive at any time.    *)
(***************************************************************************)
EXTENDS HostedSession

CONSTANTS
  GuestName,             \* the name in the guest's credentials
  CommandQueue,          \* COMMAND_QUEUE
  MaxReconnectAttempts,  \* MAX_RECONNECT_ATTEMPTS
  WireCapacity,          \* bound on what a socket holds towards the guest
  MaxIssued              \* bound on the commands the user gives

ASSUME LinkAssumption ==
  /\ GuestName \in Names /\ ParticipantIds \subseteq Nonces
  /\ CommandQueue \in Nat \ {0} /\ MaxReconnectAttempts \in Nat \ {0}
  /\ WireCapacity \in Nat \ {0} /\ MaxIssued \in Nat

VARIABLES
  pc,              \* where the worker thread is
  attempt,         \* reconnect attempts made since the connection was lost
  conn,            \* the worker's connection: its participant id
  outputSequence,  \* last frame applied
  inputSequence,   \* last input numbered on this connection
  commands,        \* the bounded command channel
  pending,         \* commands received while reconnecting
  live,            \* connections whose socket works and is held by the guest
  down, up,        \* what each socket holds, towards the guest and the host
  welcomeId,       \* participant of the first connection, for the welcome
  shown,           \* what guestRuntime shows: connection status and role
  registered,      \* what guestRuntime knows of it: "no", "yes", "closed"
  issued,          \* history: commands given
  written          \* history: inputs written to the PTY, in that order

worker  == <<pc, attempt, conn, outputSequence, inputSequence, pending,
             welcomeId>>
network == <<live, down, up>>
webview == <<shown, registered, issued>>
guest   == <<worker, commands, webview>>
linkVars == <<vars, guest, network, written>>

Joined(p)  == [type |-> "joined", id |-> p]
Input(n)   == [kind |-> "input", number |-> n]
Request    == [kind |-> "request"]
Release    == [kind |-> "release"]
CloseLink  == [kind |-> "close"]

LinkInit ==
  /\ Init
  /\ pc = "opening" /\ attempt = 0 /\ conn = NoOne
  /\ outputSequence = 0 /\ inputSequence = 0
  /\ commands = <<>> /\ pending = <<>>
  /\ live = {} /\ down = [p \in ParticipantIds |-> <<>>] /\ up = down
  /\ welcomeId = NoOne /\ registered = "no"
  /\ shown = [status |-> "connecting", role |-> "observer", id |-> NoOne]
  /\ issued = 0 /\ written = <<>>

-----------------------------------------------------------------------------
(* The view: applyControlMessage, onStatus and onExit *)

Status(s) == shown' = [shown EXCEPT !.status = s]

\* on_exit leaves a failure on display.
ShowExit ==
  Status(IF shown.status = "failed" THEN "failed" ELSE "disconnected")

ShowControl(m) ==
  CASE m.type = "role_changed" /\ m.id = shown.id ->
         shown' = [shown EXCEPT !.role = m.role]
    [] m.type = "closed" -> Status("disconnected")
    [] OTHER -> UNCHANGED shown

\* The answer to collab_guest_connect: guestRuntime's first view.
Welcomed ==
  /\ welcomeId # NoOne /\ registered = "no"
  /\ registered' = "yes"
  /\ shown' = [status |-> "connected", role |-> "observer", id |-> welcomeId]
  /\ UNCHANGED <<vars, worker, commands, issued, network, written>>

(* The user's commands, which the bounded channel may refuse. *)

SlotAlways == TRUE
Slot == Len(commands) < CommandQueue

Give(c) ==
  /\ registered = "yes" /\ pc # "ended" /\ issued < MaxIssued
  /\ Slot
  /\ commands' = Append(commands, c) /\ issued' = issued + 1
  /\ UNCHANGED <<vars, worker, shown, registered, network, written>>

\* guestRuntime forwards the keyboard of a controller only.
Type ==
  /\ shown.status = "connected" /\ shown.role = "controller"
  /\ Give(Input(issued + 1))

AskControl == Give(Request) \/ Give(Release)

\* The connection leaves the map, so nothing more is given; the command to
\* close is only tried, and the caller waits for the worker's end.
CloseGuest ==
  /\ registered = "yes" /\ registered' = "closed"
  /\ commands' = IF pc # "ended" /\ Slot
                 THEN Append(commands, CloseLink) ELSE commands
  /\ UNCHANGED <<vars, worker, shown, issued, network, written>>

\* The caller has waited for the worker, whatever it showed last.
CloseReturns ==
  /\ registered = "closed" /\ pc = "ended" /\ shown.status # "disconnected"
  /\ Status("disconnected")
  /\ UNCHANGED <<vars, worker, commands, registered, issued, network, written>>

-----------------------------------------------------------------------------
(* open_guest_socket *)

ResumeFromStart == IF welcomeId = NoOne THEN Fresh ELSE 0
ResumeAfter == IF welcomeId = NoOne THEN Fresh ELSE outputSequence

OpenSocket(p) ==
  /\ pc = "opening"
  /\ Join(p, GuestName, p, ResumeAfter)
  /\ pc' = "joining" /\ conn' = p /\ live' = live \cup {p}
  /\ UNCHANGED <<attempt, outputSequence, inputSequence, pending, welcomeId,
                 commands, webview, down, up, written>>

NextAttemptSame == attempt
NextAttempt == attempt + 1

\* The host cannot be reached, refuses the join, or its answer does not come.
OpenFails ==
  /\ pc \in {"opening", "joining"}
  /\ live' = live \ {conn} /\ conn' = NoOne
  /\ attempt' = IF welcomeId = NoOne THEN attempt ELSE NextAttempt
  /\ IF welcomeId = NoOne \/ NextAttempt >= MaxReconnectAttempts
     THEN pc' = "ended" /\ Status("failed") /\ commands' = <<>>
     ELSE pc' = "waiting" /\ UNCHANGED <<shown, commands>>
  /\ UNCHANGED <<vars, outputSequence, inputSequence, pending, welcomeId,
                 registered, issued, down, up, written>>

\* The first answer starts the worker; a later one is shown.
ReadJoined ==
  /\ pc = "joining" /\ down[conn] # <<>>
  /\ pc' = "running" /\ inputSequence' = 0 /\ attempt' = 0
  /\ down' = [down EXCEPT ![conn] = Tail(@)]
  /\ IF welcomeId = NoOne
     THEN welcomeId' = conn /\ UNCHANGED shown
     ELSE /\ shown' = [status |-> "connected", role |-> "observer", id |-> conn]
          /\ UNCHANGED welcomeId
  /\ UNCHANGED <<vars, conn, outputSequence, pending, commands,
                 registered, issued, live, up, written>>

-----------------------------------------------------------------------------
(* run_connected_guest *)

\* The worker lets go of its socket and is gone, or will reconnect.
End ==
  /\ pc' = "ended" /\ live' = live \ {conn} /\ commands' = <<>>
  /\ UNCHANGED <<attempt, conn, inputSequence, pending, welcomeId>>

Retry ==
  /\ pc' = "waiting" /\ attempt' = 0 /\ live' = live \ {conn}
  /\ Status("reconnecting")
  /\ UNCHANGED <<conn, inputSequence, welcomeId>>

QueuedReversed == commands \o pending
\* What is left from the reconnection comes first.
Queued == pending \o commands

TakeCommand ==
  /\ pending' = IF pending = <<>> THEN <<>> ELSE Tail(pending)
  /\ commands' = IF pending = <<>> THEN Tail(commands) ELSE commands

\* Inputs are numbered on each connection, from 1.
OnWire(c) ==
  IF c.kind = "input"
  THEN [kind |-> "input", number |-> c.number, sequence |-> inputSequence + 1]
  ELSE c

\* A working socket takes the command; one that has failed may seem to.
SendCommand ==
  /\ pc = "running" /\ Queued # <<>> /\ Head(Queued).kind # "close"
  /\ TakeCommand
  /\ inputSequence' = IF Head(Queued).kind = "input" THEN inputSequence + 1
                                                     ELSE inputSequence
  /\ up' = IF conn \in live /\ phase[conn] # "dropped"
           THEN [up EXCEPT ![conn] = Append(@, OnWire(Head(Queued)))] ELSE up
  /\ UNCHANGED <<vars, pc, attempt, conn, outputSequence, welcomeId,
                 webview, live, down, written>>

\* A failed send loses its command.
SendFails ==
  /\ pc = "running" /\ Queued # <<>> /\ Head(Queued).kind # "close"
  /\ conn \notin live \/ phase[conn] = "dropped"
  /\ TakeCommand /\ Retry
  /\ UNCHANGED <<vars, outputSequence, registered, issued, down, up,
                 written>>

UserCloses ==
  /\ pc = "running" /\ Queued # <<>> /\ Head(Queued).kind = "close"
  /\ End /\ ShowExit
  /\ UNCHANGED <<vars, outputSequence, registered, issued, down, up,
                 written>>

\* accept_output_sequence and accept_snapshot_sequence.
Acceptable(f) ==
  IF f.kind = "snapshot" THEN f.sequence >= outputSequence
                         ELSE f.sequence = outputSequence + 1

\* What was kept back is sent before the first read; a later command may arrive
\* just after the worker looked for it.
MayRead == pc = "running" /\ pending = <<>>
Incoming == MayRead /\ down[conn] # <<>>

Took(p) == down' = [down EXCEPT ![p] = Tail(@)] /\ UNCHANGED up

\* A frame that does not follow the last one ends the connection for good.
ReadFrame ==
  /\ Incoming /\ Took(conn)
  /\ Head(down[conn]).type = "data"
  /\ LET f == Head(down[conn]).frame
     IN IF ~Acceptable(f)
        THEN End /\ Status("failed") /\ UNCHANGED outputSequence
        ELSE /\ outputSequence' = f.sequence
             /\ IF f.kind = "exit"
                THEN End /\ ShowExit
                ELSE UNCHANGED <<pc, attempt, conn, inputSequence, pending,
                                 welcomeId, commands, live, shown>>
  /\ UNCHANGED <<vars, registered, issued, written>>

ReadControl ==
  /\ Incoming /\ Took(conn)
  /\ Head(down[conn]).type # "data"
  /\ ShowControl(Head(down[conn]))
  /\ IF Head(down[conn]) = Closed
     THEN End
     ELSE UNCHANGED <<pc, attempt, conn, inputSequence, pending, welcomeId,
                      commands, live>>
  /\ UNCHANGED <<vars, outputSequence, registered, issued, written>>

\* The socket has failed, or the host has closed it.
ReadFails ==
  /\ MayRead /\ down[conn] = <<>>
  /\ conn \notin live \/ phase[conn] = "dropped"
  /\ Retry
  /\ UNCHANGED <<vars, outputSequence, pending, commands, registered,
                 issued, down, up, written>>

-----------------------------------------------------------------------------
(* wait_for_reconnect *)

KeepCommand ==
  /\ pc = "waiting" /\ commands # <<>> /\ Head(commands).kind # "close"
  /\ pending' = Append(pending, Head(commands)) /\ commands' = Tail(commands)
  /\ UNCHANGED <<vars, pc, attempt, conn, outputSequence, inputSequence,
                 welcomeId, webview, network, written>>

CloseWhileWaiting ==
  /\ pc = "waiting" /\ commands # <<>> /\ Head(commands).kind = "close"
  /\ End /\ Status("failed")
  /\ UNCHANGED <<vars, outputSequence, registered, issued, down, up,
                 written>>

WaitOver ==
  /\ pc = "waiting" /\ pc' = "opening"
  /\ UNCHANGED <<vars, attempt, conn, outputSequence, inputSequence, pending,
                 welcomeId, commands, webview, network, written>>

-----------------------------------------------------------------------------
(* The host's threads and the sockets *)

\* The host writes m to p's socket; if it has failed, m is lost.
Room(p) == Len(down[p]) < WireCapacity
Wire(p, m) ==
  /\ p \in live => Room(p)
  /\ down' = IF p \in live THEN [down EXCEPT ![p] = Append(@, m)] ELSE down
  /\ UNCHANGED <<guest, live, up, written>>
Unwired == UNCHANGED <<guest, network, written>>

HostSends(p) ==
  \/ SendJoined(p) /\ Wire(p, Joined(p))
  \/ SendReplay(p) /\ welcome[p] # <<>> /\ Wire(p, Data(Head(welcome[p])))
  \/ SendReplay(p) /\ welcome[p] = <<>> /\ Unwired
  \/ Forward(p) /\ Wire(p, Head(outbound[p]))
  \/ Finish(p) /\ outbound[p] # <<>> /\ Wire(p, Closed)
  \/ Finish(p) /\ outbound[p] = <<>> /\ Unwired

\* The host's end of a socket that has failed or that the guest has closed.
HostNotices(p) ==
  /\ p \notin live /\ (WelcomeFails(p) \/ SocketEnds(p)) /\ Unwired

Heard(p) ==
  /\ up' = [up EXCEPT ![p] = Tail(@)]
  /\ UNCHANGED <<guest, live, down>>

InStep(p) == Head(up[p]).sequence = record[p].lastInput + 1

\* authorize_input, then the PTY writer.
HostTakesInput(p) ==
  /\ phase[p] = "running" /\ up[p] # <<>> /\ Head(up[p]).kind = "input"
  /\ InStep(p) /\ AuthorizeInput(p, TRUE)
  /\ written' = Append(written, Head(up[p]).number)
  /\ Heard(p)

MayWrite(p) == ~closed /\ p \in participants /\ record[p].role = "controller"

HostRefusesInput(p) ==
  /\ phase[p] = "running" /\ up[p] # <<>> /\ Head(up[p]).kind = "input"
  /\ ~(MayWrite(p) /\ InStep(p))
  /\ UNCHANGED <<vars, written>> /\ Heard(p)

HostTakesRequest(p) ==
  /\ phase[p] = "running" /\ up[p] # <<>>
  /\ \/ Head(up[p]) = Request /\ RequestControl(p)
     \/ Head(up[p]) = Release /\ ReleaseControl(p)
     \/ /\ Head(up[p]) = Request /\ (closed \/ p \notin participants)
        /\ UNCHANGED vars
     \/ /\ Head(up[p]) = Release /\ (closed \/ controllerId # p)
        /\ UNCHANGED vars
  /\ UNCHANGED written /\ Heard(p)

HostReads(p) == HostTakesInput(p) \/ HostRefusesInput(p) \/ HostTakesRequest(p)

\* A working socket fails; so does, for the guest, one the host has closed.
Cut(p) ==
  /\ p \in live /\ live' = live \ {p}
  /\ down' = [down EXCEPT ![p] = <<>>] /\ up' = [up EXCEPT ![p] = <<>>]
  /\ UNCHANGED <<vars, guest, written>>

-----------------------------------------------------------------------------
Worker ==
  \/ OpenFails \/ ReadJoined
  \/ \E p \in ParticipantIds : OpenSocket(p)
  \/ SendCommand \/ SendFails \/ UserCloses
  \/ ReadFrame \/ ReadControl \/ ReadFails
  \/ KeepCommand \/ CloseWhileWaiting \/ WaitOver

HostThread(p) == HostSends(p) \/ HostNotices(p) \/ HostReads(p)

User == Welcomed \/ Type \/ AskControl \/ CloseGuest \/ CloseReturns

HostUser ==
  /\ TerminalAction
       \/ \E p \in ParticipantIds :
            SetController(p) \/ SetObserver(p) \/ RemoveParticipant(p)
  /\ Unwired

LinkNext ==
  \/ Worker \/ User \/ HostUser
  \/ \E p \in ParticipantIds : HostThread(p) \/ Cut(p)

LinkSpec == LinkInit /\ [][LinkNext]_linkVars

\* The worker and the host's connection threads keep running, and heartbeats
\* make both ends notice a dead socket in the end.
LinkFairSpec ==
  /\ LinkSpec /\ WF_linkVars(Worker)
  /\ \A p \in ParticipantIds : WF_linkVars(HostThread(p))

-----------------------------------------------------------------------------
(* Properties *)

Command == [kind : {"input"}, number : 1..MaxIssued]
             \cup {Request, Release, CloseLink}

\* Every variable has its type, and the command channel its bound.
LinkTypeOK ==
  /\ pc \in {"opening", "joining", "running", "waiting", "ended"}
  /\ attempt \in 0..MaxReconnectAttempts
  /\ {conn, welcomeId, shown.id} \subseteq ParticipantIds \cup {NoOne}
  /\ outputSequence \in 0..nextSequence /\ inputSequence \in 0..MaxIssued
  /\ commands \in BoundedSeq(Command, CommandQueue)
  /\ pending \in Seq(Command) /\ live \subseteq ParticipantIds
  /\ \A p \in ParticipantIds : Len(down[p]) <= WireCapacity
  /\ shown.status \in {"connecting", "connected", "reconnecting", "failed",
                       "disconnected"}
  /\ shown.role \in Roles /\ registered \in {"no", "yes", "closed"}
  /\ issued \in 0..MaxIssued /\ written \in Seq(1..MaxIssued)

\* Across every loss of the connection, what is on its way to the guest goes on
\* exactly where the guest left off: its socket, the rest of the welcome and the
\* queue behind it hold the frames after the last one applied, in order, up to
\* the newest one while it is a participant.
NothingSkipped ==
  conn \in live /\ pc \in {"joining", "running"} =>
    LET ms == down[conn] \o Line(conn)
    IN /\ Continues(ms, outputSequence)
       /\ conn \in participants => EndsAt(ms, outputSequence, nextSequence)

\* What the guest's connection brings next, as SharedTerminal has it.
Brings(ms) ==
  IF \E i \in DOMAIN ms : ms[i].type = "data" /\ ms[i].frame.kind = "snapshot"
  THEN "screen" ELSE "stream"
FeedOf ==
  IF pc = "running" /\ conn \in live THEN Brings(down[conn] \o Line(conn)) ELSE "none"

Promise == INSTANCE SharedTerminal WITH
  People <- ParticipantIds, over <- closed, published <- nextSequence,
  applied <- outputSequence, feed <- FeedOf, holder <- controllerId, entered <- written

\* Host, connection threads, sockets and worker together keep what a share
\* promises its guest: frames one by one or after a captured screen, input in
\* order and only under control, nothing after the close ("host decisions are
\* immediately revocable", docs/architecture/terminal-collaboration.md:51).
PromiseKept == Promise!Spec

\* What the guest types reaches the shell at most once and in order, through
\* reconnections that keep commands back and sends that fail.
InputOnceInOrder ==
  \A i, j \in DOMAIN written : i < j => written[i] < written[j]

\* Closing the share ends every guest: by the farewell, or because no attempt
\* to reconnect is let in and their number is bounded.
CloseEndsGuest == closed ~> (pc = "ended")

\* The test at collab/server.rs:1019: "observer_input_is_rejected_but_controller
\* _input_reaches_the_terminal": input of a controller is never refused.
ControllerInputReaches ==
  \A p \in ParticipantIds :
    phase[p] = "running" /\ up[p] # <<>> /\ Head(up[p]).kind = "input"
      /\ MayWrite(p) => InStep(p)
=============================================================================
