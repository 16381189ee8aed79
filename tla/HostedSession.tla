---------------------------- MODULE HostedSession ----------------------------
(***************************************************************************)
(* One shared terminal on the host: the HostedSession object of            *)
(* collab/session.rs, whose methods each run under one mutex and are one   *)
(* action here, and the connection threads of collab/server.rs that sit    *)
(* at the receiving end of each participant's bounded outbound queue.      *)
(*                                                                         *)
(* Abstractions.  A terminal payload is its length; a grid (cols, rows) is *)
(* a model value; participant ids are the fresh ids a join generates; the  *)
(* HMAC proof is taken to verify (a join that fails any check changes      *)
(* nothing); wall-clock expiry is the boolean "expired".                   *)
(***************************************************************************)
EXTENDS Integers, SequencesExt

CONSTANTS
  ParticipantIds,   \* one id per accepted join
  Names,            \* participant names as a guest types them
  Lowercase,        \* Names -> names after to_lowercase
  Nonces,           \* client nonces
  Grids,            \* terminal dimensions
  InitialGrid,      \* dimensions given to HostedSession::new
  PayloadSizes,     \* lengths a chunk of PTY output may have
  MaxParticipants,  \* MAX_PARTICIPANTS, the host included
  OutboundQueue,    \* OUTBOUND_QUEUE
  MaxReplayFrames,  \* MAX_REPLAY_FRAMES
  MaxReplayBytes,   \* MAX_REPLAY_BYTES
  XtermAhead,       \* may a snapshot carry a grid not yet published?
  NoOne,            \* no controller
  NoName,           \* no participant record
  NoSnapshot,       \* no snapshot stored
  Fresh,            \* resume_after = None
  MaxSequence,      \* bound on published frames
  MaxInput          \* bound on accepted inputs of one participant

ASSUME LimitsAssumption ==
  /\ MaxParticipants \in Nat /\ OutboundQueue \in Nat \ {0}
  /\ MaxReplayFrames \in Nat \ {0} /\ MaxReplayBytes \in Nat
  /\ MaxSequence \in Nat /\ MaxInput \in Nat
  /\ PayloadSizes \subseteq 1..MaxReplayBytes

-----------------------------------------------------------------------------
(* Frames and messages *)

Output(n, k) == [kind |-> "output", sequence |-> n, size |-> k]
Resize(n, g) == [kind |-> "resize", sequence |-> n, grid |-> g]
Exit(n)      == [kind |-> "exit", sequence |-> n]
Snapshot(n, g) == [kind |-> "snapshot", sequence |-> n, grid |-> g]

ReplayFrame == [kind : {"output"}, sequence : Nat, size : PayloadSizes]
                 \cup [kind : {"resize"}, sequence : Nat, grid : Grids]
SnapshotFrame == [kind : {"snapshot"}, sequence : Nat, grid : Grids]
DataFrame == ReplayFrame \cup SnapshotFrame
               \cup [kind : {"exit"}, sequence : Nat]

Data(f) == [type |-> "data", frame |-> f]
ParticipantJoined(p) == [type |-> "participant_joined", id |-> p]
ParticipantLeft(p) == [type |-> "participant_left", id |-> p]
ControlRequested(p) == [type |-> "control_requested", id |-> p]
RoleChangedStale(p, r) ==
  [type |-> "role_changed", id |-> p, role |-> "observer"]
RoleChanged(p, r) == [type |-> "role_changed", id |-> p, role |-> r]
Closed == [type |-> "closed"]

Roles == {"observer", "controller"}

OutboundMessage ==
  [type : {"data"}, frame : DataFrame]
    \cup [type : {"participant_joined", "participant_left",
                  "control_requested"}, id : ParticipantIds]
    \cup [type : {"role_changed"}, id : ParticipantIds, role : Roles]
    \cup {Closed}

\* Only PTY output counts against the replay's byte limit.
PayloadLen(f) == IF f.kind = "output" THEN f.size ELSE 0

ASSUME ValuesAssumption ==
  /\ Lowercase \in [Names -> Names]
  /\ InitialGrid \in Grids
  /\ XtermAhead \in BOOLEAN
  /\ NoOne \notin ParticipantIds
  /\ Fresh \notin Nat
  /\ NoSnapshot \notin SnapshotFrame

-----------------------------------------------------------------------------
VARIABLES
  closed, expired, grid,
  participants,     \* ids with a record in the session's map
  record,           \* ParticipantRecord of every id
  usedNonces, banned, controllerId,
  nextSequence, snapshot, replay, replayBytes,
  phase,            \* the connection thread of every id
  outbound,         \* what its queue holds
  welcome,          \* JoinAccepted.replay, not yet written to the socket
  view,             \* history: what has been written to that guest
  nonceOf,          \* history: the nonce each id was admitted with
  gridLog           \* history: the grid in force at every sequence

session == <<closed, expired, grid, usedNonces, banned>>
stream  == <<nextSequence, snapshot, replay, replayBytes, gridLog>>
members == <<participants, record, controllerId, outbound>>
threads == <<phase, welcome, view>>
vars == <<session, stream, members, threads, nonceOf>>

Phases == {"absent", "joined", "replaying", "running", "dropped"}

NoRecord == [name |-> NoName, role |-> "observer", requested |-> FALSE,
             typing |-> FALSE, lastInput |-> 0]

NewRecordAsHost(name) == [NoRecord EXCEPT !.name = name, !.role = "host"]
NewRecord(name) == [NoRecord EXCEPT !.name = name]

Record == [name : Names \cup {NoName}, role : Roles, requested : BOOLEAN,
           typing : BOOLEAN, lastInput : Nat]

DemotedInName(r) == [r EXCEPT !.requested = FALSE, !.typing = FALSE]
\* A demoted participant is an observer with no request and not typing.
Demoted(r) == [r EXCEPT !.role = "observer", !.requested = FALSE,
                        !.typing = FALSE]

\* A request for control, a grant of it, and an accepted input.
Requesting(r) == [r EXCEPT !.requested = TRUE]
InControl(r)  == [r EXCEPT !.role = "controller", !.requested = FALSE]
Accepted(r)   == [r EXCEPT !.lastInput = @ + 1]
Typing(r)     == [r EXCEPT !.typing = TRUE]
Idle(r)       == [r EXCEPT !.typing = FALSE]

NoView == [sequence |-> 0, grid |-> InitialGrid, role |-> "observer"]

Init ==
  /\ closed = FALSE /\ expired = FALSE /\ grid = InitialGrid
  /\ participants = {} /\ controllerId = NoOne
  /\ usedNonces = {} /\ banned = {}
  /\ nextSequence = 0 /\ snapshot = NoSnapshot
  /\ replay = <<>> /\ replayBytes = 0 /\ gridLog = <<InitialGrid>>
  /\ record = [p \in ParticipantIds |-> NoRecord]
  /\ phase = [p \in ParticipantIds |-> "absent"]
  /\ outbound = [p \in ParticipantIds |-> <<>>]
  /\ welcome = [p \in ParticipantIds |-> <<>>]
  /\ view = [p \in ParticipantIds |-> NoView]
  /\ nonceOf = [p \in ParticipantIds |-> Fresh]

-----------------------------------------------------------------------------
(* broadcast: try_send to every participant.  A full queue drops its       *)
(* participant from the session; a queue whose receiver is gone is skipped *)
(* and its participant stays.                                              *)

Receiving(p) == phase[p] \in {"joined", "replaying", "running"}
HasRoom(q, p) == Len(q[p]) < OutboundQueue

LaggedNever(ps, q) == {}
Lagged(ps, q) == {p \in ps : Receiving(p) /\ ~HasRoom(q, p)}

TrySend(ps, q, m) ==
  [p \in ParticipantIds |->
     IF p \in ps /\ Receiving(p) /\ HasRoom(q, p) THEN Append(q[p], m)
                                                  ELSE q[p]]

WithoutLaggedKept(c, ps, q) == c
WithoutLagged(c, ps, q) == IF c \in Lagged(ps, q) THEN NoOne ELSE c

\* The session holds participants ps with records r, controller c and
\* queues q; send m.  A participant's record goes with it.
Broadcast(ps, r, c, q, m) ==
  /\ participants' = ps \ Lagged(ps, q)
  /\ record' = [p \in ParticipantIds |->
                  IF p \in ps \ Lagged(ps, q) THEN r[p] ELSE NoRecord]
  /\ controllerId' = WithoutLagged(c, ps, q)
  /\ outbound' = TrySend(ps, q, m)

-----------------------------------------------------------------------------
(* The replay window *)

\* The payload bytes of the first n frames of a sequence of frames.
BytesOfFirst(s, n) ==
  SumFunctionOnSet([i \in DOMAIN s |-> PayloadLen(s[i])], 1..n)

Bytes(s) == BytesOfFirst(s, Len(s))

SaturatingSub(a, b) == IF a > b THEN a - b ELSE 0

\* How many frames the loop pops off the front of s, whose byte counter is
\* b: it pops while the rest is still too long or too large.
Overflow(s, b) ==
  Cardinality({k \in 1..Len(s) :
     \/ Len(s) - (k - 1) > MaxReplayFrames
     \/ SaturatingSub(b, BytesOfFirst(s, k - 1)) > MaxReplayBytes})

CoveredButLast(n) ==
  Cardinality({i \in 1..Len(replay) : replay[i].sequence < n})
\* How many frames set_snapshot pops: those the snapshot at n covers.
Covered(n) == Cardinality({i \in 1..Len(replay) : replay[i].sequence <= n})

DropFirst(s, n) == SubSeq(s, n + 1, Len(s))

PushReplayUncounted(f) ==
  LET s == Append(replay, f)
      b == replayBytes + PayloadLen(f)
  IN /\ replay' = DropFirst(s, Overflow(s, b))
     /\ replayBytes' = b
\* push_back(f), then evict.
PushReplay(f) ==
  LET s == Append(replay, f)
      b == replayBytes + PayloadLen(f)
      n == Overflow(s, b)
  IN /\ replay' = DropFirst(s, n)
     /\ replayBytes' = SaturatingSub(b, BytesOfFirst(s, n))

\* continuous_replay(after, next_sequence): the retained frames newer than
\* "after", if they are every frame after+1 .. next_sequence.  Frames are
\* retained in sequence order, so the newer ones are the last ones.
Missing(after) == nextSequence - after

Newer(after) == SubSeq(replay, Len(replay) - Missing(after) + 1, Len(replay))

Continuous(after) ==
  /\ Missing(after) \in 0..Len(replay)
  /\ \A i \in 1..Missing(after) :
       replay[Len(replay) - Missing(after) + i].sequence = after + i

SnapshotUsable == snapshot # NoSnapshot /\ Continuous(snapshot.sequence)

\* replay_for_join(after) is Ok(ReplayForJoin(after)).  A joiner that is up
\* to date, and a session with no output yet, miss no frame.
ReplayAvailable(after) ==
  \/ after = Fresh /\ (SnapshotUsable \/ (snapshot = NoSnapshot /\ Continuous(0)))
  \/ after # Fresh /\ Continuous(after)
  \/ after # Fresh /\ SnapshotUsable /\ snapshot.sequence >= after

ReplayForJoin(after) ==
  IF after # Fresh /\ Continuous(after) THEN Newer(after)
  ELSE IF snapshot = NoSnapshot THEN Newer(0)
  ELSE <<snapshot>> \o Newer(snapshot.sequence)

-----------------------------------------------------------------------------
(* Joining.  The new participant's queue is created by the connection      *)
(* thread just before; the others hear of it before it is inserted.        *)

SpendNothing(nonce) == usedNonces
Spend(nonce) == usedNonces \cup {nonce}

Join(p, name, nonce, after) ==
  /\ phase[p] = "absent"
  /\ ~closed /\ ~expired
  /\ Lowercase[name] \notin banned
  /\ nonce \notin usedNonces
  /\ Cardinality(participants) + 1 < MaxParticipants
  /\ ReplayAvailable(after)
  /\ LET ps == participants \ Lagged(participants, outbound)
     IN /\ participants' = ps \cup {p}
        /\ record' = [r \in ParticipantIds |->
             IF r = p THEN NewRecord(name)
             ELSE IF r \in ps THEN record[r] ELSE NoRecord]
  /\ controllerId' = WithoutLagged(controllerId, participants, outbound)
  /\ outbound' = TrySend(participants, outbound, ParticipantJoined(p))
  /\ usedNonces' = Spend(nonce)
  /\ phase' = [phase EXCEPT ![p] = "joined"]
  /\ welcome' = [welcome EXCEPT ![p] = ReplayForJoin(after)]
  /\ view' = [view EXCEPT ![p].sequence = IF after = Fresh THEN 0 ELSE after]
  /\ nonceOf' = [nonceOf EXCEPT ![p] = nonce]
  /\ UNCHANGED <<closed, expired, grid, banned, stream>>

\* The invitation's fifteen minutes are over.
Expire ==
  /\ ~expired /\ expired' = TRUE
  /\ UNCHANGED <<closed, grid, usedNonces, banned, stream, members, threads,
                 nonceOf>>

-----------------------------------------------------------------------------
(* Control of the terminal *)

\* set_controller: two broadcasts; the first may drop p itself as lagged.
SetController(p) ==
  LET demotes == controllerId \notin {NoOne, p}
      ps == IF demotes THEN participants \ Lagged(participants, outbound)
                       ELSE participants
      c  == IF demotes THEN WithoutLagged(p, participants, outbound) ELSE p
      q  == IF demotes
            THEN TrySend(participants, outbound,
                         RoleChanged(controllerId, "observer"))
            ELSE outbound
  IN /\ ~closed /\ p \in participants
     /\ Broadcast(ps,
          [r \in ParticipantIds |->
             IF r = p THEN InControl(record[r])
             ELSE IF demotes /\ r = controllerId THEN Demoted(record[r])
             ELSE record[r]],
          c, q, RoleChanged(p, "controller"))
     /\ UNCHANGED <<session, stream, threads, nonceOf>>

RequestControl(p) ==
  /\ phase[p] = "running"
  /\ ~closed /\ p \in participants
  /\ Broadcast(participants, [record EXCEPT ![p] = Requesting(@)],
               controllerId, outbound, ControlRequested(p))
  /\ UNCHANGED <<session, stream, threads, nonceOf>>

ReleaseControl(p) ==
  /\ phase[p] = "running"
  /\ ~closed /\ controllerId = p /\ p \in participants
  /\ Broadcast(participants, [record EXCEPT ![p] = Demoted(@)],
               NoOne, outbound, RoleChanged(p, "observer"))
  /\ UNCHANGED <<session, stream, threads, nonceOf>>

\* The controller as it is once p no longer holds it.
ControllerWithout(p) == IF controllerId = p THEN NoOne ELSE controllerId

SetObserver(p) ==
  /\ ~closed /\ p \in participants
  /\ Broadcast(participants, [record EXCEPT ![p] = Demoted(@)],
               ControllerWithout(p), outbound, RoleChanged(p, "observer"))
  /\ UNCHANGED <<session, stream, threads, nonceOf>>

ExpelAnnounced(p) ==
  /\ ~closed /\ p \in participants
  /\ Broadcast(participants, record, ControllerWithout(p),
               TrySend({p}, outbound, Closed), ParticipantLeft(p))
\* remove_participant: a farewell if its queue has room, then the news.
Expel(p) ==
  /\ ~closed /\ p \in participants
  /\ Broadcast(participants \ {p}, record, ControllerWithout(p),
               TrySend({p}, outbound, Closed), ParticipantLeft(p))

RemoveParticipant(p) ==
  /\ Expel(p)
  /\ UNCHANGED <<session, stream, threads, nonceOf>>

BanParticipant(p) ==
  /\ Expel(p)
  /\ banned' = banned \cup {Lowercase[record[p].name]}
  /\ UNCHANGED <<closed, expired, grid, usedNonces, stream, threads, nonceOf>>

\* authorize_input accepts the participant's next input, empty or not.
AuthorizeInput(p, hasInput) ==
  /\ phase[p] = "running"
  /\ ~closed /\ p \in participants
  /\ record[p].role = "controller"
  /\ record[p].lastInput < MaxInput
  /\ record' = [record EXCEPT
       ![p] = IF hasInput THEN Typing(Accepted(@)) ELSE Accepted(@)]
  /\ UNCHANGED <<session, stream, participants, controllerId, outbound, threads,
                 nonceOf>>

\* TYPING_PRESENCE_TTL has passed since the last input.
TypingFades(p) ==
  /\ p \in participants /\ record[p].typing
  /\ record' = [record EXCEPT ![p] = Idle(@)]
  /\ UNCHANGED <<session, stream, participants, controllerId, outbound, threads,
                 nonceOf>>

-----------------------------------------------------------------------------
(* The terminal stream *)

\* Publish frame f as the next of the stream; g is the grid from then on.
Publish(f, g) ==
  /\ ~closed /\ nextSequence < MaxSequence
  /\ nextSequence' = nextSequence + 1
  /\ gridLog' = Append(gridLog, g)
  /\ grid' = g
  /\ Broadcast(participants, record, controllerId, outbound, Data(f))
  /\ UNCHANGED <<closed, expired, usedNonces, banned, snapshot, threads,
                 nonceOf>>

PublishOutput(k) ==
  /\ Publish(Output(nextSequence + 1, k), grid)
  /\ PushReplay(Output(nextSequence + 1, k))

\* A resize to the dimensions the session already has publishes nothing.
PublishResize(g) ==
  /\ g # grid
  /\ Publish(Resize(nextSequence + 1, g), g)
  /\ PushReplay(Resize(nextSequence + 1, g))

\* Sequenced and broadcast, but never retained for a later join.
PublishTerminalExit ==
  /\ Publish(Exit(nextSequence + 1), grid)
  /\ UNCHANGED <<replay, replayBytes>>

\* A snapshot of the end of the stream also decides the session's grid.
GridAlwaysTaken(n, g) == g
GridAfterSnapshot(n, g) == IF n = nextSequence THEN g ELSE grid

\* set_snapshot(n, g): the terminal as xterm showed it when the stream had
\* reached n.  If that is still the end of the stream its grid becomes the
\* session's.  xterm is resized before the PTY is, so g may be ahead.
SetSnapshot(n, g) ==
  /\ ~closed
  /\ n \in (IF snapshot = NoSnapshot THEN 0 ELSE snapshot.sequence)..nextSequence
  /\ XtermAhead \/ g = gridLog[n + 1]
  /\ snapshot' = Snapshot(n, g)
  /\ replay' = DropFirst(replay, Covered(n))
  /\ replayBytes' = SaturatingSub(replayBytes, BytesOfFirst(replay, Covered(n)))
  /\ grid' = GridAfterSnapshot(n, g)
  /\ gridLog' = [gridLog EXCEPT ![n + 1] = g]
  /\ UNCHANGED <<closed, expired, usedNonces, banned, nextSequence, members,
                 threads, nonceOf>>

Close ==
  /\ ~closed
  /\ closed' = TRUE
  /\ outbound' = TrySend(participants, outbound, Closed)
  /\ participants' = {} /\ controllerId' = NoOne
  /\ record' = [p \in ParticipantIds |-> NoRecord]
  /\ usedNonces' = {} /\ banned' = {}
  /\ snapshot' = NoSnapshot /\ replay' = <<>> /\ replayBytes' = 0
  /\ UNCHANGED <<expired, grid, nextSequence, gridLog, threads, nonceOf>>

-----------------------------------------------------------------------------
(* The connection thread of a participant: handle_connection from the join *)
(* on, and run_joined_connection.                                          *)

\* What a guest knows once message m is on the wire.
Shown(p, v, m) ==
  CASE m.type = "data" /\ m.frame.kind \in {"resize", "snapshot"} ->
         [v EXCEPT !.sequence = m.frame.sequence, !.grid = m.frame.grid]
    [] m.type = "data" /\ m.frame.kind \in {"output", "exit"} ->
         [v EXCEPT !.sequence = m.frame.sequence]
    [] m.type = "role_changed" /\ m.id = p -> [v EXCEPT !.role = m.role]
    [] OTHER -> v

\* Joined, with the dimensions of this moment ...
SendJoined(p) ==
  /\ phase[p] = "joined"
  /\ phase' = [phase EXCEPT ![p] = "replaying"]
  /\ view' = [view EXCEPT ![p].grid = grid]
  /\ UNCHANGED <<session, stream, members, welcome, nonceOf>>

\* ... then the replay, frame by frame; then the thread serves its queue.
SendReplay(p) ==
  /\ phase[p] = "replaying"
  /\ IF welcome[p] = <<>>
     THEN /\ phase' = [phase EXCEPT ![p] = "running"]
          /\ UNCHANGED <<view, welcome>>
     ELSE /\ view' = [view EXCEPT ![p] = Shown(p, @, Data(Head(welcome[p])))]
          /\ welcome' = [welcome EXCEPT ![p] = Tail(@)]
          /\ UNCHANGED phase
  /\ UNCHANGED <<session, stream, members, nonceOf>>

\* A failed write returns early: the receiver is dropped, leave never runs.
WelcomeFails(p) ==
  /\ phase[p] \in {"joined", "replaying"}
  /\ phase' = [phase EXCEPT ![p] = "dropped"]
  /\ outbound' = [outbound EXCEPT ![p] = <<>>]
  /\ welcome' = [welcome EXCEPT ![p] = <<>>]
  /\ view' = [view EXCEPT ![p] = NoView]
  /\ UNCHANGED <<session, stream, participants, record, controllerId, nonceOf>>

Forward(p) ==
  /\ phase[p] = "running" /\ outbound[p] # <<>> /\ Head(outbound[p]) # Closed
  /\ view' = [view EXCEPT ![p] = Shown(p, @, Head(outbound[p]))]
  /\ outbound' = [outbound EXCEPT ![p] = Tail(@)]
  /\ UNCHANGED <<session, stream, participants, record, controllerId, phase,
                 welcome, nonceOf>>

\* run_joined_connection returns: session.leave(p), and the receiver goes
\* with the thread.  A thread between the two is one not yet scheduled.
LeaveSession(p) ==
  LET q == [outbound EXCEPT ![p] = <<>>]
  IN /\ phase[p] = "running"
     /\ phase' = [phase EXCEPT ![p] = "dropped"]
     /\ view' = [view EXCEPT ![p] = NoView]
     /\ IF p \in participants
        THEN Broadcast(participants \ {p}, record, ControllerWithout(p), q,
                       ParticipantLeft(p))
        ELSE /\ outbound' = q
             /\ UNCHANGED <<participants, record, controllerId>>
     /\ UNCHANGED <<session, stream, welcome, nonceOf>>

DisconnectedIgnored(p) == FALSE
\* try_recv: the session has let go of this participant's sender.
Disconnected(p) == outbound[p] = <<>> /\ p \notin participants

\* The farewell is written out, or there is nobody left to send one.
Finish(p) ==
  /\ \/ Disconnected(p)
     \/ outbound[p] # <<>> /\ Head(outbound[p]) = Closed
  /\ LeaveSession(p)

\* The socket closes, fails, or has been silent for HEARTBEAT_TIMEOUT.
SocketEnds(p) == LeaveSession(p)

-----------------------------------------------------------------------------
ThreadStep(p) == SendJoined(p) \/ SendReplay(p) \/ Forward(p) \/ Finish(p)

GuestAction(p) ==
  \/ \E name \in Names, nonce \in Nonces, after \in {Fresh} \cup 0..MaxSequence :
       Join(p, name, nonce, after)
  \/ RequestControl(p) \/ ReleaseControl(p)
  \/ \E hasInput \in BOOLEAN : AuthorizeInput(p, hasInput)
  \/ WelcomeFails(p) \/ SocketEnds(p)

HostAction(p) ==
  \/ SetController(p) \/ SetObserver(p)
  \/ RemoveParticipant(p) \/ BanParticipant(p)
  \/ TypingFades(p)

TerminalAction ==
  \/ \E k \in PayloadSizes : PublishOutput(k)
  \/ \E g \in Grids : PublishResize(g)
  \/ PublishTerminalExit
  \/ \E n \in 0..MaxSequence, g \in Grids : SetSnapshot(n, g)
  \/ Expire
  \/ Close

Next ==
  \/ \E p \in ParticipantIds : GuestAction(p) \/ HostAction(p) \/ ThreadStep(p)
  \/ TerminalAction

Spec == Init /\ [][Next]_vars

-----------------------------------------------------------------------------
(* Properties *)

TypeOK ==
  /\ closed \in BOOLEAN /\ expired \in BOOLEAN /\ grid \in Grids
  /\ participants \in SUBSET ParticipantIds
  /\ controllerId \in ParticipantIds \cup {NoOne}
  /\ record \in [ParticipantIds -> Record]
  /\ \A p \in participants : record[p].name \in Names /\ phase[p] # "absent"
  /\ usedNonces \in SUBSET Nonces /\ banned \in SUBSET Names
  /\ nextSequence \in Nat /\ gridLog \in Seq(Grids)
  /\ Len(gridLog) = nextSequence + 1
  /\ snapshot \in SnapshotFrame \cup {NoSnapshot}
  /\ replay \in Seq(ReplayFrame)
  /\ phase \in [ParticipantIds -> Phases]
  /\ outbound \in [ParticipantIds -> Seq(OutboundMessage)]
  /\ welcome \in [ParticipantIds -> Seq(DataFrame)]
  /\ view \in [ParticipantIds ->
                 [sequence : Nat, grid : Grids, role : Roles]]
  /\ nonceOf \in [ParticipantIds -> Nonces \cup {Fresh}]

\* "One controller invariant": the session's controller_id and the roles in
\* the participant records always tell the same story, through grants that
\* demote a previous holder, drops of lagged participants in mid-grant,
\* departures and the close.
ControllerCoherent ==
  {p \in participants : record[p].role = "controller"}
    = {controllerId} \ {NoOne}

\* The retained frames are in increasing order, newer than the snapshot, no
\* newer than the stream, and at most MAX_REPLAY_FRAMES of them.
ReplayOrdered ==
  /\ Len(replay) <= MaxReplayFrames
  /\ \A i \in 1..Len(replay) :
       /\ replay[i].sequence <= nextSequence
       /\ snapshot # NoSnapshot => replay[i].sequence > snapshot.sequence
       /\ \A j \in 1..(i - 1) : replay[j].sequence < replay[i].sequence

\* replay_bytes is exactly what the window holds, within its limit: were it
\* to drift upwards, the eviction loop would spin on an empty window.
ReplayBytesExact ==
  replayBytes = Bytes(replay) /\ replayBytes <= MaxReplayBytes

\* What is on its way to p: the rest of the welcome and the queue behind it.
Line(p) == [i \in DOMAIN welcome[p] |-> Data(welcome[p][i])] \o outbound[p]

IsLast(i, S) == i \in S /\ \A j \in S : j <= i

\* The positions of the frames in a line ms, 0 standing for what comes before;
\* and the last frame a guest has, that had n before, at one of them.
Stops(ms) == {0} \cup {i \in DOMAIN ms : ms[i].type = "data"}
Reached(ms, n, i) == IF i = 0 THEN n ELSE ms[i].frame.sequence

\* Each frame is the next after the one before it; only the first may be a
\* snapshot, which may jump ahead but never back.
Continues(ms, n) ==
  \A i, j \in Stops(ms) : i < j /\ (\A k \in Stops(ms) : k <= i \/ j <= k) =>
    IF ms[j].frame.kind = "snapshot"
    THEN i = 0 /\ ms[j].frame.sequence >= n
    ELSE ms[j].frame.sequence = Reached(ms, n, i) + 1

EndsAt(ms, n, last) ==
  \A i \in Stops(ms) : IsLast(i, Stops(ms)) => Reached(ms, n, i) = last

\* "Frames are never silently skipped": for every participant still in the
\* session, what is on its way continues exactly where the wire left off, in
\* order, without gap or repetition, up to the newest frame.
StreamIntact ==
  \A p \in participants : Receiving(p) =>
    /\ Continues(Line(p), view[p].sequence)
    /\ EndsAt(Line(p), view[p].sequence, nextSequence)

\* A participant's own role, as the last role_changed on its way to it, or what
\* it has been shown, leaves it, is the role the host enforces.
Notices(p) ==
  {0} \cup {i \in DOMAIN outbound[p] :
            outbound[p][i].type = "role_changed" /\ outbound[p][i].id = p}
RoleNoticesConverge ==
  \A p \in participants : Receiving(p) =>
    \A i \in Notices(p) : IsLast(i, Notices(p)) =>
      (IF i = 0 THEN view[p].role ELSE outbound[p][i].role) = record[p].role

\* "Host grid changes arrive in the ordered terminal stream": everything on
\* its way to a participant leaves it with the host's grid.
Reflows(ms) ==
  {0} \cup {i \in DOMAIN ms : /\ ms[i].type = "data"
                            /\ ms[i].frame.kind \in {"resize", "snapshot"}}
LeavesGrid(ms, before, after) ==
  \A i \in Reflows(ms) : IsLast(i, Reflows(ms)) =>
    (IF i = 0 THEN before ELSE ms[i].frame.grid) = after
GridConverges ==
  ~closed => \A p \in participants : Receiving(p) =>
    LeavesGrid(Line(p), IF phase[p] = "joined" THEN grid ELSE view[p].grid, grid)

\* A nonce admits one participant in the life of the session, whoever leaves.
NonceAdmitsOnce ==
  \A p, q \in ParticipantIds :
    p # q /\ phase[p] # "absent" /\ phase[q] # "absent"
      => nonceOf[p] # nonceOf[q]

\* Closed is the last thing a connection is told, and only one that is no
\* longer a participant: no frame or notice ever queues up behind it.
NothingAfterClosed ==
  \A p \in ParticipantIds : \A i \in DOMAIN outbound[p] :
    outbound[p][i] = Closed => i = Len(outbound[p]) /\ p \notin participants

\* A connection whose participant is removed, banned, dropped as lagged or
\* closed with the session comes to an end, farewell received or not.
RevokedIsDisconnected ==
  \A p \in ParticipantIds :
    (Receiving(p) /\ p \notin participants) ~> (phase[p] = "dropped")

=============================================================================
