---------------------------- MODULE GuestLinkProofs ----------------------------
(***************************************************************************)
(* The session inside GuestLink is the session of HostedSession: nothing a *)
(* guest, its user or the network does makes it take a step of its own     *)
(* that HostedSession does not have.  What is proved of one session, in    *)
(* HostedSessionProofs, therefore holds of every session with guests; what *)
(* they type reaches the terminal once and in order; and across the loss   *)
(* of a connection no frame is skipped or sent twice.  The worker, its     *)
(* queues and its numbers keep to their bounds.  Taken together, the guest *)
(* and its host implement SharedTerminal.                                  *)
(***************************************************************************)
EXTENDS GuestLink, HostedSessionProofs

-----------------------------------------------------------------------------
(* The guest resumes after a frame it applied, which is one the host sent; *)
(* for that its socket must hold well-formed messages.                     *)

OnSocket == OutboundMessage \cup [type : {"joined"}, id : ParticipantIds]

GuestType ==
  /\ outputSequence \in Nat
  /\ down \in [ParticipantIds -> Seq(OnSocket)]
  /\ pc \in {"joining", "running"} => conn \in ParticipantIds

LinkInv == Inv /\ nextSequence \in 0..MaxSequence /\ GuestType

\* Frame, replay and snapshot are no newer than the stream (session.rs:646-677):
\* a join that resumes after a frame not published yet is refused.
LEMMA ResumeBound ==
  ASSUME StreamType, NEW after \in Nat, ReplayAvailable(after)
  PROVE  after <= nextSequence
<1>1. \A n \in Nat : Continuous(n) => n <= nextSequence
  BY DEF Continuous, Missing, StreamType
<1>2. after # Fresh
  BY ValuesAssumption
<1>3. SnapshotUsable => snapshot.sequence \in Nat
                          /\ snapshot.sequence <= nextSequence
  BY <1>1 DEF SnapshotUsable, StreamType, SnapshotFrame
<1>4. QED
  BY <1>1, <1>2, <1>3 DEF ReplayAvailable, StreamType

\* Opening a socket is the join of a new participant (guest.rs:289-353).
LEMMA OpenIsJoin ==
  ASSUME LinkInv, NEW p \in ParticipantIds, OpenSocket(p)
  PROVE  Next
<1>1. GuestName \in Names /\ p \in Nonces
  BY LinkAssumption
<1>2. Join(p, GuestName, p, ResumeAfter)
  BY DEF OpenSocket
<1>3. ResumeAfter \in {Fresh} \cup 0..MaxSequence
  <2>1. CASE welcomeId = NoOne
    BY <2>1 DEF ResumeAfter
  <2>2. CASE welcomeId # NoOne
    <3>1. ResumeAfter = outputSequence /\ outputSequence \in Nat
      BY <2>2 DEF ResumeAfter, LinkInv, GuestType
    <3>2. ReplayAvailable(outputSequence)
      BY <1>2, <3>1 DEF Join
    <3>3. outputSequence <= nextSequence
      BY <3>1, <3>2, ResumeBound DEF LinkInv, Inv
    <3>4. nextSequence \in 0..MaxSequence /\ MaxSequence \in Nat
      BY LimitsAssumption DEF LinkInv
    <3>5. QED
      BY <3>1, <3>3, <3>4
  <2>3. QED
    BY <2>1, <2>2
<1>4. GuestAction(p)
  BY <1>1, <1>2, <1>3 DEF GuestAction
<1>5. QED
  BY <1>4 DEF Next

\* Every other step of the worker and the user leaves the session alone.
LEMMA GuestLeavesSession ==
  ASSUME Worker \/ User, ~\E p \in ParticipantIds : OpenSocket(p)
  PROVE  UNCHANGED vars
<1>1. CASE Worker
  BY <1>1 DEF Worker, OpenFails, ReadJoined, SendCommand, SendFails, UserCloses,
     ReadFrame, ReadControl, ReadFails, KeepCommand, CloseWhileWaiting, WaitOver
<1>2. CASE User
  BY <1>2 DEF User, Welcomed, Type, AskControl, Give, CloseGuest, CloseReturns
<1>3. QED
  BY <1>1, <1>2

\* A connection thread of the host does what it does in HostedSession
\* (server.rs:274-424), or refuses what the guest sent.
LEMMA HostThreadStep ==
  ASSUME NEW p \in ParticipantIds, HostThread(p)
  PROVE  [Next]_vars
<1>1. CASE HostSends(p)
  <2>1. ThreadStep(p)
    BY <1>1 DEF HostSends, ThreadStep
  <2>2. QED
    BY <2>1 DEF Next
<1>2. CASE HostNotices(p)
  <2>1. GuestAction(p)
    BY <1>2 DEF HostNotices, GuestAction
  <2>2. QED
    BY <2>1 DEF Next
<1>3. CASE HostTakesInput(p)
  <2>1. AuthorizeInput(p, TRUE)
    BY <1>3 DEF HostTakesInput
  <2>2. GuestAction(p)
    BY <2>1 DEF GuestAction
  <2>3. QED
    BY <2>2 DEF Next
<1>4. CASE HostRefusesInput(p)
  BY <1>4 DEF HostRefusesInput
<1>5. CASE HostTakesRequest(p)
  <2>1. RequestControl(p) \/ ReleaseControl(p) \/ UNCHANGED vars
    BY <1>5 DEF HostTakesRequest
  <2>2. GuestAction(p) \/ UNCHANGED vars
    BY <2>1 DEF GuestAction
  <2>3. QED
    BY <2>2 DEF Next
<1>6. QED
  BY <1>1, <1>2, <1>3, <1>4, <1>5 DEF HostThread, HostReads

\* Every step of the link is a step of the session, or none.
LEMMA LinkStepIsSessionStep ==
  ASSUME LinkInv, [LinkNext]_linkVars
  PROVE  [Next]_vars
<1>1. CASE Worker \/ User
  BY <1>1, OpenIsJoin, GuestLeavesSession
<1>2. CASE HostUser
  <2>1. TerminalAction \/ \E p \in ParticipantIds : HostAction(p)
    BY <1>2 DEF HostUser, HostAction
  <2>2. QED
    BY <2>1 DEF Next
<1>3. ASSUME NEW p \in ParticipantIds, HostThread(p) PROVE [Next]_vars
  BY <1>3, HostThreadStep
<1>4. ASSUME NEW p \in ParticipantIds, Cut(p) PROVE [Next]_vars
  BY <1>4 DEF Cut
<1>5. CASE UNCHANGED linkVars
  BY <1>5 DEF linkVars
<1>6. QED
  BY <1>1, <1>2, <1>3, <1>4, <1>5 DEF LinkNext

-----------------------------------------------------------------------------
\* The stream never passes the bound put on it.
LEMMA StreamBound ==
  ASSUME Inv, nextSequence \in 0..MaxSequence, [Next]_vars
  PROVE  nextSequence' \in 0..MaxSequence
<1> USE LimitsAssumption DEF stream
<1>1. ASSUME NEW p \in ParticipantIds, GuestAction(p)
      PROVE  nextSequence' = nextSequence
  BY <1>1 DEF GuestAction, Join, RequestControl, ReleaseControl, AuthorizeInput,
     WelcomeFails, SocketEnds, LeaveSession
<1>2. ASSUME NEW p \in ParticipantIds, HostAction(p)
      PROVE  nextSequence' = nextSequence
  BY <1>2 DEF HostAction, SetController, SetObserver, RemoveParticipant,
     BanParticipant, TypingFades
<1>3. ASSUME NEW p \in ParticipantIds, ThreadStep(p)
      PROVE  nextSequence' = nextSequence
  BY <1>3 DEF ThreadStep, SendJoined, SendReplay, Forward, Finish, LeaveSession
<1>4. CASE TerminalAction
  BY <1>4 DEF TerminalAction, PublishOutput, PublishResize, PublishTerminalExit,
     Publish, SetSnapshot, Expire, Close
<1>5. CASE UNCHANGED vars
  BY <1>5 DEF vars
<1>6. QED
  BY <1>1, <1>2, <1>3, <1>4, <1>5 DEF Next

\* Taking the first message off a socket leaves well-formed ones.
LEMMA SocketTail ==
  ASSUME down \in [ParticipantIds -> Seq(OnSocket)], NEW p \in ParticipantIds,
         down[p] # <<>>
  PROVE  /\ [down EXCEPT ![p] = Tail(@)] \in [ParticipantIds -> Seq(OnSocket)]
         /\ Head(down[p]) \in OnSocket
<1>1. Tail(down[p]) \in Seq(OnSocket) /\ Head(down[p]) \in OnSocket
  OBVIOUS
<1>2. QED
  BY <1>1

\* Putting a message on a working socket, or losing it, keeps the guest's type.
LEMMA WireType ==
  ASSUME GuestType, NEW p \in ParticipantIds, NEW m \in OnSocket, Wire(p, m)
  PROVE  GuestType'
<1>1. Append(down[p], m) \in Seq(OnSocket)
  BY DEF GuestType
<1>2. down' \in [ParticipantIds -> Seq(OnSocket)]
  BY <1>1 DEF Wire, GuestType
<1>3. QED
  BY <1>2 DEF Wire, GuestType, guest, worker

\* A frame the guest takes off its socket has a number.
LEMMA FrameNumber ==
  ASSUME NEW m \in OnSocket, m.type = "data"
  PROVE  m.frame.sequence \in Nat
<1>1. m \in [type : {"data"}, frame : DataFrame]
  BY DEF OnSocket, OutboundMessage, Closed
<1>2. m.frame \in DataFrame
  BY <1>1
<1>3. QED
  BY <1>2 DEF DataFrame, ReplayFrame, SnapshotFrame

\* The worker's steps (guest.rs:355-533) keep the guest's type: the frame they
\* apply is a numbered one and a read is of a connection that was opened.
LEMMA WorkerType ==
  ASSUME LinkInv, Worker
  PROVE  GuestType'
<1> USE DEF GuestType
<1>1. GuestType
  BY DEF LinkInv
<1>2. ASSUME NEW p \in ParticipantIds, OpenSocket(p) PROVE GuestType'
  BY <1>1, <1>2 DEF OpenSocket
<1>3. CASE ReadJoined
  <2>1. conn \in ParticipantIds /\ down[conn] # <<>>
    BY <1>1, <1>3 DEF ReadJoined
  <2>2. QED
    BY <1>1, <1>3, <2>1, SocketTail DEF ReadJoined
<1>4. CASE ReadFrame
  <2>1. /\ conn \in ParticipantIds /\ down[conn] # <<>>
        /\ conn' = conn
        /\ down' = [down EXCEPT ![conn] = Tail(@)]
    BY <1>1, <1>4 DEF ReadFrame, Incoming, MayRead, Took, End
  <2>2. Head(down[conn]).frame.sequence \in Nat
    BY <1>1, <1>4, <2>1, SocketTail, FrameNumber DEF ReadFrame
  <2>3. outputSequence' \in {outputSequence, Head(down[conn]).frame.sequence}
    BY <1>4 DEF ReadFrame
  <2>4. QED
    BY <1>1, <2>1, <2>2, <2>3, SocketTail
<1>5. CASE ReadControl
  <2>1. /\ conn \in ParticipantIds /\ down[conn] # <<>>
        /\ conn' = conn
        /\ down' = [down EXCEPT ![conn] = Tail(@)]
        /\ outputSequence' = outputSequence
    BY <1>1, <1>5 DEF ReadControl, Incoming, MayRead, Took, End
  <2>2. QED
    BY <1>1, <2>1, SocketTail
<1>6. CASE OpenFails \/ SendCommand \/ SendFails \/ UserCloses
  BY <1>1, <1>6 DEF OpenFails, SendCommand, SendFails, UserCloses, End, Retry
<1>7. CASE ReadFails \/ KeepCommand \/ CloseWhileWaiting \/ WaitOver
  BY <1>1, <1>7 DEF ReadFails, KeepCommand, CloseWhileWaiting, WaitOver, End,
     Retry, network
<1>8. QED
  BY <1>2, <1>3, <1>4, <1>5, <1>6, <1>7 DEF Worker

\* What the host's connection threads write (server.rs:235-301) is well formed.
LEMMA HostThreadType ==
  ASSUME LinkInv, NEW p \in ParticipantIds, HostThread(p)
  PROVE  GuestType'
<1>1. /\ GuestType
      /\ welcome[p] \in Seq(DataFrame) /\ outbound[p] \in Seq(OutboundMessage)
  BY DEF LinkInv, Inv, ThreadType, QueueType
<1>2. CASE HostSends(p)
  <2>1. CASE SendJoined(p) /\ Wire(p, Joined(p))
    <3>1. Joined(p) \in OnSocket
      BY DEF Joined, OnSocket
    <3>2. QED
      BY <1>1, <2>1, <3>1, WireType
  <2>2. CASE SendReplay(p) /\ welcome[p] # <<>>
               /\ Wire(p, Data(Head(welcome[p])))
    <3>1. Head(welcome[p]) \in DataFrame
      BY <1>1, <2>2
    <3>2. Data(Head(welcome[p])) \in OnSocket
      BY <3>1, MessageType DEF OnSocket
    <3>3. QED
      BY <1>1, <2>2, <3>2, WireType
  <2>3. CASE Forward(p) /\ Wire(p, Head(outbound[p]))
    <3>1. Head(outbound[p]) \in OnSocket
      BY <1>1, <2>3 DEF Forward, OnSocket
    <3>2. QED
      BY <1>1, <2>3, <3>1, WireType
  <2>4. CASE Finish(p) /\ Wire(p, Closed)
    <3>1. Closed \in OnSocket
      BY DEF OnSocket, OutboundMessage
    <3>2. QED
      BY <1>1, <2>4, <3>1, WireType
  <2>5. CASE Unwired
    BY <1>1, <2>5 DEF Unwired, guest, worker, network, GuestType
  <2>6. QED
    BY <1>2, <2>1, <2>2, <2>3, <2>4, <2>5 DEF HostSends
<1>3. CASE HostNotices(p)
  BY <1>1, <1>3 DEF HostNotices, Unwired, guest, worker, network, GuestType
<1>4. CASE HostReads(p)
  BY <1>1, <1>4 DEF HostReads, HostTakesInput, HostRefusesInput,
     HostTakesRequest, Heard, guest, worker, GuestType
<1>5. QED
  BY <1>2, <1>3, <1>4 DEF HostThread

\* Every step keeps the link's invariant.
LEMMA LinkStepInv ==
  ASSUME LinkInv, [LinkNext]_linkVars
  PROVE  LinkInv'
<1>1. [Next]_vars
  BY LinkStepIsSessionStep
<1>2. Inv' /\ nextSequence' \in 0..MaxSequence
  BY <1>1, StepInv, StreamBound DEF LinkInv
<1>3. GuestType'
  <2>1. CASE Worker
    BY <2>1, WorkerType
  <2>2. CASE User
    BY <2>2 DEF User, Welcomed, Type, AskControl, Give, CloseGuest, CloseReturns,
       worker,
       network, LinkInv, GuestType
  <2>3. CASE HostUser
    BY <2>3 DEF HostUser, Unwired, guest, worker, network, LinkInv, GuestType
  <2>4. ASSUME NEW p \in ParticipantIds, HostThread(p) PROVE GuestType'
    BY <2>4, HostThreadType
  <2>5. ASSUME NEW p \in ParticipantIds, Cut(p) PROVE GuestType'
    BY <2>5 DEF Cut, guest, worker, LinkInv, GuestType
  <2>6. CASE UNCHANGED linkVars
    BY <2>6 DEF linkVars, guest, worker, network, LinkInv, GuestType
  <2>7. QED
    BY <2>1, <2>2, <2>3, <2>4, <2>5, <2>6 DEF LinkNext
<1>4. QED
  BY <1>2, <1>3 DEF LinkInv

\* The link's invariant holds before the first connection is opened.
LEMMA LinkInitInv == LinkInit => LinkInv
<1> SUFFICES ASSUME LinkInit PROVE LinkInv
  OBVIOUS
<1>1. Inv
  BY InitInv DEF LinkInit
<1>2. nextSequence \in 0..MaxSequence
  BY LimitsAssumption DEF LinkInit, Init
<1>3. GuestType
  BY DEF LinkInit, GuestType
<1>4. QED
  BY <1>1, <1>2, <1>3 DEF LinkInv

-----------------------------------------------------------------------------
\* A hosted session with a guest that comes and goes over failing sockets is a
\* hosted session: GuestLink implements HostedSession.
THEOREM LinkImplementsSession == LinkSpec => Spec
<1>1. LinkInit => Init
  BY DEF LinkInit
<1>2. LinkInv /\ [LinkNext]_linkVars => [Next]_vars
  BY LinkStepIsSessionStep
<1>3. LinkInv /\ [LinkNext]_linkVars => LinkInv'
  BY LinkStepInv
<1>4. QED
  BY <1>1, <1>2, <1>3, LinkInitInv, PTL DEF LinkSpec, Spec

\* However guests come, go and come back, the controller the session names and
\* the roles in its records tell the same story.
THEOREM OneControllerLinked == LinkSpec => []ControllerCoherent
  BY LinkImplementsSession, OneController, PTL

-----------------------------------------------------------------------------
(* Typed input: the numbers it carries rise from what the shell has to     *)
(* what the guest types next.                                              *)

Wired == [kind : {"input"}, number : 1..MaxIssued, sequence : Nat]
           \cup {Request, Release}

InputsOf(q) == {i \in DOMAIN q : q[i].kind = "input"}
NumbersOf(q) == {q[i].number : i \in InputsOf(q)}
Rising(q) == \A i, j \in InputsOf(q) : i < j => q[i].number < q[j].number
AllBelow(A, B) == \A a \in A, b \in B : a < b

\* Written, on its way, kept back, and not taken yet.
Chain(W, U, P, C) ==
  /\ AllBelow(W, U) /\ AllBelow(W, P) /\ AllBelow(W, C)
  /\ AllBelow(U, P) /\ AllBelow(U, C) /\ AllBelow(P, C)

WrittenNumbers == {written[i] : i \in DOMAIN written}
\* What the host may still read.
Upward ==
  {n \in 1..MaxIssued : \E p \in ParticipantIds : /\ phase[p] # "dropped"
                                                  /\ n \in NumbersOf(up[p])}

OrderType ==
  /\ issued \in 0..MaxIssued /\ inputSequence \in Nat
  /\ commands \in Seq(Command) /\ pending \in Seq(Command)
  /\ up \in [ParticipantIds -> Seq(Wired)]
  /\ written \in Seq(1..MaxIssued)

OrderRising ==
  /\ InputOnceInOrder /\ Rising(commands) /\ Rising(pending)
  /\ \A p \in ParticipantIds : Rising(up[p])
  /\ Chain(WrittenNumbers, Upward, NumbersOf(pending), NumbersOf(commands))
  /\ \A n \in WrittenNumbers \cup Upward \cup NumbersOf(pending) \cup NumbersOf(commands) :
       n <= issued

\* One socket at most has input the host may read: a connection is given up when
\* nothing it holds can be read any more.
OneSocket ==
  /\ \A p \in ParticipantIds : up[p] # <<>> /\ phase[p] # "dropped" =>
       p = conn /\ pc \in {"running", "ended"}
  /\ pc = "running" /\ conn \notin live => up[conn] = <<>> \/ phase[conn] = "dropped"

OrderInv == OrderType /\ OrderRising /\ OneSocket

LEMMA Elements ==
  ASSUME NEW S, NEW q \in Seq(S)
  PROVE  \A i \in DOMAIN q : q[i] \in S
OBVIOUS

LEMMA AppendNumbers ==
  ASSUME NEW q \in Seq(Command \cup Wired), NEW m \in Command \cup Wired
  PROVE  /\ m.kind = "input" => NumbersOf(Append(q, m)) = NumbersOf(q) \cup {m.number}
         /\ m.kind # "input" => NumbersOf(Append(q, m)) = NumbersOf(q)
         /\ Rising(q) /\ (m.kind = "input" => AllBelow(NumbersOf(q), {m.number})) =>
              Rising(Append(q, m))
<1> DEFINE r == Append(q, m)
           n == Len(q)
<1>1. /\ n \in Nat /\ DOMAIN q = 1..n /\ DOMAIN r = 1..(n + 1)
      /\ \A i \in 1..n : r[i] = q[i]
      /\ r[n + 1] = m
  OBVIOUS
<1> HIDE DEF r, n
<1>2. m.kind = "input" => InputsOf(r) = InputsOf(q) \cup {n + 1}
  BY <1>1 DEF InputsOf
<1>3. m.kind # "input" => InputsOf(r) = InputsOf(q)
  BY <1>1 DEF InputsOf
<1>4. \A i \in InputsOf(q) : i \in 1..n /\ r[i] = q[i]
  BY <1>1 DEF InputsOf
<1>5. m.kind = "input" => NumbersOf(r) = NumbersOf(q) \cup {m.number}
  BY <1>1, <1>2, <1>4 DEF NumbersOf
<1>6. m.kind # "input" => NumbersOf(r) = NumbersOf(q)
  BY <1>3, <1>4 DEF NumbersOf
<1>7. ASSUME Rising(q), m.kind = "input" => AllBelow(NumbersOf(q), {m.number})
      PROVE  Rising(r)
  <2> SUFFICES ASSUME NEW i \in InputsOf(r), NEW j \in InputsOf(r), i < j
               PROVE  r[i].number < r[j].number
    BY DEF Rising
  <2>1. CASE j \in InputsOf(q)
    <3>1. i \in InputsOf(q)
      BY <1>1, <1>2, <1>3, <1>4, <2>1
    <3> QED
      BY <1>4, <1>7, <2>1, <3>1 DEF Rising
  <2>2. CASE j \notin InputsOf(q)
    <3>1. m.kind = "input" /\ j = n + 1 /\ r[j] = m
      BY <1>1, <1>2, <1>3, <2>2
    <3>2. i \in InputsOf(q)
      BY <1>2, <3>1
    <3>3. q[i].number \in NumbersOf(q) /\ r[i] = q[i]
      BY <1>4, <3>2 DEF NumbersOf
    <3> QED
      BY <1>7, <3>1, <3>3 DEF AllBelow
  <2> QED
    BY <2>1, <2>2
<1> QED
  BY <1>5, <1>6, <1>7 DEF r

LEMMA TailNumbers ==
  ASSUME NEW q \in Seq(Command \cup Wired), q # <<>>
  PROVE  /\ NumbersOf(Tail(q)) \subseteq NumbersOf(q)
         /\ Rising(q) => Rising(Tail(q))
         /\ Head(q).kind = "input" => Head(q).number \in NumbersOf(q)
         /\ Head(q).kind = "input" /\ Rising(q) =>
              AllBelow({Head(q).number}, NumbersOf(Tail(q)))
<1> DEFINE r == Tail(q)
           n == Len(q)
<1>1. /\ n \in Nat /\ n >= 1 /\ DOMAIN q = 1..n /\ DOMAIN r = 1..(n - 1)
      /\ \A i \in 1..(n - 1) : r[i] = q[i + 1]
      /\ Head(q) = q[1]
  OBVIOUS
<1> HIDE DEF r, n
<1>2. \A i \in InputsOf(r) : i \in 1..(n - 1) /\ i + 1 \in InputsOf(q) /\ r[i] = q[i + 1]
  BY <1>1 DEF InputsOf
<1>3. NumbersOf(r) \subseteq NumbersOf(q)
  BY <1>2 DEF NumbersOf
<1>4. ASSUME Rising(q)
      PROVE  Rising(r)
  BY <1>2, <1>4 DEF Rising
<1>5. ASSUME Head(q).kind = "input"
      PROVE  1 \in InputsOf(q) /\ Head(q).number \in NumbersOf(q)
  BY <1>1, <1>5 DEF InputsOf, NumbersOf
<1>6. ASSUME Head(q).kind = "input", Rising(q), NEW b \in NumbersOf(r)
      PROVE  Head(q).number < b
  <2>1. PICK i \in InputsOf(r) : b = r[i].number
    BY <1>6 DEF NumbersOf
  <2>2. i + 1 \in InputsOf(q) /\ 1 < i + 1 /\ b = q[i + 1].number
    BY <1>2, <2>1
  <2> QED
    BY <1>1, <1>5, <1>6, <2>2 DEF Rising
<1> QED
  BY <1>3, <1>4, <1>5, <1>6 DEF r, AllBelow

LEMMA NoNumbers == NumbersOf(<<>>) = {} /\ Rising(<<>>)
BY DEF NumbersOf, InputsOf, Rising

LEMMA NumbersType ==
  ASSUME NEW q \in Seq(Command \cup Wired)
  PROVE  NumbersOf(q) \subseteq 1..MaxIssued
BY DEF NumbersOf, InputsOf, Command, Wired, Request, Release, CloseLink

\* Inputs that are lost leave the others in order.
LEMMA OrderShrinks ==
  ASSUME OrderInv, OrderType', OneSocket', written' = written, issued' = issued,
         Rising(commands)', Rising(pending)', \A p \in ParticipantIds : Rising(up[p])',
         Upward' \subseteq Upward, NumbersOf(pending)' \subseteq NumbersOf(pending),
         NumbersOf(commands)' \subseteq NumbersOf(commands)
  PROVE  OrderInv'
<1>1. WrittenNumbers' = WrittenNumbers /\ InputOnceInOrder'
  BY DEF WrittenNumbers, InputOnceInOrder, OrderInv, OrderRising
<1>2. Chain(WrittenNumbers, Upward, NumbersOf(pending), NumbersOf(commands))'
  BY <1>1 DEF OrderInv, OrderRising, Chain, AllBelow
<1> QED
  BY <1>1, <1>2 DEF OrderInv, OrderRising

\* A connection the host has let go of is never served again.
DroppedStays ==
  \A p \in ParticipantIds : phase[p] = "dropped" => phase'[p] = "dropped"

LEMMA SessionDrops ==
  ASSUME Inv, [Next]_vars
  PROVE  DroppedStays
<1> USE DEF threads, DroppedStays
<1>0. DOMAIN phase = ParticipantIds
  BY DEF Inv, ThreadType
<1>1. ASSUME NEW p \in ParticipantIds, GuestAction(p)
      PROVE  DroppedStays
  BY <1>0, <1>1 DEF GuestAction, Join, RequestControl, ReleaseControl, AuthorizeInput,
     WelcomeFails, SocketEnds, LeaveSession
<1>2. ASSUME NEW p \in ParticipantIds, HostAction(p)
      PROVE  DroppedStays
  BY <1>2 DEF HostAction, SetController, SetObserver, RemoveParticipant,
     BanParticipant, TypingFades
<1>3. ASSUME NEW p \in ParticipantIds, ThreadStep(p)
      PROVE  DroppedStays
  BY <1>0, <1>3 DEF ThreadStep, SendJoined, SendReplay, Forward, Finish, LeaveSession
<1>4. CASE TerminalAction
  BY <1>4 DEF TerminalAction, PublishOutput, PublishResize, PublishTerminalExit,
     Publish, SetSnapshot, Expire, Close
<1>5. CASE UNCHANGED vars
  BY <1>5 DEF vars
<1>6. QED
  BY <1>1, <1>2, <1>3, <1>4, <1>5 DEF Next

\* What the host may still read grows only with what is sent.
LEMMA UpwardShrinks ==
  ASSUME DroppedStays,
         \A p \in ParticipantIds : NumbersOf(up[p])' \subseteq NumbersOf(up[p])
  PROVE  Upward' \subseteq Upward
BY DEF DroppedStays, Upward

\* Steps that neither give, send, keep back nor take an input.
Quiet ==
  /\ UNCHANGED <<issued, pending, written>>
  /\ inputSequence' \in {inputSequence, 0} /\ commands' \in {commands, <<>>}

LEMMA QuietStep ==
  ASSUME OrderInv, DroppedStays, Quiet, OneSocket',
         up' \in [ParticipantIds -> Seq(Wired)],
         \A p \in ParticipantIds : up'[p] = up[p] \/ up'[p] = <<>>
  PROVE  OrderInv'
<1>1. OrderType' /\ Rising(commands)' /\ Rising(pending)'
  <2>1. OrderType'
    <3>1. commands' \in Seq(Command) /\ pending' \in Seq(Command)
      <4>1. <<>> \in Seq(Command)
        OBVIOUS
      <4>2. commands' \in {commands, <<>>} /\ pending' = pending
        BY DEF Quiet
      <4>3. commands \in Seq(Command) /\ pending \in Seq(Command)
        BY DEF OrderInv, OrderType
      <4> QED
        BY <4>1, <4>2, <4>3
    <3>2. issued' \in 0..MaxIssued /\ inputSequence' \in Nat
      BY DEF OrderInv, OrderType, Quiet
    <3>3. written' \in Seq(1..MaxIssued)
      BY DEF OrderInv, OrderType, Quiet
    <3> QED
      BY <3>1, <3>2, <3>3 DEF OrderType
  <2>2. Rising(pending)'
    BY DEF OrderInv, OrderRising, Quiet
  <2>3. CASE commands' = commands
    BY <2>1, <2>2, <2>3 DEF OrderInv, OrderRising
  <2>4. CASE commands' = <<>>
    BY <2>1, <2>2, <2>4, NoNumbers
  <2> QED
    BY <2>3, <2>4 DEF Quiet
<1>2. \A p \in ParticipantIds : /\ Rising(up[p])'
                               /\ NumbersOf(up[p])' \subseteq NumbersOf(up[p])
  BY NoNumbers DEF OrderInv, OrderRising
<1>3. Upward' \subseteq Upward
  BY <1>2, UpwardShrinks
<1>4. /\ NumbersOf(commands)' \subseteq NumbersOf(commands)
      /\ NumbersOf(pending)' \subseteq NumbersOf(pending)
  BY NoNumbers DEF Quiet
<1> QED
  BY <1>1, <1>2, <1>3, <1>4, OrderShrinks DEF Quiet

\* The worker where it was, on the connection it has.
LEMMA SocketKept ==
  ASSUME OneSocket, GuestType, DroppedStays, UNCHANGED <<pc, conn>>,
         \A p \in ParticipantIds : up'[p] # <<>> => up[p] # <<>>,
         conn \notin live' => conn \notin live \/ up'[conn] = <<>>
  PROVE  OneSocket'
BY DEF OneSocket, DroppedStays, GuestType

\* The host's threads, its user and the network.
LEMMA HostOrder ==
  ASSUME LinkInv, OrderInv, DroppedStays,
         \/ HostUser
         \/ \E p \in ParticipantIds : HostSends(p) \/ HostNotices(p) \/ Cut(p)
  PROVE  OrderInv'
<1>1. Quiet /\ UNCHANGED <<pc, conn>>
  BY DEF HostUser, HostSends, HostNotices, Cut, Wire, Unwired, guest, worker, webview, Quiet
<1>2. /\ DOMAIN up = ParticipantIds /\ up \in [ParticipantIds -> Seq(Wired)]
      /\ OneSocket /\ GuestType
  BY DEF OrderInv, OrderType, LinkInv
<1>3. CASE UNCHANGED <<live, up>>
  BY <1>1, <1>2, <1>3, SocketKept, QuietStep
<1>4. ASSUME NEW p \in ParticipantIds, Cut(p)
      PROVE  OrderInv'
  <2>1. live' = live \ {p} /\ up' = [up EXCEPT ![p] = <<>>]
    BY <1>4 DEF Cut
  <2>2. \A q \in ParticipantIds : up'[q] = up[q] \/ up'[q] = <<>>
    BY <1>2, <2>1
  <2>3. up' \in [ParticipantIds -> Seq(Wired)]
    BY <1>2, <2>1
  <2>4. conn \notin live' => conn \notin live \/ up'[conn] = <<>>
    BY <1>2, <2>1
  <2>5. OneSocket'
    BY <1>1, <1>2, <2>2, <2>4, SocketKept
  <2> QED
    BY <1>1, <2>2, <2>3, <2>5, QuietStep
<1> QED
  BY <1>3, <1>4 DEF HostUser, HostSends, HostNotices, Wire, Unwired, network

\* What the host reads is the oldest on its socket; an input it takes comes after
\* those written and before all that is left.
LEMMA ReadsOrder ==
  ASSUME LinkInv, OrderInv, DroppedStays, NEW p \in ParticipantIds, HostReads(p)
  PROVE  OrderInv'
<1>1. /\ UNCHANGED <<pc, conn, live, issued, inputSequence, commands, pending>>
      /\ up' = [up EXCEPT ![p] = Tail(@)]
      /\ phase[p] = "running" /\ up[p] # <<>>
  BY DEF HostReads, HostTakesInput, HostRefusesInput, HostTakesRequest, Heard,
     guest, worker, webview
<1>2. /\ up \in [ParticipantIds -> Seq(Wired)] /\ up[p] \in Seq(Wired)
      /\ OneSocket /\ GuestType
  BY DEF OrderInv, OrderType, LinkInv
<1>3. /\ up[p] \in Seq(Command \cup Wired) /\ Tail(up[p]) \in Seq(Wired)
      /\ Head(up[p]) \in Wired
  BY <1>1, <1>2
<1>4. \A q \in ParticipantIds : up'[q] = IF q = p THEN Tail(up[p]) ELSE up[q]
  BY <1>1, <1>2
<1>5. /\ NumbersOf(Tail(up[p])) \subseteq NumbersOf(up[p])
      /\ Rising(up[p]) => Rising(Tail(up[p]))
  BY <1>1, <1>3, TailNumbers
<1>6. \A q \in ParticipantIds : /\ Rising(up[q])'
                               /\ NumbersOf(up[q])' \subseteq NumbersOf(up[q])
  BY <1>4, <1>5 DEF OrderInv, OrderRising
<1>7. Upward' \subseteq Upward
  BY <1>6, UpwardShrinks
<1>8. OneSocket'
  <2>1. \A q \in ParticipantIds : up'[q] # <<>> => up[q] # <<>>
    BY <1>1, <1>4
  <2> QED
    BY <1>1, <1>2, <2>1, SocketKept
<1>9. up' \in [ParticipantIds -> Seq(Wired)]
  BY <1>1, <1>2, <1>3
<1>10. CASE UNCHANGED written
  <2>1. OrderType' /\ Rising(commands)' /\ Rising(pending)'
    BY <1>1, <1>9, <1>10 DEF OrderInv, OrderType, OrderRising
  <2> QED
    BY <1>1, <1>6, <1>7, <1>8, <1>10, <2>1, OrderShrinks
<1>11. CASE HostTakesInput(p)
  <2> DEFINE h == Head(up[p]).number
  <2>1. Head(up[p]).kind = "input" /\ written' = Append(written, h)
    BY <1>11 DEF HostTakesInput
  <2>2. h \in NumbersOf(up[p]) /\ AllBelow({h}, NumbersOf(Tail(up[p])))
    BY <1>1, <1>3, <2>1, TailNumbers DEF OrderInv, OrderRising
  <2>3. h \in 1..MaxIssued /\ h \in Upward
    BY <1>1, <1>3, <2>2, NumbersType DEF Upward
  <2>4. AllBelow({h}, Upward')
    <3> SUFFICES ASSUME NEW n \in Upward' PROVE h < n
      BY DEF AllBelow
    <3>1. PICK q \in ParticipantIds : phase'[q] # "dropped" /\ n \in NumbersOf(up'[q])
      BY DEF Upward
    <3>2. phase[q] # "dropped" /\ up[q] # <<>>
      BY <1>6, <3>1, NoNumbers DEF DroppedStays
    <3>3. q = p
      BY <1>1, <1>2, <3>2 DEF OneSocket
    <3> QED
      BY <1>4, <2>2, <3>1, <3>3 DEF AllBelow
  <2>5. /\ written \in Seq(1..MaxIssued) /\ written' \in Seq(1..MaxIssued)
        /\ WrittenNumbers' = WrittenNumbers \cup {h}
    <3>1. written \in Seq(1..MaxIssued)
      BY DEF OrderInv, OrderType
    <3> QED
      BY <2>1, <2>3, <3>1 DEF WrittenNumbers
  <2>6. AllBelow(WrittenNumbers, {h})
    BY <2>3 DEF OrderInv, OrderRising, Chain, AllBelow
  <2>7. InputOnceInOrder'
    <3> SUFFICES ASSUME NEW i \in DOMAIN written', NEW j \in DOMAIN written', i < j
                 PROVE  written'[i] < written'[j]
      BY DEF InputOnceInOrder
    <3>1. /\ DOMAIN written' = 1..(Len(written) + 1) /\ Len(written) \in Nat
          /\ written'[Len(written) + 1] = h
          /\ \A k \in DOMAIN written : written'[k] = written[k]
          /\ DOMAIN written = 1..Len(written)
      BY <2>1, <2>5
    <3>2. CASE j = Len(written) + 1
      <4>1. i \in DOMAIN written /\ written[i] \in WrittenNumbers
        BY <3>1, <3>2 DEF WrittenNumbers
      <4> QED
        BY <2>6, <3>1, <3>2, <4>1 DEF AllBelow
    <3>3. CASE j # Len(written) + 1
      <4>1. i \in DOMAIN written /\ j \in DOMAIN written
        BY <3>1, <3>3
      <4> QED
        BY <3>1, <4>1 DEF OrderInv, OrderRising, InputOnceInOrder
    <3> QED
      BY <3>2, <3>3
  <2> HIDE DEF h
  <2>8. Chain(WrittenNumbers, Upward, NumbersOf(pending), NumbersOf(commands))
    BY DEF OrderInv, OrderRising
  <2>9. Chain(WrittenNumbers, Upward, NumbersOf(pending), NumbersOf(commands))'
    BY <1>1, <1>7, <2>3, <2>4, <2>5, <2>6, <2>8 DEF Chain, AllBelow
  <2>10. OrderRising'
    BY <1>1, <1>6, <1>7, <2>3, <2>5, <2>7, <2>9 DEF OrderInv, OrderRising
  <2>11. OrderType'
    BY <1>1, <1>9, <2>5 DEF OrderInv, OrderType
  <2> QED
    BY <1>8, <2>10, <2>11 DEF OrderInv
<1> QED
  BY <1>10, <1>11 DEF HostReads, HostRefusesInput, HostTakesRequest

\* A worker without a connection has left nothing behind that will be read, nor
\* one whose connection is dead.
Cleared == \A p \in ParticipantIds : up[p] # <<>> => phase[p] = "dropped"

LEMMA NothingLeft ==
  ASSUME OneSocket, GuestType,
         \/ pc \in {"opening", "joining", "waiting"}
         \/ pc = "running" /\ (conn \notin live \/ phase[conn] = "dropped")
  PROVE  Cleared
BY DEF OneSocket, GuestType, Cleared

\* Moving on from there leaves one socket at most.
LEMMA SocketFree ==
  ASSUME Cleared, DroppedStays, up' = up,
         pc' = "running" => conn' \in ParticipantIds
  PROVE  OneSocket'
BY DEF Cleared, DroppedStays, OneSocket

\* Steps of the worker that give up, get or wait for a connection, or read from
\* it (guest.rs:289-353, 422-533), and those of the view that type nothing.
LEMMA QuietWorker ==
  ASSUME LinkInv, OrderInv, DroppedStays, GuestType',
         \/ \E p \in ParticipantIds : OpenSocket(p)
         \/ OpenFails \/ ReadJoined \/ UserCloses \/ ReadFrame \/ ReadControl
         \/ ReadFails \/ CloseWhileWaiting \/ WaitOver \/ Welcomed \/ CloseReturns
  PROVE  OrderInv'
<1>0. /\ GuestType /\ OneSocket /\ up \in [ParticipantIds -> Seq(Wired)]
  BY DEF LinkInv, OrderInv, OrderType
<1>1. Quiet /\ up' = up
  <2>1. CASE (\E p \in ParticipantIds : OpenSocket(p)) \/ OpenFails \/ ReadJoined
    BY <2>1 DEF OpenSocket, OpenFails, ReadJoined, Quiet, webview
  <2>2. CASE UserCloses \/ ReadFrame \/ ReadControl
    BY <2>2 DEF UserCloses, ReadFrame, ReadControl, End, Took, Quiet
  <2>3. CASE ReadFails \/ CloseWhileWaiting
    BY <2>3 DEF ReadFails, CloseWhileWaiting, End, Retry, Quiet
  <2>4. CASE WaitOver \/ Welcomed \/ CloseReturns
    BY <2>4 DEF WaitOver, Welcomed, CloseReturns, Quiet, worker, network, webview
  <2> QED
    BY <2>1, <2>2, <2>3, <2>4
<1>2. OneSocket'
  <2>1. CASE (\E p \in ParticipantIds : OpenSocket(p)) \/ OpenFails \/ ReadJoined
               \/ CloseWhileWaiting \/ WaitOver
    <3>1. pc \in {"opening", "joining", "waiting"}
      BY <2>1 DEF OpenSocket, OpenFails, ReadJoined, CloseWhileWaiting, WaitOver
    <3> QED
      BY <1>0, <1>1, <3>1, NothingLeft, SocketFree DEF GuestType
  <2>2. CASE ReadFails
    <3>1. pc = "running" /\ (conn \notin live \/ phase[conn] = "dropped")
      BY <2>2 DEF ReadFails, MayRead
    <3> QED
      BY <1>0, <1>1, <3>1, NothingLeft, SocketFree DEF GuestType
  <2>3. CASE UserCloses \/ ReadFrame \/ ReadControl
    <3>1. /\ pc = "running" /\ conn' = conn
          /\ \/ pc' = "ended"
             \/ pc' = pc /\ live' = live
      BY <2>3 DEF UserCloses, ReadFrame, ReadControl, Incoming, MayRead, End
    <3>2. CASE pc' = "ended"
      BY <1>0, <1>1, <3>1, <3>2 DEF OneSocket, DroppedStays
    <3>3. CASE pc' = pc /\ live' = live
      BY <1>0, <1>1, <3>1, <3>3, SocketKept
    <3> QED
      BY <3>1, <3>2, <3>3
  <2>4. CASE Welcomed \/ CloseReturns
    <3>1. UNCHANGED <<pc, conn, live>>
      BY <2>4 DEF Welcomed, CloseReturns, worker, network
    <3> QED
      BY <1>0, <1>1, <3>1, SocketKept
  <2> QED
    BY <2>1, <2>2, <2>3, <2>4
<1> QED
  BY <1>0, <1>1, <1>2, QuietStep

\* The user gives a command (guest.rs:147-247), or closes.
LEMMA GivesOrder ==
  ASSUME LinkInv, OrderInv, DroppedStays, Type \/ AskControl \/ CloseGuest
  PROVE  OrderInv'
<1>0. /\ UNCHANGED <<pc, conn, live, pending, inputSequence, up, written>>
      /\ GuestType /\ OneSocket /\ up \in [ParticipantIds -> Seq(Wired)]
      /\ commands \in Seq(Command) /\ commands \in Seq(Command \cup Wired)
      /\ issued \in 0..MaxIssued /\ MaxIssued \in Nat
  BY LinkAssumption DEF Type, AskControl, Give, CloseGuest, worker, network, LinkInv,
     OrderInv, OrderType
<1>1. OneSocket'
  BY <1>0, SocketKept
<1>2. Upward' \subseteq Upward
  BY <1>0, UpwardShrinks
<1>3. /\ OrderRising
      /\ NumbersOf(pending)' = NumbersOf(pending) /\ WrittenNumbers' = WrittenNumbers
      /\ Rising(pending)' /\ \A p \in ParticipantIds : Rising(up[p])'
      /\ InputOnceInOrder'
  BY <1>0 DEF OrderInv, OrderRising, WrittenNumbers, InputOnceInOrder
<1>4. ASSUME NEW c \in Command, commands' = Append(commands, c),
             issued' = issued \/ issued' = issued + 1, issued' <= MaxIssued,
             c.kind = "input" => c.number = issued + 1 /\ issued' = issued + 1
      PROVE  OrderInv'
  <2>1. commands' \in Seq(Command) /\ issued' \in 0..MaxIssued
    BY <1>0, <1>4
  <2>2. OrderType'
    BY <1>0, <2>1 DEF OrderInv, OrderType
  <2>3. \A n \in WrittenNumbers \cup Upward \cup NumbersOf(pending)
                   \cup NumbersOf(commands) : n <= issued
    BY <1>3 DEF OrderRising
  <2>4. /\ NumbersOf(commands) \subseteq 1..MaxIssued
        /\ NumbersOf(pending) \subseteq 1..MaxIssued
        /\ WrittenNumbers \subseteq 1..MaxIssued /\ Upward \subseteq 1..MaxIssued
    <3>1. pending \in Seq(Command \cup Wired)
      <4>1. pending \in Seq(Command)
        BY DEF OrderInv, OrderType
      <4> QED
        BY <4>1
    <3>2. WrittenNumbers \subseteq 1..MaxIssued
      <4>1. written \in Seq(1..MaxIssued)
        BY DEF OrderInv, OrderType
      <4>2. \A i \in DOMAIN written : written[i] \in 1..MaxIssued
        BY <4>1, Elements
      <4> QED
        BY <4>2 DEF WrittenNumbers
    <3> QED
      BY <1>0, <3>1, <3>2, NumbersType DEF Upward
  <2>5. c.kind = "input" => /\ AllBelow(NumbersOf(commands), {c.number})
                            /\ AllBelow(NumbersOf(pending), {c.number})
                            /\ AllBelow(WrittenNumbers, {c.number})
                            /\ AllBelow(Upward, {c.number})
    BY <1>0, <1>4, <2>3, <2>4 DEF AllBelow
  <2>6. /\ Rising(commands')
        /\ NumbersOf(commands') \subseteq NumbersOf(commands)
              \cup (IF c.kind = "input" THEN {c.number} ELSE {})
    <3>1. c \in Command \cup Wired /\ Rising(commands)
      BY <1>3 DEF OrderRising
    <3> QED
      BY <1>0, <1>4, <2>5, <3>1, AppendNumbers
  <2>7. Chain(WrittenNumbers, Upward, NumbersOf(pending), NumbersOf(commands))
    BY <1>3 DEF OrderRising
  <2>8. Chain(WrittenNumbers, Upward, NumbersOf(pending), NumbersOf(commands'))
    BY <2>5, <2>6, <2>7 DEF Chain, AllBelow
  <2>9. Chain(WrittenNumbers, Upward, NumbersOf(pending), NumbersOf(commands))'
    BY <1>2, <1>3, <2>8 DEF Chain, AllBelow
  <2>10. \A n \in WrittenNumbers \cup Upward \cup NumbersOf(pending)
                   \cup NumbersOf(commands') : n <= issued'
    BY <1>0, <1>4, <2>3, <2>4, <2>6
  <2>11. OrderRising'
    BY <1>2, <1>3, <2>6, <2>9, <2>10 DEF OrderRising
  <2> QED
    BY <1>1, <2>2, <2>11 DEF OrderInv
<1>5. CASE Type \/ AskControl
  <2>1. PICK c \in {Input(issued + 1), Request, Release} : Give(c)
    BY <1>5 DEF Type, AskControl
  <2>2. issued < MaxIssued /\ commands' = Append(commands, c) /\ issued' = issued + 1
    BY <2>1 DEF Give
  <2>3. c \in Command /\ (c.kind = "input" => c.number = issued + 1)
    BY <1>0, <2>1, <2>2 DEF Input, Request, Release, Command
  <2> QED
    BY <1>0, <1>4, <2>2, <2>3
<1>6. CASE CloseGuest
  <2>1. issued' = issued /\ (commands' = commands \/ commands' = Append(commands, CloseLink))
    BY <1>6 DEF CloseGuest
  <2>2. CASE commands' = Append(commands, CloseLink)
    <3>1. CloseLink \in Command /\ CloseLink.kind # "input"
      BY DEF CloseLink, Command
    <3> QED
      BY <1>0, <1>4, <2>1, <2>2, <3>1
  <2>3. CASE commands' = commands
    <3>1. Quiet /\ up' = up
      BY <1>0, <2>1, <2>3 DEF Quiet
    <3> QED
      BY <1>0, <1>1, <3>1, QuietStep
  <2> QED
    BY <2>1, <2>2, <2>3
<1> QED
  BY <1>5, <1>6

\* Taking the oldest command: what was kept back comes before the channel.
LEMMA TakeOrder ==
  ASSUME OrderInv, Queued # <<>>, TakeCommand
  PROVE  LET c == Head(Queued)
         IN /\ c \in Command
            /\ commands' \in Seq(Command) /\ pending' \in Seq(Command)
            /\ Rising(commands)' /\ Rising(pending)'
            /\ NumbersOf(commands') \subseteq NumbersOf(commands)
            /\ NumbersOf(pending') \subseteq NumbersOf(pending)
            /\ c.kind = "input" =>
                 /\ c.number \in NumbersOf(pending) \cup NumbersOf(commands)
                 /\ AllBelow({c.number}, NumbersOf(pending') \cup NumbersOf(commands'))
<1>1. /\ commands \in Seq(Command) /\ pending \in Seq(Command)
      /\ Rising(commands) /\ Rising(pending)
      /\ AllBelow(NumbersOf(pending), NumbersOf(commands))
  BY DEF OrderInv, OrderType, OrderRising, Chain
<1>2. commands \in Seq(Command \cup Wired) /\ pending \in Seq(Command \cup Wired)
  BY <1>1
<1>3. CASE pending = <<>>
  <2>1. Queued = commands
    BY <1>1, <1>3 DEF Queued
  <2>2. commands # <<>> /\ commands' = Tail(commands) /\ pending' = <<>>
    BY <1>3, <2>1 DEF TakeCommand
  <2>3. Tail(commands) \in Seq(Command) /\ Head(commands) \in Command
    BY <1>1, <2>2
  <2>4. /\ Rising(commands') /\ NumbersOf(commands') \subseteq NumbersOf(commands)
        /\ Head(commands).kind = "input" =>
             /\ Head(commands).number \in NumbersOf(commands)
             /\ AllBelow({Head(commands).number}, NumbersOf(commands'))
    BY <1>1, <1>2, <2>2, TailNumbers
  <2>5. NumbersOf(pending') = {} /\ Rising(pending') /\ pending' \in Seq(Command)
    BY <1>1, <1>3, <2>2, NoNumbers
  <2> QED
    BY <2>1, <2>2, <2>3, <2>4, <2>5
<1>4. CASE pending # <<>>
  <2>1. Head(Queued) = Head(pending)
    BY <1>1, <1>4 DEF Queued
  <2>2. commands' = commands /\ pending' = Tail(pending)
    BY <1>4 DEF TakeCommand
  <2>3. Tail(pending) \in Seq(Command) /\ Head(pending) \in Command
    BY <1>1, <1>4
  <2>4. /\ Rising(pending') /\ NumbersOf(pending') \subseteq NumbersOf(pending)
        /\ Head(pending).kind = "input" =>
             /\ Head(pending).number \in NumbersOf(pending)
             /\ AllBelow({Head(pending).number}, NumbersOf(pending'))
    BY <1>1, <1>2, <1>4, <2>2, TailNumbers
  <2>5. Head(pending).kind = "input" =>
          AllBelow({Head(pending).number}, NumbersOf(pending') \cup NumbersOf(commands'))
    BY <1>1, <2>2, <2>4 DEF AllBelow
  <2> QED
    BY <1>1, <2>1, <2>2, <2>3, <2>4, <2>5
<1> QED
  BY <1>3, <1>4

\* A send that fails loses its command and gives the connection up
\* (guest.rs:433-452).
LEMMA LosesOrder ==
  ASSUME LinkInv, OrderInv, DroppedStays, SendFails
  PROVE  OrderInv'
<1>1. /\ pc = "running" /\ (conn \notin live \/ phase[conn] = "dropped")
      /\ Queued # <<>> /\ TakeCommand
      /\ UNCHANGED <<up, issued, written, inputSequence>> /\ pc' = "waiting"
  BY DEF SendFails, Retry
<1>2. OneSocket'
  BY <1>1, NothingLeft, SocketFree DEF LinkInv, OrderInv
<1>3. /\ commands' \in Seq(Command) /\ pending' \in Seq(Command)
      /\ Rising(commands)' /\ Rising(pending)'
      /\ NumbersOf(commands') \subseteq NumbersOf(commands)
      /\ NumbersOf(pending') \subseteq NumbersOf(pending)
  BY <1>1, TakeOrder
<1>4. OrderType' /\ \A p \in ParticipantIds : Rising(up[p])'
  BY <1>1, <1>3 DEF OrderInv, OrderType, OrderRising
<1>5. Upward' \subseteq Upward
  BY <1>1, UpwardShrinks
<1> QED
  BY <1>1, <1>2, <1>3, <1>4, <1>5, OrderShrinks

\* While it reconnects the worker keeps back what it is given (guest.rs:516-533).
LEMMA KeepsOrder ==
  ASSUME LinkInv, OrderInv, DroppedStays, KeepCommand
  PROVE  OrderInv'
<1> DEFINE c == Head(commands)
<1>1. /\ pc = "waiting" /\ commands # <<>>
      /\ pending' = Append(pending, c) /\ commands' = Tail(commands)
      /\ UNCHANGED <<pc, conn, live, up, issued, written, inputSequence>>
  BY DEF KeepCommand, network, webview
<1>2. /\ commands \in Seq(Command) /\ pending \in Seq(Command)
      /\ Rising(commands) /\ Rising(pending) /\ OneSocket /\ GuestType
  BY DEF LinkInv, OrderInv, OrderType, OrderRising
<1>3. /\ c \in Command /\ Tail(commands) \in Seq(Command)
      /\ pending' \in Seq(Command)
      /\ commands \in Seq(Command \cup Wired) /\ pending \in Seq(Command \cup Wired)
  BY <1>1, <1>2
<1>4. /\ Rising(commands)' /\ NumbersOf(commands') \subseteq NumbersOf(commands)
      /\ c.kind = "input" => /\ c.number \in NumbersOf(commands)
                             /\ AllBelow({c.number}, NumbersOf(commands'))
  BY <1>1, <1>2, <1>3, TailNumbers
<1> HIDE DEF c
<1>5. Chain(WrittenNumbers, Upward, NumbersOf(pending), NumbersOf(commands))
  BY DEF OrderInv, OrderRising
<1>6. c.kind = "input" => AllBelow(NumbersOf(pending), {c.number})
  BY <1>4, <1>5 DEF Chain, AllBelow
<1>7. /\ Rising(pending')
      /\ c.kind = "input" => NumbersOf(pending') = NumbersOf(pending) \cup {c.number}
      /\ c.kind # "input" => NumbersOf(pending') = NumbersOf(pending)
  BY <1>1, <1>2, <1>3, <1>6, AppendNumbers
<1>8. OrderType'
  BY <1>1, <1>3 DEF OrderInv, OrderType
<1>9. OneSocket'
  BY <1>1, <1>2, SocketKept
<1>10. Upward' \subseteq Upward /\ WrittenNumbers' = WrittenNumbers
  BY <1>1, UpwardShrinks DEF WrittenNumbers
<1>11. Chain(WrittenNumbers, Upward, NumbersOf(pending'), NumbersOf(commands'))
  BY <1>4, <1>5, <1>7 DEF Chain, AllBelow
<1>12. Chain(WrittenNumbers, Upward, NumbersOf(pending), NumbersOf(commands))'
  BY <1>10, <1>11 DEF Chain, AllBelow
<1>13. OrderRising'
  <2>1. \A n \in WrittenNumbers' \cup Upward' \cup NumbersOf(pending') \cup NumbersOf(commands') :
          n <= issued'
    BY <1>1, <1>4, <1>7, <1>10 DEF OrderInv, OrderRising
  <2>2. InputOnceInOrder' /\ \A p \in ParticipantIds : Rising(up[p])'
    BY <1>1 DEF OrderInv, OrderRising, InputOnceInOrder
  <2> QED
    BY <1>4, <1>7, <1>12, <2>1, <2>2 DEF OrderRising
<1> QED
  BY <1>8, <1>9, <1>13 DEF OrderInv

\* What the worker sends leaves the commands and enters the socket behind all it
\* holds (guest.rs:433-452); on a dead socket it is lost.
LEMMA SendsOrder ==
  ASSUME LinkInv, OrderInv, DroppedStays, SendCommand
  PROVE  OrderInv'
<1> DEFINE c == Head(Queued)
           m == OnWire(c)
<1>1. /\ pc = "running" /\ Queued # <<>> /\ c.kind # "close" /\ TakeCommand
      /\ UNCHANGED <<pc, conn, live, issued, written>>
      /\ inputSequence' = IF c.kind = "input" THEN inputSequence + 1 ELSE inputSequence
      /\ up' = IF conn \in live /\ phase[conn] # "dropped"
               THEN [up EXCEPT ![conn] = Append(@, m)] ELSE up
  BY DEF SendCommand, webview
<1>2. /\ GuestType /\ OneSocket /\ conn \in ParticipantIds
      /\ up \in [ParticipantIds -> Seq(Wired)] /\ inputSequence \in Nat
  BY <1>1 DEF LinkInv, GuestType, OrderInv, OrderType
<1>3. /\ c \in Command
      /\ commands' \in Seq(Command) /\ pending' \in Seq(Command)
      /\ Rising(commands)' /\ Rising(pending)'
      /\ NumbersOf(commands') \subseteq NumbersOf(commands)
      /\ NumbersOf(pending') \subseteq NumbersOf(pending)
      /\ c.kind = "input" =>
           /\ c.number \in NumbersOf(pending) \cup NumbersOf(commands)
           /\ AllBelow({c.number}, NumbersOf(pending') \cup NumbersOf(commands'))
  BY <1>1, TakeOrder
<1> HIDE DEF c
<1>4. /\ m \in Wired /\ m \in Command \cup Wired
      /\ c.kind = "input" <=> m.kind = "input"
      /\ c.kind = "input" => m.number = c.number
  BY <1>1, <1>2, <1>3 DEF OnWire, Command, Wired, Request, Release, CloseLink
<1> HIDE DEF m
<1>5. Chain(WrittenNumbers, Upward, NumbersOf(pending), NumbersOf(commands))
  BY DEF OrderInv, OrderRising
<1>6. CASE up' = up
  <2>1. OneSocket'
    BY <1>1, <1>2, <1>6, SocketKept
  <2>2. OrderType' /\ \A p \in ParticipantIds : Rising(up[p])'
    <3>1. inputSequence' \in Nat
      BY <1>1, <1>2
    <3> QED
      BY <1>1, <1>2, <1>3, <1>6, <3>1 DEF OrderInv, OrderType, OrderRising
  <2>3. Upward' \subseteq Upward
    BY <1>6, UpwardShrinks
  <2> QED
    BY <1>1, <1>3, <2>1, <2>2, <2>3, OrderShrinks
<1>7. CASE conn \in live /\ phase[conn] # "dropped"
  <2>1. /\ up[conn] \in Seq(Wired) /\ up[conn] \in Seq(Command \cup Wired)
        /\ Append(up[conn], m) \in Seq(Wired)
    BY <1>2, <1>4
  <2>2. /\ \A p \in ParticipantIds :
             up'[p] = IF p = conn THEN Append(up[conn], m) ELSE up[p]
        /\ up' \in [ParticipantIds -> Seq(Wired)]
    BY <1>1, <1>2, <1>7, <2>1
  <2>3. NumbersOf(up[conn]) \subseteq Upward
    <3>1. NumbersOf(up[conn]) \subseteq 1..MaxIssued
      BY <2>1, NumbersType
    <3> QED
      BY <1>2, <1>7, <3>1 DEF Upward
  <2>4. m.kind = "input" => AllBelow(NumbersOf(up[conn]), {m.number})
    BY <1>3, <1>4, <1>5, <2>3 DEF Chain, AllBelow
  <2>5. Rising(up[conn])
    BY <1>2 DEF OrderInv, OrderRising
  <2>6. /\ m.kind = "input" =>
             NumbersOf(Append(up[conn], m)) = NumbersOf(up[conn]) \cup {m.number}
        /\ m.kind # "input" => NumbersOf(Append(up[conn], m)) = NumbersOf(up[conn])
        /\ Rising(Append(up[conn], m))
    BY <1>4, <2>1, <2>4, <2>5, AppendNumbers
  <2>7. \A p \in ParticipantIds : Rising(up[p])'
    BY <2>2, <2>6 DEF OrderInv, OrderRising
  <2>8. Upward' \subseteq Upward \cup (IF c.kind = "input" THEN {c.number} ELSE {})
    <3> SUFFICES ASSUME NEW n \in Upward'
                 PROVE  n \in Upward \/ (c.kind = "input" /\ n = c.number)
      OBVIOUS
    <3>1. PICK p \in ParticipantIds : phase'[p] # "dropped" /\ n \in NumbersOf(up'[p])
      BY DEF Upward
    <3>2. n \in 1..MaxIssued /\ phase[p] # "dropped"
      BY <3>1 DEF Upward, DroppedStays
    <3>3. CASE p = conn
      BY <1>4, <2>2, <2>3, <2>6, <3>1, <3>3
    <3>4. CASE p # conn
      BY <2>2, <3>1, <3>2, <3>4 DEF Upward
    <3> QED
      BY <3>3, <3>4
  <2>9. WrittenNumbers' = WrittenNumbers
    BY <1>1 DEF WrittenNumbers
  <2>10. Chain(WrittenNumbers, Upward', NumbersOf(pending'), NumbersOf(commands'))
    BY <1>3, <1>5, <2>8 DEF Chain, AllBelow
  <2>11. Chain(WrittenNumbers, Upward, NumbersOf(pending), NumbersOf(commands))'
    BY <2>9, <2>10 DEF Chain, AllBelow
  <2>12. \A n \in WrittenNumbers' \cup Upward' \cup NumbersOf(pending')
                   \cup NumbersOf(commands') : n <= issued'
    BY <1>1, <1>3, <2>8, <2>9 DEF OrderInv, OrderRising
  <2>13. InputOnceInOrder'
    BY <1>1 DEF OrderInv, OrderRising, InputOnceInOrder
  <2>14. OrderRising'
    BY <1>3, <2>7, <2>11, <2>12, <2>13 DEF OrderRising
  <2>15. OneSocket'
    BY <1>1, <1>2, <1>7, <2>2 DEF OneSocket, DroppedStays
  <2>16. OrderType'
    <3>1. inputSequence' \in Nat
      BY <1>1, <1>2
    <3> QED
      BY <1>1, <1>3, <2>2, <3>1 DEF OrderInv, OrderType
  <2> QED
    BY <2>14, <2>15, <2>16 DEF OrderInv
<1> QED
  BY <1>1, <1>6, <1>7

LEMMA OrderStep ==
  ASSUME LinkInv, OrderInv, [LinkNext]_linkVars
  PROVE  OrderInv'
<1>1. DroppedStays
  BY LinkStepIsSessionStep, SessionDrops DEF LinkInv
<1>2. GuestType'
  BY LinkStepInv DEF LinkInv
<1>3. CASE Worker
  BY <1>1, <1>2, <1>3, QuietWorker, SendsOrder, LosesOrder, KeepsOrder DEF Worker
<1>4. CASE User
  BY <1>1, <1>2, <1>4, QuietWorker, GivesOrder DEF User
<1>5. CASE HostUser
  BY <1>1, <1>5, HostOrder
<1>6. ASSUME NEW p \in ParticipantIds, HostThread(p) \/ Cut(p)
      PROVE  OrderInv'
  BY <1>1, <1>6, HostOrder, ReadsOrder DEF HostThread
<1>7. CASE UNCHANGED linkVars
  <2>1. /\ Quiet /\ UNCHANGED <<up, pc, conn, live>>
        /\ OneSocket /\ GuestType /\ up \in [ParticipantIds -> Seq(Wired)]
    BY <1>7 DEF linkVars, guest, worker, webview, network, Quiet, LinkInv, OrderInv,
       OrderType
  <2>2. OneSocket'
    BY <1>1, <2>1, SocketKept
  <2> QED
    BY <1>1, <2>1, <2>2, QuietStep
<1> QED
  BY <1>3, <1>4, <1>5, <1>6, <1>7 DEF LinkNext

LEMMA OrderInit == LinkInit => OrderInv
<1> SUFFICES ASSUME LinkInit PROVE OrderInv
  OBVIOUS
<1>1. /\ commands = <<>> /\ pending = <<>> /\ written = <<>> /\ issued = 0
      /\ inputSequence = 0 /\ up = [p \in ParticipantIds |-> <<>>] /\ pc = "opening"
  BY DEF LinkInit
<1>2. OrderType
  <2>1. \A S : <<>> \in Seq(S)
    OBVIOUS
  <2> QED
    BY <1>1, <2>1, LinkAssumption DEF OrderType
<1>3. WrittenNumbers = {} /\ Upward = {} /\ InputOnceInOrder
  BY <1>1, NoNumbers DEF WrittenNumbers, Upward, InputOnceInOrder
<1>4. OrderRising
  BY <1>1, <1>3, NoNumbers DEF OrderRising, Chain, AllBelow
<1>5. OneSocket
  BY <1>1 DEF OneSocket
<1> QED
  BY <1>2, <1>4, <1>5 DEF OrderInv

\* What a guest types reaches the shell at most once and in order, however often
\* its connection fails and comes back (guest.rs:422-533, session.rs:403-430).
THEOREM InputInOrder == LinkSpec => []InputOnceInOrder
<1>1. LinkInv /\ OrderInv /\ [LinkNext]_linkVars => LinkInv' /\ OrderInv'
  BY LinkStepInv, OrderStep
<1>2. OrderInv => InputOnceInOrder
  BY DEF OrderInv, OrderRising
<1> QED
  BY <1>1, <1>2, LinkInitInv, OrderInit, PTL DEF LinkSpec

-----------------------------------------------------------------------------
\* What comes to the guest goes on where it left off: NothingSkipped.

\* What grows quietly does so behind anything.
LEMMA QuietBehind ==
  ASSUME NEW S, NEW d \in Seq(S), NEW q \in Seq(S), NEW r \in Seq(S), GrowsQuietly(q, r)
  PROVE  GrowsQuietly(d \o q, d \o r)
<1> DEFINE a == d \o q
           b == d \o r
<1>1. Len(d) \in Nat /\ Len(q) \in Nat /\ Len(r) \in Nat
  OBVIOUS
<1>2. /\ Len(a) = Len(d) + Len(q)
      /\ \A i \in 1..(Len(d) + Len(q)) : a[i] = IF i <= Len(d) THEN d[i] ELSE q[i - Len(d)]
  BY ConcatProperties, Zenon
<1>3. /\ Len(b) = Len(d) + Len(r)
      /\ \A i \in 1..(Len(d) + Len(r)) : b[i] = IF i <= Len(d) THEN d[i] ELSE r[i - Len(d)]
  BY ConcatProperties, Zenon
<1> HIDE DEF a, b
<1>4. Len(q) <= Len(r)
  BY DEF GrowsQuietly
<1>5. ASSUME NEW i \in 1..(Len(d) + Len(q)) PROVE b[i] = a[i]
  <2>1. i \in 1..(Len(d) + Len(r))
    BY <1>1, <1>4
  <2>2. CASE i <= Len(d)
    BY <1>2, <1>3, <2>1, <2>2
  <2>3. CASE ~(i <= Len(d))
    <3>1. i - Len(d) \in 1..Len(q)
      BY <1>1, <2>3
    <3>2. r[i - Len(d)] = q[i - Len(d)]
      BY <3>1 DEF GrowsQuietly
    <3> QED
      BY <1>2, <1>3, <2>1, <2>3, <3>2
  <2> QED
    BY <2>2, <2>3
<1>6. ASSUME NEW i \in 1..(Len(d) + Len(r)), i > Len(d) + Len(q)
      PROVE  b[i].type # "data"
  <2>1. /\ i - Len(d) \in 1..Len(r) /\ i - Len(d) > Len(q) /\ ~(i <= Len(d))
    BY <1>1, <1>6
  <2>2. r[i - Len(d)].type # "data"
    BY <2>1 DEF GrowsQuietly
  <2> QED
    BY <1>3, <2>1, <2>2
<1>7. Len(a) <= Len(b)
  BY <1>1, <1>2, <1>3, <1>4
<1>8. GrowsQuietly(a, b)
  BY <1>2, <1>3, <1>5, <1>6, <1>7 DEF GrowsQuietly
<1> QED
  BY <1>8 DEF a, b

\* A message that is no frame, before a line: the line is what it was.
LEMMA NewsBefore ==
  ASSUME NEW S, NEW q \in Seq(S), NEW m \in S, m.type # "data", NEW n
  PROVE  /\ Continues(q, n) => Continues(<<m>> \o q, n)
         /\ \A last : EndsAt(q, n, last) => EndsAt(<<m>> \o q, n, last)
<1> DEFINE r == <<m>> \o q
           At(i) == IF i = 0 THEN 0 ELSE i - 1
<1>1. /\ Len(q) \in Nat /\ DOMAIN q = 1..Len(q) /\ DOMAIN r = 1..(Len(q) + 1)
      /\ r[1] = m /\ \A i \in 1..Len(q) : r[i + 1] = q[i]
  OBVIOUS
<1> HIDE DEF r
<1>2. \A i \in DOMAIN r : i = 1 \/ (i - 1 \in DOMAIN q /\ r[i] = q[i - 1])
  <2> TAKE i \in DOMAIN r
  <2>1. i \in 1..(Len(q) + 1) /\ (i # 1 => i - 1 \in 1..Len(q) /\ (i - 1) + 1 = i)
    BY <1>1
  <2> QED
    BY <1>1, <2>1
<1>3. \A i \in DOMAIN q : i + 1 \in DOMAIN r /\ r[i + 1] = q[i]
  BY <1>1
<1>4. /\ Stops(q) \subseteq 0..Len(q) /\ 0 \in Stops(q)
      /\ Stops(r) \subseteq 0..(Len(q) + 1) /\ 0 \in Stops(r) /\ 1 \notin Stops(r)
  BY <1>1 DEF Stops
<1>5. \A i \in Stops(r) : /\ At(i) \in Stops(q)
                          /\ i # 0 => i > 1 /\ r[i] = q[At(i)]
                          /\ Reached(r, n, i) = Reached(q, n, At(i))
  <2> TAKE i \in Stops(r)
  <2>1. CASE i = 0
    BY <1>4, <2>1 DEF Reached
  <2>2. CASE i # 0
    <3>1. i \in DOMAIN r /\ i # 1 /\ i \in Nat /\ r[i].type = "data"
      BY <1>1, <1>4, <2>2 DEF Stops
    <3>2. i - 1 \in DOMAIN q /\ r[i] = q[i - 1] /\ i > 1
      BY <1>2, <2>2, <3>1
    <3> QED
      BY <2>2, <3>1, <3>2 DEF Stops, Reached
  <2> QED
    BY <2>1, <2>2
<1>6. \A k \in Stops(q) : k = 0 \/ (k + 1 \in Stops(r) /\ At(k + 1) = k)
  BY <1>1, <1>3, <1>4 DEF Stops
<1>7. \A i, j \in Stops(r) : /\ i < j <=> At(i) < At(j)
                             /\ i <= j <=> At(i) <= At(j)
  BY <1>4, <1>5
<1>8. \A i, j \in Stops(r) :
        i < j /\ (\A k \in Stops(r) : k <= i \/ j <= k) =>
          At(i) < At(j) /\ \A k \in Stops(q) : k <= At(i) \/ At(j) <= k
  <2> TAKE i, j \in Stops(r)
  <2> HAVE i < j /\ (\A k \in Stops(r) : k <= i \/ j <= k)
  <2>1. ASSUME NEW k \in Stops(q) PROVE k <= At(i) \/ At(j) <= k
    <3>1. CASE k = 0
      <4>1. At(i) \in Nat
        BY <1>4, <1>5
      <4> QED
        BY <3>1, <4>1
    <3>2. CASE k # 0
      <4>1. k + 1 \in Stops(r) /\ At(k + 1) = k
        BY <1>6, <3>2
      <4>2. k + 1 <= i \/ j <= k + 1
        BY <4>1
      <4> HIDE DEF At
      <4> QED
        BY <1>7, <4>1, <4>2
    <3> QED
      BY <3>1, <3>2
  <2> QED
    BY <1>7, <2>1
<1> HIDE DEF At
<1>9. ASSUME Continues(q, n) PROVE Continues(r, n)
  <2> SUFFICES ASSUME NEW i \in Stops(r), NEW j \in Stops(r), i < j,
                      \A k \in Stops(r) : k <= i \/ j <= k
               PROVE  IF r[j].frame.kind = "snapshot"
                      THEN i = 0 /\ r[j].frame.sequence >= n
                      ELSE r[j].frame.sequence = Reached(r, n, i) + 1
    BY DEF Continues
  <2>1. /\ At(i) \in Stops(q) /\ At(j) \in Stops(q)
        /\ At(i) < At(j) /\ \A k \in Stops(q) : k <= At(i) \/ At(j) <= k
    BY <1>5, <1>8
  <2>2. IF q[At(j)].frame.kind = "snapshot"
        THEN At(i) = 0 /\ q[At(j)].frame.sequence >= n
        ELSE q[At(j)].frame.sequence = Reached(q, n, At(i)) + 1
    BY <1>9, <2>1 DEF Continues
  <2>3. j # 0 /\ r[j] = q[At(j)]
    BY <1>4, <1>5
  <2>4. At(i) = 0 => i = 0
    <3>1. i > 1 => At(i) # 0
      BY <1>4 DEF At
    <3> QED
      BY <1>5, <3>1
  <2> QED
    BY <1>5, <2>2, <2>3, <2>4
<1>10. ASSUME NEW last, EndsAt(q, n, last) PROVE EndsAt(r, n, last)
  <2> SUFFICES ASSUME NEW i \in Stops(r), IsLast(i, Stops(r))
               PROVE  Reached(r, n, i) = last
    BY DEF EndsAt
  <2>1. \A k \in Stops(q) : k <= At(i)
    <3> TAKE k \in Stops(q)
    <3>1. At(i) \in Nat
      BY <1>4, <1>5
    <3>2. CASE k = 0
      BY <3>1, <3>2
    <3>3. CASE k # 0
      BY <1>6, <1>7, <3>3 DEF IsLast
    <3> QED
      BY <3>2, <3>3
  <2>2. IsLast(At(i), Stops(q))
    BY <1>5, <2>1 DEF IsLast
  <2>3. Reached(q, n, At(i)) = last
    BY <1>10, <2>2 DEF EndsAt, IsLast
  <2> QED
    BY <1>5, <2>3
<1> QED
  BY <1>9, <1>10 DEF r

\* What a step that is not p's own does to the connection of p: it hears news, or
\* the next frame is queued for it.
Aside(p) == phase'[p] = phase[p] /\ (Hears(p) \/ IsFed(p))

\* Whatever the host's user, the terminal and any guest do to the session.
LEMMA SessionAside ==
  ASSUME Inv, NEW p \in ParticipantIds, NEW x \in ParticipantIds,
         \/ TerminalAction \/ UNCHANGED vars \/ HostAction(x)
         \/ RequestControl(x) \/ ReleaseControl(x)
         \/ \E hasInput \in BOOLEAN : AuthorizeInput(x, hasInput)
  PROVE  Aside(p)
<1>1. CASE \/ RequestControl(x) \/ ReleaseControl(x) \/ SetObserver(x)
           \/ RemoveParticipant(x) \/ BanParticipant(x) \/ SetController(x)
  <2>1. phase' = phase
    BY <1>1 DEF RequestControl, ReleaseControl, SetObserver, RemoveParticipant,
       BanParticipant, SetController, threads
  <2> QED
    BY <1>1, <2>1, ControlMoves DEF Aside
<1>2. CASE \/ TypingFades(x) \/ UNCHANGED vars
           \/ \E hasInput \in BOOLEAN : AuthorizeInput(x, hasInput)
  <2>1. /\ outbound' = outbound /\ participants' = participants
        /\ nextSequence' = nextSequence /\ UNCHANGED threads /\ phase' = phase
    BY <1>2 DEF TypingFades, AuthorizeInput, vars, members, stream, threads
  <2> QED
    BY <2>1, SilenceHeard DEF Aside
<1>3. CASE TerminalAction
  <2>1. phase' = phase
    BY <1>3 DEF TerminalAction, PublishOutput, PublishResize, PublishTerminalExit,
       Publish, SetSnapshot, Expire, Close, threads
  <2> QED
    BY <1>3, <2>1, StreamMoves DEF Aside
<1> QED
  BY <1>1, <1>2, <1>3 DEF HostAction

\* A join, and whatever the thread of another connection does.
LEMMA OthersAside ==
  ASSUME Inv, Flowing, NEW p \in ParticipantIds, NEW x \in ParticipantIds, p # x,
         \/ \E after \in Nat \cup {Fresh} : Join(x, GuestName, x, after)
         \/ ThreadStep(x) \/ WelcomeFails(x) \/ SocketEnds(x)
  PROVE  Aside(p)
<1>0. phase \in [ParticipantIds -> Phases]
  BY DEF Inv, ThreadType
<1>1. ASSUME NEW after \in Nat \cup {Fresh}, Join(x, GuestName, x, after)
      PROVE  Aside(p)
  <2>1. phase'[p] = phase[p]
    BY <1>0, <1>1 DEF Join
  <2> QED
    BY <1>1, <2>1, JoinMoves DEF Aside
<1>2. CASE ThreadStep(x) \/ WelcomeFails(x) \/ SocketEnds(x)
  <2>1. phase'[p] = phase[p]
    BY <1>0, <1>2 DEF ThreadStep, WelcomeFails, SocketEnds, SendJoined, SendReplay, Forward,
       Finish, LeaveSession
  <2> QED
    BY <1>2, <2>1, ThreadMoves DEF Aside
<1> QED
  BY <1>1, <1>2

\* What is on its way to the guest over the socket of p, and that it goes on where
\* the guest left off.
Coming(p) == down[p] \o Line(p)
Goes(p) == /\ Continues(Coming(p), outputSequence)
           /\ p \in participants => EndsAt(Coming(p), outputSequence, nextSequence)

LEMMA SocketMessages ==
  ASSUME Inv, GuestType, NEW p \in ParticipantIds
  PROVE  /\ Framed(OnSocket)
         /\ down[p] \in Seq(OnSocket) /\ Line(p) \in Seq(OnSocket)
         /\ Coming(p) \in Seq(OnSocket)
         /\ Line(p) \in Seq(OutboundMessage) /\ Line(p) = Row(welcome[p], outbound[p])
         /\ welcome[p] \in Seq(DataFrame) /\ outbound[p] \in Seq(OutboundMessage)
<1>1. welcome[p] \in Seq(DataFrame) /\ outbound[p] \in Seq(OutboundMessage)
  BY DEF Inv, ThreadType, QueueType
<1>2. Line(p) = Row(welcome[p], outbound[p]) /\ Line(p) \in Seq(OutboundMessage)
  BY <1>1, RowType DEF Line, Row
<1>3. OutboundMessage \subseteq OnSocket
  BY DEF OnSocket
<1>4. Framed(OnSocket)
  BY FrameNumber DEF Framed
<1>5. Line(p) \in Seq(OnSocket) /\ down[p] \in Seq(OnSocket)
  BY <1>2, <1>3 DEF GuestType
<1>6. Coming(p) \in Seq(OnSocket)
  BY <1>5, ConcatProperties DEF Coming
<1> QED
  BY <1>1, <1>2, <1>4, <1>5, <1>6

\* News and frames queued behind what is coming leave the guest on its way.
LEMMA GoesOn ==
  ASSUME Inv, Inv', GuestType, GuestType', NEW p \in ParticipantIds, Aside(p),
         down'[p] = down[p], outputSequence' = outputSequence,
         p \in participants => Receiving(p), Goes(p)
  PROVE  Goes(p)'
<1>1. /\ Framed(OnSocket)
      /\ down[p] \in Seq(OnSocket) /\ Line(p) \in Seq(OnSocket)
      /\ Coming(p) \in Seq(OnSocket)
      /\ Line(p) \in Seq(OutboundMessage) /\ Line(p) = Row(welcome[p], outbound[p])
      /\ welcome[p] \in Seq(DataFrame) /\ outbound[p] \in Seq(OutboundMessage)
  BY SocketMessages
<1>2. /\ Line(p)' \in Seq(OutboundMessage) /\ Line(p)' = Row(welcome'[p], outbound'[p])
      /\ outbound'[p] \in Seq(OutboundMessage) /\ welcome'[p] \in Seq(DataFrame)
      /\ Line(p)' \in Seq(OnSocket)
  <2>1. welcome'[p] \in Seq(DataFrame) /\ outbound'[p] \in Seq(OutboundMessage)
    BY DEF Inv, ThreadType, QueueType
  <2>2. Line(p)' = Row(welcome'[p], outbound'[p])
    BY DEF Line, Row
  <2>3. Row(welcome'[p], outbound'[p]) \in Seq(OutboundMessage)
    BY <2>1, RowType
  <2>4. OutboundMessage \subseteq OnSocket
    BY DEF OnSocket
  <2>5. Line(p)' \in Seq(OnSocket)
    BY <2>2, <2>3, <2>4
  <2> QED
    BY <2>1, <2>2, <2>3, <2>5
<1>3. Coming(p)' = down[p] \o Line(p)'
  BY DEF Coming
<1>4. outputSequence \in Nat /\ nextSequence \in Nat
  BY DEF GuestType, Inv, StreamType
<1> SUFFICES /\ Continues(Coming(p)', outputSequence)
             /\ p \in participants' => EndsAt(Coming(p)', outputSequence, nextSequence')
  BY DEF Goes, Continues, EndsAt
<1>5. CASE Hears(p)
  <2>1. /\ nextSequence' = nextSequence /\ welcome'[p] = welcome[p]
        /\ GrowsQuietly(outbound[p], outbound'[p]) /\ (p \in participants' => p \in participants)
    BY <1>5 DEF Hears
  <2>2. GrowsQuietly(Line(p), Line(p)')
    BY <1>1, <1>2, <2>1, RowGrows
  <2>3. GrowsQuietly(Coming(p), Coming(p)')
    BY <1>1, <1>2, <1>3, <2>2, QuietBehind DEF Coming
  <2>4. Coming(p)' \in Seq(OnSocket)
    BY <1>1, <1>2, <1>3, ConcatProperties
  <2> QED
    BY <1>1, <2>1, <2>3, <2>4, QuietLine DEF Goes
<1>6. CASE IsFed(p)
  <2>1. PICK f \in DataFrame :
          /\ f.sequence = nextSequence + 1 /\ f.kind # "snapshot"
          /\ outbound'[p] = IF p \in participants' /\ Receiving(p)
                            THEN Append(outbound[p], Data(f)) ELSE outbound[p]
    BY <1>6 DEF IsFed
  <2>2. /\ nextSequence' = nextSequence + 1 /\ welcome'[p] = welcome[p]
        /\ p \in participants' => p \in participants
    BY <1>6 DEF IsFed
  <2>3. Data(f) \in OutboundMessage /\ Data(f) \in OnSocket
    BY MessageType DEF OnSocket
  <2>4. CASE p \in participants' /\ Receiving(p)
    <3>1. Line(p)' = Append(Line(p), Data(f))
      BY <1>1, <1>2, <2>1, <2>2, <2>3, <2>4, RowFed
    <3> DEFINE d == down[p]
               l == Line(p)
               m == Data(f)
    <3>2. d \in Seq(OnSocket) /\ l \in Seq(OnSocket) /\ m \in OnSocket
      BY <1>1, <2>3
    <3>3. Coming(p)' = d \o Append(l, m) /\ Coming(p) = d \o l
      BY <1>3, <3>1 DEF Coming
    <3> HIDE DEF d, l, m
    <3>4. d \o Append(l, m) = Append(d \o l, m)
      BY <3>2
    <3>5. Coming(p)' = Append(Coming(p), Data(f))
      BY <3>3, <3>4 DEF m
    <3>6. /\ Continues(Append(Coming(p), Data(f)), outputSequence)
          /\ EndsAt(Append(Coming(p), Data(f)), outputSequence, nextSequence + 1)
      BY <1>1, <1>4, <2>1, <2>2, <2>3, <2>4, FedLine DEF Goes
    <3> QED
      BY <2>2, <3>5, <3>6
  <2>5. CASE ~(p \in participants' /\ Receiving(p))
    <3>1. outbound'[p] = outbound[p] /\ p \notin participants'
      BY <2>1, <2>2, <2>5
    <3>2. Coming(p)' = Coming(p)
      BY <1>1, <1>2, <1>3, <2>2, <3>1 DEF Coming
    <3> QED
      BY <3>1, <3>2 DEF Goes
  <2> QED
    BY <2>4, <2>5
<1> QED
  BY <1>5, <1>6 DEF Aside

\* Where the sockets stand: nothing is on one before its host's thread answers the
\* join; a connection the guest holds is a participant only while its thread is at
\* work; and the first message of a connection being joined is the answer.
SocketInv ==
  /\ live \subseteq ParticipantIds
  /\ \A p \in ParticipantIds : phase[p] \in {"absent", "joined"} => down[p] = <<>>
  /\ \A p \in live : phase[p] # "absent" /\ (p \in participants => Receiving(p))
  /\ pc = "joining" /\ conn \in live /\ phase[conn] # "joined" =>
       down[conn] # <<>> /\ Head(down[conn]).type = "joined"
  /\ pc = "running" => welcomeId # NoOne
  /\ welcomeId = NoOne => outputSequence = 0

\* What the guest's user, the host's user and the reader of the host's threads do
\* leaves the sockets where they stand, and so does a step that takes nothing.
LEMMA SocketIdle ==
  ASSUME SocketInv, \A p \in ParticipantIds : Aside(p),
         UNCHANGED <<pc, conn, live, down, welcomeId, outputSequence>>
  PROVE  SocketInv'
<1>1. \A p \in ParticipantIds : /\ phase'[p] = phase[p]
                                /\ p \in participants' => p \in participants
  BY DEF Aside, Hears, IsFed
<1>2. pc = "joining" /\ conn \in live => conn \in ParticipantIds
  BY DEF SocketInv
<1> QED
  BY <1>1, <1>2 DEF SocketInv, Receiving

\* The worker's own steps (guest.rs:355-533), opening a socket aside.
LEMMA SocketWorker ==
  ASSUME LinkInv, SocketInv, Worker, ~\E p \in ParticipantIds : OpenSocket(p)
  PROVE  SocketInv'
<1>1. UNCHANGED <<phase, participants>>
  BY GuestLeavesSession DEF vars, threads, members
<1>2. pc' # "joining" /\ live' \subseteq live
  BY DEF Worker, OpenFails, ReadJoined, SendCommand, SendFails, UserCloses, ReadFrame,
     ReadControl, ReadFails, KeepCommand, CloseWhileWaiting, WaitOver, Incoming, MayRead,
     End, Retry, network
<1>3. \/ down' = down
      \/ /\ conn \in ParticipantIds /\ down[conn] # <<>>
         /\ down' = [down EXCEPT ![conn] = Tail(@)]
  BY DEF Worker, OpenFails, ReadJoined, SendCommand, SendFails, UserCloses, ReadFrame,
     ReadControl, ReadFails, KeepCommand, CloseWhileWaiting, WaitOver, Incoming, MayRead,
     Took, End, Retry, network, LinkInv, GuestType
<1>4. /\ pc' = "running" => welcomeId' # NoOne
      /\ welcomeId' = NoOne => outputSequence' = 0
  <2>1. CASE ReadJoined
    <3>1. conn \in ParticipantIds
      BY <2>1 DEF ReadJoined, LinkInv, GuestType
    <3> QED
      BY <2>1, <3>1, ValuesAssumption DEF ReadJoined, SocketInv
  <2>2. CASE ReadFrame
    BY <2>2 DEF ReadFrame, Incoming, MayRead, End, SocketInv
  <2>3. CASE ~ReadJoined /\ ~ReadFrame
    BY <2>3 DEF Worker, OpenFails, SendCommand, SendFails, UserCloses, ReadControl,
       ReadFails, KeepCommand, CloseWhileWaiting, WaitOver, Incoming, MayRead,
       End, Retry, network, SocketInv
  <2> QED
    BY <2>1, <2>2, <2>3
<1>5. \A p \in ParticipantIds : phase'[p] \in {"absent", "joined"} => down'[p] = <<>>
  <2> TAKE p \in ParticipantIds
  <2> HAVE phase'[p] \in {"absent", "joined"}
  <2>1. down[p] = <<>> /\ down \in [ParticipantIds -> Seq(OnSocket)]
    BY <1>1 DEF SocketInv, LinkInv, GuestType
  <2> QED
    BY <1>3, <2>1
<1>6. \A p \in live' : phase'[p] # "absent" /\ (p \in participants' => Receiving(p)')
  BY <1>1, <1>2 DEF SocketInv, Receiving
<1> QED
  BY <1>2, <1>4, <1>5, <1>6 DEF SocketInv

\* A socket opened for a participant that has just joined (guest.rs:289-353).
LEMMA SocketOpens ==
  ASSUME LinkInv, SocketInv, Flowing, NEW x \in ParticipantIds, OpenSocket(x)
  PROVE  /\ SocketInv' /\ Joins(x) /\ conn' = x /\ down'[x] = <<>>
         /\ \E after \in Nat \cup {Fresh} :
              /\ ReplayAvailable(after) /\ welcome'[x] = ReplayForJoin(after)
              /\ outputSequence = IF after = Fresh THEN 0 ELSE after
<1>1. /\ Join(x, GuestName, x, ResumeAfter) /\ pc' = "joining" /\ conn' = x
      /\ live' = live \cup {x}
      /\ UNCHANGED <<outputSequence, welcomeId, down>>
  BY DEF OpenSocket
<1>2. /\ ResumeAfter \in Nat \cup {Fresh}
      /\ outputSequence = IF ResumeAfter = Fresh THEN 0 ELSE ResumeAfter
  BY ValuesAssumption DEF ResumeAfter, LinkInv, GuestType, SocketInv
<1>3. /\ ReplayAvailable(ResumeAfter) /\ phase[x] = "absent"
      /\ welcome' = [welcome EXCEPT ![x] = ReplayForJoin(ResumeAfter)]
      /\ phase' = [phase EXCEPT ![x] = "joined"]
      /\ participants' \subseteq participants \cup {x}
  BY <1>1 DEF Join
<1>4. /\ phase \in [ParticipantIds -> Phases]
      /\ welcome \in [ParticipantIds -> Seq(DataFrame)] /\ Inv
  BY DEF LinkInv, Inv, ThreadType
<1>5. Joins(x)
  BY <1>1, <1>2, <1>4, JoinMoves
<1>6. welcome'[x] = ReplayForJoin(ResumeAfter) /\ down'[x] = <<>>
  BY <1>1, <1>3, <1>4 DEF SocketInv
<1>7. SocketInv'
  <2>1. \A p \in ParticipantIds : phase'[p] = IF p = x THEN "joined" ELSE phase[p]
    BY <1>3, <1>4
  <2>2. \A p \in ParticipantIds : phase'[p] \in {"absent", "joined"} => down'[p] = <<>>
    BY <1>1, <1>6, <2>1 DEF SocketInv
  <2>3. \A p \in live' : phase'[p] # "absent" /\ (p \in participants' => Receiving(p)')
    BY <1>1, <1>3, <2>1 DEF SocketInv, Receiving
  <2> QED
    BY <1>1, <2>1, <2>2, <2>3 DEF SocketInv
<1> QED
  BY <1>1, <1>2, <1>3, <1>5, <1>6, <1>7

\* The head of a line put on the socket: what is coming is the same.
LEMMA HeadWired ==
  ASSUME NEW S, NEW d \in Seq(S), NEW l \in Seq(S), l # <<>>
  PROVE  Append(d, Head(l)) \o Tail(l) = d \o l
<1> DEFINE h == <<Head(l)>>
           t == Tail(l)
<1>1. Head(l) \in S /\ h \in Seq(S) /\ t \in Seq(S) /\ Append(d, Head(l)) = d \o h
  OBVIOUS
<1>2. h \o t = l
  <2>1. Len(h) = 1 /\ h[1] = Head(l) /\ Len(t) = Len(l) - 1 /\ Len(l) \in Nat
        /\ Len(l) > 0 /\ l[1] = Head(l) /\ \A i \in 1..(Len(l) - 1) : t[i] = l[i + 1]
    OBVIOUS
  <2>2. h \o t \in Seq(S)
    BY <1>1, ConcatProperties, Zenon
  <2>3. /\ Len(h \o t) = Len(h) + Len(t)
        /\ \A i \in 1..(Len(h) + Len(t)) :
             (h \o t)[i] = IF i <= Len(h) THEN h[i] ELSE t[i - Len(h)]
    BY <1>1, ConcatProperties, Zenon
  <2> DEFINE r == h \o t
  <2> HIDE DEF h, t, r
  <2>4. r \in Seq(S) /\ Len(r) = Len(l)
        /\ \A i \in 1..Len(l) : r[i] = IF i <= 1 THEN h[i] ELSE t[i - 1]
    BY <2>1, <2>2, <2>3 DEF r
  <2>5. \A i \in 1..Len(l) : r[i] = l[i]
    <3> TAKE i \in 1..Len(l)
    <3>1. i = 1 \/ (i - 1 \in 1..(Len(l) - 1) /\ (i - 1) + 1 = i /\ ~(i <= 1))
      BY <2>1
    <3> QED
      BY <2>1, <2>4, <3>1
  <2>6. r = l
    BY <2>4, <2>5, SeqEqual, Zenon
  <2> QED
    BY <2>6 DEF r
<1> HIDE DEF h, t
<1>3. (d \o h) \o t = d \o (h \o t)
  <2>1. d \in Seq(S) /\ h \in Seq(S) /\ t \in Seq(S)
    BY <1>1
  <2>2. \A u, v, w \in Seq(S) : (u \o v) \o w = u \o (v \o w)
    BY ConcatAssociative, SMTT(30)
  <2> QED
    BY <2>1, <2>2, Zenon
<1> QED
  BY <1>1, <1>2, <1>3 DEF t

\* What the thread of x on the host does when it writes: the answer to the join
\* comes first, and after it the line moves on to the socket, in its order.
Sends(x) ==
  /\ UNCHANGED <<nextSequence, pc, conn, live, welcomeId, outputSequence>>
  /\ phase[x] \in {"joined", "replaying", "running"}
  /\ participants' \subseteq participants
  /\ x \in participants' => Receiving(x)'
  /\ phase'[x] \notin {"absent", "joined"}
  /\ x \in live => \/ /\ phase[x] = "joined"
                      /\ down'[x] = <<Joined(x)>> /\ Line(x)' = Line(x)
                   \/ /\ phase[x] # "joined"
                      /\ Coming(x)' = Coming(x)
                      /\ down[x] # <<>> => /\ down'[x] # <<>>
                                           /\ Head(down'[x]) = Head(down[x])
  /\ \A p \in ParticipantIds : p # x => down'[p] = down[p]

\* A message appended to what the socket of x holds.
LEMMA SocketWired ==
  ASSUME GuestType, NEW x \in ParticipantIds, NEW m \in OnSocket, Wire(x, m)
  PROVE  /\ UNCHANGED <<pc, conn, live, welcomeId, outputSequence>>
         /\ x \in live => /\ down'[x] = Append(down[x], m) /\ down'[x] # <<>>
                          /\ down[x] # <<>> => Head(down'[x]) = Head(down[x])
         /\ \A p \in ParticipantIds : p # x => down'[p] = down[p]
<1>1. /\ UNCHANGED <<pc, conn, live, welcomeId, outputSequence>>
      /\ down' = IF x \in live THEN [down EXCEPT ![x] = Append(@, m)] ELSE down
  BY DEF Wire, guest, worker
<1>2. down \in [ParticipantIds -> Seq(OnSocket)] /\ down[x] \in Seq(OnSocket)
  BY DEF GuestType
<1>3. /\ Append(down[x], m) # <<>>
      /\ down[x] # <<>> => Head(Append(down[x], m)) = Head(down[x])
  BY <1>2
<1> QED
  BY <1>1, <1>2, <1>3

\* The threads of the host write the line to the socket, message by message
\* (server.rs:235-301), and leave the session with the line written out.
LEMMA HostWrites ==
  ASSUME LinkInv, FlowInv, SocketInv, NEW x \in ParticipantIds, HostSends(x)
  PROVE  Sends(x)
<1>1. /\ Inv /\ GuestType
      /\ welcome[x] \in Seq(DataFrame) /\ outbound[x] \in Seq(OutboundMessage)
      /\ Line(x) = Row(welcome[x], outbound[x]) /\ Line(x) \in Seq(OnSocket)
      /\ down[x] \in Seq(OnSocket) /\ Line(x) \in Seq(OutboundMessage)
  BY SocketMessages DEF LinkInv
<1>2. /\ phase \in [ParticipantIds -> Phases] /\ outbound \in Queues
      /\ welcome \in [ParticipantIds -> Seq(DataFrame)]
  BY <1>1 DEF Inv, ThreadType, QueueType, Queues
<1>3. Line(x)' = Row(welcome'[x], outbound'[x])
  BY DEF Line, Row
<1>4. OutboundMessage \subseteq OnSocket
  BY DEF OnSocket
<1>5. \A p \in live : p \in participants => Receiving(p)
  BY DEF SocketInv
<1>6. ASSUME Line(x) # <<>>, Wire(x, Head(Line(x))), Line(x)' = Tail(Line(x)),
             UNCHANGED nextSequence, phase[x] \in {"replaying", "running"},
             phase'[x] \notin {"absent", "joined"}, participants' \subseteq participants,
             x \in participants' => Receiving(x)'
      PROVE  Sends(x)
  <2>1. Head(Line(x)) \in OnSocket
    BY <1>1, <1>6
  <2>2. /\ UNCHANGED <<pc, conn, live, welcomeId, outputSequence>>
        /\ x \in live => /\ down'[x] = Append(down[x], Head(Line(x))) /\ down'[x] # <<>>
                         /\ down[x] # <<>> => Head(down'[x]) = Head(down[x])
        /\ \A p \in ParticipantIds : p # x => down'[p] = down[p]
    BY <1>1, <1>6, <2>1, SocketWired
  <2>3. Append(down[x], Head(Line(x))) \o Tail(Line(x)) = down[x] \o Line(x)
    BY <1>1, <1>6, HeadWired
  <2>4. x \in live => Coming(x)' = Coming(x)
    BY <1>6, <2>2, <2>3 DEF Coming
  <2> QED
    BY <1>6, <2>2, <2>4 DEF Sends
<1>7. CASE SendJoined(x) /\ Wire(x, Joined(x))
  <2>1. /\ phase[x] = "joined" /\ phase'[x] = "replaying"
        /\ UNCHANGED <<nextSequence, participants, outbound, welcome>>
    BY <1>2, <1>7 DEF SendJoined, stream, members
  <2>2. Joined(x) \in OnSocket
    BY DEF Joined, OnSocket
  <2>3. /\ UNCHANGED <<pc, conn, live, welcomeId, outputSequence>>
        /\ x \in live => down'[x] = Append(down[x], Joined(x))
        /\ \A p \in ParticipantIds : p # x => down'[p] = down[p]
    BY <1>1, <1>7, <2>2, SocketWired
  <2>4. down[x] = <<>> /\ Append(down[x], Joined(x)) = <<Joined(x)>>
    <3>1. down[x] = <<>>
      BY <2>1 DEF SocketInv
    <3> QED
      BY <3>1
  <2>5. Line(x)' = Line(x)
    BY <1>1, <1>3, <2>1
  <2> QED
    BY <2>1, <2>3, <2>4, <2>5 DEF Sends, Receiving
<1>8. CASE SendReplay(x) /\ welcome[x] # <<>> /\ Wire(x, Data(Head(welcome[x])))
  <2>1. /\ phase[x] = "replaying" /\ phase' = phase
        /\ welcome' = [welcome EXCEPT ![x] = Tail(@)]
        /\ UNCHANGED <<nextSequence, participants, outbound>>
    BY <1>8 DEF SendReplay, stream, members
  <2>2. welcome'[x] = Tail(welcome[x]) /\ outbound'[x] = outbound[x]
    BY <1>2, <2>1
  <2>3. /\ Row(welcome[x], outbound[x]) # <<>>
        /\ Head(Row(welcome[x], outbound[x])) = Data(Head(welcome[x]))
        /\ Tail(Row(welcome[x], outbound[x])) = Row(Tail(welcome[x]), outbound[x])
    BY <1>1, <1>8, RowTaken
  <2>4. /\ Line(x) # <<>> /\ Head(Line(x)) = Data(Head(welcome[x]))
        /\ Line(x)' = Tail(Line(x))
    BY <1>1, <1>3, <2>2, <2>3
  <2>5. phase'[x] \notin {"absent", "joined"} /\ (x \in participants' => Receiving(x)')
    BY <2>1 DEF Receiving
  <2> QED
    BY <1>6, <1>8, <2>1, <2>4, <2>5
<1>9. CASE SendReplay(x) /\ welcome[x] = <<>> /\ Unwired
  <2>1. /\ phase[x] = "replaying" /\ phase'[x] = "running"
        /\ UNCHANGED <<nextSequence, participants, outbound, welcome>>
    BY <1>2, <1>9 DEF SendReplay, stream, members
  <2>2. UNCHANGED <<pc, conn, live, welcomeId, outputSequence, down>>
    BY <1>9 DEF Unwired, guest, worker, network
  <2>3. Coming(x)' = Coming(x)
    BY <1>1, <1>3, <2>1, <2>2 DEF Coming
  <2> QED
    BY <2>1, <2>2, <2>3 DEF Sends, Receiving
<1>10. CASE Forward(x) /\ Wire(x, Head(outbound[x]))
  <2>1. /\ phase[x] = "running" /\ outbound[x] # <<>> /\ phase' = phase /\ welcome' = welcome
        /\ outbound' = [outbound EXCEPT ![x] = Tail(@)]
        /\ UNCHANGED <<nextSequence, participants>>
    BY <1>10 DEF Forward, stream
  <2>2. outbound'[x] = Tail(outbound[x]) /\ Tail(outbound[x]) \in Seq(OutboundMessage)
    BY <1>1, <1>2, <2>1 DEF Queues
  <2>3. welcome[x] = <<>> /\ welcome'[x] = <<>>
    BY <2>1 DEF FlowInv, Flowing
  <2>4. Line(x) = outbound[x] /\ Line(x)' = Tail(outbound[x])
    <3>1. Row(welcome[x], outbound[x]) = outbound[x]
      BY <1>1, <2>3, RowTaken
    <3>2. Row(welcome'[x], Tail(outbound[x])) = Tail(outbound[x])
      BY <1>1, <2>2, <2>3, RowTaken
    <3> QED
      BY <1>1, <1>3, <2>2, <3>1, <3>2
  <2>5. phase'[x] \notin {"absent", "joined"} /\ (x \in participants' => Receiving(x)')
    BY <2>1 DEF Receiving
  <2> QED
    BY <1>6, <1>10, <2>1, <2>4, <2>5
<1>11. ASSUME Finish(x)
       PROVE  /\ phase[x] = "running" /\ phase'[x] = "dropped" /\ outbound'[x] = <<>>
              /\ welcome[x] = <<>> /\ welcome' = welcome /\ nextSequence' = nextSequence
              /\ participants' \subseteq participants /\ x \notin participants'
  <2>1. /\ phase[x] = "running" /\ phase'[x] = "dropped" /\ welcome' = welcome
        /\ nextSequence' = nextSequence
    BY <1>2, <1>11 DEF Finish, LeaveSession, stream
  <2>2. welcome[x] = <<>>
    BY <2>1 DEF FlowInv, Flowing
  <2>3. CASE x \in participants
    <3> DEFINE q == [outbound EXCEPT ![x] = <<>>]
    <3>1. \E r, c : Broadcast(participants \ {x}, r, c, q, ParticipantLeft(x))
      BY <1>11, <2>3 DEF Finish, LeaveSession
    <3>2. q[x] = <<>>
      BY <1>2 DEF Queues
    <3> HIDE DEF q
    <3> QED
      BY <2>1, <2>2, <3>1, <3>2 DEF Broadcast, TrySend
  <2>4. CASE x \notin participants
    <3>1. outbound' = [outbound EXCEPT ![x] = <<>>] /\ participants' = participants
      BY <1>11, <2>4 DEF Finish, LeaveSession
    <3> QED
      BY <1>2, <2>1, <2>2, <2>4, <3>1 DEF Queues
  <2> QED
    BY <2>3, <2>4
<1>12. CASE Finish(x) /\ outbound[x] # <<>> /\ Wire(x, Closed)
  <2>1. /\ phase[x] = "running" /\ phase'[x] = "dropped" /\ outbound'[x] = <<>>
        /\ welcome[x] = <<>> /\ welcome' = welcome /\ nextSequence' = nextSequence
        /\ participants' \subseteq participants /\ x \notin participants'
    BY <1>11, <1>12
  <2>2. outbound[x][1] = Closed /\ 1 \in DOMAIN outbound[x] /\ Head(outbound[x]) = Closed
    <3>1. Head(outbound[x]) = Closed
      BY <1>12 DEF Finish, Disconnected
    <3> QED
      BY <1>1, <1>12, <3>1
  <2>3. Len(outbound[x]) = 1
    BY <2>2 DEF FlowInv, FarewellInv, LastWord
  <2>4. Tail(outbound[x]) = <<>>
    <3>1. Tail(outbound[x]) \in Seq(OutboundMessage) /\ Len(Tail(outbound[x])) = 0
      BY <1>1, <1>12, <2>3
    <3>2. \A s \in Seq(OutboundMessage) : Len(s) = 0 => s = <<>>
      OBVIOUS
    <3> QED
      BY <3>1, <3>2
  <2>5. Line(x) = outbound[x] /\ Line(x)' = <<>>
    <3>1. Row(welcome[x], outbound[x]) = outbound[x]
      BY <1>1, <2>1, RowTaken
    <3>2. <<>> \in Seq(OutboundMessage)
      OBVIOUS
    <3>3. Row(welcome[x], <<>>) = <<>>
      BY <1>1, <2>1, <3>2, RowTaken
    <3> QED
      BY <1>1, <1>3, <2>1, <3>1, <3>3
  <2>6. phase'[x] \notin {"absent", "joined"} /\ (x \in participants' => Receiving(x)')
    BY <2>1
  <2> QED
    BY <1>6, <1>12, <2>1, <2>2, <2>4, <2>5, <2>6
<1>13. CASE Finish(x) /\ outbound[x] = <<>> /\ Unwired
  <2>1. /\ phase[x] = "running" /\ phase'[x] = "dropped" /\ outbound'[x] = <<>>
        /\ welcome[x] = <<>> /\ welcome' = welcome /\ nextSequence' = nextSequence
        /\ participants' \subseteq participants /\ x \notin participants'
    BY <1>11, <1>13
  <2>2. UNCHANGED <<pc, conn, live, welcomeId, outputSequence, down>>
    BY <1>13 DEF Unwired, guest, worker, network
  <2>3. Coming(x)' = Coming(x)
    BY <1>1, <1>3, <1>13, <2>1, <2>2 DEF Coming
  <2> QED
    BY <2>1, <2>2, <2>3 DEF Sends
<1> QED
  BY <1>7, <1>8, <1>9, <1>10, <1>12, <1>13 DEF HostSends

\* The property is that what is coming to the connection the guest holds goes on.
Skipless == conn \in live /\ pc \in {"joining", "running"} => Goes(conn)

LinkFlow == FlowInv /\ SocketInv /\ Skipless

\* The same of the connection the worker is at after the step.
LEMMA GoesThere ==
  ASSUME NEW x, conn' = x, Goes(x)'
  PROVE  Goes(conn)'
<1>1. Line(conn)' = Line(x)'
  BY DEF Line
<1>2. Coming(conn)' = Coming(x)'
  BY <1>1 DEF Coming
<1>3. /\ Continues(Coming(x)', outputSequence')
      /\ x \in participants' => EndsAt(Coming(x)', outputSequence', nextSequence')
  BY DEF Goes, Continues, EndsAt
<1>4. /\ Continues(Coming(conn)', outputSequence')
      /\ conn' \in participants' => EndsAt(Coming(conn)', outputSequence', nextSequence')
  BY <1>2, <1>3
<1> QED
  BY <1>4 DEF Goes, Continues, EndsAt

\* Where nothing is taken and nothing sent, what is coming goes on.
LEMMA IdleFlow ==
  ASSUME LinkInv, LinkInv', SocketInv, Skipless, \A p \in ParticipantIds : Aside(p),
         UNCHANGED <<pc, conn, down, live, welcomeId, outputSequence>>
  PROVE  SocketInv' /\ Skipless'
<1>1. SocketInv'
  BY SocketIdle
<1>2. ASSUME conn \in live, pc \in {"joining", "running"} PROVE Goes(conn)'
  <2>1. conn \in ParticipantIds /\ (conn \in participants => Receiving(conn))
    BY <1>2 DEF SocketInv
  <2> DEFINE p == conn
  <2>2. Goes(p) /\ Aside(p) /\ down'[p] = down[p]
    BY <1>2, <2>1 DEF Skipless
  <2>3. conn' = conn
    OBVIOUS
  <2>4. \A x \in ParticipantIds :
          Aside(x) /\ Goes(x) /\ (x \in participants => Receiving(x)) => Goes(x)'
    <3> SUFFICES ASSUME NEW x \in ParticipantIds, Aside(x), Goes(x),
                        x \in participants => Receiving(x)
                 PROVE  Goes(x)'
      OBVIOUS
    <3> QED
      BY GoesOn DEF LinkInv
  <2>5. \A x : x = conn /\ Goes(x)' => Goes(conn)'
    BY <2>3, GoesThere
  <2> QED
    BY <2>1, <2>2, <2>4, <2>5
<1> QED
  BY <1>1, <1>2 DEF Skipless

\* The first frames of a connection go on from the last frame of the one before.
LEMMA OpenFlow ==
  ASSUME LinkInv, LinkInv', FlowInv, SocketInv, NEW x \in ParticipantIds, OpenSocket(x)
  PROVE  SocketInv' /\ Skipless'
<1>1. PICK after \in Nat \cup {Fresh} :
        /\ ReplayAvailable(after) /\ welcome'[x] = ReplayForJoin(after)
        /\ outputSequence = IF after = Fresh THEN 0 ELSE after
  BY SocketOpens DEF FlowInv
<1>2. SocketInv' /\ Joins(x) /\ conn' = x /\ down'[x] = <<>>
  BY SocketOpens DEF FlowInv
<1>3. /\ outputSequence' = outputSequence /\ nextSequence' = nextSequence
      /\ outbound'[x] = <<>>
  BY <1>2 DEF OpenSocket, Joins, stream
<1>4. /\ Continues(Row(ReplayForJoin(after), <<>>), outputSequence)
      /\ EndsAt(Row(ReplayForJoin(after), <<>>), outputSequence, nextSequence)
  BY <1>1, WelcomeContinues DEF LinkInv, Inv
<1> DEFINE w == Row(ReplayForJoin(after), <<>>)
<1>5. Line(x)' = w
  BY <1>1, <1>3 DEF Line, Row
<1>6. Line(x)' \in Seq(OnSocket)
  <2>1. welcome'[x] \in Seq(DataFrame) /\ outbound'[x] \in Seq(OutboundMessage)
    BY DEF LinkInv, Inv, ThreadType, QueueType
  <2>2. Row(welcome'[x], outbound'[x]) \in Seq(OutboundMessage)
    BY <2>1, RowType
  <2>3. OutboundMessage \subseteq OnSocket
    BY DEF OnSocket
  <2>4. Row(welcome'[x], outbound'[x]) \in Seq(OnSocket)
    BY <2>2, <2>3
  <2> QED
    BY <2>4 DEF Line, Row
<1> HIDE DEF w
<1>7. Coming(x)' = w
  BY <1>2, <1>5, <1>6 DEF Coming
<1>8. Goes(x)'
  BY <1>3, <1>4, <1>7 DEF Goes, Continues, EndsAt, w
<1>9. Goes(conn)'
  BY <1>2, <1>8, GoesThere
<1> QED
  BY <1>2, <1>9 DEF Skipless

\* The first of what one line holds is the first of it and what comes behind.
LEMMA TakenFirst ==
  ASSUME NEW S, NEW d \in Seq(S), NEW l \in Seq(S), d # <<>>
  PROVE  d \o l # <<>> /\ Head(d \o l) = Head(d) /\ Tail(d \o l) = Tail(d) \o l
<1> DEFINE h == Head(d)
           t == Tail(d)
<1>1. h \in S /\ t \in Seq(S)
  OBVIOUS
<1>2. Len(d) \in Nat \ {0} /\ Len(l) \in Nat /\ Len(t) = Len(d) - 1
      /\ h = d[1] /\ \A i \in 1..(Len(d) - 1) : t[i] = d[i + 1]
  OBVIOUS
<1> HIDE DEF h, t
<1> DEFINE a == d \o l
           b == t \o l
<1>3. /\ a \in Seq(S) /\ Len(a) = Len(d) + Len(l)
      /\ \A i \in 1..(Len(d) + Len(l)) : a[i] = IF i <= Len(d) THEN d[i] ELSE l[i - Len(d)]
  BY ConcatProperties, Zenon
<1>4. /\ b \in Seq(S) /\ Len(b) = Len(t) + Len(l)
      /\ \A i \in 1..(Len(t) + Len(l)) : b[i] = IF i <= Len(t) THEN t[i] ELSE l[i - Len(t)]
  BY <1>1, ConcatProperties, Zenon
<1> HIDE DEF a, b
<1>5. Len(a) > 0 /\ a # <<>> /\ a[1] = h
  <2>1. Len(a) > 0 /\ 1 \in 1..(Len(d) + Len(l)) /\ 1 <= Len(d)
    BY <1>2, <1>3
  <2>2. a # <<>>
    BY <1>3, <2>1
  <2> QED
    BY <1>2, <1>3, <2>1, <2>2
<1> DEFINE c == Tail(a)
<1>6. /\ Head(a) = h /\ c \in Seq(S) /\ Len(c) = Len(b)
      /\ \A i \in 1..Len(c) : c[i] = a[i + 1]
  BY <1>2, <1>3, <1>4, <1>5
<1> HIDE DEF c
<1>7. \A i \in 1..Len(c) : c[i] = b[i]
  <2> TAKE i \in 1..Len(c)
  <2>0. i \in Nat /\ i >= 1 /\ i + 1 \in 1..(Len(d) + Len(l)) /\ i \in 1..(Len(t) + Len(l))
    BY <1>2, <1>4, <1>6
  <2>1. CASE i <= Len(t)
    BY <1>2, <1>3, <1>4, <1>6, <2>0, <2>1
  <2>2. CASE ~(i <= Len(t))
    <3>1. ~(i + 1 <= Len(d)) /\ (i + 1) - Len(d) = i - Len(t)
      BY <1>2, <2>0, <2>2
    <3> QED
      BY <1>3, <1>4, <1>6, <2>0, <2>2, <3>1
  <2> QED
    BY <2>1, <2>2
<1>8. c = b
  BY <1>4, <1>6, <1>7, SeqEqual, Zenon
<1> QED
  BY <1>5, <1>6, <1>8 DEF a, b, c, h, t

\* What the worker takes off its socket is the next of what is coming.
LEMMA ReadFlow ==
  ASSUME LinkInv, SocketInv, Skipless, conn \in live, pc \in {"joining", "running"},
         UNCHANGED <<vars, conn>>, down[conn] # <<>>,
         down' = [down EXCEPT ![conn] = Tail(@)],
         outputSequence' = Taken(outputSequence, Head(down[conn]))
  PROVE  Goes(conn)'
<1> DEFINE p == conn
           d == down[p]
           l == Line(p)
           n == outputSequence
<1>1. conn \in ParticipantIds /\ Goes(conn)
  BY DEF SocketInv, Skipless
<1>2. /\ Framed(OnSocket) /\ d \in Seq(OnSocket) /\ l \in Seq(OnSocket)
      /\ Coming(conn) \in Seq(OnSocket)
  BY <1>1, SocketMessages DEF LinkInv
<1>3. /\ n \in Nat /\ d # <<>> /\ Continues(d \o l, n)
      /\ conn \in participants => EndsAt(d \o l, n, nextSequence)
      /\ d \o l \in Seq(OnSocket)
  BY <1>1, <1>2 DEF Goes, Coming, LinkInv, GuestType
<1>4. /\ outputSequence' = Taken(n, Head(d)) /\ nextSequence' = nextSequence
      /\ participants' = participants /\ conn' = conn
      /\ Coming(conn)' = Tail(d) \o l
  <2>1. down'[conn] = Tail(down[conn])
    BY <1>1 DEF LinkInv, GuestType
  <2>2. Line(conn)' = Line(conn)
    BY DEF Line, vars, members, threads
  <2> QED
    BY <2>1, <2>2 DEF Coming, vars, members, stream
<1> HIDE DEF d, l, n
<1>5. d \o l # <<>> /\ Head(d \o l) = Head(d) /\ Tail(d \o l) = Tail(d) \o l
  BY <1>2, <1>3, TakenFirst
<1>6. /\ Continues(Tail(d \o l), Taken(n, Head(d \o l)))
      /\ \A last : EndsAt(d \o l, n, last) => EndsAt(Tail(d \o l), Taken(n, Head(d \o l)), last)
  BY <1>2, <1>3, <1>5, TakenLine
<1>7. /\ Continues(Tail(d) \o l, Taken(n, Head(d)))
      /\ conn \in participants => EndsAt(Tail(d) \o l, Taken(n, Head(d)), nextSequence)
  BY <1>3, <1>5, <1>6
<1>8. /\ Continues(Coming(conn)', outputSequence')
      /\ conn \in participants' => EndsAt(Coming(conn)', outputSequence', nextSequence')
  BY <1>4, <1>7
<1> QED
  BY <1>4, <1>8 DEF Goes, Continues, EndsAt

\* The worker's steps: what it reads is the next of what is coming, and a connection
\* it opens goes on from what it has read.
LEMMA WorkerFlow ==
  ASSUME LinkInv, LinkInv', LinkFlow, Worker
  PROVE  SocketInv' /\ Skipless'
<1>1. CASE \E x \in ParticipantIds : OpenSocket(x)
  BY <1>1, OpenFlow DEF LinkFlow
<1>2. CASE ~\E x \in ParticipantIds : OpenSocket(x)
  <2>1. SocketInv' /\ UNCHANGED vars
    BY <1>2, SocketWorker, GuestLeavesSession DEF LinkFlow
  <2>2. SocketInv /\ Skipless
    BY DEF LinkFlow
  <2> SUFFICES ASSUME conn' \in live', pc' \in {"joining", "running"} PROVE Goes(conn)'
    BY <2>1 DEF Skipless
  <2>3. ASSUME UNCHANGED <<conn, down, outputSequence>>, conn \in live,
               pc \in {"joining", "running"}
        PROVE  Goes(conn)'
    <3>1. Goes(conn)
      BY <2>2, <2>3 DEF Skipless
    <3>2. UNCHANGED <<participants, nextSequence, outbound, welcome>>
      BY <2>1 DEF vars, members, stream, threads
    <3>3. Coming(conn)' = Coming(conn)
      BY <2>3, <3>2 DEF Coming, Line
    <3>4. /\ Continues(Coming(conn)', outputSequence')
          /\ conn' \in participants' => EndsAt(Coming(conn)', outputSequence', nextSequence')
      BY <2>3, <3>1, <3>2, <3>3 DEF Goes
    <3> QED
      BY <3>4 DEF Goes, Continues, EndsAt
  <2>4. CASE ReadJoined
    <3>1. /\ pc = "joining" /\ conn' = conn /\ conn \in live /\ down[conn] # <<>>
          /\ down' = [down EXCEPT ![conn] = Tail(@)] /\ outputSequence' = outputSequence
      BY <2>4 DEF ReadJoined
    <3>2. phase[conn] # "joined"
      BY <2>2, <3>1 DEF SocketInv
    <3>3. Head(down[conn]).type = "joined"
      BY <2>2, <3>1, <3>2 DEF SocketInv
    <3>4. outputSequence' = Taken(outputSequence, Head(down[conn]))
      BY <3>1, <3>3 DEF Taken
    <3> QED
      BY <2>1, <2>2, <3>1, <3>4, ReadFlow
  <2>5. CASE ReadFrame
    <3>1. /\ pc = "running" /\ conn' = conn /\ conn \in live /\ down[conn] # <<>>
          /\ down' = [down EXCEPT ![conn] = Tail(@)]
      BY <2>5 DEF ReadFrame, Incoming, MayRead, Took, End
    <3>2. outputSequence' = Taken(outputSequence, Head(down[conn]))
      BY <2>5 DEF ReadFrame, End, Taken
    <3> QED
      BY <2>1, <2>2, <3>1, <3>2, ReadFlow
  <2>6. CASE ReadControl
    <3>1. /\ pc = "running" /\ conn' = conn /\ conn \in live /\ down[conn] # <<>>
          /\ down' = [down EXCEPT ![conn] = Tail(@)]
      BY <2>6 DEF ReadControl, Incoming, MayRead, Took, End
    <3>2. outputSequence' = Taken(outputSequence, Head(down[conn]))
      BY <2>6 DEF ReadControl, Taken
    <3> QED
      BY <2>1, <2>2, <3>1, <3>2, ReadFlow
  <2>7. CASE SendCommand
    BY <2>3, <2>7 DEF SendCommand
  <2>8. CASE \/ OpenFails \/ SendFails \/ UserCloses \/ ReadFails \/ KeepCommand
             \/ CloseWhileWaiting \/ WaitOver
    BY <2>8 DEF OpenFails, SendFails, UserCloses, ReadFails, KeepCommand,
       CloseWhileWaiting, WaitOver, End, Retry
  <2> QED
    BY <1>2, <2>4, <2>5, <2>6, <2>7, <2>8 DEF Worker
<1> QED
  BY <1>1, <1>2

\* A thread of the host writes to the socket of x: what is coming there is the same,
\* or has the answer to the join before it.
LEMMA WriteFlow ==
  ASSUME LinkInv, LinkInv', LinkFlow, NEW x \in ParticipantIds, HostSends(x)
  PROVE  SocketInv' /\ Skipless'
<1>1. SocketInv /\ Skipless /\ FlowInv /\ Inv /\ GuestType
  BY DEF LinkFlow, LinkInv
<1>2. Sends(x)
  BY <1>1, HostWrites
<1>3. ThreadStep(x)
  BY DEF HostSends, ThreadStep
<1>4. ASSUME NEW p \in ParticipantIds, p # x PROVE Aside(p) /\ down'[p] = down[p]
  BY <1>1, <1>2, <1>3, <1>4, OthersAside DEF FlowInv, Sends
<1>5. \A p \in ParticipantIds : p # x => phase'[p] = phase[p]
  BY <1>4 DEF Aside
<1>6. UNCHANGED <<nextSequence, pc, conn, live, welcomeId, outputSequence>>
  BY <1>2 DEF Sends
<1>7. SocketInv'
  <2>1. \A p \in ParticipantIds : phase'[p] \in {"absent", "joined"} => down'[p] = <<>>
    BY <1>1, <1>2, <1>4, <1>5 DEF Sends, SocketInv
  <2>2. \A p \in live' : phase'[p] # "absent" /\ (p \in participants' => Receiving(p)')
    BY <1>1, <1>2, <1>5, <1>6 DEF Sends, SocketInv, Receiving
  <2>3. pc' = "joining" /\ conn' \in live' /\ phase'[conn'] # "joined" =>
          down'[conn'] # <<>> /\ Head(down'[conn']).type = "joined"
    <3>1. CASE conn = x
      <4>1. <<Joined(x)>> # <<>> /\ Head(<<Joined(x)>>).type = "joined"
        BY DEF Joined
      <4> QED
        BY <1>1, <1>2, <1>6, <3>1, <4>1 DEF Sends, SocketInv
    <3>2. CASE conn # x
      BY <1>1, <1>4, <1>5, <1>6, <3>2 DEF SocketInv
    <3> QED
      BY <3>1, <3>2
  <2> QED
    BY <1>1, <1>6, <2>1, <2>2, <2>3 DEF SocketInv
<1>8. ASSUME conn \in live, pc \in {"joining", "running"} PROVE Goes(conn)'
  <2>1. conn \in ParticipantIds /\ Goes(conn)
    BY <1>1, <1>8 DEF SocketInv, Skipless
  <2>2. CASE conn # x
    <3>1. Aside(conn) /\ down'[conn] = down[conn] /\ outputSequence' = outputSequence
          /\ (conn \in participants => Receiving(conn))
      BY <1>1, <1>4, <1>6, <1>8, <2>1, <2>2 DEF SocketInv
    <3>2. \A p \in ParticipantIds :
            Aside(p) /\ down'[p] = down[p] /\ Goes(p) /\ (p \in participants => Receiving(p))
              => Goes(p)'
      <4> SUFFICES ASSUME NEW p \in ParticipantIds, Aside(p), down'[p] = down[p], Goes(p),
                          p \in participants => Receiving(p)
                   PROVE  Goes(p)'
        OBVIOUS
      <4> QED
        BY <1>6, GoesOn DEF LinkInv
    <3>3. \A p : p = conn /\ Goes(p)' => Goes(conn)'
      BY <1>6, GoesThere
    <3> QED
      BY <2>1, <3>1, <3>2, <3>3
  <2>3. CASE conn = x
    <3>1. /\ Continues(Coming(x), outputSequence)
          /\ x \in participants => EndsAt(Coming(x), outputSequence, nextSequence)
      BY <2>1, <2>3 DEF Goes
    <3>2. participants' \subseteq participants /\ x \in live
      BY <1>2, <1>8, <2>3 DEF Sends
    <3>3. CASE phase[x] # "joined"
      <4>1. Coming(x)' = Coming(x)
        BY <1>2, <3>2, <3>3 DEF Sends
      <4>2. /\ Continues(Coming(x)', outputSequence')
            /\ x \in participants' => EndsAt(Coming(x)', outputSequence', nextSequence')
        BY <1>6, <3>1, <3>2, <4>1
      <4>3. Goes(x)'
        BY <4>2 DEF Goes, Continues, EndsAt
      <4> QED
        BY <1>6, <2>3, <4>3, GoesThere
    <3>4. CASE phase[x] = "joined"
      <4> DEFINE l == Line(x)
      <4>1. l \in Seq(OnSocket) /\ Joined(x) \in OnSocket /\ Joined(x).type # "data"
        BY <1>1, SocketMessages DEF Joined, OnSocket
      <4>2. Coming(x) = l /\ Coming(x)' = <<Joined(x)>> \o l
        <5>1. down[x] = <<>> /\ down'[x] = <<Joined(x)>> /\ Line(x)' = Line(x)
          BY <1>1, <1>2, <3>2, <3>4 DEF Sends, SocketInv
        <5>2. <<>> \o l = l
          BY <4>1
        <5> QED
          BY <5>1, <5>2 DEF Coming
      <4> HIDE DEF l
      <4>3. /\ Continues(<<Joined(x)>> \o l, outputSequence)
            /\ x \in participants => EndsAt(<<Joined(x)>> \o l, outputSequence, nextSequence)
        BY <3>1, <4>1, <4>2, NewsBefore
      <4>4. /\ Continues(Coming(x)', outputSequence')
            /\ x \in participants' => EndsAt(Coming(x)', outputSequence', nextSequence')
        BY <1>6, <3>2, <4>2, <4>3
      <4>5. Goes(x)'
        BY <4>4 DEF Goes, Continues, EndsAt
      <4> QED
        BY <1>6, <2>3, <4>5, GoesThere
    <3> QED
      BY <3>3, <3>4
  <2> QED
    BY <2>2, <2>3
<1> QED
  BY <1>6, <1>7, <1>8 DEF Skipless

\* The host notices that a socket is gone, or the socket fails: it is not one the
\* guest holds, or no longer.
LEMMA LostFlow ==
  ASSUME LinkInv, LinkInv', LinkFlow, NEW x \in ParticipantIds, HostNotices(x) \/ Cut(x)
  PROVE  SocketInv' /\ Skipless'
<1>1. SocketInv /\ Skipless /\ FlowInv /\ Inv /\ GuestType
  BY DEF LinkFlow, LinkInv
<1>2. UNCHANGED <<pc, conn, welcomeId, outputSequence>> /\ live' \subseteq live /\ x \notin live'
  BY DEF HostNotices, Cut, Unwired, guest, worker, network
<1>3. ASSUME NEW p \in ParticipantIds, p # x PROVE Aside(p) /\ down'[p] = down[p]
  <2>1. CASE HostNotices(x)
    <3>1. (WelcomeFails(x) \/ SocketEnds(x)) /\ down' = down
      BY <2>1 DEF HostNotices, Unwired, network
    <3> QED
      BY <1>1, <1>3, <3>1, OthersAside DEF FlowInv
  <2>2. CASE Cut(x)
    <3>1. UNCHANGED vars /\ down' = [down EXCEPT ![x] = <<>>]
      BY <2>2 DEF Cut
    <3>2. Aside(p)
      BY <1>1, <3>1, SessionAside
    <3> QED
      BY <1>1, <1>3, <3>1, <3>2 DEF GuestType
  <2> QED
    BY <2>1, <2>2
<1>4. phase'[x] \in {"absent", "joined"} => down'[x] = <<>>
  <2>1. CASE HostNotices(x)
    BY <1>1, <2>1 DEF HostNotices, WelcomeFails, SocketEnds, LeaveSession, Inv, ThreadType
  <2>2. CASE Cut(x)
    BY <1>1, <2>2 DEF Cut, GuestType
  <2> QED
    BY <2>1, <2>2
<1>5. \A p \in ParticipantIds : p # x => /\ phase'[p] = phase[p]
                                         /\ p \in participants' => p \in participants
  BY <1>3 DEF Aside, Hears, IsFed
<1>6. SocketInv'
  <2>1. \A p \in ParticipantIds : phase'[p] \in {"absent", "joined"} => down'[p] = <<>>
    BY <1>1, <1>3, <1>4, <1>5 DEF SocketInv
  <2>2. \A p \in live' : phase'[p] # "absent" /\ (p \in participants' => Receiving(p)')
    BY <1>1, <1>2, <1>5 DEF SocketInv, Receiving
  <2>3. pc' = "joining" /\ conn' \in live' /\ phase'[conn'] # "joined" =>
          down'[conn'] # <<>> /\ Head(down'[conn']).type = "joined"
    BY <1>1, <1>2, <1>3, <1>5 DEF SocketInv
  <2> QED
    BY <1>1, <1>2, <2>1, <2>2, <2>3 DEF SocketInv
<1>7. ASSUME conn' \in live', pc' \in {"joining", "running"} PROVE Goes(conn)'
  <2>1. /\ conn \in ParticipantIds /\ Goes(conn) /\ conn # x
        /\ conn \in participants => Receiving(conn)
    BY <1>1, <1>2, <1>7 DEF SocketInv, Skipless
  <2>2. Aside(conn) /\ down'[conn] = down[conn]
    BY <1>3, <2>1
  <2>3. \A p \in ParticipantIds :
          Aside(p) /\ down'[p] = down[p] /\ Goes(p) /\ (p \in participants => Receiving(p))
            => Goes(p)'
    <3> SUFFICES ASSUME NEW p \in ParticipantIds, Aside(p), down'[p] = down[p], Goes(p),
                        p \in participants => Receiving(p)
                 PROVE  Goes(p)'
      OBVIOUS
    <3> QED
      BY <1>2, GoesOn DEF LinkInv
  <2>4. \A p : p = conn /\ Goes(p)' => Goes(conn)'
    BY <1>2, GoesThere
  <2> QED
    BY <2>1, <2>2, <2>3, <2>4
<1> QED
  BY <1>6, <1>7 DEF Skipless

\* Every step of the link.
LEMMA LinkFlowStep ==
  ASSUME LinkInv, LinkFlow, [LinkNext]_linkVars
  PROVE  LinkFlow'
<1>1. LinkInv' /\ [Next]_vars
  BY LinkStepInv, LinkStepIsSessionStep
<1>2. FlowInv'
  BY <1>1, FlowStep DEF LinkFlow, LinkInv
<1>3. Inv /\ SocketInv /\ Skipless
  BY DEF LinkFlow, LinkInv
<1> SUFFICES SocketInv' /\ Skipless'
  BY <1>2 DEF LinkFlow
<1>4. ASSUME NEW x \in ParticipantIds,
             \/ TerminalAction \/ UNCHANGED vars \/ HostAction(x)
             \/ RequestControl(x) \/ ReleaseControl(x)
             \/ \E hasInput \in BOOLEAN : AuthorizeInput(x, hasInput),
             UNCHANGED <<pc, conn, down, live, welcomeId, outputSequence>>
      PROVE  SocketInv' /\ Skipless'
  <2>1. \A p \in ParticipantIds : Aside(p)
    BY <1>3, <1>4, SessionAside
  <2> QED
    BY <1>1, <1>3, <1>4, <2>1, IdleFlow
<1>5. ASSUME UNCHANGED vars, UNCHANGED <<pc, conn, down, live, welcomeId, outputSequence>>
      PROVE  SocketInv' /\ Skipless'
  <2>1. ASSUME NEW p \in ParticipantIds PROVE Aside(p)
    BY <1>3, <1>5, SessionAside
  <2> QED
    BY <1>1, <1>3, <1>5, <2>1, IdleFlow
<1>6. CASE User
  <2>1. UNCHANGED vars /\ UNCHANGED <<pc, conn, down, live, welcomeId, outputSequence>>
    BY <1>6 DEF User, Welcomed, Type, AskControl, Give, CloseGuest, CloseReturns, worker, network
  <2> QED
    BY <1>5, <2>1
<1>7. CASE HostUser
  <2>1. UNCHANGED <<pc, conn, down, live, welcomeId, outputSequence>>
    BY <1>7 DEF HostUser, Unwired, guest, worker, network
  <2>2. CASE TerminalAction
    <3>1. ASSUME NEW p \in ParticipantIds PROVE Aside(p)
      BY <1>3, <2>2, SessionAside
    <3> QED
      BY <1>1, <1>3, <2>1, <3>1, IdleFlow
  <2>3. CASE \E x \in ParticipantIds : HostAction(x)
    BY <1>4, <2>1, <2>3
  <2> QED
    BY <1>7, <2>2, <2>3 DEF HostUser, HostAction
<1>8. ASSUME NEW x \in ParticipantIds, HostReads(x) PROVE SocketInv' /\ Skipless'
  <2>1. UNCHANGED <<pc, conn, down, live, welcomeId, outputSequence>>
    BY <1>8 DEF HostReads, HostTakesInput, HostRefusesInput, HostTakesRequest, Heard,
       guest, worker
  <2>2. \/ UNCHANGED vars \/ RequestControl(x) \/ ReleaseControl(x)
        \/ \E hasInput \in BOOLEAN : AuthorizeInput(x, hasInput)
    <3>1. CASE HostTakesInput(x)
      <4>1. AuthorizeInput(x, TRUE)
        BY <3>1 DEF HostTakesInput
      <4> QED
        BY <4>1
    <3>2. CASE HostRefusesInput(x) \/ HostTakesRequest(x)
      BY <3>2 DEF HostRefusesInput, HostTakesRequest
    <3> QED
      BY <1>8, <3>1, <3>2 DEF HostReads
  <2> QED
    BY <1>4, <2>1, <2>2
<1>9. CASE Worker
  BY <1>1, <1>9, WorkerFlow
<1>10. ASSUME NEW x \in ParticipantIds, HostThread(x) \/ Cut(x) PROVE SocketInv' /\ Skipless'
  BY <1>1, <1>8, <1>10, WriteFlow, LostFlow DEF HostThread
<1>11. CASE UNCHANGED linkVars
  <2>1. UNCHANGED vars /\ UNCHANGED <<pc, conn, down, live, welcomeId, outputSequence>>
    BY <1>11 DEF linkVars, guest, worker, network
  <2> QED
    BY <1>5, <2>1
<1> QED
  BY <1>6, <1>7, <1>9, <1>10, <1>11 DEF LinkNext

\* Nothing is on the way before the first connection.
LEMMA LinkFlowInit == LinkInit => LinkFlow
<1> SUFFICES ASSUME LinkInit PROVE LinkFlow
  OBVIOUS
<1>1. FlowInv
  BY DEF LinkInit, Init, FlowInv, FarewellInv, LastWord, Untouched, Flowing, StreamIntact
<1>2. live = {} /\ pc = "opening" /\ outputSequence = 0
      /\ \A p \in ParticipantIds : down[p] = <<>>
  BY DEF LinkInit
<1> QED
  BY <1>1, <1>2 DEF LinkFlow, SocketInv, Skipless

\* Across every loss of its connection a guest is sent, and accepts, the frames that
\* follow the last one it applied, each once and in order, to the newest
\* (guest.rs:289-353, 422-500; session.rs:646-677; server.rs:235-301): what its
\* socket and the host's line for it hold goes on from there.
THEOREM ResumesWhereItLeftOff == LinkSpec => []NothingSkipped
<1>1. LinkFlow => NothingSkipped
  BY DEF LinkFlow, Skipless, Goes, Coming, NothingSkipped
<1>2. LinkInv /\ LinkFlow /\ [LinkNext]_linkVars => LinkInv' /\ LinkFlow'
  BY LinkStepInv, LinkFlowStep
<1> QED
  BY <1>1, <1>2, LinkInitInv, LinkFlowInit, PTL DEF LinkSpec

-----------------------------------------------------------------------------
\* The bounds of the worker, and the types of the rest: LinkTypeOK.

\* The frames of a line are no newer than the n-th.
NotAhead(q, n) == \A i \in DOMAIN q : q[i].type = "data" => q[i].frame.sequence <= n

\* Of two lines one behind the other both.
LEMMA AheadBoth ==
  ASSUME NEW S, NEW d \in Seq(S), NEW l \in Seq(S), NEW n
  PROVE  NotAhead(d \o l, n) <=> NotAhead(d, n) /\ NotAhead(l, n)
<1> DEFINE a == d \o l
<1>1. /\ Len(d) \in Nat /\ Len(l) \in Nat /\ DOMAIN d = 1..Len(d) /\ DOMAIN l = 1..Len(l)
  OBVIOUS
<1>2. /\ a \in Seq(S) /\ Len(a) = Len(d) + Len(l)
      /\ \A i \in 1..(Len(d) + Len(l)) : a[i] = IF i <= Len(d) THEN d[i] ELSE l[i - Len(d)]
  BY ConcatProperties, Zenon
<1> HIDE DEF a
<1>3. DOMAIN a = 1..(Len(d) + Len(l))
  BY <1>2
<1>4. \A i \in DOMAIN d : i \in DOMAIN a /\ a[i] = d[i]
  BY <1>1, <1>2, <1>3
<1>5. \A i \in DOMAIN l : Len(d) + i \in DOMAIN a /\ a[Len(d) + i] = l[i]
  <2> TAKE i \in DOMAIN l
  <2>1. Len(d) + i \in DOMAIN a /\ ~(Len(d) + i <= Len(d)) /\ (Len(d) + i) - Len(d) = i
    BY <1>1, <1>3
  <2> QED
    BY <1>2, <1>3, <2>1
<1>6. \A i \in DOMAIN a : \/ i \in DOMAIN d /\ a[i] = d[i]
                          \/ i - Len(d) \in DOMAIN l /\ a[i] = l[i - Len(d)]
  BY <1>1, <1>2, <1>3
<1>7. ASSUME NotAhead(a, n) PROVE NotAhead(d, n) /\ NotAhead(l, n)
  <2>1. NotAhead(d, n)
    BY <1>4, <1>7 DEF NotAhead
  <2>2. NotAhead(l, n)
    BY <1>5, <1>7 DEF NotAhead
  <2> QED
    BY <2>1, <2>2
<1>8. ASSUME NotAhead(d, n), NotAhead(l, n) PROVE NotAhead(a, n)
  BY <1>6, <1>8 DEF NotAhead
<1> QED
  BY <1>7, <1>8 DEF a

\* A line that grows quietly gets no frames.
LEMMA AheadGrows ==
  ASSUME NEW S, NEW q \in Seq(S), NEW r \in Seq(S), GrowsQuietly(q, r), NEW n, NotAhead(q, n)
  PROVE  NotAhead(r, n)
<1>1. /\ DOMAIN q = 1..Len(q) /\ DOMAIN r = 1..Len(r) /\ Len(q) \in Nat /\ Len(r) \in Nat
  OBVIOUS
<1>2. \A i \in DOMAIN r : i \in DOMAIN q \/ r[i].type # "data"
  BY <1>1 DEF GrowsQuietly
<1>3. \A i \in DOMAIN q : r[i] = q[i]
  BY <1>1 DEF GrowsQuietly
<1> QED
  BY <1>2, <1>3 DEF NotAhead

\* One that is fed gets the next frame.
LEMMA AheadFed ==
  ASSUME NEW S, NEW q \in Seq(S), Framed(S), NEW f, Data(f) \in S, NEW n \in Nat,
         f.sequence = n + 1, NotAhead(q, n)
  PROVE  NotAhead(Append(q, Data(f)), n + 1)
<1> DEFINE r == Append(q, Data(f))
<1>1. /\ Len(q) \in Nat /\ DOMAIN q = 1..Len(q) /\ DOMAIN r = 1..(Len(q) + 1)
      /\ r[Len(q) + 1] = Data(f) /\ \A i \in 1..Len(q) : r[i] = q[i] /\ q[i] \in S
  OBVIOUS
<1> HIDE DEF r
<1>2. ASSUME NEW i \in DOMAIN r, r[i].type = "data" PROVE r[i].frame.sequence <= n + 1
  <2>1. CASE i = Len(q) + 1
    BY <1>1, <2>1 DEF Data
  <2>2. CASE i # Len(q) + 1
    <3>1. i \in DOMAIN q /\ r[i] = q[i] /\ q[i] \in S
      BY <1>1, <2>2
    <3>2. q[i].frame.sequence <= n /\ q[i].frame.sequence \in Nat
      BY <1>2, <3>1 DEF NotAhead, Framed
    <3> QED
      BY <3>1, <3>2
  <2> QED
    BY <2>1, <2>2
<1> QED
  BY <1>2 DEF NotAhead, r

\* One that is taken from holds no others, and what was taken is one of them.
LEMMA AheadTaken ==
  ASSUME NEW S, NEW q \in Seq(S), q # <<>>, NEW n, NotAhead(q, n)
  PROVE  /\ NotAhead(Tail(q), n)
         /\ Head(q).type = "data" => Head(q).frame.sequence <= n
<1> DEFINE t == Tail(q)
<1>1. /\ Len(q) \in Nat \ {0} /\ DOMAIN q = 1..Len(q) /\ DOMAIN t = 1..(Len(q) - 1)
      /\ Head(q) = q[1] /\ \A i \in 1..(Len(q) - 1) : t[i] = q[i + 1]
  OBVIOUS
<1> HIDE DEF t
<1>2. \A i \in DOMAIN t : i + 1 \in DOMAIN q /\ t[i] = q[i + 1]
  BY <1>1
<1>3. 1 \in DOMAIN q
  BY <1>1
<1>4. NotAhead(t, n)
  BY <1>2 DEF NotAhead
<1> QED
  BY <1>1, <1>3, <1>4 DEF NotAhead, t

\* The welcome of a joiner is no newer than the stream.
LEMMA AheadWelcome ==
  ASSUME StreamType, NEW after \in Nat \cup {Fresh}, ReplayAvailable(after)
  PROVE  NotAhead(Row(ReplayForJoin(after), <<>>), nextSequence)
<1>0. nextSequence \in Nat
  BY DEF StreamType
<1>1. ASSUME NEW w \in Seq(DataFrame), \A i \in 1..Len(w) : w[i].sequence <= nextSequence
      PROVE  NotAhead(Row(w, <<>>), nextSequence)
  <2> DEFINE r == Row(w, <<>>)
  <2>1. <<>> \in Seq(OutboundMessage) /\ Len(<<>>) = 0 /\ Len(w) \in Nat
    OBVIOUS
  <2>2. /\ r \in Seq(OutboundMessage) /\ Len(r) = Len(w) + Len(<<>>)
        /\ \A i \in 1..Len(w) : r[i] = Data(w[i])
    BY <2>1, RowType
  <2> HIDE DEF r
  <2>3. DOMAIN r = 1..Len(w)
    BY <2>1, <2>2
  <2>4. \A i \in 1..Len(w) : r[i].frame.sequence <= nextSequence
    BY <1>1, <2>2 DEF Data
  <2> QED
    BY <2>3, <2>4 DEF NotAhead, r
<1>2. ASSUME NEW a \in Nat, Continuous(a)
      PROVE  /\ Newer(a) \in Seq(DataFrame)
             /\ \A i \in 1..Len(Newer(a)) : Newer(a)[i].sequence <= nextSequence
             /\ a <= nextSequence
  <2> DEFINE w == Newer(a)
  <2>1. /\ w \in Seq(ReplayFrame) /\ Len(w) = nextSequence - a
        /\ \A i \in 1..Len(w) : w[i].sequence = a + i
    BY <1>2, NewerFrames
  <2>2. w \in Seq(DataFrame)
    BY <2>1, FrameType
  <2> HIDE DEF w
  <2>3. \A i \in 1..Len(w) : w[i].sequence <= nextSequence
    BY <1>0, <2>1
  <2>4. a <= nextSequence
    BY <1>0, <1>2 DEF Continuous, Missing, StreamType
  <2> QED
    BY <2>2, <2>3, <2>4 DEF w
<1>3. CASE after # Fresh /\ Continuous(after)
  BY <1>1, <1>2, <1>3 DEF ReplayForJoin
<1>4. CASE ~(after # Fresh /\ Continuous(after)) /\ snapshot = NoSnapshot
  <2>1. Continuous(0)
    BY <1>4 DEF ReplayAvailable, SnapshotUsable
  <2> QED
    BY <1>1, <1>2, <1>4, <2>1 DEF ReplayForJoin
<1>5. CASE ~(after # Fresh /\ Continuous(after)) /\ snapshot # NoSnapshot
  <2> DEFINE a == snapshot.sequence
             s == <<snapshot>>
             v == Newer(a)
             w == s \o v
  <2>1. snapshot \in SnapshotFrame /\ Continuous(a) /\ ReplayForJoin(after) = w
    BY <1>5 DEF ReplayAvailable, SnapshotUsable, StreamType, ReplayForJoin
  <2>2. a \in Nat
    BY <2>1 DEF SnapshotFrame
  <2>3. /\ v \in Seq(DataFrame) /\ a <= nextSequence
        /\ \A i \in 1..Len(v) : v[i].sequence <= nextSequence
    BY <1>2, <2>1, <2>2
  <2>4. s \in Seq(DataFrame) /\ Len(s) = 1 /\ s[1] = snapshot
    BY <2>1, FrameType
  <2> HIDE DEF v, s
  <2>5. /\ w \in Seq(DataFrame) /\ Len(w) = Len(s) + Len(v)
        /\ \A i \in 1..(Len(s) + Len(v)) : w[i] = IF i <= Len(s) THEN s[i] ELSE v[i - Len(s)]
    BY <2>3, <2>4, ConcatProperties, Zenon
  <2> HIDE DEF w
  <2>6. ASSUME NEW i \in 1..Len(w) PROVE w[i].sequence <= nextSequence
    <3>1. Len(v) \in Nat
      BY <2>3
    <3>2. CASE i <= 1
      BY <2>3, <2>4, <2>5, <3>1, <3>2
    <3>3. CASE ~(i <= 1)
      <4>1. i - 1 \in 1..Len(v) /\ w[i] = v[i - 1]
        BY <2>4, <2>5, <3>1, <3>3
      <4> QED
        BY <2>3, <4>1
    <3> QED
      BY <3>2, <3>3
  <2> QED
    BY <1>1, <2>1, <2>5, <2>6
<1> QED
  BY <1>3, <1>4, <1>5

\* The guest has no frame the session has not published, and none is coming; a
\* socket that failed holds nothing.
BehindInv ==
  /\ \A p \in live : NotAhead(Coming(p), nextSequence)
  /\ outputSequence <= nextSequence
  /\ pc \in {"joining", "running"} /\ conn \notin live => down[conn] = <<>>

\* News and frames queued behind what is coming.
LEMMA AheadGoesOn ==
  ASSUME Inv, Inv', GuestType, NEW p \in ParticipantIds, Aside(p), down'[p] = down[p],
         NotAhead(Coming(p), nextSequence)
  PROVE  NotAhead(Coming(p)', nextSequence')
<1>1. /\ Framed(OnSocket)
      /\ down[p] \in Seq(OnSocket) /\ Line(p) \in Seq(OnSocket)
      /\ Line(p) = Row(welcome[p], outbound[p])
      /\ welcome[p] \in Seq(DataFrame) /\ outbound[p] \in Seq(OutboundMessage)
  BY SocketMessages
<1>2. /\ Line(p)' = Row(welcome'[p], outbound'[p]) /\ Line(p)' \in Seq(OnSocket)
      /\ outbound'[p] \in Seq(OutboundMessage) /\ welcome'[p] \in Seq(DataFrame)
  <2>1. welcome'[p] \in Seq(DataFrame) /\ outbound'[p] \in Seq(OutboundMessage)
    BY DEF Inv, ThreadType, QueueType
  <2>2. Row(welcome'[p], outbound'[p]) \in Seq(OutboundMessage)
    BY <2>1, RowType
  <2>3. OutboundMessage \subseteq OnSocket
    BY DEF OnSocket
  <2>4. Line(p)' = Row(welcome'[p], outbound'[p])
    BY DEF Line, Row
  <2>5. Line(p)' \in Seq(OnSocket)
    BY <2>2, <2>3, <2>4
  <2> QED
    BY <2>1, <2>4, <2>5
<1>3. Coming(p)' = down[p] \o Line(p)' /\ nextSequence \in Nat
  BY DEF Coming, Inv, StreamType
<1>4. NotAhead(down[p], nextSequence) /\ NotAhead(Line(p), nextSequence)
  BY <1>1, AheadBoth DEF Coming
<1> SUFFICES NotAhead(down[p], nextSequence') /\ NotAhead(Line(p)', nextSequence')
  BY <1>1, <1>2, <1>3, AheadBoth
<1>5. CASE Hears(p)
  <2>1. /\ nextSequence' = nextSequence /\ welcome'[p] = welcome[p]
        /\ GrowsQuietly(outbound[p], outbound'[p])
    BY <1>5 DEF Hears
  <2>2. GrowsQuietly(Line(p), Line(p)')
    BY <1>1, <1>2, <2>1, RowGrows
  <2> QED
    BY <1>1, <1>2, <1>4, <2>1, <2>2, AheadGrows
<1>6. CASE IsFed(p)
  <2>1. PICK f \in DataFrame :
          /\ f.sequence = nextSequence + 1
          /\ outbound'[p] = IF p \in participants' /\ Receiving(p)
                            THEN Append(outbound[p], Data(f)) ELSE outbound[p]
    BY <1>6 DEF IsFed
  <2>2. nextSequence' = nextSequence + 1 /\ welcome'[p] = welcome[p]
    BY <1>6 DEF IsFed
  <2>3. Data(f) \in OutboundMessage /\ Data(f) \in OnSocket
    BY MessageType DEF OnSocket
  <2>4. \A q \in Seq(OnSocket) : NotAhead(q, nextSequence) => NotAhead(q, nextSequence + 1)
    <3> TAKE q \in Seq(OnSocket)
    <3>1. \A i \in DOMAIN q : q[i] \in OnSocket
      BY Elements
    <3> QED
      BY <1>1, <1>3, <3>1 DEF NotAhead, Framed
  <2>5. NotAhead(Append(Line(p), Data(f)), nextSequence + 1)
    BY <1>1, <1>3, <1>4, <2>1, <2>3, AheadFed
  <2>6. Line(p)' = Append(Line(p), Data(f)) \/ Line(p)' = Line(p)
    BY <1>1, <1>2, <2>1, <2>2, <2>3, RowFed
  <2>7. NotAhead(Line(p), nextSequence + 1) /\ NotAhead(down[p], nextSequence + 1)
    BY <1>1, <1>4, <2>4
  <2> QED
    BY <2>2, <2>5, <2>6, <2>7
<1> QED
  BY <1>5, <1>6 DEF Aside

\* Where nothing is taken, and nothing sent to the sockets the guest holds.
LEMMA BehindOn ==
  ASSUME LinkInv, LinkInv', BehindInv, live \subseteq ParticipantIds,
         \A p \in live' : Aside(p) /\ down'[p] = down[p],
         nextSequence' >= nextSequence, live' \subseteq live,
         UNCHANGED <<pc, conn, outputSequence>>,
         pc \in {"joining", "running"} /\ conn \notin live' => down'[conn] = <<>>
  PROVE  BehindInv'
<1>1. \A p \in ParticipantIds : Aside(p) /\ down'[p] = down[p] /\ NotAhead(Coming(p), nextSequence)
                                  => NotAhead(Coming(p)', nextSequence')
  <2> SUFFICES ASSUME NEW p \in ParticipantIds, Aside(p), down'[p] = down[p],
                      NotAhead(Coming(p), nextSequence)
               PROVE  NotAhead(Coming(p)', nextSequence')
    OBVIOUS
  <2> QED
    BY AheadGoesOn DEF LinkInv
<1>2. \A p \in live' : NotAhead(Coming(p)', nextSequence')
  BY <1>1 DEF BehindInv
<1>3. outputSequence' <= nextSequence'
  <2>1. outputSequence \in Nat /\ nextSequence \in Nat /\ nextSequence' \in Nat
    BY DEF LinkInv, GuestType, Inv, StreamType
  <2> QED
    BY <2>1 DEF BehindInv
<1> QED
  BY <1>2, <1>3 DEF BehindInv, NotAhead

\* The worker's steps, opening a socket aside.
LEMMA BehindWorker ==
  ASSUME LinkInv, SocketInv, BehindInv, Worker, ~\E p \in ParticipantIds : OpenSocket(p)
  PROVE  BehindInv'
<1>1. UNCHANGED vars
  BY GuestLeavesSession
<1>2. UNCHANGED <<participants, nextSequence, outbound, welcome>>
  BY <1>1 DEF vars, members, stream, threads
<1>3. \/ UNCHANGED <<down, outputSequence>>
      \/ /\ pc \in {"joining", "running"} /\ down[conn] # <<>>
         /\ down' = [down EXCEPT ![conn] = Tail(@)]
         /\ \/ outputSequence' = outputSequence
            \/ /\ Head(down[conn]).type = "data"
               /\ outputSequence' = Head(down[conn]).frame.sequence
  <2>1. CASE ReadJoined
    BY <2>1 DEF ReadJoined
  <2>2. CASE ReadFrame
    BY <2>2 DEF ReadFrame, Incoming, MayRead, Took, End
  <2>3. CASE ReadControl
    BY <2>3 DEF ReadControl, Incoming, MayRead, Took
  <2>4. CASE OpenFails \/ SendCommand \/ SendFails \/ UserCloses
    BY <2>4 DEF OpenFails, SendCommand, SendFails, UserCloses
  <2>5. CASE ReadFails \/ KeepCommand \/ CloseWhileWaiting \/ WaitOver
    BY <2>5 DEF ReadFails, KeepCommand, CloseWhileWaiting, WaitOver, network
  <2> QED
    BY <2>1, <2>2, <2>3, <2>4, <2>5 DEF Worker
<1>4. /\ live' \subseteq live
      /\ pc' \in {"joining", "running"} => /\ pc \in {"joining", "running"}
                                           /\ UNCHANGED <<conn, live>>
  <2>1. CASE ReadJoined \/ ReadFrame \/ ReadControl
    BY <2>1 DEF ReadJoined, ReadFrame, ReadControl, Incoming, MayRead, Took, End
  <2>2. CASE OpenFails \/ SendCommand \/ SendFails \/ UserCloses
    BY <2>2 DEF OpenFails, SendCommand, SendFails, UserCloses, End, Retry
  <2>3. CASE ReadFails \/ KeepCommand \/ CloseWhileWaiting \/ WaitOver
    BY <2>3 DEF ReadFails, KeepCommand, CloseWhileWaiting, WaitOver, network, End, Retry
  <2> QED
    BY <2>1, <2>2, <2>3 DEF Worker
<1>5. /\ down \in [ParticipantIds -> Seq(OnSocket)] /\ live \subseteq ParticipantIds
      /\ pc \in {"joining", "running"} => conn \in ParticipantIds
  BY DEF LinkInv, GuestType, SocketInv
<1>6. ASSUME NEW p \in live' PROVE NotAhead(Coming(p)', nextSequence')
  <2>1. p \in ParticipantIds /\ NotAhead(Coming(p), nextSequence)
    BY <1>4, <1>5 DEF BehindInv
  <2>2. Line(p)' = Line(p) /\ down[p] \in Seq(OnSocket) /\ Line(p) \in Seq(OnSocket)
    BY <1>2, <2>1, SocketMessages DEF Line, LinkInv
  <2>3. CASE down'[p] = down[p]
    BY <1>2, <2>1, <2>2, <2>3 DEF Coming
  <2>4. CASE down'[p] # down[p]
    <3>1. down[p] # <<>> /\ down'[p] = Tail(down[p])
      BY <1>3, <1>5, <2>1, <2>4
    <3>2. NotAhead(down[p], nextSequence) /\ NotAhead(Line(p), nextSequence)
      BY <2>1, <2>2, AheadBoth DEF Coming
    <3>3. NotAhead(Tail(down[p]), nextSequence) /\ Tail(down[p]) \in Seq(OnSocket)
      BY <2>2, <3>1, <3>2, AheadTaken
    <3>4. NotAhead(Tail(down[p]) \o Line(p), nextSequence)
      BY <2>2, <3>2, <3>3, AheadBoth
    <3> QED
      BY <1>2, <2>2, <3>1, <3>4 DEF Coming
  <2> QED
    BY <2>3, <2>4
<1>7. outputSequence' <= nextSequence'
  <2>1. CASE outputSequence' = outputSequence
    BY <1>2, <2>1 DEF BehindInv
  <2>2. CASE outputSequence' # outputSequence
    <3>1. /\ pc \in {"joining", "running"} /\ down[conn] # <<>>
          /\ Head(down[conn]).type = "data"
          /\ outputSequence' = Head(down[conn]).frame.sequence
      BY <1>3, <2>2
    <3>2. conn \in live /\ conn \in ParticipantIds /\ NotAhead(Coming(conn), nextSequence)
      BY <1>5, <3>1 DEF BehindInv
    <3>3. down[conn] \in Seq(OnSocket) /\ Line(conn) \in Seq(OnSocket)
      BY <3>2, SocketMessages DEF LinkInv
    <3>4. NotAhead(down[conn], nextSequence)
      BY <3>2, <3>3, AheadBoth DEF Coming
    <3> QED
      BY <1>2, <3>1, <3>3, <3>4, AheadTaken
  <2> QED
    BY <2>1, <2>2
<1>8. pc' \in {"joining", "running"} /\ conn' \notin live' => down'[conn'] = <<>>
  BY <1>3, <1>4, <1>5 DEF BehindInv
<1> QED
  BY <1>6, <1>7, <1>8 DEF BehindInv, NotAhead

\* A socket opened, and what the host's thread writes to one.
LEMMA BehindOpen ==
  ASSUME LinkInv, LinkInv', SocketInv, FlowInv, BehindInv, NEW x \in ParticipantIds,
         OpenSocket(x)
  PROVE  BehindInv'
<1>1. PICK after \in Nat \cup {Fresh} :
        ReplayAvailable(after) /\ welcome'[x] = ReplayForJoin(after)
  BY SocketOpens DEF FlowInv
<1>2. /\ Joins(x) /\ conn' = x /\ down'[x] = <<>> /\ UNCHANGED <<down, outputSequence>>
      /\ live' = live \cup {x}
  BY SocketOpens DEF FlowInv, OpenSocket
<1>3. nextSequence' = nextSequence /\ outbound'[x] = <<>>
  BY <1>2 DEF Joins, stream
<1> DEFINE w == Row(ReplayForJoin(after), <<>>)
<1>4. NotAhead(w, nextSequence)
  BY <1>1, AheadWelcome DEF LinkInv, Inv
<1>5. Line(x)' = w
  BY <1>1, <1>3 DEF Line, Row
<1>6. Line(x)' \in Seq(OnSocket)
  <2>1. welcome'[x] \in Seq(DataFrame) /\ outbound'[x] \in Seq(OutboundMessage)
    BY DEF LinkInv, Inv, ThreadType, QueueType
  <2>2. Row(welcome'[x], outbound'[x]) \in Seq(OutboundMessage)
    BY <2>1, RowType
  <2>3. OutboundMessage \subseteq OnSocket
    BY DEF OnSocket
  <2>4. Row(welcome'[x], outbound'[x]) \in Seq(OnSocket)
    BY <2>2, <2>3
  <2> QED
    BY <2>4 DEF Line, Row
<1> HIDE DEF w
<1>7. Coming(x)' = w
  BY <1>2, <1>5, <1>6 DEF Coming
<1>8. ASSUME NEW p \in live', p # x PROVE NotAhead(Coming(p)', nextSequence')
  <2>1. p \in ParticipantIds /\ NotAhead(Coming(p), nextSequence) /\ down'[p] = down[p]
    BY <1>2, <1>8 DEF SocketInv, BehindInv
  <2>2. ResumeAfter \in Nat \cup {Fresh} /\ Join(x, GuestName, x, ResumeAfter)
    BY DEF OpenSocket, ResumeAfter, LinkInv, GuestType
  <2>3. Aside(p)
    BY <1>8, <2>1, <2>2, OthersAside DEF LinkInv, FlowInv
  <2> QED
    BY <2>1, <2>3, AheadGoesOn DEF LinkInv
<1>9. \A p \in live' : NotAhead(Coming(p)', nextSequence')
  BY <1>3, <1>4, <1>7, <1>8
<1> QED
  BY <1>2, <1>3, <1>9 DEF BehindInv, NotAhead

\* What a host's thread writes to a socket was in its line.
LEMMA BehindSends ==
  ASSUME LinkInv, LinkInv', SocketInv, FlowInv, BehindInv, NEW x \in ParticipantIds,
         HostSends(x)
  PROVE  BehindInv'
<1>1. Sends(x) /\ ThreadStep(x)
  BY HostWrites DEF HostSends, ThreadStep
<1>2. UNCHANGED <<nextSequence, pc, conn, live, outputSequence>>
  BY <1>1 DEF Sends
<1>3. ASSUME NEW p \in live, p # x PROVE NotAhead(Coming(p)', nextSequence')
  <2>1. p \in ParticipantIds /\ NotAhead(Coming(p), nextSequence) /\ down'[p] = down[p]
    BY <1>1, <1>3 DEF SocketInv, BehindInv, Sends
  <2>2. Aside(p)
    BY <1>1, <1>3, <2>1, OthersAside DEF LinkInv, FlowInv
  <2> QED
    BY <2>1, <2>2, AheadGoesOn DEF LinkInv
<1>4. ASSUME x \in live PROVE NotAhead(Coming(x)', nextSequence')
  <2>1. NotAhead(Coming(x), nextSequence)
    BY <1>4 DEF BehindInv
  <2>2. CASE phase[x] # "joined"
    BY <1>1, <1>2, <1>4, <2>1, <2>2 DEF Sends
  <2>3. CASE phase[x] = "joined"
    <3> DEFINE l == Line(x)
               j == <<Joined(x)>>
    <3>1. down[x] = <<>> /\ Coming(x)' = j \o l
      BY <1>1, <1>4, <2>3 DEF Sends, SocketInv, Coming
    <3>2. l \in Seq(OnSocket) /\ j \in Seq(OnSocket) /\ down[x] \in Seq(OnSocket)
      <4>1. Joined(x) \in OnSocket
        BY DEF Joined, OnSocket
      <4> QED
        BY <4>1, SocketMessages DEF LinkInv
    <3>3. NotAhead(j, nextSequence)
      BY DEF NotAhead, Joined
    <3>4. NotAhead(l, nextSequence)
      BY <2>1, <3>2, AheadBoth DEF Coming
    <3> HIDE DEF j, l
    <3>5. NotAhead(j \o l, nextSequence)
      BY <3>2, <3>3, <3>4, AheadBoth
    <3> QED
      BY <1>2, <3>1, <3>5
  <2> QED
    BY <2>2, <2>3
<1>5. \A p \in live' : NotAhead(Coming(p)', nextSequence')
  BY <1>2, <1>3, <1>4
<1>6. pc' \in {"joining", "running"} /\ conn' \notin live' => down'[conn'] = <<>>
  <2>1. conn \notin live /\ pc \in {"joining", "running"} => down'[conn] = down[conn]
    <3>1. CASE conn = x
      <4>1. Wire(x, Joined(x)) \/ (\E m : Wire(x, m)) \/ Unwired
        BY DEF HostSends
      <4> QED
        BY <3>1, <4>1 DEF Wire, Unwired, network
    <3>2. CASE conn # x
      BY <1>1, <3>2 DEF Sends, LinkInv, GuestType
    <3> QED
      BY <3>1, <3>2
  <2> QED
    BY <1>2, <2>1 DEF BehindInv
<1> QED
  BY <1>2, <1>5, <1>6 DEF BehindInv, NotAhead

\* The stream never goes back.
LEMMA StreamGrows ==
  ASSUME Inv, [Next]_vars
  PROVE  nextSequence' >= nextSequence
<1> USE DEF stream
<1>0. nextSequence \in Nat
  BY DEF Inv, StreamType
<1>1. ASSUME NEW p \in ParticipantIds, GuestAction(p)
      PROVE  nextSequence' = nextSequence
  BY <1>1 DEF GuestAction, Join, RequestControl, ReleaseControl, AuthorizeInput,
     WelcomeFails, SocketEnds, LeaveSession
<1>2. ASSUME NEW p \in ParticipantIds, HostAction(p)
      PROVE  nextSequence' = nextSequence
  BY <1>2 DEF HostAction, SetController, SetObserver, RemoveParticipant,
     BanParticipant, TypingFades
<1>3. ASSUME NEW p \in ParticipantIds, ThreadStep(p)
      PROVE  nextSequence' = nextSequence
  BY <1>3 DEF ThreadStep, SendJoined, SendReplay, Forward, Finish, LeaveSession
<1>4. CASE TerminalAction
  BY <1>0, <1>4 DEF TerminalAction, PublishOutput, PublishResize, PublishTerminalExit,
     Publish, SetSnapshot, Expire, Close
<1>5. CASE UNCHANGED vars
  BY <1>0, <1>5 DEF vars
<1>6. QED
  BY <1>0, <1>1, <1>2, <1>3, <1>4, <1>5 DEF Next

\* Every step keeps the guest behind the stream.
LEMMA BehindStep ==
  ASSUME LinkInv, LinkFlow, BehindInv, [LinkNext]_linkVars
  PROVE  BehindInv'
<1>1. LinkInv' /\ nextSequence' >= nextSequence
  BY LinkStepInv, LinkStepIsSessionStep, StreamGrows DEF LinkInv
<1>2. Inv /\ SocketInv /\ FlowInv /\ live \subseteq ParticipantIds
  BY DEF LinkFlow, LinkInv, SocketInv
<1>3. ASSUME \A p \in ParticipantIds : Aside(p),
             UNCHANGED <<pc, conn, down, live, outputSequence>>
      PROVE  BehindInv'
  <2>1. /\ \A p \in live' : Aside(p) /\ down'[p] = down[p]
        /\ pc \in {"joining", "running"} /\ conn \notin live' => down'[conn] = <<>>
    BY <1>2, <1>3 DEF BehindInv
  <2> QED
    BY <1>1, <1>2, <1>3, <2>1, BehindOn
<1>4. ASSUME UNCHANGED vars, UNCHANGED <<pc, conn, down, live, outputSequence>>
      PROVE  BehindInv'
  <2>1. ASSUME NEW p \in ParticipantIds PROVE Aside(p)
    BY <1>2, <1>4, SessionAside
  <2> QED
    BY <1>3, <1>4, <2>1
<1>5. CASE User
  <2>1. UNCHANGED vars /\ UNCHANGED <<pc, conn, down, live, outputSequence>>
    BY <1>5 DEF User, Welcomed, Type, AskControl, Give, CloseGuest, CloseReturns, worker, network
  <2> QED
    BY <1>4, <2>1
<1>6. CASE HostUser
  <2>1. UNCHANGED <<pc, conn, down, live, outputSequence>>
    BY <1>6 DEF HostUser, Unwired, guest, worker, network
  <2>2. ASSUME NEW p \in ParticipantIds PROVE Aside(p)
    <3>1. CASE TerminalAction
      BY <1>2, <3>1, SessionAside
    <3>2. CASE \E x \in ParticipantIds : HostAction(x)
      BY <1>2, <3>2, SessionAside
    <3> QED
      BY <1>6, <3>1, <3>2 DEF HostUser, HostAction
  <2> QED
    BY <1>3, <2>1, <2>2
<1>7. ASSUME NEW x \in ParticipantIds, HostReads(x) PROVE BehindInv'
  <2>1. UNCHANGED <<pc, conn, down, live, outputSequence>>
    BY <1>7 DEF HostReads, HostTakesInput, HostRefusesInput, HostTakesRequest, Heard,
       guest, worker
  <2>2. \/ UNCHANGED vars \/ RequestControl(x) \/ ReleaseControl(x)
        \/ \E hasInput \in BOOLEAN : AuthorizeInput(x, hasInput)
    <3>1. CASE HostTakesInput(x)
      <4>1. AuthorizeInput(x, TRUE)
        BY <3>1 DEF HostTakesInput
      <4> QED
        BY <4>1
    <3>2. CASE HostRefusesInput(x) \/ HostTakesRequest(x)
      BY <3>2 DEF HostRefusesInput, HostTakesRequest
    <3> QED
      BY <1>7, <3>1, <3>2 DEF HostReads
  <2>3. ASSUME NEW p \in ParticipantIds PROVE Aside(p)
    BY <1>2, <2>2, SessionAside
  <2> QED
    BY <1>3, <2>1, <2>3
<1>8. ASSUME NEW x \in ParticipantIds, HostNotices(x) PROVE BehindInv'
  <2>1. /\ UNCHANGED <<pc, conn, down, live, outputSequence>> /\ x \notin live
        /\ WelcomeFails(x) \/ SocketEnds(x)
    BY <1>8 DEF HostNotices, Unwired, guest, worker, network
  <2>2. \A p \in live' : Aside(p) /\ down'[p] = down[p]
    BY <1>2, <2>1, OthersAside DEF FlowInv
  <2> QED
    BY <1>1, <1>2, <2>1, <2>2, BehindOn DEF BehindInv
<1>9. ASSUME NEW x \in ParticipantIds, Cut(x) PROVE BehindInv'
  <2>1. /\ UNCHANGED <<pc, conn, outputSequence>> /\ live' = live \ {x}
        /\ down' = [down EXCEPT ![x] = <<>>] /\ UNCHANGED vars
    BY <1>9 DEF Cut, guest, worker
  <2>2. down \in [ParticipantIds -> Seq(OnSocket)]
    BY DEF LinkInv, GuestType
  <2>3. ASSUME NEW p \in live' PROVE Aside(p) /\ down'[p] = down[p]
    <3>1. p \in ParticipantIds /\ p # x
      BY <1>2, <2>1
    <3> QED
      BY <1>2, <2>1, <2>2, <3>1, SessionAside
  <2>4. pc \in {"joining", "running"} /\ conn \notin live' => down'[conn] = <<>>
    BY <2>1, <2>2 DEF BehindInv, LinkInv, GuestType
  <2> QED
    BY <1>1, <1>2, <2>1, <2>3, <2>4, BehindOn
<1>10. CASE Worker
  <2>1. CASE \E x \in ParticipantIds : OpenSocket(x)
    BY <1>1, <1>2, <2>1, BehindOpen
  <2>2. CASE ~\E x \in ParticipantIds : OpenSocket(x)
    BY <1>2, <1>10, <2>2, BehindWorker
  <2> QED
    BY <2>1, <2>2
<1>11. ASSUME NEW x \in ParticipantIds, HostThread(x) \/ Cut(x) PROVE BehindInv'
  BY <1>1, <1>2, <1>7, <1>8, <1>9, <1>11, BehindSends DEF HostThread
<1>12. CASE UNCHANGED linkVars
  <2>1. UNCHANGED vars /\ UNCHANGED <<pc, conn, down, live, outputSequence>>
    BY <1>12 DEF linkVars, guest, worker, network
  <2> QED
    BY <1>4, <2>1
<1> QED
  BY <1>5, <1>6, <1>10, <1>11, <1>12 DEF LinkNext

\* What the view may show.
View == [status : {"connecting", "connected", "reconnecting", "failed", "disconnected"},
         role : Roles, id : ParticipantIds \cup {NoOne}]

\* Where the worker is and what the view shows: an attempt is begun only while one
\* is left (guest.rs:318-353).
PlaceInv ==
  /\ pc \in {"opening", "joining", "running", "waiting", "ended"}
  /\ attempt \in 0..MaxReconnectAttempts
  /\ pc # "ended" => attempt < MaxReconnectAttempts
  /\ {conn, welcomeId} \subseteq ParticipantIds \cup {NoOne}
  /\ registered \in {"no", "yes", "closed"}
  /\ shown \in View

\* A status, or a role, set in the view leaves one it may show.
LEMMA StatusShown ==
  ASSUME shown \in View,
         NEW s \in {"connected", "reconnecting", "failed", "disconnected"}
  PROVE  [shown EXCEPT !.status = s] \in View
  BY DEF View

LEMMA RoleShown ==
  ASSUME shown \in View, NEW r \in Roles
  PROVE  [shown EXCEPT !.role = r] \in View
  BY DEF View

\* The worker's steps keep its place and the view.
LEMMA PlaceWorker ==
  ASSUME LinkInv, SocketInv, PlaceInv, Worker
  PROVE  PlaceInv'
<1> USE LinkAssumption
<1>1. shown \in View /\ Roles = {"observer", "controller"}
  BY DEF PlaceInv, View, Roles
<1>2. /\ pc' \in {"opening", "joining", "running", "waiting", "ended"}
      /\ attempt' \in 0..MaxReconnectAttempts
      /\ pc' # "ended" => attempt' < MaxReconnectAttempts
  <2>1. CASE OpenFails
    BY <2>1 DEF OpenFails, PlaceInv, NextAttempt
  <2>2. CASE ReadJoined \/ (\E p \in ParticipantIds : OpenSocket(p)) \/ SendCommand
    BY <2>2 DEF ReadJoined, OpenSocket, SendCommand, PlaceInv
  <2>3. CASE SendFails \/ UserCloses \/ ReadFails \/ CloseWhileWaiting
    BY <2>3 DEF SendFails, UserCloses, ReadFails, CloseWhileWaiting, End, Retry, PlaceInv
  <2>4. CASE ReadFrame \/ ReadControl \/ KeepCommand \/ WaitOver
    BY <2>4 DEF ReadFrame, ReadControl, KeepCommand, WaitOver, End, PlaceInv
  <2> QED
    BY <2>1, <2>2, <2>3, <2>4 DEF Worker
<1>3. {conn', welcomeId'} \subseteq ParticipantIds \cup {NoOne} /\ registered' = registered
  <2>1. CASE OpenFails \/ ReadJoined \/ (\E p \in ParticipantIds : OpenSocket(p)) \/ SendCommand
    BY <2>1 DEF OpenFails, ReadJoined, OpenSocket, SendCommand, PlaceInv, webview
  <2>2. CASE SendFails \/ UserCloses \/ ReadFails \/ CloseWhileWaiting
    BY <2>2 DEF SendFails, UserCloses, ReadFails, CloseWhileWaiting, End, Retry, PlaceInv
  <2>3. CASE ReadFrame \/ ReadControl \/ KeepCommand \/ WaitOver
    BY <2>3 DEF ReadFrame, ReadControl, KeepCommand, WaitOver, End, PlaceInv, webview
  <2> QED
    BY <2>1, <2>2, <2>3 DEF Worker
<1>4. shown' \in View
  <2>1. CASE OpenFails \/ (\E p \in ParticipantIds : OpenSocket(p)) \/ SendCommand
    BY <1>1, <2>1, StatusShown DEF OpenFails, OpenSocket, SendCommand, webview, Status
  <2>2. CASE ReadJoined
    <3>1. conn \in ParticipantIds
      BY <2>2 DEF ReadJoined, LinkInv, GuestType
    <3> QED
      BY <1>1, <2>2, <3>1 DEF ReadJoined, View
  <2>3. CASE SendFails \/ UserCloses \/ ReadFails \/ CloseWhileWaiting
    BY <1>1, <2>3, StatusShown DEF SendFails, UserCloses, ReadFails, CloseWhileWaiting, Retry,
       ShowExit, Status
  <2>4. CASE ReadFrame
    BY <1>1, <2>4, StatusShown DEF ReadFrame, ShowExit, Status
  <2>5. CASE ReadControl
    <3>1. conn \in ParticipantIds /\ down[conn] # <<>> /\ ShowControl(Head(down[conn]))
      BY <2>5 DEF ReadControl, Incoming, MayRead, LinkInv, GuestType
    <3>2. down[conn] \in Seq(OnSocket)
      BY <3>1 DEF LinkInv, GuestType
    <3>3. Head(down[conn]) \in OnSocket
      BY <3>1, <3>2
    <3> DEFINE m == Head(down[conn])
    <3>4. m.type = "role_changed" => m.role \in Roles
      BY <3>3 DEF OnSocket, OutboundMessage, Closed
    <3>5. CASE m.type = "role_changed" /\ m.id = shown.id
      BY <1>1, <3>1, <3>4, <3>5, RoleShown DEF ShowControl
    <3>6. CASE ~(m.type = "role_changed" /\ m.id = shown.id)
      BY <1>1, <3>1, <3>6, StatusShown DEF ShowControl, Status
    <3> QED
      BY <3>5, <3>6
  <2>6. CASE KeepCommand \/ WaitOver
    BY <1>1, <2>6 DEF KeepCommand, WaitOver, webview
  <2> QED
    BY <2>1, <2>2, <2>3, <2>4, <2>5, <2>6 DEF Worker
<1> QED
  BY <1>2, <1>3, <1>4 DEF PlaceInv, View

\* So does every step.
LEMMA PlaceStep ==
  ASSUME LinkInv, SocketInv, PlaceInv, [LinkNext]_linkVars
  PROVE  PlaceInv'
<1>1. ASSUME UNCHANGED <<pc, attempt, conn, welcomeId, registered, shown>>
      PROVE  PlaceInv'
  BY <1>1 DEF PlaceInv
<1>2. CASE User
  <2>1. CASE Welcomed
    BY <2>1 DEF Welcomed, PlaceInv, worker, Roles, View
  <2>2. CASE Type \/ AskControl
    BY <1>1, <2>2 DEF Type, AskControl, Give, worker
  <2>3. CASE CloseGuest
    BY <2>3 DEF CloseGuest, PlaceInv, worker
  <2>4. CASE CloseReturns
    <3>1. shown' \in View
      BY <2>4, StatusShown DEF CloseReturns, PlaceInv, View, Status
    <3> QED
      BY <2>4, <3>1 DEF CloseReturns, PlaceInv, View, worker
  <2> QED
    BY <1>2, <2>1, <2>2, <2>3, <2>4 DEF User
<1>3. CASE HostUser \/ UNCHANGED linkVars
  BY <1>1, <1>3 DEF HostUser, Unwired, linkVars, guest, worker, webview
<1>4. ASSUME NEW x \in ParticipantIds, HostThread(x) \/ Cut(x) PROVE PlaceInv'
  <2>1. UNCHANGED guest
    BY <1>4 DEF HostThread, HostSends, HostNotices, HostReads, HostTakesInput,
       HostRefusesInput, HostTakesRequest, Cut, Wire, Unwired, Heard
  <2> QED
    BY <1>1, <2>1 DEF guest, worker, webview
<1> QED
  BY <1>2, <1>3, <1>4, PlaceWorker DEF LinkNext

\* The bounds of the channel and of the sockets.
RoomInv ==
  /\ Len(commands) <= CommandQueue
  /\ \A p \in ParticipantIds : Len(down[p]) <= WireCapacity

\* A message taken leaves no more than there were.
LEMMA Shorter ==
  ASSUME NEW S, NEW q \in Seq(S), NEW n \in Nat, Len(q) <= n
  PROVE  q # <<>> => Len(Tail(q)) <= n
<1>1. Len(q) \in Nat
  OBVIOUS
<1>2. q # <<>> => Len(Tail(q)) = Len(q) - 1
  OBVIOUS
<1> QED
  BY <1>1, <1>2

\* Nothing is queued beyond them.
LEMMA RoomStep ==
  ASSUME LinkInv, OrderInv, RoomInv, [LinkNext]_linkVars
  PROVE  RoomInv'
<1> USE LinkAssumption
<1>1. /\ commands \in Seq(Command) /\ pending \in Seq(Command)
      /\ down \in [ParticipantIds -> Seq(OnSocket)]
      /\ pc \in {"joining", "running"} => conn \in ParticipantIds
      /\ CommandQueue \in Nat /\ WireCapacity \in Nat /\ CommandQueue > 0
  BY DEF LinkInv, GuestType, OrderInv, OrderType
<1>2. Len(commands') <= CommandQueue
  <2>1. commands' = commands \/ commands' = <<>> => Len(commands') <= CommandQueue
    BY <1>1 DEF RoomInv
  <2>2. commands # <<>> /\ commands' = Tail(commands) => Len(commands') <= CommandQueue
    BY <1>1, Shorter DEF RoomInv
  <2>3. \A c : Slot /\ commands' = Append(commands, c) => Len(commands') <= CommandQueue
    <3> TAKE c
    <3>1. Len(Append(commands, c)) = Len(commands) + 1 /\ Len(commands) \in Nat
      BY <1>1
    <3> QED
      BY <1>1, <3>1 DEF Slot
  <2>4. CASE Worker
    <3>1. CASE OpenFails \/ ReadJoined \/ (\E p \in ParticipantIds : OpenSocket(p))
               \/ UserCloses \/ ReadFails \/ CloseWhileWaiting \/ WaitOver
      BY <2>1, <3>1 DEF OpenFails, ReadJoined, OpenSocket, UserCloses, ReadFails,
         CloseWhileWaiting, WaitOver, End
    <3>2. CASE ReadFrame \/ ReadControl
      BY <2>1, <3>2 DEF ReadFrame, ReadControl, End
    <3>3. CASE SendCommand \/ SendFails
      <4>1. Queued # <<>> /\ TakeCommand
        BY <3>3 DEF SendCommand, SendFails
      <4>2. CASE pending = <<>>
        <5>1. Queued = commands
          BY <1>1, <4>2 DEF Queued
        <5> QED
          BY <2>2, <4>1, <4>2, <5>1 DEF TakeCommand
      <4>3. CASE pending # <<>>
        BY <2>1, <4>1, <4>3 DEF TakeCommand
      <4> QED
        BY <4>2, <4>3
    <3>4. CASE KeepCommand
      BY <2>2, <3>4 DEF KeepCommand
    <3> QED
      BY <2>4, <3>1, <3>2, <3>3, <3>4 DEF Worker
  <2>5. CASE User
    BY <2>1, <2>3, <2>5 DEF User, Welcomed, Type, AskControl, Give, CloseGuest, CloseReturns
  <2>6. CASE HostUser \/ UNCHANGED linkVars
    BY <2>1, <2>6 DEF HostUser, Unwired, linkVars, guest
  <2>7. ASSUME NEW x \in ParticipantIds, HostThread(x) \/ Cut(x)
        PROVE  Len(commands') <= CommandQueue
    <3>1. UNCHANGED guest
      BY <2>7 DEF HostThread, HostSends, HostNotices, HostReads, HostTakesInput,
         HostRefusesInput, HostTakesRequest, Cut, Wire, Unwired, Heard
    <3> QED
      BY <2>1, <3>1 DEF guest
  <2> QED
    BY <2>4, <2>5, <2>6, <2>7 DEF LinkNext
<1>3. ASSUME NEW p \in ParticipantIds PROVE Len(down'[p]) <= WireCapacity
  <2>1. down[p] \in Seq(OnSocket) /\ Len(down[p]) <= WireCapacity /\ Len(down[p]) \in Nat
    BY <1>1, <1>3 DEF RoomInv
  <2>2. CASE down'[p] = down[p]
    BY <2>1, <2>2
  <2>3. CASE down'[p] = <<>>
    BY <1>1, <2>3
  <2>4. CASE down[p] # <<>> /\ down'[p] = Tail(down[p])
    BY <1>1, <2>1, <2>4, Shorter
  <2>5. ASSUME NEW m, Wire(p, m), p \in live PROVE Len(down'[p]) <= WireCapacity
    <3>1. Room(p) /\ down'[p] = Append(down[p], m)
      BY <1>1, <1>3, <2>5 DEF Wire
    <3>2. Len(Append(down[p], m)) = Len(down[p]) + 1
      BY <2>1
    <3> QED
      BY <1>1, <2>1, <3>1, <3>2 DEF Room
  <2>6. CASE Worker
    <3>1. CASE ReadJoined \/ ReadFrame \/ ReadControl
      <4>1. /\ pc \in {"joining", "running"} /\ down[conn] # <<>>
            /\ down' = [down EXCEPT ![conn] = Tail(@)]
        BY <3>1 DEF ReadJoined, ReadFrame, ReadControl, Incoming, MayRead, Took
      <4>2. down'[p] = down[p] \/ (down[p] # <<>> /\ down'[p] = Tail(down[p]))
        BY <1>1, <4>1
      <4> QED
        BY <2>2, <2>4, <4>2
    <3>2. CASE OpenFails \/ (\E x \in ParticipantIds : OpenSocket(x)) \/ SendCommand
               \/ SendFails \/ UserCloses \/ ReadFails
      BY <2>2, <3>2 DEF OpenFails, OpenSocket, SendCommand, SendFails, UserCloses, ReadFails
    <3>3. CASE KeepCommand \/ CloseWhileWaiting \/ WaitOver
      BY <2>2, <3>3 DEF KeepCommand, CloseWhileWaiting, WaitOver, network
    <3> QED
      BY <2>6, <3>1, <3>2, <3>3 DEF Worker
  <2>7. CASE User \/ HostUser \/ UNCHANGED linkVars
    BY <2>2, <2>7 DEF User, Welcomed, Type, AskControl, Give, CloseGuest, CloseReturns,
       HostUser, Unwired, linkVars, network
  <2>8. ASSUME NEW x \in ParticipantIds, HostSends(x) PROVE Len(down'[p]) <= WireCapacity
    <3>1. (\E m : Wire(x, m)) \/ Unwired
      BY <2>8 DEF HostSends
    <3>2. CASE Unwired \/ x \notin live
      BY <2>2, <3>1, <3>2 DEF Wire, Unwired, network
    <3>3. CASE x \in live /\ (\E m : Wire(x, m))
      <4>1. CASE x = p
        BY <2>5, <3>3, <4>1
      <4>2. CASE x # p
        <5>1. down'[p] = down[p]
          BY <1>1, <3>3, <4>2 DEF Wire
        <5> QED
          BY <2>2, <5>1
      <4> QED
        BY <4>1, <4>2
    <3> QED
      BY <3>1, <3>2, <3>3
  <2>9. ASSUME NEW x \in ParticipantIds, HostNotices(x) \/ HostReads(x) \/ Cut(x)
        PROVE  Len(down'[p]) <= WireCapacity
    <3>1. down' = down \/ down' = [down EXCEPT ![x] = <<>>]
      BY <2>9 DEF HostNotices, HostReads, HostTakesInput, HostRefusesInput,
         HostTakesRequest, Heard, Unwired, network, Cut
    <3>2. down'[p] = down[p] \/ down'[p] = <<>>
      BY <1>1, <3>1
    <3> QED
      BY <2>2, <2>3, <3>2
  <2> QED
    BY <2>6, <2>7, <2>8, <2>9 DEF LinkNext, HostThread
<1> QED
  BY <1>2, <1>3 DEF RoomInv

\* Inputs are numbered no further than commands were given: what is numbered next
\* has a greater number than inputs numbered before it.
CountInv ==
  /\ inputSequence <= issued
  /\ \A n \in NumbersOf(pending) \cup NumbersOf(commands) : inputSequence < n

\* Every step keeps it.
LEMMA CountStep ==
  ASSUME OrderInv, OrderInv', CountInv, [LinkNext]_linkVars
  PROVE  CountInv'
<1>1. /\ commands \in Seq(Command) /\ pending \in Seq(Command)
      /\ commands \in Seq(Command \cup Wired) /\ pending \in Seq(Command \cup Wired)
      /\ issued \in Nat /\ inputSequence \in Nat
      /\ issued' \in Nat /\ inputSequence' \in Nat
  BY LinkAssumption DEF OrderInv, OrderType
<1>2. /\ NumbersOf(pending) \subseteq 1..MaxIssued /\ NumbersOf(commands) \subseteq 1..MaxIssued
      /\ NumbersOf(pending') \subseteq 1..MaxIssued /\ NumbersOf(commands') \subseteq 1..MaxIssued
  <2>1. /\ commands' \in Seq(Command \cup Wired) /\ pending' \in Seq(Command \cup Wired)
    BY DEF OrderInv, OrderType
  <2> QED
    BY <1>1, <2>1, NumbersType
<1>3. MaxIssued \in Nat /\ \A n \in 1..MaxIssued : n \in Nat /\ n > 0
  BY LinkAssumption
<1>4. ASSUME UNCHANGED <<inputSequence, issued>>,
             NumbersOf(pending') \cup NumbersOf(commands')
               \subseteq NumbersOf(pending) \cup NumbersOf(commands)
      PROVE  CountInv'
  BY <1>4 DEF CountInv, NumbersOf, InputsOf
<1>5. ASSUME UNCHANGED <<inputSequence, issued, pending>>, commands' = commands \/ commands' = <<>>
      PROVE  CountInv'
  BY <1>4, <1>5, NoNumbers
<1>6. CASE Type \/ AskControl \/ CloseGuest
  <2>1. CASE UNCHANGED commands /\ UNCHANGED <<inputSequence, issued, pending>>
    BY <1>5, <2>1
  <2>2. ASSUME NEW c \in Command, commands' = Append(commands, c),
               UNCHANGED <<inputSequence, pending>>, issued' >= issued,
               c.kind = "input" => c.number = issued + 1
        PROVE  CountInv'
    <3>1. \/ NumbersOf(commands') = NumbersOf(commands)
          \/ NumbersOf(commands') = NumbersOf(commands) \cup {issued + 1}
      BY <1>1, <2>2, AppendNumbers
    <3>2. inputSequence < issued + 1
      BY <1>1 DEF CountInv
    <3>3. \A n \in NumbersOf(pending') \cup NumbersOf(commands') : inputSequence' < n
      BY <2>2, <3>1, <3>2 DEF CountInv
    <3>4. inputSequence' <= issued'
      BY <1>1, <2>2 DEF CountInv
    <3> QED
      BY <3>3, <3>4 DEF CountInv, NumbersOf, InputsOf
  <2>3. /\ Request \in Command /\ Release \in Command /\ CloseLink \in Command
        /\ Request.kind # "input" /\ Release.kind # "input" /\ CloseLink.kind # "input"
    BY DEF Command, Request, Release, CloseLink
  <2>4. CASE Type
    <3>1. Give(Input(issued + 1))
      BY <2>4 DEF Type
    <3>2. /\ Input(issued + 1) \in Command /\ Input(issued + 1).number = issued + 1
      BY <1>1, <1>3, <3>1 DEF Give, Input, Command
    <3>3. /\ commands' = Append(commands, Input(issued + 1)) /\ issued' = issued + 1
          /\ UNCHANGED <<inputSequence, pending>>
      BY <3>1 DEF Give, worker
    <3>4. issued' >= issued
      BY <1>1, <3>3
    <3> QED
      BY <2>2, <3>2, <3>3, <3>4
  <2>5. CASE AskControl
    <3>1. PICK c \in {Request, Release} : Give(c)
      BY <2>5 DEF AskControl
    <3>2. /\ commands' = Append(commands, c) /\ issued' = issued + 1
          /\ UNCHANGED <<inputSequence, pending>>
      BY <3>1 DEF Give, worker
    <3>3. issued' >= issued
      BY <1>1, <3>2
    <3> QED
      BY <2>2, <2>3, <3>2, <3>3
  <2>6. CASE CloseGuest
    <3>1. /\ UNCHANGED <<inputSequence, issued, pending>>
          /\ commands' = Append(commands, CloseLink) \/ commands' = commands
      BY <2>6 DEF CloseGuest, worker
    <3>2. issued' >= issued
      BY <1>1, <3>1
    <3> QED
      BY <2>1, <2>2, <2>3, <3>1, <3>2
  <2> QED
    BY <1>6, <2>4, <2>5, <2>6
<1>7. CASE Welcomed \/ CloseReturns \/ HostUser \/ UNCHANGED linkVars
  <2>1. UNCHANGED <<inputSequence, issued, pending, commands>>
    BY <1>7 DEF Welcomed, CloseReturns, HostUser, Unwired, linkVars, guest, worker, webview
  <2> QED
    BY <1>5, <2>1
<1>8. ASSUME NEW x \in ParticipantIds, HostThread(x) \/ Cut(x) PROVE CountInv'
  <2>1. UNCHANGED guest
    BY <1>8 DEF HostThread, HostSends, HostNotices, HostReads, HostTakesInput,
       HostRefusesInput, HostTakesRequest, Cut, Wire, Unwired, Heard
  <2> QED
    BY <1>5, <2>1 DEF guest, worker, webview
<1>9. CASE Worker
  <2>1. CASE OpenFails \/ UserCloses \/ ReadFails \/ CloseWhileWaiting \/ WaitOver
             \/ \E p \in ParticipantIds : OpenSocket(p)
    BY <1>5, <2>1 DEF OpenFails, OpenSocket, UserCloses, ReadFails, CloseWhileWaiting,
       WaitOver, End, Retry, webview
  <2>2. CASE ReadFrame \/ ReadControl
    BY <1>5, <2>2 DEF ReadFrame, ReadControl, End
  <2>3. CASE ReadJoined
    <3>1. inputSequence' = 0 /\ UNCHANGED <<pending, commands, issued>>
      BY <2>3 DEF ReadJoined
    <3>2. /\ inputSequence' <= issued'
          /\ \A n \in NumbersOf(pending') \cup NumbersOf(commands') : inputSequence' < n
      BY <1>1, <1>2, <1>3, <3>1
    <3> QED
      BY <3>2 DEF CountInv, NumbersOf, InputsOf
  <2>4. CASE SendFails
    <3>1. /\ NumbersOf(commands') \subseteq NumbersOf(commands)
          /\ NumbersOf(pending') \subseteq NumbersOf(pending)
      BY <2>4, TakeOrder DEF SendFails
    <3>2. UNCHANGED <<inputSequence, issued>>
      BY <2>4 DEF SendFails, Retry
    <3> QED
      BY <1>4, <3>1, <3>2
  <2>5. CASE KeepCommand
    <3> DEFINE c == Head(commands)
    <3>1. /\ commands # <<>> /\ commands' = Tail(commands) /\ pending' = Append(pending, c)
          /\ UNCHANGED <<inputSequence, issued>>
      BY <2>5 DEF KeepCommand, webview
    <3>2. c \in Command
      BY <1>1, <3>1
    <3>3. /\ NumbersOf(commands') \subseteq NumbersOf(commands)
          /\ c.kind = "input" => c.number \in NumbersOf(commands)
      BY <1>1, <3>1, TailNumbers
    <3> HIDE DEF c
    <3>4. \/ NumbersOf(pending') = NumbersOf(pending)
          \/ c.kind = "input" /\ NumbersOf(pending') = NumbersOf(pending) \cup {c.number}
      BY <1>1, <3>1, <3>2, AppendNumbers
    <3> QED
      BY <1>4, <3>1, <3>3, <3>4
  <2>6. CASE SendCommand
    <3> DEFINE c == Head(Queued)
    <3>1. /\ Queued # <<>> /\ TakeCommand /\ issued' = issued
          /\ inputSequence' = IF c.kind = "input" THEN inputSequence + 1 ELSE inputSequence
      BY <2>6 DEF SendCommand, webview
    <3>2. /\ NumbersOf(commands') \subseteq NumbersOf(commands)
          /\ NumbersOf(pending') \subseteq NumbersOf(pending)
          /\ c.kind = "input" =>
               /\ c.number \in NumbersOf(pending) \cup NumbersOf(commands)
               /\ AllBelow({c.number}, NumbersOf(pending') \cup NumbersOf(commands'))
      BY <3>1, TakeOrder
    <3> HIDE DEF c
    <3>3. CASE c.kind # "input"
      BY <1>4, <3>1, <3>2, <3>3
    <3>4. CASE c.kind = "input"
      <4>1. c.number \in Nat /\ inputSequence < c.number /\ c.number <= issued
        BY <1>2, <1>3, <3>2, <3>4 DEF CountInv, OrderInv, OrderRising
      <4>2. \A n \in NumbersOf(pending') \cup NumbersOf(commands') : n \in Nat /\ c.number < n
        BY <1>2, <1>3, <3>2, <3>4 DEF AllBelow
      <4>3. /\ inputSequence' <= issued'
            /\ \A n \in NumbersOf(pending') \cup NumbersOf(commands') : inputSequence' < n
        BY <1>1, <3>1, <3>4, <4>1, <4>2
      <4> QED
        BY <4>3 DEF CountInv, NumbersOf, InputsOf
    <3> QED
      BY <3>3, <3>4
  <2> QED
    BY <1>9, <2>1, <2>2, <2>3, <2>4, <2>5, <2>6 DEF Worker
<1> QED
  BY <1>6, <1>7, <1>8, <1>9 DEF LinkNext, User

\* All of it holds before the first connection.
LEMMA BoundsInit == LinkInit => BehindInv /\ PlaceInv /\ RoomInv /\ CountInv
<1> SUFFICES ASSUME LinkInit PROVE BehindInv /\ PlaceInv /\ RoomInv /\ CountInv
  OBVIOUS
<1> USE LinkAssumption DEF LinkInit
<1>1. BehindInv
  BY DEF BehindInv, Init
<1>2. PlaceInv
  BY DEF PlaceInv, View, Roles
<1>3. RoomInv
  BY DEF RoomInv
<1>4. CountInv
  BY NoNumbers DEF CountInv
<1> QED
  BY <1>1, <1>2, <1>3, <1>4

\* The guest keeps to its types and bounds: the worker makes no more attempts than
\* it has (guest.rs:318-353), no queue is longer than its capacity, it never claims
\* a frame the host has not published, and numbers no more inputs than were given.
THEOREM LinkTypes == LinkSpec => []LinkTypeOK
<1> DEFINE I == LinkInv /\ LinkFlow /\ OrderInv /\ BehindInv /\ PlaceInv /\ RoomInv /\ CountInv
<1>1. LinkInit => I
  BY LinkInitInv, LinkFlowInit, OrderInit, BoundsInit
<1>2. I /\ [LinkNext]_linkVars => I'
  <2> SUFFICES ASSUME I, [LinkNext]_linkVars PROVE I'
    OBVIOUS
  <2>1. LinkInv' /\ LinkFlow' /\ BehindInv'
    BY LinkStepInv, LinkFlowStep, BehindStep
  <2>2. OrderInv'
    BY OrderStep
  <2>3. PlaceInv' /\ RoomInv' /\ CountInv'
    BY <2>2, PlaceStep, RoomStep, CountStep DEF LinkFlow
  <2> QED
    BY <2>1, <2>2, <2>3
<1>3. I => LinkTypeOK
  <2> SUFFICES ASSUME I PROVE LinkTypeOK
    OBVIOUS
  <2>1. /\ outputSequence \in Nat /\ nextSequence \in Nat /\ outputSequence <= nextSequence
        /\ live \subseteq ParticipantIds
    BY DEF LinkInv, GuestType, Inv, StreamType, BehindInv, LinkFlow, SocketInv
  <2>2. /\ issued \in 0..MaxIssued /\ inputSequence \in Nat /\ inputSequence <= issued
        /\ commands \in Seq(Command) /\ pending \in Seq(Command) /\ written \in Seq(1..MaxIssued)
    BY DEF OrderInv, OrderType, CountInv
  <2>3. inputSequence \in 0..MaxIssued /\ outputSequence \in 0..nextSequence
    BY <2>1, <2>2, LinkAssumption
  <2>4. commands \in BoundedSeq(Command, CommandQueue)
    <3>1. Len(commands) \in 0..CommandQueue
      BY <2>2, LinkAssumption DEF RoomInv
    <3>2. commands \in [1..Len(commands) -> Command]
      BY <2>2
    <3> QED
      BY <3>1, <3>2 DEF BoundedSeq, SeqOf
  <2>5. /\ \A p \in ParticipantIds : Len(down[p]) <= WireCapacity
        /\ shown \in View
    BY DEF RoomInv, PlaceInv
  <2>6. /\ shown.status \in {"connecting", "connected", "reconnecting", "failed", "disconnected"}
        /\ shown.role \in Roles /\ shown.id \in ParticipantIds \cup {NoOne}
    BY <2>5 DEF View
  <2> QED
    BY <2>1, <2>2, <2>3, <2>4, <2>5, <2>6 DEF LinkTypeOK, PlaceInv
<1> HIDE DEF I
<1>4. LinkSpec => []I
  BY <1>1, <1>2, PTL DEF LinkSpec
<1> QED
  BY <1>3, <1>4, PTL

-----------------------------------------------------------------------------
(* The link keeps the promise of SharedTerminal.  What its connection      *)
(* brings the guest next depends on the frames of a line alone.            *)

Pictured(q) == {i \in DOMAIN q : q[i].type = "data" /\ q[i].frame.kind = "snapshot"}

LEMMA BringsScreen ==
  ASSUME NEW q
  PROVE  /\ Pictured(q) # {} <=> Brings(q) = "screen"
         /\ Pictured(q) = {} <=> Brings(q) = "stream"
BY DEF Pictured, Brings

\* Messages that are no frames, or a frame that is no screen, change nothing.
LEMMA BringsGrown ==
  ASSUME NEW S, NEW q \in Seq(S), NEW r \in Seq(S), GrowsQuietly(q, r)
  PROVE  Brings(r) = Brings(q)
<1>1. DOMAIN q = 1..Len(q) /\ DOMAIN r = 1..Len(r) /\ Len(q) \in Nat /\ Len(r) \in Nat
  OBVIOUS
<1>2. \A i \in DOMAIN q : i \in DOMAIN r /\ r[i] = q[i]
  BY <1>1 DEF GrowsQuietly
<1>3. \A i \in DOMAIN r : i \in DOMAIN q \/ r[i].type # "data"
  BY <1>1 DEF GrowsQuietly
<1>4. Pictured(r) = Pictured(q)
  BY <1>2, <1>3 DEF Pictured
<1> QED
  BY <1>4, BringsScreen

LEMMA BringsFed ==
  ASSUME NEW S, NEW q \in Seq(S), NEW f, Data(f) \in S, f.kind # "snapshot"
  PROVE  Brings(Append(q, Data(f))) = Brings(q)
<1> DEFINE r == Append(q, Data(f))
<1>1. /\ DOMAIN q = 1..Len(q) /\ DOMAIN r = 1..(Len(q) + 1) /\ Len(q) \in Nat
      /\ r[Len(q) + 1] = Data(f) /\ \A i \in 1..Len(q) : r[i] = q[i]
  OBVIOUS
<1>2. Data(f).frame.kind # "snapshot"
  BY DEF Data
<1> HIDE DEF r
<1>3. Pictured(r) = Pictured(q)
  BY <1>1, <1>2 DEF Pictured
<1>4. Brings(r) = Brings(q)
  BY <1>3, BringsScreen
<1> QED
  BY <1>4 DEF r

LEMMA BringsTaken ==
  ASSUME NEW S, NEW q \in Seq(S), q # <<>>, Head(q).type # "data"
  PROVE  Brings(Tail(q)) = Brings(q)
<1> DEFINE t == Tail(q)
<1>1. /\ Len(q) \in Nat \ {0} /\ DOMAIN q = 1..Len(q) /\ DOMAIN t = 1..(Len(q) - 1)
      /\ q[1] = Head(q) /\ \A i \in 1..(Len(q) - 1) : t[i] = q[i + 1]
  OBVIOUS
<1> HIDE DEF t
<1>2. \A i \in Pictured(t) : i + 1 \in Pictured(q)
  BY <1>1 DEF Pictured
<1>3. \A i \in Pictured(q) : i - 1 \in Pictured(t)
  <2> TAKE i \in Pictured(q)
  <2>1. i \in 1..Len(q) /\ i # 1 /\ q[i].type = "data" /\ q[i].frame.kind = "snapshot"
    BY <1>1 DEF Pictured
  <2>2. i - 1 \in 1..(Len(q) - 1) /\ (i - 1) + 1 = i
    BY <1>1, <2>1
  <2>3. t[i - 1] = q[i]
    BY <1>1, <2>2
  <2> QED
    BY <1>1, <2>1, <2>2, <2>3 DEF Pictured
<1>4. Brings(t) = Brings(q)
  <2>1. Pictured(t) = {} <=> Pictured(q) = {}
    BY <1>2, <1>3
  <2> QED
    BY <2>1, BringsScreen
<1> QED
  BY <1>4 DEF t

\* A screen comes before all other frames.
LEMMA ScreenFirst ==
  ASSUME NEW S, NEW q \in Seq(S), NEW n, Continues(q, n),
         NEW j \in Pictured(q), NEW i \in Stops(q), i < j
  PROVE  i = 0
<1>1. DOMAIN q = 1..Len(q) /\ Len(q) \in Nat /\ j \in DOMAIN q /\ q[j].type = "data"
      /\ q[j].frame.kind = "snapshot"
  BY DEF Pictured
<1>2. Stops(q) \subseteq Nat /\ j \in Stops(q) /\ j \in Nat
  BY <1>1 DEF Stops
<1> DEFINE T == {j - k : k \in {k \in Stops(q) : k < j}}
<1>3. T \subseteq Nat /\ T # {}
  BY <1>2
<1>4. PICK m \in T : \A k \in T : m <= k
  <2> HIDE DEF T
  <2>1. T \in SUBSET Nat /\ T # {}
    BY <1>3
  <2> QED
    BY <2>1, LeastNumber
<1>5. PICK l \in Stops(q) : l < j /\ m = j - l
  OBVIOUS
<1>6. \A k \in Stops(q) : k <= l \/ j <= k
  <2> TAKE k \in Stops(q)
  <2>1. CASE k < j
    <3>1. j - k \in T
      BY <2>1
    <3>2. j - l <= j - k
      BY <1>4, <1>5, <3>1
    <3> QED
      BY <1>2, <3>2
  <2>2. CASE ~(k < j)
    BY <1>2, <2>2
  <2> QED
    BY <2>1, <2>2
<1>7. l = 0
  BY <1>1, <1>2, <1>5, <1>6 DEF Continues
<1>8. i <= l
  BY <1>2, <1>6
<1> QED
  BY <1>2, <1>7, <1>8

\* So what is left behind the first frame is a stream, and a first frame that is
\* no screen has none behind it.
LEMMA FrameTaken ==
  ASSUME NEW S, NEW q \in Seq(S), q # <<>>, NEW n, Continues(q, n), Head(q).type = "data"
  PROVE  /\ Brings(Tail(q)) = "stream"
         /\ Brings(q) = IF Head(q).frame.kind = "snapshot" THEN "screen" ELSE "stream"
<1> DEFINE t == Tail(q)
<1>1. /\ Len(q) \in Nat \ {0} /\ DOMAIN q = 1..Len(q) /\ DOMAIN t = 1..(Len(q) - 1)
      /\ q[1] = Head(q) /\ \A i \in 1..(Len(q) - 1) : t[i] = q[i + 1]
  OBVIOUS
<1> HIDE DEF t
<1>2. 1 \in Stops(q)
  BY <1>1 DEF Stops
<1>3. \A j \in Pictured(q) : j = 1
  <2> TAKE j \in Pictured(q)
  <2>1. j \in 1..Len(q)
    BY <1>1 DEF Pictured
  <2>2. ~(1 < j)
    BY <1>2, ScreenFirst
  <2> QED
    BY <1>1, <2>1, <2>2
<1>4. Pictured(t) = {}
  <2> SUFFICES ASSUME NEW i \in Pictured(t) PROVE FALSE
    OBVIOUS
  <2>1. i \in 1..(Len(q) - 1) /\ i + 1 \in Pictured(q)
    BY <1>1 DEF Pictured
  <2> QED
    BY <1>1, <1>3, <2>1
<1>5. 1 \in Pictured(q) <=> Head(q).frame.kind = "snapshot"
  BY <1>1 DEF Pictured
<1>6. Brings(t) = "stream"
  BY <1>4, BringsScreen
<1>7. Brings(q) = IF Head(q).frame.kind = "snapshot" THEN "screen" ELSE "stream"
  BY <1>3, <1>5, BringsScreen
<1> QED
  BY <1>6, <1>7 DEF t

\* News, and the frames that are published, leave what comes next as it is.
LEMMA AsideBrings ==
  ASSUME Inv, Inv', GuestType, NEW p \in ParticipantIds, Aside(p), down'[p] = down[p]
  PROVE  Brings(Coming(p)') = Brings(Coming(p))
<1>1. /\ down[p] \in Seq(OnSocket) /\ Line(p) \in Seq(OnSocket) /\ Coming(p) \in Seq(OnSocket)
      /\ Line(p) = Row(welcome[p], outbound[p])
      /\ welcome[p] \in Seq(DataFrame) /\ outbound[p] \in Seq(OutboundMessage)
  BY SocketMessages
<1>2. /\ Line(p)' = Row(welcome'[p], outbound'[p]) /\ Line(p)' \in Seq(OnSocket)
      /\ outbound'[p] \in Seq(OutboundMessage) /\ welcome'[p] \in Seq(DataFrame)
  <2>1. welcome'[p] \in Seq(DataFrame) /\ outbound'[p] \in Seq(OutboundMessage)
    BY DEF Inv, ThreadType, QueueType
  <2>2. Row(welcome'[p], outbound'[p]) \in Seq(OutboundMessage)
    BY <2>1, RowType
  <2>3. OutboundMessage \subseteq OnSocket
    BY DEF OnSocket
  <2>4. Line(p)' = Row(welcome'[p], outbound'[p])
    BY DEF Line, Row
  <2>5. Line(p)' \in Seq(OnSocket)
    BY <2>2, <2>3, <2>4
  <2> QED
    BY <2>1, <2>4, <2>5
<1>3. Coming(p)' = down[p] \o Line(p)' /\ Coming(p)' \in Seq(OnSocket)
  BY <1>1, <1>2, ConcatProperties DEF Coming
<1>4. CASE Hears(p)
  <2>1. welcome'[p] = welcome[p] /\ GrowsQuietly(outbound[p], outbound'[p])
    BY <1>4 DEF Hears
  <2>2. GrowsQuietly(Line(p), Line(p)')
    BY <1>1, <1>2, <2>1, RowGrows
  <2>3. GrowsQuietly(Coming(p), Coming(p)')
    BY <1>1, <1>2, <1>3, <2>2, QuietBehind DEF Coming
  <2> QED
    BY <1>1, <1>3, <2>3, BringsGrown
<1>5. CASE IsFed(p)
  <2>1. PICK f \in DataFrame :
          /\ f.kind # "snapshot"
          /\ outbound'[p] = IF p \in participants' /\ Receiving(p)
                            THEN Append(outbound[p], Data(f)) ELSE outbound[p]
    BY <1>5 DEF IsFed
  <2>2. welcome'[p] = welcome[p]
    BY <1>5 DEF IsFed
  <2>3. Data(f) \in OutboundMessage /\ Data(f) \in OnSocket
    BY MessageType DEF OnSocket
  <2>4. CASE outbound'[p] = Append(outbound[p], Data(f))
    <3>1. Line(p)' = Append(Line(p), Data(f))
      BY <1>1, <1>2, <2>2, <2>3, <2>4, RowFed
    <3> DEFINE d == down[p]
               l == Line(p)
               m == Data(f)
    <3>2. d \in Seq(OnSocket) /\ l \in Seq(OnSocket) /\ m \in OnSocket
      BY <1>1, <2>3
    <3>3. Coming(p)' = d \o Append(l, m) /\ Coming(p) = d \o l
      BY <1>3, <3>1 DEF Coming
    <3> HIDE DEF d, l, m
    <3>4. d \o Append(l, m) = Append(d \o l, m)
      BY <3>2
    <3>5. Coming(p)' = Append(Coming(p), Data(f))
      BY <3>3, <3>4 DEF m
    <3> QED
      BY <1>1, <2>1, <2>3, <3>5, BringsFed
  <2>5. CASE outbound'[p] = outbound[p]
    <3>1. Coming(p)' = Coming(p)
      BY <1>1, <1>2, <1>3, <2>2, <2>5 DEF Coming
    <3> QED
      BY <3>1
  <2> QED
    BY <2>1, <2>4, <2>5
<1> QED
  BY <1>4, <1>5 DEF Aside

\* What is fed by the connection p, when that is the guest's.
LEMMA FeedNow ==
  ASSUME NEW p, conn = p
  PROVE  FeedOf = IF pc = "running" /\ p \in live THEN Brings(Coming(p)) ELSE "none"
BY DEF FeedOf, Coming

LEMMA FeedThen ==
  ASSUME NEW p, conn' = p
  PROVE  FeedOf' = IF pc' = "running" /\ p \in live' THEN Brings(Coming(p)') ELSE "none"
<1>1. Line(conn)' = Line(p)'
  BY DEF Line
<1>2. (down[conn] \o Line(conn))' = Coming(p)'
  BY <1>1 DEF Coming
<1>3. FeedOf' = (IF pc = "running" /\ conn \in live THEN Brings(down[conn] \o Line(conn)) ELSE "none")'
  BY DEF FeedOf
<1> QED
  BY <1>2, <1>3

\* The guest's connection, where its line is what it was or has grown that way.
LEMMA FeedKept ==
  ASSUME NEW p, conn = p, conn' = p, UNCHANGED <<pc, live>>,
         pc = "running" /\ p \in live => Brings(Coming(p)') = Brings(Coming(p))
  PROVE  FeedOf' = FeedOf
BY FeedNow, FeedThen

LEMMA FeedAside ==
  ASSUME LinkInv, LinkInv', SocketInv, UNCHANGED <<pc, conn, live>>,
         \A p \in live : p = conn => Aside(p) /\ down'[p] = down[p]
  PROVE  FeedOf' = FeedOf
<1>1. CASE pc = "running" /\ conn \in live
  <2>1. \A q \in ParticipantIds : Aside(q) /\ down'[q] = down[q] =>
          Brings(Coming(q)') = Brings(Coming(q))
    BY AsideBrings DEF LinkInv
  <2>2. \A q : q = conn => /\ q \in ParticipantIds /\ Aside(q) /\ down'[q] = down[q]
                           /\ conn' = q
    BY <1>1 DEF SocketInv
  <2>3. \A q : q = conn => FeedOf' = FeedOf
    BY <2>1, <2>2, FeedKept
  <2> QED
    BY <2>3
<1>2. CASE ~(pc = "running" /\ conn \in live)
  BY <1>2 DEF FeedOf
<1> QED
  BY <1>1, <1>2

\* What a step of the session does to the share: nothing, or control is lost, a
\* frame is published, control is granted, the share is closed.
ControlStays == controllerId' \in {controllerId, NoOne}
ShareMoves ==
  \/ UNCHANGED <<closed, nextSequence>> /\ ControlStays
  \/ /\ ~closed /\ closed' = closed /\ nextSequence' = nextSequence + 1 /\ ControlStays
  \/ /\ ~closed /\ UNCHANGED <<closed, nextSequence>>
     /\ \E p \in ParticipantIds : controllerId' \in {p, NoOne}
  \/ ~closed /\ closed' = TRUE /\ nextSequence' = nextSequence /\ controllerId' = NoOne

\* A broadcast leaves in control who the session says, or nobody.
LEMMA BroadcastControl ==
  ASSUME NEW ps, NEW r, NEW c, NEW q, NEW m, Broadcast(ps, r, c, q, m)
  PROVE  controllerId' \in {c, NoOne}
BY DEF Broadcast, WithoutLagged

LEMMA SessionShareMoves ==
  ASSUME [Next]_vars
  PROVE  ShareMoves
<1> USE DEF ShareMoves, ControlStays, session, stream, ControllerWithout
<1>1. ASSUME NEW p \in ParticipantIds, GuestAction(p) PROVE ShareMoves
  <2>1. CASE RequestControl(p)
    BY <2>1, BroadcastControl DEF RequestControl
  <2>2. CASE ReleaseControl(p)
    BY <2>2, BroadcastControl DEF ReleaseControl
  <2>3. CASE SocketEnds(p)
    BY <2>3, BroadcastControl DEF SocketEnds, LeaveSession
  <2>4. CASE WelcomeFails(p) \/ \E hasInput \in BOOLEAN : AuthorizeInput(p, hasInput)
    BY <2>4 DEF WelcomeFails, AuthorizeInput
  <2>5. ASSUME NEW name, NEW nonce, NEW after, Join(p, name, nonce, after) PROVE ShareMoves
    <3>1. UNCHANGED <<closed, nextSequence>>
      BY <2>5 DEF Join
    <3>2. controllerId' \in {controllerId, NoOne}
      BY <2>5 DEF Join, WithoutLagged
    <3> QED
      BY <3>1, <3>2
  <2> QED
    BY <1>1, <2>1, <2>2, <2>3, <2>4, <2>5 DEF GuestAction
<1>2. ASSUME NEW p \in ParticipantIds, HostAction(p) PROVE ShareMoves
  <2>1. CASE SetController(p)
    <3> DEFINE demotes == controllerId \notin {NoOne, p}
               c  == IF demotes THEN WithoutLagged(p, participants, outbound) ELSE p
    <3>1. ~closed /\ UNCHANGED <<closed, nextSequence>>
      BY <2>1 DEF SetController
    <3>2. \E ps, r, q : Broadcast(ps, r, c, q, RoleChanged(p, "controller"))
      BY <2>1 DEF SetController
    <3>3. c \in {p, NoOne}
      BY DEF WithoutLagged
    <3> HIDE DEF c
    <3>4. controllerId' \in {c, NoOne}
      BY <3>2, BroadcastControl
    <3> QED
      BY <3>1, <3>3, <3>4
  <2>2. CASE SetObserver(p)
    BY <2>2, BroadcastControl DEF SetObserver
  <2>3. CASE RemoveParticipant(p) \/ BanParticipant(p)
    <3>1. Expel(p) /\ UNCHANGED <<closed, nextSequence>>
      BY <2>3 DEF RemoveParticipant, BanParticipant
    <3>2. controllerId' \in {ControllerWithout(p), NoOne}
      BY <3>1, BroadcastControl DEF Expel
    <3> QED
      BY <3>1, <3>2
  <2>4. CASE TypingFades(p)
    BY <2>4 DEF TypingFades
  <2> QED
    BY <1>2, <2>1, <2>2, <2>3, <2>4 DEF HostAction
<1>3. ASSUME NEW p \in ParticipantIds, ThreadStep(p) PROVE ShareMoves
  <2>1. CASE SendJoined(p) \/ SendReplay(p) \/ Forward(p)
    BY <2>1 DEF SendJoined, SendReplay, Forward, members
  <2>2. CASE Finish(p)
    BY <2>2, BroadcastControl DEF Finish, LeaveSession
  <2> QED
    BY <1>3, <2>1, <2>2 DEF ThreadStep
<1>4. CASE TerminalAction
  <2>1. ASSUME NEW f, NEW g, Publish(f, g) PROVE ShareMoves
    <3>1. ~closed /\ closed' = closed /\ nextSequence' = nextSequence + 1
      BY <2>1 DEF Publish
    <3>2. controllerId' \in {controllerId, NoOne}
      BY <2>1, BroadcastControl DEF Publish
    <3> QED
      BY <3>1, <3>2
  <2>2. CASE \E n \in 0..MaxSequence, g \in Grids : SetSnapshot(n, g)
    BY <2>2 DEF SetSnapshot, members
  <2>3. CASE Expire
    BY <2>3 DEF Expire, members
  <2>4. CASE Close
    BY <2>4 DEF Close
  <2> QED
    BY <1>4, <2>1, <2>2, <2>3, <2>4 DEF TerminalAction, PublishOutput, PublishResize,
       PublishTerminalExit
<1>5. CASE UNCHANGED vars
  BY <1>5 DEF vars, members
<1> QED
  BY <1>1, <1>2, <1>3, <1>4, <1>5 DEF Next

\* A step of the session that neither feeds the guest nor takes its input.
LEMMA ShareStep ==
  ASSUME ShareMoves, FeedOf' = FeedOf, UNCHANGED <<outputSequence, issued, written>>
  PROVE  [Promise!Next]_Promise!vars
<1>1. CASE UNCHANGED <<closed, nextSequence>> /\ ControlStays
  <2>1. Promise!Lose
    BY <1>1 DEF ControlStays, Promise!Lose, Promise!MayLose
  <2> QED
    BY <2>1 DEF Promise!Next
<1>2. CASE ~closed /\ closed' = closed /\ nextSequence' = nextSequence + 1 /\ ControlStays
  <2>1. Promise!Publish
    BY <1>2 DEF ControlStays, Promise!Publish, Promise!MayLose
  <2> QED
    BY <2>1 DEF Promise!Next
<1>3. ASSUME NEW p \in ParticipantIds, controllerId' \in {p, NoOne}, ~closed,
             UNCHANGED <<closed, nextSequence>>
      PROVE  [Promise!Next]_Promise!vars
  <2>1. Promise!Grant(p)
    BY <1>3 DEF Promise!Grant
  <2> QED
    BY <2>1 DEF Promise!Next
<1>4. CASE ~closed /\ closed' = TRUE /\ nextSequence' = nextSequence /\ controllerId' = NoOne
  <2>1. Promise!Close
    BY <1>4 DEF Promise!Close
  <2> QED
    BY <2>1 DEF Promise!Next
<1> QED
  BY <1>1, <1>2, <1>3, <1>4 DEF ShareMoves

\* The connection is lost, or nothing the promise speaks of happens.
LEMMA LostStep ==
  ASSUME FeedOf' \in {FeedOf, "none"},
         UNCHANGED <<closed, nextSequence, controllerId, outputSequence, issued, written>>
  PROVE  [Promise!Next]_Promise!vars
<1>1. CASE FeedOf' = FeedOf
  BY <1>1 DEF Promise!vars
<1>2. CASE FeedOf' = "none"
  <2>1. Promise!Disconnect
    BY <1>2 DEF Promise!Disconnect
  <2> QED
    BY <2>1 DEF Promise!Next
<1> QED
  BY <1>1, <1>2

\* The answer to a join: from then on the guest is fed.
LEMMA JoinedStep ==
  ASSUME ReadJoined
  PROVE  [Promise!Next]_Promise!vars
<1>1. /\ FeedOf = "none" /\ FeedOf' \in {"none", "screen", "stream"}
      /\ UNCHANGED <<closed, nextSequence, controllerId, outputSequence, issued, written>>
  BY DEF ReadJoined, FeedOf, Brings, vars, session, stream, members
<1>2. CASE FeedOf' = "none"
  BY <1>1, <1>2, LostStep
<1>3. CASE FeedOf' \in {"screen", "stream"}
  <2>1. Promise!Connect
    BY <1>1, <1>3 DEF Promise!Connect
  <2> QED
    BY <2>1 DEF Promise!Next
<1> QED
  BY <1>1, <1>2, <1>3

\* What the worker takes off its socket is the first of what is coming, and that
\* goes on where the guest is, no further than the session.
LEMMA Arrives ==
  ASSUME LinkInv, LinkFlow, BehindInv, Incoming, Took(conn), UNCHANGED <<vars, conn>>
  PROVE  /\ conn \in live
         /\ \E p \in ParticipantIds, q \in Seq(OnSocket) :
              /\ p = conn /\ conn' = p /\ q # <<>> /\ q = Coming(p) /\ Coming(p)' = Tail(q)
              /\ Head(q) = Head(down[p]) /\ Continues(q, outputSequence)
              /\ Head(q) \in OnSocket
              /\ Head(q).type = "data" =>
                   /\ Head(q).frame.sequence <= nextSequence
                   /\ IF Head(q).frame.kind = "snapshot"
                      THEN Head(q).frame.sequence >= outputSequence
                      ELSE Head(q).frame.sequence = outputSequence + 1
<1>1. /\ pc = "running" /\ down[conn] # <<>>
      /\ down' = [down EXCEPT ![conn] = Tail(@)]
  BY DEF Incoming, MayRead, Took
<1>2. conn \in live /\ conn \in ParticipantIds
  BY <1>1 DEF BehindInv, LinkFlow, SocketInv
<1>3. PICK p \in ParticipantIds : p = conn
  BY <1>2
<1> DEFINE d == down[p]
           l == Line(p)
<1>4. d \in Seq(OnSocket) /\ l \in Seq(OnSocket) /\ Framed(OnSocket) /\ Coming(p) \in Seq(OnSocket)
  BY SocketMessages DEF LinkInv
<1>5. d # <<>> /\ Coming(p) = d \o l
  BY <1>1, <1>3 DEF Coming
<1>6. Coming(p)' = Tail(d) \o l
  <2>1. down'[p] = Tail(down[p])
    BY <1>1, <1>3 DEF LinkInv, GuestType
  <2>2. Line(p)' = Line(p)
    BY DEF Line, vars, members, threads
  <2> QED
    BY <2>1, <2>2 DEF Coming
<1>7. Continues(Coming(p), outputSequence) /\ NotAhead(Coming(p), nextSequence)
      /\ outputSequence \in Nat
  BY <1>1, <1>2, <1>3 DEF LinkFlow, Skipless, Goes, BehindInv, LinkInv, GuestType
<1> HIDE DEF d, l
<1>8. /\ d \o l # <<>> /\ Head(d \o l) = Head(d) /\ Tail(d \o l) = Tail(d) \o l
  BY <1>4, <1>5, TakenFirst
<1> DEFINE q == Coming(p)
<1>9. q \in Seq(OnSocket) /\ q # <<>> /\ Head(q) = Head(d) /\ Coming(p)' = Tail(q)
  BY <1>4, <1>5, <1>6, <1>8
<1> HIDE DEF q
<1>10. Head(q) \in OnSocket
  BY <1>9
<1>11. Continues(q, outputSequence) /\ NotAhead(q, nextSequence)
  BY <1>7 DEF q
<1>12. Head(q).type = "data" =>
         IF Head(q).frame.kind = "snapshot" THEN Head(q).frame.sequence >= outputSequence
         ELSE Head(q).frame.sequence = outputSequence + 1
  BY <1>4, <1>7, <1>9, <1>11, TakenLine
<1>13. Head(q).type = "data" => Head(q).frame.sequence <= nextSequence
  BY <1>9, <1>11, AheadTaken
<1>14. q = Coming(p)
  BY DEF q
<1>15. Head(q) = Head(down[p]) /\ conn' = p
  BY <1>3, <1>9 DEF d
<1> QED
  BY <1>2, <1>3, <1>9, <1>10, <1>11, <1>12, <1>13, <1>14, <1>15

\* A control message is no frame: unless it ends the connection, the feed is as it was.
LEMMA ControlStep ==
  ASSUME LinkInv, LinkFlow, BehindInv, ReadControl
  PROVE  [Promise!Next]_Promise!vars
<1>1. /\ Incoming /\ Took(conn) /\ Head(down[conn]).type # "data"
      /\ UNCHANGED <<vars, conn, outputSequence, issued, written>>
      /\ pc' = "ended" \/ UNCHANGED <<pc, live>>
  BY DEF ReadControl, End
<1>2. PICK p \in ParticipantIds, q \in Seq(OnSocket) :
        /\ p = conn /\ conn' = p /\ q # <<>> /\ q = Coming(p) /\ Coming(p)' = Tail(q)
        /\ Head(q) = Head(down[p])
  BY <1>1, Arrives
<1>3. Brings(Tail(q)) = Brings(q)
  BY <1>1, <1>2, BringsTaken
<1>4. FeedOf' \in {FeedOf, "none"}
  <2>1. CASE pc' = "ended"
    BY <2>1 DEF FeedOf
  <2>2. CASE UNCHANGED <<pc, live>>
    BY <1>2, <1>3, <2>2, FeedKept
  <2> QED
    BY <1>1, <2>1, <2>2
<1> QED
  BY <1>1, <1>4, LostStep DEF vars, session, stream, members

\* A frame is the next one or a screen, and the first thing on its connection then;
\* behind it comes a stream, or, if it was the end of the terminal, nothing.
LEMMA FrameStep ==
  ASSUME LinkInv, LinkFlow, BehindInv, ReadFrame
  PROVE  [Promise!Next]_Promise!vars
<1>1. /\ Incoming /\ Took(conn) /\ Head(down[conn]).type = "data"
      /\ UNCHANGED <<vars, conn, issued, written>> /\ pc = "running"
  BY DEF ReadFrame, End, Incoming, MayRead
<1>2. conn \in live
  BY <1>1, Arrives
<1>3. PICK p \in ParticipantIds, q \in Seq(OnSocket) :
        /\ p = conn /\ conn' = p /\ q # <<>> /\ q = Coming(p) /\ Coming(p)' = Tail(q)
        /\ Head(q) = Head(down[p]) /\ Continues(q, outputSequence)
        /\ Head(q).type = "data" =>
             /\ Head(q).frame.sequence <= nextSequence
             /\ IF Head(q).frame.kind = "snapshot"
                THEN Head(q).frame.sequence >= outputSequence
                ELSE Head(q).frame.sequence = outputSequence + 1
  BY <1>1, Arrives
<1> DEFINE f == Head(q).frame
<1>4. Head(q).type = "data" /\ f = Head(down[conn]).frame
  BY <1>1, <1>3
<1>5. /\ f.sequence <= nextSequence
      /\ IF f.kind = "snapshot" THEN f.sequence >= outputSequence
         ELSE f.sequence = outputSequence + 1
  BY <1>3, <1>4
<1>6. /\ Brings(Tail(q)) = "stream"
      /\ Brings(q) = IF f.kind = "snapshot" THEN "screen" ELSE "stream"
  BY <1>3, <1>4, FrameTaken
<1>7. f.sequence \in Nat /\ nextSequence \in Nat /\ outputSequence \in Nat
  <2>1. Head(q) \in OnSocket
    BY <1>3
  <2> QED
    BY <1>4, <2>1, FrameNumber DEF LinkInv, GuestType, Inv, StreamType
<1>8. FeedOf = IF f.kind = "snapshot" THEN "screen" ELSE "stream"
  BY <1>1, <1>2, <1>3, <1>6, FeedNow
<1>9. UNCHANGED <<closed, nextSequence, controllerId>>
  BY <1>1 DEF vars, session, stream, members
<1>10. Acceptable(f)
  BY <1>5 DEF Acceptable
<1>11. /\ outputSequence' = f.sequence
       /\ IF f.kind = "exit" THEN pc' = "ended" ELSE UNCHANGED <<pc, live>>
  BY <1>4, <1>10 DEF ReadFrame, End
<1>12. FeedOf' = IF f.kind = "exit" THEN "none" ELSE "stream"
  <2>1. CASE f.kind = "exit"
    BY <1>11, <2>1 DEF FeedOf
  <2>2. CASE f.kind # "exit"
    BY <1>1, <1>2, <1>3, <1>6, <1>11, <2>2, FeedThen
  <2> QED
    BY <2>1, <2>2
<1> HIDE DEF f
<1>13. CASE f.kind = "snapshot"
  <2>1. Promise!Restore
    BY <1>1, <1>5, <1>7, <1>8, <1>9, <1>11, <1>12, <1>13 DEF Promise!Restore
  <2> QED
    BY <2>1 DEF Promise!Next
<1>14. CASE f.kind # "snapshot"
  <2>1. Promise!Apply
    BY <1>1, <1>5, <1>7, <1>8, <1>9, <1>11, <1>12, <1>14 DEF Promise!Apply
  <2> QED
    BY <2>1 DEF Promise!Next
<1> QED
  BY <1>13, <1>14

\* The thread of x on the host writes: what the guest is fed comes in the order of
\* its line, the answer to the join before it.
LEMMA WritesStep ==
  ASSUME LinkInv, LinkInv', LinkFlow, NEW x \in ParticipantIds, HostSends(x)
  PROVE  [Promise!Next]_Promise!vars
<1>1. /\ FlowInv /\ SocketInv /\ Inv /\ GuestType
  BY DEF LinkFlow, LinkInv
<1>2. Sends(x) /\ ThreadStep(x)
  BY <1>1, HostWrites DEF HostSends, ThreadStep
<1>3. ShareMoves
  BY <1>2, SessionShareMoves DEF Next
<1>4. UNCHANGED <<pc, conn, live, outputSequence, issued, written>>
  <2>1. (\E m : Wire(x, m)) \/ Unwired
    BY DEF HostSends
  <2> QED
    BY <2>1 DEF Wire, Unwired, network, guest, worker, webview
<1>5. FeedOf' = FeedOf
  <2>1. CASE conn # x
    <3>1. \A p \in live : p = conn => Aside(p) /\ down'[p] = down[p]
      <4> SUFFICES ASSUME NEW p \in live, p = conn PROVE Aside(p) /\ down'[p] = down[p]
        OBVIOUS
      <4>1. p \in ParticipantIds /\ p # x
        BY <1>1, <2>1 DEF SocketInv
      <4>2. Aside(p)
        BY <1>1, <1>2, <4>1, OthersAside DEF FlowInv
      <4> QED
        BY <1>2, <4>1, <4>2 DEF Sends
    <3> QED
      BY <1>1, <1>4, <3>1, FeedAside
  <2>2. CASE conn = x
    <3>1. ASSUME x \in live PROVE Brings(Coming(x)') = Brings(Coming(x))
      <4>1. CASE phase[x] # "joined"
        BY <1>2, <3>1, <4>1 DEF Sends
      <4>2. CASE phase[x] = "joined"
        <5> DEFINE l == Line(x)
                   m == Joined(x)
        <5>1. l \in Seq(OnSocket) /\ m \in OnSocket /\ m.type # "data"
          BY <1>1, SocketMessages DEF Joined, OnSocket
        <5>2. Coming(x) = l /\ Coming(x)' = <<m>> \o l
          <6>1. down[x] = <<>> /\ down'[x] = <<Joined(x)>> /\ Line(x)' = Line(x)
            BY <1>1, <1>2, <3>1, <4>2 DEF Sends, SocketInv
          <6>2. <<>> \o l = l
            BY <5>1
          <6> QED
            BY <6>1, <6>2 DEF Coming
        <5> HIDE DEF l, m
        <5> DEFINE s == <<m>>
        <5>3. s \in Seq(OnSocket) /\ s # <<>> /\ Head(s) = m /\ Tail(s) = <<>>
          BY <5>1
        <5>4. <<>> \o l = l
          BY <5>1
        <5> HIDE DEF s
        <5>5. s \o l # <<>> /\ Head(s \o l) = m /\ Tail(s \o l) = l
          <6>1. s \o l # <<>> /\ Head(s \o l) = Head(s) /\ Tail(s \o l) = Tail(s) \o l
            BY <5>1, <5>3, TakenFirst
          <6> QED
            BY <5>3, <5>4, <6>1
        <5>6. s \o l \in Seq(OnSocket)
          BY <5>1, <5>3, ConcatProperties
        <5>7. Brings(s \o l) = Brings(l)
          BY <5>1, <5>5, <5>6, BringsTaken
        <5> QED
          BY <5>2, <5>7 DEF s
      <4> QED
        BY <4>1, <4>2
    <3> QED
      BY <1>4, <2>2, <3>1, FeedKept
  <2> QED
    BY <2>1, <2>2
<1> QED
  BY <1>3, <1>4, <1>5, ShareStep

\* The host accepts an input (session.rs:403-430, server.rs:371-387): whoever types
\* is in control, the share is open, and what was written before was typed before.
LEMMA InputStep ==
  ASSUME LinkInv, LinkInv', LinkFlow, OrderInv, NEW p \in ParticipantIds, HostTakesInput(p)
  PROVE  [Promise!Next]_Promise!vars
<1> DEFINE n == Head(up[p]).number
<1>1. /\ phase[p] = "running" /\ up[p] # <<>> /\ Head(up[p]).kind = "input"
      /\ ~closed /\ p \in participants /\ record[p].role = "controller"
      /\ written' = Append(written, n)
      /\ UNCHANGED <<closed, nextSequence, controllerId, outputSequence, issued>>
      /\ UNCHANGED <<pc, conn, live, down>> /\ AuthorizeInput(p, TRUE)
  BY DEF HostTakesInput, AuthorizeInput, Heard, session, stream, guest, worker, webview
<1>2. controllerId # NoOne
  <2>1. ControllerCoherent
    BY InvIsTypeAndControl DEF LinkInv
  <2> QED
    BY <1>1, <2>1 DEF ControllerCoherent
<1>3. n \in NumbersOf(up[p]) /\ n \in 1..MaxIssued
  <2>1. up[p] \in Seq(Wired)
    BY DEF OrderInv, OrderType
  <2>2. up[p] \in Seq(Command \cup Wired)
    BY <2>1
  <2> QED
    BY <1>1, <2>2, TailNumbers, NumbersType
<1>4. n \in Upward
  BY <1>1, <1>3 DEF Upward
<1> HIDE DEF n
<1>5. n \in 1..issued
  <2>1. n <= issued /\ issued \in Nat
    BY <1>4, LinkAssumption DEF OrderInv, OrderRising, OrderType
  <2> QED
    BY <1>3, <2>1, LinkAssumption
<1>6. \A i \in DOMAIN written : written[i] < n
  BY <1>4 DEF OrderInv, OrderRising, Chain, AllBelow, WrittenNumbers
<1>7. FeedOf' = FeedOf
  <2>1. Inv /\ SocketInv
    BY DEF LinkInv, LinkFlow
  <2>2. \A q \in live : q = conn => Aside(q) /\ down'[q] = down[q]
    <3> SUFFICES ASSUME NEW q \in live PROVE Aside(q) /\ down'[q] = down[q]
      OBVIOUS
    <3>1. q \in ParticipantIds
      BY <2>1 DEF SocketInv
    <3>2. \E hasInput \in BOOLEAN : AuthorizeInput(p, hasInput)
      BY <1>1
    <3> QED
      BY <1>1, <2>1, <3>1, <3>2, SessionAside
  <2> QED
    BY <1>1, <2>1, <2>2, FeedAside
<1>8. Promise!Enter(n)
  BY <1>1, <1>2, <1>6, <1>7 DEF Promise!Enter
<1> QED
  BY <1>5, <1>8 DEF Promise!Next

\* What else the host reads, and what its user and the terminal do.
LEMMA HostStep ==
  ASSUME LinkInv, LinkInv', LinkFlow,
         \/ HostUser
         \/ \E x \in ParticipantIds : HostRefusesInput(x) \/ HostTakesRequest(x)
  PROVE  [Promise!Next]_Promise!vars
<1>1. UNCHANGED <<pc, conn, live, down, outputSequence, issued, written>>
  BY DEF HostUser, Unwired, HostRefusesInput, HostTakesRequest, Heard, guest, worker,
     webview, network
<1>2. ShareMoves
  <2>1. CASE HostUser
    <3>1. TerminalAction \/ \E p \in ParticipantIds : HostAction(p)
      BY <2>1 DEF HostUser, HostAction
    <3> QED
      BY <3>1, SessionShareMoves DEF Next
  <2>2. ASSUME NEW x \in ParticipantIds, HostRefusesInput(x) \/ HostTakesRequest(x)
        PROVE  ShareMoves
    <3>1. RequestControl(x) \/ ReleaseControl(x) \/ UNCHANGED vars
      BY <2>2 DEF HostRefusesInput, HostTakesRequest
    <3>2. GuestAction(x) \/ UNCHANGED vars
      BY <3>1 DEF GuestAction
    <3> QED
      BY <3>2, SessionShareMoves DEF Next
  <2> QED
    BY <2>1, <2>2
<1>3. Inv /\ SocketInv
  BY DEF LinkInv, LinkFlow
<1>4. ASSUME NEW q \in ParticipantIds PROVE Aside(q)
  <2>1. ASSUME NEW x \in ParticipantIds,
               TerminalAction \/ HostAction(x) \/ HostRefusesInput(x) \/ HostTakesRequest(x)
        PROVE  Aside(q)
    <3>1. \/ TerminalAction \/ UNCHANGED vars \/ HostAction(x)
          \/ RequestControl(x) \/ ReleaseControl(x)
      BY <2>1 DEF HostRefusesInput, HostTakesRequest
    <3> QED
      BY <1>3, <1>4, <3>1, SessionAside
  <2> QED
    BY <1>4, <2>1 DEF HostUser, HostAction
<1>5. FeedOf' = FeedOf
  BY <1>1, <1>3, <1>4, FeedAside DEF SocketInv
<1> QED
  BY <1>1, <1>2, <1>5, ShareStep

\* A socket fails, or the host notices that it has: the guest's, or another.
LEMMA SocketStep ==
  ASSUME LinkInv, LinkInv', LinkFlow, NEW x \in ParticipantIds, HostNotices(x) \/ Cut(x)
  PROVE  [Promise!Next]_Promise!vars
<1>1. Inv /\ FlowInv /\ SocketInv /\ GuestType
  BY DEF LinkInv, LinkFlow
<1>2. CASE HostNotices(x)
  <2>1. /\ x \notin live /\ (WelcomeFails(x) \/ SocketEnds(x))
        /\ UNCHANGED <<pc, conn, live, down, outputSequence, issued, written>>
    BY <1>2 DEF HostNotices, Unwired, guest, worker, webview, network
  <2>2. ShareMoves
    BY <2>1, SessionShareMoves DEF Next, GuestAction
  <2>3. \A p \in live : p = conn => Aside(p) /\ down'[p] = down[p]
    <3> SUFFICES ASSUME NEW p \in live PROVE Aside(p) /\ down'[p] = down[p]
      OBVIOUS
    <3>1. p \in ParticipantIds /\ p # x
      BY <1>1, <2>1 DEF SocketInv
    <3> QED
      BY <1>1, <2>1, <3>1, OthersAside DEF FlowInv
  <2>4. FeedOf' = FeedOf
    BY <1>1, <2>1, <2>3, FeedAside
  <2> QED
    BY <2>1, <2>2, <2>4, ShareStep
<1>3. CASE Cut(x)
  <2>1. /\ UNCHANGED <<vars, pc, conn, outputSequence, issued, written>>
        /\ live' = live \ {x} /\ down' = [down EXCEPT ![x] = <<>>]
    BY <1>3 DEF Cut, guest, worker, webview
  <2>2. CASE conn = x
    <3>1. FeedOf' = "none"
      BY <2>1, <2>2 DEF FeedOf
    <3> QED
      BY <2>1, <3>1, LostStep DEF vars, session, stream, members
  <2>3. CASE conn # x
    <3>1. conn \in live' <=> conn \in live
      BY <2>1, <2>3
    <3>2. down'[conn] = down[conn]
      BY <1>1, <2>1, <2>3 DEF GuestType
    <3>3. FeedOf' = FeedOf
      <4>1. \A p \in live : p = conn => Coming(p)' = Coming(p)
        <5> SUFFICES ASSUME NEW p \in live, p = conn PROVE Coming(p)' = Coming(p)
          OBVIOUS
        <5>1. down'[p] = down[p]
          BY <3>2
        <5>2. Line(p)' = Line(p)
          BY <2>1 DEF Line, vars, members, threads
        <5> QED
          BY <5>1, <5>2 DEF Coming
      <4>2. ASSUME NEW p \in live, p = conn PROVE FeedOf' = FeedOf
        <5>1. /\ FeedOf = IF pc = "running" /\ p \in live THEN Brings(Coming(p)) ELSE "none"
              /\ FeedOf' = IF pc' = "running" /\ p \in live' THEN Brings(Coming(p)') ELSE "none"
          BY <2>1, <4>2, FeedNow, FeedThen
        <5>2. Coming(p)' = Coming(p)
          BY <4>1, <4>2
        <5> QED
          BY <2>1, <3>1, <4>2, <5>1, <5>2
      <4>3. CASE conn \notin live
        BY <2>1, <3>1, <4>3 DEF FeedOf
      <4> QED
        BY <4>2, <4>3
    <3> QED
      BY <2>1, <3>3, LostStep DEF vars, session, stream, members
  <2> QED
    BY <2>2, <2>3
<1> QED
  BY <1>2, <1>3

\* Steps of the worker that give up, get or wait for a connection, or send.
LEMMA WorkerStep ==
  ASSUME LinkInv, LinkInv', LinkFlow, BehindInv, Worker
  PROVE  [Promise!Next]_Promise!vars
<1>1. CASE \E x \in ParticipantIds : OpenSocket(x)
  <2>1. PICK x \in ParticipantIds : OpenSocket(x)
    BY <1>1
  <2>2. /\ FeedOf = "none" /\ FeedOf' = "none"
        /\ UNCHANGED <<outputSequence, issued, written>>
    BY <2>1 DEF OpenSocket, FeedOf, webview
  <2>3. Next
    BY <2>1, OpenIsJoin
  <2>4. ShareMoves
    BY <2>3, SessionShareMoves
  <2> QED
    BY <2>2, <2>4, ShareStep
<1>2. CASE OpenFails \/ SendFails \/ UserCloses \/ ReadFails \/ KeepCommand
             \/ CloseWhileWaiting \/ WaitOver
  <2>1. FeedOf' = "none"
    BY <1>2 DEF OpenFails, SendFails, UserCloses, ReadFails, KeepCommand, CloseWhileWaiting,
       WaitOver, End, Retry, FeedOf
  <2>2. UNCHANGED <<vars, outputSequence, issued, written>>
    BY <1>2 DEF OpenFails, SendFails, UserCloses, ReadFails, KeepCommand, CloseWhileWaiting,
       WaitOver, Retry, webview
  <2> QED
    BY <2>1, <2>2, LostStep DEF vars, session, stream, members
<1>3. CASE SendCommand
  <2>1. UNCHANGED <<vars, pc, conn, live, down, outputSequence, issued, written>>
    BY <1>3 DEF SendCommand, webview
  <2>2. FeedOf' = FeedOf
    BY <2>1 DEF FeedOf, Brings, Line, vars, members, threads
  <2> QED
    BY <2>1, <2>2, LostStep DEF vars, session, stream, members
<1> QED
  BY <1>1, <1>2, <1>3, JoinedStep, FrameStep, ControlStep DEF Worker

\* The user gives a command, or does what the promise does not speak of.
LEMMA UserStep ==
  ASSUME User
  PROVE  [Promise!Next]_Promise!vars
<1>1. UNCHANGED <<vars, pc, conn, live, down, outputSequence, written>>
  BY DEF User, Welcomed, Type, AskControl, Give, CloseGuest, CloseReturns, worker, network
<1>2. FeedOf' = FeedOf
  BY <1>1 DEF FeedOf, Brings, Line, vars, members, threads
<1>3. UNCHANGED <<closed, nextSequence, controllerId>>
  BY <1>1 DEF vars, session, stream, members
<1>4. issued' \in {issued, issued + 1}
  BY DEF User, Welcomed, Type, AskControl, Give, CloseGuest, CloseReturns
<1>5. CASE issued' = issued
  BY <1>1, <1>2, <1>3, <1>5, LostStep
<1>6. CASE issued' = issued + 1
  <2>1. Promise!Give
    BY <1>1, <1>2, <1>3, <1>6 DEF Promise!Give
  <2> QED
    BY <2>1 DEF Promise!Next
<1> QED
  BY <1>4, <1>5, <1>6

\* Whatever fails and comes back between a shared terminal and its guest, it is what
\* SharedTerminal promises: the frames reach the guest one by one or behind a
\* captured screen; what it types enters the shell in order, once, and only under
\* control; and a share that is closed publishes, grants and accepts nothing more
\* (session.rs:403-677, server.rs:229-424, guest.rs:289-533).
THEOREM LinkKeepsPromise == LinkSpec => PromiseKept
<1> DEFINE I == LinkInv /\ LinkFlow /\ OrderInv /\ BehindInv
<1>1. LinkInit => Promise!Init
  BY DEF LinkInit, Init, FeedOf, Promise!Init
<1>2. LinkInit => I
  BY LinkInitInv, LinkFlowInit, OrderInit, BoundsInit
<1>3. I /\ [LinkNext]_linkVars => I'
  <2> SUFFICES ASSUME I, [LinkNext]_linkVars PROVE I'
    OBVIOUS
  <2>1. LinkInv' /\ LinkFlow' /\ BehindInv'
    BY LinkStepInv, LinkFlowStep, BehindStep
  <2> QED
    BY <2>1, OrderStep
<1>4. I /\ [LinkNext]_linkVars => [Promise!Next]_Promise!vars
  <2> SUFFICES ASSUME I, [LinkNext]_linkVars PROVE [Promise!Next]_Promise!vars
    OBVIOUS
  <2>1. LinkInv'
    BY LinkStepInv
  <2>2. CASE Worker
    BY <2>1, <2>2, WorkerStep
  <2>3. CASE User
    BY <2>3, UserStep
  <2>4. CASE HostUser
    BY <2>1, <2>4, HostStep
  <2>5. ASSUME NEW p \in ParticipantIds, HostThread(p) \/ Cut(p)
        PROVE  [Promise!Next]_Promise!vars
    <3>1. CASE HostSends(p)
      BY <2>1, <3>1, WritesStep
    <3>2. CASE HostNotices(p) \/ Cut(p)
      BY <2>1, <3>2, SocketStep
    <3>3. CASE HostTakesInput(p)
      BY <2>1, <3>3, InputStep
    <3>4. CASE HostRefusesInput(p) \/ HostTakesRequest(p)
      BY <2>1, <3>4, HostStep
    <3> QED
      BY <2>5, <3>1, <3>2, <3>3, <3>4 DEF HostThread, HostReads
  <2>6. CASE UNCHANGED linkVars
    <3>1. UNCHANGED <<vars, pc, conn, live, down, outputSequence, issued, written>>
      BY <2>6 DEF linkVars, guest, worker, webview, network
    <3>2. FeedOf' = FeedOf
      BY <3>1 DEF FeedOf, Brings, Line, vars, members, threads
    <3> QED
      BY <3>1, <3>2, LostStep DEF vars, session, stream, members
  <2> QED
    BY <2>2, <2>3, <2>4, <2>5, <2>6 DEF LinkNext
<1> HIDE DEF I
<1> QED
  BY <1>1, <1>2, <1>3, <1>4, PTL DEF LinkSpec, PromiseKept, Promise!Spec
=============================================================================
