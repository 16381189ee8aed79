------------------------- MODULE HostedSessionProofs -------------------------
(***************************************************************************)
(* Proofs about HostedSession, for every number of participants, nonces    *)
(* and frames, length of queue and size of replay window: its types and    *)
(* its one controller; then that a nonce admits one participant, that      *)
(* nothing is told to a connection after its farewell, and that the replay *)
(* window stays in order, within its limits and exactly counted; and last  *)
(* what every guest is left with: each frame once and in order, the grid   *)
(* and its own role.                                                       *)
(***************************************************************************)
EXTENDS HostedSession, FiniteSetTheorems, SequenceTheorems, TLAPS

-----------------------------------------------------------------------------
(* Sums over finite sets.  The induction is over sets: a set of numbers that *)
(* holds 0 and every successor is all of them.                             *)

\* A set of numbers has a least one.
LEMMA LeastNumber ==
  ASSUME NEW T \in SUBSET Nat, T # {}
  PROVE  \E m \in T : \A k \in T : m <= k
<1> DEFINE R == {ss \in Nat \X Nat : ss[1] < ss[2]}
<1>1. IsWellFoundedOn(OpToRel(<, Nat), Nat)
  BY NatLessThanWellFounded
<1>2. OpToRel(<, Nat) = R
  BY DEF OpToRel
<1>3. IsWellFoundedOn(R, Nat)
  BY <1>1, <1>2
<1>4. \A k, m \in Nat : k < m => <<k, m>> \in R
  OBVIOUS
<1> HIDE DEF R
<1>5. PICK m \in T : \A k \in T : ~(<<k, m>> \in R)
  BY <1>3, WFMin
<1>6. \A k \in T : ~(k < m)
  BY <1>4, <1>5
<1> QED
  BY <1>5, <1>6

\* Induction: what holds of 0 and of the successor of each number it holds of
\* holds of every number.
LEMMA EveryNumber ==
  ASSUME NEW S \in SUBSET Nat, 0 \in S, \A n \in S : n + 1 \in S
  PROVE  S = Nat
<1> DEFINE T == Nat \ S
<1> SUFFICES ASSUME T # {} PROVE FALSE
  OBVIOUS
<1>1. PICK m \in T : \A k \in T : m <= k
  BY LeastNumber, Zenon
<1>2. m \in Nat /\ m # 0 /\ m - 1 \in Nat
  BY <1>1
<1>3. m - 1 \in S
  BY <1>1, <1>2
<1> QED
  BY <1>1, <1>2, <1>3

\* The same, for a property of the subsets of a finite set: it holds of all of
\* them if it holds of each one whose smaller subsets all have it.
LEMMA EverySubset ==
  ASSUME NEW S, IsFiniteSet(S), NEW C \in SUBSET (SUBSET S),
         \A T \in SUBSET S :
           (\A x \in T : T \ {x} \in C) => T \in C
  PROVE  C = SUBSET S
<1> DEFINE N == {n \in Nat : \A T \in SUBSET S : Cardinality(T) = n => T \in C}
<1>1. \A T \in SUBSET S : IsFiniteSet(T) /\ Cardinality(T) \in Nat
  BY FS_Subset, FS_CardinalityType
<1>2. 0 \in N
  <2> SUFFICES ASSUME NEW T \in SUBSET S, Cardinality(T) = 0 PROVE T \in C
    OBVIOUS
  <2>1. T = {}
    BY <1>1, FS_EmptySet
  <2> QED
    BY <2>1
<1>3. ASSUME NEW n \in N PROVE n + 1 \in N
  <2> SUFFICES ASSUME NEW T \in SUBSET S, Cardinality(T) = n + 1 PROVE T \in C
    OBVIOUS
  <2>1. ASSUME NEW x \in T PROVE T \ {x} \in C
    <3>1. IsFiniteSet(T) /\ n \in Nat
      BY <1>1
    <3>2. Cardinality(T \ {x}) = Cardinality(T) - 1
      BY <3>1, FS_RemoveElement
    <3> QED
      BY <3>1, <3>2
  <2> QED
    BY <2>1
<1> HIDE DEF N
<1>4. N = Nat
  <2>1. N \in SUBSET Nat
    BY DEF N
  <2> QED
    BY <2>1, <1>2, <1>3, EveryNumber
<1> QED
  BY <1>1, <1>4 DEF N

\* How the library adds up f over the subsets of S: it takes the elements of a
\* set one by one, in an order of its own choosing.
AddsUp(g, f, S) ==
  g = [T \in SUBSET S |->
         IF T = {} THEN 0
         ELSE LET x == CHOOSE y \in T : TRUE IN f[x] + g[T \ {x}]]

\* There is such a function: adding up is well defined on a finite set.
LEMMA SumsExist ==
  ASSUME NEW S, IsFiniteSet(S), NEW f
  PROVE  \E g : AddsUp(g, f, S)
<1> DEFINE Step(g, T) == IF T = {} THEN 0
                         ELSE LET x == CHOOSE y \in T : TRUE
                              IN f[x] + g[T \ {x}]
           Upto(n) == {T \in SUBSET S : Cardinality(T) <= n}
           N == {n \in Nat : \E g : \A T \in Upto(n) : g[T] = Step(g, T)}
<1>1. \A T \in SUBSET S : IsFiniteSet(T) /\ Cardinality(T) \in Nat
  BY FS_Subset, FS_CardinalityType
<1>2. \A T \in SUBSET S : T # {} =>
        /\ (CHOOSE y \in T : TRUE) \in T
        /\ Cardinality(T \ {CHOOSE y \in T : TRUE}) = Cardinality(T) - 1
  BY <1>1, FS_RemoveElement
<1>3. 0 \in N
  <2>1. \A T \in Upto(0) : T = {}
    BY <1>1, FS_EmptySet
  <2>2. \A T \in Upto(0) : [s \in SUBSET S |-> 0][T] = Step([s \in SUBSET S |-> 0], T)
    BY <2>1
  <2> QED
    BY <2>2
<1>4. ASSUME NEW n \in N PROVE n + 1 \in N
  <2>1. PICK g : \A T \in Upto(n) : g[T] = Step(g, T)
    OBVIOUS
  <2> DEFINE h == [T \in SUBSET S |-> Step(g, T)]
  <2>2. \A T \in Upto(n) : h[T] = g[T]
    BY <2>1
  <2>3. \A T \in Upto(n + 1) : h[T] = Step(h, T)
    <3> SUFFICES ASSUME NEW T \in Upto(n + 1), T # {} PROVE h[T] = Step(h, T)
      OBVIOUS
    <3> DEFINE c == CHOOSE y \in T : TRUE
    <3>1. T \ {c} \in Upto(n)
      BY <1>1, <1>2
    <3>2. h[T] = f[c] + g[T \ {c}]
      OBVIOUS
    <3>3. h[T \ {c}] = g[T \ {c}]
      BY <2>2, <3>1
    <3> QED
      BY <3>2, <3>3
  <2> HIDE DEF h
  <2>4. \E e : \A T \in Upto(n + 1) : e[T] = Step(e, T)
    BY <2>3
  <2> HIDE DEF Upto, Step
  <2> QED
    BY <2>4
<1>5. Cardinality(S) \in N
  <2>1. N \in SUBSET Nat
    OBVIOUS
  <2> HIDE DEF N
  <2> QED
    BY <1>1, <1>3, <1>4, <2>1, EveryNumber
<1>6. PICK g : \A T \in Upto(Cardinality(S)) : g[T] = Step(g, T)
  BY <1>5
<1>7. \A T \in SUBSET S : T \in Upto(Cardinality(S))
  BY FS_Subset
<1> DEFINE h == [T \in SUBSET S |-> Step(g, T)]
<1>8. \A T \in SUBSET S : h[T] = g[T]
  BY <1>6, <1>7
<1>9. \A T \in SUBSET S : Step(g, T) = Step(h, T)
  <2> SUFFICES ASSUME NEW T \in SUBSET S, T # {} PROVE Step(g, T) = Step(h, T)
    OBVIOUS
  <2> DEFINE c == CHOOSE y \in T : TRUE
  <2>1. T \ {c} \in SUBSET S
    OBVIOUS
  <2> QED
    BY <1>8, <2>1
<1>10. h = [T \in SUBSET S |-> Step(h, T)]
  BY <1>9
<1> QED
  BY <1>10 DEF AddsUp

\* A sum over a finite set is what adding up gives.
LEMMA SumAddsUp ==
  ASSUME NEW S, IsFiniteSet(S), NEW f
  PROVE  \E g : AddsUp(g, f, S) /\ SumFunctionOnSet(f, S) = g[S]
<1> DEFINE Sums(h) == [T \in SUBSET S |->
                         IF T = {} THEN 0
                         ELSE LET x == CHOOSE y \in T : TRUE
                              IN f[x] + h[T \ {x}]]
           g == CHOOSE h : h = Sums(h)
<1>1. AddsUp(g, f, S)
  <2>1. \E h : h = Sums(h)
    <3>1. PICK h : AddsUp(h, f, S)
      BY SumsExist
    <3>2. h = Sums(h)
      BY <3>1 DEF AddsUp
    <3> HIDE DEF Sums
    <3> QED
      BY <3>2
  <2> HIDE DEF Sums
  <2>2. g = Sums(g)
    BY <2>1, Zenon
  <2> HIDE DEF g
  <2> QED
    BY <2>2 DEF AddsUp, Sums
<1>2. SumFunctionOnSet(f, S) = g[S]
  BY DEF SumFunctionOnSet, FoldFunctionOnSet, MapThenFoldSet
<1> QED
  BY <1>1, <1>2

\* One step of adding up.
LEMMA AddsOne ==
  ASSUME NEW g, NEW f, NEW S, AddsUp(g, f, S), NEW T \in SUBSET S
  PROVE  /\ T = {} => g[T] = 0
         /\ T # {} => g[T] = f[CHOOSE y \in T : TRUE] + g[T \ {CHOOSE y \in T : TRUE}]
BY DEF AddsUp

\* The order does not matter: any element may be taken first.
LEMMA AnyOrder ==
  ASSUME NEW g, NEW f, NEW S, IsFiniteSet(S), AddsUp(g, f, S),
         \A x \in S : f[x] \in Nat
  PROVE  \A T \in SUBSET S :
           g[T] \in Nat /\ \A x \in T : g[T] = f[x] + g[T \ {x}]
<1> DEFINE C == {T \in SUBSET S :
                   /\ g[T] \in Nat
                   /\ \A x \in T : g[T] = f[x] + g[T \ {x}] /\ g[T \ {x}] \in Nat}
<1>1. ASSUME NEW T \in SUBSET S, \A x \in T : T \ {x} \in C
      PROVE  T \in C
  <2>1. CASE T = {}
    <3>1. g[T] = 0
      BY <2>1, AddsOne
    <3> QED
      BY <2>1, <3>1
  <2>2. CASE T # {}
    <3> DEFINE c == CHOOSE y \in T : TRUE
    <3>1. c \in T
      BY <2>2
    <3>2. g[T] = f[c] + g[T \ {c}]
      BY <2>2, AddsOne
    <3> HIDE DEF c
    <3>3. T \ {c} \in C
      BY <1>1, <3>1
    <3>4. g[T] \in Nat
      BY <3>1, <3>2, <3>3
    <3>5. ASSUME NEW x \in T, x # c PROVE g[T] = f[x] + g[T \ {x}]
      <4> DEFINE a == g[T \ {c}]
                 b == g[T \ {x}]
                 r == g[(T \ {c}) \ {x}]
      <4>1. x \in T \ {c} /\ c \in T \ {x} /\ T \ {x} \in C
        BY <1>1, <3>1, <3>5
      <4>2. a = f[x] + r /\ a \in Nat
        BY <3>3, <4>1
      <4>3. (T \ {x}) \ {c} = (T \ {c}) \ {x}
        OBVIOUS
      <4>4. b = f[c] + r /\ b \in Nat
        BY <4>1, <4>3
      <4>5. f[c] \in Nat /\ f[x] \in Nat
        BY <3>1
      <4>6. r \in Nat
        BY <3>3, <4>1
      <4> HIDE DEF a, b, r
      <4> QED
        BY <3>2, <4>2, <4>4, <4>5, <4>6 DEF a, b
    <3>6. \A x \in T : g[T \ {x}] \in Nat
      BY <1>1
    <3>7. \A x \in T : g[T] = f[x] + g[T \ {x}]
      BY <3>2, <3>5
    <3> QED
      BY <3>4, <3>6, <3>7
  <2> QED
    BY <2>1, <2>2
<1>2. C \in SUBSET (SUBSET S)
  OBVIOUS
<1> HIDE DEF C
<1>3. C = SUBSET S
  BY <1>1, <1>2, EverySubset
<1> QED
  BY <1>3 DEF C

\* Nor do the elements that are not counted.
LEMMA SameSums ==
  ASSUME NEW S, IsFiniteSet(S), NEW R, S \subseteq R, NEW f, NEW e,
         \A x \in S : f[x] = e[x],
         NEW g, AddsUp(g, f, S), NEW h, AddsUp(h, e, R)
  PROVE  g[S] = h[S]
<1> DEFINE C == {T \in SUBSET S : g[T] = h[T]}
<1>1. ASSUME NEW T \in SUBSET S, \A x \in T : T \ {x} \in C
      PROVE  T \in C
  <2> DEFINE c == CHOOSE y \in T : TRUE
  <2>1. T \in SUBSET R
    OBVIOUS
  <2>2. CASE T = {}
    BY <2>1, <2>2, AddsOne
  <2>3. CASE T # {}
    <3>1. c \in T
      BY <2>3
    <3>2. g[T] = f[c] + g[T \ {c}]
      BY <2>3, AddsOne
    <3>3. h[T] = e[c] + h[T \ {c}]
      BY <2>1, <2>3, AddsOne
    <3> HIDE DEF c
    <3>4. g[T \ {c}] = h[T \ {c}] /\ f[c] = e[c]
      BY <1>1, <3>1
    <3> QED
      BY <3>2, <3>3, <3>4
  <2> QED
    BY <2>2, <2>3
<1>2. C \in SUBSET (SUBSET S)
  OBVIOUS
<1> HIDE DEF C
<1>3. C = SUBSET S
  BY <1>1, <1>2, EverySubset
<1> QED
  BY <1>3 DEF C

\* A sum depends on the values at the indices it is taken over, is a number if
\* they are, and grows by each index added.
LEMMA SumOfNone ==
  ASSUME NEW f PROVE SumFunctionOnSet(f, {}) = 0
<1>1. PICK g : AddsUp(g, f, {}) /\ SumFunctionOnSet(f, {}) = g[{}]
  BY SumAddsUp, FS_EmptySet
<1> QED
  BY <1>1, AddsOne

LEMMA SumOfSame ==
  ASSUME NEW S, IsFiniteSet(S), NEW f, NEW e, \A x \in S : f[x] = e[x]
  PROVE  SumFunctionOnSet(f, S) = SumFunctionOnSet(e, S)
<1>1. PICK g : AddsUp(g, f, S) /\ SumFunctionOnSet(f, S) = g[S]
  BY SumAddsUp
<1>2. PICK h : AddsUp(h, e, S) /\ SumFunctionOnSet(e, S) = h[S]
  BY SumAddsUp
<1>3. g[S] = h[S]
  BY <1>1, <1>2, SameSums
<1> QED
  BY <1>1, <1>2, <1>3

LEMMA SumWithOne ==
  ASSUME NEW S, IsFiniteSet(S), NEW x, x \notin S, NEW f,
         \A y \in S \cup {x} : f[y] \in Nat
  PROVE  /\ SumFunctionOnSet(f, S) \in Nat
         /\ SumFunctionOnSet(f, S \cup {x}) = SumFunctionOnSet(f, S) + f[x]
<1> DEFINE R == S \cup {x}
<1>1. IsFiniteSet(R) /\ S \subseteq R /\ x \in R /\ R \ {x} = S
  BY FS_AddElement
<1> HIDE DEF R
<1>2. PICK g : AddsUp(g, f, S) /\ SumFunctionOnSet(f, S) = g[S]
  BY SumAddsUp
<1>3. PICK h : AddsUp(h, f, R) /\ SumFunctionOnSet(f, R) = h[R]
  BY <1>1, SumAddsUp
<1>4. g[S] = h[S]
  BY <1>1, <1>2, <1>3, SameSums
<1>5. \A y \in R : f[y] \in Nat
  BY DEF R
<1>6. h[S] \in Nat /\ h[R] = f[x] + h[S]
  BY <1>1, <1>3, <1>5, AnyOrder
<1> QED
  BY <1>1, <1>2, <1>3, <1>4, <1>5, <1>6 DEF R

-----------------------------------------------------------------------------
(* Types, and one controller *)

USE LimitsAssumption, ValuesAssumption

\* NoRecord, a new record and a demoted one have the type of a record.
LEMMA RecordType ==
  /\ NoRecord \in Record
  /\ NoRecord.role = "observer"
  /\ \A name \in Names : /\ NewRecord(name) \in Record
                         /\ NewRecord(name).name = name
                         /\ NewRecord(name).role = "observer"
  /\ \A r \in Record : /\ Demoted(r) \in Record
                       /\ Demoted(r).name = r.name
                       /\ Demoted(r).role = "observer"
BY DEF NoRecord, NewRecord, Demoted, Record, Roles

\* Requests, grants and inputs leave a record of the same name, and only a
\* grant changes the role.
LEMMA RecordUpdates ==
  ASSUME NEW r \in Record
  PROVE  /\ Requesting(r) \in Record /\ Idle(r) \in Record
         /\ InControl(r) \in Record /\ Accepted(r) \in Record
         /\ Typing(r) \in Record
         /\ Requesting(r).role = r.role /\ Requesting(r).name = r.name
         /\ Idle(r).role = r.role /\ Idle(r).name = r.name
         /\ Accepted(r).role = r.role /\ Accepted(r).name = r.name
         /\ Typing(r).role = r.role /\ Typing(r).name = r.name
         /\ InControl(r).role = "controller" /\ InControl(r).name = r.name
<1>1. r.lastInput + 1 \in Nat
  BY DEF Record
<1>2. Accepted(r) \in Record
  BY <1>1 DEF Record, Accepted
<1>3. /\ Requesting(r) \in Record /\ Idle(r) \in Record /\ Typing(r) \in Record
      /\ InControl(r) \in Record
  BY DEF Record, Roles, Requesting, Idle, Typing, InControl
<1>4. QED
  BY <1>2, <1>3 DEF Record, Requesting, Idle, Typing, InControl, Accepted

\* The messages a session sends are messages.
LEMMA MessageType ==
  /\ \A p \in ParticipantIds :
       /\ ParticipantJoined(p) \in OutboundMessage
       /\ ParticipantLeft(p) \in OutboundMessage
       /\ ControlRequested(p) \in OutboundMessage
       /\ \A r \in Roles : RoleChanged(p, r) \in OutboundMessage
  /\ \A f \in DataFrame : Data(f) \in OutboundMessage
  /\ Closed \in OutboundMessage
BY DEF OutboundMessage, ParticipantJoined, ParticipantLeft, ControlRequested,
       RoleChanged, Data, Closed

\* Sending leaves queues of messages.
LEMMA TrySendType ==
  ASSUME NEW ps, NEW q \in [ParticipantIds -> Seq(OutboundMessage)],
         NEW m \in OutboundMessage
  PROVE  TrySend(ps, q, m) \in [ParticipantIds -> Seq(OutboundMessage)]
BY DEF TrySend

\* What every broadcast needs of its arguments and gives the session: types,
\* and one story about who is in control.
Telling(ps, r, c) ==
  /\ ps \in SUBSET ParticipantIds
  /\ r \in [ParticipantIds -> Record]
  /\ \A p \in ps : r[p].name \in Names
  /\ c \in ParticipantIds \cup {NoOne}
  /\ {p \in ps : r[p].role = "controller"} = {c} \ {NoOne}

\* A broadcast keeps types and the story of who is in control: the
\* controller, when it lags, goes with its role.
LEMMA BroadcastTells ==
  ASSUME NEW ps, NEW r, NEW c, Telling(ps, r, c),
         NEW q \in [ParticipantIds -> Seq(OutboundMessage)],
         NEW m \in OutboundMessage,
         Broadcast(ps, r, c, q, m)
  PROVE  /\ Telling(participants', record', controllerId')
         /\ outbound' \in [ParticipantIds -> Seq(OutboundMessage)]
<1>1. outbound' \in [ParticipantIds -> Seq(OutboundMessage)]
  BY TrySendType DEF Broadcast
<1>2. /\ participants' \in SUBSET ParticipantIds
      /\ record' \in [ParticipantIds -> Record]
      /\ controllerId' \in ParticipantIds \cup {NoOne}
      /\ \A p \in participants' : record'[p] = r[p] /\ p \in ps
  BY RecordType DEF Telling, Broadcast, WithoutLagged, Lagged
<1>3. {p \in participants' : record'[p].role = "controller"}
        = {controllerId'} \ {NoOne}
  <2>1. {p \in participants' : record'[p].role = "controller"}
          = {p \in ps : r[p].role = "controller"} \ Lagged(ps, q)
    BY <1>2 DEF Broadcast
  <2>2. QED
    BY <2>1 DEF Telling, Broadcast, WithoutLagged
<1>4. QED
  BY <1>1, <1>2, <1>3 DEF Telling

-----------------------------------------------------------------------------
(* Typing and the one controller, together: an action that changes roles   *)
(* is well typed because they agree with controllerId, and conversely.     *)

Told == Telling(participants, record, controllerId)

SessionType ==
  /\ closed \in BOOLEAN /\ expired \in BOOLEAN /\ grid \in Grids
  /\ usedNonces \in SUBSET Nonces /\ banned \in SUBSET Names

StreamType ==
  /\ nextSequence \in Nat /\ gridLog \in Seq(Grids)
  /\ Len(gridLog) = nextSequence + 1
  /\ snapshot \in SnapshotFrame \cup {NoSnapshot}
  /\ replay \in Seq(ReplayFrame)

QueueType == outbound \in [ParticipantIds -> Seq(OutboundMessage)]

ViewType == [sequence : Nat, grid : Grids, role : Roles]

ThreadType ==
  /\ phase \in [ParticipantIds -> Phases]
  /\ welcome \in [ParticipantIds -> Seq(DataFrame)]
  /\ view \in [ParticipantIds -> ViewType]
  /\ nonceOf \in [ParticipantIds -> Nonces \cup {Fresh}]

\* A participant has joined, so its id is not one a later join generates.
Seated == \A p \in participants : phase[p] # "absent"

Inv == Told /\ SessionType /\ StreamType /\ QueueType /\ ThreadType /\ Seated

\* The invariant is the two properties the theorems are about.
LEMMA InvIsTypeAndControl == Inv <=> TypeOK /\ ControllerCoherent
BY DEF Inv, Told, Telling, SessionType, StreamType, QueueType, ThreadType,
       ViewType, Seated, TypeOK, ControllerCoherent

\* A new session has no participants and no controller.
LEMMA InitInv == Init => Inv
<1> SUFFICES ASSUME Init PROVE Inv
  OBVIOUS
<1>1. Told
  BY RecordType DEF Init, Told, Telling
<1>2. SessionType
  BY DEF Init, SessionType
<1>2b. QueueType
  BY DEF Init, QueueType
<1>2a. StreamType
  <2>1. gridLog \in Seq(Grids) /\ Len(gridLog) = 1
    BY DEF Init
  <2>2. replay \in Seq(ReplayFrame)
    BY DEF Init
  <2>3. QED
    BY <2>1, <2>2 DEF Init, StreamType
<1>3. ThreadType
  BY DEF Init, ThreadType, ViewType, NoView, Phases, Roles
<1>4. QED
  BY <1>1, <1>2, <1>2a, <1>2b, <1>3 DEF Inv, Init, Seated

\* Any part of a replay window is one.
LEMMA SubWindow ==
  ASSUME NEW S, NEW s \in Seq(S), NEW m \in Nat \ {0}, NEW n \in 0..Len(s)
  PROVE  /\ SubSeq(s, m, n) \in Seq(S)
         /\ Len(SubSeq(s, m, n)) = IF m <= n THEN n - m + 1 ELSE 0
         /\ \A i \in 1..Len(SubSeq(s, m, n)) : SubSeq(s, m, n)[i] = s[m + i - 1]
BY SubSeqProperties

\* Frames of a stream are frames a guest can be sent.
LEMMA FrameType ==
  /\ \A n \in Nat : \A g \in Grids :
       /\ Resize(n, g) \in ReplayFrame
       /\ Snapshot(n, g) \in SnapshotFrame
       /\ Snapshot(n, g).sequence = n
  /\ \A n \in Nat : \A k \in PayloadSizes : Output(n, k) \in ReplayFrame
  /\ \A n \in Nat : Exit(n) \in DataFrame
  /\ ReplayFrame \subseteq DataFrame
  /\ SnapshotFrame \subseteq DataFrame
  /\ \A f \in SnapshotFrame : f.sequence \in Nat
  /\ \A f \in ReplayFrame : f.sequence \in Nat
BY DEF Resize, Snapshot, Output, Exit, ReplayFrame, SnapshotFrame, DataFrame

\* What a guest knows stays well typed as messages arrive.
LEMMA ShownType ==
  ASSUME NEW p \in ParticipantIds, NEW v \in ViewType,
         NEW m \in OutboundMessage
  PROVE  Shown(p, v, m) \in ViewType
<1>1. CASE m.type = "data"
  <2>1. m.frame \in DataFrame
    BY <1>1 DEF OutboundMessage, Closed
  <2>2. CASE m.frame.kind \in {"resize", "snapshot"}
    BY <1>1, <2>1, <2>2
       DEF DataFrame, ReplayFrame, SnapshotFrame, Shown, ViewType
  <2>3. CASE m.frame.kind \in {"output", "exit"}
    BY <1>1, <2>1, <2>3
       DEF DataFrame, ReplayFrame, SnapshotFrame, Shown, ViewType
  <2>4. QED
    BY <2>1, <2>2, <2>3 DEF DataFrame, ReplayFrame, SnapshotFrame
<1>2. CASE m.type = "role_changed"
  BY <1>2 DEF OutboundMessage, Shown, ViewType, Closed
<1>3. CASE m.type \notin {"data", "role_changed"}
  BY <1>3 DEF Shown
<1>4. QED
  BY <1>1, <1>2, <1>3

\* The window after pushing or dropping frames.
LEMMA DropType ==
  ASSUME NEW S, NEW s \in Seq(S), NEW n \in Nat
  PROVE  /\ DropFirst(s, n) \in Seq(S)
         /\ Len(DropFirst(s, n)) = IF n < Len(s) THEN Len(s) - n ELSE 0
         /\ \A i \in 1..Len(DropFirst(s, n)) : DropFirst(s, n)[i] = s[n + i]
BY SubSeqProperties DEF DropFirst

\* A count of positions of a sequence.
LEMMA CountPositions ==
  ASSUME NEW n \in Nat, NEW T \in SUBSET (1..n)
  PROVE  /\ IsFiniteSet(T)
         /\ Cardinality(T) \in 0..n
<1>1. IsFiniteSet(1..n) /\ Cardinality(1..n) = n
  BY FS_Interval
<1>2. IsFiniteSet(T) /\ Cardinality(T) <= n
  BY <1>1, FS_Subset
<1>3. QED
  BY <1>2, FS_CardinalityType

\* How many frames overflow the window is a count of its frames.
LEMMA OverflowType ==
  ASSUME NEW S, NEW s \in Seq(S), NEW b
  PROVE  Overflow(s, b) \in 0..Len(s)
<1> DEFINE T == {k \in 1..Len(s) :
                  \/ Len(s) - (k - 1) > MaxReplayFrames
                  \/ SaturatingSub(b, BytesOfFirst(s, k - 1)) > MaxReplayBytes}
<1>1. T \in SUBSET (1..Len(s))
  OBVIOUS
<1>2. Len(s) \in Nat
  OBVIOUS
<1> HIDE DEF T
<1>3. Cardinality(T) \in 0..Len(s)
  BY <1>1, <1>2, CountPositions
<1>4. QED
  BY <1>3 DEF T, Overflow

\* How many frames a snapshot covers is a count of its frames.
LEMMA CoveredType ==
  ASSUME replay \in Seq(ReplayFrame), NEW n
  PROVE  Covered(n) \in 0..Len(replay)
<1>1. {i \in 1..Len(replay) : replay[i].sequence <= n} \in SUBSET (1..Len(replay))
  OBVIOUS
<1>2. QED
  BY <1>1, CountPositions DEF Covered

\* Pushing a frame leaves a replay window.
LEMMA PushType ==
  ASSUME replay \in Seq(ReplayFrame), NEW f \in ReplayFrame, PushReplay(f)
  PROVE  replay' \in Seq(ReplayFrame)
<1> DEFINE s == Append(replay, f)
           n == Overflow(s, replayBytes + PayloadLen(f))
<1>1. s \in Seq(ReplayFrame)
  OBVIOUS
<1>2. replay' = DropFirst(s, n)
  BY DEF PushReplay
<1> HIDE DEF s
<1>3. n \in 0..Len(s) /\ Len(s) \in Nat
  BY <1>1, OverflowType
<1> HIDE DEF n
<1>4. QED
  BY <1>1, <1>2, <1>3, DropType

-----------------------------------------------------------------------------
(* One lemma per group of actions: those that only talk to the             *)
(* participants, those that feed the stream, and the connection threads.   *)

\* What a participant is sent on joining is a sequence of frames.
LEMMA ReplayForJoinType ==
  ASSUME StreamType, NEW after \in Nat \cup {Fresh}, ReplayAvailable(after)
  PROVE  ReplayForJoin(after) \in Seq(DataFrame)
<1>1. \A a \in Int : Continuous(a) => Newer(a) \in Seq(ReplayFrame)
  <2> SUFFICES ASSUME NEW a \in Int, Continuous(a)
               PROVE  Newer(a) \in Seq(ReplayFrame)
    OBVIOUS
  <2>1. replay \in Seq(ReplayFrame) /\ nextSequence \in Nat
    BY DEF StreamType
  <2>2. Missing(a) \in 0..Len(replay)
    BY DEF Continuous
  <2>3. QED
    BY <2>1, <2>2, SubWindow DEF Newer
<1>2. Seq(ReplayFrame) \subseteq Seq(DataFrame)
  BY FrameType
<1>3. CASE after # Fresh /\ Continuous(after)
  BY <1>1, <1>2, <1>3 DEF ReplayForJoin
<1>4. CASE ~(after # Fresh /\ Continuous(after)) /\ snapshot = NoSnapshot
  <2>1. Continuous(0)
    BY <1>4 DEF ReplayAvailable, SnapshotUsable
  <2>2. QED
    BY <2>1, <1>1, <1>2, <1>4 DEF ReplayForJoin
<1>5. CASE ~(after # Fresh /\ Continuous(after)) /\ snapshot # NoSnapshot
  <2>1. snapshot \in SnapshotFrame /\ Continuous(snapshot.sequence)
    BY <1>5 DEF ReplayAvailable, SnapshotUsable, StreamType
  <2>2. <<snapshot>> \in Seq(DataFrame)
    BY <2>1, FrameType
  <2>3. Newer(snapshot.sequence) \in Seq(DataFrame)
    BY <2>1, <1>1, <1>2, FrameType
  <2>4. QED
    BY <2>2, <2>3, <1>5 DEF ReplayForJoin
<1>6. QED
  BY <1>3, <1>4, <1>5

\* A participant joins as an observer, which leaves control as it is.
LEMMA JoinInv ==
  ASSUME Inv, NEW p \in ParticipantIds, NEW name \in Names,
         NEW nonce \in Nonces, NEW after \in Nat \cup {Fresh},
         Join(p, name, nonce, after)
  PROVE  Inv'
<1> USE DEF Inv
<1>1. Told'
  <2> DEFINE ps == participants \ Lagged(participants, outbound)
  <2>1. /\ participants' = ps \cup {p}
        /\ record' = [r \in ParticipantIds |->
             IF r = p THEN NewRecord(name)
             ELSE IF r \in ps THEN record[r] ELSE NoRecord]
        /\ controllerId' = WithoutLagged(controllerId, participants, outbound)
    BY DEF Join
  <2>0. phase[p] = "absent"
    BY DEF Join
  <2>3. /\ participants' \in SUBSET ParticipantIds
        /\ record' \in [ParticipantIds -> Record]
        /\ controllerId' \in ParticipantIds \cup {NoOne}
        /\ record'[p].role = "observer"
        /\ \A r \in participants' : record'[r].name \in Names
    BY <2>1, RecordType DEF Told, Telling, WithoutLagged
  <2>4. \A r \in ps : record'[r] = IF r = p THEN NewRecord(name) ELSE record[r]
    BY <2>1 DEF Told, Telling
  <2>5. {r \in participants' : record'[r].role = "controller"}
          = {r \in participants : record[r].role = "controller"}
              \ (Lagged(participants, outbound) \cup {p})
    BY <2>1, <2>3, <2>4 DEF Told, Telling
  <2>6. {r \in participants' : record'[r].role = "controller"}
          = {controllerId'} \ {NoOne}
    <3>1. {r \in participants' : record'[r].role = "controller"}
            = ({controllerId} \ {NoOne}) \ (Lagged(participants, outbound) \cup {p})
      BY <2>5 DEF Told, Telling
    <3>2. CASE controllerId = p
      BY <3>1, <3>2, <2>0 DEF Told, Telling, Seated
    <3>3. CASE controllerId # p
      BY <3>1, <3>3, <2>1 DEF WithoutLagged
    <3>4. QED
      BY <3>2, <3>3
  <2>7. QED
    BY <2>3, <2>6 DEF Told, Telling
<1>2. SessionType' /\ StreamType'
  BY DEF Join, SessionType, StreamType, stream, Spend
<1>3. QueueType'
  BY MessageType, TrySendType DEF Join, QueueType
<1>4. ThreadType'
  BY ReplayForJoinType DEF Join, ThreadType, ViewType, Phases
<1>5. Seated'
  BY DEF Join, Seated, ThreadType, Phases
<1>6. QED
  BY <1>1, <1>2, <1>3, <1>4, <1>5

\* Telling holds of the arguments each action broadcasts with, so it holds
\* of what the broadcast leaves.
LEMMA BroadcastInv ==
  ASSUME QueueType, NEW ps, NEW r, NEW c, Telling(ps, r, c),
         NEW q \in [ParticipantIds -> Seq(OutboundMessage)],
         NEW m \in OutboundMessage, Broadcast(ps, r, c, q, m)
  PROVE  Told' /\ QueueType' /\ participants' \subseteq ps
<1>1. Telling(participants', record', controllerId') /\ QueueType'
  BY BroadcastTells DEF QueueType
<1>2. QED
  BY <1>1 DEF Told, Broadcast

\* Taking control from p, whether or not p had it, tells one story.
LEMMA WithoutControl ==
  ASSUME Told, NEW p \in participants
  PROVE  /\ Telling(participants, [record EXCEPT ![p] = Demoted(@)],
                    ControllerWithout(p))
         /\ Telling(participants \ {p}, record, ControllerWithout(p))
BY RecordType DEF Told, Telling, ControllerWithout

\* set_controller: the grant may itself drop the participant it is for.
LEMMA SetControllerInv ==
  ASSUME Inv, NEW p \in ParticipantIds, SetController(p)
  PROVE  Inv'
<1> USE DEF Inv
<1> DEFINE demotes == controllerId \notin {NoOne, p}
           lag == Lagged(participants, outbound)
           ps == IF demotes THEN participants \ lag ELSE participants
           c  == IF demotes THEN WithoutLagged(p, participants, outbound) ELSE p
           q  == IF demotes
                 THEN TrySend(participants, outbound,
                              RoleChanged(controllerId, "observer"))
                 ELSE outbound
           r  == [x \in ParticipantIds |->
                    IF x = p THEN InControl(record[x])
                    ELSE IF demotes /\ x = controllerId THEN Demoted(record[x])
                    ELSE record[x]]
<1>1. p \in participants /\ Broadcast(ps, r, c, q, RoleChanged(p, "controller"))
  BY DEF SetController
<1>2. UNCHANGED <<session, stream, threads, nonceOf>>
  BY DEF SetController
<1>3. q \in [ParticipantIds -> Seq(OutboundMessage)]
  BY MessageType, TrySendType DEF Told, Telling, QueueType, Roles
<1>4. /\ ps \subseteq participants
      /\ r \in [ParticipantIds -> Record]
      /\ \A x \in participants : r[x].name = record[x].name
  <2>1. \A x \in ParticipantIds : record[x] \in Record
    BY DEF Told, Telling
  <2>2. \A x \in ParticipantIds : r[x] \in Record /\ r[x].name = record[x].name
    <3> TAKE x \in ParticipantIds
    <3>1. record[x] \in Record
      BY <2>1
    <3>2. QED
      BY <3>1, RecordType, RecordUpdates
  <2>3. QED
    BY <2>2 DEF Told, Telling
<1>5. c \in ParticipantIds \cup {NoOne}
  BY DEF WithoutLagged
<1>6. {x \in ps : r[x].role = "controller"} = {c} \ {NoOne}
  <2>1. \A x \in participants : r[x].role = "controller" <=> x = p
    <3> TAKE x \in participants
    <3>1. record[x] \in Record /\ x \in ParticipantIds
      BY DEF Told, Telling
    <3>2. CASE x = p
      BY <3>1, <3>2, RecordUpdates
    <3>3. CASE x # p /\ x = controllerId
      BY <3>1, <3>3, RecordType DEF Told, Telling
    <3>4. CASE x # p /\ x # controllerId
      BY <3>1, <3>4 DEF Told, Telling
    <3>5. QED
      BY <3>2, <3>3, <3>4
  <2>2. {x \in ps : r[x].role = "controller"} = ps \cap {p}
    BY <2>1, <1>4
  <2>3. ps \cap {p} = {c} \ {NoOne}
    BY <1>1 DEF WithoutLagged, Told, Telling
  <2>4. QED
    BY <2>2, <2>3
<1>7. Telling(ps, r, c)
  BY <1>4, <1>5, <1>6 DEF Told, Telling
<1>8. RoleChanged(p, "controller") \in OutboundMessage
  BY MessageType DEF Roles
<1> HIDE DEF ps, c, q, r
<1>9. Told' /\ QueueType' /\ participants' \subseteq ps
  BY <1>1, <1>3, <1>7, <1>8, BroadcastInv
<1>10. QED
  BY <1>2, <1>4, <1>9
     DEF session, stream, threads, SessionType, StreamType, ThreadType, Seated

\* An action that leaves all but the membership and the queues alone, and
\* leaves those typed and coherent, preserves the invariant.
LEMMA MembersOnly ==
  ASSUME Inv, Told', QueueType', participants' \subseteq participants,
         UNCHANGED <<session, stream, threads, nonceOf>>
  PROVE  Inv'
BY DEF Inv, session, stream, threads, SessionType, StreamType, ThreadType, Seated

\* Requests, releases, demotions and removals.
LEMMA ControlInv ==
  ASSUME Inv, NEW p \in ParticipantIds,
         \/ RequestControl(p) \/ ReleaseControl(p)
         \/ SetObserver(p) \/ RemoveParticipant(p)
  PROVE  Inv'
<1>0. Told /\ QueueType /\ outbound \in [ParticipantIds -> Seq(OutboundMessage)]
  BY DEF Inv, QueueType
<1>1. UNCHANGED <<session, stream, threads, nonceOf>>
  BY DEF RequestControl, ReleaseControl, SetObserver, RemoveParticipant
<1>2. CASE RequestControl(p)
  <2>1. Telling(participants, [record EXCEPT ![p] = Requesting(@)], controllerId)
    BY <1>0, RecordUpdates DEF Told, Telling
  <2>2. Broadcast(participants, [record EXCEPT ![p] = Requesting(@)],
                  controllerId, outbound, ControlRequested(p))
    BY <1>2 DEF RequestControl
  <2>3. Told' /\ QueueType' /\ participants' \subseteq participants
    BY <1>0, <2>1, <2>2, MessageType, BroadcastInv
  <2>4. QED
    BY <1>1, <2>3, MembersOnly
<1>3. CASE ReleaseControl(p) \/ SetObserver(p)
  <2>1. /\ p \in participants
        /\ Broadcast(participants, [record EXCEPT ![p] = Demoted(@)],
                     ControllerWithout(p), outbound, RoleChanged(p, "observer"))
    BY <1>3 DEF ReleaseControl, SetObserver, ControllerWithout
  <2>2. QED
    BY <1>0, <1>1, <2>1, MessageType, WithoutControl, BroadcastInv, MembersOnly
       DEF Roles
<1>4. CASE RemoveParticipant(p)
  <2>1. /\ p \in participants
        /\ Broadcast(participants \ {p}, record, ControllerWithout(p),
                     TrySend({p}, outbound, Closed), ParticipantLeft(p))
    BY <1>4 DEF RemoveParticipant, Expel
  <2>2. TrySend({p}, outbound, Closed) \in [ParticipantIds -> Seq(OutboundMessage)]
    BY <1>0, MessageType, TrySendType
  <2>3. Told' /\ QueueType' /\ participants' \subseteq participants \ {p}
    BY <1>0, <2>1, <2>2, MessageType, WithoutControl, BroadcastInv
  <2>4. QED
    BY <1>1, <2>3, MembersOnly
<1>5. QED
  BY <1>2, <1>3, <1>4

\* A ban takes control from the participant it removes.
LEMMA BanParticipantInv ==
  ASSUME Inv, NEW p \in ParticipantIds, BanParticipant(p)
  PROVE  Inv'
<1>0. Told /\ QueueType /\ outbound \in [ParticipantIds -> Seq(OutboundMessage)]
  BY DEF Inv, QueueType
<1>1. /\ p \in participants
      /\ Broadcast(participants \ {p}, record, ControllerWithout(p),
                   TrySend({p}, outbound, Closed), ParticipantLeft(p))
  BY DEF BanParticipant, Expel
<1>2. TrySend({p}, outbound, Closed) \in [ParticipantIds -> Seq(OutboundMessage)]
  BY <1>0, MessageType, TrySendType
<1>3. Told' /\ QueueType' /\ participants' \subseteq participants \ {p}
  BY <1>0, <1>1, <1>2, MessageType, WithoutControl, BroadcastInv
<1>4. banned' \in SUBSET Names
  BY <1>0, <1>1 DEF BanParticipant, Told, Telling, Inv, SessionType
<1>5. QED
  BY <1>3, <1>4 DEF BanParticipant, Inv, stream, threads, SessionType,
     StreamType, ThreadType, Seated

\* Inputs and their fading change no role, name or membership.
LEMMA TypingInv ==
  ASSUME Inv, NEW p \in ParticipantIds,
         (\E b \in BOOLEAN : AuthorizeInput(p, b)) \/ TypingFades(p)
  PROVE  Inv'
<1>1. UNCHANGED <<session, stream, participants, controllerId, outbound, threads,
                  nonceOf>>
  BY DEF AuthorizeInput, TypingFades
<1>2. /\ record' \in [ParticipantIds -> Record]
      /\ \A x \in ParticipantIds : /\ record'[x].role = record[x].role
                                   /\ record'[x].name = record[x].name
  <2>1. record \in [ParticipantIds -> Record]
    BY DEF Inv, Told, Telling
  <2>2. CASE TypingFades(p)
    BY <2>1, <2>2, RecordUpdates DEF TypingFades
  <2>4. CASE \E b \in BOOLEAN : AuthorizeInput(p, b)
    BY <2>1, <2>4, RecordUpdates DEF AuthorizeInput
  <2>5. QED
    BY <2>2, <2>4
<1>3. Told'
  BY <1>1, <1>2 DEF Inv, Told, Telling
<1>4. QED
  BY <1>1, <1>3, MembersOnly DEF QueueType, Inv

-----------------------------------------------------------------------------
(* The stream *)

\* Whatever frame is published, the participants and their queues stay
\* typed, and the log of grids keeps one entry per sequence number.
LEMMA PublishInv ==
  ASSUME Inv, NEW f \in DataFrame, NEW g \in Grids, Publish(f, g),
         replay' \in Seq(ReplayFrame)
  PROVE  Inv'
<1>0. Told /\ QueueType /\ outbound \in [ParticipantIds -> Seq(OutboundMessage)]
  BY DEF Inv, QueueType
<1>1. Telling(participants, record, controllerId)
  BY <1>0 DEF Told
<1>2. Broadcast(participants, record, controllerId, outbound, Data(f))
  BY DEF Publish
<1>3. Told' /\ QueueType' /\ participants' \subseteq participants
  BY <1>0, <1>1, <1>2, MessageType, BroadcastInv
<1>4. StreamType'
  BY DEF Inv, StreamType, Publish
<1>5. SessionType' /\ ThreadType' /\ Seated'
  BY <1>3 DEF Inv, Publish, SessionType, ThreadType, Seated, threads
<1>6. QED
  BY <1>3, <1>4, <1>5 DEF Inv

\* Output, resizes and the terminal's exit preserve the invariant.
LEMMA StreamInv ==
  ASSUME Inv,
         \/ \E k \in PayloadSizes : PublishOutput(k)
         \/ \E g \in Grids : PublishResize(g)
         \/ PublishTerminalExit
  PROVE  Inv'
<1>0. /\ nextSequence + 1 \in Nat /\ grid \in Grids /\ replay \in Seq(ReplayFrame)
  BY DEF Inv, StreamType, SessionType
<1>1. ASSUME NEW k \in PayloadSizes, PublishOutput(k) PROVE Inv'
  <2>1. Output(nextSequence + 1, k) \in ReplayFrame \cap DataFrame
    BY <1>0, FrameType
  <2>2. replay' \in Seq(ReplayFrame)
    BY <1>0, <1>1, <2>1, PushType DEF PublishOutput
  <2>3. QED
    BY <1>0, <1>1, <2>1, <2>2, PublishInv DEF PublishOutput
<1>2. ASSUME NEW g \in Grids, PublishResize(g) PROVE Inv'
  <2>1. Resize(nextSequence + 1, g) \in ReplayFrame \cap DataFrame
    BY <1>0, FrameType
  <2>2. replay' \in Seq(ReplayFrame)
    BY <1>0, <1>2, <2>1, PushType DEF PublishResize
  <2>3. QED
    BY <1>0, <1>2, <2>1, <2>2, PublishInv DEF PublishResize
<1>3. ASSUME PublishTerminalExit PROVE Inv'
  <2>1. Exit(nextSequence + 1) \in DataFrame
    BY <1>0, FrameType
  <2>2. QED
    BY <1>0, <1>3, <2>1, PublishInv DEF PublishTerminalExit
<1>4. QED
  BY <1>1, <1>2, <1>3

\* A snapshot is stored with a grid and a sequence the session has.
LEMMA SetSnapshotInv ==
  ASSUME Inv, NEW n \in Nat, NEW g \in Grids, SetSnapshot(n, g)
  PROVE  Inv'
<1>1. replay' \in Seq(ReplayFrame)
  <2>1. replay \in Seq(ReplayFrame) /\ replay' = DropFirst(replay, Covered(n))
    BY DEF Inv, StreamType, SetSnapshot
  <2>2. Covered(n) \in Nat
    BY <2>1, CoveredType
  <2>3. QED
    BY <2>1, <2>2, DropType
<1>2. snapshot' \in SnapshotFrame \cup {NoSnapshot}
  BY FrameType DEF SetSnapshot
<1>3. gridLog' \in Seq(Grids) /\ Len(gridLog') = Len(gridLog)
  BY DEF Inv, StreamType, SetSnapshot
<1>4. StreamType'
  BY <1>1, <1>2, <1>3 DEF Inv, StreamType, SetSnapshot
<1>5. grid' \in Grids
  BY DEF Inv, SessionType, SetSnapshot, GridAfterSnapshot
<1>6. SessionType' /\ Told' /\ QueueType' /\ ThreadType' /\ Seated'
  BY <1>5 DEF Inv, SetSnapshot, SessionType, Told, Telling, QueueType,
              ThreadType, Seated, members, threads
<1>7. QED
  BY <1>4, <1>6 DEF Inv

\* A closed session has neither participants nor a controller.
LEMMA CloseInv ==
  ASSUME Inv, Close
  PROVE  Inv'
<1>1. Told'
  BY RecordType DEF Close, Told, Telling
<1>2. QueueType'
  BY MessageType, TrySendType DEF Close, Inv, QueueType
<1>3. replay' \in Seq(ReplayFrame)
  BY DEF Close
<1>4. SessionType' /\ StreamType' /\ ThreadType' /\ Seated'
  BY <1>3 DEF Close, Inv, SessionType, StreamType, ThreadType, Seated, threads
<1>5. QED
  BY <1>1, <1>2, <1>4 DEF Inv

\* The end of the invitation changes nothing but the invitation.
LEMMA ExpireInv ==
  ASSUME Inv, Expire
  PROVE  Inv'
BY DEF Expire, Inv, SessionType, StreamType, Told, Telling, QueueType,
       ThreadType, Seated, stream, members, threads

-----------------------------------------------------------------------------
(* The connection threads *)

\* The welcome of a participant: its dimensions and its replay.
LEMMA WelcomeInv ==
  ASSUME Inv, NEW p \in ParticipantIds,
         SendJoined(p) \/ SendReplay(p) \/ WelcomeFails(p)
  PROVE  Inv'
<1>1. SessionType' /\ StreamType' /\ Told'
  BY DEF SendJoined, SendReplay, WelcomeFails, session, stream, members,
         Inv, SessionType, StreamType, Told
<1>2. QueueType'
  <2>1. CASE SendJoined(p) \/ SendReplay(p)
    BY <2>1 DEF SendJoined, SendReplay, members, Inv, QueueType
  <2>2. CASE WelcomeFails(p)
    BY <2>2 DEF WelcomeFails, Inv, QueueType
  <2>3. QED
    BY <2>1, <2>2
<1>3. nonceOf' = nonceOf /\ participants' = participants
  BY DEF SendJoined, SendReplay, WelcomeFails, members
<1>4. \E x \in Phases \ {"absent"} : phase' \in {phase, [phase EXCEPT ![p] = x]}
  <2>1. CASE SendJoined(p)
    BY <2>1 DEF SendJoined, Phases
  <2>2. CASE SendReplay(p)
    BY <2>2 DEF SendReplay, Phases
  <2>3. CASE WelcomeFails(p)
    BY <2>3 DEF WelcomeFails, Phases
  <2>4. QED
    BY <2>1, <2>2, <2>3
<1>4a. phase' \in [ParticipantIds -> Phases] /\ Seated'
  <2>1. phase \in [ParticipantIds -> Phases] /\ participants \subseteq ParticipantIds
    BY DEF Inv, ThreadType, Told, Telling
  <2>2. PICK x \in Phases \ {"absent"} :
          phase' = phase \/ phase' = [phase EXCEPT ![p] = x]
    BY <1>4
  <2>3. phase' \in [ParticipantIds -> Phases]
    BY <2>1, <2>2
  <2>4. \A y \in ParticipantIds : phase'[y] = phase[y] \/ phase'[y] = x
    BY <2>1, <2>2
  <2>5. QED
    BY <1>3, <2>1, <2>3, <2>4 DEF Inv, Seated
<1>4b. welcome' \in [ParticipantIds -> Seq(DataFrame)]
  <2>1. welcome \in [ParticipantIds -> Seq(DataFrame)]
    BY DEF Inv, ThreadType
  <2>2. CASE SendReplay(p) /\ welcome[p] # <<>>
    <3>1. Tail(welcome[p]) \in Seq(DataFrame)
      BY <2>1, <2>2
    <3>2. QED
      BY <2>1, <2>2, <3>1 DEF SendReplay
  <2>3. CASE SendJoined(p) \/ (SendReplay(p) /\ welcome[p] = <<>>)
    BY <2>1, <2>3 DEF SendJoined, SendReplay
  <2>4. CASE WelcomeFails(p)
    BY <2>1, <2>4 DEF WelcomeFails
  <2>5. QED
    BY <2>2, <2>3, <2>4
<1>5. view' \in [ParticipantIds -> ViewType]
  <2>0. view \in [ParticipantIds -> ViewType]
    BY DEF Inv, ThreadType
  <2>1. CASE SendJoined(p)
    BY <2>0, <2>1 DEF SendJoined, Inv, SessionType, ViewType
  <2>2. CASE SendReplay(p) /\ welcome[p] # <<>>
    <3>1. Data(Head(welcome[p])) \in OutboundMessage
      BY <2>2, MessageType DEF Inv, ThreadType
    <3>2. Shown(p, view[p], Data(Head(welcome[p]))) \in ViewType
      BY <2>0, <3>1, ShownType
    <3>3. QED
      BY <2>0, <2>2, <3>2 DEF SendReplay
  <2>3. CASE SendReplay(p) /\ welcome[p] = <<>>
    BY <2>0, <2>3 DEF SendReplay
  <2>4. CASE WelcomeFails(p)
    BY <2>0, <2>4 DEF WelcomeFails, NoView, ViewType, Roles
  <2>5. QED
    BY <2>1, <2>2, <2>3, <2>4
<1>6. QED
  BY <1>1, <1>2, <1>3, <1>4a, <1>4b, <1>5 DEF Inv, ThreadType

\* A thread that forwards a message preserves the invariant.
LEMMA ForwardInv ==
  ASSUME Inv, NEW p \in ParticipantIds, Forward(p)
  PROVE  Inv'
<1>1. Head(outbound[p]) \in OutboundMessage
  BY DEF Forward, Inv, QueueType
<1>2. view' \in [ParticipantIds -> ViewType]
  BY <1>1, ShownType DEF Forward, Inv, ThreadType
<1>3. QueueType'
  BY DEF Forward, Inv, QueueType
<1>4. QED
  BY <1>2, <1>3 DEF Forward, Inv, Told, SessionType, StreamType, ThreadType,
                    Seated, session, stream

\* A thread ends with the participant's leave.
LEMMA LeaveInv ==
  ASSUME Inv, NEW p \in ParticipantIds, LeaveSession(p)
  PROVE  Inv'
<1> DEFINE q == [outbound EXCEPT ![p] = <<>>]
<1>1. q \in [ParticipantIds -> Seq(OutboundMessage)]
  BY DEF Inv, QueueType
<1>2. /\ phase' \in [ParticipantIds -> Phases]
      /\ view' \in [ParticipantIds -> ViewType]
      /\ phase' = [phase EXCEPT ![p] = "dropped"]
  BY DEF LeaveSession, Inv, ThreadType, Phases, ViewType, NoView, Roles
<1>3. Told' /\ QueueType' /\ participants' \subseteq participants
  <2>1. CASE p \in participants
    <3>1. Broadcast(participants \ {p}, record, ControllerWithout(p), q,
                    ParticipantLeft(p))
      BY <2>1 DEF LeaveSession
    <3>2. Told /\ QueueType
      BY DEF Inv
    <3>3. Telling(participants \ {p}, record, ControllerWithout(p))
      BY <2>1, <3>2, WithoutControl
    <3>4. Told' /\ QueueType' /\ participants' \subseteq participants \ {p}
      BY <1>1, <3>1, <3>2, <3>3, MessageType, BroadcastInv
    <3>5. QED
      BY <3>4
  <2>2. CASE p \notin participants
    BY <1>1, <2>2 DEF LeaveSession, Inv, Told, QueueType
  <2>3. QED
    BY <2>1, <2>2
<1>4. SessionType' /\ StreamType' /\ ThreadType'
  BY <1>2 DEF LeaveSession, Inv, SessionType, StreamType, ThreadType,
              session, stream
<1>5. Seated'
  BY <1>2, <1>3 DEF Inv, Seated, ThreadType
<1>6. QED
  BY <1>3, <1>4, <1>5 DEF Inv

-----------------------------------------------------------------------------
\* A step that changes nothing preserves the invariant.
LEMMA StutterInv ==
  ASSUME Inv, UNCHANGED vars
  PROVE  Inv'
BY DEF vars, session, stream, members, threads, Inv, SessionType, StreamType,
       Told, Telling, QueueType, ThreadType, Seated

\* Every step preserves the invariant.
LEMMA StepInv ==
  ASSUME Inv, [Next]_vars
  PROVE  Inv'
<1>1. ASSUME NEW p \in ParticipantIds, GuestAction(p) PROVE Inv'
  <2>1. ASSUME NEW name \in Names, NEW nonce \in Nonces,
               NEW after \in {Fresh} \cup 0..MaxSequence,
               Join(p, name, nonce, after)
        PROVE  Inv'
    <3>1. after \in Nat \cup {Fresh}
      OBVIOUS
    <3>2. QED
      BY <2>1, <3>1, JoinInv
  <2>2. QED
    BY <1>1, <2>1, ControlInv, TypingInv, WelcomeInv, LeaveInv
       DEF GuestAction, SocketEnds
<1>2. ASSUME NEW p \in ParticipantIds, HostAction(p) PROVE Inv'
  BY <1>2, SetControllerInv, ControlInv, BanParticipantInv, TypingInv
     DEF HostAction
<1>3. ASSUME NEW p \in ParticipantIds, ThreadStep(p) PROVE Inv'
  BY <1>3, WelcomeInv, ForwardInv, LeaveInv DEF ThreadStep, Finish
<1>4. CASE TerminalAction
  <2>1. 0..MaxSequence \subseteq Nat
    OBVIOUS
  <2>2. QED
    BY <1>4, <2>1, StreamInv, SetSnapshotInv, ExpireInv, CloseInv
       DEF TerminalAction
<1>5. CASE UNCHANGED vars
  BY <1>5, StutterInv
<1>6. QED
  BY <1>1, <1>2, <1>3, <1>4, <1>5 DEF Next

\* The invariant holds in every reachable state.
THEOREM Invariance == Spec => []Inv
<1>1. Init => Inv
  BY InitInv
<1>2. Inv /\ [Next]_vars => Inv'
  BY StepInv
<1>3. QED
  BY <1>1, <1>2, PTL DEF Spec

\* Every value the session and its threads hold is of its type.
THEOREM TypeCorrect == Spec => []TypeOK
<1>1. Inv => TypeOK
  BY InvIsTypeAndControl
<1>2. QED
  BY <1>1, Invariance, PTL

\* One controller invariant: controller_id and the roles in the records
\* agree, whatever grants, lag drops, departures and bans have interleaved.
THEOREM OneController == Spec => []ControllerCoherent
<1>1. Inv => ControllerCoherent
  BY InvIsTypeAndControl
<1>2. QED
  BY <1>1, Invariance, PTL

-----------------------------------------------------------------------------
(* Nonces *)

\* Until the close forgets them, the nonces of all connections there have been
\* are spent.
NoncesKept ==
  ~closed =>
    \A p \in ParticipantIds : phase[p] # "absent" => nonceOf[p] \in usedNonces

NonceInv == NonceAdmitsOnce /\ NoncesKept

\* No connection begins, no nonce is given back while the session is open.
NobodyNew ==
  /\ nonceOf' = nonceOf
  /\ \A p \in ParticipantIds : phase'[p] # "absent" => phase[p] # "absent"
  /\ closed => closed'
  /\ ~closed' => usedNonces' = usedNonces

\* Every step but a join leaves nonces and connections alone: they change in
\* join (session.rs:120-192), and the close forgets them (586-606).
LEMMA JoinsAlone ==
  ASSUME Inv, [Next]_vars,
         ~\E p \in ParticipantIds, name \in Names, nonce \in Nonces,
             after \in {Fresh} \cup 0..MaxSequence : Join(p, name, nonce, after)
  PROVE  NobodyNew
<1> USE DEF NobodyNew, session, threads
<1>1. ASSUME NEW p \in ParticipantIds, HostAction(p) PROVE NobodyNew
  BY <1>1 DEF HostAction, SetController, SetObserver, RemoveParticipant,
     BanParticipant, TypingFades
<1>2. ASSUME NEW p \in ParticipantIds,
             \/ RequestControl(p) \/ ReleaseControl(p)
             \/ \E hasInput \in BOOLEAN : AuthorizeInput(p, hasInput)
      PROVE  NobodyNew
  BY <1>2 DEF RequestControl, ReleaseControl, AuthorizeInput
<1>3. phase \in [ParticipantIds -> Phases]
  BY DEF Inv, ThreadType
<1>4. ASSUME NEW p \in ParticipantIds,
             \/ WelcomeFails(p) \/ LeaveSession(p)
             \/ SendJoined(p) \/ SendReplay(p) \/ Forward(p)
      PROVE  NobodyNew
  BY <1>3, <1>4 DEF WelcomeFails, LeaveSession, SendJoined, SendReplay, Forward
<1>5. ASSUME NEW p \in ParticipantIds, GuestAction(p) PROVE NobodyNew
  BY <1>2, <1>4, <1>5 DEF GuestAction, SocketEnds
<1>6. ASSUME NEW p \in ParticipantIds, ThreadStep(p) PROVE NobodyNew
  BY <1>4, <1>6 DEF ThreadStep, Finish
<1>7. CASE TerminalAction
  BY <1>7 DEF TerminalAction, PublishOutput, PublishResize, PublishTerminalExit,
     Publish, SetSnapshot, Expire, Close
<1>8. CASE UNCHANGED vars
  BY <1>8 DEF vars
<1>9. QED
  BY <1>1, <1>5, <1>6, <1>7, <1>8 DEF Next

\* The invariant on nonces is kept by every step.
LEMMA NonceStep ==
  ASSUME Inv, NonceInv, [Next]_vars
  PROVE  NonceInv'
<1> USE DEF NonceInv, NonceAdmitsOnce, NoncesKept
<1>1. CASE NobodyNew
  BY <1>1 DEF NobodyNew
<1>2. ASSUME NEW p \in ParticipantIds, NEW name \in Names, NEW nonce \in Nonces,
             NEW after \in {Fresh} \cup 0..MaxSequence,
             Join(p, name, nonce, after)
      PROVE  NonceInv'
  <2>1. /\ ~closed /\ closed' = closed /\ nonce \notin usedNonces
        /\ usedNonces' = usedNonces \cup {nonce}
        /\ phase' = [phase EXCEPT ![p] = "joined"]
        /\ nonceOf' = [nonceOf EXCEPT ![p] = nonce]
    BY <1>2 DEF Join, Spend
  <2>2. phase \in [ParticipantIds -> Phases]
          /\ nonceOf \in [ParticipantIds -> Nonces \cup {Fresh}]
    BY DEF Inv, ThreadType
  <2>3. \A q \in ParticipantIds \ {p} :
          /\ phase'[q] = phase[q] /\ nonceOf'[q] = nonceOf[q]
          /\ phase[q] # "absent" => nonceOf[q] # nonce
    BY <2>1, <2>2
  <2>4. nonceOf'[p] = nonce
    BY <2>1, <2>2
  <2>5. QED
    BY <2>1, <2>3, <2>4
<1>3. QED
  BY <1>1, <1>2, JoinsAlone

\* A nonce admits one participant in the life of a session (session.rs:164,
\* 177), whoever leaves, is banned or lags in between.
THEOREM NonceOnce == Spec => []NonceAdmitsOnce
<1>1. Init => NonceInv
  BY DEF Init, NonceInv, NonceAdmitsOnce, NoncesKept
<1>2. NonceInv => NonceAdmitsOnce
  BY DEF NonceInv
<1>3. QED
  BY <1>1, <1>2, NonceStep, Invariance, PTL DEF Spec
-----------------------------------------------------------------------------
(* Farewells *)

\* With participants ps and queues q, a farewell comes last and only to those
\* who are no longer participants.
LastWord(ps, q) ==
  \A p \in ParticipantIds : \A i \in DOMAIN q[p] :
    q[p][i] = Closed => i = Len(q[p]) /\ p \notin ps

\* An id nobody has joined with has an empty queue, and is no participant.
Untouched == \A p \in ParticipantIds : phase[p] = "absent" => outbound[p] = <<>>

FarewellInv == LastWord(participants, outbound) /\ Untouched

Queues == [ParticipantIds -> Seq(OutboundMessage)]

\* A message other than a farewell, sent to participants, follows none.
LEMMA NewsLast ==
  ASSUME NEW q \in Queues, NEW ps, NEW to, to \subseteq ps, LastWord(to, q),
         NEW m \in OutboundMessage, m # Closed
  PROVE  LastWord(to, TrySend(to, q, m))
<1> DEFINE t == TrySend(to, q, m)
<1>1. ASSUME NEW p \in ParticipantIds, NEW i \in DOMAIN t[p], t[p][i] = Closed
      PROVE  i = Len(t[p]) /\ p \notin to
  <2>1. CASE t[p] = q[p]
    BY <1>1, <2>1 DEF LastWord
  <2>2. CASE t[p] # q[p]
    <3>1. p \in to /\ t[p] = Append(q[p], m)
      BY <2>2 DEF TrySend
    <3>2. i \in DOMAIN q[p] /\ q[p][i] = Closed
      BY <1>1, <3>1 DEF Queues
    <3>3. QED
      BY <3>1, <3>2 DEF LastWord
  <2>3. QED
    BY <2>1, <2>2
<1>2. QED
  BY <1>1 DEF LastWord

\* A farewell to participants who leave with it is the last word.
LEMMA FarewellLast ==
  ASSUME NEW q \in Queues, NEW ps, NEW leaving, leaving \subseteq ps,
         LastWord(ps, q)
  PROVE  LastWord(ps \ leaving, TrySend(leaving, q, Closed))
<1> DEFINE t == TrySend(leaving, q, Closed)
<1>1. ASSUME NEW p \in ParticipantIds, NEW i \in DOMAIN t[p], t[p][i] = Closed
      PROVE  i = Len(t[p]) /\ p \notin ps \ leaving
  <2>1. CASE t[p] = q[p]
    BY <1>1, <2>1 DEF LastWord
  <2>2. CASE t[p] # q[p]
    <3>1. p \in leaving /\ t[p] = Append(q[p], Closed)
      BY <2>2 DEF TrySend
    <3>2. i \in 1..(Len(q[p]) + 1) /\ Len(t[p]) = Len(q[p]) + 1
            /\ \A j \in 1..Len(q[p]) : t[p][j] = q[p][j]
      BY <1>1, <3>1 DEF Queues
    <3>3. ~(i \in DOMAIN q[p])
      BY <1>1, <3>1, <3>2 DEF LastWord, Queues
    <3>4. QED
      BY <3>1, <3>2, <3>3 DEF Queues
  <2>3. QED
    BY <2>1, <2>2
<1>2. QED
  BY <1>1 DEF LastWord

\* A thread that takes the first message, or all of them, leaves the last.
LEMMA TakenOff ==
  ASSUME NEW q \in Queues, NEW ps, LastWord(ps, q), NEW p \in ParticipantIds
  PROVE  /\ LastWord(ps, [q EXCEPT ![p] = <<>>])
         /\ q[p] # <<>> => LastWord(ps, [q EXCEPT ![p] = Tail(@)])
<1>1. LastWord(ps, [q EXCEPT ![p] = <<>>])
  BY DEF LastWord, Queues
<1>2. ASSUME q[p] # <<>> PROVE LastWord(ps, [q EXCEPT ![p] = Tail(@)])
  <2> DEFINE t == [q EXCEPT ![p] = Tail(@)]
  <2>1. ASSUME NEW r \in ParticipantIds, NEW i \in DOMAIN t[r], t[r][i] = Closed
        PROVE  i = Len(t[r]) /\ r \notin ps
    <3>1. CASE r # p
      BY <2>1, <3>1 DEF LastWord, Queues
    <3>2. CASE r = p
      <4>1. q[p] \in Seq(OutboundMessage) /\ t[p] = Tail(q[p])
        BY DEF Queues
      <4>2. PICK n \in Nat : Len(q[p]) = n
        BY <4>1
      <4>3. q[p] # <<>>
        BY <1>2
      <4>4. n # 0
        BY <4>1, <4>2, <4>3
      <4>5. Len(t[p]) = n - 1 /\ \A j \in 1..(n - 1) : t[p][j] = q[p][j + 1]
        <5>1. /\ Len(Tail(q[p])) = Len(q[p]) - 1
              /\ \A j \in 1..Len(Tail(q[p])) : Tail(q[p])[j] = q[p][j + 1]
          BY <4>1, <4>3, HeadTailProperties, Zenon
        <5>2. QED
          BY <4>1, <4>2, <5>1
      <4>6. i \in 1..(n - 1)
        BY <2>1, <3>2, <4>1, <4>4, <4>5
      <4>7. i + 1 \in DOMAIN q[p] /\ q[p][i + 1] = Closed
        BY <2>1, <3>2, <4>1, <4>2, <4>5, <4>6
      <4>8. i + 1 = n /\ p \notin ps
        BY <4>2, <4>7 DEF LastWord
      <4>9. QED
        BY <3>2, <4>5, <4>6, <4>8
    <3>3. QED
      BY <3>1, <3>2
  <2>2. QED
    BY <2>1 DEF LastWord
<1>3. QED
  BY <1>1, <1>2

\* So a broadcast keeps farewells last, and writes to no unused id.
LEMMA BroadcastAfterClosed ==
  ASSUME NEW q \in Queues, NEW ps, NEW r, NEW c, LastWord(ps, q),
         NEW m \in OutboundMessage, m # Closed, Broadcast(ps, r, c, q, m)
  PROVE  /\ LastWord(participants', outbound')
         /\ \A p \in ParticipantIds :
              phase[p] = "absent" => outbound'[p] = q[p]
<1>1. LastWord(ps, outbound')
  BY NewsLast DEF Broadcast
<1>2. participants' \subseteq ps
  BY DEF Broadcast
<1>3. LastWord(participants', outbound')
  BY <1>1, <1>2 DEF LastWord
<1>4. QED
  BY <1>3 DEF Broadcast, TrySend, Receiving

\* What is sent besides farewells: news of participants, and frames.
LEMMA NewsIsNoFarewell ==
  /\ \A p \in ParticipantIds :
       /\ ParticipantJoined(p) # Closed /\ ParticipantLeft(p) # Closed
       /\ ControlRequested(p) # Closed
       /\ \A r \in Roles : RoleChanged(p, r) # Closed
  /\ \A f \in DataFrame : Data(f) # Closed
<1>1. /\ \A p \in ParticipantIds :
           /\ ParticipantJoined(p).type # "closed"
           /\ ParticipantLeft(p).type # "closed"
           /\ ControlRequested(p).type # "closed"
           /\ \A r \in Roles : RoleChanged(p, r).type # "closed"
      /\ \A f \in DataFrame : Data(f).type # "closed"
  BY DEF ParticipantJoined, ParticipantLeft, ControlRequested, RoleChanged, Data
<1>2. Closed.type = "closed"
  BY DEF Closed
<1>3. QED
  BY <1>1, <1>2, Zenon

\* An action of the host or a guest that broadcasts news once.
LEMMA NewsKeepsFarewells ==
  ASSUME Inv, FarewellInv, NEW r, NEW c,
         NEW m \in OutboundMessage, m # Closed,
         Broadcast(participants, r, c, outbound, m), phase' = phase
  PROVE  FarewellInv'
<1>1. outbound \in Queues /\ LastWord(participants, outbound)
  BY DEF Inv, QueueType, Queues, FarewellInv
<1>2. /\ LastWord(participants', outbound')
      /\ \A p \in ParticipantIds : phase[p] = "absent" => outbound'[p] = outbound[p]
  BY <1>1, BroadcastAfterClosed
<1>3. QED
  BY <1>2 DEF FarewellInv, Untouched

\* Removing a participant, banned or not: the farewell is its last message.
LEMMA ExpelKeepsFarewells ==
  ASSUME Inv, FarewellInv, NEW p \in ParticipantIds, Expel(p), phase' = phase
  PROVE  FarewellInv'
<1> DEFINE q == TrySend({p}, outbound, Closed)
<1>1. outbound \in Queues /\ p \in participants
  BY DEF Inv, QueueType, Queues, Expel
<1>2. q \in Queues
  BY <1>1, TrySendType, MessageType DEF Queues
<1>3. LastWord(participants \ {p}, q)
  BY <1>1, FarewellLast DEF FarewellInv
<1>4. \A r \in ParticipantIds : phase[r] = "absent" => q[r] = outbound[r]
  BY DEF TrySend, Receiving
<1>5. /\ ParticipantLeft(p) \in OutboundMessage
      /\ ParticipantLeft(p) # Closed
  BY MessageType, NewsIsNoFarewell
<1>6. Broadcast(participants \ {p}, record, ControllerWithout(p), q,
                ParticipantLeft(p))
  BY DEF Expel
<1> HIDE DEF q
<1>7. /\ LastWord(participants', outbound')
      /\ \A r \in ParticipantIds : phase[r] = "absent" => outbound'[r] = q[r]
  BY <1>2, <1>3, <1>5, <1>6, BroadcastAfterClosed
<1>8. QED
  BY <1>4, <1>7 DEF FarewellInv, Untouched

\* A grant may broadcast twice, and the first time drop the grantee.
LEMMA GrantKeepsFarewells ==
  ASSUME Inv, FarewellInv, NEW p \in ParticipantIds, SetController(p)
  PROVE  FarewellInv'
<1> USE DEF threads
<1>1. phase' = phase /\ controllerId \in ParticipantIds \cup {NoOne}
  BY DEF SetController, Inv, Told, Telling
<1>2. RoleChanged(p, "controller") \in OutboundMessage
        /\ RoleChanged(p, "controller") # Closed
  BY MessageType, NewsIsNoFarewell DEF Roles
<1>3. CASE controllerId \in {NoOne, p}
  <2>1. \E r, c : Broadcast(participants, r, c, outbound,
                           RoleChanged(p, "controller"))
    BY <1>3 DEF SetController
  <2>2. QED
    BY <1>1, <1>2, <2>1, NewsKeepsFarewells
<1>4. CASE controllerId \notin {NoOne, p}
  <2> DEFINE m == RoleChanged(controllerId, "observer")
             q == TrySend(participants, outbound, m)
             ps == participants \ Lagged(participants, outbound)
  <2>1. m \in OutboundMessage /\ m # Closed
    BY <1>1, <1>4, MessageType, NewsIsNoFarewell DEF Roles
  <2>2. outbound \in Queues /\ LastWord(participants, outbound)
    BY DEF Inv, QueueType, Queues, FarewellInv
  <2>3. q \in Queues
    BY <2>1, <2>2, TrySendType DEF Queues
  <2>4. LastWord(participants, q)
    BY <2>1, <2>2, NewsLast
  <2>5. \A r \in ParticipantIds : phase[r] = "absent" => q[r] = outbound[r]
    BY DEF TrySend, Receiving
  <2>6. \E r, c : Broadcast(ps, r, c, q, RoleChanged(p, "controller"))
    BY <1>4 DEF SetController
  <2> HIDE DEF q
  <2>7. LastWord(ps, q)
    BY <2>4 DEF LastWord
  <2> HIDE DEF ps
  <2>8. /\ LastWord(participants', outbound')
        /\ \A r \in ParticipantIds : phase[r] = "absent" => outbound'[r] = q[r]
    BY <1>2, <2>3, <2>6, <2>7, BroadcastAfterClosed
  <2>9. QED
    BY <1>1, <2>5, <2>8 DEF FarewellInv, Untouched
<1>5. QED
  BY <1>3, <1>4

\* A join: the new participant's queue is its connection's own, and empty.
LEMMA JoinKeepsFarewells ==
  ASSUME Inv, FarewellInv, NEW p \in ParticipantIds, NEW name, NEW nonce,
         NEW after, Join(p, name, nonce, after)
  PROVE  FarewellInv'
<1> DEFINE ps == participants \ Lagged(participants, outbound)
<1>1. /\ phase[p] = "absent" /\ phase' = [phase EXCEPT ![p] = "joined"]
      /\ participants' = ps \cup {p}
      /\ outbound' = TrySend(participants, outbound, ParticipantJoined(p))
  BY DEF Join
<1>2. outbound \in Queues /\ phase \in [ParticipantIds -> Phases]
  BY DEF Inv, QueueType, Queues, ThreadType
<1>3. LastWord(participants, outbound')
  BY <1>1, <1>2, NewsLast, MessageType, NewsIsNoFarewell DEF FarewellInv
<1>4. \A r \in ParticipantIds : phase[r] = "absent" => outbound'[r] = <<>>
  BY <1>1 DEF TrySend, Receiving, FarewellInv, Untouched
<1>5. outbound'[p] = <<>>
  BY <1>1, <1>4
<1>6. LastWord(participants', outbound')
  BY <1>1, <1>3, <1>5 DEF LastWord
<1>7. Untouched'
  BY <1>1, <1>2, <1>4 DEF Untouched
<1>8. QED
  BY <1>6, <1>7 DEF FarewellInv

\* The close: a farewell to every participant, and no participants.
LEMMA CloseKeepsFarewells ==
  ASSUME Inv, FarewellInv, Close
  PROVE  FarewellInv'
<1> USE DEF threads
<1>1. /\ outbound' = TrySend(participants, outbound, Closed)
      /\ participants' = {} /\ phase' = phase
  BY DEF Close
<1>2. LastWord(participants \ participants, outbound')
  BY <1>1, FarewellLast DEF Inv, QueueType, Queues, FarewellInv
<1>3. Untouched'
  BY <1>1 DEF TrySend, Receiving, FarewellInv, Untouched
<1>4. QED
  BY <1>1, <1>2, <1>3 DEF FarewellInv, LastWord

\* The thread takes a message off its queue, gives up, or leaves the session.
LEMMA ThreadKeepsFarewells ==
  ASSUME Inv, FarewellInv, NEW p \in ParticipantIds,
         Forward(p) \/ WelcomeFails(p) \/ LeaveSession(p)
  PROVE  FarewellInv'
<1>1. /\ outbound \in Queues /\ phase \in [ParticipantIds -> Phases]
      /\ LastWord(participants, outbound)
  BY DEF Inv, QueueType, Queues, ThreadType, FarewellInv
<1>2. /\ LastWord(participants, [outbound EXCEPT ![p] = <<>>])
      /\ outbound[p] # <<>> =>
           LastWord(participants, [outbound EXCEPT ![p] = Tail(@)])
  BY <1>1, TakenOff
<1>3. phase[p] # "absent" /\ phase'[p] # "absent"
        /\ \A r \in ParticipantIds \ {p} : phase'[r] = phase[r]
  BY <1>1 DEF Forward, WelcomeFails, LeaveSession
<1>4. ASSUME LastWord(participants', outbound'),
             \A r \in ParticipantIds \ {p} :
               phase[r] = "absent" => outbound'[r] = outbound[r]
      PROVE  FarewellInv'
  BY <1>3, <1>4 DEF FarewellInv, Untouched
<1>5. CASE Forward(p)
  BY <1>1, <1>2, <1>4, <1>5 DEF Forward, Queues
<1>6. CASE WelcomeFails(p)
  BY <1>1, <1>2, <1>4, <1>6 DEF WelcomeFails, Queues
<1>7. CASE LeaveSession(p)
  <2> DEFINE q == [outbound EXCEPT ![p] = <<>>]
  <2>1. /\ q \in Queues
        /\ \A r \in ParticipantIds \ {p} : q[r] = outbound[r]
    BY <1>1 DEF Queues
  <2>2. LastWord(participants, q)
    BY <1>2
  <2>3. LastWord(participants \ {p}, q)
    BY <2>2 DEF LastWord
  <2>4. ParticipantLeft(p) \in OutboundMessage /\ ParticipantLeft(p) # Closed
    BY MessageType, NewsIsNoFarewell
  <2>5. \/ outbound' = q /\ participants' = participants
        \/ Broadcast(participants \ {p}, record, ControllerWithout(p), q,
                     ParticipantLeft(p))
    BY <1>7 DEF LeaveSession
  <2> HIDE DEF q
  <2>6. CASE outbound' = q /\ participants' = participants
    BY <1>4, <2>1, <2>2, <2>6
  <2>7. CASE Broadcast(participants \ {p}, record, ControllerWithout(p), q,
                       ParticipantLeft(p))
    <3>1. /\ LastWord(participants', outbound')
          /\ \A r \in ParticipantIds : phase[r] = "absent" => outbound'[r] = q[r]
      BY <2>1, <2>3, <2>4, <2>7, BroadcastAfterClosed
    <3>2. QED
      BY <1>4, <2>1, <3>1
  <2>8. QED
    BY <2>5, <2>6, <2>7
<1>8. QED
  BY <1>5, <1>6, <1>7

\* Steps that send nothing and let nobody in or out.
LEMMA SilenceKeepsFarewells ==
  ASSUME FarewellInv, outbound' = outbound, participants' = participants,
         \A p \in ParticipantIds : phase'[p] = "absent" => phase[p] = "absent"
  PROVE  FarewellInv'
BY DEF FarewellInv, LastWord, Untouched

\* Frames of the stream, published to every participant.
LEMMA PublishKeepsFarewells ==
  ASSUME Inv, FarewellInv, NEW f \in DataFrame, NEW g, Publish(f, g)
  PROVE  FarewellInv'
<1>1. Data(f) \in OutboundMessage /\ Data(f) # Closed
  BY MessageType, NewsIsNoFarewell
<1>2. /\ Broadcast(participants, record, controllerId, outbound, Data(f))
      /\ phase' = phase
  BY DEF Publish, threads
<1>3. QED
  BY <1>1, <1>2, NewsKeepsFarewells

\* The invariant on farewells is kept by every step.
LEMMA FarewellStep ==
  ASSUME Inv, FarewellInv, [Next]_vars
  PROVE  FarewellInv'
<1> USE DEF session, members, threads
<1>0. /\ phase \in [ParticipantIds -> Phases] /\ nextSequence \in Nat
      /\ grid \in Grids
  BY DEF Inv, ThreadType, StreamType, SessionType
<1>1. ASSUME NEW p \in ParticipantIds, HostAction(p) PROVE FarewellInv'
  <2>1. CASE SetController(p)
    BY <2>1, GrantKeepsFarewells
  <2>2. CASE SetObserver(p)
    <3>1. RoleChanged(p, "observer") \in OutboundMessage
            /\ RoleChanged(p, "observer") # Closed
      BY MessageType, NewsIsNoFarewell DEF Roles
    <3>2. QED
      BY <2>2, <3>1, NewsKeepsFarewells DEF SetObserver
  <2>3. CASE RemoveParticipant(p) \/ BanParticipant(p)
    BY <2>3, ExpelKeepsFarewells DEF RemoveParticipant, BanParticipant
  <2>4. CASE TypingFades(p)
    BY <2>4, SilenceKeepsFarewells DEF TypingFades
  <2>5. QED
    BY <1>1, <2>1, <2>2, <2>3, <2>4 DEF HostAction
<1>2. ASSUME NEW p \in ParticipantIds, GuestAction(p) PROVE FarewellInv'
  <2>1. ASSUME NEW name \in Names, NEW nonce \in Nonces,
               NEW after \in {Fresh} \cup 0..MaxSequence,
               Join(p, name, nonce, after)
        PROVE  FarewellInv'
    BY <2>1, JoinKeepsFarewells
  <2>2. CASE RequestControl(p)
    <3>1. ControlRequested(p) \in OutboundMessage
            /\ ControlRequested(p) # Closed
      BY MessageType, NewsIsNoFarewell
    <3>2. QED
      BY <2>2, <3>1, NewsKeepsFarewells DEF RequestControl
  <2>3. CASE ReleaseControl(p)
    <3>1. RoleChanged(p, "observer") \in OutboundMessage
            /\ RoleChanged(p, "observer") # Closed
      BY MessageType, NewsIsNoFarewell DEF Roles
    <3>2. QED
      BY <2>3, <3>1, NewsKeepsFarewells DEF ReleaseControl
  <2>4. CASE \E hasInput \in BOOLEAN : AuthorizeInput(p, hasInput)
    BY <2>4, SilenceKeepsFarewells DEF AuthorizeInput
  <2>5. CASE WelcomeFails(p) \/ SocketEnds(p)
    BY <2>5, ThreadKeepsFarewells DEF SocketEnds
  <2>6. QED
    BY <1>2, <2>1, <2>2, <2>3, <2>4, <2>5 DEF GuestAction
<1>3. ASSUME NEW p \in ParticipantIds, ThreadStep(p) PROVE FarewellInv'
  <2>1. CASE SendJoined(p) \/ SendReplay(p)
    BY <1>0, <2>1, SilenceKeepsFarewells DEF SendJoined, SendReplay
  <2>2. CASE Forward(p) \/ Finish(p)
    BY <2>2, ThreadKeepsFarewells DEF Finish
  <2>3. QED
    BY <1>3, <2>1, <2>2 DEF ThreadStep
<1>4. CASE TerminalAction
  <2>1. ASSUME NEW k \in PayloadSizes, PublishOutput(k) PROVE FarewellInv'
    BY <1>0, <2>1, PublishKeepsFarewells, FrameType DEF PublishOutput
  <2>2. ASSUME NEW g \in Grids, PublishResize(g) PROVE FarewellInv'
    BY <1>0, <2>2, PublishKeepsFarewells, FrameType DEF PublishResize
  <2>3. CASE PublishTerminalExit
    BY <1>0, <2>3, PublishKeepsFarewells, FrameType DEF PublishTerminalExit
  <2>4. CASE \E n \in 0..MaxSequence, g \in Grids : SetSnapshot(n, g)
    BY <2>4, SilenceKeepsFarewells DEF SetSnapshot
  <2>5. CASE Expire
    BY <2>5, SilenceKeepsFarewells DEF Expire
  <2>6. CASE Close
    BY <2>6, CloseKeepsFarewells
  <2>7. QED
    BY <1>4, <2>1, <2>2, <2>3, <2>4, <2>5, <2>6 DEF TerminalAction
<1>5. CASE UNCHANGED vars
  BY <1>5, SilenceKeepsFarewells DEF vars
<1>6. QED
  BY <1>1, <1>2, <1>3, <1>4, <1>5 DEF Next

\* Nothing is told to a connection after its farewell, and only one that is
\* no longer a participant gets one (remove_participant, ban_participant, close
\* and broadcast, session.rs:344-401, 586-625), however drops, departures and
\* grants interleave.
THEOREM FarewellIsLast == Spec => []NothingAfterClosed
<1>1. Init => FarewellInv
  BY DEF Init, FarewellInv, LastWord, Untouched
<1>2. FarewellInv => NothingAfterClosed
  BY DEF FarewellInv, LastWord, NothingAfterClosed
<1>3. QED
  BY <1>1, <1>2, FarewellStep, Invariance, PTL DEF Spec

-----------------------------------------------------------------------------
(* The replay window *)

\* The snapshot, too, is of frames the stream has had.
WindowInv ==
  ReplayOrdered /\ (snapshot # NoSnapshot => snapshot.sequence <= nextSequence)

\* Eviction leaves no more frames than the window may hold: every frame before
\* the last MaxReplayFrames is counted.
LEMMA OverflowEnough ==
  ASSUME NEW S, NEW s \in Seq(S), NEW b
  PROVE  Len(s) - Overflow(s, b) <= MaxReplayFrames
<1> DEFINE T == {k \in 1..Len(s) :
                  \/ Len(s) - (k - 1) > MaxReplayFrames
                  \/ SaturatingSub(b, BytesOfFirst(s, k - 1)) > MaxReplayBytes}
           d == Len(s) - MaxReplayFrames
<1>1. Len(s) \in Nat /\ MaxReplayFrames \in Nat
  BY LimitsAssumption
<1>2. T \in SUBSET (1..Len(s)) /\ 1..d \subseteq T
  BY <1>1
<1>3. IsFiniteSet(T) /\ Cardinality(T) \in 0..Len(s)
  <2> HIDE DEF T
  <2> QED
    BY <1>1, <1>2, CountPositions
<1>4. CASE d > 0
  <2>1. d \in Nat /\ 1 \in Int /\ d \in Int /\ 1 <= d
    BY <1>1, <1>4
  <2> HIDE DEF T, d
  <2>2. Cardinality(1..d) = d
    BY <2>1, FS_Interval
  <2>3. Cardinality(1..d) <= Cardinality(T)
    BY <1>2, <1>3, FS_Subset
  <2>4. d <= Overflow(s, b) /\ Overflow(s, b) = Cardinality(T)
    BY <2>2, <2>3 DEF T, Overflow
  <2> QED
    BY <1>1, <1>3, <2>4 DEF d
<1>5. CASE ~(d > 0)
  <2>1. Overflow(s, b) \in 0..Len(s)
    BY OverflowType
  <2> QED
    BY <1>1, <1>5, <2>1
<1> QED
  BY <1>4, <1>5

\* A snapshot at n covers every frame up to n: the frames before one it covers
\* are covered as well.
LEMMA CoveredEnough ==
  ASSUME replay \in Seq(ReplayFrame), ReplayOrdered, NEW n \in Nat,
         NEW i \in 1..Len(replay), replay[i].sequence <= n
  PROVE  i <= Covered(n)
<1> DEFINE T == {k \in 1..Len(replay) : replay[k].sequence <= n}
<1>1. Len(replay) \in Nat /\ i \in Nat
  OBVIOUS
<1>2. \A k \in 1..Len(replay) : replay[k].sequence \in Nat
  BY FrameType
<1>3. 1..i \subseteq T /\ T \in SUBSET (1..Len(replay))
  <2> SUFFICES ASSUME NEW k \in 1..i PROVE k \in T
    BY <1>1
  <2>1. CASE k = i
    BY <2>1
  <2>2. CASE k # i
    <3>1. k \in 1..(i - 1) /\ k \in 1..Len(replay)
      BY <1>1, <2>2
    <3>2. replay[k].sequence < replay[i].sequence
      BY <3>1 DEF ReplayOrdered
    <3> QED
      BY <1>2, <3>1, <3>2
  <2> QED
    BY <2>1, <2>2
<1> HIDE DEF T
<1>4. IsFiniteSet(T) /\ Cardinality(T) \in 0..Len(replay)
  BY <1>1, <1>3, CountPositions
<1>5. Cardinality(1..i) = i
  <2>1. i \in Int /\ 1 \in Int /\ 1 <= i
    BY <1>1
  <2>2. Cardinality(1..i) = i - 1 + 1
    BY <2>1, FS_Interval
  <2> QED
    BY <2>1, <2>2
<1>6. Cardinality(1..i) <= Cardinality(T)
  BY <1>3, <1>4, FS_Subset
<1> QED
  BY <1>5, <1>6 DEF T, Covered

\* Taking a frame into the window (session.rs:463-471, 496-504).
LEMMA PushKeepsWindow ==
  ASSUME StreamType, WindowInv, NEW f \in ReplayFrame,
         f.sequence = nextSequence + 1, PushReplay(f),
         nextSequence' = nextSequence + 1, snapshot' = snapshot
  PROVE  WindowInv'
<1> DEFINE s == Append(replay, f)
           n == Overflow(s, replayBytes + PayloadLen(f))
<1>1. replay \in Seq(ReplayFrame) /\ s \in Seq(ReplayFrame) /\ nextSequence \in Nat
  BY DEF StreamType
<1>2. /\ Len(replay) \in Nat /\ Len(s) = Len(replay) + 1
      /\ s[Len(replay) + 1] = f
      /\ \A k \in 1..Len(replay) : s[k] = replay[k]
  BY <1>1
<1>3. replay' = DropFirst(s, n)
  BY DEF PushReplay
<1> HIDE DEF s
<1>4. n \in 0..Len(s) /\ Len(s) - n <= MaxReplayFrames
  BY <1>1, OverflowType, OverflowEnough
<1> HIDE DEF n
<1>5. /\ Len(replay') = IF n < Len(s) THEN Len(s) - n ELSE 0
      /\ \A k \in 1..Len(replay') : replay'[k] = s[n + k]
  BY <1>1, <1>3, <1>4, DropType
<1>6. \A k \in 1..Len(replay) : replay[k].sequence \in Nat
  BY <1>1, FrameType
<1>7. Len(replay') <= MaxReplayFrames
  BY <1>2, <1>4, <1>5, LimitsAssumption
<1>8. \A k \in 1..Len(replay') : n + k \in 1..Len(s)
  BY <1>2, <1>4, <1>5
<1>9. \A k \in 1..Len(s) :
        /\ s[k].sequence \in Nat /\ s[k].sequence <= nextSequence + 1
        /\ snapshot # NoSnapshot => s[k].sequence > snapshot.sequence
        /\ \A j \in 1..(k - 1) : s[j].sequence < s[k].sequence
  <2> SUFFICES ASSUME NEW k \in 1..Len(s)
               PROVE  /\ s[k].sequence \in Nat /\ s[k].sequence <= nextSequence + 1
                      /\ snapshot # NoSnapshot => s[k].sequence > snapshot.sequence
                      /\ \A j \in 1..(k - 1) : s[j].sequence < s[k].sequence
    OBVIOUS
  <2>1. snapshot # NoSnapshot => snapshot.sequence \in Nat /\ snapshot.sequence <= nextSequence
    BY FrameType DEF StreamType, WindowInv
  <2>2. CASE k = Len(replay) + 1
    <3>1. s[k] = f /\ \A j \in 1..(k - 1) : s[j] = replay[j] /\ j \in 1..Len(replay)
      BY <1>2, <2>2
    <3>2. \A j \in 1..Len(replay) : replay[j].sequence <= nextSequence
      BY DEF WindowInv, ReplayOrdered
    <3>3. s[k].sequence = nextSequence + 1
      BY <3>1
    <3>4. \A j \in 1..(k - 1) : s[j].sequence \in Nat /\ s[j].sequence <= nextSequence
      BY <1>6, <3>1, <3>2
    <3> QED
      BY <1>1, <2>1, <3>3, <3>4
  <2>3. CASE k # Len(replay) + 1
    <3>1. k \in 1..Len(replay) /\ s[k] = replay[k]
      BY <1>2, <2>3
    <3>2. \A j \in 1..(k - 1) : s[j] = replay[j]
      BY <1>2, <3>1
    <3>3. /\ replay[k].sequence <= nextSequence
          /\ snapshot # NoSnapshot => replay[k].sequence > snapshot.sequence
          /\ \A j \in 1..(k - 1) : replay[j].sequence < replay[k].sequence
      BY <3>1 DEF WindowInv, ReplayOrdered
    <3> QED
      BY <1>1, <1>6, <3>1, <3>2, <3>3
  <2> QED
    BY <2>2, <2>3
<1>10. ReplayOrdered'
  <2> SUFFICES ASSUME NEW k \in 1..Len(replay')
               PROVE  /\ replay'[k].sequence <= nextSequence'
                      /\ snapshot' # NoSnapshot => replay'[k].sequence > snapshot'.sequence
                      /\ \A j \in 1..(k - 1) : replay'[j].sequence < replay'[k].sequence
    BY <1>7 DEF ReplayOrdered
  <2> DEFINE m == n + k
  <2>1. \A j \in 1..(k - 1) : n + j \in 1..(m - 1) /\ replay'[j] = s[n + j]
    BY <1>2, <1>4, <1>5
  <2>2. m \in 1..Len(s) /\ replay'[k] = s[m]
    BY <1>5, <1>8
  <2> HIDE DEF m
  <2>3. /\ s[m].sequence <= nextSequence + 1
        /\ snapshot # NoSnapshot => s[m].sequence > snapshot.sequence
        /\ \A j \in 1..(m - 1) : s[j].sequence < s[m].sequence
    BY <1>9, <2>2
  <2> QED
    BY <2>1, <2>2, <2>3
<1>11. snapshot' # NoSnapshot => snapshot'.sequence <= nextSequence'
  BY <1>1, FrameType DEF StreamType, WindowInv
<1> QED
  BY <1>10, <1>11 DEF WindowInv

\* A snapshot pops the frames it covers and no others (session.rs:555-569).
LEMMA SnapshotKeepsWindow ==
  ASSUME StreamType, WindowInv, NEW n \in Nat, NEW g \in Grids, SetSnapshot(n, g)
  PROVE  WindowInv'
<1> DEFINE c == Covered(n)
<1>1. /\ replay \in Seq(ReplayFrame) /\ nextSequence \in Nat
      /\ n <= nextSequence /\ nextSequence' = nextSequence
      /\ snapshot' = Snapshot(n, g) /\ snapshot'.sequence = n
      /\ replay' = DropFirst(replay, c)
  BY FrameType DEF StreamType, SetSnapshot, Snapshot
<1>2. c \in 0..Len(replay) /\ Len(replay) \in Nat
  BY <1>1, CoveredType
<1>3. \A k \in 1..Len(replay) : k > c => replay[k].sequence > n
  <2> SUFFICES ASSUME NEW k \in 1..Len(replay), k > c PROVE replay[k].sequence > n
    OBVIOUS
  <2>1. replay[k].sequence \in Nat
    BY <1>1, FrameType
  <2>2. replay[k].sequence <= n => k <= c
    BY <1>1, CoveredEnough DEF WindowInv
  <2> QED
    BY <1>2, <2>1, <2>2
<1> HIDE DEF c
<1>4. /\ Len(replay') = IF c < Len(replay) THEN Len(replay) - c ELSE 0
      /\ \A k \in 1..Len(replay') : replay'[k] = replay[c + k]
  BY <1>1, <1>2, DropType
<1>5. \A k \in 1..Len(replay') : c + k \in 1..Len(replay) /\ c + k > c
  BY <1>2, <1>4
<1>6. Len(replay') <= MaxReplayFrames
  BY <1>2, <1>4, LimitsAssumption DEF WindowInv, ReplayOrdered
<1>7. ASSUME NEW k \in 1..Len(replay')
      PROVE  /\ replay'[k].sequence <= nextSequence'
             /\ replay'[k].sequence > snapshot'.sequence
             /\ \A j \in 1..(k - 1) : replay'[j].sequence < replay'[k].sequence
  <2> DEFINE m == c + k
  <2>1. replay'[k] = replay[m] /\ m \in 1..Len(replay) /\ m > c
    BY <1>4, <1>5
  <2>2. \A j \in 1..(k - 1) : c + j \in 1..(m - 1) /\ replay'[j] = replay[c + j]
    BY <1>2, <1>4
  <2> HIDE DEF m
  <2>3. /\ replay[m].sequence <= nextSequence
        /\ \A j \in 1..(m - 1) : replay[j].sequence < replay[m].sequence
        /\ replay[m].sequence > n
    BY <1>3, <2>1 DEF WindowInv, ReplayOrdered
  <2> QED
    BY <1>1, <2>1, <2>2, <2>3
<1> QED
  BY <1>1, <1>6, <1>7 DEF WindowInv, ReplayOrdered

LEMMA WindowStep ==
  ASSUME Inv, WindowInv, [Next]_vars
  PROVE  WindowInv'
<1>0. StreamType /\ LimitsAssumption
  BY LimitsAssumption DEF Inv
<1>1. CASE UNCHANGED stream
  BY <1>1 DEF stream, WindowInv, ReplayOrdered
<1>2. ASSUME NEW p \in ParticipantIds, GuestAction(p) \/ HostAction(p) \/ ThreadStep(p)
      PROVE  UNCHANGED stream
  <2>1. CASE GuestAction(p)
    BY <2>1 DEF GuestAction, Join, RequestControl, ReleaseControl, AuthorizeInput,
       WelcomeFails, SocketEnds, LeaveSession
  <2>2. CASE HostAction(p)
    BY <2>2 DEF HostAction, SetController, SetObserver, RemoveParticipant,
       BanParticipant, TypingFades
  <2>3. CASE ThreadStep(p)
    BY <2>3 DEF ThreadStep, SendJoined, SendReplay, Forward, Finish, LeaveSession
  <2> QED
    BY <1>2, <2>1, <2>2, <2>3
<1>3. ASSUME NEW k \in PayloadSizes, PublishOutput(k)
      PROVE  WindowInv'
  <2>1. Output(nextSequence + 1, k) \in ReplayFrame
    BY <1>0, FrameType DEF StreamType
  <2> QED
    BY <1>0, <1>3, <2>1, PushKeepsWindow DEF PublishOutput, Publish, Output
<1>4. ASSUME NEW g \in Grids, PublishResize(g)
      PROVE  WindowInv'
  <2>1. Resize(nextSequence + 1, g) \in ReplayFrame
    BY <1>0, FrameType DEF StreamType
  <2> QED
    BY <1>0, <1>4, <2>1, PushKeepsWindow DEF PublishResize, Publish, Resize
<1>5. CASE PublishTerminalExit
  <2>1. /\ nextSequence' = nextSequence + 1 /\ nextSequence \in Nat
        /\ UNCHANGED <<replay, snapshot>>
    BY <1>0, <1>5 DEF PublishTerminalExit, Publish, StreamType
  <2>2. /\ \A k \in 1..Len(replay) : replay[k].sequence \in Nat
        /\ snapshot # NoSnapshot => snapshot.sequence \in Nat
    BY <1>0, FrameType DEF StreamType
  <2> QED
    BY <2>1, <2>2 DEF WindowInv, ReplayOrdered
<1>6. ASSUME NEW n \in 0..MaxSequence, NEW g \in Grids, SetSnapshot(n, g)
      PROVE  WindowInv'
  BY <1>0, <1>6, SnapshotKeepsWindow
<1>7. CASE Close
  BY <1>7, LimitsAssumption DEF Close, WindowInv, ReplayOrdered
<1>8. CASE Expire
  BY <1>1, <1>8 DEF Expire
<1>9. CASE UNCHANGED vars
  BY <1>1, <1>9 DEF vars
<1> QED
  BY <1>1, <1>2, <1>3, <1>4, <1>5, <1>6, <1>7, <1>8, <1>9 DEF Next, TerminalAction

\* The replay window stays within its limit, in the order of the stream and behind
\* the snapshot, whatever is published, evicted, captured or closed between.
THEOREM WindowInOrder == Spec => []ReplayOrdered
<1>1. Init => WindowInv
  BY LimitsAssumption DEF Init, WindowInv, ReplayOrdered
<1>2. Inv /\ WindowInv /\ [Next]_vars => WindowInv'
  BY WindowStep
<1>3. WindowInv => ReplayOrdered
  BY DEF WindowInv
<1> QED
  BY <1>1, <1>2, <1>3, Invariance, PTL DEF Spec

-----------------------------------------------------------------------------
(* The bytes of a window *)

\* The payload of a frame is a number of bytes.
LEMMA PayloadNat ==
  \A f \in ReplayFrame : PayloadLen(f) \in Nat
<1>1. PayloadSizes \subseteq Nat
  BY LimitsAssumption
<1>2. \A f \in [kind : {"output"}, sequence : Nat, size : PayloadSizes] :
        PayloadLen(f) \in Nat
  BY <1>1 DEF PayloadLen
<1>3. \A f \in [kind : {"resize"}, sequence : Nat, grid : Grids] :
        PayloadLen(f) \in Nat
  BY DEF PayloadLen
<1> QED
  BY <1>2, <1>3 DEF ReplayFrame

\* Frame by frame, the bytes of a stretch of stream add up.
LEMMA BytesFrameByFrame ==
  ASSUME NEW s \in Seq(ReplayFrame)
  PROVE  /\ BytesOfFirst(s, 0) = 0
         /\ \A k \in 0..(Len(s) - 1) :
              /\ BytesOfFirst(s, k) \in Nat
              /\ BytesOfFirst(s, k + 1) = BytesOfFirst(s, k) + PayloadLen(s[k + 1])
         /\ \A k \in 0..Len(s) : BytesOfFirst(s, k) \in Nat
<1> DEFINE f == [i \in DOMAIN s |-> PayloadLen(s[i])]
<1>1. /\ Len(s) \in Nat /\ DOMAIN s = 1..Len(s)
      /\ \A i \in 1..Len(s) : f[i] \in Nat /\ f[i] = PayloadLen(s[i])
  BY PayloadNat
<1>2. \A k : BytesOfFirst(s, k) = SumFunctionOnSet(f, 1..k)
  BY DEF BytesOfFirst
<1> HIDE DEF f
<1>3. BytesOfFirst(s, 0) = 0
  <2>1. 1..0 = {}
    OBVIOUS
  <2> QED
    BY <1>2, <2>1, SumOfNone
<1>4. ASSUME NEW k \in 0..(Len(s) - 1)
      PROVE  /\ BytesOfFirst(s, k) \in Nat
             /\ BytesOfFirst(s, k + 1) = BytesOfFirst(s, k) + PayloadLen(s[k + 1])
  <2>1. k \in Nat /\ k + 1 \in 1..Len(s)
    BY <1>1
  <2>2. IsFiniteSet(1..k)
    BY <2>1, FS_Interval
  <2>3. /\ 1..(k + 1) = (1..k) \cup {k + 1} /\ (k + 1) \notin 1..k
        /\ \A y \in (1..k) \cup {k + 1} : f[y] \in Nat
    BY <1>1, <2>1
  <2>4. /\ SumFunctionOnSet(f, 1..k) \in Nat
        /\ SumFunctionOnSet(f, (1..k) \cup {k + 1}) = SumFunctionOnSet(f, 1..k) + f[k + 1]
    BY <2>2, <2>3, SumWithOne
  <2> QED
    BY <1>1, <1>2, <2>1, <2>3, <2>4
<1>5. ASSUME NEW k \in 0..Len(s) PROVE BytesOfFirst(s, k) \in Nat
  <2>1. CASE k = 0
    BY <1>3, <2>1
  <2>2. CASE k # 0
    <3>1. k - 1 \in 0..(Len(s) - 1) /\ (k - 1) + 1 = k /\ k \in 1..Len(s)
      BY <1>1, <2>2
    <3>2. /\ BytesOfFirst(s, k - 1) \in Nat
          /\ BytesOfFirst(s, (k - 1) + 1) = BytesOfFirst(s, k - 1) + PayloadLen(s[(k - 1) + 1])
      BY <1>4, <3>1
    <3> QED
      BY <1>1, <3>1, <3>2
  <2> QED
    BY <2>1, <2>2
<1> QED
  BY <1>3, <1>4, <1>5

\* What is left after the first n frames has the rest of the bytes.
LEMMA BytesOfRest ==
  ASSUME NEW s \in Seq(ReplayFrame), NEW n \in 0..Len(s)
  PROVE  \A k \in 0..(Len(s) - n) :
           BytesOfFirst(s, n + k) = BytesOfFirst(s, n) + BytesOfFirst(DropFirst(s, n), k)
<1> DEFINE t == DropFirst(s, n)
           N == {k \in Nat : k <= Len(s) - n =>
                   BytesOfFirst(s, n + k) = BytesOfFirst(s, n) + BytesOfFirst(t, k)}
<1>1. Len(s) \in Nat /\ n \in Nat
  OBVIOUS
<1>2. /\ t \in Seq(ReplayFrame) /\ Len(t) = Len(s) - n
      /\ \A i \in 1..Len(t) : t[i] = s[n + i]
  BY <1>1, DropType
<1> HIDE DEF t
<1>3. 0 \in N
  <2>1. BytesOfFirst(s, n) \in Nat /\ BytesOfFirst(t, 0) = 0
    BY <1>2, BytesFrameByFrame
  <2> QED
    BY <1>1, <2>1
<1>4. ASSUME NEW k \in N PROVE k + 1 \in N
  <2> SUFFICES ASSUME k + 1 <= Len(s) - n
               PROVE  BytesOfFirst(s, n + (k + 1))
                        = BytesOfFirst(s, n) + BytesOfFirst(t, k + 1)
    OBVIOUS
  <2>1. /\ k \in Nat /\ k \in 0..(Len(t) - 1) /\ n + k \in 0..(Len(s) - 1)
        /\ k + 1 \in 1..Len(t) /\ n + (k + 1) = (n + k) + 1
        /\ BytesOfFirst(s, n + k) = BytesOfFirst(s, n) + BytesOfFirst(t, k)
    BY <1>1, <1>2
  <2>2. BytesOfFirst(s, (n + k) + 1) = BytesOfFirst(s, n + k) + PayloadLen(s[(n + k) + 1])
    BY <2>1, BytesFrameByFrame
  <2>3. BytesOfFirst(t, k + 1) = BytesOfFirst(t, k) + PayloadLen(t[k + 1])
    BY <1>2, <2>1, BytesFrameByFrame
  <2>4. t[k + 1] = s[(n + k) + 1]
    BY <1>2, <2>1
  <2>5. BytesOfFirst(t, k) \in Nat /\ BytesOfFirst(s, n) \in Nat
    BY <1>2, <2>1, BytesFrameByFrame
  <2>6. PayloadLen(t[k + 1]) \in Nat
    BY <1>2, <2>1, PayloadNat
  <2> QED
    BY <2>1, <2>2, <2>3, <2>4, <2>5, <2>6
<1> HIDE DEF N
<1>5. N = Nat
  <2>1. N \in SUBSET Nat
    BY DEF N
  <2> QED
    BY <2>1, <1>3, <1>4, EveryNumber
<1> QED
  BY <1>1, <1>5 DEF N, t

\* The more frames, the more bytes.
LEMMA BytesGrow ==
  ASSUME NEW s \in Seq(ReplayFrame), NEW j \in 0..Len(s), NEW i \in 0..j
  PROVE  BytesOfFirst(s, i) <= BytesOfFirst(s, j)
<1> DEFINE t == DropFirst(s, i)
           k == j - i
<1>1. Len(s) \in Nat /\ i \in 0..Len(s) /\ k \in 0..(Len(s) - i) /\ i + k = j
  OBVIOUS
<1>2. t \in Seq(ReplayFrame) /\ Len(t) = Len(s) - i
  BY <1>1, DropType
<1> HIDE DEF t, k
<1>3. BytesOfFirst(s, i + k) = BytesOfFirst(s, i) + BytesOfFirst(t, k)
  BY <1>1, BytesOfRest DEF t
<1>4. BytesOfFirst(t, k) \in Nat /\ BytesOfFirst(s, i) \in Nat
  BY <1>1, <1>2, BytesFrameByFrame
<1> QED
  BY <1>1, <1>3, <1>4

\* A frame pushed at the end adds its payload.
LEMMA BytesOfPushed ==
  ASSUME NEW s \in Seq(ReplayFrame), NEW f \in ReplayFrame
  PROVE  /\ Append(s, f) \in Seq(ReplayFrame)
         /\ Bytes(Append(s, f)) = Bytes(s) + PayloadLen(f)
<1> DEFINE t == Append(s, f)
           n == Len(s)
<1>1. /\ n \in Nat /\ t \in Seq(ReplayFrame) /\ Len(t) = n + 1
      /\ t[n + 1] = f /\ \A i \in 1..n : t[i] = s[i]
      /\ DOMAIN s = 1..n /\ DOMAIN t = 1..(n + 1)
  OBVIOUS
<1>2. IsFiniteSet(1..n)
  <2> HIDE DEF n
  <2> QED
    BY <1>1, FS_Interval
<1>3. BytesOfFirst(t, n) = BytesOfFirst(s, n)
  <2> DEFINE a == [i \in DOMAIN t |-> PayloadLen(t[i])]
             b == [i \in DOMAIN s |-> PayloadLen(s[i])]
  <2>1. \A i \in 1..n : a[i] = b[i]
    BY <1>1, <1>2
  <2> HIDE DEF a, b
  <2>2. SumFunctionOnSet(a, 1..n) = SumFunctionOnSet(b, 1..n)
    BY <1>2, <2>1, SumOfSame
  <2> QED
    BY <2>2 DEF a, b, BytesOfFirst
<1> HIDE DEF t, n
<1>4. n \in 0..(Len(t) - 1)
  BY <1>1
<1>5. BytesOfFirst(t, n + 1) = BytesOfFirst(t, n) + PayloadLen(t[n + 1])
  BY <1>1, <1>4, BytesFrameByFrame
<1> QED
  BY <1>1, <1>3, <1>5 DEF t, n, Bytes

\* The window, k frames popped, is still too long or too large.
TooMuch(s, b, k) ==
  Len(s) - k > MaxReplayFrames \/ SaturatingSub(b, BytesOfFirst(s, k)) > MaxReplayBytes

\* What Overflow counts is what the eviction loop of push_replay pops
\* (session.rs:465-471, 497-503): it goes on while the rest is too much, stops as soon
\* as it is not, and never runs out of frames to pop.
THEOREM EvictsWhatItMust ==
  ASSUME NEW s \in Seq(ReplayFrame)
  PROVE  LET n == Overflow(s, Bytes(s))
         IN /\ n \in 0..Len(s)
            /\ \A k \in 0..(n - 1) : TooMuch(s, Bytes(s), k)
            /\ ~TooMuch(s, Bytes(s), n)
<1> DEFINE b == Bytes(s)
           n == Overflow(s, b)
           T == {k \in 1..Len(s) :
                  \/ Len(s) - (k - 1) > MaxReplayFrames
                  \/ SaturatingSub(b, BytesOfFirst(s, k - 1)) > MaxReplayBytes}
<1>1. /\ Len(s) \in Nat /\ b \in Nat /\ b = BytesOfFirst(s, Len(s))
      /\ MaxReplayFrames \in Nat /\ MaxReplayBytes \in Nat
      /\ \A k \in 0..Len(s) : BytesOfFirst(s, k) \in Nat
  BY BytesFrameByFrame, LimitsAssumption DEF Bytes
<1>2. \A k \in 1..Len(s) : k \in T <=> TooMuch(s, b, k - 1)
  BY DEF TooMuch
<1>3. T \in SUBSET (1..Len(s)) /\ n = Cardinality(T)
  BY DEF Overflow
<1> HIDE DEF b, n, T
<1>4. IsFiniteSet(T) /\ n \in 0..Len(s)
  BY <1>1, <1>3, CountPositions
<1>5. ASSUME NEW k \in 0..Len(s), TooMuch(s, b, k), NEW i \in 0..k
      PROVE  TooMuch(s, b, i)
  <2>1. /\ BytesOfFirst(s, i) <= BytesOfFirst(s, k)
        /\ BytesOfFirst(s, i) \in Nat /\ BytesOfFirst(s, k) \in Nat
        /\ k \in Nat /\ i \in Nat /\ i <= k
    BY <1>1, BytesGrow
  <2> QED
    BY <1>1, <1>5, <2>1 DEF TooMuch, SaturatingSub
<1>6. ~TooMuch(s, b, Len(s))
  BY <1>1 DEF TooMuch, SaturatingSub
<1>7. ~TooMuch(s, b, n)
  <2> SUFFICES ASSUME TooMuch(s, b, n) PROVE FALSE
    OBVIOUS
  <2>1. n \in Nat /\ n + 1 \in 1..Len(s) /\ n # Len(s)
    BY <1>1, <1>4, <1>6
  <2>2. 1..(n + 1) \subseteq T
    <3> SUFFICES ASSUME NEW i \in 1..(n + 1) PROVE i \in T
      OBVIOUS
    <3>1. i \in 1..Len(s) /\ i - 1 \in 0..n /\ n \in 0..Len(s)
      BY <1>1, <2>1
    <3>2. TooMuch(s, b, i - 1)
      BY <1>5, <3>1
    <3> QED
      BY <1>2, <3>1, <3>2
  <2>3. Cardinality(1..(n + 1)) = n + 1
    <3>1. 1 \in Int /\ n + 1 \in Int /\ ~(1 > n + 1)
      BY <2>1
    <3>2. Cardinality(1..(n + 1)) = (n + 1) - 1 + 1
      BY <3>1, FS_Interval
    <3> QED
      BY <2>1, <3>2
  <2>4. Cardinality(1..(n + 1)) <= Cardinality(T)
    BY <1>4, <2>2, FS_Subset
  <2> QED
    BY <1>3, <2>1, <2>3, <2>4
<1>8. ASSUME NEW k \in 0..(n - 1) PROVE TooMuch(s, b, k)
  <2> SUFFICES ASSUME ~TooMuch(s, b, k) PROVE FALSE
    OBVIOUS
  <2>1. k \in Nat /\ k < n /\ k \in 0..Len(s) /\ n \in Nat
    BY <1>1, <1>4
  <2>2. T \in SUBSET (1..k)
    <3> SUFFICES ASSUME NEW i \in T PROVE i \in 1..k
      OBVIOUS
    <3>1. i \in 1..Len(s) /\ TooMuch(s, b, i - 1)
      BY <1>2, <1>3
    <3>2. CASE i > k
      <4>1. i - 1 \in 0..Len(s) /\ k \in 0..(i - 1)
        BY <1>1, <2>1, <3>1, <3>2
      <4> QED
        BY <1>5, <3>1, <4>1
    <3> QED
      BY <1>1, <2>1, <3>1, <3>2
  <2>3. Cardinality(T) \in 0..k
    BY <2>1, <2>2, CountPositions
  <2> QED
    BY <1>3, <2>1, <2>3
<1> QED
  BY <1>4, <1>7, <1>8 DEF b, n

\* Popping frames off a window that is counted exactly leaves one that is.
LEMMA PopKeepsCount ==
  ASSUME NEW s \in Seq(ReplayFrame), NEW n \in 0..Len(s)
  PROVE  /\ SaturatingSub(Bytes(s), BytesOfFirst(s, n)) = Bytes(DropFirst(s, n))
         /\ Bytes(DropFirst(s, n)) <= Bytes(s)
<1> DEFINE t == DropFirst(s, n)
           k == Len(s) - n
<1>1. /\ Len(s) \in Nat /\ k \in 0..(Len(s) - n) /\ n + k = Len(s)
      /\ t \in Seq(ReplayFrame) /\ Len(t) = k /\ k \in 0..k
  BY DropType
<1> HIDE DEF t, k
<1>2. BytesOfFirst(s, n + k) = BytesOfFirst(s, n) + BytesOfFirst(t, k)
  BY <1>1, BytesOfRest DEF t
<1>3. BytesOfFirst(t, k) \in Nat /\ BytesOfFirst(s, n) \in Nat
  BY <1>1, BytesFrameByFrame
<1> QED
  BY <1>1, <1>2, <1>3 DEF t, Bytes, SaturatingSub

\* Publishing a frame and evicting for it.
LEMMA PushKeepsCount ==
  ASSUME replay \in Seq(ReplayFrame), ReplayBytesExact,
         NEW f \in ReplayFrame, PushReplay(f)
  PROVE  ReplayBytesExact'
<1> DEFINE s == Append(replay, f)
           b == Bytes(s)
           n == Overflow(s, b)
<1>1. /\ s \in Seq(ReplayFrame) /\ b = replayBytes + PayloadLen(f)
  BY BytesOfPushed DEF ReplayBytesExact
<1>2. /\ replay' = DropFirst(s, n)
      /\ replayBytes' = SaturatingSub(b, BytesOfFirst(s, n))
  BY <1>1 DEF PushReplay
<1> HIDE DEF s
<1>3. n \in 0..Len(s) /\ ~TooMuch(s, b, n)
  BY <1>1, EvictsWhatItMust
<1>4. SaturatingSub(b, BytesOfFirst(s, n)) = Bytes(DropFirst(s, n))
  BY <1>1, <1>3, PopKeepsCount
<1>5. /\ SaturatingSub(b, BytesOfFirst(s, n)) \in Int
      /\ ~(SaturatingSub(b, BytesOfFirst(s, n)) > MaxReplayBytes)
  <2>1. b \in Nat /\ BytesOfFirst(s, n) \in Nat
    BY <1>1, <1>3, BytesFrameByFrame DEF Bytes
  <2> QED
    BY <1>3, <2>1 DEF TooMuch, SaturatingSub
<1> HIDE DEF b, n
<1> QED
  BY <1>2, <1>4, <1>5, LimitsAssumption DEF ReplayBytesExact

\* Capturing a snapshot, which pops the frames it covers.
LEMMA SnapshotKeepsCount ==
  ASSUME replay \in Seq(ReplayFrame), ReplayBytesExact,
         NEW n, NEW g, SetSnapshot(n, g)
  PROVE  ReplayBytesExact'
<1> DEFINE c == Covered(n)
<1>1. /\ replay' = DropFirst(replay, c)
      /\ replayBytes' = SaturatingSub(replayBytes, BytesOfFirst(replay, c))
  BY DEF SetSnapshot
<1>2. c \in 0..Len(replay)
  BY CoveredType
<1> HIDE DEF c
<1>3. /\ SaturatingSub(Bytes(replay), BytesOfFirst(replay, c)) = Bytes(DropFirst(replay, c))
      /\ Bytes(DropFirst(replay, c)) <= Bytes(replay)
  BY <1>2, PopKeepsCount
<1>4. Bytes(replay) \in Nat /\ Bytes(DropFirst(replay, c)) \in Nat
  <2>1. Len(replay) \in 0..Len(replay) /\ DropFirst(replay, c) \in Seq(ReplayFrame)
    BY <1>2, DropType
  <2>2. \A s \in Seq(ReplayFrame) : Bytes(s) \in Nat
    <3> SUFFICES ASSUME NEW s \in Seq(ReplayFrame) PROVE Bytes(s) \in Nat
      OBVIOUS
    <3>1. Len(s) \in 0..Len(s)
      OBVIOUS
    <3> QED
      BY <3>1, BytesFrameByFrame DEF Bytes
  <2> QED
    BY <2>1, <2>2
<1> QED
  BY <1>1, <1>3, <1>4, LimitsAssumption DEF ReplayBytesExact

LEMMA CountedStep ==
  ASSUME Inv, ReplayBytesExact, [Next]_vars
  PROVE  ReplayBytesExact'
<1>0. StreamType /\ replay \in Seq(ReplayFrame)
  BY DEF Inv, StreamType
<1>1. CASE UNCHANGED <<replay, replayBytes>>
  BY <1>1 DEF ReplayBytesExact
<1>2. ASSUME NEW p \in ParticipantIds, GuestAction(p) \/ HostAction(p) \/ ThreadStep(p)
      PROVE  UNCHANGED stream
  <2>1. CASE GuestAction(p)
    BY <2>1 DEF GuestAction, Join, RequestControl, ReleaseControl, AuthorizeInput,
       WelcomeFails, SocketEnds, LeaveSession
  <2>2. CASE HostAction(p)
    BY <2>2 DEF HostAction, SetController, SetObserver, RemoveParticipant,
       BanParticipant, TypingFades
  <2>3. CASE ThreadStep(p)
    BY <2>3 DEF ThreadStep, SendJoined, SendReplay, Forward, Finish, LeaveSession
  <2> QED
    BY <1>2, <2>1, <2>2, <2>3
<1>3. ASSUME NEW k \in PayloadSizes, PublishOutput(k) PROVE ReplayBytesExact'
  <2>1. Output(nextSequence + 1, k) \in ReplayFrame
    BY <1>0, FrameType DEF StreamType
  <2> QED
    BY <1>0, <1>3, <2>1, PushKeepsCount DEF PublishOutput
<1>4. ASSUME NEW g \in Grids, PublishResize(g) PROVE ReplayBytesExact'
  <2>1. Resize(nextSequence + 1, g) \in ReplayFrame
    BY <1>0, FrameType DEF StreamType
  <2> QED
    BY <1>0, <1>4, <2>1, PushKeepsCount DEF PublishResize
<1>5. ASSUME NEW n \in 0..MaxSequence, NEW g \in Grids, SetSnapshot(n, g)
      PROVE  ReplayBytesExact'
  BY <1>0, <1>5, SnapshotKeepsCount
<1>6. CASE Close
  <2>1. <<>> \in Seq(ReplayFrame) /\ Len(<<>>) = 0
    OBVIOUS
  <2>2. Bytes(<<>>) = 0
    BY <2>1, BytesFrameByFrame DEF Bytes
  <2> QED
    BY <1>6, <2>2, LimitsAssumption DEF Close, ReplayBytesExact
<1>7. CASE PublishTerminalExit \/ Expire \/ UNCHANGED vars
  BY <1>1, <1>7 DEF PublishTerminalExit, Expire, vars, stream
<1> QED
  BY <1>1, <1>2, <1>3, <1>4, <1>5, <1>6, <1>7 DEF Next, TerminalAction, stream

\* The byte counter of the replay window is exactly the payload it holds, and
\* within MAX_REPLAY_BYTES, through every push, eviction, snapshot and close: the
\* saturating subtractions of session.rs never hide a miscount.
THEOREM CountedExactly == Spec => []ReplayBytesExact
<1>1. Init => ReplayBytesExact
  <2>1. <<>> \in Seq(ReplayFrame) /\ Len(<<>>) = 0
    OBVIOUS
  <2>2. Bytes(<<>>) = 0
    BY <2>1, BytesFrameByFrame DEF Bytes
  <2> QED
    BY <2>2, LimitsAssumption DEF Init, ReplayBytesExact
<1>2. Inv /\ ReplayBytesExact /\ [Next]_vars => ReplayBytesExact'
  BY CountedStep
<1> QED
  BY <1>1, <1>2, Invariance, PTL DEF Spec

\* What Covered counts is what the loop of set_snapshot pops (session.rs:558-568): the
\* frames up to n are the first ones of the window.
THEOREM CoversWhatItPops ==
  ASSUME replay \in Seq(ReplayFrame), ReplayOrdered, NEW n \in Nat,
         NEW i \in 1..Len(replay)
  PROVE  replay[i].sequence <= n <=> i <= Covered(n)
<1> DEFINE T == {k \in 1..Len(replay) : replay[k].sequence <= n}
<1>1. Len(replay) \in Nat /\ i \in Nat /\ i - 1 \in Nat
  OBVIOUS
<1>2. \A k \in 1..Len(replay) : replay[k].sequence \in Nat
  BY FrameType
<1>3. replay[i].sequence <= n => i <= Covered(n)
  BY CoveredEnough
<1>4. ASSUME ~(replay[i].sequence <= n) PROVE ~(i <= Covered(n))
  <2>1. T \in SUBSET (1..(i - 1))
    <3> SUFFICES ASSUME NEW k \in T PROVE k \in 1..(i - 1)
      OBVIOUS
    <3>1. k \in 1..Len(replay) /\ replay[k].sequence <= n
      OBVIOUS
    <3>2. CASE k = i
      BY <1>4, <3>1, <3>2
    <3>3. CASE k > i
      <4>1. i \in 1..(k - 1)
        BY <1>1, <3>1, <3>3
      <4>2. replay[i].sequence < replay[k].sequence
        BY <3>1, <4>1 DEF ReplayOrdered
      <4> QED
        BY <1>2, <1>4, <3>1, <4>2
    <3> QED
      BY <1>1, <3>1, <3>2, <3>3
  <2> HIDE DEF T
  <2>2. Cardinality(T) \in 0..(i - 1)
    BY <1>1, <2>1, CountPositions
  <2>3. Covered(n) = Cardinality(T)
    BY DEF T, Covered
  <2> QED
    BY <1>1, <2>2, <2>3
<1> QED
  BY <1>3, <1>4

-----------------------------------------------------------------------------
\* Lines: what a guest goes through when it takes a line of messages.

\* The last position moves with the line.
LEMMA LastOfTail ==
  ASSUME NEW n \in Nat \ {0}, NEW S, 0 \in S, S \subseteq 0..n,
         NEW T, T = {0} \cup {i \in 1..(n - 1) : i + 1 \in S},
         NEW i \in T, IsLast(i, T)
  PROVE  /\ 1 \notin S => IsLast(IF i = 0 THEN 0 ELSE i + 1, S)
         /\ 1 \in S => IsLast(i + 1, S)
<1>1. \A j \in S : j \in 0..n /\ (j > 1 => j - 1 \in T)
  BY DEF IsLast
<1>2. \A j \in S : j > 1 => j - 1 <= i
  BY <1>1 DEF IsLast
<1>3. i \in Nat /\ (i > 0 => i + 1 \in S)
  OBVIOUS
<1>4. \A j \in S : j <= 1 \/ j <= i + 1
  BY <1>1, <1>2, <1>3
<1>5. \A j \in S : 1 \notin S => j = 0 \/ j > 1
  BY <1>1
<1> QED
  BY <1>1, <1>2, <1>3, <1>4, <1>5 DEF IsLast

\* Any message of S that is data carries a numbered frame.
Framed(S) == \A m \in S : m.type = "data" => m.frame.sequence \in Nat

\* q grows into r by messages that are no frames.
GrowsQuietly(q, r) ==
  /\ Len(q) <= Len(r)
  /\ \A i \in 1..Len(q) : r[i] = q[i]
  /\ \A i \in 1..Len(r) : i > Len(q) => r[i].type # "data"

\* A line that has grown quietly has the frames it had, where it had them.
LEMMA QuietStops ==
  ASSUME NEW S, NEW q \in Seq(S), NEW r \in Seq(S), GrowsQuietly(q, r)
  PROVE  /\ Stops(r) = Stops(q)
         /\ Reflows(r) = Reflows(q)
         /\ \A i \in Stops(q) \ {0} : r[i] = q[i]
         /\ \A i \in Reflows(q) \ {0} : r[i] = q[i]
<1>1. /\ DOMAIN q = 1..Len(q) /\ DOMAIN r = 1..Len(r)
      /\ Len(q) \in Nat /\ Len(r) \in Nat
  OBVIOUS
<1>2. \A i \in DOMAIN r : i \in DOMAIN q \/ r[i].type # "data"
  BY <1>1 DEF GrowsQuietly
<1>3. \A i \in DOMAIN q : i \in DOMAIN r /\ r[i] = q[i]
  BY <1>1 DEF GrowsQuietly
<1> QED
  BY <1>2, <1>3 DEF Stops, Reflows

\* So whatever the old line promised of the guest at its end, the new one does: a
\* notice queued between frames moves neither the stream nor the grid.
LEMMA QuietLine ==
  ASSUME NEW S, NEW q \in Seq(S), NEW r \in Seq(S), GrowsQuietly(q, r),
         NEW n, NEW last
  PROVE  /\ Continues(q, n) => Continues(r, n)
         /\ EndsAt(q, n, last) => EndsAt(r, n, last)
         /\ LeavesGrid(q, n, last) => LeavesGrid(r, n, last)
<1>1. /\ Stops(r) = Stops(q)
      /\ Reflows(r) = Reflows(q)
      /\ \A i \in Stops(q) \ {0} : r[i] = q[i]
      /\ \A i \in Reflows(q) \ {0} : r[i] = q[i]
  BY QuietStops
<1>2. \A i \in Stops(q) : Reached(r, n, i) = Reached(q, n, i)
  BY <1>1 DEF Reached
<1>3. \A j \in Stops(q), i \in Stops(q) : i < j => r[j] = q[j]
  BY <1>1 DEF Stops
<1>4. Continues(q, n) => Continues(r, n)
  BY <1>1, <1>2, <1>3 DEF Continues
<1>5. EndsAt(q, n, last) => EndsAt(r, n, last)
  BY <1>1, <1>2 DEF EndsAt
<1>6. LeavesGrid(q, n, last) => LeavesGrid(r, n, last)
  BY <1>1 DEF LeavesGrid
<1> QED
  BY <1>4, <1>5, <1>6

\* A frame at the end of a line: the next of the stream.
LEMMA FedLine ==
  ASSUME NEW S, NEW q \in Seq(S), NEW f, Data(f) \in S, Framed(S),
         f.kind # "snapshot", NEW n \in Nat, NEW last \in Nat,
         f.sequence = last + 1, Continues(q, n), EndsAt(q, n, last)
  PROVE  /\ Continues(Append(q, Data(f)), n)
         /\ EndsAt(Append(q, Data(f)), n, last + 1)
<1> DEFINE r == Append(q, Data(f))
           l == Len(q) + 1
<1>1. /\ Len(q) \in Nat /\ DOMAIN q = 1..Len(q) /\ DOMAIN r = 1..l
      /\ r[l] = Data(f) /\ \A i \in 1..Len(q) : r[i] = q[i]
  OBVIOUS
<1> HIDE DEF r
<1>2. /\ r[l].type = "data" /\ r[l].frame = f
  BY <1>1 DEF Data
<1>3. /\ Stops(r) = Stops(q) \cup {l}
      /\ Stops(q) \subseteq 0..Len(q)
      /\ \A i \in Stops(q) \ {0} : r[i] = q[i]
  BY <1>1, <1>2 DEF Stops
<1>4. \A i \in Stops(q) : Reached(r, n, i) = Reached(q, n, i)
  BY <1>3 DEF Reached
<1>5. Continues(r, n)
  <2> SUFFICES ASSUME NEW i \in Stops(r), NEW j \in Stops(r), i < j,
                      \A k \in Stops(r) : k <= i \/ j <= k
               PROVE  IF r[j].frame.kind = "snapshot"
                      THEN i = 0 /\ r[j].frame.sequence >= n
                      ELSE r[j].frame.sequence = Reached(r, n, i) + 1
    BY DEF Continues
  <2>1. i \in Stops(q)
    BY <1>1, <1>3
  <2>2. CASE j = l
    <3>1. IsLast(i, Stops(q))
      BY <1>1, <1>3, <2>1, <2>2 DEF IsLast
    <3>2. Reached(q, n, i) = last
      BY <2>1, <3>1 DEF EndsAt
    <3> QED
      BY <1>2, <1>4, <2>1, <2>2, <3>2
  <2>3. CASE j # l
    <3>1. j \in Stops(q) /\ r[j] = q[j]
      BY <1>1, <1>3, <2>1, <2>3
    <3>2. \A k \in Stops(q) : k <= i \/ j <= k
      BY <1>3
    <3> QED
      BY <1>4, <2>1, <3>1, <3>2 DEF Continues
  <2> QED
    BY <2>2, <2>3
<1>6. EndsAt(r, n, last + 1)
  <2> SUFFICES ASSUME NEW i \in Stops(r), IsLast(i, Stops(r))
               PROVE  Reached(r, n, i) = last + 1
    BY DEF EndsAt
  <2>1. i = l /\ l # 0
    BY <1>1, <1>3 DEF IsLast
  <2> QED
    BY <1>2, <2>1 DEF Reached
<1> QED
  BY <1>5, <1>6 DEF r

\* The head of a line is taken: a frame is acceptable, and the rest goes on
\* from there.
Taken(n, m) == IF m.type = "data" THEN m.frame.sequence ELSE n

\* What the guest takes continues what it has, and the rest continues from there.
LEMMA TakenLine ==
  ASSUME NEW S, NEW q \in Seq(S), q # <<>>, Framed(S), NEW n \in Nat,
         Continues(q, n)
  PROVE  /\ Taken(n, Head(q)) \in Nat
         /\ Head(q).type = "data" =>
              IF Head(q).frame.kind = "snapshot" THEN Head(q).frame.sequence >= n
              ELSE Head(q).frame.sequence = n + 1
         /\ Continues(Tail(q), Taken(n, Head(q)))
         /\ \A last : EndsAt(q, n, last) => EndsAt(Tail(q), Taken(n, Head(q)), last)
<1> DEFINE r == Tail(q)
           m == Head(q)
           d == Taken(n, Head(q))
           At(i) == IF i = 0 THEN (IF 1 \in Stops(q) THEN 1 ELSE 0) ELSE i + 1
<1>1. /\ Len(q) \in Nat \ {0} /\ DOMAIN q = 1..Len(q) /\ DOMAIN r = 1..(Len(q) - 1)
      /\ q[1] = m /\ m \in S /\ \A i \in 1..(Len(q) - 1) : r[i] = q[i + 1]
  OBVIOUS
<1> HIDE DEF r, m
<1>2. /\ Stops(q) \subseteq 0..Len(q) /\ 0 \in Stops(q)
      /\ 1 \in Stops(q) <=> m.type = "data"
      /\ \A i \in Stops(q) : i # 0 => q[i].type = "data" /\ q[i] \in S
  BY <1>1 DEF Stops
<1>3. Stops(r) = {0} \cup {i \in 1..(Len(q) - 1) : i + 1 \in Stops(q)}
  BY <1>1 DEF Stops
<1>4. d \in Nat
  BY <1>1 DEF Framed, Taken, m
<1>5. \A i \in Stops(r) : /\ At(i) \in Stops(q)
                          /\ Reached(r, d, i) = Reached(q, n, At(i))
                          /\ i # 0 => r[i] = q[At(i)]
  <2> SUFFICES ASSUME NEW i \in Stops(r)
               PROVE  /\ At(i) \in Stops(q)
                      /\ Reached(r, d, i) = Reached(q, n, At(i))
                      /\ i # 0 => r[i] = q[At(i)]
    OBVIOUS
  <2>1. CASE i = 0
    BY <1>1, <1>2, <2>1 DEF Reached, Taken, m
  <2>2. CASE i # 0
    BY <1>1, <1>3, <2>2 DEF Reached
  <2> QED
    BY <2>1, <2>2
<1>6. \A i, j \in Stops(r) : i < j => At(i) < At(j)
  BY <1>1, <1>2, <1>3
<1>7. \A k \in Stops(q) : k = 0 \/ k = 1 \/ (k - 1 \in Stops(r) /\ At(k - 1) = k)
  BY <1>1, <1>2, <1>3
<1>8. m.type = "data" =>
        IF m.frame.kind = "snapshot" THEN m.frame.sequence >= n
        ELSE m.frame.sequence = n + 1
  <2> SUFFICES ASSUME m.type = "data"
               PROVE  IF m.frame.kind = "snapshot" THEN m.frame.sequence >= n
                      ELSE m.frame.sequence = n + 1
    OBVIOUS
  <2>1. 0 \in Stops(q) /\ 1 \in Stops(q) /\ \A k \in Stops(q) : k <= 0 \/ 1 <= k
    BY <1>1, <1>2
  <2>2. IF q[1].frame.kind = "snapshot" THEN 0 = 0 /\ q[1].frame.sequence >= n
        ELSE q[1].frame.sequence = Reached(q, n, 0) + 1
    BY <2>1 DEF Continues
  <2> QED
    BY <1>1, <2>2 DEF Reached
<1>9. Continues(r, d)
  <2> SUFFICES ASSUME NEW i \in Stops(r), NEW j \in Stops(r), i < j,
                      \A k \in Stops(r) : k <= i \/ j <= k
               PROVE  IF r[j].frame.kind = "snapshot"
                      THEN i = 0 /\ r[j].frame.sequence >= d
                      ELSE r[j].frame.sequence = Reached(r, d, i) + 1
    BY DEF Continues
  <2>1. i \in 0..(Len(q) - 1) /\ j \in 1..(Len(q) - 1)
    BY <1>1, <1>3
  <2>2. \A k \in Stops(q) : k <= At(i) \/ At(j) <= k
    <3> SUFFICES ASSUME NEW k \in Stops(q) PROVE k <= At(i) \/ At(j) <= k
      OBVIOUS
    <3>1. CASE k = 0 \/ k = 1
      BY <1>1, <1>2, <2>1, <3>1
    <3>2. CASE k # 0 /\ k # 1
      <4>1. k - 1 \in Stops(r) /\ k \in 2..Len(q)
        BY <1>1, <1>2, <1>7, <3>2
      <4>2. k - 1 <= i \/ j <= k - 1
        BY <4>1
      <4> QED
        BY <1>1, <2>1, <4>1, <4>2
    <3> QED
      BY <3>1, <3>2
  <2>3. At(i) \in Stops(q) /\ At(j) \in Stops(q) /\ At(i) < At(j) /\ r[j] = q[At(j)]
    BY <1>5, <1>6, <2>1
  <2>4. IF q[At(j)].frame.kind = "snapshot"
        THEN At(i) = 0 /\ q[At(j)].frame.sequence >= n
        ELSE q[At(j)].frame.sequence = Reached(q, n, At(i)) + 1
    <3> HIDE DEF At
    <3> QED
      BY <2>2, <2>3 DEF Continues
  <2>5. At(i) = 0 => i = 0 /\ d = n
    BY <1>2, <2>1 DEF Taken, m
  <2> HIDE DEF At
  <2> QED
    BY <1>5, <2>3, <2>4, <2>5
<1>10. ASSUME NEW last, EndsAt(q, n, last) PROVE EndsAt(r, d, last)
  <2> SUFFICES ASSUME NEW i \in Stops(r), IsLast(i, Stops(r))
               PROVE  Reached(r, d, i) = last
    BY DEF EndsAt
  <2>1. IsLast(At(i), Stops(q))
    BY <1>1, <1>2, <1>3, LastOfTail
  <2>2. Reached(q, n, At(i)) = last
    <3> HIDE DEF At
    <3> QED
      BY <1>5, <1>10, <2>1 DEF EndsAt
  <2> HIDE DEF At
  <2> QED
    BY <1>5, <2>2
<1> QED
  BY <1>4, <1>8, <1>9, <1>10 DEF r, m

\* The line as welcome and queue.
Row(w, q) == [i \in DOMAIN w |-> Data(w[i])] \o q

\* The line is the welcome, each frame as a data message, and then the queue.
LEMMA RowType ==
  ASSUME NEW w \in Seq(DataFrame), NEW q \in Seq(OutboundMessage)
  PROVE  /\ Row(w, q) \in Seq(OutboundMessage)
         /\ Len(Row(w, q)) = Len(w) + Len(q)
         /\ \A i \in 1..Len(w) : Row(w, q)[i] = Data(w[i])
         /\ \A i \in 1..Len(q) : Row(w, q)[Len(w) + i] = q[i]
<1> DEFINE d == [i \in DOMAIN w |-> Data(w[i])]
<1>1. /\ DOMAIN w = 1..Len(w) /\ Len(w) \in Nat /\ \A i \in DOMAIN w : w[i] \in DataFrame
      /\ DOMAIN q = 1..Len(q) /\ Len(q) \in Nat
  OBVIOUS
<1>2. \A i \in DOMAIN w : Data(w[i]) \in OutboundMessage
  BY <1>1, MessageType
<1>3. d \in Seq(OutboundMessage) /\ Len(d) = Len(w) /\ \A i \in 1..Len(w) : d[i] = Data(w[i])
  BY <1>1, <1>2
<1> HIDE DEF d
<1>4. /\ d \o q \in Seq(OutboundMessage) /\ Len(d \o q) = Len(d) + Len(q)
      /\ \A i \in 1..(Len(d) + Len(q)) :
           (d \o q)[i] = IF i <= Len(d) THEN d[i] ELSE q[i - Len(d)]
  BY <1>3, ConcatProperties, Zenon
<1>5. Row(w, q) = d \o q
  BY DEF Row, d
<1> QED
  BY <1>1, <1>3, <1>4, <1>5

\* Every data message of the server carries a numbered frame.
LEMMA MessagesFramed == Framed(OutboundMessage)
<1>1. \A f \in DataFrame : f.sequence \in Nat
  BY DEF DataFrame, ReplayFrame, SnapshotFrame
<1>2. \A m \in OutboundMessage : m.type = "data" => m.frame \in DataFrame
  BY DEF OutboundMessage, Closed
<1> QED
  BY <1>1, <1>2 DEF Framed

\* Growing quietly is transitive, and so grows the line when the queue does.
LEMMA QuietAgain ==
  ASSUME NEW S, NEW a \in Seq(S), NEW b \in Seq(S), NEW c \in Seq(S)
  PROVE  /\ GrowsQuietly(a, a)
         /\ GrowsQuietly(a, b) /\ GrowsQuietly(b, c) => GrowsQuietly(a, c)
<1>1. Len(a) \in Nat /\ Len(b) \in Nat /\ Len(c) \in Nat
  OBVIOUS
<1>2. ASSUME GrowsQuietly(a, b), GrowsQuietly(b, c)
      PROVE  GrowsQuietly(a, c)
  <2>1. \A i \in 1..Len(a) : i \in 1..Len(b)
    BY <1>1, <1>2 DEF GrowsQuietly
  <2>2. \A i \in 1..Len(c) : i > Len(a) => c[i].type # "data"
    BY <1>1, <1>2 DEF GrowsQuietly
  <2>3. \A i \in 1..Len(a) : c[i] = a[i]
    BY <1>2, <2>1 DEF GrowsQuietly
  <2>4. Len(a) <= Len(c)
    BY <1>1, <1>2 DEF GrowsQuietly
  <2> QED
    BY <2>2, <2>3, <2>4 DEF GrowsQuietly
<1>3. GrowsQuietly(a, a)
  BY <1>1 DEF GrowsQuietly
<1> QED
  BY <1>2, <1>3

\* When the queue of a connection grows quietly, its line does.
LEMMA RowGrows ==
  ASSUME NEW w \in Seq(DataFrame), NEW q \in Seq(OutboundMessage),
         NEW r \in Seq(OutboundMessage), GrowsQuietly(q, r)
  PROVE  GrowsQuietly(Row(w, q), Row(w, r))
<1>1. /\ Len(w) \in Nat /\ Len(q) \in Nat /\ Len(r) \in Nat
      /\ Len(Row(w, q)) = Len(w) + Len(q) /\ Len(Row(w, r)) = Len(w) + Len(r)
  BY RowType
<1>2. /\ \A i \in 1..Len(w) : Row(w, q)[i] = Row(w, r)[i]
      /\ \A i \in 1..Len(q) : Row(w, q)[Len(w) + i] = q[i]
      /\ \A i \in 1..Len(r) : Row(w, r)[Len(w) + i] = r[i]
  BY RowType
<1>3. ASSUME NEW i \in 1..(Len(w) + Len(q)) PROVE Row(w, r)[i] = Row(w, q)[i]
  <2>1. CASE i <= Len(w)
    BY <1>1, <1>2, <2>1
  <2>2. CASE i > Len(w)
    <3> DEFINE k == i - Len(w)
    <3>1. k \in 1..Len(q) /\ k \in 1..Len(r) /\ i = Len(w) + k
      BY <1>1, <2>2 DEF GrowsQuietly
    <3> HIDE DEF k
    <3> QED
      BY <1>2, <3>1 DEF GrowsQuietly
  <2> QED
    BY <1>1, <2>1, <2>2
<1>4. ASSUME NEW i \in 1..(Len(w) + Len(r)), i > Len(w) + Len(q)
      PROVE  Row(w, r)[i].type # "data"
  <2> DEFINE k == i - Len(w)
  <2>1. k \in 1..Len(r) /\ k > Len(q) /\ i = Len(w) + k
    BY <1>1, <1>4
  <2> HIDE DEF k
  <2> QED
    BY <1>2, <2>1 DEF GrowsQuietly
<1>5. Len(Row(w, q)) <= Len(Row(w, r))
  BY <1>1 DEF GrowsQuietly
<1> QED
  BY <1>1, <1>3, <1>4, <1>5 DEF GrowsQuietly

\* What try_send appends to the queue ends the line too.
LEMMA RowFed ==
  ASSUME NEW w \in Seq(DataFrame), NEW q \in Seq(OutboundMessage),
         NEW m \in OutboundMessage
  PROVE  Row(w, Append(q, m)) = Append(Row(w, q), m)
<1> DEFINE d == [i \in DOMAIN w |-> Data(w[i])]
<1>1. DOMAIN w = 1..Len(w) /\ Len(w) \in Nat /\ \A i \in DOMAIN w : w[i] \in DataFrame
  OBVIOUS
<1>2. \A i \in DOMAIN w : Data(w[i]) \in OutboundMessage
  BY <1>1, MessageType
<1>3. d \in Seq(OutboundMessage)
  BY <1>1, <1>2
<1>4. Row(w, q) = d \o q /\ Row(w, Append(q, m)) = d \o Append(q, m)
  BY DEF Row
<1> HIDE DEF d
<1>5. d \o Append(q, m) = Append(d \o q, m)
  BY <1>3
<1> QED
  BY <1>4, <1>5

\* While the welcome is being written its first frame is the head of the line.
LEMMA RowTaken ==
  ASSUME NEW w \in Seq(DataFrame), NEW q \in Seq(OutboundMessage)
  PROVE  /\ w = <<>> => Row(w, q) = q
         /\ w # <<>> => /\ Row(w, q) # <<>>
                        /\ Head(Row(w, q)) = Data(Head(w))
                        /\ Tail(Row(w, q)) = Row(Tail(w), q)
<1>1. ASSUME w = <<>> PROVE Row(w, q) = q
  <2>1. Row(w, q) = <<>> \o q
    BY <1>1 DEF Row
  <2> QED
    BY <2>1
<1>2. ASSUME w # <<>>
      PROVE  /\ Row(w, q) # <<>>
             /\ Head(Row(w, q)) = Data(Head(w))
             /\ Tail(Row(w, q)) = Row(Tail(w), q)
  <2>1. /\ Len(w) \in Nat /\ Len(w) > 0 /\ Len(q) \in Nat /\ Head(w) = w[1]
        /\ Tail(w) \in Seq(DataFrame) /\ Len(Tail(w)) = Len(w) - 1
        /\ \A i \in 1..(Len(w) - 1) : Tail(w)[i] = w[i + 1]
    BY <1>2
  <2> DEFINE a == Row(w, q)
             b == Row(Tail(w), q)
  <2>2. /\ a \in Seq(OutboundMessage) /\ Len(a) = Len(w) + Len(q)
        /\ \A i \in 1..Len(w) : a[i] = Data(w[i])
        /\ \A i \in 1..Len(q) : a[Len(w) + i] = q[i]
    BY RowType
  <2>3. /\ b \in Seq(OutboundMessage) /\ Len(b) = Len(w) - 1 + Len(q)
        /\ \A i \in 1..(Len(w) - 1) : b[i] = Data(w[i + 1])
        /\ \A i \in 1..Len(q) : b[Len(w) - 1 + i] = q[i]
    <3>1. /\ b \in Seq(OutboundMessage) /\ Len(b) = Len(Tail(w)) + Len(q)
          /\ \A i \in 1..Len(Tail(w)) : b[i] = Data(Tail(w)[i])
          /\ \A i \in 1..Len(q) : b[Len(Tail(w)) + i] = q[i]
      BY <2>1, RowType
    <3> QED
      BY <2>1, <3>1
  <2> HIDE DEF a, b
  <2>4. a # <<>> /\ Len(a) > 0
    BY <2>1, <2>2
  <2>5. /\ Head(a) = a[1] /\ Tail(a) \in Seq(OutboundMessage) /\ Len(Tail(a)) = Len(a) - 1
        /\ \A i \in 1..(Len(a) - 1) : Tail(a)[i] = a[i + 1]
    BY <2>2, <2>4
  <2>6. Head(a) = Data(Head(w))
    BY <2>1, <2>2, <2>5
  <2> DEFINE t == Tail(a)
  <2>7. /\ t \in Seq(OutboundMessage) /\ Len(t) = Len(b)
        /\ \A i \in 1..(Len(a) - 1) : t[i] = a[i + 1]
    BY <2>1, <2>2, <2>3, <2>5
  <2> HIDE DEF t
  <2>8. ASSUME NEW i \in 1..Len(t) PROVE t[i] = b[i]
    <3>0. i \in Int /\ i >= 1 /\ i <= Len(w) - 1 + Len(q) /\ i \in 1..(Len(a) - 1)
      BY <2>1, <2>2, <2>3, <2>7, <2>8
    <3>1. CASE i <= Len(w) - 1
      <4>1. i \in 1..(Len(w) - 1) /\ i + 1 \in 1..Len(w)
        BY <2>1, <3>0, <3>1
      <4> QED
        BY <2>2, <2>3, <2>7, <3>0, <4>1
    <3>2. CASE i > Len(w) - 1
      <4> DEFINE k == i - (Len(w) - 1)
      <4>1. k \in 1..Len(q) /\ i = Len(w) - 1 + k /\ i + 1 = Len(w) + k
        BY <2>1, <3>0, <3>2
      <4> HIDE DEF k
      <4> QED
        BY <2>2, <2>3, <2>7, <3>0, <4>1
    <3> QED
      BY <2>1, <3>0, <3>1, <3>2
  <2>9. t = b
    BY <2>3, <2>7, <2>8, SeqEqual, Zenon
  <2> QED
    BY <2>4, <2>6, <2>9 DEF a, b, t
<1> QED
  BY <1>1, <1>2

-----------------------------------------------------------------------------
\* What a step of the session does to the line of one participant.

\* A thread that serves its queue has written its whole welcome.
Flowing == Untouched /\ \A p \in ParticipantIds : phase[p] = "running" => welcome[p] = <<>>

\* The grid p shows its guest, from Joined on.
Shows(p) == IF phase[p] = "joined" THEN grid ELSE view[p].grid

\* What a step of the session does to the line of p.  p joins ...
Joins(p) ==
  /\ phase[p] = "absent" /\ phase'[p] = "joined"
  /\ UNCHANGED <<stream, grid>>
  /\ outbound'[p] = <<>>
  /\ \E after \in Nat \cup {Fresh} :
       /\ ReplayAvailable(after)
       /\ welcome'[p] = ReplayForJoin(after)
       /\ view'[p].sequence = IF after = Fresh THEN 0 ELSE after

\* ... or hears news, or nothing ...
Hears(p) ==
  /\ nextSequence' = nextSequence
  /\ Receiving(p)' => Receiving(p)
  /\ p \in participants' => p \in participants
  /\ welcome'[p] = welcome[p]
  /\ view'[p].sequence = view[p].sequence
  /\ grid' = grid => Shows(p)' = Shows(p)
  /\ GrowsQuietly(outbound[p], outbound'[p])

\* ... or the next frame of the stream is queued for it, unless it lags ...
IsFed(p) ==
  /\ nextSequence' = nextSequence + 1
  /\ phase'[p] = phase[p] /\ welcome'[p] = welcome[p] /\ view'[p] = view[p]
  /\ p \in participants' => p \in participants
  /\ \E f \in DataFrame :
       /\ f.sequence = nextSequence + 1
       /\ \/ f.kind = "resize" /\ grid' = f.grid
          \/ f.kind \in {"output", "exit"} /\ grid' = grid
       /\ outbound'[p] = IF p \in participants' /\ Receiving(p)
                         THEN Append(outbound[p], Data(f)) ELSE outbound[p]

\* ... or its thread writes the head of the line to the socket ...
Takes(p) ==
  /\ UNCHANGED <<nextSequence, grid>>
  /\ phase[p] \in {"replaying", "running"} /\ phase'[p] = phase[p]
  /\ participants' = participants
  /\ Line(p) # <<>> /\ Line(p)' = Tail(Line(p))
  /\ view'[p] = Shown(p, view[p], Head(Line(p)))

\* ... or its connection ends.
Ends(p) == phase'[p] = "dropped"

\* These five are all that a step can do to the line of a participant.
Moves(p) == Joins(p) \/ Hears(p) \/ IsFed(p) \/ Takes(p) \/ Ends(p)

\* try_send of a message that is no frame: each queue grows quietly or stays.
LEMMA SentQuietly ==
  ASSUME NEW q \in Queues, NEW ps, NEW m \in OutboundMessage, m.type # "data",
         NEW p \in ParticipantIds
  PROVE  GrowsQuietly(q[p], TrySend(ps, q, m)[p])
<1>1. q[p] \in Seq(OutboundMessage)
  BY DEF Queues
<1>2. CASE TrySend(ps, q, m)[p] = q[p]
  BY <1>1, <1>2, QuietAgain
<1>3. CASE TrySend(ps, q, m)[p] = Append(q[p], m)
  BY <1>1, <1>3 DEF GrowsQuietly
<1> QED
  BY <1>2, <1>3 DEF TrySend

\* No notice of the session is a frame.
LEMMA NewsIsQuiet ==
  /\ \A p \in ParticipantIds :
       /\ ParticipantJoined(p).type # "data" /\ ParticipantLeft(p).type # "data"
       /\ ControlRequested(p).type # "data"
       /\ \A r \in Roles : RoleChanged(p, r).type # "data"
  /\ Closed.type # "data"
BY DEF ParticipantJoined, ParticipantLeft, ControlRequested, RoleChanged, Closed

\* A broadcast of news, to queues q that have grown quietly themselves.
LEMMA BroadcastHeard ==
  ASSUME outbound \in Queues, NEW q \in Queues, NEW ps, NEW r, NEW c, NEW m \in OutboundMessage,
         m.type # "data", Broadcast(ps, r, c, q, m), NEW p \in ParticipantIds,
         GrowsQuietly(outbound[p], q[p])
  PROVE  GrowsQuietly(outbound[p], outbound'[p])
<1>1. outbound' = TrySend(ps, q, m) /\ outbound' \in Queues
  BY TrySendType DEF Broadcast, Queues
<1>2. GrowsQuietly(q[p], outbound'[p])
  BY <1>1, SentQuietly
<1>3. /\ outbound[p] \in Seq(OutboundMessage) /\ q[p] \in Seq(OutboundMessage)
      /\ outbound'[p] \in Seq(OutboundMessage)
  BY <1>1 DEF Queues
<1> QED
  BY <1>2, <1>3, QuietAgain

\* One broadcast of news to all, or a set of them that shrinks.
LEMMA NewsHeard ==
  ASSUME Inv, NEW q \in Queues, NEW ps, ps \subseteq participants, NEW r, NEW c,
         NEW m \in OutboundMessage, m.type # "data", Broadcast(ps, r, c, q, m),
         NEW p \in ParticipantIds, GrowsQuietly(outbound[p], q[p]),
         nextSequence' = nextSequence, UNCHANGED <<grid, threads>>
  PROVE  Hears(p)
<1>1. outbound \in Queues
  BY DEF Inv, QueueType, Queues
<1>2. GrowsQuietly(outbound[p], outbound'[p])
  BY <1>1, BroadcastHeard
<1>3. p \in participants' => p \in participants
  BY DEF Broadcast
<1>4. phase' = phase /\ welcome' = welcome /\ view' = view
  BY DEF threads
<1> QED
  BY <1>2, <1>3, <1>4 DEF Hears, Shows, Receiving

\* What guests and the host do about control and membership is heard as news.
LEMMA ControlMoves ==
  ASSUME Inv, NEW x \in ParticipantIds, NEW p \in ParticipantIds,
         \/ RequestControl(x) \/ ReleaseControl(x) \/ SetObserver(x)
         \/ RemoveParticipant(x) \/ BanParticipant(x) \/ SetController(x)
  PROVE  Hears(p)
<1>1. outbound \in Queues /\ outbound[p] \in Seq(OutboundMessage)
  BY DEF Inv, QueueType, Queues
<1>2. GrowsQuietly(outbound[p], outbound[p])
  BY <1>1, QuietAgain
<1>3. nextSequence' = nextSequence /\ UNCHANGED <<grid, threads>>
  BY DEF RequestControl, ReleaseControl, SetObserver, RemoveParticipant,
     BanParticipant, SetController, session, stream
<1>4. /\ ControlRequested(x) \in OutboundMessage /\ ControlRequested(x).type # "data"
      /\ ParticipantLeft(x) \in OutboundMessage /\ ParticipantLeft(x).type # "data"
      /\ \A r \in Roles : RoleChanged(x, r) \in OutboundMessage /\ RoleChanged(x, r).type # "data"
      /\ Closed \in OutboundMessage /\ Closed.type # "data"
  BY MessageType, NewsIsQuiet
<1>5. CASE RequestControl(x)
  <2>1. \E r, c : Broadcast(participants, r, c, outbound, ControlRequested(x))
    BY <1>5 DEF RequestControl
  <2> QED
    BY <1>1, <1>2, <1>3, <1>4, <2>1, NewsHeard
<1>6. CASE ReleaseControl(x) \/ SetObserver(x)
  <2>1. \E r, c : Broadcast(participants, r, c, outbound, RoleChanged(x, "observer"))
    BY <1>6 DEF ReleaseControl, SetObserver
  <2> QED
    BY <1>1, <1>2, <1>3, <1>4, <2>1, NewsHeard DEF Roles
<1>7. CASE RemoveParticipant(x) \/ BanParticipant(x)
  <2> DEFINE q == TrySend({x}, outbound, Closed)
             ps == participants \ {x}
  <2>1. \E r, c : Broadcast(ps, r, c, q, ParticipantLeft(x))
    BY <1>7 DEF RemoveParticipant, BanParticipant, Expel
  <2>2. q \in Queues /\ GrowsQuietly(outbound[p], q[p]) /\ ps \subseteq participants
    BY <1>1, <1>4, TrySendType, SentQuietly DEF Queues
  <2> HIDE DEF q, ps
  <2> QED
    BY <1>3, <1>4, <2>1, <2>2, NewsHeard
<1>8. CASE SetController(x)
  <2>1. CASE controllerId \in {NoOne, x}
    <3>1. \E r, c : Broadcast(participants, r, c, outbound, RoleChanged(x, "controller"))
      BY <1>8, <2>1 DEF SetController
    <3> QED
      BY <1>1, <1>2, <1>3, <1>4, <3>1, NewsHeard DEF Roles
  <2>2. CASE controllerId \notin {NoOne, x}
    <3> DEFINE m == RoleChanged(controllerId, "observer")
               q == TrySend(participants, outbound, m)
               ps == participants \ Lagged(participants, outbound)
    <3>1. \E r, c : Broadcast(ps, r, c, q, RoleChanged(x, "controller"))
      BY <1>8, <2>2 DEF SetController
    <3>2. m \in OutboundMessage /\ m.type # "data"
      BY <2>2, MessageType, NewsIsQuiet DEF Inv, Told, Telling, Roles
    <3>3. q \in Queues /\ GrowsQuietly(outbound[p], q[p]) /\ ps \subseteq participants
      BY <1>1, <3>2, TrySendType, SentQuietly DEF Queues
    <3> HIDE DEF q, ps
    <3> QED
      BY <1>3, <1>4, <3>1, <3>3, NewsHeard DEF Roles
  <2> QED
    BY <2>1, <2>2
<1> QED
  BY <1>5, <1>6, <1>7, <1>8

\* Steps that touch neither line nor membership.
LEMMA SilenceHeard ==
  ASSUME Inv, NEW p \in ParticipantIds, outbound' = outbound, participants' = participants,
         nextSequence' = nextSequence, UNCHANGED threads
  PROVE  Hears(p)
<1>1. outbound[p] \in Seq(OutboundMessage)
  BY DEF Inv, QueueType
<1>2. GrowsQuietly(outbound[p], outbound'[p])
  BY <1>1, QuietAgain
<1> QED
  BY <1>2 DEF Hears, Shows, Receiving, threads

\* A join starts the joiner's line and is news to everyone else.
LEMMA JoinMoves ==
  ASSUME Inv, Flowing, NEW x \in ParticipantIds, NEW p \in ParticipantIds,
         NEW name, NEW nonce, NEW after \in Nat \cup {Fresh}, Join(x, name, nonce, after)
  PROVE  (p = x => Joins(p)) /\ (p # x => Hears(p))
<1>1. /\ phase[x] = "absent" /\ phase' = [phase EXCEPT ![x] = "joined"]
      /\ participants' = (participants \ Lagged(participants, outbound)) \cup {x}
      /\ outbound' = TrySend(participants, outbound, ParticipantJoined(x))
      /\ welcome' = [welcome EXCEPT ![x] = ReplayForJoin(after)]
      /\ view' = [view EXCEPT ![x].sequence = IF after = Fresh THEN 0 ELSE after]
      /\ UNCHANGED <<stream, grid>> /\ ReplayAvailable(after)
  BY DEF Join
<1>2. /\ outbound \in Queues /\ phase \in [ParticipantIds -> Phases]
      /\ view \in [ParticipantIds -> ViewType] /\ welcome \in [ParticipantIds -> Seq(DataFrame)]
  BY DEF Inv, QueueType, Queues, ThreadType
<1>3. CASE p = x
  <2>1. outbound'[p] = <<>>
    BY <1>1, <1>3 DEF TrySend, Receiving, Flowing, Untouched
  <2>2. view'[p].sequence = IF after = Fresh THEN 0 ELSE after
    BY <1>1, <1>2, <1>3 DEF ViewType
  <2> QED
    BY <1>1, <1>2, <1>3, <2>1, <2>2 DEF Joins
<1>4. CASE p # x
  <2>1. GrowsQuietly(outbound[p], outbound'[p])
    BY <1>1, <1>2, SentQuietly, MessageType, NewsIsQuiet
  <2>2. phase'[p] = phase[p] /\ welcome'[p] = welcome[p] /\ view'[p] = view[p]
    BY <1>1, <1>2, <1>4
  <2>3. p \in participants' => p \in participants
    BY <1>1, <1>4
  <2>4. nextSequence' = nextSequence /\ grid' = grid
    BY <1>1 DEF stream
  <2>5. Shows(p)' = Shows(p) /\ (Receiving(p)' => Receiving(p)) /\ welcome'[p] = welcome[p]
    BY <2>2, <2>4 DEF Shows, Receiving
  <2> QED
    BY <1>4, <2>1, <2>2, <2>3, <2>4, <2>5 DEF Hears
<1> QED
  BY <1>3, <1>4

\* A published frame is the next of every line that has room for it.
LEMMA PublishMoves ==
  ASSUME Inv, NEW p \in ParticipantIds, NEW f \in DataFrame, NEW g, Publish(f, g),
         f.sequence = nextSequence + 1,
         \/ f.kind = "resize" /\ g = f.grid
         \/ f.kind \in {"output", "exit"} /\ g = grid
  PROVE  IsFed(p)
<1>1. /\ nextSequence' = nextSequence + 1 /\ grid' = g
      /\ phase' = phase /\ welcome' = welcome /\ view' = view
      /\ participants' = participants \ Lagged(participants, outbound)
      /\ outbound' = TrySend(participants, outbound, Data(f))
  BY DEF Publish, Broadcast, threads
<1>2. outbound'[p] = IF p \in participants' /\ Receiving(p)
                     THEN Append(outbound[p], Data(f)) ELSE outbound[p]
  BY <1>1 DEF TrySend, Lagged
<1> QED
  BY <1>1, <1>2 DEF IsFed

\* What the terminal and the host's webview do to the lines: a frame published, or
\* nothing at all, or the farewell of a stopped share.
LEMMA StreamMoves ==
  ASSUME Inv, NEW p \in ParticipantIds, TerminalAction
  PROVE  Hears(p) \/ IsFed(p)
<1>0. nextSequence \in Nat /\ grid \in Grids /\ outbound \in Queues
  BY DEF Inv, StreamType, SessionType, QueueType, Queues
<1>1. ASSUME NEW k \in PayloadSizes, PublishOutput(k) PROVE IsFed(p)
  <2>1. /\ Output(nextSequence + 1, k) \in DataFrame
        /\ Output(nextSequence + 1, k).kind = "output"
        /\ Output(nextSequence + 1, k).sequence = nextSequence + 1
    BY <1>0, FrameType DEF Output
  <2> QED
    BY <1>1, <2>1, PublishMoves DEF PublishOutput
<1>2. ASSUME NEW g \in Grids, PublishResize(g) PROVE IsFed(p)
  <2>1. Resize(nextSequence + 1, g) \in DataFrame
    BY <1>0, FrameType
  <2>2. /\ Resize(nextSequence + 1, g).kind = "resize"
        /\ Resize(nextSequence + 1, g).grid = g
        /\ Resize(nextSequence + 1, g).sequence = nextSequence + 1
    BY DEF Resize
  <2> QED
    BY <1>2, <2>1, <2>2, PublishMoves DEF PublishResize
<1>3. CASE PublishTerminalExit
  <2>1. /\ Exit(nextSequence + 1) \in DataFrame
        /\ Exit(nextSequence + 1).kind = "exit"
        /\ Exit(nextSequence + 1).sequence = nextSequence + 1
    BY <1>0, FrameType DEF Exit
  <2> QED
    BY <1>3, <2>1, PublishMoves DEF PublishTerminalExit
<1>4. ASSUME NEW n, NEW g, SetSnapshot(n, g) PROVE Hears(p)
  BY <1>4, SilenceHeard DEF SetSnapshot, members
<1>5. CASE Expire
  BY <1>5, SilenceHeard DEF Expire, members, stream
<1>6. CASE Close
  <2>1. /\ outbound' = TrySend(participants, outbound, Closed) /\ participants' = {}
        /\ UNCHANGED <<nextSequence, grid, threads>>
    BY <1>6 DEF Close
  <2>2. GrowsQuietly(outbound[p], outbound'[p])
    BY <1>0, <2>1, SentQuietly, MessageType, NewsIsQuiet
  <2> QED
    BY <2>1, <2>2 DEF Hears, Shows, Receiving, threads
<1> QED
  BY <1>1, <1>2, <1>3, <1>4, <1>5, <1>6 DEF TerminalAction

\* What the thread of one connection does: write its line, or end.
LEMMA ThreadMoves ==
  ASSUME Inv, Flowing, NEW x \in ParticipantIds, NEW p \in ParticipantIds,
         ThreadStep(x) \/ WelcomeFails(x) \/ SocketEnds(x)
  PROVE  Moves(p) /\ (p # x => Hears(p))
<1>1. /\ outbound \in Queues /\ phase \in [ParticipantIds -> Phases]
      /\ view \in [ParticipantIds -> ViewType] /\ welcome \in [ParticipantIds -> Seq(DataFrame)]
      /\ outbound[p] \in Seq(OutboundMessage) /\ welcome[p] \in Seq(DataFrame)
  BY DEF Inv, QueueType, Queues, ThreadType
<1>2. GrowsQuietly(outbound[p], outbound[p])
  BY <1>1, QuietAgain
<1>3. CASE SendJoined(x)
  <2>1. /\ phase[x] = "joined" /\ phase' = [phase EXCEPT ![x] = "replaying"]
        /\ view' = [view EXCEPT ![x].grid = grid]
        /\ UNCHANGED <<grid, nextSequence, participants, outbound, welcome>>
    BY <1>3 DEF SendJoined, session, stream, members
  <2>2. /\ view'[p].sequence = view[p].sequence
        /\ Shows(p)' = Shows(p)
        /\ Receiving(p)' => Receiving(p)
    BY <1>1, <2>1 DEF ViewType, Shows, Receiving
  <2> QED
    BY <1>2, <2>1, <2>2 DEF Moves, Hears
<1>4. CASE SendReplay(x)
  <2>0. /\ phase[x] = "replaying"
        /\ UNCHANGED <<grid, nextSequence, participants, outbound>>
    BY <1>4 DEF SendReplay, session, stream, members
  <2>1. CASE welcome[x] = <<>>
    <3>1. phase' = [phase EXCEPT ![x] = "running"] /\ UNCHANGED <<view, welcome>>
      BY <1>4, <2>1 DEF SendReplay
    <3> QED
      BY <1>1, <1>2, <2>0, <3>1 DEF Moves, Hears, Shows, Receiving
  <2>2. CASE welcome[x] # <<>>
    <3>1. /\ view' = [view EXCEPT ![x] = Shown(x, @, Data(Head(welcome[x])))]
          /\ welcome' = [welcome EXCEPT ![x] = Tail(@)] /\ phase' = phase
      BY <1>4, <2>2 DEF SendReplay
    <3>2. CASE p # x
      BY <1>1, <1>2, <2>0, <3>1, <3>2 DEF Moves, Hears, Shows, Receiving
    <3>3. CASE p = x
      <4>1. /\ welcome[p] # <<>> /\ welcome'[p] = Tail(welcome[p])
            /\ outbound'[p] = outbound[p]
            /\ view'[p] = Shown(p, view[p], Data(Head(welcome[p])))
        BY <1>1, <2>0, <2>2, <3>1, <3>3
      <4>2. /\ Row(welcome[p], outbound[p]) # <<>>
            /\ Head(Row(welcome[p], outbound[p])) = Data(Head(welcome[p]))
            /\ Tail(Row(welcome[p], outbound[p])) = Row(Tail(welcome[p]), outbound[p])
        BY <1>1, <4>1, RowTaken
      <4>3. Line(p) = Row(welcome[p], outbound[p]) /\ Line(p)' = Row(welcome'[p], outbound'[p])
        BY DEF Line, Row
      <4> QED
        BY <2>0, <3>1, <3>3, <4>1, <4>2, <4>3 DEF Moves, Takes
    <3> QED
      BY <3>2, <3>3
  <2> QED
    BY <2>1, <2>2
<1>5. CASE WelcomeFails(x)
  BY <1>1, <1>2, <1>5 DEF WelcomeFails, Moves, Hears, Ends, Shows, Receiving, session, stream
<1>6. CASE Forward(x)
  <2>1. /\ phase[x] = "running" /\ outbound[x] # <<>> /\ phase' = phase /\ welcome' = welcome
        /\ view' = [view EXCEPT ![x] = Shown(x, @, Head(outbound[x]))]
        /\ outbound' = [outbound EXCEPT ![x] = Tail(@)]
        /\ UNCHANGED <<grid, nextSequence, participants>>
    BY <1>6 DEF Forward, session, stream
  <2>2. CASE p # x
    BY <1>1, <1>2, <2>1, <2>2 DEF Moves, Hears, Shows, Receiving, Queues
  <2>3. CASE p = x
    <3>1. /\ welcome[p] = <<>> /\ welcome'[p] = <<>>
          /\ outbound'[p] = Tail(outbound[p]) /\ outbound[p] # <<>>
          /\ view'[p] = Shown(p, view[p], Head(outbound[p]))
      BY <1>1, <2>1, <2>3 DEF Flowing, Queues
    <3>2. Line(p) = Row(welcome[p], outbound[p]) /\ Line(p)' = Row(welcome'[p], outbound'[p])
      BY DEF Line, Row
    <3>3. Tail(outbound[p]) \in Seq(OutboundMessage)
      BY <1>1, <3>1
    <3>4. Line(p) = outbound[p] /\ Line(p)' = Tail(outbound[p])
      BY <1>1, <3>1, <3>2, <3>3, RowTaken
    <3> QED
      BY <2>1, <2>3, <3>1, <3>4 DEF Moves, Takes
  <2> QED
    BY <2>2, <2>3
<1>7. CASE LeaveSession(x)
  <2> DEFINE q == [outbound EXCEPT ![x] = <<>>]
  <2>1. /\ phase[x] = "running" /\ phase' = [phase EXCEPT ![x] = "dropped"]
        /\ view' = [view EXCEPT ![x] = NoView]
        /\ UNCHANGED <<grid, nextSequence, welcome>>
        /\ \/ \E r, c : Broadcast(participants \ {x}, r, c, q, ParticipantLeft(x))
           \/ outbound' = q /\ participants' = participants
    BY <1>7 DEF LeaveSession, session, stream
  <2>2. CASE p = x
    BY <1>1, <2>1, <2>2 DEF Moves, Ends
  <2>3. CASE p # x
    <3>1. q \in Queues /\ q[p] = outbound[p]
      BY <1>1, <2>3 DEF Queues
    <3>2. p \in participants' => p \in participants
      BY <2>1 DEF Broadcast
    <3>3. /\ ParticipantLeft(x) \in OutboundMessage /\ ParticipantLeft(x).type # "data"
      BY MessageType, NewsIsQuiet
    <3> HIDE DEF q
    <3>4. GrowsQuietly(outbound[p], outbound'[p])
      <4>1. CASE outbound' = q
        BY <1>2, <3>1, <4>1
      <4>2. ASSUME NEW r, NEW c, Broadcast(participants \ {x}, r, c, q, ParticipantLeft(x))
            PROVE  GrowsQuietly(outbound[p], outbound'[p])
        BY <1>1, <1>2, <3>1, <3>3, <4>2, BroadcastHeard
      <4> QED
        BY <2>1, <4>1, <4>2
    <3>5. phase'[p] = phase[p] /\ view'[p] = view[p] /\ welcome'[p] = welcome[p]
      BY <1>1, <2>1, <2>3
    <3> QED
      BY <2>1, <3>2, <3>4, <3>5 DEF Moves, Hears, Shows, Receiving
  <2> QED
    BY <2>2, <2>3
<1> QED
  BY <1>3, <1>4, <1>5, <1>6, <1>7 DEF ThreadStep, Finish, SocketEnds

\* Every step of the session, then, is one of the five for each participant.
LEMMA SessionMoves ==
  ASSUME Inv, Flowing, [Next]_vars, NEW p \in ParticipantIds
  PROVE  Moves(p)
<1>1. ASSUME NEW x \in ParticipantIds, GuestAction(x) \/ HostAction(x) \/ ThreadStep(x)
      PROVE  Moves(p)
  <2>1. ASSUME NEW name \in Names, NEW nonce \in Nonces, NEW after \in {Fresh} \cup 0..MaxSequence,
               Join(x, name, nonce, after)
        PROVE  Moves(p)
    <3>1. after \in Nat \cup {Fresh}
      BY LimitsAssumption
    <3> QED
      BY <2>1, <3>1, JoinMoves DEF Moves
  <2>2. CASE \/ RequestControl(x) \/ ReleaseControl(x) \/ SetObserver(x)
             \/ RemoveParticipant(x) \/ BanParticipant(x) \/ SetController(x)
    BY <2>2, ControlMoves DEF Moves
  <2>3. CASE TypingFades(x) \/ \E hasInput \in BOOLEAN : AuthorizeInput(x, hasInput)
    <3>1. /\ outbound' = outbound /\ participants' = participants
          /\ nextSequence' = nextSequence /\ UNCHANGED threads
      BY <2>3 DEF TypingFades, AuthorizeInput, stream
    <3> QED
      BY <3>1, SilenceHeard DEF Moves
  <2>4. CASE ThreadStep(x) \/ WelcomeFails(x) \/ SocketEnds(x)
    BY <2>4, ThreadMoves
  <2> QED
    BY <1>1, <2>1, <2>2, <2>3, <2>4 DEF GuestAction, HostAction
<1>2. CASE TerminalAction
  BY <1>2, StreamMoves DEF Moves
<1>3. CASE UNCHANGED vars
  <2>1. /\ outbound' = outbound /\ participants' = participants
        /\ nextSequence' = nextSequence /\ UNCHANGED threads
    BY <1>3 DEF vars, members, stream, threads
  <2> QED
    BY <2>1, SilenceHeard DEF Moves
<1> QED
  BY <1>1, <1>2, <1>3 DEF Next

-----------------------------------------------------------------------------
\* No frame is skipped: StreamIntact.

\* A welcome numbered without a gap is a line that can be taken.
LEMMA WelcomeLine ==
  ASSUME NEW w \in Seq(DataFrame), NEW n \in Nat, NEW last \in Nat,
         \A i \in 1..Len(w) :
           IF w[i].kind = "snapshot" THEN i = 1 /\ w[i].sequence >= n
           ELSE w[i].sequence = (IF i = 1 THEN n ELSE w[i - 1].sequence) + 1,
         IF Len(w) = 0 THEN n = last ELSE w[Len(w)].sequence = last
  PROVE  /\ Continues(Row(w, <<>>), n)
         /\ EndsAt(Row(w, <<>>), n, last)
<1> DEFINE ms == Row(w, <<>>)
<1>1. /\ ms \in Seq(OutboundMessage) /\ Len(ms) = Len(w) /\ Len(w) \in Nat
      /\ \A i \in 1..Len(w) : ms[i] = Data(w[i])
  <2>1. <<>> \in Seq(OutboundMessage) /\ Len(<<>>) = 0 /\ Len(w) \in Nat
    OBVIOUS
  <2>2. /\ Row(w, <<>>) \in Seq(OutboundMessage)
        /\ Len(Row(w, <<>>)) = Len(w) + Len(<<>>)
        /\ \A i \in 1..Len(w) : Row(w, <<>>)[i] = Data(w[i])
    BY <2>1, RowType
  <2> QED
    BY <2>1, <2>2
<1> HIDE DEF ms
<1>2. \A i \in 1..Len(w) : ms[i].type = "data" /\ ms[i].frame = w[i]
  <2> TAKE i \in 1..Len(w)
  <2>1. ms[i] = Data(w[i])
    BY <1>1
  <2> QED
    BY <2>1 DEF Data
<1>3. Stops(ms) = 0..Len(w)
  <2>1. DOMAIN ms = 1..Len(w)
    BY <1>1
  <2> QED
    BY <1>1, <1>2, <2>1 DEF Stops
<1>4. Continues(ms, n)
  <2> SUFFICES ASSUME NEW i \in Stops(ms), NEW j \in Stops(ms), i < j,
                      \A k \in Stops(ms) : k <= i \/ j <= k
               PROVE  IF ms[j].frame.kind = "snapshot"
                      THEN i = 0 /\ ms[j].frame.sequence >= n
                      ELSE ms[j].frame.sequence = Reached(ms, n, i) + 1
    BY DEF Continues
  <2>1. i \in Nat /\ j \in 1..Len(w) /\ i + 1 \in Stops(ms)
    BY <1>1, <1>3
  <2>2. j = i + 1
    BY <2>1
  <2>3. ms[j].frame = w[j] /\ (i # 0 => ms[i].frame = w[j - 1])
    BY <1>2, <2>1, <2>2
  <2>4. Reached(ms, n, i) = IF j = 1 THEN n ELSE w[j - 1].sequence
    BY <2>1, <2>2, <2>3 DEF Reached
  <2>5. IF w[j].kind = "snapshot" THEN j = 1 /\ w[j].sequence >= n
        ELSE w[j].sequence = (IF j = 1 THEN n ELSE w[j - 1].sequence) + 1
    BY <2>1
  <2> QED
    BY <2>1, <2>2, <2>3, <2>4, <2>5
<1>5. EndsAt(ms, n, last)
  <2> SUFFICES ASSUME NEW i \in Stops(ms), IsLast(i, Stops(ms))
               PROVE  Reached(ms, n, i) = last
    BY DEF EndsAt
  <2>1. i = Len(w)
    BY <1>1, <1>3 DEF IsLast
  <2> QED
    BY <1>1, <1>2, <2>1 DEF Reached
<1> QED
  BY <1>4, <1>5 DEF ms

\* continuous_replay: the frames after a, each the next, up to the newest.
LEMMA NewerFrames ==
  ASSUME StreamType, NEW a \in Nat, Continuous(a)
  PROVE  /\ Newer(a) \in Seq(ReplayFrame)
         /\ Len(Newer(a)) = nextSequence - a
         /\ \A i \in 1..Len(Newer(a)) : /\ Newer(a)[i].sequence = a + i
                                        /\ Newer(a)[i].kind # "snapshot"
<1>1. replay \in Seq(ReplayFrame) /\ nextSequence \in Nat /\ Len(replay) \in Nat
  BY DEF StreamType
<1> DEFINE m == Len(replay) - Missing(a) + 1
<1>2. /\ Missing(a) \in 0..Len(replay) /\ Missing(a) = nextSequence - a
      /\ \A i \in 1..Missing(a) : replay[Len(replay) - Missing(a) + i].sequence = a + i
  BY DEF Continuous, Missing
<1>3. m \in Nat \ {0} /\ m + Missing(a) = Len(replay) + 1
  BY <1>1, <1>2
<1>4. Newer(a) = SubSeq(replay, m, Len(replay))
  BY DEF Newer
<1> HIDE DEF m
<1>5. /\ Newer(a) \in Seq(ReplayFrame)
      /\ Len(Newer(a)) = IF m <= Len(replay) THEN Len(replay) - m + 1 ELSE 0
      /\ \A i \in 1..Len(Newer(a)) : Newer(a)[i] = replay[m + i - 1]
  BY <1>1, <1>3, <1>4, SubWindow
<1>6. Len(Newer(a)) = Missing(a)
  BY <1>1, <1>2, <1>3, <1>5
<1>7. \A i \in 1..Len(Newer(a)) : Newer(a)[i].sequence = a + i
  <2> TAKE i \in 1..Len(Newer(a))
  <2>1. i \in 1..Missing(a) /\ m + i - 1 = Len(replay) - Missing(a) + i
    BY <1>1, <1>2, <1>6 DEF m
  <2> QED
    BY <1>2, <1>5, <2>1
<1>8. \A i \in 1..Len(Newer(a)) : Newer(a)[i].kind # "snapshot"
  <2>1. \A f \in ReplayFrame : f.kind # "snapshot"
    BY DEF ReplayFrame
  <2>2. \A i \in 1..Len(Newer(a)) : Newer(a)[i] \in ReplayFrame
    BY <1>5, ElementOfSeq
  <2> QED
    BY <2>1, <2>2
<1> QED
  BY <1>2, <1>5, <1>6, <1>7, <1>8

\* A joiner's welcome goes on from where it was, up to the newest frame.
LEMMA WelcomeContinues ==
  ASSUME StreamType, NEW after \in Nat \cup {Fresh}, ReplayAvailable(after),
         NEW n, n = IF after = Fresh THEN 0 ELSE after
  PROVE  /\ Continues(Row(ReplayForJoin(after), <<>>), n)
         /\ EndsAt(Row(ReplayForJoin(after), <<>>), n, nextSequence)
<1>0. nextSequence \in Nat /\ n \in Nat
  BY ValuesAssumption DEF StreamType
<1>1. ASSUME NEW a \in Nat, Continuous(a), n = a, ReplayForJoin(after) = Newer(a)
      PROVE  /\ Continues(Row(ReplayForJoin(after), <<>>), n)
             /\ EndsAt(Row(ReplayForJoin(after), <<>>), n, nextSequence)
  <2> DEFINE w == Newer(a)
  <2>1. /\ w \in Seq(ReplayFrame) /\ Len(w) = nextSequence - a /\ Len(w) \in Nat
        /\ \A i \in 1..Len(w) : w[i].sequence = a + i /\ w[i].kind # "snapshot"
    BY <1>1, NewerFrames
  <2>2. w \in Seq(DataFrame)
    BY <2>1, FrameType
  <2> HIDE DEF w
  <2>3. \A i \in 1..Len(w) :
          IF w[i].kind = "snapshot" THEN i = 1 /\ w[i].sequence >= n
          ELSE w[i].sequence = (IF i = 1 THEN n ELSE w[i - 1].sequence) + 1
    BY <1>1, <2>1
  <2>4. IF Len(w) = 0 THEN n = nextSequence ELSE w[Len(w)].sequence = nextSequence
    BY <1>0, <1>1, <2>1
  <2>5. Continues(Row(w, <<>>), n) /\ EndsAt(Row(w, <<>>), n, nextSequence)
    BY <1>0, <2>2, <2>3, <2>4, WelcomeLine
  <2> QED
    BY <1>1, <2>5 DEF w
<1>2. CASE after # Fresh /\ Continuous(after)
  BY <1>0, <1>1, <1>2 DEF ReplayForJoin
<1>3. CASE ~(after # Fresh /\ Continuous(after)) /\ snapshot = NoSnapshot
  <2>1. after = Fresh /\ Continuous(0)
    BY <1>3 DEF ReplayAvailable, SnapshotUsable
  <2> QED
    BY <1>0, <1>1, <1>3, <2>1 DEF ReplayForJoin
<1>4. CASE ~(after # Fresh /\ Continuous(after)) /\ snapshot # NoSnapshot
  <2> DEFINE a == snapshot.sequence
             v == Newer(a)
             w == <<snapshot>> \o v
  <2>1. /\ snapshot \in SnapshotFrame /\ Continuous(a) /\ (after # Fresh => a >= after)
        /\ ReplayForJoin(after) = w
    BY <1>4 DEF ReplayAvailable, SnapshotUsable, StreamType, ReplayForJoin
  <2>2. a \in Nat /\ a >= n /\ snapshot.kind = "snapshot"
    BY <1>0, <2>1 DEF SnapshotFrame
  <2>3. /\ v \in Seq(ReplayFrame) /\ Len(v) = nextSequence - a /\ Len(v) \in Nat
        /\ \A i \in 1..Len(v) : v[i].sequence = a + i /\ v[i].kind # "snapshot"
    BY <2>1, <2>2, NewerFrames
  <2>4. v \in Seq(DataFrame) /\ <<snapshot>> \in Seq(DataFrame) /\ Len(<<snapshot>>) = 1
    BY <2>1, <2>3, FrameType
  <2> HIDE DEF v
  <2>5. /\ w \in Seq(DataFrame) /\ Len(w) = 1 + Len(v)
        /\ \A i \in 1..(1 + Len(v)) : w[i] = IF i <= 1 THEN <<snapshot>>[i] ELSE v[i - 1]
    <3> DEFINE s == <<snapshot>>
    <3>1. s \in Seq(DataFrame) /\ v \in Seq(DataFrame) /\ Len(s) = 1
      BY <2>4
    <3> HIDE DEF s
    <3>2. /\ s \o v \in Seq(DataFrame) /\ Len(s \o v) = Len(s) + Len(v)
          /\ \A i \in 1..(Len(s) + Len(v)) :
               (s \o v)[i] = IF i <= Len(s) THEN s[i] ELSE v[i - Len(s)]
      BY <3>1, ConcatProperties, Zenon
    <3> QED
      BY <3>1, <3>2 DEF s
  <2>6. w[1] = snapshot /\ \A i \in 1..Len(v) : w[i + 1] = v[i]
    BY <2>3, <2>5
  <2> HIDE DEF w, a
  <2>7. \A i \in 1..Len(w) : i = 1 \/ (i - 1 \in 1..Len(v) /\ w[i] = v[i - 1])
    <3> TAKE i \in 1..Len(w)
    <3>1. i \in Nat /\ (i # 1 => i - 1 \in 1..Len(v) /\ i = (i - 1) + 1)
      BY <2>3, <2>5
    <3> QED
      BY <2>6, <3>1
  <2>8. w[1].kind = "snapshot" /\ w[1].sequence = a
    BY <2>2, <2>6 DEF a
  <2>9. \A i \in 1..Len(w) : w[i].sequence = a + i - 1 /\ (w[i].kind = "snapshot" => i = 1)
    <3> TAKE i \in 1..Len(w)
    <3>1. CASE i = 1
      BY <2>2, <2>8, <3>1
    <3>2. CASE i # 1
      BY <2>2, <2>3, <2>7, <3>2
    <3> QED
      BY <3>1, <3>2
  <2>10. \A i \in 1..Len(w) :
           IF w[i].kind = "snapshot" THEN i = 1 /\ w[i].sequence >= n
           ELSE w[i].sequence = (IF i = 1 THEN n ELSE w[i - 1].sequence) + 1
    <3> TAKE i \in 1..Len(w)
    <3>1. CASE i = 1
      BY <1>0, <2>2, <2>8, <3>1
    <3>2. CASE i # 1
      <4>1. i - 1 \in 1..Len(w) /\ i \in Nat
        BY <2>3, <2>5, <3>2
      <4>2. w[i - 1].sequence = a + (i - 1) - 1 /\ w[i].sequence = a + i - 1
        BY <2>9, <4>1
      <4> QED
        BY <2>2, <2>9, <3>2, <4>1, <4>2
    <3> QED
      BY <3>1, <3>2
  <2>11. Len(w) # 0 /\ Len(w) \in 1..Len(w) /\ w[Len(w)].sequence = nextSequence
    <3>1. Len(w) \in 1..Len(w) /\ Len(w) = 1 + nextSequence - a /\ Len(w) # 0
      BY <1>0, <2>2, <2>3, <2>5
    <3>2. w[Len(w)].sequence = a + Len(w) - 1
      BY <2>9, <3>1
    <3> QED
      BY <1>0, <2>2, <3>1, <3>2
  <2>12. Continues(Row(w, <<>>), n) /\ EndsAt(Row(w, <<>>), n, nextSequence)
    BY <1>0, <2>5, <2>10, <2>11, WelcomeLine
  <2> QED
    BY <2>1, <2>12 DEF w
<1> QED
  BY <1>2, <1>3, <1>4

\* A message shown moves a guest's position as its frame says.
LEMMA ShownTaken ==
  ASSUME NEW p \in ParticipantIds, NEW v \in ViewType, NEW m \in OutboundMessage
  PROVE  Shown(p, v, m).sequence = Taken(v.sequence, m)
<1>1. CASE m.type = "data"
  <2>1. m.frame \in DataFrame
    BY <1>1 DEF OutboundMessage, Closed
  <2>2. CASE m.frame.kind \in {"resize", "snapshot"}
    BY <1>1, <2>1, <2>2 DEF DataFrame, ReplayFrame, SnapshotFrame, Shown, ViewType, Taken
  <2>3. CASE m.frame.kind \in {"output", "exit"}
    BY <1>1, <2>1, <2>3 DEF DataFrame, ReplayFrame, SnapshotFrame, Shown, ViewType, Taken
  <2> QED
    BY <2>1, <2>2, <2>3 DEF DataFrame, ReplayFrame, SnapshotFrame
<1>2. CASE m.type = "role_changed"
  BY <1>2 DEF OutboundMessage, Shown, ViewType, Closed, Taken
<1>3. CASE m.type \notin {"data", "role_changed"}
  BY <1>3 DEF Shown, Taken
<1> QED
  BY <1>1, <1>2, <1>3

\* The part of StreamIntact that is about p.
Flows(p) == /\ Continues(Line(p), view[p].sequence)
            /\ EndsAt(Line(p), view[p].sequence, nextSequence)

\* None of the five ways a line can change skips or repeats a frame.
LEMMA MovesFlow ==
  ASSUME Inv, Inv', NEW p \in ParticipantIds, Moves(p), p \in participants', Receiving(p)',
         p \in participants /\ Receiving(p) => Flows(p)
  PROVE  Flows(p)'
<1>1. /\ welcome[p] \in Seq(DataFrame) /\ welcome'[p] \in Seq(DataFrame)
      /\ outbound[p] \in Seq(OutboundMessage) /\ outbound'[p] \in Seq(OutboundMessage)
      /\ view[p] \in ViewType /\ view'[p] \in ViewType /\ nextSequence \in Nat
      /\ nextSequence' \in Nat /\ StreamType
      /\ view[p].sequence \in Nat
  BY DEF Inv, ThreadType, QueueType, StreamType, ViewType
<1>2. /\ Line(p) = Row(welcome[p], outbound[p]) /\ Line(p)' = Row(welcome'[p], outbound'[p])
      /\ Line(p) \in Seq(OutboundMessage) /\ Line(p)' \in Seq(OutboundMessage)
  BY <1>1, RowType DEF Line, Row
<1>3. CASE Joins(p)
  <2>1. PICK after \in Nat \cup {Fresh} :
          /\ ReplayAvailable(after) /\ welcome'[p] = ReplayForJoin(after)
          /\ view'[p].sequence = IF after = Fresh THEN 0 ELSE after
    BY <1>3 DEF Joins
  <2>2. outbound'[p] = <<>> /\ nextSequence' = nextSequence
    BY <1>3 DEF Joins, stream
  <2>3. /\ Continues(Row(ReplayForJoin(after), <<>>), view'[p].sequence)
        /\ EndsAt(Row(ReplayForJoin(after), <<>>), view'[p].sequence, nextSequence)
    BY <1>1, <2>1, WelcomeContinues
  <2>4. Line(p)' = Row(ReplayForJoin(after), <<>>)
    BY <1>2, <2>1, <2>2
  <2>5. /\ Continues(Line(p)', view'[p].sequence)
        /\ EndsAt(Line(p)', view'[p].sequence, nextSequence')
    BY <2>2, <2>3, <2>4
  <2> QED
    BY <2>5 DEF Flows, Continues, EndsAt, Line
<1>4. CASE Hears(p)
  <2>1. /\ nextSequence' = nextSequence /\ view'[p].sequence = view[p].sequence
        /\ welcome'[p] = welcome[p] /\ GrowsQuietly(outbound[p], outbound'[p]) /\ Flows(p)
    BY <1>4 DEF Hears
  <2>2. GrowsQuietly(Line(p), Line(p)')
    BY <1>1, <1>2, <2>1, RowGrows
  <2>3. /\ Continues(Line(p)', view[p].sequence)
        /\ EndsAt(Line(p)', view[p].sequence, nextSequence)
    BY <1>2, <2>1, <2>2, QuietLine DEF Flows
  <2>4. /\ Continues(Line(p)', view'[p].sequence)
        /\ EndsAt(Line(p)', view'[p].sequence, nextSequence')
    BY <2>1, <2>3
  <2> QED
    BY <2>4 DEF Flows, Continues, EndsAt, Line
<1>5. CASE IsFed(p)
  <2>1. PICK f \in DataFrame :
          /\ f.sequence = nextSequence + 1 /\ f.kind # "snapshot"
          /\ outbound'[p] = IF p \in participants' /\ Receiving(p)
                            THEN Append(outbound[p], Data(f)) ELSE outbound[p]
    BY <1>5 DEF IsFed
  <2>2. /\ nextSequence' = nextSequence + 1 /\ view'[p] = view[p]
        /\ welcome'[p] = welcome[p] /\ Receiving(p) /\ Flows(p)
    BY <1>5 DEF IsFed, Receiving
  <2>3. Data(f) \in OutboundMessage
    BY MessageType
  <2>4. Line(p)' = Append(Line(p), Data(f))
    BY <1>1, <1>2, <2>1, <2>2, <2>3, RowFed
  <2>5. /\ Continues(Append(Line(p), Data(f)), view[p].sequence)
        /\ EndsAt(Append(Line(p), Data(f)), view[p].sequence, nextSequence + 1)
    BY <1>1, <1>2, <2>1, <2>2, <2>3, MessagesFramed, FedLine DEF Flows
  <2>6. /\ Continues(Line(p)', view'[p].sequence)
        /\ EndsAt(Line(p)', view'[p].sequence, nextSequence')
    BY <2>2, <2>4, <2>5
  <2> QED
    BY <2>6 DEF Flows, Continues, EndsAt, Line
<1>6. CASE Takes(p)
  <2>1. /\ nextSequence' = nextSequence /\ Receiving(p) /\ Flows(p)
        /\ Line(p) # <<>> /\ Line(p)' = Tail(Line(p))
        /\ view'[p] = Shown(p, view[p], Head(Line(p)))
    BY <1>6 DEF Takes, Receiving
  <2>2. Head(Line(p)) \in OutboundMessage
    BY <1>2, <2>1
  <2>3. view'[p].sequence = Taken(view[p].sequence, Head(Line(p)))
    BY <1>1, <2>1, <2>2, ShownTaken
  <2>4. /\ Continues(Tail(Line(p)), view'[p].sequence)
        /\ EndsAt(Tail(Line(p)), view'[p].sequence, nextSequence)
    <3>1. /\ Continues(Line(p), view[p].sequence)
          /\ EndsAt(Line(p), view[p].sequence, nextSequence)
      BY <2>1 DEF Flows
    <3> DEFINE l == Line(p)
               n == view[p].sequence
    <3>2. /\ l \in Seq(OutboundMessage) /\ l # <<>> /\ Framed(OutboundMessage) /\ n \in Nat
          /\ Continues(l, n) /\ EndsAt(l, n, nextSequence)
      BY <1>1, <1>2, <2>1, <3>1, MessagesFramed
    <3> HIDE DEF l, n
    <3>3. /\ Continues(Tail(l), Taken(n, Head(l)))
          /\ EndsAt(Tail(l), Taken(n, Head(l)), nextSequence)
      BY <3>2, TakenLine
    <3> QED
      BY <2>3, <3>3 DEF l, n
  <2>5. /\ Continues(Line(p)', view'[p].sequence)
        /\ EndsAt(Line(p)', view'[p].sequence, nextSequence')
    BY <2>1, <2>4
  <2> QED
    BY <2>5 DEF Flows, Continues, EndsAt, Line
<1>7. CASE Ends(p)
  BY <1>7 DEF Ends, Receiving
<1> QED
  BY <1>3, <1>4, <1>5, <1>6, <1>7 DEF Moves

\* run_participant starts once send_replay has written the whole welcome.
LEMMA FlowingStep ==
  ASSUME Inv, FarewellInv, Flowing, [Next]_vars
  PROVE  Flowing'
<1>1. Untouched'
  BY FarewellStep DEF FarewellInv
<1>2. /\ phase \in [ParticipantIds -> Phases] /\ welcome \in [ParticipantIds -> Seq(DataFrame)]
      /\ \A p \in ParticipantIds : phase[p] = "running" => welcome[p] = <<>>
  BY DEF Inv, ThreadType, Flowing
<1>3. CASE phase' = phase /\ welcome' = welcome
  BY <1>1, <1>2, <1>3 DEF Flowing
<1>4. ASSUME NEW x \in ParticipantIds, GuestAction(x) \/ HostAction(x) \/ ThreadStep(x)
      PROVE  Flowing'
  <2>1. CASE \E name \in Names, nonce \in Nonces, after \in {Fresh} \cup 0..MaxSequence :
               Join(x, name, nonce, after)
    <3>1. \E w : phase' = [phase EXCEPT ![x] = "joined"] /\ welcome' = [welcome EXCEPT ![x] = w]
      BY <2>1 DEF Join
    <3> QED
      BY <1>1, <1>2, <3>1 DEF Flowing
  <2>2. CASE SendReplay(x)
    <3>1. CASE welcome[x] = <<>>
      <4>1. phase' = [phase EXCEPT ![x] = "running"] /\ welcome' = welcome
        BY <2>2, <3>1 DEF SendReplay
      <4> QED
        BY <1>1, <1>2, <3>1, <4>1 DEF Flowing
    <3>2. CASE welcome[x] # <<>>
      <4>1. phase' = phase /\ \E w : welcome' = [welcome EXCEPT ![x] = w] /\ phase[x] # "running"
        BY <2>2, <3>2 DEF SendReplay
      <4> QED
        BY <1>1, <1>2, <4>1 DEF Flowing
    <3> QED
      BY <3>1, <3>2
  <2>3. CASE SendJoined(x)
    <3>1. phase' = [phase EXCEPT ![x] = "replaying"] /\ welcome' = welcome
      BY <2>3 DEF SendJoined
    <3> QED
      BY <1>1, <1>2, <3>1 DEF Flowing
  <2>4. CASE WelcomeFails(x) \/ LeaveSession(x)
    <3>1. /\ phase' = [phase EXCEPT ![x] = "dropped"]
          /\ \E w : welcome' = [welcome EXCEPT ![x] = w] \/ welcome' = welcome
      BY <2>4 DEF WelcomeFails, LeaveSession
    <3> QED
      BY <1>1, <1>2, <3>1 DEF Flowing
  <2>5. CASE \/ RequestControl(x) \/ ReleaseControl(x) \/ Forward(x) \/ HostAction(x)
             \/ \E hasInput \in BOOLEAN : AuthorizeInput(x, hasInput)
    BY <1>3, <2>5 DEF RequestControl, ReleaseControl, Forward, HostAction, AuthorizeInput,
       SetController, SetObserver, RemoveParticipant, BanParticipant, TypingFades, threads
  <2> QED
    BY <1>4, <2>1, <2>2, <2>3, <2>4, <2>5 DEF GuestAction, ThreadStep, Finish, SocketEnds
<1>5. CASE TerminalAction
  BY <1>3, <1>5 DEF TerminalAction, PublishOutput, PublishResize, PublishTerminalExit,
     Publish, SetSnapshot, Expire, Close, threads
<1>6. CASE UNCHANGED vars
  BY <1>3, <1>6 DEF vars, threads
<1> QED
  BY <1>4, <1>5, <1>6 DEF Next

\* What makes StreamIntact inductive: a connection that has not joined has no queue,
\* and a thread that serves its queue has no welcome left.
FlowInv == FarewellInv /\ Flowing /\ StreamIntact

\* Every step of the session keeps it.
LEMMA FlowStep ==
  ASSUME Inv, FlowInv, [Next]_vars
  PROVE  FlowInv'
<1>1. FarewellInv' /\ Flowing' /\ Inv'
  BY FarewellStep, FlowingStep, StepInv DEF FlowInv
<1>2. ASSUME NEW p \in participants', Receiving(p)'
      PROVE  Flows(p)'
  <2>1. p \in ParticipantIds
    BY <1>1 DEF Inv, Told, Telling
  <2>2. Moves(p)
    BY <2>1, SessionMoves DEF FlowInv
  <2>3. p \in participants /\ Receiving(p) => Flows(p)
    BY DEF FlowInv, StreamIntact, Flows
  <2> QED
    BY <1>1, <1>2, <2>1, <2>2, <2>3, MovesFlow
<1>3. StreamIntact'
  BY <1>2 DEF StreamIntact, Flows
<1> QED
  BY <1>1, <1>3 DEF FlowInv

\* A participant whose thread is at work sees every frame from where it joined on,
\* once and in order: the frames between the join and the end of its line follow
\* one another, and the last of them is the newest the session has published.
THEOREM NoFrameSkipped == Spec => []StreamIntact
<1>1. Init => FlowInv
  BY DEF Init, FlowInv, FarewellInv, LastWord, Untouched, Flowing, StreamIntact
<1>2. FlowInv => StreamIntact
  BY DEF FlowInv
<1>3. Inv /\ FlowInv /\ [Next]_vars => FlowInv'
  BY FlowStep
<1> QED
  BY <1>1, <1>2, <1>3, Invariance, PTL DEF Spec

-----------------------------------------------------------------------------
\* The grid: GridConverges.

\* A frame at the end of a line leaves its guest at the grid the session then has.
LEMMA FedGrid ==
  ASSUME NEW S, NEW q \in Seq(S), NEW f, Data(f) \in S, NEW b, NEW g, NEW c, NEW h,
         \/ f.kind = "resize" /\ h = f.grid
         \/ f.kind \in {"output", "exit"} /\ c = b /\ h = g /\ LeavesGrid(q, b, g)
  PROVE  LeavesGrid(Append(q, Data(f)), c, h)
<1> DEFINE r == Append(q, Data(f))
           l == Len(q) + 1
<1>1. /\ Len(q) \in Nat /\ DOMAIN q = 1..Len(q) /\ DOMAIN r = 1..l
      /\ r[l] = Data(f) /\ \A i \in 1..Len(q) : r[i] = q[i]
  OBVIOUS
<1> HIDE DEF r
<1>2. /\ r[l].type = "data" /\ r[l].frame = f
  BY <1>1 DEF Data
<1>3. /\ Reflows(q) \subseteq 0..Len(q)
      /\ \A i \in Reflows(q) \ {0} : r[i] = q[i]
  BY <1>1 DEF Reflows
<1>4. CASE f.kind = "resize"
  <2>1. Reflows(r) \subseteq 0..l /\ l \in Reflows(r)
    BY <1>1, <1>2, <1>4 DEF Reflows
  <2> SUFFICES ASSUME NEW i \in Reflows(r), IsLast(i, Reflows(r))
               PROVE  (IF i = 0 THEN c ELSE r[i].frame.grid) = h
    BY DEF LeavesGrid, r
  <2>2. i = l
    BY <1>1, <2>1 DEF IsLast
  <2> QED
    BY <1>1, <1>2, <1>4, <2>2
<1>5. CASE f.kind \in {"output", "exit"}
  <2>1. Reflows(r) = Reflows(q)
    BY <1>1, <1>2, <1>5 DEF Reflows
  <2>2. LeavesGrid(r, c, h)
    BY <1>3, <1>5, <2>1 DEF LeavesGrid
  <2> QED
    BY <2>2 DEF r
<1> QED
  BY <1>4, <1>5

\* The grid a guest shows after a message.
Showing(g, m) == IF m.type = "data" /\ m.frame.kind \in {"resize", "snapshot"}
                 THEN m.frame.grid ELSE g

\* Taking the head of a line moves the shown grid, not the one it ends with.
LEMMA TakenGrid ==
  ASSUME NEW S, NEW q \in Seq(S), q # <<>>, NEW b, NEW g, LeavesGrid(q, b, g)
  PROVE  LeavesGrid(Tail(q), Showing(b, Head(q)), g)
<1> DEFINE r == Tail(q)
           m == Head(q)
           At(i) == IF i = 0 THEN (IF 1 \in Reflows(q) THEN 1 ELSE 0) ELSE i + 1
<1>1. /\ Len(q) \in Nat \ {0} /\ DOMAIN q = 1..Len(q) /\ DOMAIN r = 1..(Len(q) - 1)
      /\ q[1] = m /\ \A i \in 1..(Len(q) - 1) : r[i] = q[i + 1]
  OBVIOUS
<1> HIDE DEF r, m
<1>2. /\ Reflows(q) \subseteq 0..Len(q) /\ 0 \in Reflows(q)
      /\ 1 \in Reflows(q) <=> m.type = "data" /\ m.frame.kind \in {"resize", "snapshot"}
  BY <1>1 DEF Reflows
<1>3. Reflows(r) = {0} \cup {i \in 1..(Len(q) - 1) : i + 1 \in Reflows(q)}
  BY <1>1 DEF Reflows
<1> SUFFICES ASSUME NEW i \in Reflows(r), IsLast(i, Reflows(r))
             PROVE  (IF i = 0 THEN Showing(b, m) ELSE r[i].frame.grid) = g
  BY DEF LeavesGrid, r, m
<1>4. IsLast(At(i), Reflows(q))
  BY <1>1, <1>2, <1>3, LastOfTail
<1>5. (IF At(i) = 0 THEN b ELSE q[At(i)].frame.grid) = g
  <2>1. At(i) \in Reflows(q)
    BY <1>4 DEF IsLast
  <2> HIDE DEF At
  <2> QED
    BY <1>4, <2>1 DEF LeavesGrid
<1>6. CASE i = 0
  BY <1>1, <1>2, <1>5, <1>6 DEF Showing
<1>7. CASE i # 0
  <2>1. i \in 1..(Len(q) - 1) /\ At(i) = i + 1 /\ At(i) # 0
    BY <1>1, <1>3, <1>7
  <2> QED
    BY <1>1, <1>5, <1>7, <2>1
<1> QED
  BY <1>6, <1>7

\* The view of the model shows the grid that Showing says.
LEMMA ShownGrid ==
  ASSUME NEW p \in ParticipantIds, NEW v \in ViewType, NEW m \in OutboundMessage
  PROVE  Shown(p, v, m).grid = Showing(v.grid, m)
<1>1. CASE m.type = "data"
  <2>1. m.frame \in DataFrame
    BY <1>1 DEF OutboundMessage, Closed
  <2>2. CASE m.frame.kind \in {"resize", "snapshot"}
    BY <1>1, <2>1, <2>2 DEF DataFrame, ReplayFrame, SnapshotFrame, Shown, ViewType, Showing
  <2>3. CASE m.frame.kind \in {"output", "exit"}
    BY <1>1, <2>1, <2>3 DEF DataFrame, ReplayFrame, SnapshotFrame, Shown, ViewType, Showing
  <2> QED
    BY <2>1, <2>2, <2>3 DEF DataFrame, ReplayFrame, SnapshotFrame
<1>2. CASE m.type = "role_changed"
  BY <1>2 DEF OutboundMessage, Shown, ViewType, Closed, Showing
<1>3. CASE m.type \notin {"data", "role_changed"}
  BY <1>3 DEF Shown, Showing
<1> QED
  BY <1>1, <1>2, <1>3

-----------------------------------------------------------------------------
\* The log of grids ends with the present one; a snapshot has the grid of its
\* place in the stream; so has the last resize retained, and the place after
\* which none is.
Logged ==
  /\ gridLog[nextSequence + 1] = grid
  /\ snapshot # NoSnapshot => snapshot.grid = gridLog[snapshot.sequence + 1]

\* A resize among the retained frames.
Turn(i) == i \in 1..Len(replay) /\ replay[i].kind = "resize"

LastTurn == \A i \in 1..Len(replay) :
              Turn(i) /\ (\A j \in 1..Len(replay) : Turn(j) => j <= i)
                => replay[i].grid = grid

NoTurn == \A a \in 0..nextSequence :
            Continuous(a) /\ (\A i \in 1..Len(replay) : Turn(i) => replay[i].sequence <= a)
              => gridLog[a + 1] = grid

GridLogInv == Logged /\ LastTurn /\ NoTurn

\* Of the frames before the last ones after a, none is newer than a.
LEMMA OlderFrames ==
  ASSUME StreamType, WindowInv, NEW a \in Nat, Continuous(a), NEW i \in 1..Len(replay),
         i <= Len(replay) - Missing(a)
  PROVE  replay[i].sequence <= a
<1>1. /\ replay \in Seq(ReplayFrame) /\ nextSequence \in Nat /\ Len(replay) \in Nat
      /\ \A k \in 1..Len(replay) : replay[k] \in ReplayFrame /\ replay[k].sequence \in Nat
  BY FrameType DEF StreamType
<1>2. Missing(a) \in 0..Len(replay) /\ Missing(a) = nextSequence - a
  BY DEF Continuous, Missing
<1>3. CASE Missing(a) = 0
  BY <1>1, <1>2, <1>3 DEF WindowInv, ReplayOrdered
<1>4. CASE Missing(a) > 0
  <2> DEFINE k == Len(replay) - Missing(a) + 1
  <2>1. k \in 1..Len(replay) /\ i \in 1..(k - 1) /\ 1 \in 1..Missing(a)
    BY <1>1, <1>2, <1>4
  <2>2. replay[k].sequence = a + 1
    <3>1. replay[Len(replay) - Missing(a) + 1].sequence = a + 1
      BY <2>1 DEF Continuous
    <3> QED
      BY <3>1
  <2> HIDE DEF k
  <2>3. replay[i].sequence < replay[k].sequence
    BY <2>1 DEF WindowInv, ReplayOrdered
  <2> QED
    BY <1>1, <2>2, <2>3
<1> QED
  BY <1>2, <1>3, <1>4

\* A frame is pushed, n frames are evicted.
LEMMA PushKeepsGrid ==
  ASSUME StreamType, WindowInv, GridLogInv, NEW f \in ReplayFrame,
         f.sequence = nextSequence + 1, PushReplay(f), NEW g \in Grids,
         nextSequence' = nextSequence + 1, snapshot' = snapshot, grid' = g,
         gridLog' = Append(gridLog, g),
         \/ f.kind = "resize" /\ g = f.grid
         \/ f.kind = "output" /\ g = grid
  PROVE  GridLogInv'
<1> DEFINE s == Append(replay, f)
           n == Overflow(s, replayBytes + PayloadLen(f))
<1>1. /\ replay \in Seq(ReplayFrame) /\ s \in Seq(ReplayFrame) /\ nextSequence \in Nat
      /\ gridLog \in Seq(Grids) /\ Len(gridLog) = nextSequence + 1
  BY DEF StreamType
<1>2. /\ Len(replay) \in Nat /\ Len(s) = Len(replay) + 1 /\ s[Len(replay) + 1] = f
      /\ \A k \in 1..Len(replay) : s[k] = replay[k]
  BY <1>1
<1>3. replay' = DropFirst(s, n)
  BY DEF PushReplay
<1>4. /\ \A a \in 0..nextSequence : gridLog'[a + 1] = gridLog[a + 1]
      /\ gridLog'[nextSequence + 2] = g
  BY <1>1
<1> HIDE DEF s
<1>5. n \in 0..Len(s)
  BY <1>1, OverflowType
<1> HIDE DEF n
<1>6. /\ Len(replay') = Len(s) - n
      /\ \A k \in 1..Len(replay') : replay'[k] = s[n + k]
  BY <1>1, <1>2, <1>3, <1>5, DropType
<1>7. Logged'
  <2>1. snapshot # NoSnapshot => snapshot.sequence \in 0..nextSequence
    BY <1>1, FrameType DEF StreamType, WindowInv
  <2>2. gridLog'[nextSequence' + 1] = grid'
    BY <1>1, <1>4
  <2>3. snapshot' # NoSnapshot => snapshot'.grid = gridLog'[snapshot'.sequence + 1]
    BY <1>4, <2>1 DEF GridLogInv, Logged
  <2> QED
    BY <2>2, <2>3 DEF Logged
<1>8. LastTurn'
  <2> SUFFICES ASSUME NEW i \in 1..Len(replay'), replay'[i].kind = "resize",
                      \A j \in 1..Len(replay') : replay'[j].kind = "resize" => j <= i
               PROVE  replay'[i].grid = g
    BY DEF LastTurn, Turn
  <2>0. i \in Nat /\ n + i \in 1..Len(s) /\ replay'[i] = s[n + i]
    BY <1>2, <1>5, <1>6
  <2>1. CASE n + i = Len(replay) + 1
    BY <1>2, <2>0, <2>1
  <2>2. CASE n + i # Len(replay) + 1
    <3> DEFINE k == n + i
               l == Len(replay')
    <3>1. k \in 1..Len(replay) /\ replay[k] = replay'[i]
      BY <1>2, <2>0, <2>2
    <3>2. l \in 1..Len(replay') /\ replay'[l] = f /\ l > i
      BY <1>2, <1>5, <1>6, <2>0, <2>2
    <3>3. f.kind # "resize" /\ g = grid
      BY <3>2
    <3>4. \A j \in 1..Len(replay) : replay[j].kind = "resize" => j <= k
      <4> TAKE j \in 1..Len(replay)
      <4>1. CASE j <= n
        BY <1>5, <2>0, <4>1
      <4>2. CASE j > n
        <5> DEFINE h == j - n
        <5>1. h \in 1..Len(replay') /\ n + h = j
          BY <1>2, <1>5, <1>6, <4>2
        <5>2. replay'[h] = replay[j]
          BY <1>2, <1>6, <5>1
        <5> HIDE DEF h
        <5> QED
          BY <1>5, <2>0, <5>1, <5>2
      <4> QED
        BY <1>5, <4>1, <4>2
    <3> HIDE DEF k
    <3> QED
      BY <3>1, <3>3, <3>4 DEF GridLogInv, LastTurn, Turn
  <2> QED
    BY <2>1, <2>2
<1>9. NoTurn'
  <2> SUFFICES ASSUME NEW a \in 0..(nextSequence + 1), Continuous(a)',
                      \A i \in 1..Len(replay') :
                        replay'[i].kind = "resize" => replay'[i].sequence <= a
               PROVE  gridLog'[a + 1] = g
    BY DEF NoTurn, Turn
  <2>1. CASE a = nextSequence + 1
    BY <1>1, <1>4, <2>1
  <2>2. CASE a # nextSequence + 1
    <3>1. a \in 0..nextSequence /\ Missing(a) \in Nat /\ Missing(a) = nextSequence - a
      BY <1>1, <2>2 DEF Missing
    <3>2. /\ Missing(a) + 1 <= Len(replay')
          /\ \A i \in 1..(Missing(a) + 1) :
               replay'[Len(replay') - (Missing(a) + 1) + i].sequence = a + i
      <4>1. /\ nextSequence' - a \in 0..Len(replay')
            /\ \A i \in 1..(nextSequence' - a) :
                 replay'[Len(replay') - (nextSequence' - a) + i].sequence = a + i
        BY DEF Continuous, Missing
      <4>2. nextSequence' - a = Missing(a) + 1
        BY <1>1, <3>1
      <4> QED
        BY <1>2, <1>5, <1>6, <4>1, <4>2
    <3>3. Missing(a) \in 0..Len(replay) /\ n <= Len(replay) - Missing(a)
      BY <1>2, <1>5, <1>6, <3>1, <3>2
    <3>4. Continuous(a)
      <4> SUFFICES ASSUME NEW i \in 1..Missing(a)
                   PROVE  replay[Len(replay) - Missing(a) + i].sequence = a + i
        BY <3>3 DEF Continuous
      <4> DEFINE k == Len(replay') - (Missing(a) + 1) + i
                 h == Len(replay) - Missing(a) + i
      <4>1. k \in 1..Len(replay') /\ n + k = h /\ h \in 1..Len(replay) /\ i \in 1..(Missing(a) + 1)
        BY <1>2, <1>5, <1>6, <3>1, <3>2, <3>3
      <4>2. replay'[k].sequence = a + i
        BY <3>2, <4>1
      <4>3. replay'[k] = replay[h]
        BY <1>2, <1>6, <4>1
      <4> HIDE DEF k
      <4> QED
        BY <4>2, <4>3
    <3>5. f.kind # "resize" /\ g = grid
      <4>1. Len(replay') \in 1..Len(replay') /\ n + Len(replay') = Len(replay) + 1
        BY <1>2, <1>5, <1>6, <3>1, <3>2
      <4>2. replay'[Len(replay')] = f
        BY <1>2, <1>6, <4>1
      <4> QED
        BY <1>1, <3>1, <4>1, <4>2
    <3>6. \A i \in 1..Len(replay) : replay[i].kind = "resize" => replay[i].sequence <= a
      <4> TAKE i \in 1..Len(replay)
      <4>1. CASE i <= n
        <5>1. i <= Len(replay) - Missing(a) /\ a \in Nat
          BY <1>2, <1>5, <3>1, <3>3, <4>1
        <5> QED
          BY <3>4, <5>1, OlderFrames
      <4>2. CASE i > n
        <5> DEFINE h == i - n
        <5>1. h \in 1..Len(replay') /\ n + h = i
          BY <1>2, <1>5, <1>6, <4>2
        <5>2. replay'[h] = replay[i]
          BY <1>2, <1>6, <5>1
        <5> HIDE DEF h
        <5> QED
          BY <5>1, <5>2
      <4> QED
        BY <1>5, <4>1, <4>2
    <3>7. gridLog[a + 1] = grid
      BY <3>1, <3>4, <3>6 DEF GridLogInv, NoTurn, Turn
    <3> QED
      BY <1>4, <3>1, <3>5, <3>7
  <2> QED
    BY <2>1, <2>2
<1> QED
  BY <1>7, <1>8, <1>9 DEF GridLogInv

\* Frames are popped off the front, the stream and the grid stay.
LEMMA DropKeepsGrid ==
  ASSUME StreamType, WindowInv, LastTurn, NoTurn, NEW c \in Nat, c <= Len(replay),
         replay' = DropFirst(replay, c), UNCHANGED <<nextSequence, grid, gridLog>>
  PROVE  LastTurn' /\ NoTurn'
<1>1. replay \in Seq(ReplayFrame) /\ nextSequence \in Nat /\ Len(replay) \in Nat
  BY DEF StreamType
<1>2. /\ Len(replay') = Len(replay) - c
      /\ \A k \in 1..Len(replay') : replay'[k] = replay[c + k]
  BY <1>1, DropType
<1>3. \A j \in 1..Len(replay) : j > c => j - c \in 1..Len(replay') /\ replay'[j - c] = replay[j]
  <2> TAKE j \in 1..Len(replay)
  <2> HAVE j > c
  <2> DEFINE h == j - c
  <2>1. h \in 1..Len(replay') /\ c + h = j
    BY <1>1, <1>2
  <2>2. replay'[h] = replay[j]
    BY <1>2, <2>1
  <2> QED
    BY <2>1, <2>2
<1>4. LastTurn'
  <2> SUFFICES ASSUME NEW i \in 1..Len(replay'), replay'[i].kind = "resize",
                      \A j \in 1..Len(replay') : replay'[j].kind = "resize" => j <= i
               PROVE  replay'[i].grid = grid
    BY DEF LastTurn, Turn
  <2>1. c + i \in 1..Len(replay) /\ replay'[i] = replay[c + i] /\ i \in Nat
    BY <1>1, <1>2
  <2>2. \A j \in 1..Len(replay) : replay[j].kind = "resize" => j <= c + i
    BY <1>3, <2>1
  <2> QED
    BY <2>1, <2>2 DEF LastTurn, Turn
<1>5. NoTurn'
  <2> SUFFICES ASSUME NEW a \in 0..nextSequence, Continuous(a)',
                      \A i \in 1..Len(replay') :
                        replay'[i].kind = "resize" => replay'[i].sequence <= a
               PROVE  gridLog[a + 1] = grid
    BY DEF NoTurn, Turn
  <2>1. /\ Missing(a) \in 0..Len(replay')
        /\ \A i \in 1..Missing(a) : replay'[Len(replay') - Missing(a) + i].sequence = a + i
    BY DEF Continuous, Missing
  <2>2. Missing(a) \in 0..Len(replay) /\ c <= Len(replay) - Missing(a)
    BY <1>1, <1>2, <2>1
  <2>3. Continuous(a)
    <3> SUFFICES ASSUME NEW i \in 1..Missing(a)
                 PROVE  replay[Len(replay) - Missing(a) + i].sequence = a + i
      BY <2>2 DEF Continuous
    <3> DEFINE k == Len(replay') - Missing(a) + i
               h == Len(replay) - Missing(a) + i
    <3>1. k \in 1..Len(replay') /\ c + k = h
      BY <1>1, <1>2, <2>1, <2>2
    <3>2. replay'[k].sequence = a + i /\ replay'[k] = replay[h]
      BY <1>2, <2>1, <3>1
    <3> HIDE DEF k
    <3> QED
      BY <3>2
  <2>4. \A i \in 1..Len(replay) : replay[i].kind = "resize" => replay[i].sequence <= a
    <3> TAKE i \in 1..Len(replay)
    <3>1. CASE i <= c
      <4>1. i <= Len(replay) - Missing(a) /\ a \in Nat
        BY <1>1, <2>2, <3>1
      <4> QED
        BY <2>3, <4>1, OlderFrames
    <3>2. CASE i > c
      BY <1>3, <3>2
    <3> QED
      BY <3>1, <3>2
  <2> QED
    BY <2>3, <2>4 DEF NoTurn, Turn
<1> QED
  BY <1>4, <1>5

\* Every step keeps the log, and only a published frame changes the grid.
LEMMA GridLogStep ==
  ASSUME XtermAhead = FALSE, Inv, WindowInv, GridLogInv, [Next]_vars
  PROVE  GridLogInv' /\ (nextSequence' = nextSequence => grid' = grid)
<1>0. /\ StreamType /\ nextSequence \in Nat /\ grid \in Grids /\ replay \in Seq(ReplayFrame)
      /\ gridLog \in Seq(Grids) /\ Len(gridLog) = nextSequence + 1
  BY DEF Inv, StreamType, SessionType
<1>1. CASE UNCHANGED <<stream, grid>>
  BY <1>1 DEF stream, GridLogInv, Logged, LastTurn, NoTurn, Turn, Continuous, Missing
<1>2. ASSUME NEW p \in ParticipantIds, GuestAction(p) \/ HostAction(p) \/ ThreadStep(p)
      PROVE  UNCHANGED <<stream, grid>>
  <2>1. CASE GuestAction(p)
    BY <2>1 DEF GuestAction, Join, RequestControl, ReleaseControl, AuthorizeInput,
       WelcomeFails, SocketEnds, LeaveSession, session
  <2>2. CASE HostAction(p)
    BY <2>2 DEF HostAction, SetController, SetObserver, RemoveParticipant,
       BanParticipant, TypingFades, session
  <2>3. CASE ThreadStep(p)
    BY <2>3 DEF ThreadStep, SendJoined, SendReplay, Forward, Finish, LeaveSession, session
  <2> QED
    BY <1>2, <2>1, <2>2, <2>3
<1>3. ASSUME NEW k \in PayloadSizes, PublishOutput(k)
      PROVE  GridLogInv' /\ nextSequence' # nextSequence
  <2> DEFINE f == Output(nextSequence + 1, k)
  <2>1. f \in ReplayFrame /\ f.kind = "output" /\ f.sequence = nextSequence + 1
    BY <1>0, FrameType DEF Output
  <2>2. /\ nextSequence' = nextSequence + 1 /\ snapshot' = snapshot /\ grid' = grid
        /\ gridLog' = Append(gridLog, grid) /\ PushReplay(f)
    BY <1>3 DEF PublishOutput, Publish
  <2> HIDE DEF f
  <2> QED
    BY <1>0, <2>1, <2>2, PushKeepsGrid
<1>4. ASSUME NEW g \in Grids, PublishResize(g)
      PROVE  GridLogInv' /\ nextSequence' # nextSequence
  <2> DEFINE f == Resize(nextSequence + 1, g)
  <2>1. f \in ReplayFrame
    BY <1>0, FrameType
  <2>2. f.kind = "resize" /\ f.sequence = nextSequence + 1 /\ f.grid = g
    BY DEF Resize
  <2>3. /\ nextSequence' = nextSequence + 1 /\ snapshot' = snapshot /\ grid' = g
        /\ gridLog' = Append(gridLog, g) /\ PushReplay(f)
    BY <1>4 DEF PublishResize, Publish
  <2> HIDE DEF f
  <2> QED
    BY <1>0, <2>1, <2>2, <2>3, PushKeepsGrid
<1>5. ASSUME PublishTerminalExit
      PROVE  GridLogInv' /\ nextSequence' # nextSequence
  <2>1. /\ nextSequence' = nextSequence + 1 /\ snapshot' = snapshot /\ grid' = grid
        /\ gridLog' = Append(gridLog, grid) /\ replay' = replay
    BY <1>5 DEF PublishTerminalExit, Publish
  <2>2. /\ \A a \in 0..nextSequence : gridLog'[a + 1] = gridLog[a + 1]
        /\ gridLog'[nextSequence + 2] = grid
    BY <1>0, <2>1
  <2>3. snapshot # NoSnapshot => snapshot.sequence \in 0..nextSequence
    BY <1>0, FrameType DEF StreamType, WindowInv
  <2>4. Logged'
    <3>1. gridLog'[nextSequence' + 1] = grid'
      BY <1>0, <2>1, <2>2
    <3>2. snapshot' # NoSnapshot => snapshot'.grid = gridLog'[snapshot'.sequence + 1]
      BY <2>1, <2>2, <2>3 DEF GridLogInv, Logged
    <3> QED
      BY <3>1, <3>2 DEF Logged
  <2>5. LastTurn'
    BY <2>1 DEF GridLogInv, LastTurn, Turn
  <2>6. NoTurn'
    <3> SUFFICES ASSUME NEW a \in 0..(nextSequence + 1), Continuous(a)'
                 PROVE  gridLog'[a + 1] = grid
      BY <2>1 DEF NoTurn
    <3>1. CASE a = nextSequence + 1
      BY <1>0, <2>2, <3>1
    <3>2. CASE a # nextSequence + 1
      <4> DEFINE m == nextSequence + 1 - a
                 l == Len(replay)
      <4>1. /\ nextSequence' - a \in 0..Len(replay')
            /\ \A i \in 1..(nextSequence' - a) :
                 replay'[Len(replay') - (nextSequence' - a) + i].sequence = a + i
        BY DEF Continuous, Missing
      <4>2. /\ nextSequence' - a = m /\ Len(replay') = l /\ replay' = replay
            /\ m \in Nat /\ m > 0 /\ l \in Nat
        BY <1>0, <2>1, <3>2
      <4>3. m \in 0..l /\ \A i \in 1..m : replay[l - m + i].sequence = a + i
        BY <4>1, <4>2
      <4>4. replay[l - m + m].sequence = a + m
        BY <4>2, <4>3
      <4>5. l - m + m = l /\ a + m = nextSequence + 1 /\ l \in 1..l
        BY <1>0, <4>2, <4>3
      <4>6. replay[l].sequence = nextSequence + 1
        BY <4>4, <4>5
      <4>7. replay[l].sequence <= nextSequence
        BY <4>5 DEF WindowInv, ReplayOrdered
      <4> QED
        BY <1>0, <4>6, <4>7
    <3> QED
      BY <3>1, <3>2
  <2> QED
    BY <1>0, <2>1, <2>4, <2>5, <2>6 DEF GridLogInv
<1>6. ASSUME NEW n \in 0..MaxSequence, NEW g \in Grids, SetSnapshot(n, g)
      PROVE  GridLogInv' /\ grid' = grid
  <2>1. /\ n \in Nat /\ n <= nextSequence /\ g = gridLog[n + 1]
        /\ snapshot' = Snapshot(n, g) /\ replay' = DropFirst(replay, Covered(n))
        /\ nextSequence' = nextSequence
        /\ grid' = GridAfterSnapshot(n, g) /\ gridLog' = [gridLog EXCEPT ![n + 1] = g]
    BY <1>0, <1>6 DEF SetSnapshot
  <2>2. gridLog' = gridLog
    <3>1. gridLog = [i \in 1..(nextSequence + 1) |-> gridLog[i]]
      BY <1>0
    <3> QED
      BY <1>0, <2>1, <3>1
  <2>3. grid' = grid
    BY <2>1 DEF GridAfterSnapshot, GridLogInv, Logged
  <2>4. Covered(n) \in Nat /\ Covered(n) <= Len(replay)
    BY <1>0, CoveredType
  <2>5. LastTurn' /\ NoTurn'
    BY <1>0, <2>1, <2>2, <2>3, <2>4, DropKeepsGrid DEF GridLogInv
  <2>6. Logged'
    BY <2>1, <2>2, <2>3 DEF GridLogInv, Logged, Snapshot
  <2> QED
    BY <2>3, <2>5, <2>6 DEF GridLogInv
<1>7. ASSUME Close PROVE GridLogInv' /\ grid' = grid
  <2>1. /\ snapshot' = NoSnapshot /\ replay' = <<>> /\ UNCHANGED <<grid, nextSequence, gridLog>>
    BY <1>7 DEF Close
  <2>2. Len(replay') = 0
    BY <2>1
  <2>3. NoTurn'
    <3> SUFFICES ASSUME NEW a \in 0..nextSequence, Continuous(a)'
                 PROVE  gridLog[a + 1] = grid
      BY <2>1 DEF NoTurn
    <3>1. nextSequence - a \in 0..0
      BY <2>1, <2>2 DEF Continuous, Missing
    <3>2. a = nextSequence
      BY <1>0, <3>1
    <3> QED
      BY <3>2 DEF GridLogInv, Logged
  <2>4. Logged' /\ LastTurn'
    BY <2>1, <2>2 DEF GridLogInv, Logged, LastTurn
  <2> QED
    BY <2>1, <2>3, <2>4 DEF GridLogInv
<1>8. CASE Expire
  BY <1>1, <1>8 DEF Expire
<1>9. CASE UNCHANGED vars
  BY <1>1, <1>9 DEF vars, session
<1>10. UNCHANGED <<stream, grid>> => grid' = grid
  OBVIOUS
<1> QED
  BY <1>1, <1>2, <1>3, <1>4, <1>5, <1>6, <1>7, <1>8, <1>9, <1>10 DEF Next, TerminalAction

\* A line of frames alone, with b shown before.
LEMMA WelcomeGrid ==
  ASSUME NEW w \in Seq(DataFrame), NEW g,
         \A i \in 1..Len(w) :
           /\ w[i].kind \in {"resize", "snapshot"}
           /\ \A j \in 1..Len(w) : w[j].kind \in {"resize", "snapshot"} => j <= i
           => w[i].grid = g
  PROVE  LeavesGrid(Row(w, <<>>), g, g)
<1> DEFINE ms == Row(w, <<>>)
<1>1. /\ ms \in Seq(OutboundMessage) /\ Len(ms) = Len(w) /\ Len(w) \in Nat
      /\ \A i \in 1..Len(w) : ms[i] = Data(w[i])
  <2>1. <<>> \in Seq(OutboundMessage) /\ Len(<<>>) = 0 /\ Len(w) \in Nat
    OBVIOUS
  <2>2. /\ Row(w, <<>>) \in Seq(OutboundMessage)
        /\ Len(Row(w, <<>>)) = Len(w) + Len(<<>>)
        /\ \A i \in 1..Len(w) : Row(w, <<>>)[i] = Data(w[i])
    BY <2>1, RowType
  <2> QED
    BY <2>1, <2>2
<1> HIDE DEF ms
<1>2. \A i \in 1..Len(w) : ms[i].type = "data" /\ ms[i].frame = w[i]
  <2> TAKE i \in 1..Len(w)
  <2>1. ms[i] = Data(w[i])
    BY <1>1
  <2> QED
    BY <2>1 DEF Data
<1>3. Reflows(ms) = {0} \cup {i \in 1..Len(w) : w[i].kind \in {"resize", "snapshot"}}
  <2>1. DOMAIN ms = 1..Len(w)
    BY <1>1
  <2> QED
    BY <1>2, <2>1 DEF Reflows
<1> SUFFICES ASSUME NEW i \in Reflows(ms), IsLast(i, Reflows(ms))
             PROVE  (IF i = 0 THEN g ELSE ms[i].frame.grid) = g
  BY DEF LeavesGrid, ms
<1>4. CASE i = 0
  BY <1>4
<1>5. CASE i # 0
  <2>1. i \in 1..Len(w) /\ w[i].kind \in {"resize", "snapshot"}
    BY <1>3, <1>5
  <2>2. \A j \in 1..Len(w) : w[j].kind \in {"resize", "snapshot"} => j <= i
    BY <1>3 DEF IsLast
  <2> QED
    BY <1>2, <2>1, <2>2
<1> QED
  BY <1>4, <1>5

\* What is newer than a is the end of the replay window.
LEMMA NewerPlaces ==
  ASSUME StreamType, NEW a \in Nat, Continuous(a)
  PROVE  /\ Newer(a) \in Seq(ReplayFrame)
         /\ Len(Newer(a)) = Missing(a) /\ Missing(a) \in 0..Len(replay)
         /\ \A i \in 1..Len(Newer(a)) : Newer(a)[i] = replay[Len(replay) - Missing(a) + i]
<1>1. replay \in Seq(ReplayFrame) /\ nextSequence \in Nat /\ Len(replay) \in Nat
  BY DEF StreamType
<1> DEFINE m == Len(replay) - Missing(a) + 1
<1>2. Missing(a) \in 0..Len(replay)
  BY DEF Continuous
<1>3. m \in Nat \ {0} /\ m + Missing(a) = Len(replay) + 1
  BY <1>1, <1>2
<1>4. Newer(a) = SubSeq(replay, m, Len(replay))
  BY DEF Newer
<1> HIDE DEF m
<1>5. /\ Newer(a) \in Seq(ReplayFrame)
      /\ Len(Newer(a)) = IF m <= Len(replay) THEN Len(replay) - m + 1 ELSE 0
      /\ \A i \in 1..Len(Newer(a)) : Newer(a)[i] = replay[m + i - 1]
  BY <1>1, <1>3, <1>4, SubWindow
<1>6. Len(Newer(a)) = Missing(a)
  BY <1>1, <1>2, <1>3, <1>5
<1>7. ASSUME NEW i \in 1..Len(Newer(a))
      PROVE  Newer(a)[i] = replay[Len(replay) - Missing(a) + i]
  <2>1. m + i - 1 = Len(replay) - Missing(a) + i
    BY <1>1, <1>2, <1>6 DEF m
  <2> QED
    BY <1>5, <2>1
<1> QED
  BY <1>2, <1>5, <1>6, <1>7

\* In what is newer than a, the last resize is the last the replay has.
LEMMA NewerTurns ==
  ASSUME StreamType, WindowInv, GridLogInv, NEW a \in Nat, Continuous(a)
  PROVE  /\ \A i \in 1..Len(Newer(a)) :
              /\ Newer(a)[i].kind = "resize"
              /\ \A j \in 1..Len(Newer(a)) : Newer(a)[j].kind = "resize" => j <= i
              => Newer(a)[i].grid = grid
         /\ (\A i \in 1..Len(Newer(a)) : Newer(a)[i].kind # "resize") =>
              gridLog[a + 1] = grid
<1> DEFINE w == Newer(a)
           d == Len(replay) - Missing(a)
<1>1. /\ Len(w) = Missing(a) /\ Missing(a) \in 0..Len(replay) /\ Len(replay) \in Nat
      /\ \A i \in 1..Len(w) : w[i] = replay[d + i]
      /\ nextSequence \in Nat /\ Missing(a) = nextSequence - a
  BY NewerPlaces DEF StreamType, Missing
<1>2. d \in Nat /\ d + Len(w) = Len(replay)
  BY <1>1
<1> HIDE DEF w
<1>3. \A j \in 1..Len(replay) : j > d => j - d \in 1..Len(w) /\ w[j - d] = replay[j]
  <2> TAKE j \in 1..Len(replay)
  <2> HAVE j > d
  <2> DEFINE h == j - d
  <2> HIDE DEF d
  <2>1. h \in 1..Len(w) /\ d + h = j
    BY <1>2
  <2>2. w[h] = replay[j]
    BY <1>1, <2>1 DEF d
  <2> QED
    BY <2>1, <2>2
<1>4. ASSUME NEW i \in 1..Len(w), w[i].kind = "resize",
             \A j \in 1..Len(w) : w[j].kind = "resize" => j <= i
      PROVE  w[i].grid = grid
  <2>1. w[i] = replay[d + i]
    BY <1>1
  <2> HIDE DEF d
  <2>2. d + i \in 1..Len(replay) /\ i \in Nat
    BY <1>2
  <2>3. \A j \in 1..Len(replay) : replay[j].kind = "resize" => j <= d + i
    <3> TAKE j \in 1..Len(replay)
    <3> HAVE replay[j].kind = "resize"
    <3>1. CASE j > d
      <4>1. j - d <= i
        BY <1>3, <1>4, <3>1
      <4> QED
        BY <1>2, <2>2, <4>1
    <3>2. CASE ~(j > d)
      BY <1>2, <2>2, <3>2
    <3> QED
      BY <3>1, <3>2
  <2> QED
    BY <1>4, <2>1, <2>2, <2>3 DEF GridLogInv, LastTurn, Turn
<1>5. ASSUME \A i \in 1..Len(w) : w[i].kind # "resize"
      PROVE  gridLog[a + 1] = grid
  <2>1. \A i \in 1..Len(replay) : replay[i].kind = "resize" => replay[i].sequence <= a
    <3> TAKE i \in 1..Len(replay)
    <3> HAVE replay[i].kind = "resize"
    <3>1. ~(i > d)
      BY <1>3, <1>5
    <3>2. i <= Len(replay) - Missing(a)
      BY <1>1, <3>1
    <3> QED
      BY <3>2, OlderFrames
  <2>2. a \in 0..nextSequence
    BY <1>1
  <2> QED
    BY <2>1, <2>2 DEF GridLogInv, NoTurn, Turn
<1> QED
  BY <1>4, <1>5 DEF w

\* Whatever welcome a joiner gets, it ends at the grid Joined announced: the frames
\* before the last resize reflow the terminal on the way, nothing after it does.
LEMMA WelcomeTurns ==
  ASSUME StreamType, WindowInv, GridLogInv, NEW after \in Nat \cup {Fresh}, ReplayAvailable(after)
  PROVE  LeavesGrid(Row(ReplayForJoin(after), <<>>), grid, grid)
<1>1. ASSUME NEW a \in Nat, Continuous(a)
      PROVE  LeavesGrid(Row(Newer(a), <<>>), grid, grid)
  <2> DEFINE w == Newer(a)
  <2>1. /\ w \in Seq(ReplayFrame)
        /\ \A i \in 1..Len(w) :
             w[i].kind = "resize" /\ (\A j \in 1..Len(w) : w[j].kind = "resize" => j <= i)
               => w[i].grid = grid
    BY <1>1, NewerPlaces, NewerTurns
  <2>2. w \in Seq(DataFrame)
    BY <2>1, FrameType
  <2>3. \A i \in 1..Len(w) : w[i].kind # "snapshot"
    <3>1. \A f \in ReplayFrame : f.kind # "snapshot"
      BY DEF ReplayFrame
    <3>2. \A i \in 1..Len(w) : w[i] \in ReplayFrame
      BY <2>1, ElementOfSeq
    <3> QED
      BY <3>1, <3>2
  <2> HIDE DEF w
  <2>4. LeavesGrid(Row(w, <<>>), grid, grid)
    BY <2>1, <2>2, <2>3, WelcomeGrid
  <2> QED
    BY <2>4 DEF w
<1>2. CASE after # Fresh /\ Continuous(after)
  BY <1>1, <1>2 DEF ReplayForJoin
<1>3. CASE ~(after # Fresh /\ Continuous(after)) /\ snapshot = NoSnapshot
  <2>1. after = Fresh /\ Continuous(0)
    BY <1>3 DEF ReplayAvailable, SnapshotUsable
  <2> QED
    BY <1>1, <1>3, <2>1 DEF ReplayForJoin
<1>4. CASE ~(after # Fresh /\ Continuous(after)) /\ snapshot # NoSnapshot
  <2> DEFINE a == snapshot.sequence
             v == Newer(a)
             w == <<snapshot>> \o v
  <2>1. /\ snapshot \in SnapshotFrame /\ Continuous(a) /\ ReplayForJoin(after) = w
    BY <1>4 DEF ReplayAvailable, SnapshotUsable, StreamType, ReplayForJoin
  <2>2. a \in Nat /\ snapshot.kind = "snapshot" /\ snapshot.grid = gridLog[a + 1]
    BY <1>4, <2>1 DEF SnapshotFrame, GridLogInv, Logged
  <2>3. /\ v \in Seq(ReplayFrame) /\ Len(v) \in Nat
        /\ \A i \in 1..Len(v) :
             v[i].kind = "resize" /\ (\A j \in 1..Len(v) : v[j].kind = "resize" => j <= i)
               => v[i].grid = grid
        /\ (\A i \in 1..Len(v) : v[i].kind # "resize") => gridLog[a + 1] = grid
    <3> HIDE DEF a
    <3>1. v \in Seq(ReplayFrame)
      BY <2>1, <2>2, NewerPlaces
    <3>2. /\ \A i \in 1..Len(v) :
               v[i].kind = "resize" /\ (\A j \in 1..Len(v) : v[j].kind = "resize" => j <= i)
                 => v[i].grid = grid
          /\ (\A i \in 1..Len(v) : v[i].kind # "resize") => gridLog[a + 1] = grid
      BY <2>1, <2>2, NewerTurns
    <3>3. Len(v) \in Nat
      <4> HIDE DEF v
      <4> QED
        BY <3>1
    <3> QED
      BY <3>1, <3>2, <3>3
  <2>4. v \in Seq(DataFrame) /\ <<snapshot>> \in Seq(DataFrame) /\ Len(<<snapshot>>) = 1
    BY <2>1, <2>3, FrameType
  <2>5. \A i \in 1..Len(v) : v[i].kind # "snapshot"
    <3>1. \A f \in ReplayFrame : f.kind # "snapshot"
      BY DEF ReplayFrame
    <3>2. \A i \in 1..Len(v) : v[i] \in ReplayFrame
      BY <2>3, ElementOfSeq
    <3> QED
      BY <3>1, <3>2
  <2> HIDE DEF v
  <2>6. /\ w \in Seq(DataFrame) /\ Len(w) = 1 + Len(v)
        /\ \A i \in 1..(1 + Len(v)) : w[i] = IF i <= 1 THEN <<snapshot>>[i] ELSE v[i - 1]
    <3> DEFINE s == <<snapshot>>
    <3>1. s \in Seq(DataFrame) /\ v \in Seq(DataFrame) /\ Len(s) = 1
      BY <2>4
    <3> HIDE DEF s
    <3>2. /\ s \o v \in Seq(DataFrame) /\ Len(s \o v) = Len(s) + Len(v)
          /\ \A i \in 1..(Len(s) + Len(v)) :
               (s \o v)[i] = IF i <= Len(s) THEN s[i] ELSE v[i - Len(s)]
      BY <3>1, ConcatProperties, Zenon
    <3> QED
      BY <3>1, <3>2 DEF s
  <2>7. w[1] = snapshot /\ \A i \in 1..Len(v) : i + 1 \in 1..Len(w) /\ w[i + 1] = v[i]
    BY <2>3, <2>6
  <2>8. \A i \in 1..Len(w) : i = 1 \/ (i - 1 \in 1..Len(v) /\ w[i] = v[i - 1])
    <3> TAKE i \in 1..Len(w)
    <3>1. /\ i \in 1..(1 + Len(v))
          /\ i # 1 => i - 1 \in 1..Len(v) /\ ~(i <= 1)
      BY <2>3, <2>6
    <3>2. w[i] = IF i <= 1 THEN <<snapshot>>[i] ELSE v[i - 1]
      BY <2>6, <3>1
    <3> HIDE DEF w
    <3> QED
      BY <3>1, <3>2
  <2> HIDE DEF w, a
  <2>9. ASSUME NEW i \in 1..Len(w), w[i].kind \in {"resize", "snapshot"},
               \A j \in 1..Len(w) : w[j].kind \in {"resize", "snapshot"} => j <= i
        PROVE  w[i].grid = grid
    <3>1. CASE i = 1
      <4>1. \A j \in 1..Len(v) : v[j].kind # "resize"
        <5> TAKE j \in 1..Len(v)
        <5>1. w[j + 1] = v[j] /\ j + 1 \in 1..Len(w) /\ ~(j + 1 <= i)
          BY <2>7, <3>1
        <5> QED
          BY <2>9, <5>1
      <4> QED
        BY <2>2, <2>3, <2>7, <3>1, <4>1 DEF a
    <3>2. CASE i # 1
      <4> DEFINE k == i - 1
      <4>1. k \in 1..Len(v) /\ w[i] = v[k] /\ v[k].kind = "resize"
        BY <2>5, <2>8, <2>9, <3>2
      <4>2. \A j \in 1..Len(v) : v[j].kind = "resize" => j <= k
        <5> TAKE j \in 1..Len(v)
        <5> HAVE v[j].kind = "resize"
        <5>1. w[j + 1] = v[j] /\ j + 1 \in 1..Len(w)
          BY <2>7
        <5>2. j + 1 <= i
          BY <2>9, <5>1
        <5> QED
          BY <5>2
      <4> HIDE DEF k
      <4> QED
        BY <2>3, <4>1, <4>2
    <3> QED
      BY <3>1, <3>2
  <2>10. LeavesGrid(Row(w, <<>>), grid, grid)
    BY <2>6, <2>9, WelcomeGrid
  <2> QED
    BY <2>1, <2>10
<1> QED
  BY <1>2, <1>3, <1>4

\* The part of GridConverges that is about p.
Steers(p) == LeavesGrid(Line(p), Shows(p), grid)
Steered == \A p \in participants : Receiving(p) => Steers(p)

\* None of the five ways a line can change leaves a guest at another grid.
LEMMA MovesSteer ==
  ASSUME Inv, Inv', WindowInv, GridLogInv, nextSequence' = nextSequence => grid' = grid,
         NEW p \in ParticipantIds, Moves(p), p \in participants', Receiving(p)',
         p \in participants /\ Receiving(p) => Steers(p)
  PROVE  Steers(p)'
<1>1. /\ welcome[p] \in Seq(DataFrame) /\ welcome'[p] \in Seq(DataFrame)
      /\ outbound[p] \in Seq(OutboundMessage) /\ outbound'[p] \in Seq(OutboundMessage)
      /\ view[p] \in ViewType /\ nextSequence \in Nat /\ StreamType
  BY DEF Inv, ThreadType, QueueType, StreamType
<1>2. /\ Line(p) = Row(welcome[p], outbound[p]) /\ Line(p)' = Row(welcome'[p], outbound'[p])
      /\ Line(p) \in Seq(OutboundMessage) /\ Line(p)' \in Seq(OutboundMessage)
  BY <1>1, RowType DEF Line, Row
<1>3. SUFFICES LeavesGrid(Line(p)', Shows(p)', grid')
  BY DEF Steers, LeavesGrid, Line, Shows
<1>4. CASE Joins(p)
  <2>1. PICK after \in Nat \cup {Fresh} :
          ReplayAvailable(after) /\ welcome'[p] = ReplayForJoin(after)
    BY <1>4 DEF Joins
  <2>2. outbound'[p] = <<>> /\ grid' = grid /\ Shows(p)' = grid
    BY <1>4 DEF Joins, Shows
  <2>3. LeavesGrid(Row(ReplayForJoin(after), <<>>), grid, grid)
    BY <1>1, <2>1, WelcomeTurns
  <2> QED
    BY <1>2, <2>1, <2>2, <2>3
<1>5. CASE Hears(p)
  <2>1. /\ grid' = grid /\ Shows(p)' = Shows(p)
        /\ welcome'[p] = welcome[p] /\ GrowsQuietly(outbound[p], outbound'[p]) /\ Steers(p)
    BY <1>5 DEF Hears
  <2>2. GrowsQuietly(Line(p), Line(p)')
    BY <1>1, <1>2, <2>1, RowGrows
  <2>3. LeavesGrid(Line(p)', Shows(p), grid)
    BY <1>2, <2>1, <2>2, QuietLine DEF Steers
  <2> QED
    BY <2>1, <2>3
<1>6. CASE IsFed(p)
  <2>1. PICK f \in DataFrame :
          /\ \/ f.kind = "resize" /\ grid' = f.grid
             \/ f.kind \in {"output", "exit"} /\ grid' = grid
          /\ outbound'[p] = IF p \in participants' /\ Receiving(p)
                            THEN Append(outbound[p], Data(f)) ELSE outbound[p]
    BY <1>6 DEF IsFed
  <2>2. /\ phase'[p] = phase[p] /\ view'[p] = view[p]
        /\ welcome'[p] = welcome[p] /\ Receiving(p) /\ Steers(p)
    BY <1>6 DEF IsFed, Receiving
  <2>3. Data(f) \in OutboundMessage
    BY MessageType
  <2>4. Line(p)' = Append(Line(p), Data(f))
    BY <1>1, <1>2, <2>1, <2>2, <2>3, RowFed
  <2>5. grid' = grid => Shows(p)' = Shows(p)
    BY <2>2 DEF Shows
  <2> DEFINE l == Line(p)
             c == Shows(p)'
             b == Shows(p)
             h == grid'
  <2>6. /\ l \in Seq(OutboundMessage) /\ LeavesGrid(l, b, grid)
        /\ \/ f.kind = "resize" /\ h = f.grid
           \/ f.kind \in {"output", "exit"} /\ c = b /\ h = grid
    BY <1>2, <2>1, <2>2, <2>5 DEF Steers
  <2> HIDE DEF l, c, b, h
  <2>7. LeavesGrid(Append(l, Data(f)), c, h)
    BY <2>3, <2>6, FedGrid
  <2> QED
    BY <2>4, <2>7 DEF l, c, h
<1>7. CASE Takes(p)
  <2>1. /\ grid' = grid /\ Receiving(p) /\ Steers(p)
        /\ Line(p) # <<>> /\ Line(p)' = Tail(Line(p))
        /\ view'[p] = Shown(p, view[p], Head(Line(p)))
        /\ Shows(p) = view[p].grid /\ Shows(p)' = view'[p].grid
    BY <1>7 DEF Takes, Receiving, Shows
  <2>2. Head(Line(p)) \in OutboundMessage
    BY <1>2, <2>1
  <2>3. view'[p].grid = Showing(view[p].grid, Head(Line(p)))
    BY <1>1, <2>1, <2>2, ShownGrid
  <2> DEFINE l == Line(p)
             b == view[p].grid
  <2>4. l \in Seq(OutboundMessage) /\ l # <<>> /\ LeavesGrid(l, b, grid)
    BY <1>2, <2>1 DEF Steers
  <2> HIDE DEF l, b
  <2>5. LeavesGrid(Tail(l), Showing(b, Head(l)), grid)
    BY <2>4, TakenGrid
  <2> QED
    BY <2>1, <2>3, <2>5 DEF l, b
<1>8. CASE Ends(p)
  BY <1>8 DEF Ends, Receiving
<1> QED
  BY <1>4, <1>5, <1>6, <1>7, <1>8 DEF Moves

\* What makes GridConverges inductive: the retained frames and the log of grids agree.
GridInv == WindowInv /\ GridLogInv /\ FarewellInv /\ Flowing /\ Steered

\* Every step keeps it.
LEMMA GridStep ==
  ASSUME XtermAhead = FALSE, Inv, GridInv, [Next]_vars
  PROVE  GridInv'
<1>1. /\ Inv' /\ WindowInv' /\ FarewellInv' /\ Flowing'
      /\ GridLogInv' /\ (nextSequence' = nextSequence => grid' = grid)
  BY StepInv, WindowStep, FarewellStep, FlowingStep, GridLogStep DEF GridInv
<1>2. ASSUME NEW p \in participants', Receiving(p)'
      PROVE  Steers(p)'
  <2>1. p \in ParticipantIds
    BY <1>1 DEF Inv, Told, Telling
  <2>2. Moves(p)
    BY <2>1, SessionMoves DEF GridInv
  <2>3. p \in participants /\ Receiving(p) => Steers(p)
    BY DEF GridInv, Steered
  <2> QED
    BY <1>1, <1>2, <2>1, <2>2, <2>3, MovesSteer DEF GridInv
<1>3. Steered'
  BY <1>2 DEF Steered
<1> QED
  BY <1>1, <1>3 DEF GridInv

\* The log starts with the grid of the share and nothing is retained.
LEMMA GridInit == Init => GridInv
<1> SUFFICES ASSUME Init PROVE GridInv
  OBVIOUS
<1>1. WindowInv /\ FarewellInv /\ Flowing /\ Steered
  BY LimitsAssumption DEF Init, WindowInv, ReplayOrdered, FarewellInv, LastWord, Untouched,
     Flowing, Steered
<1>2. /\ replay = <<>> /\ nextSequence = 0 /\ gridLog = <<InitialGrid>> /\ grid = InitialGrid
      /\ snapshot = NoSnapshot
  BY DEF Init
<1>3. gridLog[1] = grid /\ Len(replay) = 0
  BY <1>2
<1>4. GridLogInv
  BY <1>2, <1>3 DEF GridLogInv, Logged, LastTurn, NoTurn
<1> QED
  BY <1>1, <1>4 DEF GridInv

\* A guest that has taken everything on its line shows the grid the session has: a
\* resize that was published while its welcome waited reaches it behind the frames
\* written for the older grid, and none of those is applied after it.  A snapshot is
\* taken to carry the grid of its place in the stream, as hostRuntime sends it when
\* xterm is not ahead of the session.
THEOREM GridFollows ==
  ASSUME XtermAhead = FALSE
  PROVE  Spec => []GridConverges
<1>1. Inv /\ GridInv /\ [Next]_vars => GridInv'
  BY GridStep
<1>2. GridInv => GridConverges
  BY DEF GridInv, Steered, Steers, Shows, GridConverges
<1> QED
  BY <1>1, <1>2, GridInit, Invariance, PTL DEF Spec

-----------------------------------------------------------------------------
\* The roles: RoleNoticesConverge.

\* With queue q and role v shown, p is left knowing its role is r.
NoticesIn(p, q) ==
  {0} \cup {i \in DOMAIN q : q[i].type = "role_changed" /\ q[i].id = p}
Knows(p, q, v, r) ==
  \A i \in NoticesIn(p, q) : IsLast(i, NoticesIn(p, q)) =>
    (IF i = 0 THEN v ELSE q[i].role) = r

\* p's queue ends with the role it has, or holds no notice and p shows that role.
ToldRole(p) == Knows(p, outbound[p], view[p].role, record[p].role)

\* A role_changed that is about p; p is told of the others' too.
IsNotice(p, m) == m.type = "role_changed" /\ m.id = p

\* Queueing a notice of the new role, or any other message while the role stays.
LEMMA NoticeQueued ==
  ASSUME NEW S, NEW q \in Seq(S), NEW m \in S, NEW p, NEW v, NEW r, NEW old,
         IF IsNotice(p, m) THEN m.role = r ELSE old = r /\ Knows(p, q, v, old)
  PROVE  Knows(p, Append(q, m), v, r)
<1> DEFINE t == Append(q, m)
           l == Len(q) + 1
<1>1. /\ Len(q) \in Nat /\ DOMAIN q = 1..Len(q) /\ DOMAIN t = 1..l
      /\ t[l] = m /\ \A i \in 1..Len(q) : t[i] = q[i]
  OBVIOUS
<1> HIDE DEF t
<1>2. NoticesIn(p, q) \subseteq 0..Len(q) /\ \A i \in NoticesIn(p, q) \ {0} : t[i] = q[i]
  BY <1>1 DEF NoticesIn
<1>3. CASE IsNotice(p, m)
  <2>1. NoticesIn(p, t) \subseteq 0..l /\ l \in NoticesIn(p, t)
    BY <1>1, <1>3 DEF NoticesIn, IsNotice
  <2> SUFFICES ASSUME NEW i \in NoticesIn(p, t), IsLast(i, NoticesIn(p, t))
               PROVE  (IF i = 0 THEN v ELSE t[i].role) = r
    BY DEF Knows, t
  <2>2. i = l
    BY <1>1, <2>1 DEF IsLast
  <2> QED
    BY <1>1, <1>3, <2>2
<1>4. CASE ~IsNotice(p, m)
  <2>1. NoticesIn(p, t) = NoticesIn(p, q)
    BY <1>1, <1>4 DEF NoticesIn, IsNotice
  <2>2. Knows(p, t, v, r)
    BY <1>2, <1>4, <2>1 DEF Knows
  <2> QED
    BY <2>2 DEF t
<1> QED
  BY <1>3, <1>4

\* Taking the head of the queue moves what is shown, not what the queue ends with.
LEMMA NoticeTaken ==
  ASSUME NEW S, NEW q \in Seq(S), q # <<>>, NEW p, NEW v, NEW r, Knows(p, q, v, r)
  PROVE  Knows(p, Tail(q), IF IsNotice(p, Head(q)) THEN Head(q).role ELSE v, r)
<1> DEFINE t == Tail(q)
           m == Head(q)
           u == IF IsNotice(p, m) THEN m.role ELSE v
           At(i) == IF i = 0 THEN (IF 1 \in NoticesIn(p, q) THEN 1 ELSE 0) ELSE i + 1
<1>1. /\ Len(q) \in Nat \ {0} /\ DOMAIN q = 1..Len(q) /\ DOMAIN t = 1..(Len(q) - 1)
      /\ q[1] = m /\ \A i \in 1..(Len(q) - 1) : t[i] = q[i + 1]
  OBVIOUS
<1> HIDE DEF t, m
<1>2. /\ NoticesIn(p, q) \subseteq 0..Len(q) /\ 0 \in NoticesIn(p, q)
      /\ 1 \in NoticesIn(p, q) <=> IsNotice(p, m)
  BY <1>1 DEF NoticesIn, IsNotice
<1>3. NoticesIn(p, t) = {0} \cup {i \in 1..(Len(q) - 1) : i + 1 \in NoticesIn(p, q)}
  BY <1>1 DEF NoticesIn
<1> SUFFICES ASSUME NEW i \in NoticesIn(p, t), IsLast(i, NoticesIn(p, t))
             PROVE  (IF i = 0 THEN u ELSE t[i].role) = r
  BY DEF Knows, t, m
<1>4. IsLast(At(i), NoticesIn(p, q))
  BY <1>1, <1>2, <1>3, LastOfTail
<1>5. (IF At(i) = 0 THEN v ELSE q[At(i)].role) = r
  <2>1. At(i) \in NoticesIn(p, q)
    BY <1>4 DEF IsLast
  <2> HIDE DEF At
  <2> QED
    BY <1>4, <2>1 DEF Knows
<1>6. CASE i = 0
  BY <1>1, <1>2, <1>5, <1>6
<1>7. CASE i # 0
  <2>1. i \in 1..(Len(q) - 1) /\ At(i) = i + 1 /\ At(i) # 0
    BY <1>1, <1>3, <1>7
  <2> QED
    BY <1>1, <1>5, <1>7, <2>1
<1> QED
  BY <1>6, <1>7

\* A broadcast to ps, whose members receiving it know their roles in r or are
\* told them by m.
LEMMA BroadcastTellsRoles ==
  ASSUME NEW q \in Queues, NEW ps \in SUBSET ParticipantIds, NEW r, NEW c,
         NEW m \in OutboundMessage, Broadcast(ps, r, c, q, m), UNCHANGED <<phase, view>>,
         NEW p \in participants', Receiving(p), NEW old,
         IF IsNotice(p, m) THEN m.role = r[p].role
         ELSE old = r[p].role /\ Knows(p, q[p], view[p].role, old)
  PROVE  ToldRole(p)'
<1>1. p \in ps \ Lagged(ps, q) /\ p \in ParticipantIds
  BY DEF Broadcast
<1>2. record'[p] = r[p] /\ outbound'[p] = Append(q[p], m)
  BY <1>1 DEF Broadcast, TrySend, Lagged
<1>3. q[p] \in Seq(OutboundMessage)
  BY <1>1 DEF Queues
<1>4. Knows(p, Append(q[p], m), view[p].role, r[p].role)
  BY <1>3, NoticeQueued
<1>5. Knows(p, outbound'[p], view'[p].role, record'[p].role)
  BY <1>2, <1>4
<1> QED
  BY <1>5 DEF ToldRole, Knows, NoticesIn

\* What makes RoleNoticesConverge inductive: a fresh view shows an observer.
RoleInv ==
  /\ \A p \in participants : Receiving(p) => ToldRole(p)
  /\ \A p \in ParticipantIds : phase[p] = "absent" => view[p].role = "observer"

\* Which messages are notices, and of what.
LEMMA NoticeOf ==
  /\ \A p, x \in ParticipantIds :
       /\ ~IsNotice(p, ParticipantJoined(x)) /\ ~IsNotice(p, ParticipantLeft(x))
       /\ ~IsNotice(p, ControlRequested(x)) /\ ~IsNotice(p, Closed)
       /\ \A r \in Roles : /\ IsNotice(p, RoleChanged(x, r)) <=> p = x
                           /\ RoleChanged(x, r).role = r
  /\ \A p : \A f : ~IsNotice(p, Data(f))
BY DEF IsNotice, ParticipantJoined, ParticipantLeft, ControlRequested, RoleChanged, Data, Closed

\* News that is no notice, of records whose roles are as they were.
LEMMA NewsKeepsRoles ==
  ASSUME Inv, RoleInv, NEW ps, ps \subseteq participants, NEW r, NEW c, NEW m \in OutboundMessage,
         Broadcast(ps, r, c, outbound, m), UNCHANGED <<phase, view>>,
         \A p \in ps : ~IsNotice(p, m) /\ r[p].role = record[p].role
  PROVE  RoleInv'
<1>1. outbound \in Queues /\ ps \in SUBSET ParticipantIds /\ participants' \subseteq ps
  BY DEF Inv, QueueType, Queues, Told, Telling, Broadcast
<1>2. ASSUME NEW p \in participants', Receiving(p)
      PROVE  ToldRole(p)'
  <2>1. p \in participants /\ ~IsNotice(p, m) /\ r[p].role = record[p].role
    BY <1>1
  <2>2. Knows(p, outbound[p], view[p].role, record[p].role)
    BY <1>2, <2>1 DEF RoleInv, ToldRole
  <2> QED
    BY <1>1, <1>2, <2>1, <2>2, BroadcastTellsRoles
<1>3. \A p : Receiving(p)' <=> Receiving(p)
  BY DEF Receiving
<1>4. \A p \in participants' : Receiving(p)' => ToldRole(p)'
  BY <1>2, <1>3
<1>5. \A p \in ParticipantIds : phase'[p] = "absent" => view'[p].role = "observer"
  BY DEF RoleInv
<1> QED
  BY <1>4, <1>5 DEF RoleInv

\* Steps that queue nothing and change no role.
LEMMA SilenceKeepsRoles ==
  ASSUME Inv, RoleInv, outbound' = outbound, participants' \subseteq participants,
         UNCHANGED <<phase, view>>, \A p \in participants' : record'[p].role = record[p].role
  PROVE  RoleInv'
<1>1. \A p : Receiving(p)' <=> Receiving(p)
  BY DEF Receiving
<1>2. \A p \in participants' : Receiving(p) =>
        Knows(p, outbound'[p], view'[p].role, record'[p].role)
  BY DEF RoleInv, ToldRole
<1>3. \A p \in participants' : Receiving(p)' => ToldRole(p)'
  BY <1>1, <1>2 DEF ToldRole, Knows, NoticesIn
<1>4. \A p \in ParticipantIds : phase'[p] = "absent" => view'[p].role = "observer"
  BY DEF RoleInv
<1> QED
  BY <1>3, <1>4 DEF RoleInv

\* set_observer and release_control queue the notice in the step that demotes.
LEMMA DemotionTold ==
  ASSUME Inv, RoleInv, NEW x \in ParticipantIds, SetObserver(x) \/ ReleaseControl(x)
  PROVE  RoleInv'
<1>1. /\ outbound \in Queues /\ participants \in SUBSET ParticipantIds
      /\ record \in [ParticipantIds -> Record]
  BY DEF Inv, QueueType, Queues, Told, Telling
<1> DEFINE r == [record EXCEPT ![x] = Demoted(@)]
           m == RoleChanged(x, "observer")
<1>2. /\ \E c : Broadcast(participants, r, c, outbound, m)
      /\ UNCHANGED <<phase, view>>
  BY DEF SetObserver, ReleaseControl, threads
<1>3. /\ r[x].role = "observer"
      /\ \A p \in ParticipantIds \ {x} : r[p] = record[p]
  BY <1>1, RecordType
<1>4. /\ m \in OutboundMessage /\ m.role = "observer"
      /\ \A p \in ParticipantIds : IsNotice(p, m) <=> p = x
  BY MessageType, NoticeOf DEF Roles
<1> HIDE DEF r, m
<1>5. participants' \subseteq participants
  BY <1>2 DEF Broadcast
<1>6. ASSUME NEW p \in participants', Receiving(p)
      PROVE  ToldRole(p)'
  <2>1. p \in participants /\ p \in ParticipantIds
    BY <1>1, <1>5
  <2>2. Knows(p, outbound[p], view[p].role, record[p].role)
    BY <1>6, <2>1 DEF RoleInv, ToldRole
  <2>3. IF IsNotice(p, m) THEN m.role = r[p].role
        ELSE /\ record[p].role = r[p].role
             /\ Knows(p, outbound[p], view[p].role, record[p].role)
    BY <1>3, <1>4, <2>1, <2>2
  <2> QED
    BY <1>1, <1>2, <1>4, <1>6, <2>3, BroadcastTellsRoles
<1>7. \A p : Receiving(p)' <=> Receiving(p)
  BY <1>2 DEF Receiving
<1>8. \A p \in participants' : Receiving(p)' => ToldRole(p)'
  BY <1>6, <1>7
<1>9. \A p \in ParticipantIds : phase'[p] = "absent" => view'[p].role = "observer"
  BY <1>2 DEF RoleInv
<1> QED
  BY <1>8, <1>9 DEF RoleInv

\* set_controller: the demotion is queued before the grant, and of those the
\* first notice leaves out the second tells nothing.
LEMMA GrantTold ==
  ASSUME Inv, RoleInv, NEW x \in ParticipantIds, SetController(x)
  PROVE  RoleInv'
<1>1. /\ outbound \in Queues /\ participants \in SUBSET ParticipantIds
      /\ record \in [ParticipantIds -> Record] /\ controllerId \in ParticipantIds \cup {NoOne}
  BY DEF Inv, QueueType, Queues, Told, Telling
<1> DEFINE demotes == controllerId \notin {NoOne, x}
           r == [y \in ParticipantIds |->
                   IF y = x THEN InControl(record[y])
                   ELSE IF demotes /\ y = controllerId THEN Demoted(record[y])
                   ELSE record[y]]
           d == RoleChanged(controllerId, "observer")
           m == RoleChanged(x, "controller")
           ps == IF demotes THEN participants \ Lagged(participants, outbound) ELSE participants
           q == IF demotes THEN TrySend(participants, outbound, d) ELSE outbound
<1>2. /\ \E c : Broadcast(ps, r, c, q, m)
      /\ UNCHANGED <<phase, view>>
  BY DEF SetController, threads
<1>3. /\ r[x].role = "controller"
      /\ \A y \in ParticipantIds \ {x} :
           r[y].role = IF demotes /\ y = controllerId THEN "observer" ELSE record[y].role
  BY <1>1, RecordType, RecordUpdates
<1>4. /\ m \in OutboundMessage /\ m.role = "controller"
      /\ \A p \in ParticipantIds : IsNotice(p, m) <=> p = x
  BY MessageType, NoticeOf DEF Roles
<1>5. demotes => /\ d \in OutboundMessage /\ d.role = "observer"
                 /\ \A p \in ParticipantIds : IsNotice(p, d) <=> p = controllerId
  BY <1>1, MessageType, NoticeOf DEF Roles
<1>6. q \in Queues /\ ps \subseteq participants
  BY <1>1, <1>5, TrySendType DEF Queues
<1>7. ASSUME NEW p \in ps, Receiving(p), p # x
      PROVE  Knows(p, q[p], view[p].role, r[p].role)
  <2>1. p \in participants /\ p \in ParticipantIds
    BY <1>1, <1>6
  <2>2. Knows(p, outbound[p], view[p].role, record[p].role)
    BY <1>7, <2>1 DEF RoleInv, ToldRole
  <2>3. CASE ~demotes
    <3>1. q[p] = outbound[p] /\ r[p].role = record[p].role
      BY <1>3, <1>7, <2>1, <2>3
    <3> QED
      BY <2>2, <3>1
  <2>4. CASE demotes
    <3>1. q[p] = Append(outbound[p], d)
      BY <1>7, <2>1, <2>4 DEF TrySend, Lagged
    <3>2. outbound[p] \in Seq(OutboundMessage)
      BY <1>1, <2>1 DEF Queues
    <3>3. /\ r[p].role = IF p = controllerId THEN "observer" ELSE record[p].role
          /\ d \in OutboundMessage /\ d.role = "observer" /\ (IsNotice(p, d) <=> p = controllerId)
      BY <1>3, <1>5, <1>7, <2>1, <2>4
    <3> HIDE DEF q, d, r
    <3>4. Knows(p, Append(outbound[p], d), view[p].role, r[p].role)
      BY <2>2, <3>2, <3>3, NoticeQueued
    <3> QED
      BY <3>1, <3>4
  <2> QED
    BY <2>3, <2>4
<1> HIDE DEF r, m, ps, q
<1>8. participants' \subseteq ps
  BY <1>2 DEF Broadcast
<1>9. ASSUME NEW p \in participants', Receiving(p)
      PROVE  ToldRole(p)'
  <2>1. p \in ps /\ p \in ParticipantIds /\ ps \in SUBSET ParticipantIds
    BY <1>1, <1>6, <1>8
  <2>2. IF IsNotice(p, m) THEN m.role = r[p].role
        ELSE /\ r[p].role = r[p].role
             /\ Knows(p, q[p], view[p].role, r[p].role)
    BY <1>3, <1>4, <1>7, <1>9, <2>1
  <2> QED
    BY <1>2, <1>4, <1>6, <1>9, <2>1, <2>2, BroadcastTellsRoles
<1>10. \A p : Receiving(p)' <=> Receiving(p)
  BY <1>2 DEF Receiving
<1>11. \A p \in participants' : Receiving(p)' => ToldRole(p)'
  BY <1>9, <1>10
<1>12. \A p \in ParticipantIds : phase'[p] = "absent" => view'[p].role = "observer"
  BY <1>2 DEF RoleInv
<1> QED
  BY <1>11, <1>12 DEF RoleInv

\* The others hear participant_left; the removed one is no participant any more.
LEMMA ExpelTold ==
  ASSUME Inv, RoleInv, NEW x \in ParticipantIds, Expel(x), UNCHANGED threads
  PROVE  RoleInv'
<1>1. /\ outbound \in Queues /\ participants \in SUBSET ParticipantIds
  BY DEF Inv, QueueType, Queues, Told, Telling
<1> DEFINE q == TrySend({x}, outbound, Closed)
           ps == participants \ {x}
           m == ParticipantLeft(x)
<1>2. /\ \E c : Broadcast(ps, record, c, q, m)
      /\ UNCHANGED <<phase, view>>
  BY DEF Expel, threads
<1>3. q \in Queues /\ \A p \in ParticipantIds \ {x} : q[p] = outbound[p]
  BY <1>1, TrySendType, MessageType DEF Queues, TrySend
<1>4. m \in OutboundMessage /\ \A p \in ParticipantIds : ~IsNotice(p, m)
  BY MessageType, NoticeOf
<1>5. participants' \subseteq ps /\ ps \in SUBSET ParticipantIds
  BY <1>1, <1>2 DEF Broadcast
<1> HIDE DEF q, m
<1>6. ASSUME NEW p \in participants', Receiving(p)
      PROVE  ToldRole(p)'
  <2>1. p \in participants /\ p \in ParticipantIds /\ q[p] = outbound[p] /\ ~IsNotice(p, m)
    BY <1>1, <1>3, <1>4, <1>5
  <2>2. Knows(p, q[p], view[p].role, record[p].role)
    BY <1>6, <2>1 DEF RoleInv, ToldRole
  <2> QED
    BY <1>2, <1>3, <1>4, <1>5, <1>6, <2>1, <2>2, BroadcastTellsRoles
<1>7. \A p : Receiving(p)' <=> Receiving(p)
  BY <1>2 DEF Receiving
<1>8. \A p \in participants' : Receiving(p)' => ToldRole(p)'
  BY <1>6, <1>7
<1>9. \A p \in ParticipantIds : phase'[p] = "absent" => view'[p].role = "observer"
  BY <1>2 DEF RoleInv
<1> QED
  BY <1>8, <1>9 DEF RoleInv

\* A new participant is an observer and shows one; the others hear of it.
LEMMA JoinTold ==
  ASSUME Inv, Untouched, RoleInv, NEW x \in ParticipantIds, NEW name \in Names, NEW nonce,
         NEW after, Join(x, name, nonce, after)
  PROVE  RoleInv'
<1>1. /\ outbound \in Queues /\ participants \in SUBSET ParticipantIds
      /\ phase \in [ParticipantIds -> Phases] /\ view \in [ParticipantIds -> ViewType]
  BY DEF Inv, QueueType, Queues, Told, Telling, ThreadType
<1> DEFINE ps == participants \ Lagged(participants, outbound)
           m == ParticipantJoined(x)
<1>2. /\ phase[x] = "absent" /\ phase' = [phase EXCEPT ![x] = "joined"]
      /\ participants' = ps \cup {x}
      /\ record' = [r \in ParticipantIds |->
             IF r = x THEN NewRecord(name)
             ELSE IF r \in ps THEN record[r] ELSE NoRecord]
      /\ outbound' = TrySend(participants, outbound, m)
      /\ \E n : view' = [view EXCEPT ![x].sequence = n]
  BY DEF Join
<1>3. m \in OutboundMessage /\ \A p \in ParticipantIds : ~IsNotice(p, m)
  BY MessageType, NoticeOf
<1>4. \A p \in ParticipantIds : view'[p].role = view[p].role
  BY <1>1, <1>2 DEF ViewType
<1> HIDE DEF m
<1>5. ASSUME NEW p \in participants', Receiving(p)', p # x
      PROVE  ToldRole(p)'
  <2>1. /\ p \in ps /\ p \in participants /\ p \in ParticipantIds /\ Receiving(p)
        /\ record'[p] = record[p]
    BY <1>1, <1>2, <1>5 DEF Receiving
  <2>2. outbound'[p] = Append(outbound[p], m) /\ outbound[p] \in Seq(OutboundMessage)
    BY <1>1, <1>2, <2>1 DEF TrySend, Lagged, Queues
  <2>3. Knows(p, outbound[p], view[p].role, record[p].role)
    BY <2>1 DEF RoleInv, ToldRole
  <2>4. Knows(p, Append(outbound[p], m), view[p].role, record[p].role)
    BY <1>3, <2>1, <2>2, <2>3, NoticeQueued
  <2>5. Knows(p, outbound'[p], view'[p].role, record'[p].role)
    BY <1>4, <2>1, <2>2, <2>4
  <2> QED
    BY <2>5 DEF ToldRole, Knows, NoticesIn
<1>6. ToldRole(x)'
  <2>1. outbound'[x] = <<>>
    BY <1>2 DEF TrySend, Receiving, Untouched
  <2>2. view'[x].role = "observer" /\ record'[x].role = "observer"
    BY <1>2, <1>4, RecordType DEF RoleInv
  <2>3. DOMAIN outbound'[x] = {}
    BY <2>1
  <2>4. NoticesIn(x, outbound'[x]) = {0}
    BY <2>3 DEF NoticesIn
  <2>5. Knows(x, outbound'[x], view'[x].role, record'[x].role)
    BY <2>2, <2>4 DEF Knows
  <2> QED
    BY <2>5 DEF ToldRole, Knows, NoticesIn
<1>7. \A p \in participants' : Receiving(p)' => ToldRole(p)'
  BY <1>5, <1>6
<1>8. \A p \in ParticipantIds : phase'[p] = "absent" => view'[p].role = "observer"
  BY <1>1, <1>2, <1>4 DEF RoleInv
<1> QED
  BY <1>7, <1>8 DEF RoleInv

\* What is shown of a role is what a notice to that participant says.
LEMMA ShownRole ==
  ASSUME NEW p \in ParticipantIds, NEW v \in ViewType, NEW m \in OutboundMessage
  PROVE  Shown(p, v, m).role = IF IsNotice(p, m) THEN m.role ELSE v.role
<1>1. CASE m.type = "data"
  <2>1. m.frame \in DataFrame
    BY <1>1 DEF OutboundMessage, Closed
  <2>2. CASE m.frame.kind \in {"resize", "snapshot"}
    BY <1>1, <2>1, <2>2 DEF DataFrame, ReplayFrame, SnapshotFrame, Shown, ViewType, IsNotice
  <2>3. CASE m.frame.kind \in {"output", "exit"}
    BY <1>1, <2>1, <2>3 DEF DataFrame, ReplayFrame, SnapshotFrame, Shown, ViewType, IsNotice
  <2> QED
    BY <2>1, <2>2, <2>3 DEF DataFrame, ReplayFrame, SnapshotFrame
<1>2. CASE m.type = "role_changed"
  BY <1>2 DEF OutboundMessage, Shown, ViewType, Closed, IsNotice
<1>3. CASE m.type \notin {"data", "role_changed"}
  BY <1>3 DEF Shown, IsNotice
<1> QED
  BY <1>1, <1>2, <1>3

\* Only x's thread steps; everyone else is told what they were.
LEMMA OthersTold ==
  ASSUME Inv, RoleInv, NEW x \in ParticipantIds, participants' = participants, record' = record,
         \A p \in ParticipantIds \ {x} :
           phase'[p] = phase[p] /\ view'[p] = view[p] /\ outbound'[p] = outbound[p],
         phase[x] # "absent", phase'[x] # "absent",
         x \in participants /\ Receiving(x)' => ToldRole(x)'
  PROVE  RoleInv'
<1>0. participants \subseteq ParticipantIds
  BY DEF Inv, Told, Telling
<1>1. ASSUME NEW p \in participants, Receiving(p)', p # x
      PROVE  ToldRole(p)'
  <2>1. p \in ParticipantIds \ {x} /\ Receiving(p)
    BY <1>0, <1>1 DEF Receiving
  <2>2. Knows(p, outbound'[p], view'[p].role, record'[p].role)
    BY <1>1, <2>1 DEF RoleInv, ToldRole
  <2> QED
    BY <2>2 DEF ToldRole, Knows, NoticesIn
<1>2. \A p \in ParticipantIds : phase'[p] = "absent" => view'[p].role = "observer"
  BY DEF RoleInv
<1> QED
  BY <1>1, <1>2 DEF RoleInv

\* The thread of a connection shows the notice it writes, or leaves.
LEMMA ThreadTold ==
  ASSUME Inv, RoleInv, NEW x \in ParticipantIds,
         ThreadStep(x) \/ WelcomeFails(x) \/ SocketEnds(x)
  PROVE  RoleInv'
<1>1. /\ outbound \in Queues /\ phase \in [ParticipantIds -> Phases]
      /\ view \in [ParticipantIds -> ViewType] /\ welcome \in [ParticipantIds -> Seq(DataFrame)]
      /\ outbound[x] \in Seq(OutboundMessage) /\ view[x] \in ViewType
      /\ participants \in SUBSET ParticipantIds
  BY DEF Inv, QueueType, Queues, ThreadType, Told, Telling
<1>2. ASSUME UNCHANGED <<participants, record, outbound>>, phase[x] # "absent",
             phase'[x] # "absent", Receiving(x),
             \A p \in ParticipantIds \ {x} : phase'[p] = phase[p] /\ view'[p] = view[p],
             view'[x].role = view[x].role
      PROVE  RoleInv'
  <2>1. x \in participants => Knows(x, outbound'[x], view'[x].role, record'[x].role)
    BY <1>2 DEF RoleInv, ToldRole
  <2>2. x \in participants => ToldRole(x)'
    BY <2>1 DEF ToldRole, Knows, NoticesIn
  <2> QED
    BY <1>2, <2>2, OthersTold
<1>3. CASE SendJoined(x)
  BY <1>1, <1>2, <1>3 DEF SendJoined, members, Receiving, ViewType
<1>4. CASE SendReplay(x)
  <2>1. phase[x] = "replaying" /\ UNCHANGED <<participants, record, outbound>>
    BY <1>4 DEF SendReplay, members
  <2>2. CASE welcome[x] = <<>>
    BY <1>1, <1>2, <1>4, <2>1, <2>2 DEF SendReplay, Receiving
  <2>3. CASE welcome[x] # <<>>
    <3> DEFINE m == Data(Head(welcome[x]))
    <3>1. view' = [view EXCEPT ![x] = Shown(x, @, m)] /\ phase' = phase
      BY <1>4, <2>3 DEF SendReplay
    <3>2. m \in OutboundMessage /\ ~IsNotice(x, m)
      <4>1. Head(welcome[x]) \in DataFrame
        BY <1>1, <2>3
      <4> QED
        BY <4>1, MessageType, NoticeOf
    <3> HIDE DEF m
    <3>3. view'[x] = Shown(x, view[x], m)
      BY <1>1, <3>1
    <3>4. view'[x].role = view[x].role
      BY <1>1, <3>2, <3>3, ShownRole
    <3> QED
      BY <1>1, <1>2, <2>1, <3>1, <3>4 DEF Receiving
  <2> QED
    BY <2>2, <2>3
<1>5. CASE WelcomeFails(x)
  <2>1. /\ phase[x] \in {"joined", "replaying"} /\ phase' = [phase EXCEPT ![x] = "dropped"]
        /\ outbound' = [outbound EXCEPT ![x] = <<>>] /\ view' = [view EXCEPT ![x] = NoView]
        /\ UNCHANGED <<participants, record>>
    BY <1>5 DEF WelcomeFails
  <2> QED
    BY <1>1, <2>1, OthersTold DEF Receiving, Queues
<1>6. CASE Forward(x)
  <2>1. /\ phase[x] = "running" /\ outbound[x] # <<>> /\ phase' = phase
        /\ view' = [view EXCEPT ![x] = Shown(x, @, Head(outbound[x]))]
        /\ outbound' = [outbound EXCEPT ![x] = Tail(@)]
        /\ UNCHANGED <<participants, record>>
    BY <1>6 DEF Forward
  <2>2. /\ \A p \in ParticipantIds \ {x} :
             phase'[p] = phase[p] /\ view'[p] = view[p] /\ outbound'[p] = outbound[p]
        /\ view'[x] = Shown(x, view[x], Head(outbound[x])) /\ outbound'[x] = Tail(outbound[x])
    BY <1>1, <2>1 DEF Queues
  <2>3. Head(outbound[x]) \in OutboundMessage
    BY <1>1, <2>1
  <2> DEFINE u == IF IsNotice(x, Head(outbound[x])) THEN Head(outbound[x]).role ELSE view[x].role
  <2>4. view'[x].role = u
    BY <1>1, <2>2, <2>3, ShownRole
  <2>5. x \in participants => Knows(x, outbound[x], view[x].role, record[x].role)
    BY <2>1 DEF RoleInv, ToldRole, Receiving
  <2>6. x \in participants => Knows(x, Tail(outbound[x]), u, record[x].role)
    BY <1>1, <2>1, <2>5, NoticeTaken
  <2> HIDE DEF u
  <2>7. x \in participants => Knows(x, outbound'[x], view'[x].role, record'[x].role)
    BY <2>1, <2>2, <2>4, <2>6
  <2>8. x \in participants => ToldRole(x)'
    BY <2>7 DEF ToldRole, Knows, NoticesIn
  <2> QED
    BY <1>1, <2>1, <2>2, <2>8, OthersTold
<1>7. CASE LeaveSession(x)
  <2> DEFINE q == [outbound EXCEPT ![x] = <<>>]
             ps == participants \ {x}
             m == ParticipantLeft(x)
  <2>1. /\ phase[x] = "running" /\ phase' = [phase EXCEPT ![x] = "dropped"]
        /\ view' = [view EXCEPT ![x] = NoView]
        /\ \/ \E c : Broadcast(ps, record, c, q, m)
           \/ outbound' = q /\ UNCHANGED <<participants, record>>
    BY <1>7 DEF LeaveSession
  <2>2. /\ \A p \in ParticipantIds \ {x} : /\ phase'[p] = phase[p] /\ view'[p] = view[p]
                                           /\ q[p] = outbound[p]
        /\ phase'[x] = "dropped" /\ q \in Queues
    BY <1>1, <2>1 DEF Queues
  <2>3. m \in OutboundMessage /\ \A p \in ParticipantIds : ~IsNotice(p, m)
    BY MessageType, NoticeOf
  <2>4. CASE outbound' = q /\ UNCHANGED <<participants, record>>
    <3>1. ~Receiving(x)'
      BY <2>2 DEF Receiving
    <3> QED
      BY <2>1, <2>2, <2>4, <3>1, OthersTold
  <2>5. ASSUME NEW c, Broadcast(ps, record, c, q, m) PROVE RoleInv'
    <3> HIDE DEF q, m
    <3>1. ASSUME NEW p \in participants', Receiving(p)' PROVE ToldRole(p)'
      <4>1. /\ p \in ps \ Lagged(ps, q) /\ p \in participants /\ p \in ParticipantIds \ {x}
        BY <1>1, <2>5 DEF Broadcast
      <4>2. Receiving(p) /\ view'[p] = view[p] /\ q[p] = outbound[p]
        BY <2>2, <3>1, <4>1 DEF Receiving
      <4>3. record'[p] = record[p] /\ outbound'[p] = Append(outbound[p], m)
        BY <2>5, <4>1, <4>2 DEF Broadcast, TrySend, Lagged
      <4>4. outbound[p] \in Seq(OutboundMessage) /\ ~IsNotice(p, m)
        BY <1>1, <2>3, <4>1 DEF Queues
      <4>5. Knows(p, outbound[p], view[p].role, record[p].role)
        BY <4>1, <4>2 DEF RoleInv, ToldRole
      <4>6. Knows(p, Append(outbound[p], m), view[p].role, record[p].role)
        BY <2>3, <4>4, <4>5, NoticeQueued
      <4>7. Knows(p, outbound'[p], view'[p].role, record'[p].role)
        BY <4>2, <4>3, <4>6
      <4> QED
        BY <4>7 DEF ToldRole, Knows, NoticesIn
    <3>2. \A p \in ParticipantIds : phase'[p] = "absent" => view'[p].role = "observer"
      BY <2>2 DEF RoleInv
    <3> QED
      BY <3>1, <3>2 DEF RoleInv
  <2> QED
    BY <2>1, <2>4, <2>5
<1> QED
  BY <1>3, <1>4, <1>5, <1>6, <1>7 DEF ThreadStep, Finish, SocketEnds

\* Every step of the session keeps it.
LEMMA RoleStep ==
  ASSUME Inv, Untouched, RoleInv, [Next]_vars
  PROVE  RoleInv'
<1>0. /\ participants \in SUBSET ParticipantIds /\ record \in [ParticipantIds -> Record]
      /\ nextSequence \in Nat /\ grid \in Grids
  BY DEF Inv, Told, Telling, StreamType, SessionType
<1>1. ASSUME NEW x \in ParticipantIds, GuestAction(x) \/ HostAction(x) \/ ThreadStep(x)
      PROVE  RoleInv'
  <2>1. ASSUME NEW name \in Names, NEW nonce \in Nonces, NEW after \in {Fresh} \cup 0..MaxSequence,
               Join(x, name, nonce, after)
        PROVE  RoleInv'
    BY <2>1, JoinTold
  <2>2. CASE RequestControl(x)
    <3> DEFINE r == [record EXCEPT ![x] = Requesting(@)]
    <3>1. /\ Broadcast(participants, r, controllerId, outbound, ControlRequested(x))
          /\ UNCHANGED <<phase, view>>
      BY <2>2 DEF RequestControl, threads
    <3>2. \A p \in ParticipantIds : r[p].role = record[p].role
      BY <1>0, RecordUpdates
    <3>3. /\ ControlRequested(x) \in OutboundMessage
          /\ \A p \in ParticipantIds : ~IsNotice(p, ControlRequested(x))
      BY MessageType, NoticeOf
    <3> HIDE DEF r
    <3> QED
      BY <1>0, <3>1, <3>2, <3>3, NewsKeepsRoles
  <2>3. CASE SetObserver(x) \/ ReleaseControl(x)
    BY <2>3, DemotionTold
  <2>4. CASE RemoveParticipant(x) \/ BanParticipant(x)
    BY <2>4, ExpelTold DEF RemoveParticipant, BanParticipant
  <2>5. CASE SetController(x)
    BY <2>5, GrantTold
  <2>6. CASE TypingFades(x) \/ \E hasInput \in BOOLEAN : AuthorizeInput(x, hasInput)
    <3>1. UNCHANGED <<participants, outbound, phase, view>>
      BY <2>6 DEF TypingFades, AuthorizeInput, threads
    <3>2. \A p \in ParticipantIds : record'[p].role = record[p].role
      <4>1. CASE TypingFades(x)
        BY <1>0, <4>1, RecordUpdates DEF TypingFades
      <4>2. CASE \E hasInput \in BOOLEAN : AuthorizeInput(x, hasInput)
        BY <1>0, <4>2, RecordUpdates DEF AuthorizeInput
      <4> QED
        BY <2>6, <4>1, <4>2
    <3> QED
      BY <1>0, <3>1, <3>2, SilenceKeepsRoles
  <2>7. CASE ThreadStep(x) \/ WelcomeFails(x) \/ SocketEnds(x)
    BY <2>7, ThreadTold
  <2> QED
    BY <1>1, <2>1, <2>2, <2>3, <2>4, <2>5, <2>6, <2>7 DEF GuestAction, HostAction
<1>2. ASSUME NEW f \in DataFrame, NEW g, Publish(f, g) PROVE RoleInv'
  <2>1. /\ Broadcast(participants, record, controllerId, outbound, Data(f))
        /\ UNCHANGED <<phase, view>>
    BY <1>2 DEF Publish, threads
  <2>2. Data(f) \in OutboundMessage /\ \A p : ~IsNotice(p, Data(f))
    BY MessageType, NoticeOf
  <2> QED
    BY <1>0, <2>1, <2>2, NewsKeepsRoles
<1>3. CASE TerminalAction
  <2>1. ASSUME NEW k \in PayloadSizes, PublishOutput(k) PROVE RoleInv'
    BY <1>0, <1>2, <2>1, FrameType DEF PublishOutput
  <2>2. ASSUME NEW g \in Grids, PublishResize(g) PROVE RoleInv'
    BY <1>0, <1>2, <2>2, FrameType DEF PublishResize
  <2>3. CASE PublishTerminalExit
    BY <1>0, <1>2, <2>3, FrameType DEF PublishTerminalExit
  <2>4. CASE (\E n \in 0..MaxSequence, g \in Grids : SetSnapshot(n, g)) \/ Expire
    <3>1. UNCHANGED <<participants, record, outbound, phase, view>>
      BY <2>4 DEF SetSnapshot, Expire, members, threads
    <3> QED
      BY <3>1, SilenceKeepsRoles
  <2>5. CASE Close
    <3>1. participants' = {} /\ UNCHANGED <<phase, view>>
      BY <2>5 DEF Close, threads
    <3> QED
      BY <3>1 DEF RoleInv
  <2> QED
    BY <1>3, <2>1, <2>2, <2>3, <2>4, <2>5 DEF TerminalAction
<1>4. CASE UNCHANGED vars
  <2>1. UNCHANGED <<participants, record, outbound, phase, view>>
    BY <1>4 DEF vars, members, threads
  <2> QED
    BY <2>1, SilenceKeepsRoles
<1> QED
  BY <1>1, <1>3, <1>4 DEF Next

\* A participant whose thread is at work is told the role it has: once it has
\* written what is queued for it, its guest shows the role the session records, over
\* any order of grants, demotions and releases, of itself and of others.
THEOREM RolesReach == Spec => []RoleNoticesConverge
<1>1. Init => RoleInv /\ FarewellInv
  BY DEF Init, RoleInv, NoView, FarewellInv, LastWord, Untouched
<1>2. RoleInv => RoleNoticesConverge
  BY DEF RoleInv, ToldRole, Knows, NoticesIn, RoleNoticesConverge, Notices
<1>3. Inv /\ FarewellInv /\ RoleInv /\ [Next]_vars => RoleInv' /\ FarewellInv'
  BY RoleStep, FarewellStep DEF FarewellInv
<1> QED
  BY <1>1, <1>2, <1>3, Invariance, PTL DEF Spec
=============================================================================
