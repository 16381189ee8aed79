--------------------------- MODULE PtyOutputProofs ---------------------------
(***************************************************************************)
(* Proofs about PtyOutput: every variable has its type; host and guests    *)
(* are fed the same output, that is, PtyOutput implements TerminalFeed;    *)
(* output that is dropped leaves a notice in its place; where the waiter   *)
(* joins the reader none stays in a buffer; and a snapshot shows all that  *)
(* its sequence number claims.                                             *)
(***************************************************************************)
EXTENDS PtyOutput, SequenceTheorems, TLAPS

Chunks == BoundedSeq(Units, MaxPending)
Messages == [kind : {"data"}, units : Seq(Units)]
              \cup [kind : {"marker"}, token : 1..MaxCaptures]

\* Who holds the gate is in its critical section, and conversely.
GateHeld ==
  /\ gate = "flusher" <=> flusher = "publishing"
  /\ gate = "waiter" <=> waiter = "publishing"
  /\ gate = "barrier" <=> capture.pc = "gated"

\* Nobody flushes an empty chunk.
Carrying ==
  /\ flusher \in {"holding", "publishing"} => chunk # <<>>
  /\ waiter \in {"holding", "publishing"} => tail # <<>>

\* A terminal that is not shared has no stream; shares are counted.
Sharing ==
  /\ ~shared => stream = <<>> /\ origin = 0
  /\ starting => ~shared /\ shares < MaxShares
  /\ shared => shares # 0

\* A capture that goes through the gate belongs to a share and has a token.
Capturing ==
  /\ capture.pc # "idle" => capture.token # 0
  /\ capture.pc \notin {"idle", "requested"} => capture.share # 0

\* TypeOK, by kinds of values.
FlagTypes ==
  /\ child \in {"running", "exited"} /\ reader \in {"reading", "ended"}
  /\ flusher \in {"idle", "coalescing", "holding", "publishing", "stopped"}
  /\ waiter \in {"waiting", "joining", "holding", "publishing", "closing",
                 "exiting", "unsharing", "taking", "ended"}
  /\ pane \in {"shown", "closing", "closed"}
  /\ gate \in {"free", "flusher", "waiter", "barrier"}
  /\ onExit \in {"none", "sent", "delivered"}

BooleanTypes ==
  /\ open \in BOOLEAN /\ starting \in BOOLEAN /\ done \in BOOLEAN
  /\ released \in BOOLEAN /\ shared \in BOOLEAN

CountTypes ==
  read \in 0..MaxUnits /\ origin \in Nat /\ shares \in 0..MaxShares

BufferTypes ==
  pending \in Chunks /\ chunk \in Chunks /\ tail \in Chunks

OutputTypes ==
  /\ dropped \subseteq Units /\ onData \in Seq(Messages)
  /\ xterm \in Seq(Units) /\ sent \in Seq(Units) /\ stream \in Seq(Units)

SnapshotType ==
  snapshot = Nothing \/ snapshot \in Nat \X Seq(Units) \X (1..MaxShares)

CaptureRecord ==
  [pc : {"idle", "requested", "gated", "replying", "waiting", "storing"},
   token : 0..MaxCaptures, sequence : Nat, reached : BOOLEAN,
   content : Seq(Units), share : 0..MaxShares]

CaptureType == capture \in CaptureRecord

Types ==
  /\ FlagTypes /\ BooleanTypes /\ CountTypes /\ BufferTypes /\ OutputTypes
  /\ SnapshotType /\ CaptureType

\* The inductive invariant.
IInv == Types /\ GateHeld /\ Carrying /\ Sharing /\ Capturing

-----------------------------------------------------------------------------
(* Sequences *)

\* A bounded sequence is a sequence of bounded length.
LEMMA BoundedSeqIs ==
  ASSUME NEW S, NEW n \in Nat
  PROVE  \A s : s \in BoundedSeq(S, n) <=> s \in Seq(S) /\ Len(s) <= n
<1>1. ASSUME NEW s, s \in BoundedSeq(S, n)
      PROVE  s \in Seq(S) /\ Len(s) <= n
  BY <1>1 DEF BoundedSeq, SeqOf
<1>2. ASSUME NEW s \in Seq(S), Len(s) <= n
      PROVE  s \in BoundedSeq(S, n)
  BY <1>2 DEF BoundedSeq, SeqOf
<1>3. QED
  BY <1>1, <1>2

\* Chunks are bounded sequences of units.
LEMMA ChunksAre ==
  \A s : s \in Chunks <=> s \in Seq(Units) /\ Len(s) <= MaxPending
BY BoundedSeqIs, BoundsAssumption DEF Chunks

\* The groups together are the type invariant.
LEMMA TypesAreTypeOK == Types <=> TypeOK
BY DEF Types, FlagTypes, BooleanTypes, CountTypes, BufferTypes, OutputTypes,
       SnapshotType, CaptureType, CaptureRecord, TypeOK, Chunks, Messages

\* The empty sequence is a chunk.
LEMMA EmptyIsChunk == <<>> \in Chunks
<1>1. <<>> \in Seq(Units) /\ Len(<<>>) = 0 /\ 0 <= MaxPending
  BY BoundsAssumption
<1>2. QED
  BY <1>1, ChunksAre

\* The buffer stays within its bound, whatever is read.
LEMMA BufferedIsChunk ==
  ASSUME NEW p \in Chunks, NEW u \in Units
  PROVE  Buffered(p, u) \in Chunks
<1>1. p \in Seq(Units) /\ Notice \in Units /\ MaxPending >= 2
  BY ChunksAre, BoundsAssumption DEF Notice, Units
<1>2. CASE Len(p) + 1 > MaxPending
  <2>1. <<Notice, u>> \in Seq(Units) /\ Len(<<Notice, u>>) = 2
    BY <1>1
  <2>2. <<Notice, u>> \in Chunks
    BY <1>1, <2>1, ChunksAre, BoundsAssumption
  <2>3. QED
    BY <1>2, <2>2 DEF Buffered
<1>3. CASE ~(Len(p) + 1 > MaxPending)
  <2>1. Append(p, u) \in Seq(Units) /\ Len(Append(p, u)) = Len(p) + 1
    BY <1>1
  <2>2. Len(p) + 1 <= MaxPending
    BY <1>1, <1>3, BoundsAssumption
  <2>3. Append(p, u) \in Chunks
    BY <2>1, <2>2, ChunksAre
  <2>4. QED
    BY <1>3, <2>3 DEF Buffered
<1>4. QED
  BY <1>2, <1>3

\* Between captures only the token says anything.
LEMMA IdleIsCapture ==
  ASSUME NEW t \in 0..MaxCaptures
  PROVE  Idle(t) \in CaptureRecord /\ Idle(t).pc = "idle" /\ Idle(t).token = t
<1>1. <<>> \in Seq(Units) /\ 0 \in 0..MaxShares /\ FALSE \in BOOLEAN
  BY BoundsAssumption
<1>2. QED
  BY <1>1 DEF Idle, CaptureRecord

-----------------------------------------------------------------------------
(* Each action preserves the invariant: first what it leaves alone. *)

\* The steps that touch neither the buffers, nor the gate, nor the share.
Living ==
  \/ ChildExits \/ ReaderEnds \/ FlusherWakes \/ FlusherStops
  \/ WaiterWakes \/ WaiterCloses \/ WaiterSendsExit \/ WaiterTakesSession
  \/ DeliverExit \/ CloseReturns

\* They only move a thread outside the gate, or change a flag.
LEMMA LifeInv == IInv /\ Living => IInv'
<1> SUFFICES ASSUME IInv, Living PROVE IInv'
  OBVIOUS
<1> USE DEF IInv, Types, Living, ChildExits, ReaderEnds, FlusherWakes,
            FlusherStops, WaiterWakes, WaiterCloses, WaiterSendsExit,
            WaiterTakesSession, DeliverExit, CloseReturns
<1>1. /\ CountTypes' /\ BufferTypes' /\ OutputTypes' /\ SnapshotType'
      /\ CaptureType' /\ Sharing' /\ Capturing'
  BY DEF CountTypes, BufferTypes, OutputTypes, SnapshotType, CaptureType,
         Sharing, Capturing, reading, flushing, waiting, output, view, share
<1>2. FlagTypes'
  BY DEF FlagTypes, reading, flushing, waiting, output, view
<1>3. BooleanTypes'
  BY DEF BooleanTypes, waiting, view, share
<1>4. GateHeld'
  BY DEF GateHeld, flushing, waiting, output
<1>5. Carrying'
  BY DEF Carrying, flushing, waiting
<1>6. QED
  BY <1>1, <1>2, <1>3, <1>4, <1>5

\* A read keeps the buffer within its bound.
LEMMA ReadInv == IInv /\ Read => IInv'
<1> SUFFICES ASSUME IInv, Read PROVE IInv'
  OBVIOUS
<1> USE DEF IInv, Types
<1>1. /\ BooleanTypes' /\ FlagTypes' /\ SnapshotType' /\ CaptureType'
      /\ GateHeld' /\ Carrying' /\ Sharing' /\ Capturing'
  BY DEF Read, BooleanTypes, FlagTypes, SnapshotType, CaptureType,
         GateHeld, Carrying, Sharing, Capturing, flushing, waiting, output,
         view, share
<1>2. CountTypes'
  BY BoundsAssumption DEF Read, Buffered, CountTypes, share, Sharing
<1>3. BufferTypes'
  BY BufferedIsChunk, BoundsAssumption DEF Read, BufferTypes, flushing,
         waiting, Units, CountTypes
<1>4. OutputTypes'
  BY ChunksAre DEF Read, Buffered, OutputTypes, output, view, share,
         BufferTypes, Messages, Range
<1>5. QED
  BY <1>1, <1>2, <1>3, <1>4

\* The flusher goes on to the gate only with a chunk.
LEMMA FlusherTakesInv == IInv /\ FlusherTakes => IInv'
<1> SUFFICES ASSUME IInv, FlusherTakes PROVE IInv'
  OBVIOUS
<1> USE DEF IInv, Types
<1>1. /\ BooleanTypes' /\ CountTypes' /\ OutputTypes' /\ SnapshotType'
      /\ CaptureType' /\ Sharing' /\ Capturing'
  BY DEF FlusherTakes, BooleanTypes, CountTypes, OutputTypes, SnapshotType,
         CaptureType, Sharing, Capturing, reading, waiting, output, view, share
<1>2. FlagTypes'
  BY DEF FlusherTakes, FlagTypes, reading, waiting, output, view
<1>3. BufferTypes'
  BY EmptyIsChunk DEF FlusherTakes, BufferTypes, waiting
<1>4. GateHeld'
  BY DEF FlusherTakes, GateHeld, waiting, output, FlagTypes, CaptureType,
         CaptureRecord
<1>5. Carrying'
  BY DEF FlusherTakes, Carrying, waiting, FlagTypes
<1>6. QED
  BY <1>1, <1>2, <1>3, <1>4, <1>5

\* The flusher enters a free gate.
LEMMA FlusherPublishesInv == IInv /\ FlusherPublishes => IInv'
<1> SUFFICES ASSUME IInv, FlusherPublishes PROVE IInv'
  OBVIOUS
<1> USE DEF IInv, Types
<1>1. /\ BooleanTypes' /\ CountTypes' /\ BufferTypes' /\ SnapshotType'
      /\ CaptureType' /\ Capturing'
  BY DEF FlusherPublishes, Publish, BooleanTypes, CountTypes, BufferTypes,
         SnapshotType, CaptureType, Capturing, reading, waiting, view
<1>2. FlagTypes'
  BY DEF FlusherPublishes, GateFree, Publish, FlagTypes, reading, waiting,
         view
<1>3. OutputTypes'
  BY ChunksAre DEF FlusherPublishes, GateFree, Publish, OutputTypes,
         reading, view, BufferTypes, Messages
<1>4. GateHeld'
  BY DEF FlusherPublishes, GateFree, Publish, GateHeld, waiting, FlagTypes,
         CaptureType, CaptureRecord
<1>5. Carrying'
  BY DEF FlusherPublishes, GateFree, Publish, Carrying, waiting, FlagTypes
<1>6. Sharing'
  BY DEF FlusherPublishes, GateFree, Publish, Sharing, CountTypes
<1>7. QED
  BY <1>1, <1>2, <1>3, <1>4, <1>5, <1>6

\* The flusher leaves the gate it holds.
LEMMA FlusherSendsInv == IInv /\ FlusherSends => IInv'
<1> SUFFICES ASSUME IInv, FlusherSends PROVE IInv'
  OBVIOUS
<1> USE DEF IInv, Types
<1>1. /\ BooleanTypes' /\ CountTypes' /\ SnapshotType' /\ CaptureType'
      /\ Sharing' /\ Capturing'
  BY DEF FlusherSends, BooleanTypes, CountTypes, SnapshotType, CaptureType,
         Sharing, Capturing, reading, waiting, view, share
<1>2. FlagTypes'
  BY DEF FlusherSends, Send, DataMessage, FlagTypes, reading, waiting, view
<1>3. BufferTypes'
  BY EmptyIsChunk DEF FlusherSends, Send, DataMessage, BufferTypes, waiting
<1>4. OutputTypes'
  BY ChunksAre DEF FlusherSends, Send, DataMessage, OutputTypes, reading,
         view, share, BufferTypes, Messages
<1>5. GateHeld'
  BY DEF FlusherSends, Send, DataMessage, GateHeld, waiting, FlagTypes,
         CaptureType, CaptureRecord
<1>6. Carrying'
  BY DEF FlusherSends, Send, DataMessage, Carrying, waiting, FlagTypes
<1>7. QED
  BY <1>1, <1>2, <1>3, <1>4, <1>5, <1>6

\* The waiter goes to the gate only with a chunk.
LEMMA WaiterTakesInv == IInv /\ WaiterTakes => IInv'
<1> SUFFICES ASSUME IInv, WaiterTakes PROVE IInv'
  OBVIOUS
<1> USE DEF IInv, Types
<1>1. /\ BooleanTypes' /\ CountTypes' /\ OutputTypes' /\ SnapshotType'
      /\ CaptureType' /\ Sharing' /\ Capturing'
  BY DEF WaiterTakes, BooleanTypes, CountTypes, OutputTypes, SnapshotType,
         CaptureType, Sharing, Capturing, reading, flushing, output, view,
         share
<1>2. FlagTypes'
  BY DEF WaiterTakes, FlagTypes, reading, flushing, output, view
<1>3. BufferTypes'
  BY EmptyIsChunk DEF WaiterTakes, BufferTypes, flushing
<1>4. GateHeld'
  BY DEF WaiterTakes, GateHeld, flushing, output, FlagTypes, CaptureType,
         CaptureRecord
<1>5. Carrying'
  BY DEF WaiterTakes, Carrying, flushing, FlagTypes
<1>6. QED
  BY <1>1, <1>2, <1>3, <1>4, <1>5

\* The waiter enters a free gate.
LEMMA WaiterPublishesInv == IInv /\ WaiterPublishes => IInv'
<1> SUFFICES ASSUME IInv, WaiterPublishes PROVE IInv'
  OBVIOUS
<1> USE DEF IInv, Types
<1>1. /\ BooleanTypes' /\ CountTypes' /\ BufferTypes' /\ SnapshotType'
      /\ CaptureType' /\ Capturing'
  BY DEF WaiterPublishes, Publish, BooleanTypes, CountTypes, BufferTypes,
         SnapshotType, CaptureType, Capturing, reading, flushing, view
<1>2. FlagTypes'
  BY DEF WaiterPublishes, GateFree, Publish, FlagTypes, reading, flushing,
         view
<1>3. OutputTypes'
  BY ChunksAre DEF WaiterPublishes, GateFree, Publish, OutputTypes,
         reading, view, BufferTypes, Messages
<1>4. GateHeld'
  BY DEF WaiterPublishes, GateFree, Publish, GateHeld, flushing, FlagTypes,
         CaptureType, CaptureRecord
<1>5. Carrying'
  BY DEF WaiterPublishes, GateFree, Publish, Carrying, flushing, FlagTypes
<1>6. Sharing'
  BY DEF WaiterPublishes, GateFree, Publish, Sharing, CountTypes
<1>7. QED
  BY <1>1, <1>2, <1>3, <1>4, <1>5, <1>6

\* The waiter leaves the gate it holds.
LEMMA WaiterSendsInv == IInv /\ WaiterSends => IInv'
<1> SUFFICES ASSUME IInv, WaiterSends PROVE IInv'
  OBVIOUS
<1> USE DEF IInv, Types
<1>1. /\ BooleanTypes' /\ CountTypes' /\ SnapshotType' /\ CaptureType'
      /\ Sharing' /\ Capturing'
  BY DEF WaiterSends, BooleanTypes, CountTypes, SnapshotType, CaptureType,
         Sharing, Capturing, reading, flushing, view, share
<1>2. FlagTypes'
  BY DEF WaiterSends, Send, DataMessage, FlagTypes, reading, flushing, view
<1>3. BufferTypes'
  BY EmptyIsChunk DEF WaiterSends, Send, DataMessage, BufferTypes, flushing
<1>4. OutputTypes'
  BY ChunksAre DEF WaiterSends, Send, DataMessage, OutputTypes, reading,
         view, share, BufferTypes, Messages
<1>5. GateHeld'
  BY DEF WaiterSends, Send, DataMessage, GateHeld, flushing, FlagTypes,
         CaptureType, CaptureRecord
<1>6. Carrying'
  BY DEF WaiterSends, Send, DataMessage, Carrying, flushing, FlagTypes
<1>7. QED
  BY <1>1, <1>2, <1>3, <1>4, <1>5, <1>6

\* The end of the share empties its stream.
LEMMA WaiterUnsharesInv == IInv /\ WaiterUnshares => IInv'
<1> SUFFICES ASSUME IInv, WaiterUnshares PROVE IInv'
  OBVIOUS
<1> USE DEF IInv, Types
<1>1. /\ BufferTypes' /\ CaptureType' /\ Capturing'
  BY DEF WaiterUnshares, Unshare, BufferTypes, CaptureType, Capturing,
         reading, flushing, output, view
<1>2. BooleanTypes'
  BY DEF WaiterUnshares, Unshare, BooleanTypes, view
<1>3. FlagTypes'
  BY DEF WaiterUnshares, Unshare, FlagTypes, reading, flushing, output,
         view
<1>4. CountTypes'
  BY BoundsAssumption DEF WaiterUnshares, Unshare, CountTypes, reading,
         Sharing
<1>5. OutputTypes'
  BY ChunksAre DEF WaiterUnshares, Unshare, OutputTypes, reading, output,
         view, BufferTypes, Messages
<1>6. SnapshotType'
  BY DEF WaiterUnshares, Unshare, SnapshotType, CaptureType, CaptureRecord,
         CountTypes, Capturing
<1>7. GateHeld'
  BY DEF WaiterUnshares, Unshare, GateHeld, flushing, output, FlagTypes,
         CaptureType, CaptureRecord
<1>8. Carrying'
  BY DEF WaiterUnshares, Unshare, Carrying, flushing, FlagTypes
<1>9. Sharing'
  BY DEF WaiterUnshares, Unshare, Sharing, CountTypes
<1>10. QED
  BY <1>1, <1>2, <1>3, <1>4, <1>5, <1>6, <1>7, <1>8, <1>9

\* A share is begun only without another.
LEMMA BeginShareInv == IInv /\ BeginShare => IInv'
<1> SUFFICES ASSUME IInv, BeginShare PROVE IInv'
  OBVIOUS
<1> USE DEF IInv, Types
<1>1. /\ FlagTypes' /\ CountTypes' /\ BufferTypes' /\ OutputTypes'
      /\ SnapshotType' /\ CaptureType' /\ GateHeld' /\ Carrying' /\ Capturing'
  BY DEF BeginShare, FlagTypes, CountTypes, BufferTypes, OutputTypes,
         SnapshotType, CaptureType, GateHeld, Carrying, Capturing, reading,
         flushing, waiting, output, view
<1>2. BooleanTypes'
  BY DEF BeginShare, BooleanTypes, waiting, view
<1>3. Sharing'
  BY DEF BeginShare, Sharing, CountTypes
<1>4. QED
  BY <1>1, <1>2, <1>3

\* A new share has an empty stream and a count of its own.
LEMMA InsertShareInv == IInv /\ InsertShare => IInv'
<1> SUFFICES ASSUME IInv, InsertShare PROVE IInv'
  OBVIOUS
<1> USE DEF IInv, Types
<1>1. /\ FlagTypes' /\ BufferTypes' /\ OutputTypes' /\ SnapshotType'
      /\ CaptureType' /\ GateHeld' /\ Carrying' /\ Capturing'
  BY DEF InsertShare, FlagTypes, BufferTypes, OutputTypes, SnapshotType,
         CaptureType, GateHeld, Carrying, Capturing, reading, flushing,
         waiting, output, view
<1>2. BooleanTypes'
  BY DEF InsertShare, InGate, BooleanTypes, waiting, view
<1>3. CountTypes'
  BY ChunksAre, BoundsAssumption DEF InsertShare, InGate, CountTypes,
         reading, Sharing, BufferTypes, OutputTypes
<1>4. Sharing'
  BY DEF InsertShare, InGate, Sharing, CountTypes
<1>5. QED
  BY <1>1, <1>2, <1>3, <1>4

\* A stopped share leaves no stream.
LEMMA StopShareInv == IInv /\ StopShare => IInv'
<1> SUFFICES ASSUME IInv, StopShare PROVE IInv'
  OBVIOUS
<1> USE DEF IInv, Types
<1>1. /\ FlagTypes' /\ BufferTypes' /\ CaptureType' /\ GateHeld' /\ Carrying'
      /\ Capturing'
  BY DEF StopShare, Unshare, FlagTypes, BufferTypes, CaptureType, GateHeld,
         Carrying, Capturing, reading, flushing, waiting, output, view
<1>2. BooleanTypes'
  BY DEF StopShare, Unshare, BooleanTypes, waiting, view
<1>3. CountTypes'
  BY BoundsAssumption DEF StopShare, Unshare, CountTypes, reading, Sharing
<1>4. OutputTypes'
  BY ChunksAre DEF StopShare, Unshare, OutputTypes, reading, output, view,
         BufferTypes, Messages
<1>5. SnapshotType'
  BY DEF StopShare, Unshare, SnapshotType, CaptureType, CaptureRecord,
         CountTypes, Capturing
<1>6. Sharing'
  BY DEF StopShare, Unshare, Sharing, CountTypes
<1>7. QED
  BY <1>1, <1>2, <1>3, <1>4, <1>5, <1>6

\* A capture begins with a token of its own.
LEMMA BeginCaptureInv == IInv /\ BeginCapture => IInv'
<1> SUFFICES ASSUME IInv, BeginCapture PROVE IInv'
  OBVIOUS
<1> USE DEF IInv, Types
<1>1. /\ BooleanTypes' /\ FlagTypes' /\ CountTypes' /\ BufferTypes'
      /\ OutputTypes' /\ SnapshotType' /\ Carrying' /\ Sharing'
  BY DEF BeginCapture, BooleanTypes, FlagTypes, CountTypes, BufferTypes,
         OutputTypes, SnapshotType, Carrying, Sharing, reading, flushing,
         waiting, output, view, share
<1>2. CaptureType'
  <2>1. capture.token + 1 \in 0..MaxCaptures
    BY BoundsAssumption DEF BeginCapture, CaptureType, CaptureRecord
  <2>2. Idle(capture.token + 1) \in CaptureRecord
    BY <2>1, IdleIsCapture
  <2>3. QED
    BY <2>2 DEF BeginCapture, CaptureType, CaptureRecord
<1>3. GateHeld'
  BY DEF BeginCapture, Ended, Idle, GateHeld, flushing, waiting, output,
         FlagTypes, CaptureType, CaptureRecord
<1>4. Capturing'
  BY DEF BeginCapture, Ended, Idle, Capturing, CaptureType, CaptureRecord,
         Sharing, CountTypes
<1>5. QED
  BY <1>1, <1>2, <1>3, <1>4

\* The barrier enters a free gate, for the share there is.
LEMMA BarrierReadsInv == IInv /\ BarrierReads => IInv'
<1> SUFFICES ASSUME IInv, BarrierReads PROVE IInv'
  OBVIOUS
<1> USE DEF IInv, Types
<1>1. /\ BooleanTypes' /\ CountTypes' /\ BufferTypes' /\ OutputTypes'
      /\ SnapshotType' /\ Carrying' /\ Sharing'
  BY DEF BarrierReads, BooleanTypes, CountTypes, BufferTypes, OutputTypes,
         SnapshotType, Carrying, Sharing, reading, flushing, waiting, view,
         share
<1>2. FlagTypes'
  BY DEF BarrierReads, GateFree, Ended, Idle, FlagTypes, reading, flushing,
         waiting, view
<1>3. CaptureType'
  <2>1. CASE shared /\ open
    <3>1. Len(stream) \in Nat /\ shares \in 0..MaxShares
      BY DEF OutputTypes, CountTypes
    <3>2. capture' = [capture EXCEPT !.pc = "gated", !.share = shares,
                                     !.sequence = Len(stream)]
      BY <2>1 DEF BarrierReads
    <3>3. QED
      BY <3>1, <3>2 DEF CaptureType, CaptureRecord
  <2>2. CASE ~(shared /\ open)
    BY <2>2, IdleIsCapture DEF BarrierReads, Ended, CaptureType, CaptureRecord
  <2>3. QED
    BY <2>1, <2>2
<1>4. GateHeld'
  <2>1. CASE shared /\ open
    BY <2>1 DEF BarrierReads, GateFree, GateHeld, flushing, waiting,
            CaptureType, CaptureRecord
  <2>2. CASE ~(shared /\ open)
    BY <2>2, IdleIsCapture DEF BarrierReads, GateFree, Ended, GateHeld,
            flushing, waiting, CaptureType, CaptureRecord
  <2>3. QED
    BY <2>1, <2>2
<1>5. Capturing'
  <2>1. CASE shared /\ open
    BY <2>1 DEF BarrierReads, Capturing, CaptureType, CaptureRecord, Sharing
  <2>2. CASE ~(shared /\ open)
    BY <2>2, IdleIsCapture DEF BarrierReads, Ended, Capturing, CaptureType,
            CaptureRecord
  <2>3. QED
    BY <2>1, <2>2
<1>6. QED
  BY <1>1, <1>2, <1>3, <1>4, <1>5

\* The barrier leaves the gate with a marker in the channel.
LEMMA BarrierMarksInv == IInv /\ BarrierMarks => IInv'
<1> SUFFICES ASSUME IInv, BarrierMarks PROVE IInv'
  OBVIOUS
<1> USE DEF IInv, Types
<1>1. /\ BooleanTypes' /\ CountTypes' /\ BufferTypes' /\ SnapshotType'
      /\ Carrying' /\ Sharing'
  BY DEF BarrierMarks, BooleanTypes, CountTypes, BufferTypes, SnapshotType,
         Carrying, Sharing, reading, flushing, waiting, view, share
<1>2. FlagTypes'
  BY DEF BarrierMarks, Marker, FlagTypes, reading, flushing, waiting, view
<1>3. OutputTypes'
  BY ChunksAre DEF BarrierMarks, Marker, OutputTypes, reading, view, share,
         BufferTypes, Messages, Capturing, CaptureType, CaptureRecord
<1>4. CaptureType'
  BY DEF BarrierMarks, Marker, CaptureType, CaptureRecord, CountTypes
<1>5. GateHeld'
  BY DEF BarrierMarks, Marker, GateHeld, flushing, waiting, FlagTypes,
         CaptureType, CaptureRecord
<1>6. Capturing'
  BY DEF BarrierMarks, Marker, Capturing, CaptureType, CaptureRecord,
         Sharing, CountTypes
<1>7. QED
  BY <1>1, <1>2, <1>3, <1>4, <1>5, <1>6

\* The barrier's reply keeps the invariant.
LEMMA ReplyArrivesInv == IInv /\ ReplyArrives => IInv'
<1> SUFFICES ASSUME IInv, ReplyArrives PROVE IInv'
  OBVIOUS
<1> USE DEF IInv, Types
<1>1. /\ BooleanTypes' /\ FlagTypes' /\ CountTypes' /\ BufferTypes'
      /\ OutputTypes' /\ SnapshotType' /\ Carrying' /\ Sharing'
  BY DEF ReplyArrives, BooleanTypes, FlagTypes, CountTypes, BufferTypes,
         OutputTypes, SnapshotType, Carrying, Sharing, reading, flushing,
         waiting, output, view, share
<1>2. CaptureType'
  BY DEF ReplyArrives, CaptureType, CaptureRecord, CountTypes
<1>3. GateHeld'
  BY DEF ReplyArrives, GateHeld, flushing, waiting, output, FlagTypes,
         CaptureType, CaptureRecord
<1>4. Capturing'
  BY DEF ReplyArrives, Capturing, CaptureType, CaptureRecord, Sharing,
         CountTypes
<1>5. QED
  BY <1>1, <1>2, <1>3, <1>4

\* A failed capture is idle again.
LEMMA CaptureFailsInv == IInv /\ CaptureFails => IInv'
<1> SUFFICES ASSUME IInv, CaptureFails PROVE IInv'
  OBVIOUS
<1> USE DEF IInv, Types
<1>1. /\ BooleanTypes' /\ FlagTypes' /\ CountTypes' /\ BufferTypes'
      /\ OutputTypes' /\ SnapshotType' /\ Carrying' /\ Sharing'
  BY DEF CaptureFails, BooleanTypes, FlagTypes, CountTypes, BufferTypes,
         OutputTypes, SnapshotType, Carrying, Sharing, reading, flushing,
         waiting, output, view, share
<1>2. CaptureType'
  BY IdleIsCapture DEF CaptureFails, Ended, CaptureType, CaptureRecord,
         CountTypes
<1>3. GateHeld'
  BY DEF CaptureFails, Ended, Idle, GateHeld, flushing, waiting, output,
         FlagTypes, CaptureType, CaptureRecord
<1>4. Capturing'
  BY DEF CaptureFails, Ended, Idle, Capturing, CaptureType, CaptureRecord,
         Sharing, CountTypes
<1>5. QED
  BY <1>1, <1>2, <1>3, <1>4

\* A picture of xterm is a sequence of units.
LEMMA CaptureInv == IInv /\ Capture => IInv'
<1> SUFFICES ASSUME IInv, Capture PROVE IInv'
  OBVIOUS
<1> USE DEF IInv, Types
<1>1. /\ BooleanTypes' /\ FlagTypes' /\ CountTypes' /\ BufferTypes'
      /\ OutputTypes' /\ SnapshotType' /\ Carrying' /\ Sharing'
  BY DEF Capture, BooleanTypes, FlagTypes, CountTypes, BufferTypes,
         OutputTypes, SnapshotType, Carrying, Sharing, reading, flushing,
         waiting, output, view, share
<1>2. CaptureType'
  BY DEF Capture, CaptureType, CaptureRecord, CountTypes, OutputTypes
<1>3. GateHeld'
  BY DEF Capture, GateHeld, flushing, waiting, output, FlagTypes,
         CaptureType, CaptureRecord
<1>4. Capturing'
  BY DEF Capture, Capturing, CaptureType, CaptureRecord, Sharing,
         CountTypes
<1>5. QED
  BY <1>1, <1>2, <1>3, <1>4

\* A stored snapshot belongs to a share.
LEMMA SetSnapshotInv == IInv /\ SetSnapshot => IInv'
<1> SUFFICES ASSUME IInv, SetSnapshot PROVE IInv'
  OBVIOUS
<1> USE DEF IInv, Types
<1>1. /\ BooleanTypes' /\ FlagTypes' /\ CountTypes' /\ BufferTypes'
      /\ OutputTypes' /\ Carrying' /\ Sharing'
  BY DEF SetSnapshot, BooleanTypes, FlagTypes, CountTypes, BufferTypes,
         OutputTypes, Carrying, Sharing, reading, flushing, waiting, output,
         view
<1>2. SnapshotType'
  BY DEF SetSnapshot, Ended, Idle, SnapshotType, CaptureType,
         CaptureRecord, CountTypes, Capturing
<1>3. CaptureType'
  BY IdleIsCapture DEF SetSnapshot, Ended, CaptureType, CaptureRecord,
         CountTypes
<1>4. GateHeld'
  BY DEF SetSnapshot, Ended, Idle, GateHeld, flushing, waiting, output,
         FlagTypes, CaptureType, CaptureRecord
<1>5. Capturing'
  BY DEF SetSnapshot, Ended, Idle, Capturing, CaptureType, CaptureRecord,
         Sharing, CountTypes
<1>6. QED
  BY <1>1, <1>2, <1>3, <1>4, <1>5

\* Delivery in the webview keeps the invariant.
LEMMA DeliverDataInv == IInv /\ DeliverData => IInv'
<1> SUFFICES ASSUME IInv, DeliverData PROVE IInv'
  OBVIOUS
<1> USE DEF IInv, Types
<1>1. /\ BooleanTypes' /\ FlagTypes' /\ CountTypes' /\ BufferTypes'
      /\ SnapshotType' /\ Carrying' /\ Sharing'
  BY DEF DeliverData, BooleanTypes, FlagTypes, CountTypes, BufferTypes,
         SnapshotType, Carrying, Sharing, reading, flushing, waiting, share
<1>2. OutputTypes'
  BY ChunksAre DEF DeliverData, OutputTypes, reading, share, BufferTypes,
         Messages
<1>3. CaptureType'
  BY DEF DeliverData, CaptureType, CaptureRecord, CountTypes
<1>4. GateHeld'
  BY DEF DeliverData, GateHeld, flushing, waiting, FlagTypes, CaptureType,
         CaptureRecord
<1>5. Capturing'
  BY DEF DeliverData, Capturing, CaptureType, CaptureRecord, Sharing,
         CountTypes
<1>6. QED
  BY <1>1, <1>2, <1>3, <1>4, <1>5

\* A closed pane leaves no stream.
LEMMA ClosePaneInv == IInv /\ ClosePane => IInv'
<1> SUFFICES ASSUME IInv, ClosePane PROVE IInv'
  OBVIOUS
<1> USE DEF IInv, Types
<1>1. /\ BufferTypes' /\ CaptureType' /\ GateHeld' /\ Carrying' /\ Capturing'
  BY DEF ClosePane, Unshare, BufferTypes, CaptureType, GateHeld, Carrying,
         Capturing, reading, flushing, waiting, output
<1>2. BooleanTypes'
  BY DEF ClosePane, Unshare, BooleanTypes, waiting
<1>3. FlagTypes'
  BY DEF ClosePane, Unshare, FlagTypes, reading, flushing, waiting, output
<1>4. CountTypes'
  BY BoundsAssumption DEF ClosePane, Unshare, CountTypes, reading, Sharing
<1>5. OutputTypes'
  BY ChunksAre DEF ClosePane, Unshare, OutputTypes, reading, output,
         BufferTypes, Messages
<1>6. SnapshotType'
  BY DEF ClosePane, Unshare, SnapshotType, CaptureType, CaptureRecord,
         CountTypes, Capturing
<1>7. Sharing'
  BY DEF ClosePane, Unshare, Sharing, CountTypes
<1>8. QED
  BY <1>1, <1>2, <1>3, <1>4, <1>5, <1>6, <1>7

-----------------------------------------------------------------------------
(* The invariant *)

\* The initial state satisfies the invariant.
LEMMA InitInv == Init => IInv
<1> SUFFICES ASSUME Init PROVE IInv
  OBVIOUS
<1>1. FlagTypes /\ BooleanTypes
  BY DEF Init, FlagTypes, BooleanTypes
<1>2. CountTypes /\ OutputTypes /\ SnapshotType
  BY BoundsAssumption DEF Init, CountTypes, OutputTypes, SnapshotType
<1>3. BufferTypes
  BY EmptyIsChunk DEF Init, BufferTypes
<1>4. CaptureType /\ capture.pc = "idle"
  BY IdleIsCapture, BoundsAssumption DEF Init, CaptureType
<1>5. GateHeld /\ Carrying /\ Sharing /\ Capturing
  BY <1>4 DEF Init, GateHeld, Carrying, Sharing, Capturing
<1>6. QED
  BY <1>1, <1>2, <1>3, <1>4, <1>5 DEF IInv, Types

\* A step that changes nothing preserves it.
LEMMA StutterInv == IInv /\ UNCHANGED vars => IInv'
BY DEF IInv, Types, FlagTypes, BooleanTypes, CountTypes, BufferTypes,
       OutputTypes, SnapshotType, CaptureType, GateHeld, Carrying, Sharing,
       Capturing, vars, reading, flushing, waiting, output, view, share

\* Every step preserves it.
LEMMA StepInv == IInv /\ [Next]_vars => IInv'
<1>1. IInv /\ Flusher => IInv'
  BY LifeInv, FlusherTakesInv, FlusherPublishesInv, FlusherSendsInv
     DEF Flusher, Living
<1>2. IInv /\ Waiter => IInv'
  BY LifeInv, WaiterTakesInv, WaiterPublishesInv, WaiterSendsInv,
     WaiterUnsharesInv DEF Waiter, Living
<1>3. IInv /\ Barrier => IInv'
  BY BarrierReadsInv, BarrierMarksInv DEF Barrier
<1>4. QED
  BY <1>1, <1>2, <1>3, LifeInv, ReadInv, BeginShareInv, InsertShareInv,
     StopShareInv, BeginCaptureInv, ReplyArrivesInv, CaptureFailsInv,
     CaptureInv, SetSnapshotInv, DeliverDataInv, ClosePaneInv, StutterInv DEF Next, Living

\* The invariant holds in every reachable state.
THEOREM Invariance == Spec => []IInv
BY InitInv, StepInv, PTL DEF Spec

\* Every variable of the output pipeline has its type, and no chunk is longer
\* than the buffer, for every size of the buffer and every number of shares
\* and captures.
THEOREM PtyTypeCorrect == Spec => []TypeOK
<1>1. IInv => TypeOK
  BY TypesAreTypeOK DEF IInv
<1>2. QED
  BY <1>1, Invariance, PTL

-----------------------------------------------------------------------------
(* Refinement: publication under the gate is TerminalFeed's Emit. *)

\* What is in the gate is a chunk.
LEMMA InGateIsChunk == IInv => InGate \in Seq(Units) /\ sent \in Seq(Units)
BY ChunksAre DEF IInv, Types, BufferTypes, OutputTypes, InGate

\* A flush emits its chunk when it is published ...
LEMMA FlusherEmits == IInv /\ FlusherPublishes => Feed!Next
<1> SUFFICES ASSUME IInv, FlusherPublishes PROVE Feed!Next
  OBVIOUS
<1>1. InGate = <<>> /\ InGate' = chunk /\ sent' = sent
  BY DEF FlusherPublishes, GateFree, InGate
<1>2. sent \o InGate = sent /\ sent' \o InGate' = sent \o chunk
  BY <1>1, InGateIsChunk
<1>3. chunk \in Chunks \ {<<>>}
  BY DEF IInv, Types, BufferTypes, Carrying, FlusherPublishes
<1>4. Feed!Emit(chunk)
  BY <1>2 DEF Feed!Emit, FlusherPublishes, Publish
<1>5. QED
  BY <1>3, <1>4 DEF Feed!Next, Chunks

\* ... the waiter's last one too, ...
LEMMA WaiterEmits == IInv /\ WaiterPublishes => Feed!Next
<1> SUFFICES ASSUME IInv, WaiterPublishes PROVE Feed!Next
  OBVIOUS
<1>1. InGate = <<>> /\ InGate' = tail /\ sent' = sent
  BY DEF WaiterPublishes, GateFree, InGate
<1>2. sent \o InGate = sent /\ sent' \o InGate' = sent \o tail
  BY <1>1, InGateIsChunk
<1>3. tail \in Chunks \ {<<>>}
  BY DEF IInv, Types, BufferTypes, Carrying, WaiterPublishes
<1>4. Feed!Emit(tail)
  BY <1>2 DEF Feed!Emit, WaiterPublishes, Publish
<1>5. QED
  BY <1>3, <1>4 DEF Feed!Next, Chunks

\* ... and its sending to the webview changes nothing of the feed.
LEMMA FlusherSendsFed == IInv /\ FlusherSends => UNCHANGED Feed!feed
<1> SUFFICES ASSUME IInv, FlusherSends PROVE UNCHANGED Feed!feed
  OBVIOUS
<1>1. InGate = chunk /\ InGate' = <<>> /\ sent' = sent \o chunk
  BY DEF FlusherSends, Send, InGate, IInv, GateHeld
<1>2. chunk \in Seq(Units) /\ sent \in Seq(Units)
  BY <1>1, InGateIsChunk
<1>3. sent' \o InGate' = sent \o InGate
  BY <1>1, <1>2
<1>4. QED
  BY <1>3 DEF Feed!feed, FlusherSends, share

\* ... for the waiter as for the flusher.
LEMMA WaiterSendsFed == IInv /\ WaiterSends => UNCHANGED Feed!feed
<1> SUFFICES ASSUME IInv, WaiterSends PROVE UNCHANGED Feed!feed
  OBVIOUS
<1>1. InGate = tail /\ InGate' = <<>> /\ sent' = sent \o tail
  BY DEF WaiterSends, Send, InGate, IInv, GateHeld
<1>2. tail \in Seq(Units) /\ sent \in Seq(Units)
  BY <1>1, InGateIsChunk
<1>3. sent' \o InGate' = sent \o InGate
  BY <1>1, <1>2
<1>4. QED
  BY <1>3 DEF Feed!feed, WaiterSends, share

\* A share begins where the host is: a chunk in the gate was published before
\* the share and is not part of it.
LEMMA InsertShares == IInv /\ InsertShare => Feed!Share
<1> SUFFICES ASSUME IInv, InsertShare PROVE Feed!Share
  OBVIOUS
<1>1. InGate' = InGate /\ sent' = sent
  BY DEF InsertShare, InGate, flushing, waiting, output
<1>2. Len(sent \o InGate) = Len(sent) + Len(InGate)
  BY InGateIsChunk
<1>3. ~shared /\ stream = <<>>
  BY DEF InsertShare, IInv, Sharing
<1>4. QED
  BY <1>1, <1>2, <1>3 DEF Feed!Share, InsertShare

\* Whoever ends the share, TerminalFeed's ends too; without one nothing changes.
LEMMA Unshares ==
  IInv /\ Unshare /\ UNCHANGED <<gate, sent, chunk, tail>>
    => Feed!Unshare \/ UNCHANGED Feed!feed
<1> SUFFICES ASSUME IInv, Unshare, UNCHANGED <<gate, sent, chunk, tail>>
             PROVE  Feed!Unshare \/ UNCHANGED Feed!feed
  OBVIOUS
<1>1. sent' \o InGate' = sent \o InGate
  BY DEF InGate
<1>2. CASE shared
  BY <1>1, <1>2 DEF Feed!Unshare, Unshare
<1>3. CASE ~shared
  <2>1. stream' = stream /\ origin' = origin
    BY <1>3 DEF Unshare, IInv, Sharing
  <2>2. shared' = shared
    BY <1>3 DEF Unshare, IInv, Types, BooleanTypes
  <2>3. QED
    BY <1>1, <2>1, <2>2 DEF Feed!feed
<1>4. QED
  BY <1>2, <1>3

\* All else leaves the feed alone.
LEMMA OthersFed ==
  ASSUME UNCHANGED <<gate, sent, stream, shared, origin>>,
         gate = "flusher" => chunk' = chunk,
         gate = "waiter" => tail' = tail
  PROVE  UNCHANGED Feed!feed
BY DEF Feed!feed, InGate

\* Every step is a step of TerminalFeed or leaves its state alone.
LEMMA StepFeed == IInv /\ [Next]_vars => [Feed!Next]_(Feed!feed)
<1> SUFFICES ASSUME IInv, [Next]_vars PROVE [Feed!Next]_(Feed!feed)
  OBVIOUS
<1>1. CASE Flusher
  <2>1. CASE FlusherWakes \/ FlusherStops
    BY <2>1, OthersFed DEF FlusherWakes, FlusherStops, output, share, waiting
  <2>2. CASE FlusherTakes
    BY <2>2, OthersFed DEF FlusherTakes, output, share, waiting, IInv, GateHeld
  <2>3. QED
    BY <1>1, <2>1, <2>2, FlusherEmits, FlusherSendsFed DEF Flusher
<1>2. CASE Waiter
  <2>1. CASE \/ WaiterWakes \/ WaiterCloses \/ WaiterSendsExit
             \/ WaiterTakesSession
    BY <2>1, OthersFed DEF WaiterWakes, WaiterCloses, WaiterSendsExit,
         WaiterTakesSession, output, share, flushing
  <2>2. CASE WaiterTakes
    BY <2>2, OthersFed DEF WaiterTakes, output, share, flushing, IInv, GateHeld
  <2>3. CASE WaiterUnshares
    BY <2>3, Unshares DEF WaiterUnshares, output, flushing, Feed!Next
  <2>4. QED
    BY <1>2, <2>1, <2>2, <2>3, WaiterEmits, WaiterSendsFed DEF Waiter
<1>3. CASE Barrier
  <2>1. CASE BarrierReads
    <3>1. gate = "free" /\ gate' \in {"free", "barrier"}
      BY <2>1 DEF BarrierReads, GateFree
    <3>2. InGate = <<>> /\ InGate' = <<>>
      BY <3>1 DEF InGate
    <3>3. QED
      BY <2>1, <3>2 DEF BarrierReads, Feed!feed, share
  <2>2. CASE BarrierMarks
    <3>1. gate = "barrier" /\ gate' = "free"
      BY <2>2 DEF BarrierMarks, IInv, GateHeld
    <3>2. InGate = <<>> /\ InGate' = <<>>
      BY <3>1 DEF InGate
    <3>3. QED
      BY <2>2, <3>2 DEF BarrierMarks, Feed!feed, share
  <2>3. QED
    BY <1>3, <2>1, <2>2 DEF Barrier
<1>4. CASE Read \/ ChildExits \/ ReaderEnds
  BY <1>4, OthersFed DEF Read, ChildExits, ReaderEnds, flushing, waiting,
       output, share
<1>5. CASE InsertShare
  BY <1>5, InsertShares DEF Feed!Next
<1>6. CASE StopShare \/ ClosePane
  BY <1>6, Unshares DEF StopShare, ClosePane, flushing, waiting, output,
       Feed!Next
<1>7. CASE BeginShare \/ BeginCapture \/ ReplyArrives \/ CaptureFails
             \/ Capture \/ SetSnapshot
  BY <1>7, OthersFed DEF BeginShare, BeginCapture, ReplyArrives, CaptureFails,
       Capture, SetSnapshot, flushing, waiting, output, share
<1>8. CASE DeliverData \/ DeliverExit \/ CloseReturns
  BY <1>8, OthersFed DEF DeliverData, DeliverExit, CloseReturns, flushing,
       waiting, output, share
<1>9. CASE UNCHANGED vars
  BY <1>9, OthersFed DEF vars, flushing, waiting, output, share
<1>10. QED
  BY <1>1, <1>2, <1>3, <1>4, <1>5, <1>6, <1>7, <1>8, <1>9 DEF Next

\* The feed starts empty.
LEMMA InitFeed == Init => Feed!Init
<1>1. Init => sent \o InGate = <<>>
  BY DEF Init, InGate
<1>2. QED
  BY <1>1 DEF Init, Feed!Init

\* Host and guests are fed the same chunks in the same order: the threads, the
\* gate and the shares implement TerminalFeed, for every size of the buffer and
\* every number of shares and captures, on Unix and on Windows.
THEOREM Implements == Spec => FeedSpec
<1>1. Spec => Feed!Init /\ [][Feed!Next]_(Feed!feed)
  BY InitFeed, StepFeed, Invariance, PTL DEF Spec
<1>2. QED
  BY <1>1 DEF FeedSpec, Feed!Spec

\* From place n on, h is g.
Alike(h, g, n) ==
  /\ h \in Seq(Units) /\ g \in Seq(Units) /\ n \in Nat
  /\ Len(h) = n + Len(g) /\ \A j \in 1..Len(g) : g[j] = h[n + j]

\* It stays so when the same is appended to both.
LEMMA AlikeStays ==
  ASSUME NEW h, NEW g, NEW n, NEW c \in Seq(Units), Alike(h, g, n)
  PROVE  Alike(h \o c, g \o c, n)
<1>. PICK a \in Nat, d \in Nat : Len(g) = a /\ Len(c) = d
  BY DEF Alike
<1>0. /\ h \in Seq(Units) /\ g \in Seq(Units) /\ n \in Nat
      /\ Len(g) = a /\ Len(c) = d /\ Len(h) = n + a
      /\ \A j \in 1..a : g[j] = h[n + j]
  BY DEF Alike
<1>1. /\ Len(g \o c) = a + d /\ Len(h \o c) = (n + a) + d
      /\ \A i \in 1..(a + d) : (g \o c)[i] = IF i <= a THEN g[i] ELSE c[i - a]
      /\ \A i \in 1..((n + a) + d) :
           (h \o c)[i] = IF i <= n + a THEN h[i] ELSE c[i - (n + a)]
  <2>1. /\ Len(g \o c) = Len(g) + Len(c)
        /\ \A i \in 1..(Len(g) + Len(c)) :
             (g \o c)[i] = IF i <= Len(g) THEN g[i] ELSE c[i - Len(g)]
    BY <1>0, ConcatProperties, Zenon
  <2>2. /\ Len(h \o c) = Len(h) + Len(c)
        /\ \A i \in 1..(Len(h) + Len(c)) :
             (h \o c)[i] = IF i <= Len(h) THEN h[i] ELSE c[i - Len(h)]
    BY <1>0, ConcatProperties, Zenon
  <2>3. QED
    BY <1>0, <2>1, <2>2, Zenon
<1>2. ASSUME NEW i \in 1..(a + d) PROVE (g \o c)[i] = (h \o c)[n + i]
  <2>1. /\ n + i \in 1..((n + a) + d) /\ (n + i) - (n + a) = i - a
        /\ i <= a <=> n + i <= n + a
    BY <1>0
  <2>2. (h \o c)[n + i] = IF n + i <= n + a THEN h[n + i]
                                          ELSE c[(n + i) - (n + a)]
    BY <1>1, <2>1
  <2>3. (g \o c)[i] = IF i <= a THEN g[i] ELSE c[i - a]
    BY <1>1
  <2>4. CASE i <= a
    <3>1. i \in 1..a
      BY <2>4
    <3>2. g[i] = h[n + i]
      BY <1>0, <3>1
    <3>3. QED
      BY <2>1, <2>2, <2>3, <2>4, <3>2
  <2>5. CASE ~(i <= a)
    BY <2>1, <2>2, <2>3, <2>5
  <2>6. QED
    BY <2>4, <2>5
<1>3. Len(h \o c) = n + Len(g \o c)
  BY <1>0, <1>1
<1>4. h \o c \in Seq(Units) /\ g \o c \in Seq(Units)
  BY <1>0
<1>5. QED
  BY <1>0, <1>1, <1>2, <1>3, <1>4 DEF Alike

\* A step of the feed keeps host and guests alike.
LEMMA FeedKeepsAlike ==
  ASSUME IInv, Feed!SameFeed, [Feed!Next]_(Feed!feed)
  PROVE  Feed!SameFeed'
<1> DEFINE H == sent \o InGate
<1>1. H \in Seq(Units) /\ stream \in Seq(Units) /\ origin \in Nat
  BY InGateIsChunk DEF IInv, Types, OutputTypes, CountTypes
<1>2. ASSUME NEW c \in BoundedSeq(Units, MaxPending) \ {<<>>}, Feed!Emit(c)
      PROVE  Feed!SameFeed'
  <2>1. c \in Seq(Units)
    BY <1>2, BoundedSeqIs, BoundsAssumption
  <2>2. CASE shared
    <3>1. H' = H \o c /\ stream' = stream \o c /\ shared' /\ origin' = origin
      BY <1>2, <2>2 DEF Feed!Emit
    <3>2. Alike(H, stream, origin)
      BY <1>1, <2>2 DEF Feed!SameFeed, Alike
    <3>3. Alike(H \o c, stream \o c, origin)
      BY <2>1, <3>2, AlikeStays
    <3>4. QED
      BY <3>1, <3>3 DEF Feed!SameFeed, Alike
  <2>3. CASE ~shared
    BY <1>2, <2>3 DEF Feed!Emit, Feed!SameFeed
  <2>4. QED
    BY <2>2, <2>3
<1>3. CASE Feed!Share
  BY <1>1, <1>3 DEF Feed!Share, Feed!SameFeed
<1>4. CASE Feed!Unshare
  BY <1>4 DEF Feed!Unshare, Feed!SameFeed
<1>5. CASE UNCHANGED Feed!feed
  BY <1>5 DEF Feed!feed, Feed!SameFeed
<1>6. QED
  BY <1>2, <1>3, <1>4, <1>5 DEF Feed!Next

\* What the guests of a share have been fed is, unit for unit, what the host was
\* fed since the share began (state.rs:129-147 and session.rs:550 under one
\* gate), whichever thread flushed it.
THEOREM GuestsFedAsHost == Spec => []Feed!SameFeed
<1>1. Feed!Init => Feed!SameFeed
  BY DEF Feed!Init, Feed!SameFeed
<1>2. QED
  BY <1>1, FeedKeepsAlike, InitFeed, StepFeed, Invariance, PTL DEF Spec

-----------------------------------------------------------------------------
(* No silent gap.  The sequence of what is sent, being flushed and waiting *)
(* to be flushed grows only at its end, by a unit or by a notice and a     *)
(* unit, and is cut only there, by an overflow; flushing moves the parts'  *)
(* borders and leaves the whole alone.                                     *)

\* NoSilentGap's condition, of any sequence.
Steady(s) ==
  \A i \in DOMAIN s : \/ s[i] = Notice
                      \/ i = 1 /\ s[i] = 1
                      \/ i > 1 /\ s[i - 1] \in {Notice, s[i] - 1}

\* s is steady and ends with unit n, the last one read.
UpTo(s, n) ==
  /\ s \in Seq(Units) /\ Steady(s)
  /\ s = <<>> => n = 0
  /\ s # <<>> => s[Len(s)] = n

\* Until the waiter takes the tail, the flow is steady up to what was read.
FlowInv ==
  /\ flusher \notin {"holding", "publishing"} => chunk = <<>>
  /\ waiter \in {"waiting", "joining"} => UpTo(Flow, read)

\* The next unit keeps a flow steady.
LEMMA UnitFollows ==
  ASSUME NEW s, NEW n \in Nat, UpTo(s, n), n + 1 \in Units
  PROVE  UpTo(Append(s, n + 1), n + 1)
<1> DEFINE t == Append(s, n + 1)
<1>1. /\ t \in Seq(Units) /\ Len(t) = Len(s) + 1 /\ Len(s) \in Nat
      /\ t[Len(s) + 1] = n + 1 /\ DOMAIN t = 1..(Len(s) + 1)
      /\ DOMAIN s = 1..Len(s) /\ \A i \in 1..Len(s) : t[i] = s[i]
  BY DEF UpTo
<1>2. Len(s) = 0 => s = <<>>
  BY DEF UpTo
<1> HIDE DEF t
<1>3. ASSUME NEW i \in DOMAIN t
      PROVE  \/ t[i] = Notice
             \/ i = 1 /\ t[i] = 1
             \/ i > 1 /\ t[i - 1] \in {Notice, t[i] - 1}
  <2>1. CASE i = Len(s) + 1
    <3>1. CASE Len(s) = 0
      BY <1>1, <1>2, <2>1, <3>1 DEF UpTo
    <3>2. CASE Len(s) # 0
      <4>1. Len(s) \in 1..Len(s) /\ s # <<>>
        BY <1>1, <3>2
      <4>2. t[Len(s)] = n
        BY <1>1, <4>1 DEF UpTo
      <4>3. i > 1 /\ i - 1 = Len(s) /\ t[i] - 1 = n
        BY <1>1, <2>1, <3>2
      <4>4. QED
        BY <4>2, <4>3
    <3>3. QED
      BY <3>1, <3>2
  <2>2. CASE i # Len(s) + 1
    <3>1. i \in 1..Len(s) /\ (i > 1 => i - 1 \in 1..Len(s))
      BY <1>1, <2>2
    <3>2. \/ s[i] = Notice
          \/ i = 1 /\ s[i] = 1
          \/ i > 1 /\ s[i - 1] \in {Notice, s[i] - 1}
      BY <1>1, <3>1 DEF UpTo, Steady
    <3>3. QED
      BY <1>1, <3>1, <3>2
  <2>3. QED
    BY <2>1, <2>2
<1>4. t # <<>> /\ t[Len(t)] = n + 1
  BY <1>1
<1>5. QED
  BY <1>1, <1>3, <1>4 DEF UpTo, Steady, t

\* What precedes the buffer, a notice and the next unit are steady, whatever
\* the buffer held.
LEMMA NoticeFollows ==
  ASSUME NEW s \in Seq(Units), NEW p \in Seq(Units), NEW n \in Nat,
         Steady(s \o p), n + 1 \in Units
  PROVE  UpTo(s \o <<Notice, n + 1>>, n + 1)
<1> DEFINE t == s \o <<Notice, n + 1>>
<1> DEFINE w == s \o p
<1>1. PICK a \in Nat, b \in Nat : Len(s) = a /\ Len(p) = b
  OBVIOUS
<1>2. /\ Notice \in Units /\ <<Notice, n + 1>> \in Seq(Units)
      /\ Len(<<Notice, n + 1>>) = 2 /\ <<Notice, n + 1>>[1] = Notice
      /\ <<Notice, n + 1>>[2] = n + 1
  BY BoundsAssumption DEF Notice, Units
<1>3. /\ Len(t) = a + 2
      /\ \A i \in 1..(a + 2) :
           t[i] = IF i <= a THEN s[i] ELSE <<Notice, n + 1>>[i - a]
  <2>1. /\ Len(t) = Len(s) + Len(<<Notice, n + 1>>)
        /\ \A i \in 1..(Len(s) + Len(<<Notice, n + 1>>)) :
             t[i] = IF i <= Len(s) THEN s[i]
                    ELSE <<Notice, n + 1>>[i - Len(s)]
    BY <1>2, ConcatProperties, Zenon
  <2>2. QED
    BY <1>1, <1>2, <2>1, Zenon
<1>4. /\ Len(w) = a + b
      /\ \A i \in 1..(a + b) : w[i] = IF i <= a THEN s[i] ELSE p[i - a]
  <2>1. /\ Len(w) = Len(s) + Len(p)
        /\ \A i \in 1..(Len(s) + Len(p)) :
             w[i] = IF i <= Len(s) THEN s[i] ELSE p[i - Len(s)]
    BY ConcatProperties, Zenon
  <2>2. QED
    BY <1>1, <2>1, Zenon
<1>5. t \in Seq(Units) /\ w \in Seq(Units)
  BY <1>2
<1>6. Steady(w)
  OBVIOUS
<1> HIDE DEF t, w
<1>7. DOMAIN t = 1..(a + 2) /\ DOMAIN w = 1..(a + b)
  BY <1>3, <1>4, <1>5
<1>8. t[a + 1] = Notice /\ t[a + 2] = n + 1
  <2>1. a + 1 \in 1..(a + 2) /\ a + 2 \in 1..(a + 2) /\ ~(a + 1 <= a)
        /\ ~(a + 2 <= a) /\ (a + 1) - a = 1 /\ (a + 2) - a = 2
    OBVIOUS
  <2>2. QED
    BY <1>2, <1>3, <2>1
<1>9. ASSUME NEW i \in DOMAIN t
      PROVE  \/ t[i] = Notice
             \/ i = 1 /\ t[i] = 1
             \/ i > 1 /\ t[i - 1] \in {Notice, t[i] - 1}
  <2>1. CASE i = a + 1
    BY <1>8, <2>1
  <2>2. CASE i = a + 2
    <3>1. i > 1 /\ i - 1 = a + 1
      BY <2>2
    <3>2. QED
      BY <1>8, <3>1
  <2>3. CASE i <= a
    <3>1. i \in 1..(a + b) /\ i \in 1..(a + 2) /\ i \in DOMAIN w
      BY <1>7, <2>3
    <3>2. t[i] = s[i] /\ w[i] = s[i]
      BY <1>3, <1>4, <2>3, <3>1
    <3>3. ASSUME i > 1
          PROVE  t[i - 1] = w[i - 1]
      <4>1. i - 1 \in 1..(a + b) /\ i - 1 \in 1..(a + 2) /\ i - 1 <= a
        BY <2>3, <3>1, <3>3
      <4>2. QED
        BY <1>3, <1>4, <4>1
    <3>4. \/ w[i] = Notice
          \/ i = 1 /\ w[i] = 1
          \/ i > 1 /\ w[i - 1] \in {Notice, w[i] - 1}
      BY <1>6, <3>1 DEF Steady
    <3>5. QED
      BY <3>2, <3>3, <3>4
  <2>4. QED
    BY <1>7, <2>1, <2>2, <2>3
<1>10. t # <<>> /\ t[Len(t)] = n + 1
  BY <1>3, <1>5, <1>8
<1>11. QED
  BY <1>5, <1>9, <1>10 DEF UpTo, Steady, t

\* Appending to the buffer appends to the flow.
LEMMA AppendsToFlow ==
  ASSUME NEW s \in Seq(Units), NEW p \in Seq(Units), NEW u \in Units
  PROVE  s \o Append(p, u) = Append(s \o p, u)
<1>1. <<u>> \in Seq(Units) /\ s \o p \in Seq(Units)
  OBVIOUS
<1>2. Append(p, u) = p \o <<u>>
  BY AppendIsConcat, Zenon
<1>3. Append(s \o p, u) = (s \o p) \o <<u>>
  BY <1>1, AppendIsConcat, Zenon
<1>4. (s \o p) \o <<u>> = s \o (p \o <<u>>)
  BY <1>1, ConcatAssociative
<1>5. QED
  BY <1>2, <1>3, <1>4

\* The parts of the flow are sequences.
LEMMA FlowTypes ==
  IInv => /\ sent \in Seq(Units) /\ chunk \in Seq(Units)
          /\ pending \in Seq(Units) /\ sent \o chunk \in Seq(Units)
BY ChunksAre DEF IInv, Types, BufferTypes, OutputTypes

\* A read adds a unit, or drops the buffer and says so.
LEMMA ReadFlows == IInv /\ FlowInv /\ Read => FlowInv'
<1> SUFFICES ASSUME IInv, FlowInv, Read PROVE FlowInv'
  OBVIOUS
<1> DEFINE s == sent \o chunk
<1>1. /\ flusher' = flusher /\ chunk' = chunk /\ waiter' = waiter
      /\ sent' = sent /\ read' = read + 1
      /\ pending' = Buffered(pending, read + 1)
  BY DEF Read, flushing, waiting, output
<1>2. s \in Seq(Units) /\ pending \in Seq(Units) /\ read \in Nat
      /\ read + 1 \in Units
  BY FlowTypes, BoundsAssumption DEF IInv, Types, CountTypes, Read, Units
<1>3. Flow' = s \o Buffered(pending, read + 1)
  BY <1>1 DEF Flow
<1>4. ASSUME waiter \in {"waiting", "joining"}
      PROVE  UpTo(Flow', read')
  <2>1. UpTo(s \o pending, read)
    BY <1>4 DEF FlowInv, Flow
  <2>2. CASE Len(pending) + 1 > MaxPending
    <3>1. Buffered(pending, read + 1) = <<Notice, read + 1>>
      BY <2>2 DEF Buffered
    <3>2. UpTo(s \o <<Notice, read + 1>>, read + 1)
      BY <1>2, <2>1, NoticeFollows DEF UpTo
    <3>3. QED
      BY <1>1, <1>3, <3>1, <3>2
  <2>3. CASE ~(Len(pending) + 1 > MaxPending)
    <3>1. Buffered(pending, read + 1) = Append(pending, read + 1)
      BY <2>3 DEF Buffered
    <3>2. s \o Append(pending, read + 1) = Append(s \o pending, read + 1)
      BY <1>2, AppendsToFlow
    <3>3. UpTo(Append(s \o pending, read + 1), read + 1)
      BY <1>2, <2>1, UnitFollows
    <3>4. QED
      BY <1>1, <1>3, <3>1, <3>2, <3>3
  <2>4. QED
    BY <2>2, <2>3
<1>5. QED
  BY <1>1, <1>4 DEF FlowInv

\* The flusher moves the buffer, or the chunk, one place to the front.
LEMMA FlusherFlows == IInv /\ FlowInv /\ Flusher => FlowInv'
<1> SUFFICES ASSUME IInv, FlowInv, Flusher PROVE FlowInv'
  OBVIOUS
<1>1. CASE FlusherWakes \/ FlusherStops
  BY <1>1 DEF FlusherWakes, FlusherStops, reading, waiting, output, FlowInv,
       Flow
<1>2. CASE FlusherTakes
  <2>1. chunk = <<>>
    BY <1>2 DEF FlusherTakes, FlowInv
  <2>2. Flow = sent \o pending /\ Flow' = sent \o pending
    BY <1>2, <2>1, FlowTypes, ConcatEmptySeq DEF FlusherTakes, Flow, output
  <2>3. QED
    BY <1>2, <2>2 DEF FlusherTakes, FlowInv, reading, waiting
<1>3. CASE FlusherPublishes
  BY <1>3 DEF FlusherPublishes, reading, waiting, FlowInv, Flow
<1>4. CASE FlusherSends
  <2>1. sent' = sent \o chunk /\ chunk' = <<>> /\ pending' = pending
    BY <1>4 DEF FlusherSends, Send
  <2>2. Flow' = Flow
    BY <2>1, FlowTypes, ConcatEmptySeq DEF Flow
  <2>3. QED
    BY <1>4, <2>1, <2>2 DEF FlusherSends, FlowInv, reading, waiting
<1>5. QED
  BY <1>1, <1>2, <1>3, <1>4 DEF Flusher

\* The waiter's flush is the end of the claim; before it, it only waits.
LEMMA WaiterFlows == FlowInv /\ Waiter => FlowInv'
<1> SUFFICES ASSUME FlowInv, Waiter PROVE FlowInv'
  OBVIOUS
<1>1. CASE WaiterWakes
  BY <1>1 DEF WaiterWakes, reading, flushing, output, FlowInv, Flow
<1>2. CASE ~WaiterWakes
  BY <1>2 DEF Waiter, WaiterTakes, WaiterPublishes, WaiterSends, WaiterCloses,
       WaiterSendsExit, WaiterUnshares, WaiterTakesSession, flushing, FlowInv
<1>3. QED
  BY <1>1, <1>2

\* All else leaves the flow alone.
LEMMA OthersFlow ==
  ASSUME FlowInv, UNCHANGED <<flusher, chunk, waiter, sent, pending, read>>
  PROVE  FlowInv'
BY DEF FlowInv, Flow

\* Every step keeps the flow steady.
LEMMA StepFlow == IInv /\ FlowInv /\ [Next]_vars => FlowInv'
<1> SUFFICES ASSUME IInv, FlowInv, [Next]_vars PROVE FlowInv'
  OBVIOUS
<1>1. CASE ChildExits \/ ReaderEnds
  BY <1>1, OthersFlow DEF ChildExits, ReaderEnds, flushing, waiting, output
<1>2. CASE BeginShare \/ InsertShare \/ StopShare
  BY <1>2, OthersFlow DEF BeginShare, InsertShare, StopShare, reading,
       flushing, waiting, output
<1>3. CASE \/ BeginCapture \/ BarrierReads \/ BarrierMarks \/ ReplyArrives
           \/ CaptureFails \/ Capture \/ SetSnapshot
  BY <1>3, OthersFlow DEF BeginCapture, BarrierReads, BarrierMarks,
       ReplyArrives, CaptureFails, Capture, SetSnapshot, reading, flushing,
       waiting, output
<1>4. CASE DeliverData \/ DeliverExit \/ ClosePane \/ CloseReturns
  BY <1>4, OthersFlow DEF DeliverData, DeliverExit, ClosePane, CloseReturns,
       reading, flushing, waiting, output
<1>5. CASE UNCHANGED vars
  BY <1>5, OthersFlow DEF vars, reading, flushing, waiting, output
<1>6. QED
  BY <1>1, <1>2, <1>3, <1>4, <1>5, ReadFlows, FlusherFlows, WaiterFlows
     DEF Next, Barrier

\* The empty flow is steady.
LEMMA InitFlow == Init => FlowInv
<1> SUFFICES ASSUME Init PROVE FlowInv
  OBVIOUS
<1>1. Flow = <<>> /\ <<>> \in Seq(Units) /\ DOMAIN <<>> = {}
  BY ConcatEmptySeq DEF Init, Flow
<1>2. QED
  BY <1>1 DEF Init, FlowInv, UpTo, Steady

\* Backpressure (pty/session.rs:486-494) never leaves a silent hole in what the
\* host and the guests see, for every size of the buffer and any interleaving
\* of reader, flusher and barrier, until the waiter takes what is left.
THEOREM NoGapUnannounced == Spec => []NoSilentGap
<1>1. FlowInv => NoSilentGap
  BY DEF FlowInv, UpTo, Steady, NoSilentGap
<1>2. QED
  BY <1>1, InitFlow, StepFlow, Invariance, PTL DEF Spec

-----------------------------------------------------------------------------
(* Where the waiter joins the reader nothing is left behind.  What was     *)
(* read is always somewhere, and each buffer on its way is empty before    *)
(* the flusher may stop.                                                   *)

\* Where a unit that was read may be.
Somewhere == Range(sent) \cup Range(chunk) \cup Range(tail) \cup Range(pending) \cup dropped

EndInv ==
  /\ 1..read \subseteq Somewhere
  /\ flusher \notin {"holding", "publishing"} => chunk = <<>>
  /\ waiter \notin {"holding", "publishing"} => tail = <<>>
  /\ flusher = "stopped" => done
  /\ done => waiter \in {"exiting", "unsharing", "taking", "ended"}
  /\ JoinsReader /\ waiter \notin {"waiting", "joining"} =>
       reader = "ended" /\ pending = <<>>

\* On Unix: when the flusher has stopped, all that was read was sent or dropped.
NothingLeft ==
  JoinsReader /\ flusher = "stopped" => 1..read \subseteq Range(sent) \cup dropped

LEMMA RangeOfConcat ==
  ASSUME NEW s \in Seq(Units), NEW t \in Seq(Units)
  PROVE  Range(s \o t) = Range(s) \cup Range(t)
<1>1. ASSUME NEW x \in Range(s \o t)
      PROVE  x \in Range(s) \cup Range(t)
  <2>1. PICK i \in 1..(Len(s) + Len(t)) : x = (s \o t)[i]
    BY <1>1 DEF Range
  <2>2. CASE i <= Len(s)
    BY <2>1, <2>2 DEF Range
  <2>3. CASE ~(i <= Len(s))
    <3>1. i - Len(s) \in 1..Len(t) /\ x = t[i - Len(s)]
      BY <2>1, <2>3
    <3>2. QED
      BY <3>1 DEF Range
  <2>4. QED
    BY <2>2, <2>3
<1>2. ASSUME NEW x \in Range(s)
      PROVE  x \in Range(s \o t)
  <2>1. PICK i \in 1..Len(s) : x = s[i]
    BY <1>2 DEF Range
  <2>2. i \in DOMAIN (s \o t) /\ x = (s \o t)[i]
    BY <2>1
  <2>3. QED
    BY <2>2 DEF Range
<1>3. ASSUME NEW x \in Range(t)
      PROVE  x \in Range(s \o t)
  <2>1. PICK i \in 1..Len(t) : x = t[i]
    BY <1>3 DEF Range
  <2>2. Len(s) + i \in DOMAIN (s \o t) /\ x = (s \o t)[Len(s) + i]
    BY <2>1
  <2>3. QED
    BY <2>2 DEF Range
<1>4. QED
  BY <1>1, <1>2, <1>3

LEMMA RangeOfEmpty == Range(<<>>) = {}
BY DEF Range

\* A new unit is buffered; what made room for it was dropped.
LEMMA RangeOfBuffered ==
  ASSUME NEW p \in Seq(Units), NEW u \in Units
  PROVE  /\ u \in Range(Buffered(p, u))
         /\ ~(Len(p) + 1 > MaxPending) => Range(p) \subseteq Range(Buffered(p, u))
<1>1. <<u>> \in Seq(Units) /\ u \in Range(<<u>>)
  BY DEF Range
<1>2. CASE Len(p) + 1 > MaxPending
  <2>1. Buffered(p, u) = <<Notice, u>> /\ 2 \in DOMAIN <<Notice, u>> /\ <<Notice, u>>[2] = u
    BY <1>2 DEF Buffered
  <2>2. u \in Range(<<Notice, u>>)
    BY <2>1 DEF Range
  <2>3. QED
    BY <1>2, <2>1, <2>2
<1>3. CASE ~(Len(p) + 1 > MaxPending)
  <2>1. Buffered(p, u) = p \o <<u>>
    BY <1>3 DEF Buffered
  <2>2. QED
    BY <1>1, <2>1, RangeOfConcat
<1>4. QED
  BY <1>2, <1>3

LEMMA ReadEnds == IInv /\ EndInv /\ Read => EndInv'
<1> SUFFICES ASSUME IInv, EndInv, Read PROVE EndInv'
  OBVIOUS
<1>1. pending \in Seq(Units) /\ read \in Nat /\ read + 1 \in Units
  BY FlowTypes, BoundsAssumption DEF IInv, Types, CountTypes, Read, Units
<1>2. /\ UNCHANGED <<sent, chunk, tail, flusher, waiter, done, reader>>
      /\ reader = "reading" /\ read' = read + 1 /\ pending' = Buffered(pending, read + 1)
      /\ dropped' = IF Len(pending) + 1 > MaxPending
                    THEN dropped \cup Range(pending) ELSE dropped
  BY DEF Read, flushing, waiting, output
<1>3. Somewhere \subseteq Somewhere' /\ read + 1 \in Somewhere'
  BY <1>1, <1>2, RangeOfBuffered DEF Somewhere
<1>4. 1..read' \subseteq Somewhere'
  <2>1. 1..(read + 1) = 1..read \cup {read + 1}
    BY <1>1
  <2>2. QED
    BY <1>2, <1>3, <2>1 DEF EndInv
<1>5. QED
  BY <1>2, <1>4 DEF EndInv

LEMMA FlusherEnds == IInv /\ EndInv /\ Flusher => EndInv'
<1> SUFFICES ASSUME IInv, EndInv, Flusher PROVE EndInv'
  OBVIOUS
<1>1. CASE FlusherWakes \/ FlusherStops
  BY <1>1 DEF FlusherWakes, FlusherStops, reading, waiting, output, EndInv, Somewhere
<1>2. CASE FlusherTakes
  <2>1. /\ chunk = <<>> /\ chunk' = pending /\ pending' = <<>>
        /\ flusher' = IF pending = <<>> THEN "idle" ELSE "holding"
        /\ UNCHANGED <<reading, waiting, sent>>
    BY <1>2 DEF FlusherTakes, EndInv, output
  <2>2. Somewhere \subseteq Somewhere'
    BY <2>1, RangeOfEmpty DEF Somewhere, reading, waiting
  <2>3. QED
    BY <2>1, <2>2 DEF EndInv, reading, waiting
<1>3. CASE FlusherPublishes
  BY <1>3 DEF FlusherPublishes, reading, waiting, EndInv, Somewhere
<1>4. CASE FlusherSends
  <2>1. /\ sent' = sent \o chunk /\ chunk' = <<>> /\ flusher' = "idle"
        /\ UNCHANGED <<reading, pending, waiting>>
    BY <1>4 DEF FlusherSends, Send
  <2>2. Somewhere \subseteq Somewhere'
    BY <2>1, FlowTypes, RangeOfConcat DEF Somewhere, reading, waiting
  <2>3. QED
    BY <2>1, <2>2 DEF EndInv, reading, waiting
<1>5. QED
  BY <1>1, <1>2, <1>3, <1>4 DEF Flusher

LEMMA WaiterEnds == IInv /\ EndInv /\ Waiter => EndInv'
<1> SUFFICES ASSUME IInv, EndInv, Waiter PROVE EndInv'
  OBVIOUS
<1>1. CASE WaiterTakes
  <2>1. /\ tail = <<>> /\ tail' = pending /\ pending' = <<>> /\ Joined
        /\ waiter = "joining"
        /\ waiter' = IF pending = <<>> THEN "closing" ELSE "holding"
        /\ UNCHANGED <<reading, flushing, done, sent>>
    BY <1>1 DEF WaiterTakes, EndInv, output
  <2>2. Somewhere \subseteq Somewhere'
    BY <2>1, RangeOfEmpty DEF Somewhere, reading, flushing
  <2>3. QED
    BY <2>1, <2>2 DEF EndInv, reading, flushing, Joined
<1>2. CASE WaiterPublishes
  BY <1>2 DEF WaiterPublishes, reading, flushing, EndInv, Somewhere
<1>3. CASE WaiterSends
  <2>1. /\ sent' = sent \o tail /\ tail' = <<>>
        /\ waiter = "publishing" /\ waiter' = "closing"
        /\ UNCHANGED <<reading, pending, flushing, done>>
    BY <1>3 DEF WaiterSends, Send
  <2>2. tail \in Seq(Units) /\ sent \in Seq(Units)
    BY ChunksAre DEF IInv, Types, BufferTypes, OutputTypes
  <2>3. Somewhere \subseteq Somewhere'
    BY <2>1, <2>2, RangeOfConcat DEF Somewhere, reading, flushing
  <2>4. QED
    BY <2>1, <2>3 DEF EndInv, reading, flushing
<1>4. CASE WaiterWakes \/ WaiterCloses
  BY <1>4 DEF WaiterWakes, WaiterCloses, reading, flushing, output, EndInv, Somewhere
<1>5. CASE WaiterSendsExit \/ WaiterUnshares \/ WaiterTakesSession
  BY <1>5 DEF WaiterSendsExit, WaiterUnshares, WaiterTakesSession, reading, flushing,
       output, EndInv, Somewhere
<1>6. QED
  BY <1>1, <1>2, <1>3, <1>4, <1>5 DEF Waiter

LEMMA OthersEnd ==
  ASSUME EndInv, UNCHANGED <<read, dropped, pending, chunk, tail, sent, flusher, waiter, done>>,
         reader' \in {reader, "ended"}
  PROVE  EndInv'
BY DEF EndInv, Somewhere

LEMMA StepEnds == IInv /\ EndInv /\ [Next]_vars => EndInv'
<1> SUFFICES ASSUME IInv, EndInv, [Next]_vars PROVE EndInv'
  OBVIOUS
<1>1. CASE ChildExits \/ ReaderEnds
  BY <1>1, OthersEnd DEF ChildExits, ReaderEnds, flushing, waiting, output
<1>2. CASE BeginShare \/ InsertShare \/ StopShare
  BY <1>2, OthersEnd DEF BeginShare, InsertShare, StopShare, reading,
       flushing, waiting, output
<1>3. CASE \/ BeginCapture \/ BarrierReads \/ BarrierMarks \/ ReplyArrives
           \/ CaptureFails \/ Capture \/ SetSnapshot
  BY <1>3, OthersEnd DEF BeginCapture, BarrierReads, BarrierMarks,
       ReplyArrives, CaptureFails, Capture, SetSnapshot, reading, flushing,
       waiting, output
<1>4. CASE DeliverData \/ DeliverExit \/ ClosePane \/ CloseReturns
  BY <1>4, OthersEnd DEF DeliverData, DeliverExit, ClosePane, CloseReturns,
       reading, flushing, waiting, output
<1>5. CASE UNCHANGED vars
  BY <1>5, OthersEnd DEF vars, reading, flushing, waiting, output
<1>6. QED
  BY <1>1, <1>2, <1>3, <1>4, <1>5, ReadEnds, FlusherEnds, WaiterEnds
     DEF Next, Barrier

LEMMA InitEnds == Init => EndInv
<1> SUFFICES ASSUME Init PROVE EndInv
  OBVIOUS
<1>1. read = 0 /\ 1..0 = {}
  BY DEF Init
<1>2. QED
  BY <1>1 DEF Init, EndInv

\* Where the waiter joins the reader (pty/session.rs:596-599) no output stays in
\* a buffer: when the flusher has stopped, everything that was read has been sent
\* or was dropped with a notice, for every size of the buffer and whichever
\* thread flushed it.  With the 50 ms of Windows it is not so (LastLineSent).
THEOREM NothingLeftOnUnix == Spec => []NothingLeft
<1>1. EndInv => NothingLeft
  BY RangeOfEmpty DEF EndInv, NothingLeft, Somewhere
<1>2. QED
  BY <1>1, InitEnds, StepEnds, Invariance, PTL DEF Spec

-----------------------------------------------------------------------------
(* The snapshot is never behind its sequence.  The marker enters the data  *)
(* channel when all that was published has been sent, so whoever receives  *)
(* it has been given all that; place gives, for each message in the        *)
(* channel, how much the webview has been given when it has taken it.      *)

PrefixOf(s, t) ==
  /\ s \in Seq(Units) /\ t \in Seq(Units) /\ Len(s) <= Len(t)
  /\ \A k \in 1..Len(s) : s[k] = t[k]

\* The messages of channel q bring a webview that shows x to s.
Placed(place, q, x, s) ==
  /\ place \in [0..Len(q) -> 0..Len(s)]
  /\ place[0] = Len(x) /\ place[Len(q)] = Len(s)
  /\ \A i \in 1..Len(q) :
       \/ q[i].kind = "marker" /\ place[i] = place[i - 1]
       \/ /\ q[i].kind = "data"
          /\ place[i] = place[i - 1] + Len(q[i].units)
          /\ \A k \in 1..Len(q[i].units) : s[place[i - 1] + k] = q[i].units[k]

\* Marker t is not behind what the snapshot must show.
Marked(place, q, t, n) ==
  \A i \in 1..Len(q) : q[i].kind = "marker" /\ q[i].token = t => n <= place[i]

\* The capture's share is the one there is, and the snapshot must show Bound.
Current == shared /\ capture.share = shares
Bound == origin + capture.sequence

\* A marker in the channel is of this capture, or of an earlier one.
TokenInv ==
  /\ \A i \in 1..Len(onData) :
       onData[i].kind = "marker" =>
         /\ onData[i].token <= capture.token
         /\ capture.pc \in {"requested", "gated"}
              => onData[i].token # capture.token
  /\ capture.pc \in {"requested", "gated"} => ~capture.reached
  /\ capture.share <= shares

\* xterm shows what was sent first; while pty-bridge's handlers are there it
\* will show the rest, and no marker too early.
ChannelInv ==
  /\ PrefixOf(xterm, sent)
  /\ ~released =>
       \E place : /\ Placed(place, onData, xterm, sent)
                  /\ capture.pc \in {"replying", "waiting"} /\ Current
                       => Marked(place, onData, capture.token, Bound)

PictureInv ==
  /\ Current =>
       /\ capture.pc = "gated" => Bound <= Len(sent)
       /\ capture.pc \in {"replying", "waiting"} /\ capture.reached
            => Bound <= Len(xterm)
       /\ capture.pc = "storing" => Bound <= Len(capture.content)
  /\ capture.pc = "storing" => PrefixOf(capture.content, sent)

SnapshotInv ==
  snapshot # Nothing =>
    /\ snapshot[3] <= shares
    /\ snapshot[3] = shares =>
         /\ origin + snapshot[1] <= Len(snapshot[2])
         /\ PrefixOf(snapshot[2], sent)

SyncInv == TokenInv /\ ChannelInv /\ PictureInv /\ SnapshotInv

\* A prefix stays one when the sequence grows.
LEMMA PrefixGrows ==
  ASSUME NEW s, NEW t, NEW c \in Seq(Units), PrefixOf(s, t)
  PROVE  PrefixOf(s, t \o c) /\ Len(t) <= Len(t \o c)
<1>1. /\ s \in Seq(Units) /\ t \in Seq(Units) /\ Len(s) <= Len(t)
      /\ \A k \in 1..Len(s) : s[k] = t[k]
  BY DEF PrefixOf
<1>2. /\ t \o c \in Seq(Units) /\ Len(t \o c) = Len(t) + Len(c)
      /\ \A i \in 1..Len(t) : (t \o c)[i] = t[i]
  BY <1>1
<1>3. Len(s) \in Nat /\ Len(t) \in Nat /\ Len(c) \in Nat
  BY <1>1
<1>4. QED
  BY <1>1, <1>2, <1>3 DEF PrefixOf

\* What is sent goes to the channel's end.
LEMMA SendPlaces ==
  ASSUME NEW place, NEW q \in Seq(Messages), NEW x, NEW s \in Seq(Units),
         NEW c \in Seq(Units), NEW t, NEW n, Placed(place, q, x, s)
  PROVE  \E p : /\ Placed(p, Append(q, DataMessage(c)), x, s \o c)
                /\ Marked(place, q, t, n)
                     => Marked(p, Append(q, DataMessage(c)), t, n)
<1> DEFINE a == Len(q)
           m == DataMessage(c)
           r == Append(q, m)
           w == s \o c
           p == [i \in 0..(a + 1) |-> IF i <= a THEN place[i]
                                      ELSE Len(s) + Len(c)]
<1>1. /\ a \in Nat /\ Len(s) \in Nat /\ Len(c) \in Nat
      /\ m \in Messages /\ m.kind = "data" /\ m.units = c
  BY DEF DataMessage, Messages
<1>2. /\ r \in Seq(Messages) /\ Len(r) = a + 1 /\ r[a + 1] = m
      /\ \A i \in 1..a : r[i] = q[i]
  BY <1>1
<1>3. /\ w \in Seq(Units) /\ Len(w) = Len(s) + Len(c)
      /\ \A k \in 1..Len(s) : w[k] = s[k]
      /\ \A k \in 1..Len(c) : w[Len(s) + k] = c[k]
  OBVIOUS
<1>4. /\ place \in [0..a -> 0..Len(s)] /\ place[0] = Len(x)
      /\ place[a] = Len(s)
      /\ \A i \in 1..a :
           \/ q[i].kind = "marker" /\ place[i] = place[i - 1]
           \/ /\ q[i].kind = "data"
              /\ place[i] = place[i - 1] + Len(q[i].units)
              /\ \A k \in 1..Len(q[i].units) :
                   s[place[i - 1] + k] = q[i].units[k]
  BY DEF Placed
<1>5. /\ p \in [0..(a + 1) -> 0..Len(w)] /\ p[a + 1] = Len(w)
      /\ \A i \in 0..a : p[i] = place[i]
  <2>1. ASSUME NEW i \in 0..(a + 1) PROVE p[i] \in 0..Len(w)
    <3>1. CASE i <= a
      <4>1. i \in 0..a
        BY <1>1, <3>1
      <4>2. place[i] \in 0..Len(s)
        BY <1>4, <4>1
      <4>3. QED
        BY <1>1, <1>3, <3>1, <4>2
    <3>2. CASE ~(i <= a)
      BY <1>1, <1>3, <3>2
    <3>3. QED
      BY <3>1, <3>2
  <2>2. QED
    BY <1>1, <1>3, <2>1
<1> HIDE DEF p, r, w, m
<1>6. p[0] = Len(x) /\ p[Len(r)] = Len(w)
  BY <1>1, <1>2, <1>4, <1>5
<1>7. ASSUME NEW i \in 1..Len(r)
      PROVE  \/ r[i].kind = "marker" /\ p[i] = p[i - 1]
             \/ /\ r[i].kind = "data"
                /\ p[i] = p[i - 1] + Len(r[i].units)
                /\ \A k \in 1..Len(r[i].units) :
                     w[p[i - 1] + k] = r[i].units[k]
  <2>1. CASE i = a + 1
    <3>1. i - 1 = a /\ a \in 0..a
      BY <1>1, <2>1
    <3>2. p[i - 1] = Len(s) /\ p[i] = Len(s) + Len(c)
      BY <1>3, <1>4, <1>5, <2>1, <3>1
    <3>3. r[i].kind = "data" /\ r[i].units = c
      BY <1>1, <1>2, <2>1
    <3>4. QED
      BY <1>3, <3>2, <3>3
  <2>2. CASE i # a + 1
    <3>1. i \in 1..a /\ i \in 0..a /\ i - 1 \in 0..a
      BY <1>1, <1>2, <2>2
    <3>2. p[i] = place[i] /\ p[i - 1] = place[i - 1] /\ r[i] = q[i]
      BY <1>2, <1>5, <3>1
    <3>3. place[i] \in 0..Len(s) /\ place[i - 1] \in 0..Len(s)
      BY <1>4, <3>1
    <3>4. CASE q[i].kind = "marker" /\ place[i] = place[i - 1]
      BY <3>2, <3>4
    <3>5. CASE /\ q[i].kind = "data"
               /\ place[i] = place[i - 1] + Len(q[i].units)
               /\ \A k \in 1..Len(q[i].units) :
                    s[place[i - 1] + k] = q[i].units[k]
      <4>1. q[i] \in Messages
        BY <3>1
      <4>2. q[i].units \in Seq(Units)
        BY <3>5, <4>1 DEF Messages
      <4>3. Len(q[i].units) \in Nat
        BY <4>2
      <4>4. ASSUME NEW k \in 1..Len(q[i].units)
            PROVE  w[place[i - 1] + k] = q[i].units[k]
        <5>1. place[i - 1] + k \in 1..Len(s)
          BY <1>1, <3>3, <3>5, <4>3
        <5>2. QED
          BY <1>3, <3>5, <5>1
      <4>5. QED
        BY <3>2, <3>5, <4>4
    <3>6. QED
      BY <1>4, <3>1, <3>4, <3>5
  <2>3. QED
    BY <2>1, <2>2
<1>8. Placed(p, r, x, w)
  BY <1>2, <1>5, <1>6, <1>7 DEF Placed
<1>9. ASSUME Marked(place, q, t, n) PROVE Marked(p, r, t, n)
  <2>1. ASSUME NEW i \in 1..Len(r), r[i].kind = "marker", r[i].token = t
        PROVE  n <= p[i]
    <3>1. i # a + 1
      BY <1>1, <1>2, <2>1
    <3>2. i \in 1..a /\ i \in 0..a
      BY <1>1, <1>2, <3>1
    <3>3. p[i] = place[i] /\ r[i] = q[i]
      BY <1>2, <1>5, <3>2
    <3>4. QED
      BY <1>9, <2>1, <3>2, <3>3 DEF Marked
  <2>2. QED
    BY <2>1 DEF Marked
<1>10. QED
  BY <1>8, <1>9 DEF r, m, w

\* A marker goes to its end too, where all that was sent has been placed.
LEMMA MarkPlaces ==
  ASSUME NEW place, NEW q \in Seq(Messages), NEW x, NEW s \in Seq(Units),
         NEW t \in 1..MaxCaptures, NEW n \in Nat, Placed(place, q, x, s),
         \A i \in 1..Len(q) : q[i].kind = "marker" => q[i].token # t,
         n <= Len(s)
  PROVE  \E p : /\ Placed(p, Append(q, Marker(t)), x, s)
                /\ Marked(p, Append(q, Marker(t)), t, n)
<1> DEFINE a == Len(q)
           m == Marker(t)
           r == Append(q, m)
           p == [i \in 0..(a + 1) |-> IF i <= a THEN place[i] ELSE Len(s)]
<1>1. /\ a \in Nat /\ Len(s) \in Nat
      /\ m \in Messages /\ m.kind = "marker" /\ m.token = t
  BY DEF Marker, Messages
<1>2. /\ r \in Seq(Messages) /\ Len(r) = a + 1 /\ r[a + 1] = m
      /\ \A i \in 1..a : r[i] = q[i]
  BY <1>1
<1>3. /\ place \in [0..a -> 0..Len(s)] /\ place[0] = Len(x)
      /\ place[a] = Len(s)
      /\ \A i \in 1..a :
           \/ q[i].kind = "marker" /\ place[i] = place[i - 1]
           \/ /\ q[i].kind = "data"
              /\ place[i] = place[i - 1] + Len(q[i].units)
              /\ \A k \in 1..Len(q[i].units) :
                   s[place[i - 1] + k] = q[i].units[k]
  BY DEF Placed
<1>4. /\ p \in [0..(a + 1) -> 0..Len(s)] /\ p[a + 1] = Len(s)
      /\ \A i \in 0..a : p[i] = place[i]
  BY <1>1, <1>3
<1> HIDE DEF p, r, m
<1>5. p[0] = Len(x) /\ p[Len(r)] = Len(s)
  BY <1>1, <1>2, <1>3, <1>4
<1>6. ASSUME NEW i \in 1..Len(r)
      PROVE  \/ r[i].kind = "marker" /\ p[i] = p[i - 1]
             \/ /\ r[i].kind = "data"
                /\ p[i] = p[i - 1] + Len(r[i].units)
                /\ \A k \in 1..Len(r[i].units) :
                     s[p[i - 1] + k] = r[i].units[k]
  <2>1. CASE i = a + 1
    <3>1. i - 1 = a /\ a \in 0..a
      BY <1>1, <2>1
    <3>2. QED
      BY <1>1, <1>2, <1>3, <1>4, <2>1, <3>1
  <2>2. CASE i # a + 1
    <3>1. i \in 1..a /\ i \in 0..a /\ i - 1 \in 0..a
      BY <1>1, <1>2, <2>2
    <3>2. p[i] = place[i] /\ p[i - 1] = place[i - 1] /\ r[i] = q[i]
      BY <1>2, <1>4, <3>1
    <3>3. QED
      BY <1>3, <3>1, <3>2
  <2>3. QED
    BY <2>1, <2>2
<1>7. Placed(p, r, x, s)
  BY <1>2, <1>4, <1>5, <1>6 DEF Placed
<1>8. ASSUME NEW i \in 1..Len(r), r[i].kind = "marker", r[i].token = t
      PROVE  n <= p[i]
  <2>1. CASE i = a + 1
    BY <1>4, <2>1
  <2>2. CASE i # a + 1
    <3>1. i \in 1..a
      BY <1>1, <1>2, <2>2
    <3>2. r[i] = q[i] /\ i \in 1..Len(q)
      BY <1>2, <3>1
    <3>3. QED
      BY <1>8, <3>2
  <2>3. QED
    BY <2>1, <2>2
<1>9. Marked(p, r, t, n)
  BY <1>8 DEF Marked
<1>10. QED
  BY <1>7, <1>9 DEF r, m

\* What xterm shows when it has taken message m.
Taken(x, m) == IF m.kind = "data" THEN x \o m.units ELSE x

\* The message at the head brings xterm to its place.
LEMMA DeliverPlaces ==
  ASSUME NEW place, NEW q \in Seq(Messages), q # <<>>, NEW x, NEW s,
         NEW t, NEW n \in Nat, Placed(place, q, x, s), PrefixOf(x, s)
  PROVE  /\ PrefixOf(Taken(x, Head(q)), s)
         /\ \E p : /\ Placed(p, Tail(q), Taken(x, Head(q)), s)
                   /\ Marked(place, q, t, n) => Marked(p, Tail(q), t, n)
         /\ /\ Marked(place, q, t, n)
            /\ Head(q).kind = "marker" /\ Head(q).token = t
            => n <= Len(x)
<1> DEFINE a == Len(q)
           m == Head(q)
           r == Tail(q)
           y == Taken(x, m)
           p == [i \in 0..(a - 1) |-> place[i + 1]]
<1>1. /\ a \in Nat /\ a >= 1 /\ Len(s) \in Nat /\ Len(x) \in Nat
      /\ x \in Seq(Units) /\ s \in Seq(Units) /\ Len(x) <= Len(s)
      /\ \A k \in 1..Len(x) : x[k] = s[k]
  BY DEF PrefixOf
<1>2. /\ r \in Seq(Messages) /\ Len(r) = a - 1 /\ m = q[1] /\ m \in Messages
      /\ \A i \in 1..(a - 1) : r[i] = q[i + 1]
  BY <1>1, HeadTailProperties
<1>3. /\ place \in [0..a -> 0..Len(s)] /\ place[0] = Len(x)
      /\ place[a] = Len(s)
      /\ \A i \in 1..a :
           \/ q[i].kind = "marker" /\ place[i] = place[i - 1]
           \/ /\ q[i].kind = "data"
              /\ place[i] = place[i - 1] + Len(q[i].units)
              /\ \A k \in 1..Len(q[i].units) :
                   s[place[i - 1] + k] = q[i].units[k]
  BY DEF Placed
<1>4. p \in [0..(a - 1) -> 0..Len(s)] /\ \A i \in 0..(a - 1) : p[i] = place[i + 1]
  <2>1. ASSUME NEW i \in 0..(a - 1) PROVE place[i + 1] \in 0..Len(s)
    BY <1>1, <1>3
  <2>2. QED
    BY <2>1
<1> HIDE DEF p, r, m
<1>5. 1 \in 1..a /\ 1 - 1 = 0 /\ place[1] \in 0..Len(s)
  BY <1>1, <1>3
<1>6. \/ m.kind = "marker" /\ place[1] = Len(x)
      \/ /\ m.kind = "data" /\ place[1] = Len(x) + Len(m.units)
         /\ \A k \in 1..Len(m.units) : s[Len(x) + k] = m.units[k]
  <2> DEFINE j == 1
  <2>1. j \in 1..a /\ j - 1 = 0 /\ m = q[j] /\ place[0] = Len(x) /\ j = 1
    BY <1>2, <1>3, <1>5
  <2> HIDE DEF j
  <2>2. \/ q[j].kind = "marker" /\ place[j] = place[j - 1]
        \/ /\ q[j].kind = "data"
           /\ place[j] = place[j - 1] + Len(q[j].units)
           /\ \A k \in 1..Len(q[j].units) :
                s[place[j - 1] + k] = q[j].units[k]
    BY <1>3, <2>1
  <2>3. QED
    BY <2>1, <2>2
<1>7. PrefixOf(y, s) /\ place[1] = Len(y)
  <2>1. CASE m.kind = "marker"
    BY <1>1, <1>6, <2>1 DEF Taken, PrefixOf
  <2>2. CASE m.kind = "data"
    <3>1. m.units \in Seq(Units) /\ Len(m.units) \in Nat
      BY <1>2, <2>2 DEF Messages
    <3>2. /\ place[1] = Len(x) + Len(m.units)
          /\ \A k \in 1..Len(m.units) : s[Len(x) + k] = m.units[k]
      BY <1>6, <2>2
    <3>3. /\ y \in Seq(Units) /\ Len(y) = Len(x) + Len(m.units)
          /\ \A k \in 1..Len(x) : y[k] = x[k]
          /\ \A k \in 1..Len(m.units) : y[Len(x) + k] = m.units[k]
      BY <1>1, <2>2, <3>1 DEF Taken
    <3>4. ASSUME NEW k \in 1..Len(y) PROVE y[k] = s[k]
      <4>1. CASE k <= Len(x)
        <5>1. k \in 1..Len(x)
          BY <1>1, <4>1
        <5>2. QED
          BY <1>1, <3>3, <5>1
      <4>2. CASE ~(k <= Len(x))
        <5> DEFINE j == k - Len(x)
        <5>1. j \in 1..Len(m.units) /\ k = Len(x) + j
          BY <1>1, <3>1, <3>3, <4>2
        <5> HIDE DEF j
        <5>2. s[Len(x) + j] = m.units[j] /\ y[Len(x) + j] = m.units[j]
          BY <3>2, <3>3, <5>1
        <5>3. QED
          BY <5>1, <5>2
      <4>3. QED
        BY <4>1, <4>2
    <3>5. Len(y) <= Len(s)
      BY <1>5, <3>2, <3>3
    <3>6. QED
      BY <1>1, <3>2, <3>3, <3>4, <3>5 DEF PrefixOf
  <2>3. QED
    BY <1>6, <2>1, <2>2
<1> HIDE DEF y
<1>8. p[0] = Len(y) /\ p[Len(r)] = Len(s)
  <2>1. 0 \in 0..(a - 1) /\ a - 1 \in 0..(a - 1) /\ 0 + 1 = 1
        /\ (a - 1) + 1 = a
    BY <1>1
  <2>2. QED
    BY <1>2, <1>3, <1>4, <1>7, <2>1
<1>9. ASSUME NEW i \in 1..Len(r)
      PROVE  \/ r[i].kind = "marker" /\ p[i] = p[i - 1]
             \/ /\ r[i].kind = "data"
                /\ p[i] = p[i - 1] + Len(r[i].units)
                /\ \A k \in 1..Len(r[i].units) :
                     s[p[i - 1] + k] = r[i].units[k]
  <2>1. /\ i \in 1..(a - 1) /\ i \in 0..(a - 1) /\ i - 1 \in 0..(a - 1)
        /\ i + 1 \in 1..a /\ (i - 1) + 1 = i /\ (i + 1) - 1 = i
    BY <1>1, <1>2
  <2>2. r[i] = q[i + 1] /\ p[i] = place[i + 1] /\ p[i - 1] = place[i]
    BY <1>2, <1>4, <2>1
  <2> DEFINE j == i + 1
  <2>3. j \in 1..a /\ j - 1 = i
    BY <2>1
  <2> HIDE DEF j
  <2>4. \/ q[j].kind = "marker" /\ place[j] = place[j - 1]
        \/ /\ q[j].kind = "data"
           /\ place[j] = place[j - 1] + Len(q[j].units)
           /\ \A k \in 1..Len(q[j].units) :
                s[place[j - 1] + k] = q[j].units[k]
    BY <1>3, <2>3
  <2>5. QED
    BY <2>2, <2>3, <2>4 DEF j
<1>10. Placed(p, r, y, s)
  BY <1>2, <1>4, <1>8, <1>9 DEF Placed
<1>11. ASSUME Marked(place, q, t, n) PROVE Marked(p, r, t, n)
  <2>1. ASSUME NEW i \in 1..Len(r), r[i].kind = "marker", r[i].token = t
        PROVE  n <= p[i]
    <3>1. i \in 1..(a - 1) /\ i \in 0..(a - 1) /\ i + 1 \in 1..a
      BY <1>1, <1>2
    <3>2. r[i] = q[i + 1] /\ p[i] = place[i + 1]
      BY <1>2, <1>4, <3>1
    <3>3. QED
      BY <1>11, <2>1, <3>1, <3>2 DEF Marked
  <2>2. QED
    BY <2>1 DEF Marked
<1>12. ASSUME Marked(place, q, t, n), m.kind = "marker", m.token = t
       PROVE  n <= Len(x)
  <2>1. n <= place[1]
    BY <1>2, <1>5, <1>12 DEF Marked
  <2>2. QED
    BY <1>6, <1>12, <2>1
<1>13. QED
  BY <1>7, <1>10, <1>11, <1>12 DEF y, r, m

\* What the invariant's parts are made of.
LEMMA SyncTypes ==
  IInv => /\ onData \in Seq(Messages) /\ sent \in Seq(Units)
          /\ xterm \in Seq(Units) /\ stream \in Seq(Units)
          /\ capture \in CaptureRecord /\ origin \in Nat /\ shares \in Nat
          /\ capture.sequence \in Nat /\ capture.token \in Nat
          /\ Bound \in Nat
BY DEF IInv, Types, OutputTypes, CaptureType, CaptureRecord, CountTypes, Bound

\* Neither output nor a marker moves: the channel stays as good as it is, if no
\* capture comes to wait for a marker in it.
LEMMA QuietChannel ==
  ASSUME ChannelInv, UNCHANGED <<onData, xterm, sent>>, released => released',
         capture'.pc \in {"replying", "waiting"} /\ Current' =>
           /\ capture.pc \in {"replying", "waiting"} /\ Current
           /\ capture'.token = capture.token /\ Bound' = Bound
  PROVE  ChannelInv'
<1>1. CASE released'
  BY <1>1 DEF ChannelInv
<1>2. CASE ~released'
  <2>1. PICK place :
          /\ Placed(place, onData, xterm, sent)
          /\ capture.pc \in {"replying", "waiting"} /\ Current
               => Marked(place, onData, capture.token, Bound)
    BY <1>2 DEF ChannelInv
  <2>2. capture'.pc \in {"replying", "waiting"} /\ Current'
          => Marked(place, onData', capture'.token, Bound')
    BY <2>1
  <2>3. QED
    BY <2>1, <2>2 DEF ChannelInv
<1>3. QED
  BY <1>1, <1>2

\* The share may begin and end under a capture: what was claimed of it is then
\* claimed no more.
LEMMA QuietShare ==
  ASSUME IInv, SyncInv, UNCHANGED <<onData, xterm, sent, capture>>,
         released => released',
         \/ UNCHANGED <<shared, snapshot, origin, shares>>
         \/ Unshare
         \/ InsertShare
  PROVE  SyncInv'
<1>1. shares \in Nat /\ capture.share \in Nat
  BY DEF IInv, Types, CountTypes, CaptureType, CaptureRecord
<1>2. capture.share <= shares
  BY DEF SyncInv, TokenInv
<1>3. Current' => Current /\ Bound' = Bound
  <2>1. CASE UNCHANGED <<shared, snapshot, origin, shares>>
    BY <2>1 DEF Current, Bound
  <2>2. CASE Unshare
    BY <2>2 DEF Unshare, Current
  <2>3. CASE InsertShare
    BY <1>1, <1>2, <2>3 DEF InsertShare, Current
  <2>4. QED
    BY <2>1, <2>2, <2>3
<1>4. shares <= shares' /\ shares' \in Nat
  BY <1>1 DEF Unshare, InsertShare
<1>5. TokenInv'
  BY <1>1, <1>2, <1>4 DEF SyncInv, TokenInv
<1>6. ChannelInv'
  BY <1>3, QuietChannel DEF SyncInv
<1>7. PictureInv'
  BY <1>3 DEF SyncInv, PictureInv
<1>8. SnapshotInv'
  <2>1. CASE UNCHANGED <<shared, snapshot, origin, shares>>
    BY <2>1 DEF SyncInv, SnapshotInv
  <2>2. CASE Unshare
    BY <2>2 DEF Unshare, SnapshotInv
  <2>3. CASE InsertShare
    <3>1. snapshot' = snapshot /\ shares' = shares + 1
      BY <2>3 DEF InsertShare
    <3>2. ASSUME snapshot # Nothing
          PROVE  snapshot[3] <= shares' /\ snapshot[3] # shares'
      <4>1. snapshot[3] \in Nat
        BY <3>2 DEF IInv, Types, SnapshotType
      <4>2. snapshot[3] <= shares
        BY <3>2 DEF SyncInv, SnapshotInv
      <4>3. QED
        BY <1>1, <3>1, <4>1, <4>2
    <3>3. QED
      BY <3>1, <3>2 DEF SnapshotInv
  <2>4. QED
    BY <2>1, <2>2, <2>3
<1>9. QED
  BY <1>5, <1>6, <1>7, <1>8 DEF SyncInv

\* A capture that begins has a token no marker has.
LEMMA BeginCaptureSync == IInv /\ SyncInv /\ BeginCapture => SyncInv'
<1> SUFFICES ASSUME IInv, SyncInv, BeginCapture PROVE SyncInv'
  OBVIOUS
<1>1. /\ capture' = [Idle(capture.token + 1) EXCEPT !.pc = "requested"]
      /\ UNCHANGED <<onData, xterm, sent, released, shared, snapshot, origin,
                     shares>>
  BY DEF BeginCapture, output, view, share
<1>2. /\ capture'.pc = "requested" /\ capture'.token = capture.token + 1
      /\ capture'.reached = FALSE /\ capture'.share = 0
  BY <1>1 DEF Idle
<1>3. capture.token \in Nat /\ shares \in Nat
  BY SyncTypes
<1>4. TokenInv'
  <2>1. ASSUME NEW i \in 1..Len(onData), onData[i].kind = "marker"
        PROVE  /\ onData[i].token <= capture.token + 1
               /\ onData[i].token # capture.token + 1
    <3>1. onData[i] \in Messages
      BY SyncTypes
    <3>2. onData[i].token \in Nat
      BY <2>1, <3>1, BoundsAssumption DEF Messages
    <3>3. onData[i].token <= capture.token
      BY <2>1 DEF SyncInv, TokenInv
    <3>4. QED
      BY <1>3, <3>2, <3>3
  <2>2. QED
    BY <1>1, <1>2, <1>3, <2>1 DEF TokenInv
<1>5. ChannelInv'
  BY <1>1, <1>2, QuietChannel DEF SyncInv
<1>6. PictureInv' /\ SnapshotInv'
  BY <1>1, <1>2 DEF SyncInv, PictureInv, SnapshotInv
<1>7. QED
  BY <1>4, <1>5, <1>6 DEF SyncInv

\* A capture that ends leaves no claim.
LEMMA EndSync ==
  ASSUME IInv, SyncInv, capture' = Ended,
         UNCHANGED <<onData, xterm, sent, released, shared, origin, shares>>,
         SnapshotInv'
  PROVE  SyncInv'
<1>1. /\ capture'.pc = "idle" /\ capture'.token = capture.token
      /\ capture'.reached = FALSE /\ capture'.share = 0
  BY DEF Ended, Idle
<1>2. TokenInv'
  BY <1>1, SyncTypes DEF SyncInv, TokenInv
<1>3. ChannelInv'
  BY <1>1, QuietChannel DEF SyncInv
<1>4. PictureInv'
  BY <1>1 DEF PictureInv
<1>5. QED
  BY <1>2, <1>3, <1>4 DEF SyncInv

\* The barrier reads the sequence when all that was published has been sent:
\* the gate is free.
LEMMA BarrierReadsSync ==
  IInv /\ Feed!SameFeed /\ SyncInv /\ BarrierReads => SyncInv'
<1> SUFFICES ASSUME IInv, Feed!SameFeed, SyncInv, BarrierReads PROVE SyncInv'
  OBVIOUS
<1>1. UNCHANGED <<onData, xterm, sent, released, shared, snapshot, origin,
                  shares>>
  BY DEF BarrierReads, view, share
<1>2. SnapshotInv'
  BY <1>1 DEF SyncInv, SnapshotInv
<1>3. CASE shared /\ open
  <2>1. capture' = [capture EXCEPT !.pc = "gated", !.share = shares,
                                   !.sequence = Len(stream)]
    BY <1>3 DEF BarrierReads
  <2>2. /\ capture'.pc = "gated" /\ capture'.share = shares
        /\ capture'.token = capture.token
        /\ capture'.reached = capture.reached
        /\ capture'.sequence = Len(stream)
    BY <2>1, SyncTypes DEF CaptureRecord
  <2>3. Bound' = Len(sent)
    <3>1. InGate = <<>>
      BY DEF BarrierReads, GateFree, InGate
    <3>2. sent \o InGate = sent
      BY <3>1, SyncTypes
    <3>3. origin + Len(stream) = Len(sent)
      BY <1>3, <3>2 DEF Feed!SameFeed
    <3>4. QED
      BY <1>1, <2>2, <3>3 DEF Bound
  <2>4. capture.pc = "requested" /\ Len(sent) \in Nat /\ shares \in Nat
    BY SyncTypes DEF BarrierReads
  <2>5. TokenInv'
    BY <1>1, <2>2, <2>4 DEF SyncInv, TokenInv
  <2>6. ChannelInv'
    BY <1>1, <2>2, QuietChannel DEF SyncInv
  <2>7. PictureInv'
    BY <1>1, <2>2, <2>3, <2>4 DEF PictureInv
  <2>8. QED
    BY <1>2, <2>5, <2>6, <2>7 DEF SyncInv
<1>4. CASE ~(shared /\ open)
  <2>1. capture' = Ended
    BY <1>4 DEF BarrierReads
  <2>2. QED
    BY <1>1, <1>2, <2>1, EndSync
<1>5. QED
  BY <1>3, <1>4

\* The marker goes behind all that the snapshot must show.
LEMMA BarrierMarksSync == IInv /\ SyncInv /\ BarrierMarks => SyncInv'
<1> SUFFICES ASSUME IInv, SyncInv, BarrierMarks PROVE SyncInv'
  OBVIOUS
<1>1. /\ UNCHANGED <<xterm, sent, released, shared, snapshot, origin, shares>>
      /\ onData' = Append(onData, Marker(capture.token))
      /\ capture' = [capture EXCEPT !.pc = "replying"]
      /\ capture.pc = "gated"
  BY DEF BarrierMarks, view, share
<1>2. /\ capture'.pc = "replying" /\ capture'.share = capture.share
      /\ capture'.token = capture.token
      /\ capture'.reached = capture.reached
      /\ capture'.sequence = capture.sequence
  BY <1>1, SyncTypes DEF CaptureRecord
<1>3. (Current' <=> Current) /\ Bound' = Bound
  BY <1>1, <1>2 DEF Current, Bound
<1>4. capture.token \in 1..MaxCaptures
  BY <1>1 DEF IInv, Types, CaptureType, CaptureRecord, Capturing
<1>5. /\ Marker(capture.token) \in Messages
      /\ Marker(capture.token).token = capture.token
  BY <1>4 DEF Marker, Messages
<1>6. /\ onData \in Seq(Messages) /\ Len(onData') = Len(onData) + 1
      /\ onData'[Len(onData) + 1] = Marker(capture.token)
      /\ \A i \in 1..Len(onData) : onData'[i] = onData[i]
  BY <1>1, <1>5, SyncTypes
<1>7. TokenInv'
  <2>1. ASSUME NEW i \in 1..Len(onData'), onData'[i].kind = "marker"
        PROVE  onData'[i].token <= capture.token
    <3>1. CASE i = Len(onData) + 1
      BY <1>4, <1>5, <1>6, <3>1
    <3>2. CASE i # Len(onData) + 1
      <4>1. i \in 1..Len(onData)
        BY <1>6, <3>2
      <4>2. onData'[i] = onData[i]
        BY <1>6, <4>1
      <4>3. QED
        BY <2>1, <4>1, <4>2 DEF SyncInv, TokenInv
    <3>3. QED
      BY <3>1, <3>2
  <2>2. QED
    BY <1>1, <1>2, <2>1 DEF SyncInv, TokenInv
<1>8. ChannelInv'
  <2>1. CASE released
    BY <1>1, <2>1 DEF SyncInv, ChannelInv
  <2>2. CASE ~released
    <3>1. PICK place : Placed(place, onData, xterm, sent)
      BY <2>2 DEF SyncInv, ChannelInv
    <3>2. \A i \in 1..Len(onData) :
            onData[i].kind = "marker" => onData[i].token # capture.token
      BY <1>1 DEF SyncInv, TokenInv
    <3>3. CASE Current
      <4>1. Bound <= Len(sent) /\ Bound \in Nat /\ sent \in Seq(Units)
        BY <1>1, <3>3, SyncTypes DEF SyncInv, PictureInv
      <4>2. \E p : /\ Placed(p, onData', xterm, sent)
                   /\ Marked(p, onData', capture.token, Bound)
        BY <1>1, <1>4, <1>6, <3>1, <3>2, <4>1, MarkPlaces
      <4>3. QED
        BY <1>1, <1>2, <1>3, <4>2 DEF SyncInv, ChannelInv
    <3>4. CASE ~Current
      <4>1. 0 <= Len(sent) /\ 0 \in Nat /\ sent \in Seq(Units)
        BY SyncTypes
      <4>2. \E p : Placed(p, onData', xterm, sent)
        BY <1>1, <1>4, <1>6, <3>1, <3>2, <4>1, MarkPlaces
      <4>3. QED
        BY <1>1, <1>3, <3>4, <4>2 DEF SyncInv, ChannelInv
    <3>5. QED
      BY <3>3, <3>4
  <2>3. QED
    BY <2>1, <2>2
<1>9. PictureInv'
  <2>1. ~capture.reached
    BY <1>1 DEF SyncInv, TokenInv
  <2>2. QED
    BY <1>2, <2>1 DEF PictureInv
<1>10. SnapshotInv'
  BY <1>1 DEF SyncInv, SnapshotInv
<1>11. QED
  BY <1>7, <1>8, <1>9, <1>10 DEF SyncInv

\* The reply changes nothing of the claim; the capture takes what xterm shows.
LEMMA CaptureSync == IInv /\ SyncInv /\ (ReplyArrives \/ Capture) => SyncInv'
<1> SUFFICES ASSUME IInv, SyncInv, ReplyArrives \/ Capture PROVE SyncInv'
  OBVIOUS
<1>1. UNCHANGED <<onData, xterm, sent, released, shared, snapshot, origin,
                  shares>>
  BY DEF ReplyArrives, Capture, output, view, share
<1>2. /\ capture'.share = capture.share /\ capture'.token = capture.token
      /\ capture'.reached = capture.reached
      /\ capture'.sequence = capture.sequence
      /\ \/ capture.pc = "replying" /\ capture'.pc = "waiting"
         \/ /\ capture.pc = "waiting" /\ capture'.pc = "storing"
            /\ capture.reached /\ capture'.content = xterm
  BY SyncTypes DEF ReplyArrives, Capture, Reached, CaptureRecord
<1>3. (Current' <=> Current) /\ Bound' = Bound
  BY <1>1, <1>2 DEF Current, Bound
<1>4. TokenInv'
  BY <1>1, <1>2 DEF SyncInv, TokenInv
<1>5. ChannelInv'
  BY <1>1, <1>2, <1>3, QuietChannel DEF SyncInv
<1>6. PictureInv'
  BY <1>1, <1>2, <1>3 DEF SyncInv, PictureInv, ChannelInv
<1>7. SnapshotInv'
  BY <1>1 DEF SyncInv, SnapshotInv
<1>8. QED
  BY <1>4, <1>5, <1>6, <1>7 DEF SyncInv

\* What is stored is what was captured, for the share it was captured for.
LEMMA SetSnapshotSync == IInv /\ SyncInv /\ SetSnapshot => SyncInv'
<1> SUFFICES ASSUME IInv, SyncInv, SetSnapshot PROVE SyncInv'
  OBVIOUS
<1>1. /\ UNCHANGED <<onData, xterm, sent, released, shared, origin, shares>>
      /\ capture.pc = "storing" /\ capture' = Ended
  BY DEF SetSnapshot, output, view
<1>2. CASE snapshot' = snapshot
  BY <1>1, <1>2, EndSync DEF SyncInv, SnapshotInv
<1>3. CASE /\ shared
           /\ snapshot' = <<capture.sequence, capture.content, capture.share>>
  <2>1. /\ snapshot'[1] = capture.sequence /\ snapshot'[2] = capture.content
        /\ snapshot'[3] = capture.share
    BY <1>3
  <2>2. capture.share <= shares /\ PrefixOf(capture.content, sent)
    BY <1>1 DEF SyncInv, TokenInv, PictureInv
  <2>3. capture.share = shares
          => origin + capture.sequence <= Len(capture.content)
    BY <1>1, <1>3 DEF SyncInv, PictureInv, Current, Bound
  <2>4. SnapshotInv'
    BY <1>1, <2>1, <2>2, <2>3 DEF SnapshotInv
  <2>5. QED
    BY <1>1, <2>4, EndSync
<1>4. QED
  BY <1>2, <1>3 DEF SetSnapshot

\* What is sent leaves every marker where it is.
LEMMA SendSync ==
  ASSUME IInv, SyncInv, NEW c \in Seq(Units), Send(c),
         UNCHANGED <<xterm, released, shared, snapshot, origin, shares,
                     capture>>
  PROVE  SyncInv'
<1>1. /\ onData' = Append(onData, DataMessage(c)) /\ sent' = sent \o c
      /\ onData \in Seq(Messages) /\ sent \in Seq(Units)
  BY SyncTypes DEF Send
<1>2. DataMessage(c) \in Messages /\ DataMessage(c).kind = "data"
  BY DEF DataMessage, Messages
<1>3. /\ Len(onData') = Len(onData) + 1
      /\ onData'[Len(onData) + 1] = DataMessage(c)
      /\ \A i \in 1..Len(onData) : onData'[i] = onData[i]
  BY <1>1, <1>2
<1>4. (Current' <=> Current) /\ Bound' = Bound
  BY DEF Current, Bound
<1>5. TokenInv'
  <2>1. ASSUME NEW i \in 1..Len(onData'), onData'[i].kind = "marker"
        PROVE  i \in 1..Len(onData) /\ onData'[i] = onData[i]
    <3>1. i # Len(onData) + 1
      BY <1>2, <1>3, <2>1
    <3>2. QED
      BY <1>1, <1>3, <3>1
  <2>2. QED
    BY <2>1 DEF SyncInv, TokenInv
<1>6. PrefixOf(xterm, sent') /\ Len(sent) <= Len(sent')
  BY <1>1, PrefixGrows DEF SyncInv, ChannelInv
<1>7. ChannelInv'
  <2>1. CASE released
    BY <1>6, <2>1 DEF ChannelInv
  <2>2. CASE ~released
    <3>1. PICK place :
            /\ Placed(place, onData, xterm, sent)
            /\ capture.pc \in {"replying", "waiting"} /\ Current
                 => Marked(place, onData, capture.token, Bound)
      BY <2>2 DEF SyncInv, ChannelInv
    <3>2. \E p : /\ Placed(p, onData', xterm, sent')
                 /\ Marked(place, onData, capture.token, Bound)
                      => Marked(p, onData', capture.token, Bound)
      BY <1>1, <3>1, SendPlaces
    <3>3. QED
      BY <1>4, <1>6, <3>1, <3>2 DEF ChannelInv
  <2>3. QED
    BY <2>1, <2>2
<1>8. PictureInv'
  <2>1. capture.pc = "gated" /\ Current => Bound <= Len(sent')
    <3>1. capture.pc = "gated" /\ Current => Bound <= Len(sent)
      BY DEF SyncInv, PictureInv
    <3>2. Bound \in Nat /\ Len(sent) \in Nat /\ Len(sent') \in Nat
      BY <1>1, SyncTypes
    <3>3. QED
      BY <1>6, <3>1, <3>2
  <2>2. capture.pc = "storing" => PrefixOf(capture.content, sent')
    BY <1>1, PrefixGrows DEF SyncInv, PictureInv
  <2>3. QED
    BY <1>4, <2>1, <2>2 DEF SyncInv, PictureInv
<1>9. SnapshotInv'
  BY <1>1, PrefixGrows DEF SyncInv, SnapshotInv
<1>10. QED
  BY <1>5, <1>7, <1>8, <1>9 DEF SyncInv

\* Both threads send what they hold.
LEMMA FlushSync == IInv /\ SyncInv /\ (FlusherSends \/ WaiterSends) => SyncInv'
<1> SUFFICES ASSUME IInv, SyncInv, FlusherSends \/ WaiterSends PROVE SyncInv'
  OBVIOUS
<1>1. UNCHANGED <<xterm, released, shared, snapshot, origin, shares, capture>>
  BY DEF FlusherSends, WaiterSends, view, share
<1>2. chunk \in Seq(Units) /\ tail \in Seq(Units)
  BY ChunksAre DEF IInv, Types, BufferTypes
<1>3. QED
  BY <1>1, <1>2, SendSync DEF FlusherSends, WaiterSends

\* A marker that arrives finds the webview where it must be.
LEMMA DeliverSync == IInv /\ SyncInv /\ DeliverData => SyncInv'
<1> SUFFICES ASSUME IInv, SyncInv, DeliverData PROVE SyncInv'
  OBVIOUS
<1> DEFINE m == Head(onData)
<1>1. /\ onData # <<>> /\ onData' = Tail(onData)
      /\ UNCHANGED <<sent, released, shared, snapshot, origin, shares>>
  BY DEF DeliverData, share
<1>2. /\ xterm' = IF m.kind = "data" /\ ~released
                  THEN xterm \o m.units ELSE xterm
      /\ capture' = IF /\ m.kind = "marker" /\ ~released
                       /\ capture.pc # "idle" /\ m.token = capture.token
                    THEN [capture EXCEPT !.reached = TRUE] ELSE capture
  BY DEF DeliverData
<1>3. /\ onData \in Seq(Messages) /\ sent \in Seq(Units)
      /\ Len(onData) \in Nat /\ Len(onData) >= 1
      /\ m = onData[1] /\ Len(onData') = Len(onData) - 1
      /\ \A i \in 1..Len(onData') : onData'[i] = onData[i + 1]
  BY <1>1, SyncTypes, HeadTailProperties
<1> HIDE DEF m
<1>4. /\ capture'.pc = capture.pc /\ capture'.token = capture.token
      /\ capture'.share = capture.share
      /\ capture'.sequence = capture.sequence
      /\ capture'.content = capture.content
  BY <1>2, SyncTypes DEF CaptureRecord
<1>5. capture'.reached => \/ capture.reached
                          \/ /\ m.kind = "marker" /\ ~released
                             /\ m.token = capture.token
  BY <1>2
<1>6. (Current' <=> Current) /\ Bound' = Bound
  BY <1>1, <1>4 DEF Current, Bound
<1>7. TokenInv'
  <2>1. ASSUME NEW i \in 1..Len(onData')
        PROVE  i + 1 \in 1..Len(onData) /\ onData'[i] = onData[i + 1]
    BY <1>3
  <2>2. ASSUME capture.pc \in {"requested", "gated"} PROVE ~capture'.reached
    <3>1. 1 \in 1..Len(onData)
      BY <1>3
    <3>2. ~(m.kind = "marker" /\ m.token = capture.token)
      BY <1>3, <2>2, <3>1 DEF SyncInv, TokenInv
    <3>3. QED
      BY <1>5, <2>2, <3>2 DEF SyncInv, TokenInv
  <2>3. QED
    BY <1>1, <1>4, <2>1, <2>2 DEF SyncInv, TokenInv
<1>8. CASE released
  <2>1. xterm' = xterm /\ capture' = capture /\ released'
    BY <1>1, <1>2, <1>8
  <2>2. ChannelInv' /\ PictureInv' /\ SnapshotInv'
    BY <1>1, <1>6, <2>1 DEF SyncInv, ChannelInv, PictureInv, SnapshotInv
  <2>3. QED
    BY <1>7, <2>2 DEF SyncInv
<1>9. CASE ~released
  <2>1. PICK place :
          /\ Placed(place, onData, xterm, sent)
          /\ capture.pc \in {"replying", "waiting"} /\ Current
               => Marked(place, onData, capture.token, Bound)
    BY <1>9 DEF SyncInv, ChannelInv
  <2>2. xterm' = Taken(xterm, m)
    BY <1>2, <1>9 DEF Taken
  <2>3. Bound \in Nat /\ PrefixOf(xterm, sent)
    BY SyncTypes DEF SyncInv, ChannelInv
  <2>4. /\ PrefixOf(xterm', sent)
        /\ \E p : /\ Placed(p, onData', xterm', sent)
                  /\ Marked(place, onData, capture.token, Bound)
                       => Marked(p, onData', capture.token, Bound)
        /\ /\ Marked(place, onData, capture.token, Bound)
           /\ m.kind = "marker" /\ m.token = capture.token
           => Bound <= Len(xterm)
    BY <1>1, <1>3, <2>1, <2>2, <2>3, DeliverPlaces DEF m
  <2>5. ChannelInv'
    BY <1>1, <1>4, <1>6, <2>1, <2>4 DEF ChannelInv
  <2>6. Len(xterm) <= Len(xterm') /\ Len(xterm) \in Nat /\ Len(xterm') \in Nat
    <3>1. m \in Messages
      BY <1>3
    <3>2. CASE m.kind = "data"
      BY <2>2, <3>1, <3>2, SyncTypes DEF Messages, Taken
    <3>3. CASE m.kind # "data"
      BY <2>2, <3>3, SyncTypes DEF Taken
    <3>4. QED
      BY <3>2, <3>3
  <2>7. ASSUME capture.pc \in {"replying", "waiting"}, Current,
               capture'.reached
        PROVE  Bound <= Len(xterm')
    <3>1. CASE capture.reached
      <4>1. Bound <= Len(xterm)
        BY <2>7, <3>1 DEF SyncInv, PictureInv
      <4>2. QED
        BY <2>3, <2>6, <4>1
    <3>2. CASE m.kind = "marker" /\ m.token = capture.token
      <4>1. Bound <= Len(xterm)
        BY <2>1, <2>4, <2>7, <3>2
      <4>2. QED
        BY <2>3, <2>6, <4>1
    <3>3. QED
      BY <1>5, <2>7, <3>1, <3>2
  <2>8. PictureInv'
    BY <1>1, <1>4, <1>6, <2>7 DEF SyncInv, PictureInv
  <2>9. SnapshotInv'
    BY <1>1 DEF SyncInv, SnapshotInv
  <2>10. QED
    BY <1>7, <2>5, <2>8, <2>9 DEF SyncInv
<1>10. QED
  BY <1>8, <1>9

\* Every step keeps snapshot and sequence together.
LEMMA StepSync ==
  IInv /\ Feed!SameFeed /\ SyncInv /\ [Next]_vars => SyncInv'
<1> SUFFICES ASSUME IInv, Feed!SameFeed, SyncInv, [Next]_vars PROVE SyncInv'
  OBVIOUS
<1>1. CASE Read \/ ChildExits \/ ReaderEnds
  BY <1>1, QuietShare DEF Read, ChildExits, ReaderEnds, output, view, share
<1>2. CASE FlusherWakes \/ FlusherStops \/ FlusherTakes \/ FlusherPublishes
  BY <1>2, QuietShare DEF FlusherWakes, FlusherStops, FlusherTakes,
       FlusherPublishes, Publish, output, view, share
<1>3. CASE WaiterWakes \/ WaiterTakes \/ WaiterPublishes \/ WaiterCloses
  BY <1>3, QuietShare DEF WaiterWakes, WaiterTakes, WaiterPublishes, Publish,
       WaiterCloses, output, view, share
<1>4. CASE WaiterSendsExit \/ WaiterUnshares \/ WaiterTakesSession
  BY <1>4, QuietShare DEF WaiterSendsExit, WaiterUnshares,
       WaiterTakesSession, output, view, share
<1>5. CASE BeginShare \/ StopShare
  BY <1>5, QuietShare DEF BeginShare, StopShare, output, view
<1>6. CASE InsertShare
  <2>1. UNCHANGED <<onData, xterm, sent, capture, released>>
    BY <1>6 DEF InsertShare, output, view
  <2>2. QED
    BY <1>6, <2>1, QuietShare
<1>7. CASE DeliverExit \/ ClosePane \/ CloseReturns
  BY <1>7, QuietShare DEF DeliverExit, ClosePane, CloseReturns, output, share
<1>8. CASE CaptureFails
  <2>1. /\ capture' = Ended
        /\ UNCHANGED <<onData, xterm, sent, released, shared, snapshot,
                       origin, shares>>
    BY <1>8 DEF CaptureFails, output, view, share
  <2>2. QED
    BY <2>1, EndSync DEF SyncInv, SnapshotInv
<1>9. CASE UNCHANGED vars
  BY <1>9, QuietShare DEF vars, output, view, share
<1>10. QED
  BY <1>1, <1>2, <1>3, <1>4, <1>5, <1>6, <1>7, <1>8, <1>9, FlushSync,
     BeginCaptureSync, BarrierReadsSync, BarrierMarksSync, CaptureSync,
     SetSnapshotSync, DeliverSync DEF Next, Flusher, Waiter, Barrier

\* Nothing is sent, captured or stored yet.
LEMMA InitSync == Init => SyncInv
<1> SUFFICES ASSUME Init PROVE SyncInv
  OBVIOUS
<1>1. /\ capture.pc = "idle" /\ capture.share = 0 /\ onData = <<>>
      /\ xterm = <<>> /\ sent = <<>> /\ snapshot = Nothing /\ shares = 0
      /\ Len(<<>>) = 0 /\ <<>> \in Seq(Units)
  BY DEF Init, Idle
<1>2. TokenInv /\ PictureInv /\ SnapshotInv
  BY <1>1 DEF TokenInv, PictureInv, SnapshotInv
<1>3. PrefixOf(xterm, sent)
  BY <1>1 DEF PrefixOf
<1>4. Placed([i \in 0..0 |-> 0], onData, xterm, sent)
  BY <1>1 DEF Placed
<1>5. QED
  BY <1>1, <1>2, <1>3, <1>4 DEF SyncInv, ChannelInv

\* A prefix by its elements is a prefix.
LEMMA PrefixIs ==
  ASSUME NEW s, NEW t, PrefixOf(s, t)
  PROVE  IsPrefix(s, t)
<1>1. /\ s \in Seq(Units) /\ t \in Seq(Units) /\ Len(s) <= Len(t)
      /\ \A k \in 1..Len(s) : s[k] = t[k]
  BY DEF PrefixOf
<1>2. SubSeq(s, 1, Len(s)) = SubSeq(t, 1, Len(s))
  BY <1>1
<1>3. QED
  BY <1>1, <1>2 DEF IsPrefix

\* A guest that is given a snapshot and every frame after its sequence misses
\* nothing (snapshot.ts:11-21 with pty/mod.rs:94-124): for every number of
\* shares, captures and abandoned barriers, on Unix and on Windows.
THEOREM SnapshotNotBehind == Spec => []SnapshotComplete
<1>1. Feed!Init => Feed!SameFeed
  BY DEF Feed!Init, Feed!SameFeed
<1>2. IInv /\ SyncInv => SnapshotComplete
  <2> SUFFICES ASSUME IInv, SyncInv, snapshot # Nothing, snapshot[3] = shares
               PROVE  /\ Len(snapshot[2]) >= origin + snapshot[1]
                      /\ IsPrefix(snapshot[2], sent)
    BY DEF SnapshotComplete
  <2>1. /\ origin + snapshot[1] <= Len(snapshot[2])
        /\ PrefixOf(snapshot[2], sent)
    BY DEF SyncInv, SnapshotInv
  <2>2. /\ snapshot[1] \in Nat /\ origin \in Nat
        /\ Len(snapshot[2]) \in Nat
    BY DEF IInv, Types, SnapshotType, CountTypes
  <2>3. QED
    BY <2>1, <2>2, PrefixIs
<1>3. QED
  BY <1>1, <1>2, InitSync, StepSync, FeedKeepsAlike, InitFeed, StepFeed,
     InitInv, StepInv, PTL DEF Spec
=============================================================================
