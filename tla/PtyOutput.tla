------------------------------- MODULE PtyOutput -------------------------------
(***************************************************************************)
(* The way of a local terminal's output, from the shell to xterm and to    *)
(* the guests of a share: the reader, flusher and waiter threads of        *)
(* pty/session.rs, the output gate they share with the snapshot barrier    *)
(* of pty/mod.rs, and the webview that shows the data and captures         *)
(* snapshots (pty-bridge.ts, snapshotBarrier.ts, snapshot.ts).             *)
(*                                                                         *)
(* Abstractions.  Output is a sequence of units numbered in the order the  *)
(* shell wrote them; a read carries one unit and a unit fills one frame of *)
(* the share, so a stream of n frames stands at sequence n.  The share is  *)
(* reduced to its stream and snapshot (HostedSession models the rest).     *)
(* Resizes, which also take the gate and a sequence number, are left to    *)
(* HostedSession.  Snapshots are captured one at a time.  A channel whose  *)
(* webview is gone (a failing send, after which the flusher ends) is not   *)
(* modelled.                                                               *)
(***************************************************************************)
EXTENDS Naturals, SequencesExt

CONSTANTS
  MaxPending,   \* MAX_PENDING, in units
  JoinsReader,  \* does the waiter join the reader (Unix), or wait 50 ms at most
                \* (Windows: the reader may or may not have ended by then)?
  Nothing,      \* no snapshot
  MaxUnits,     \* bound on what the shell writes
  MaxShares,    \* bound on shares of this terminal
  MaxCaptures   \* bound on snapshots captured

ASSUME BoundsAssumption ==
  /\ MaxPending \in Nat \ {0, 1} /\ JoinsReader \in BOOLEAN
  /\ MaxUnits \in Nat /\ MaxShares \in Nat /\ MaxCaptures \in Nat

\* OVERFLOW_NOTICE, written in place of a discarded backlog.
Notice == 0
Units == 0..MaxUnits

DataMessage(c) == [kind |-> "data", units |-> c]
Marker(t)      == [kind |-> "marker", token |-> t]

VARIABLES
  child,      \* has the shell exited?
  open,       \* is the session in PtyState?
  reader, read,        \* the reader thread, and how much it has read
  pending,             \* the buffer between the reader and the flusher
  flusher, chunk,      \* the flusher thread and what it took
  waiter, tail,        \* the waiter thread and what it took
  done,                \* tells the flusher to stop
  gate,                \* who holds output_gate
  onData, onExit,      \* the two channels to the webview
  pane, released, xterm,   \* the pane, pty-bridge's handlers, what xterm shows
  starting,                \* start_host has checked that the session exists
  shared, stream, snapshot,   \* the share of this terminal
  capture,             \* the snapshot being captured
  sent, dropped, origin, shares   \* history

reading == <<child, reader, read, dropped>>
flushing == <<flusher, chunk>>
waiting == <<waiter, tail, done>>
output == <<gate, onData, sent>>
view == <<open, pane, released, onExit, xterm>>
share == <<starting, shared, stream, snapshot, origin, shares>>
vars == <<reading, pending, flushing, waiting, output, view, share, capture>>

\* No capture in progress; t is the last token used.
Idle(t) == [pc |-> "idle", token |-> t, sequence |-> 0, reached |-> FALSE,
            content |-> <<>>, share |-> 0]

Init ==
  /\ child = "running" /\ reader = "reading" /\ read = 0 /\ dropped = {}
  /\ pending = <<>> /\ flusher = "idle" /\ chunk = <<>>
  /\ waiter = "waiting" /\ tail = <<>> /\ done = FALSE
  /\ gate = "free" /\ onData = <<>> /\ onExit = "none"
  /\ open = TRUE /\ pane = "shown" /\ released = FALSE
  /\ xterm = <<>> /\ sent = <<>>
  /\ starting = FALSE /\ shared = FALSE /\ stream = <<>> /\ snapshot = Nothing
  /\ origin = 0 /\ shares = 0 /\ capture = Idle(0)

-----------------------------------------------------------------------------
(* The reader thread *)

OverflowsQuietly(p, u) ==
  IF Len(p) + 1 > MaxPending THEN <<u>> ELSE Append(p, u)
OverflowsLate(p, u) ==
  IF Len(p) > MaxPending THEN <<Notice, u>> ELSE Append(p, u)
\* The buffer after unit u: a full one is discarded whole, with a notice.
Buffered(p, u) ==
  IF Len(p) + 1 > MaxPending THEN <<Notice, u>> ELSE Append(p, u)

Read ==
  /\ reader = "reading" /\ read < MaxUnits
  /\ read' = read + 1
  /\ pending' = Buffered(pending, read + 1)
  /\ dropped' = IF Len(pending) + 1 > MaxPending
                THEN dropped \cup Range(pending) ELSE dropped
  /\ UNCHANGED <<child, reader, flushing, waiting, output, view, share,
                 capture>>

ChildExits ==
  /\ child = "running" /\ child' = "exited"
  /\ UNCHANGED <<reader, read, dropped, pending, flushing, waiting, output,
                 view, share, capture>>

\* End of file, once the shell is gone and what it wrote has been read.
ReaderEnds ==
  /\ reader = "reading" /\ child = "exited" /\ reader' = "ended"
  /\ UNCHANGED <<child, read, dropped, pending, flushing, waiting, output,
                 view, share, capture>>

-----------------------------------------------------------------------------
(* Under the output gate: publish to the share, then send to the webview.  *)

GateOpen == TRUE
GateFree == gate = "free"

Publish(c) ==
  /\ stream' = IF shared THEN stream \o c ELSE stream
  /\ UNCHANGED <<starting, shared, snapshot, origin, shares>>

Send(c) ==
  /\ onData' = Append(onData, DataMessage(c))
  /\ sent' = sent \o c

(* The flusher thread *)

FlusherWakes ==
  /\ flusher = "idle" /\ pending # <<>> /\ flusher' = "coalescing"
  /\ UNCHANGED <<reading, pending, chunk, waiting, output, view, share,
                 capture>>

StopsAtOnce == TRUE
Drained == pending = <<>>

FlusherStops ==
  /\ flusher = "idle" /\ Drained /\ done /\ flusher' = "stopped"
  /\ UNCHANGED <<reading, pending, chunk, waiting, output, view, share,
                 capture>>

\* After the coalescing sleep; the waiter may have emptied the buffer.
FlusherTakes ==
  /\ flusher = "coalescing"
  /\ flusher' = IF pending = <<>> THEN "idle" ELSE "holding"
  /\ chunk' = pending /\ pending' = <<>>
  /\ UNCHANGED <<reading, waiting, output, view, share, capture>>

FlusherPublishes ==
  /\ flusher = "holding" /\ GateFree
  /\ flusher' = "publishing" /\ gate' = "flusher"
  /\ Publish(chunk)
  /\ UNCHANGED <<reading, pending, chunk, waiting, onData, sent, view,
                 capture>>

FlusherSends ==
  /\ flusher = "publishing"
  /\ flusher' = "idle" /\ chunk' = <<>> /\ gate' = "free"
  /\ Send(chunk)
  /\ UNCHANGED <<reading, pending, waiting, view, share, capture>>

Flusher == FlusherWakes \/ FlusherStops \/ FlusherTakes \/ FlusherPublishes
             \/ FlusherSends

-----------------------------------------------------------------------------
(* The waiter thread *)

WaiterWakes ==
  /\ waiter = "waiting" /\ child = "exited" /\ waiter' = "joining"
  /\ UNCHANGED <<reading, pending, flushing, tail, done, output, view, share,
                 capture>>

\* On Windows the wait for the reader is given up after 50 ms; a timeout is not
\* a fact about the reader, so either outcome is possible at any time.
Joined == JoinsReader => reader = "ended"

WaiterTakes ==
  /\ waiter = "joining" /\ Joined
  /\ waiter' = IF pending = <<>> THEN "closing" ELSE "holding"
  /\ tail' = pending /\ pending' = <<>>
  /\ UNCHANGED <<reading, flushing, done, output, view, share, capture>>

WaiterPublishes ==
  /\ waiter = "holding" /\ GateFree
  /\ waiter' = "publishing" /\ gate' = "waiter"
  /\ Publish(tail)
  /\ UNCHANGED <<reading, pending, flushing, tail, done, onData, sent, view,
                 capture>>

WaiterSends ==
  /\ waiter = "publishing"
  /\ waiter' = "closing" /\ tail' = <<>> /\ gate' = "free"
  /\ Send(tail)
  /\ UNCHANGED <<reading, pending, flushing, done, view, share, capture>>

\* The flusher is told to stop ...
WaiterCloses ==
  /\ waiter = "closing" /\ waiter' = "exiting" /\ done' = TRUE
  /\ UNCHANGED <<reading, pending, flushing, tail, output, view, share,
                 capture>>

\* ... the webview of the exit, on a channel of its own ...
WaiterSendsExit ==
  /\ waiter = "exiting" /\ waiter' = "unsharing" /\ onExit' = "sent"
  /\ UNCHANGED <<reading, pending, flushing, tail, done, output, open, pane,
                 released, xterm, share, capture>>

Unshare ==
  /\ shared' = FALSE /\ stream' = <<>> /\ snapshot' = Nothing /\ origin' = 0
  /\ UNCHANGED <<starting, shares>>

\* ... and the share, if there is one, ends: CollabState::terminal_exited.
WaiterUnshares ==
  /\ waiter = "unsharing" /\ waiter' = "taking" /\ Unshare
  /\ UNCHANGED <<reading, pending, flushing, tail, done, output, view,
                 capture>>

\* Only now does the session leave PtyState.
WaiterTakesSession ==
  /\ waiter = "taking" /\ waiter' = "ended" /\ open' = FALSE
  /\ UNCHANGED <<reading, pending, flushing, tail, done, output, pane,
                 released, onExit, xterm, share, capture>>

Waiter == WaiterWakes \/ WaiterTakes \/ WaiterPublishes \/ WaiterSends
            \/ WaiterCloses \/ WaiterSendsExit \/ WaiterUnshares
            \/ WaiterTakesSession

-----------------------------------------------------------------------------
(* Sharing.  Neither call takes the gate: a share may begin or end between *)
(* a chunk's publication and its sending.                                  *)

InGate == CASE gate = "flusher" -> chunk
            [] gate = "waiter"  -> tail
            [] OTHER            -> <<>>

\* collab_host_start looks the terminal up, then start_host inserts the share.
\* In between the terminal may end, but no other of the webview's calls runs:
\* the commands that are not async run one at a time, on the main thread.
BeginShare ==
  /\ ~starting /\ ~shared /\ open /\ shares < MaxShares
  /\ starting' = TRUE
  /\ UNCHANGED <<reading, pending, flushing, waiting, output, view, shared,
                 stream, snapshot, origin, shares, capture>>

InsertShare ==
  /\ starting /\ starting' = FALSE
  /\ shared' = TRUE /\ shares' = shares + 1
  /\ origin' = Len(sent) + Len(InGate)
  /\ UNCHANGED <<reading, pending, flushing, waiting, output, view, stream,
                 snapshot, capture>>

StopShare ==
  /\ shared /\ Unshare
  /\ UNCHANGED <<reading, pending, flushing, waiting, output, view, capture>>

-----------------------------------------------------------------------------
(* Capturing a snapshot: synchronizeHostedTerminalSnapshot *)

\* An ended capture leaves only its token behind.
Ended == Idle(capture.token)

BeginCapture ==
  /\ shared /\ capture.pc = "idle" /\ capture.token < MaxCaptures
  /\ capture' = [Idle(capture.token + 1) EXCEPT !.pc = "requested"]
  /\ UNCHANGED <<reading, pending, flushing, waiting, output, view, share>>

\* send_collab_snapshot_barrier: the sequence, and a marker in the data
\* channel, under the gate.
BarrierReads ==
  /\ capture.pc = "requested" /\ ~starting /\ GateFree
  /\ IF shared /\ open
     THEN /\ capture' = [capture EXCEPT !.pc = "gated", !.share = shares,
                                       !.sequence = Len(stream)]
          /\ gate' = "barrier"
     ELSE capture' = Ended /\ UNCHANGED gate
  /\ UNCHANGED <<reading, pending, flushing, waiting, onData, sent, view,
                 share>>

BarrierMarks ==
  /\ capture.pc = "gated"
  /\ capture' = [capture EXCEPT !.pc = "replying"] /\ gate' = "free"
  /\ onData' = Append(onData, Marker(capture.token))
  /\ UNCHANGED <<reading, pending, flushing, waiting, sent, view, share>>

\* The call's reply and the data channel are not ordered.
ReplyArrives ==
  /\ capture.pc = "replying"
  /\ capture' = [capture EXCEPT !.pc = "waiting"]
  /\ UNCHANGED <<reading, pending, flushing, waiting, output, view, share>>

\* The barrier timed out, or the terminal is not rendered.
CaptureFails ==
  /\ capture.pc = "waiting"
  /\ capture' = Ended
  /\ UNCHANGED <<reading, pending, flushing, waiting, output, view, share>>

ReachedAtOnce == TRUE
Reached == capture.reached

\* Both have arrived: serialize what has been written to xterm by now.
Capture ==
  /\ capture.pc = "waiting" /\ Reached
  /\ capture' = [capture EXCEPT !.pc = "storing", !.content = xterm]
  /\ UNCHANGED <<reading, pending, flushing, waiting, output, view, share>>

\* setHostedSnapshot, which the session may refuse.
SetSnapshot ==
  /\ capture.pc = "storing" /\ ~starting
  /\ capture' = Ended
  /\ snapshot' =
       IF /\ shared /\ capture.sequence <= Len(stream)
          /\ snapshot = Nothing \/ capture.sequence >= snapshot[1]
       THEN <<capture.sequence, capture.content, capture.share>> ELSE snapshot
  /\ UNCHANGED <<reading, pending, flushing, waiting, output, view, starting,
                 shared, stream, origin, shares>>

-----------------------------------------------------------------------------
(* The webview.  A message whose handlers are gone is ignored, and so is   *)
(* the marker of a capture that is over.                                   *)

DeliverData ==
  /\ onData # <<>>
  /\ LET m == Head(onData)
     IN /\ xterm' = IF m.kind = "data" /\ ~released
                    THEN xterm \o m.units ELSE xterm
        /\ capture' = IF /\ m.kind = "marker" /\ ~released
                         /\ capture.pc # "idle" /\ m.token = capture.token
                      THEN [capture EXCEPT !.reached = TRUE] ELSE capture
  /\ onData' = Tail(onData)
  /\ UNCHANGED <<reading, pending, flushing, waiting, gate, sent, open, pane,
                 released, onExit, share>>

DeliverExit ==
  /\ onExit = "sent" /\ onExit' = "delivered" /\ released' = TRUE
  /\ UNCHANGED <<reading, pending, flushing, waiting, output, open, pane,
                 xterm, share, capture>>

\* The pane's close: pty_close stops the share and kills the shell (which may
\* exit at any time here); the handlers go when the call returns.
ClosePane ==
  /\ pane = "shown" /\ ~starting /\ pane' = "closing"
  /\ open' = FALSE /\ Unshare
  /\ UNCHANGED <<reading, pending, flushing, waiting, output, released, onExit,
                 xterm, capture>>

CloseReturns ==
  /\ pane = "closing" /\ pane' = "closed" /\ released' = TRUE
  /\ UNCHANGED <<reading, pending, flushing, waiting, output, open, onExit,
                 xterm, share, capture>>

-----------------------------------------------------------------------------
Barrier == BarrierReads \/ BarrierMarks

Next ==
  \/ Read \/ ChildExits \/ ReaderEnds
  \/ Flusher \/ Waiter
  \/ BeginShare \/ InsertShare \/ StopShare
  \/ BeginCapture \/ Barrier \/ ReplyArrives \/ CaptureFails \/ Capture
  \/ SetSnapshot
  \/ DeliverData \/ DeliverExit \/ ClosePane \/ CloseReturns

Spec == Init /\ [][Next]_vars

\* The three threads that own the gate in turn keep running; the shell, the
\* reader and the webview need not do anything.
FairSpec ==
  /\ Spec
  /\ WF_vars(Flusher) /\ WF_vars(Waiter) /\ WF_vars(Barrier)

-----------------------------------------------------------------------------
(* Properties *)

\* Every variable has its type, and no chunk is longer than MAX_PENDING.
TypeOK ==
  /\ child \in {"running", "exited"} /\ reader \in {"reading", "ended"}
  /\ open \in BOOLEAN /\ starting \in BOOLEAN
  /\ read \in 0..MaxUnits /\ dropped \subseteq Units
  /\ {pending, chunk, tail} \subseteq BoundedSeq(Units, MaxPending)
  /\ flusher \in {"idle", "coalescing", "holding", "publishing", "stopped"}
  /\ waiter \in {"waiting", "joining", "holding", "publishing", "closing",
                 "exiting", "unsharing", "taking", "ended"}
  /\ done \in BOOLEAN /\ released \in BOOLEAN /\ shared \in BOOLEAN
  /\ pane \in {"shown", "closing", "closed"}
  /\ gate \in {"free", "flusher", "waiter", "barrier"}
  /\ onData \in Seq([kind : {"data"}, units : Seq(Units)]
                      \cup [kind : {"marker"}, token : 1..MaxCaptures])
  /\ onExit \in {"none", "sent", "delivered"}
  /\ xterm \in Seq(Units) /\ sent \in Seq(Units) /\ stream \in Seq(Units)
  /\ origin \in Nat /\ shares \in 0..MaxShares
  /\ snapshot = Nothing \/ snapshot \in Nat \X Seq(Units) \X (1..MaxShares)
  /\ capture \in [pc : {"idle", "requested", "gated", "replying", "waiting",
                        "storing"},
                  token : 0..MaxCaptures, sequence : Nat, reached : BOOLEAN,
                  content : Seq(Units), share : 0..MaxShares]

\* Host and guests are fed the same chunks in the same order, whichever thread
\* flushes them and whenever a share begins or ends: under the gate, publishing
\* and sending are one step of TerminalFeed.
Feed == INSTANCE TerminalFeed WITH
          Chunk <- BoundedSeq(Units, MaxPending) \ {<<>>},
          host <- sent \o InGate, guests <- stream
FeedSpec == Feed!Spec

\* What is sent, being flushed and waiting to be flushed.
Flow == sent \o chunk \o pending

\* Backpressure never leaves a silent hole while the shell runs: until the waiter
\* takes what is left, each unit follows its predecessor or a notice that output
\* was dropped.  (From then on two threads flush, and may do so in either order.)
NoSilentGap ==
  waiter \in {"waiting", "joining"} =>
    \A i \in DOMAIN Flow :
      \/ Flow[i] = Notice
      \/ i = 1 /\ Flow[i] = 1
      \/ i > 1 /\ Flow[i - 1] \in {Notice, Flow[i] - 1}

\* A guest that is given a snapshot and every frame after its sequence misses
\* nothing: the snapshot shows at least what was sent before the barrier.  (For
\* a snapshot whose barrier belongs to the share that stores it.)
SnapshotComplete ==
  snapshot # Nothing /\ snapshot[3] = shares =>
    /\ Len(snapshot[2]) >= origin + snapshot[1]
    /\ IsPrefix(snapshot[2], sent)

\* All output that is read while the flusher runs reaches the webview's channel
\* or is dropped with a notice, around the exit, too, and whoever flushes it.
\* Where the waiter joins the reader (Unix) that is all output: nothing is read
\* once the flusher may stop.  Where it gives up on the reader (Windows), what
\* is read after the flusher's end is not covered; LastLineSent says so.
ReadIsSent ==
  \A u \in 1..MaxUnits :
    u <= read /\ flusher # "stopped" ~> u \in Range(sent) \cup dropped

\* pty/session.rs:587-588: "Wait for the reader to hit EOF before taking a final
\* snapshot of `pending`, so the last line of output never races the Exit
\* event."  All output that is read is sent in the end, then.
LastLineSent ==
  \A u \in 1..MaxUnits : u <= read ~> u \in Range(sent) \cup dropped

\* The same lines: once the exit is sent, so is all output that has been read.
ExitAfterOutput ==
  onExit # "none" => \A u \in 1..read : u \in Range(sent) \cup dropped

\* docs/architecture/terminal-collaboration.md:15: the host "sends new guests
\* the snapshot followed only by newer output".
OnlyNewerFollows ==
  snapshot # Nothing /\ snapshot[3] = shares =>
    Len(snapshot[2]) <= origin + snapshot[1]
=============================================================================
