# Verification of Voktty

Voktty is a terminal workspace: a Tauri application whose Rust side owns PTYs,
SSH connections, helpers and files, and whose webview renders terminals,
editors and conversations with coding agents; a separate Node process, the
agent host, runs those agents for any number of desktops. This directory holds
TLA+ modules that model the concurrent parts of it, TLC configurations that
check small instances of them, and TLAPS proofs for every value of their
constants. The models are translated from the source; the documents
(`docs/architecture/*.md`, the ADRs) and comments are only quoted where a
property states what they promise. Paths below omit the prefix
`src-tauri/src/modules/` for Rust and `src/modules/` for TypeScript; `host/` is
the top-level directory of the agent host.

Contents: 1 the system, 2 the plan, 3 the modules, 4 the runs, 5 what the runs
disagree with, 6 the proofs, 7 fairness, 8 what is left out.

## 1. The system

### 1.1 Terminal collaboration

A host shares one terminal; guests watch it, resume after a lost connection,
and one of them at a time may be granted the keyboard.

```
 shell -> reader -> pending -> flusher/waiter =(output gate)=> webview (xterm)
                                              \=> HostedSession
                                                     |  one bounded queue per guest
                                                     v
                                               connection thread = socket = guest worker -> guest view
```

| Component | State it keeps | Operations | Talks to |
| --- | --- | --- | --- |
| Output pipeline, `pty/session.rs`, `pty/mod.rs` | `pending` buffer, `done` flag, output gate, exit code | read, coalesce and flush, final flush, exit; snapshot barrier | webview by two channels; registry under the gate |
| Registry of shares, `collab/state.rs` | map from PTY to session and server, active-session count, published URL | start, stop, publish, output, resize, exit, stop all | sessions; pipeline; Tauri commands |
| Hosted session, `collab/session.rs` | participants with role and input sequence, controller, nonces, bans, stream sequence, replay window, snapshot, grid | join, leave, grant, request, release, remove, ban, authorize input, publish output, resize and exit, set snapshot, close | one bounded queue per participant (`try_send`) |
| Connection threads, `collab/server.rs` | socket, cipher, receiving end of one queue | accept, join, welcome and replay, drain the queue, read, leave | session; PTY writer |
| Guest connection, `collab/guest.rs` | worker thread, last frame applied, input sequence, command queue, commands kept while reconnecting | connect, write, request, release, close; reconnect with backoff | socket; webview by three channels |
| Guest view, `collab/lib/guestRuntime.ts` | status, role, participant id | apply control, status and exit events; gate the keyboard on the role | worker, by commands |
| Snapshot capture, `collab/lib/snapshot.ts`, `terminal/lib/snapshotBarrier.ts`, `terminal/lib/rendererPool.ts` | pending barrier token, the terminal's picture | ask for a barrier, wait for its marker, serialize xterm, store | pipeline; registry |

What is hard, and the properties that make each part correct:

- *Session*: a broadcast that finds a full queue removes that participant in the
  middle of another operation, perhaps the very participant being granted
  control. Correct: the controller named and the roles in the records agree
  (`ControllerCoherent`), everyone's notices end at the role enforced
  (`RoleNoticesConverge`), nothing follows a farewell (`NothingAfterClosed`), a
  nonce admits once (`NonceAdmitsOnce`), the window is ordered and its byte
  count exact (`ReplayOrdered`, `ReplayBytesExact`).
- *Session and threads*: replay, snapshot and live queue are three sources that
  must join without gap (`StreamIntact`), also the grid (`GridConverges`);
  whoever is removed ends although its farewell may not fit the queue
  (`RevokedIsDisconnected`).
- *Pipeline*: two threads flush one buffer to two audiences, a barrier reads a
  position in between, the backlog overflows, the shell exits under a share.
  Correct: both audiences get one stream (`FeedSpec`), losses are announced
  (`NoSilentGap`), what is read while the flusher runs is sent (`ReadIsSent`), a
  snapshot is never behind its sequence (`SnapshotComplete`).
- *Guest*: sockets fail anywhere and commands are kept across reconnections.
  Correct: what comes next always continues where the guest stopped
  (`NothingSkipped`), typed input reaches the shell once and in order
  (`InputOnceInOrder`), the guest of a closed share ends (`CloseEndsGuest`).

### 1.2 The agent host and its tabs

The agent host keeps conversations with coding agents; desktops command it over
HTTP and poll what it holds.

```
 tab: outbox (localStorage) --command--> host: receipt + session (SQLite)
      known transcript      <---sync---        live copy, timer <-events- provider process
```

| Component | State it keeps | Operations | Talks to |
| --- | --- | --- | --- |
| Store, `host/store.ts` | sessions, receipts, projects in SQLite; a revision per session, stamps per block | accept (command and effect in one transaction), save, sync since a revision | engine |
| Engine, `host/engine.ts`, `harness/apply.ts` | running turns, live copies with a write timer, titles being generated, projects being switched, a closing flag | create, send, draft, configure, compact, approve, answer, cancel; events in batches; settle and its retry; rename, delete, title, branch switch; close, start | store; provider |
| Tab, `connections/ui/RemoteSession.tsx`, `connections/model` | outbox and binding in localStorage, the request under way, the transcript it knows, a poll under way, the turn shown as started | submit, retry, try again, restart; poll and take the answer | host, by HTTP |

What is hard, and the properties that make each part correct:

- *Commands*: the host may die between accepting a turn and ending it, an answer
  may be lost, two desktops may decide on one approval. Correct: a command takes
  effect at most once and a closed turn stays closed (`LedgerSpec`), exactly the
  decision shown is the one told to the provider (`DecisionTold`).
- *Turns*: a write of events fails, a settlement fails and is retried by a timer
  that the end of the process may clear, a follow-up arrives while the old
  process is still being stopped. Correct: output is kept (`OutputKept`), the
  live copy is never behind the store (`LiveIsCurrent`), a new turn waits for the
  old process (`StoppedBeforeNext`), a branch is switched at rest
  (`CheckoutIdle`), nothing of a turn that is over goes on (`QuietWhenOver`),
  turns and shutdowns end (`TurnsEnd`, `CloseEnds`).
- *Tab*: nobody knows whether a failed request was carried out; a conversation is
  begun by two commands with a restart possible between them; polls overtake each
  other; a turn is shown before the host has it. Correct: a command stays in the outbox until its fate is known
  (`NothingForgotten`), so does the message behind it (`FollowupKept`), at the
  host's revision the tab shows the host's transcript (`TranscriptFaithful`), and
  it gets there (`CatchesUp`), and what is shown as started was accepted or is
  under way (`StartedIsAccepted`).

### 1.3 Workspace edits

`crates/voktty-workspace-edit` with the dialog of `workspace-edit/`: a rename or
a global replacement is previewed (text and mtime of each file), confirmed for
some files, validated, and written file by file: recheck, write, rename, verify.
On a failure what was written is taken back in reverse, each file only if it
still holds what was written (ADR-002, ADR-004). What is hard: other programs
write the same files in any of those gaps, any read or write fails, and equal
mtimes or equal texts are not identity. Correct: a text of another program is
lost only in the window ADR-002:52 documents, between the last read of a file
and the rename that follows (`ForeignKept`), and what the dialog is told is true
of the disk (`OutcomeTrue`).

### 1.4 The other parts

| Part | What is hard about it | Why it is not modelled |
| --- | --- | --- |
| Registry's counters and publication, `collab/state.rs`, `collab/mod.rs` | start, publish, stop all and exit update map, counter and URL in separate steps | a small module of its own would add little: section 8 says what reading it shows |
| SSH remote helper, `remote.rs`, `crates/voktty-remote` | replies against closure of the channel, PTY ids registered before they are opened (ADR-001) | a protocol of its own, and the next candidate to be modelled |
| Renderer pool, `terminal/lib/rendererPool.ts` | a slot taken over while an asynchronous restore is under way | interleavings of one event loop over xterm's own state, which is a library's |
| Spaces, launch and session store, `spaces`, `launcher`, `launch.rs` | window closed before the debounce | the order of the window's last events is the platform's |
| MCP client; language servers and debug adapters; SSH, SFTP, tunnels; companion pairing; shell background; file watchers; wake core | process lifetimes, correlation of requests, reference counts | each a component of its own beside those above, not surveyed in depth |
| Join authentication, encryption, wire protocol | HMAC proof, directional counters, encoders | cryptography and encoding: tests reach them, a model checker does not |
| File citations, tunnel process, git, vault, harness, quota, docker, serial, RDP, web server, API client, CLI, window, tray, views | adapters and user interface | I/O and parsing; no protocol of their own |

`PROJECT.json` lists all of them with their files, and every hazard at its line.

## 2. The plan

Order: the session first, because every promise of the collaboration feature is
kept or broken under its mutex; then what feeds it, then what listens to it; then
the agent host, whose promises survive crashes, and the tab that relies on them;
then the edits, where data of others is at stake.

| Module | Models | Composes, or is related to | State |
| --- | --- | --- | --- |
| `HostedSession` | one session and its connection threads | - | checked, proved |
| `TerminalFeed` | what sharing promises of the output | abstract specification | - |
| `PtyOutput` | output threads, gate, barrier, webview, share | implements `TerminalFeed` | checked, proved |
| `SharedTerminal` | what a share promises its guest | abstract specification | - |
| `GuestLink` | a guest's worker, view and sockets | extends `HostedSession`, implements it and `SharedTerminal` | checked, proved |
| `SessionStore` | a session as stored, and what commands, events and endings make of it | operators only | - |
| `CommandLedger` | what the agent host promises of commands | abstract specification | - |
| `HostEngine` | the agent host | extends `SessionStore`, implements `CommandLedger` | checked, proved |
| `RemoteSession` | a desktop's tab over lossy requests | extends `HostEngine`, implements it | checked, proved |
| `ReviewedEdit` | what an edit of several files promises the user who reviews it | abstract specification | - |
| `EditTransaction` | preview, confirmation, commit and rollback of an edit | implements `ReviewedEdit` | checked, proved |
| `CollabHosts`, `RemoteMux`, `RendererSlots`, `SpaceStore` | see 1.4 and 8 | - | not written |

One run for each module's safety and, where the code's scheduling justifies
fairness, its liveness; one for each disagreement met while modelling. Bounds:
two actors of each kind, two items, queues of one or two, one failure more than
the code retries; larger where a property needs three events to break. Theorems:
for each module its types, then its invariants in the order of what a reader
would miss most, then the refinements.

## 3. The modules

Common conventions: definitions keep the source's names in TLA+ case;
`PROJECT.json` maps each to its lines. Every bound is a constant whose comment
says so: `MaxSequence`, `MaxInput`, `MaxUnits`, `MaxShares`, `MaxCaptures`,
`WireCapacity`, `MaxIssued`, `MaxFaults`, `MaxCrashes`, `MaxEvents`, `MaxLosses`,
`MaxVersions`, `MaxPreviews`. Constants named after the code's limits
(`OUTBOUND_QUEUE` and the like) are small instances of those.

### 3.1 `HostedSession`

Each public method of `HostedSession` runs under one mutex, so it is one action,
with the `broadcast` it ends in. `broadcast` is `Broadcast`: `TrySend` puts the
message on every queue that has room, whoever has none (`Lagged`) leaves
`participants`, and `controllerId` is cleared if it was among them
(`WithoutLagged`), exactly as lines 609-625 do, without telling anyone. A
participant is an id whose `phase` says how far its connection thread is:
`absent`, `joined` (accepted, the answer not yet written), `replaying` (the
replay is being written), `running`, `dropped`. The thread's steps are
`SendJoined`, `SendReplay`, `Forward`, `Finish`, and the failures `WelcomeFails`
(an early return that skips `leave`) and `SocketEnds`. `view` is what the guest
has been shown: last sequence, grid, own role. Dropping a sender leaves what is
queued readable, so `Disconnected` asks for an empty queue *and* no participant.

Terminal payloads are lengths, grids model values; `gridLog` records the grid
after each frame, so that a snapshot can only carry a grid the terminal had.
`XtermAhead = TRUE` lets a snapshot carry xterm's grid before the PTY's resize
(debounced in the webview) has been published.

### 3.2 `TerminalFeed` and `PtyOutput`

`TerminalFeed` is the promise: output is fed to host and guests at once, from the
start of a share on. `PtyOutput` is what runs. Reader: `Read` appends to
`pending` or, on overflow, replaces the backlog by `Notice`. Flusher: wakes,
coalesces, takes the buffer (`FlusherTakes`), then under the gate publishes and
sends. Waiter: after the child's exit it joins the reader (on Unix) or gives up
on it after 50 ms (on Windows), takes the tail, does the same under the gate,
then sets `done`, sends the exit, removes the share and the session. With
`JoinsReader` false the waiter may go on at any time, whether the reader has ended
or not: a timeout is not a fact about the reader. Every behaviour with
`JoinsReader` true is one of those, too, so `pty_output` covers both platforms. Barrier: under the gate it
reads the share's sequence and puts a marker on the data channel; the webview
asks, waits for the reply *and* the marker (`Reached`), then serializes xterm
and stores the picture under that sequence. `onData` is the channel; `xterm`
what the webview has applied. Units are numbered in the order they were
written. The refinement maps the feed's `host` to `sent \o InGate`: a chunk that
has been published under the gate and not yet sent counts as fed.

### 3.3 `SharedTerminal` and `GuestLink`

Extends `HostedSession` and uses its actions unchanged on the host's side. Every
connection of the guest is a new participant with a nonce of its own. `pc` is
where the worker is (`opening`, `joining`, `running`, `waiting`, `ended`):
`OpenSocket` is the session's `Join` with `resume_after`; `ReadJoined` the
answer; `SendCommand`, `ReadFrame`, `ReadControl` one turn of
`run_connected_guest`; `KeepCommand`, `CloseWhileWaiting`, `WaitOver` the pause
before the next attempt; `OpenFails` counts an attempt. `down` and `up` are the
two directions of each socket. `Cut` makes a socket fail: everything in it is
lost, in both directions, while neither end knows (`SendFails` and `ReadFails`
are how the guest learns, `HostNotices` how the host does; a send on a failed
socket may also seem to work). `shown` is `guestRuntime`'s view; the answer to
the connect call (`Welcomed`) may arrive after any number of the worker's
events. `written` records which inputs reached the PTY.

`SharedTerminal` is the promise: frames are applied one by one, only a captured
screen may stand for those before it, and only first on a connection; what is
typed enters the shell in order, at most once and under control; nothing is
published, granted or entered once the share is closed. The refinement maps its
`feed` to what the guest's connection brings next (`FeedOf`): a screen while one
is in the socket or in the line of the participant behind it, a stream
otherwise, nothing when the socket has failed or the worker holds none. Session,
sockets, queues, replay window and the worker's attempts have no counterpart
there.

### 3.4 `SessionStore`, `CommandLedger` and `HostEngine`

`SessionStore` is the pure part: a stored session is a record of status, latest
run, question, title and author of the settings, a function from block ids to
blocks (a block is a mark and a number of deltas), a revision and a stamp per
block. `Written` is `save` (the revision rises, `BlockRevisions` stamps what
differs); `Applied`, `WithEvent`, `Ended` are what a command, an event of the
provider and the end of a turn make of it; `Sync` is what a client is answered.

`HostEngine` has one action for each synchronous stretch of the event loop:
`Create`, `Accept`, `Refuse`, `TurnAway` are `command()`; `CallProvider` the
microtask that calls `provider.send`; `Event` and `FlushTimer` the batches;
`SendReturns`, `Settle`, `Finish`, `RetryFires`, `FinishRetry` the end of a turn,
with the `finally` of `run()` and the retry timer; `Rename`, `Delete`,
`TitleArrives`, `NoTitle` the side paths; `BeginSwitch`, `EndSwitch` the branch;
`BeginClose`, `Exit`, `Crash`, `Start` the process. A transaction succeeds or
fails as a whole; a failed one throws, and what the code has then changed in
memory stays changed. The provider is external: it emits while its process
lives, and `provider.stop` ends it or rejects. `effects` and `given` are history
variables: how often a command reached a provider, how many deltas were taken.

`CommandLedger` is the promise in three variables: accepted commands, open turns,
effects. The refinement maps the receipts, the turns the store calls running,
and `effects`.

### 3.5 `RemoteSession`

Extends `HostEngine`: other desktops use the host's actions as they are, the tab
reaches it by `Serve`, while the command is on the `wire`. `Submit` is `submit`;
`Retry` and `TryAgain` the two buttons. Each saves the command to localStorage
before it is sent, and the save may fail: `SaveFails` for `submit` and Try again,
`RetryUnsaved` for Retry, whose command stays in the outbox. `Begun`,
`Confirmed`, `Rejected`, `Fails` are what `run()` does with an answer, among them
the second command of a conversation begun with a message; when the save of that
one fails after the receipt, the create stays, as after a failed request
(`Fails`). `AfterFailure` marks the turn shown as started, unless Retry sent it
(`retried`). `Restart` reloads the app from localStorage. A request may
fail with the host never, already, or still about to carry it out. `PollAsks` to
`PollFails` are the poll: what the tab knew when it asked is part of the answer's
meaning, for the host sends only what changed since.

### 3.6 `ReviewedEdit` and `EditTransaction`

A text is a version that some program has written and how often the edits have
been applied to it; a file has a text and an mtime. `phase` is where the dialog
and the transaction are, `left` the files the phase has still to deal with, in
the order of their paths, in reverse when undoing. `Validate`, `Check`, `Write`,
`Verify` are the commit, `UndoCheck`, `Restore` the rollback; every read and
write may fail. `OtherWrites` may happen between any two steps. `Dies` ends the
application at once, leaving the files as they are. `windowed` and `overwritten`
are history: texts of others that were written after the transaction's last read
of the file, and those that a rename of the transaction replaced.

`ReviewedEdit` is the promise: which files may change, when the edit goes
forward, when back, and in which order. It knows no texts, only whether a file
holds the reviewed one, the edited one or another (`Held`), and no reads, faults
or phases: previewing is its `Review`, validation `Pass` or `Refuse`, a commit's
failure `Turn`. Rechecks, verifications and finding conflicts are not steps of it.

## 4. The runs

| Run | Instance | Properties | Distinct states |
| --- | --- | --- | --- |
| `session` | 2 guests, 2 nonces, 2 spellings of one name, queues of 2; 4 frames of 1 or 2 bytes, 2 grids, window of 2 frames and 3 bytes | `TypeOK`, `ControllerCoherent`, `NonceAdmitsOnce`, `NothingAfterClosed`, `RoleNoticesConverge`, `ReplayOrdered`, `ReplayBytesExact`, `StreamIntact`, `GridConverges` | 231951 |
| `guest_link` | 2 connections, 2 frames, 2 commands, queues of 2 and 1, socket of 1 | `LinkTypeOK`, `NothingSkipped`, `InputOnceInOrder`, `PromiseKept` | 624242 |
| `guest_ends` | 2 connections, 2 attempts, command queue of 1 | `CloseEndsGuest`, `RevokedIsDisconnected` | 129322 |
| `pty_output` | 2 units with 2 shares and 2 captures, or 3 units (one overflow) with one share; buffer of 2; a waiter that joins the reader or gives up on it | `TypeOK`, `NoSilentGap`, `SnapshotComplete`, `ReadIsSent`, `FeedSpec` | 483046 |
| `host_turns` | 2 sessions, 12 commands of all kinds, 1 failure, 1 crash, 1 delta | `TypeOK`, `OutputKept`, `LiveIsCurrent`, `StoppedBeforeNext`, `CheckoutIdle`, `DecisionTold`, `QuietWhenOver`, `LedgerSpec`, `TurnsEnd`, `CloseEnds` | 164899 |
| `remote_session` | 1 session, 3 commands of the tab and 2 of others, 1 loss, 1 crash of the host | `RemoteTypeOK`, `NothingForgotten`, `FollowupKept`, `TranscriptFaithful`, `StartedIsAccepted`, `CatchesUp` | 445579 |
| `edit_transaction` | 2 files, 3 foreign versions (one the edits do not fit), 2 faults, 2 previews | `TypeOK`, `ForeignKept`, `OutcomeTrue`, `OnlyReviewed` | 3534372 |
| `session_resize_ahead`, `guest_regain`, `pty_exit_race`, `pty_snapshot_newer`, `pty_last_line` | as above, smaller | one violated property each, section 5 | - |

Why these bounds.

- *Session*: the interactions of control are between an actor and the one it
  displaces, so two participants suffice, and a queue of two lets the first of
  `set_controller`'s two broadcasts fit and the second not; the same guest
  joining again needs the second nonce. A window of two frames among four
  sequences has every position of a snapshot and of a resume (before, inside, at
  the end of, and past the window), and three bytes force evictions by size
  before those by count.
- *Pipeline*: two units make order visible, the third overflows; the second share
  and capture are those that a stale marker or barrier could be mistaken for. A
  waiter that gives up on the reader meets one share and one capture of a pane
  that stays open: what it leaves behind needs none of the others. The safety
  properties are proved for either waiter and without these bounds (section 6).
- *Link*: the second connection resumes what the first left anywhere; a socket
  that holds one message already puts a message in flight between the host's
  belief and the guest's. A third connection would add only repetitions.
- *Agent host*: every kind of command occurs, and the two that race for one
  approval. The failure can hit any write or `provider.stop`; one failure makes
  the retry, and the crash then meets every state of that retry. What a second
  failure adds is another round of the same retry; the proofs cover any number.
- *Tab*: a conversation begun with a draft takes the two commands and the send;
  the others' two drafts are those that could stand in its place. One loss is a
  lost request, a lost answer, a full localStorage or a restart, anywhere; only a
  Retry that localStorage is too full for costs none.
- *Edits*: two files are a commit that is half done; three foreign versions put
  one write in each of three gaps; two faults fail the commit and then the
  rollback; the second preview is one of a file already edited.

Scopes. Some dimensions are independent, so a state `CONSTRAINT` (in the `MC`
modules) has a behaviour use some of them only: in `session` either control
changes hands and the terminal is silent, or one guest follows the output, with
resizes only in streams of up to three frames (enough to evict one); the link
either watches a terminal or works in one; in `pty_output` a third unit is read
only with one share, no capture and a pane that stays open; in `host_turns` one session is used or the
other. Clocks (the fifteen-minute expiry) are `HostedSession`'s `Expire`, whose
successors those runs do not explore. Where a run checks liveness its constraint
only cuts actions that need not happen (requests, reads, the host's choices),
never one that fairness is assumed of: a behaviour within the scope is never
forced out of it. The exceptions: in `pty_output`, a waiter that has given up on the
reader is followed for short outputs only, and in `remote_session`, a tab whose
Retry is over without an answer is followed only between polls on a host that has
not crashed (`RetryUnsavedScope`), to keep the run short; the whole instance, with
that constraint dropped from the cfg, has 506996 states and passes, too. In both
cases TLC leaves behaviours out and reports none that the scope cuts short.
Symmetry is used on ids (and nonces) in safety runs only. Deadlock is
not checked where everything has ended: a dropped, closed, exited or finished
system really stops.

Every property of a passing run has a mutant in `PROJECT.json`: a plausible bug
of the mapped code (for example a resume from the start, a gate left open, a
settlement that forgets its retry, a rollback that does not look at what it
replaces) under which TLC finds the property violated. The variants stand beside
the definitions they change and are used nowhere else.

## 5. Where code and promise differ

Five runs are expected to fail: four find a safety violation, `pty_last_line` one
of a temporal property under `FairSpec`.

1. `session_resize_ahead`, `GridConverges`. `set_snapshot` adopts the snapshot's
   grid silently (`session.rs:548-551`). If xterm was resized and the PTY not yet,
   the later `publish_resize` finds nothing changed, and guests already
   connected keep the old grid.
2. `pty_exit_race`, `ExitAfterOutput`. The flusher empties the buffer before it
   takes the gate; the waiter, woken in between, finds nothing and sends the exit
   ahead of the last chunk (`pty/session.rs:541` against `587-588`).
3. `pty_snapshot_newer`, `OnlyNewerFollows`. Output delivered behind the marker
   while the barrier's reply is under way is in the snapshot and is sent to the
   guest once more (`snapshot.ts:18-20`). `SnapshotComplete`, the safe half, holds.
4. `guest_regain`, `ControllerInputReaches`. The guest counts the inputs the host
   refuses, the host does not: one input refused for lack of control makes every
   later input of that connection refused for its number
   (`session.rs:417-422`, `guest.rs:437-443`).
5. `pty_last_line`, `LastLineSent`. On Windows the waiter gives the reader 50 ms,
   takes the tail and sets `done`; the flusher stops at an empty buffer. What the
   reader appends after that stays in the buffer for ever, neither published nor
   sent (`pty/session.rs:589-601`, against the comment at 587-588: "so the last
   line of output never races the Exit event"). `ReadIsSent` is what holds on
   both platforms; on Unix nothing stays behind (`NothingLeftOnUnix`, section 6).

One passing property has an exception that the code should not need.
`StartedIsAccepted` leaves out turns last sent by the notice's Retry:
`retryPending` clears the started turn's `failed` before it sends the command
again and does not look at what `run()` returns (`RemoteSession.tsx:1032-1033`;
`submit` and Try again set `failed` at 897 and 1057). A turn the host then refuses
stays on the screen as started, and the tab busy.

Reading the code for the models also showed the following, which no run states
because the part is not modelled or the model abstracts from it:

- The count of active sessions and the map change in separate steps
  (`collab/state.rs:187-192` against `318-330`): an exit that has removed its
  share but not yet subtracted, and a reload of the webview that stops all and
  stores zero, leave the counter at `usize::MAX`; the next share counts to zero,
  and its output is not published.
- `approval.resolved` marks every block with its request id, and providers count
  requests anew per process (`harness/apply.ts:66-76`, comment at 417): an
  earlier turn's request with the same number is marked, too. `DecisionTold` is
  therefore about the latest turn.
- A draft retried although it had been accepted is put in by hand and stays as a
  phantom until the next full sync; `TranscriptFaithful` excepts drafts.
- A compaction whose save to localStorage fails leaves `unseenSend` set; a draft
  sent into an empty transcript overwrites a title given by hand
  (`host/engine.ts:514-520`); a `create` repeated after its worktree vanished is
  refused before its receipt is looked up (`host/server.ts:460-466`).
- A command or rename whose flush throws clears the batch timer without arming
  it again (`host/engine.ts:374-383`); the events stay in memory until the next
  one, and `OutputKept` holds because the settlement flushes.

## 6. The proofs

TLAPS proves, for every value of the constants that satisfies the modules' named
assumptions (`LimitsAssumption`, `ValuesAssumption`, `BoundsAssumption`,
`LinkAssumption`, `PayloadAssumption`, `NullAssumption`, `RemoteAssumption`,
`FilesAssumption`; TLC evaluates them in the runs):

| Theorem | States |
| --- | --- |
| `HostedSessionProofs!TypeCorrect` | `Spec => []TypeOK` |
| `HostedSessionProofs!OneController` | `Spec => []ControllerCoherent` |
| `HostedSessionProofs!NonceOnce` | `Spec => []NonceAdmitsOnce` |
| `HostedSessionProofs!FarewellIsLast` | `Spec => []NothingAfterClosed` |
| `HostedSessionProofs!WindowInOrder` | `Spec => []ReplayOrdered` |
| `HostedSessionProofs!CountedExactly` | `Spec => []ReplayBytesExact` |
| `HostedSessionProofs!EvictsWhatItMust`, `CoversWhatItPops` | what the eviction loop and a stored snapshot pop from the window, of every window |
| `HostedSessionProofs!NoFrameSkipped` | `Spec => []StreamIntact` |
| `HostedSessionProofs!GridFollows` | `Spec => []GridConverges`, where a captured terminal is not ahead of the stream (`XtermAhead` false) |
| `HostedSessionProofs!RolesReach` | `Spec => []RoleNoticesConverge` |
| `GuestLinkProofs!LinkImplementsSession` | `LinkSpec => Spec`: the link implements `HostedSession` |
| `GuestLinkProofs!OneControllerLinked` | `LinkSpec => []ControllerCoherent` |
| `GuestLinkProofs!InputInOrder` | `LinkSpec => []InputOnceInOrder` |
| `GuestLinkProofs!ResumesWhereItLeftOff` | `LinkSpec => []NothingSkipped` |
| `GuestLinkProofs!LinkTypes` | `LinkSpec => []LinkTypeOK` |
| `GuestLinkProofs!LinkKeepsPromise` | `LinkSpec => PromiseKept`: the link implements `SharedTerminal` |
| `PtyOutputProofs!PtyTypeCorrect` | `Spec => []TypeOK` |
| `PtyOutputProofs!Implements` | `Spec => FeedSpec`: the pipeline implements `TerminalFeed` |
| `PtyOutputProofs!GuestsFedAsHost` | `Spec => []Feed!SameFeed`: a share's stream is what the host was fed since it began |
| `PtyOutputProofs!NoGapUnannounced` | `Spec => []NoSilentGap` |
| `PtyOutputProofs!NothingLeftOnUnix` | `Spec => []NothingLeft`: where the waiter joins the reader, a stopped flusher leaves nothing of what was read unsent |
| `PtyOutputProofs!SnapshotNotBehind` | `Spec => []SnapshotComplete` |
| `HostEngineProofs!Agreement` | the inductive invariant of store, live copy, turn and process |
| `HostEngineProofs!TypesKept`, `LiveCopies`, `OneProcess`, `SwitchedAtRest` | `Spec => []TypeOK`, `[]LiveIsCurrent`, `[]StoppedBeforeNext`, `[]CheckoutIdle` |
| `HostEngineSafety!ImplementsLedger` | `Spec => LedgerSpec`: the agent host implements `CommandLedger` |
| `HostEngineOutput!TranscriptsHold` | the inductive invariant of what transcripts show |
| `HostEngineOutput!OverIsQuiet`, `DecisionShown`, `NoOutputLost` | `Spec => []QuietWhenOver`, `[]DecisionTold`, `[]OutputKept` |
| `RemoteSessionProofs!TabsLeaveTheHost` | `RemoteSpec => Spec`: under any tab the host is `HostEngine` |
| `RemoteSessionProofs!RetriesTakeEffectOnce` | `RemoteSpec => LedgerSpec`: tabs, lossy requests and host implement `CommandLedger` |
| `RemoteSessionProofs!NothingIsForgotten`, `FollowupIsKept` | `RemoteSpec => []NothingForgotten`, `[]FollowupKept` |
| `RemoteSessionProofs!ViewHolds` | the inductive invariant of what the tab shows |
| `RemoteSessionProofs!TranscriptIsFaithful`, `TabTypes` | `RemoteSpec => []TranscriptFaithful`, `[]RemoteTypeOK` |
| `EditTransactionProofs!EditTypes`, `OthersKeepTheirText`, `ReportIsTrue` | `Spec => []TypeOK`, `[]ForeignKept`, `[]OutcomeTrue` |
| `EditTransactionProofs!ReviewIsKept` | `Spec => OnlyReviewed`: the transaction implements `ReviewedEdit` |

*Session.* The inductive invariant `Inv` is `TypeOK` and `ControllerCoherent`
taken apart (`InvIsTypeAndControl`). `ControllerCoherent` alone is not inductive:
a join overwrites the record of its id, so the proof needs that participants are
ids already in use (`Seated`), and that records are well typed. `BroadcastTells`
is the centre: whatever participants and controller a broadcast is given, if the
two agree before it they agree after it, whoever lags. Each operation then only
has to show that what it passes to the broadcast agrees; `SetController` does it
twice, the second time from whatever the first one left.

*Nonces and farewells.* `NonceAdmitsOnce` needs `NoncesKept`: until the close
forgets them, the nonce of every connection there has been is spent. Only a join
changes either (`JoinsAlone`), and after the close nobody joins.
`NothingAfterClosed` is `LastWord` of the session's participants and queues, and
each way of sending keeps `LastWord` for whichever participants stay: news go
to participants, whose queues hold no farewell (`NewsLast`); a farewell goes to
those who leave with it (`FarewellLast`). A join makes a participant of an id
that was none, so the proof also needs that the queue of an id nobody has used
is empty (`Untouched`).

*The window.* `ReplayOrdered` speaks of the frames kept; eviction drops a prefix
whose length a sum of sizes decides. The proof takes only from it that a suffix
is left (`WindowInv` with the position where the suffix begins), so that sizes
need no induction; that the suffix ends with the frame just published makes the
next one consecutive.

*The count.* `ReplayBytesExact` is about those sizes. `replay_bytes` is added to,
and subtracted from by a saturating operation, so it is exact only while no
subtraction ever goes below zero. `BytesOfFirst` is the library's sum of a
function over a set, a recursive definition that takes the elements in an order
of its own. What it computes is proved without an induction rule over operators:
a set of numbers has a least element (`LeastNumber`), so a set of sums closed
under one more element is the set of all (`EverySubset`); such sums exist
(`SumsExist`), are what the definition chooses (`SumAddsUp`), and do not depend
on the order (`AnyOrder`). From there the bytes of a stretch add up frame by frame
(`BytesFrameByFrame`), and `EvictsWhatItMust` gives that the loop stops within
the window: the empty window is never too much.

*Lines.* What a participant has still to read, its welcome with the replay and
then its queue, is one sequence, its line. A step of the session affects a line
in one of five ways: the participant joins (`Joins`), is sent an event (`Hears`),
is sent a frame (`IsFed`), takes the head (`Takes`), or leaves (`Ends`). Each of
the three theorems is shown once for each way. `StreamIntact`: the frames of a
line are consecutive and end at the session's sequence, or a snapshot stands
where they begin. `GridConverges` needs in addition what the retained window says
of the grid (`GridLogInv`): the last resize retained carries the session's grid,
and at a place after which no resize is retained the grid was already this one.
`RoleNoticesConverge` is `RoleInv`: the last notice queued is the record's role.

*Pipeline.* The inductive invariant `IInv` adds to the types who may hold the
gate (`GateHeld`), what threads carry outside of it (`Carrying`), that a terminal
not shared has no stream (`Sharing`), and that a capture past the gate has a
token and a share (`Capturing`). The gate's exclusiveness is what makes
publishing and sending one step of the feed; `StepFeed` shows it action by
action, and all other actions stutter. That the guests are fed what the host is
since the share began is then a fact about the feed alone (`FeedKeepsAlike`) and
holds of the pipeline because it implements the feed. `NoSilentGap` is `FlowInv`
of the one sequence `sent`, chunk, buffer in the order they will be sent:
`Steady` between neighbours and `UpTo` at its end; it ends where the waiter takes
what is left, for from then on two threads flush. `NothingLeftOnUnix` is `EndInv`:
once the waiter has joined the reader nothing is read any more, and what was read
is sent, dropped, or with one of the two threads or in the buffer; the flusher
stops only when all three are empty. `SnapshotComplete` is
`SyncInv`: the marker of the live token has one place in channel and handler, and
what lies before that place is what the barrier's sequence counts.

*Link.* The host's side is made of the session's own actions, so most steps are
steps of `HostedSession` as they stand. What needs an invariant is that the
guest resumes after a frame the stream really has (`GuestType`, `ResumeBound`):
else the join would not be one of the session's. `InputOnceInOrder` needs
`OrderInv`: what was written, what is in the socket, what is kept, and what is
queued form one chain of rising numbers, wherever the connection fails.
`NothingSkipped` extends the lines of the session into the socket: what lies in
the socket, followed by the line of its participant, continues the stream from
the `outputSequence` the guest will resume after (`Skipless`). Writing moves the
head of the line into the socket and so changes nothing (`HostWrites`), reading
moves the place where the guest resumes along with the head, a failing socket
empties both, and a new join is answered from `outputSequence`. `SocketInv`
says where the sockets stand: nothing is in one before the host answers the
join, that answer comes first, and a connection the guest holds is a participant
only while the host's thread is at work. Of `LinkTypeOK` two bounds need
more than the types: that the guest never claims a frame the host has not
published (`BehindInv`: nor is one coming), which rests on the same lines, and
that inputs are numbered no further than commands were given (`CountInv`: what is
still queued has greater numbers), which rests on their order.

*Promise.* `LinkKeepsPromise` needs no invariant of its own: `LinkInv`,
`LinkFlow` (the lines into the socket), `OrderInv` and `BehindInv` together say
why each step is one of `SharedTerminal`. Steps of the session are classified
once (`ShareMoves`: published, granted, lost, closed), since five of its
operations end in broadcasts that may drop whoever holds control. That a
screen comes before all other frames of a connection (`ScreenFirst`) makes
`FeedOf` change only when a frame is applied; a frame that is not the next is
never at the head of the socket, by `Skipless`, so reading never fails for a gap.
`InputStep` is where control counts: the host's check under the session's mutex
happens in the step that writes.

*Agent host.* `Agreement` is the inductive invariant: for every phase of a turn
it says what store, live copy and process must be. `HostEngineSafety` classifies
every step by what it makes of one session (`Absent`, `Content` and the shapes
beside them): the ledger, the outputs and the decisions are then proved from the
shapes, not from the twenty actions again. `TranscriptsHold` (`Sound` and what
the store must show) carries the three properties of transcripts.

*Tab.* `TabsLeaveTheHost` makes every theorem of the host a theorem of the
composition. Of the transcript, the invariant says that what the tab knows, and
what it will know once the poll under way is taken, differs from the store only
in blocks whose stamp is newer than its revision; commands and events raise the
stamp of what they touch, so the difference can only shrink to what was sent.

*Edits.* `IInv` says for each phase which targets hold the reviewed text and
which the edited one (`Previewed`, `Reviewed`, `Progress`, `Regress`), with the
exception of files another program has written since, and that in the window
only what was written in it can be lost (`Window`). There is one lemma per
action. `ReviewIsKept` reads the promise off the same invariant: `Reviewed` makes
the text written the one reviewed and edited, `Progress` makes the targets not
yet written the ones left, `Aged` tells a foreign text from both.

Only model-checked: liveness (`ReadIsSent`, `CloseEndsGuest`,
`RevokedIsDisconnected`, `TurnsEnd`, `CloseEnds`, `CatchesUp`), which TLAPS does
not reach, and one safety property, `StartedIsAccepted`. Every other safety property
of a passing run has a theorem.

## 7. Fairness

- `PtyOutput!FairSpec`: weak fairness of flusher, waiter and barrier, threads
  that take a mutex held for one publication at a time. No fairness of shell,
  reader or webview.
- `GuestLink!LinkFairSpec`: weak fairness of the guest's worker and of each
  connection thread. Each polls its socket and its queue every 50 ms
  (`IO_POLL`), and heartbeats with a timeout make both ends notice a dead socket.
  The network, the users and the terminal promise nothing: sockets may stay up
  or fail, commands may never come.
- `HostEngine!FairSpec`: weak fairness of what the event loop has due for each
  session (calling the provider, finishing, the retry timer), of the exit, and of
  a new start after a crash. A provider's `send` is assumed to return only after
  it was stopped: its process is killed after a timeout. Nothing makes a provider
  end a turn by itself, not even a cancel.
- `RemoteSession!RemoteFairSpec`: weak fairness of the host's start, strong
  fairness of the steps of a poll: the tab polls for ever, and the connection,
  which may fail any time, works again and again.
- Safety needs no fairness. Of the failing runs only `pty_last_line` is temporal:
  its counterexample is fair, the flusher having stopped for good.

## 8. What is left out

*Collaboration.* The HTTP upgrade policy and the join limiter of `server.rs`;
file citations; heartbeats and error replies, which change no state here (a
heartbeat's absence is `SocketEnds`); encryption, so that a tampered message is
never delivered; PTY writes that fail; resizes in `PtyOutput` (they take the same
gate and a sequence number, and are in `HostedSession`); a webview channel that
fails; the registry's counters and published URL. Smaller hazards read and not
modelled: a close that finds the guest's command queue full (`guest.rs:105`), the
grid in the answer to a join against the grid the replayed frames were written
for (`guest.rs:394`), start against stop-all of shares (`state.rs:114`), output
published behind the exit by a flusher that had looked the session up
(`state.rs:133`), and a share stopped and started again while a capture is in
flight (`hostRuntime.ts:44`).

*Agent host.* The event log (`events.read`), attachments, generated branch
names, the archive flag, several projects, revoked devices, HTTP routing and
pairing tokens, providers and Git themselves. A request of a tab reaches the host
at most once: a duplicate delayed beyond its retry is left out. Where the host
accepted the command, its receipt would answer the duplicate; a command whose
retry was rejected could still be carried out by an older copy, after the tab has
forgotten it, and `NothingForgotten` does not hold of such a network. Of the tab: dismissing a failed command, binding it to another
session, discarding the conversation from it, uploads.

*Edits.* The global replacement has the same commit and rollback and is not
modelled apart; positions, ranges and size limits are data; unsaved buffers bar
the dialog; the SSH helper's adapter performs the same operations remotely. There
is no recovery after a crash in the code: an application that dies between two
writes leaves the files as they are. The dialog may lose the report of a rollback
when a change of the dirty tabs re-runs its preview effect
(`WorkspaceTextEditDialog.tsx:71`).

The rest of the program is in section 1.4 with the reason.
