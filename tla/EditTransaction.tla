---------------------------- MODULE EditTransaction ----------------------------
(***************************************************************************)
(* A workspace edit, such as a rename computed by a language server: the   *)
(* dialog previews it, the user confirms it for some of its files, and the *)
(* transaction of voktty-workspace-edit writes them one after the other,   *)
(* or takes back what it has written.  Other programs write the same files *)
(* at any time; reads and writes fail; the application dies.  The global   *)
(* replacement has the same commit and the same rollback.                  *)
(*                                                                         *)
(* Abstractions.  A text is a version that some program has written and    *)
(* the number of times the edits have been applied to it; equal hashes are *)
(* equal texts.  A file that is gone, not UTF-8 or changing while it is    *)
(* read is a read that fails.  Size limits count as texts the edits cannot *)
(* be applied to.  Unsaved buffers, which bar the dialog, are left out;    *)
(* and the edits always change the text.                                   *)
(***************************************************************************)
EXTENDS Naturals, FiniteSets

CONSTANTS
  Files,        \* the files of the edit, numbered in the order of their paths
  Unfit,        \* versions that the edits cannot be applied to
  MaxVersions,  \* bound on what other programs write
  MaxFaults,    \* bound on reads and writes that fail
  MaxPreviews   \* bound on previews

ASSUME FilesAssumption == Files \subseteq Nat /\ Files # {} /\ IsFiniteSet(Files)
ASSUME LimitsAssumption ==
  Unfit \subseteq Nat /\ {MaxVersions, MaxFaults, MaxPreviews} \subseteq Nat

Texts == [version : Nat, edits : Nat]
DiskFiles == [text : Texts, mtime : Nat]

Written(n) == [version |-> n, edits |-> 0]
Edited(t) == [t EXCEPT !.edits = @ + 1]
CanEdit(t) == t.version \notin Unfit

VARIABLES
  disk,        \* the text and the mtime of each file
  phase,       \* of the dialog and its transaction
  left,        \* the files this phase has still to deal with
  preview,     \* what the user has reviewed
  targets,     \* the files the user has confirmed
  prepared,    \* what validation read of them
  conflicts, applied, rollbackFailures, outcome,
  versions, faults, previews,   \* counters
  windowed, overwritten         \* history: see Rewrite

reviewing == <<preview, targets, previews>>
deciding == <<conflicts, prepared>>
committing == <<applied, rollbackFailures, outcome>>
history == <<windowed, overwritten>>
vars == <<disk, phase, left, reviewing, deciding, committing, versions,
          faults, history>>

Init ==
  /\ disk = [f \in Files |-> [text |-> Written(0), mtime |-> 0]]
  /\ preview = disk /\ prepared = disk
  /\ phase = "closed" /\ outcome = "none"
  /\ left = {} /\ targets = {} /\ conflicts = {} /\ applied = {}
  /\ rollbackFailures = {} /\ windowed = {} /\ overwritten = {}
  /\ versions = 0 /\ faults = 0 /\ previews = 0

-----------------------------------------------------------------------------
(* The disk *)

Succeeds == UNCHANGED faults
Fails == faults < MaxFaults /\ faults' = faults + 1

\* Paths are sorted; the rollback goes the other way.
InOrder(f)   == f \in left /\ \A g \in left : f <= g
InReverseForward(f) == InOrder(f)
InReverse(f) == f \in left /\ \A g \in left : g <= f

SameVersionByTime(a, b) == a.mtime = b.mtime
SameVersion(a, b) == a.mtime = b.mtime /\ a.text = b.text

\* What the commit writes to f.
Result(f) == Edited(prepared[f].text)

\* A file gets a new text, and a new mtime unless the clock stood still.
Put(f, t) ==
  \E m \in {disk[f].mtime, disk[f].mtime + 1} :
    disk' = [disk EXCEPT ![f] = [text |-> t, mtime |-> m]]

\* The transaction replaces text seen; another one in its place is lost.
Rewrite(f, seen, t) ==
  /\ Put(f, t)
  /\ overwritten' = IF disk[f].text = seen THEN overwritten
                                           ELSE overwritten \cup {disk[f].text}
  /\ UNCHANGED windowed

\* Between the last look at f and its rename.
InWindow(f) ==
  \/ phase = "writing" /\ InOrder(f)
  \/ phase = "restoring" /\ InReverse(f)

\* Another program writes f: a new version.
OtherWrites(f) ==
  /\ versions < MaxVersions /\ versions' = versions + 1
  /\ Put(f, Written(versions + 1))
  /\ windowed' = IF InWindow(f) THEN windowed \cup {Written(versions + 1)}
                                ELSE windowed
  /\ UNCHANGED <<phase, left, reviewing, deciding, committing, faults,
                 overwritten>>

-----------------------------------------------------------------------------
(* The dialog *)

\* Opened, or told that its request, its workspace or a tab has changed; the
\* answer to an earlier request is then dropped.
Preview ==
  /\ phase \in {"closed", "previewing", "ready", "done"}
  /\ previews < MaxPreviews
  /\ phase' = "previewing" /\ left' = Files /\ previews' = previews + 1
  /\ UNCHANGED <<disk, preview, targets, deciding, committing, versions,
                 faults, history>>

PreviewReads(f) ==
  /\ phase = "previewing" /\ InOrder(f)
  /\ \/ /\ Succeeds /\ CanEdit(disk[f].text)
        /\ preview' = [preview EXCEPT ![f] = disk[f]]
        /\ left' = left \ {f}
        /\ phase' = IF left' = {} THEN "ready" ELSE phase
     \/ /\ Fails \/ (Succeeds /\ ~CanEdit(disk[f].text))
        /\ phase' = "closed" /\ left' = {} /\ UNCHANGED preview
  /\ UNCHANGED <<disk, targets, previews, deciding, committing, versions,
                 history>>

Confirm(chosen) ==
  /\ phase = "ready" /\ chosen # {}
  /\ phase' = "validating" /\ targets' = chosen /\ left' = chosen
  /\ conflicts' = {} /\ applied' = {} /\ rollbackFailures' = {}
  /\ outcome' = "none"
  /\ UNCHANGED <<disk, preview, previews, prepared, versions, faults, history>>

-----------------------------------------------------------------------------
(* The transaction: apply_text_edits *)

\* f is read: it is still what was seen; or it is not, or cannot be read.
Finds(f, seen)  == Succeeds /\ SameVersion(disk[f], seen)
Misses(f, seen) == Fails \/ (Succeeds /\ ~SameVersion(disk[f], seen))

\* f is read: it holds what the transaction has written; or not, or cannot be.
Holds(f) == Succeeds /\ disk[f].text = Result(f)
Lacks(f) == Fails \/ (Succeeds /\ disk[f].text # Result(f))

Goes(p) == phase' = p /\ UNCHANGED outcome
Ends(o) == phase' = "done" /\ outcome' = o

\* The next target, or, behind the last one, the decision.
Validated(f) ==
  /\ left' = IF left = {f} /\ conflicts' = {} THEN targets ELSE left \ {f}
  /\ \/ left # {f} /\ Goes("validating")
     \/ left = {f} /\ conflicts' = {} /\ Goes("checking")
     \/ left = {f} /\ conflicts' # {} /\ Ends("conflict")

\* All targets are read and compared with the preview before one is written.
Validate(f) ==
  /\ phase = "validating" /\ InOrder(f)
  /\ \/ /\ Finds(f, preview[f]) /\ CanEdit(disk[f].text)
        /\ prepared' = [prepared EXCEPT ![f] = disk[f]]
        /\ UNCHANGED conflicts /\ Validated(f)
     \/ /\ Misses(f, preview[f]) /\ (CanEdit(disk[f].text) \/ faults' # faults)
        /\ conflicts' = conflicts \cup {f}
        /\ UNCHANGED prepared /\ Validated(f)
     \/ /\ Succeeds /\ ~CanEdit(disk[f].text)
        /\ Ends("failed") /\ left' = {} /\ UNCHANGED deciding
  /\ UNCHANGED <<disk, reviewing, applied, rollbackFailures, versions,
                 history>>

AbortUnverified(o) ==
  /\ outcome' = o /\ left' = applied' \ left
  /\ phase' = IF left' = {} THEN "done" ELSE "undoing"
AbortStuck(o) == outcome' = o /\ left' = applied' /\ phase' = "undoing"

\* Goes back over what has been written, the last file first.
Abort(o) ==
  /\ outcome' = o /\ left' = applied'
  /\ phase' = IF applied' = {} THEN "done" ELSE "undoing"

Check(f) ==
  /\ phase = "checking" /\ InOrder(f)
  /\ \/ Finds(f, prepared[f]) /\ Goes("writing") /\ UNCHANGED <<left, applied>>
     \/ Misses(f, prepared[f]) /\ UNCHANGED applied /\ Abort("conflict")
  /\ UNCHANGED <<disk, reviewing, deciding, rollbackFailures, versions,
                 history>>

Write(f) ==
  /\ phase = "writing" /\ InOrder(f)
  /\ \/ /\ Succeeds /\ Rewrite(f, preview[f].text, Result(f))
        /\ applied' = applied \cup {f} /\ Goes("verifying") /\ UNCHANGED left
     \/ /\ Fails /\ UNCHANGED <<disk, history, applied>> /\ Abort("failed")
  /\ UNCHANGED <<reviewing, deciding, rollbackFailures, versions>>

\* What was written is read again, and the next target's turn comes.
Verify(f) ==
  /\ phase = "verifying" /\ InOrder(f) /\ UNCHANGED applied
  /\ \/ /\ Holds(f) /\ left' = left \ {f}
        /\ IF left = {f} THEN Ends("applied") ELSE Goes("checking")
     \/ Lacks(f) /\ Abort("failed")
  /\ UNCHANGED <<disk, reviewing, deciding, rollbackFailures, versions,
                 history>>

\* rollback: f is done with, restored or not.
Undone(f) ==
  /\ left' = left \ {f}
  /\ Goes(IF left = {f} THEN "done" ELSE "undoing")

GivesUp(f) ==
  rollbackFailures' = rollbackFailures \cup {f} /\ Undone(f)

UndoCheck(f) ==
  /\ phase = "undoing" /\ InReverse(f)
  /\ \/ Holds(f) /\ Goes("restoring") /\ UNCHANGED <<left, rollbackFailures>>
     \/ Lacks(f) /\ GivesUp(f)
  /\ UNCHANGED <<disk, reviewing, deciding, applied, versions, history>>

Restore(f) ==
  /\ phase = "restoring" /\ InReverse(f)
  /\ \/ /\ Succeeds /\ Rewrite(f, Result(f), prepared[f].text)
        /\ UNCHANGED rollbackFailures /\ Undone(f)
     \/ Fails /\ UNCHANGED <<disk, history>> /\ GivesUp(f)
  /\ UNCHANGED <<reviewing, deciding, applied, versions>>

\* Nothing on the disk tells of a transaction that was under way.
Dies ==
  /\ phase # "closed" /\ phase' = "closed" /\ left' = {}
  /\ UNCHANGED <<disk, reviewing, deciding, committing, versions, faults,
                 history>>

-----------------------------------------------------------------------------
Step(f) ==
  \/ PreviewReads(f) \/ Validate(f) \/ Check(f) \/ Write(f) \/ Verify(f)
  \/ UndoCheck(f) \/ Restore(f)

Next ==
  \/ \E f \in Files : OtherWrites(f) \/ Step(f)
  \/ Preview \/ \E chosen \in SUBSET Files : Confirm(chosen)
  \/ Dies

Spec == Init /\ [][Next]_vars

-----------------------------------------------------------------------------
(* Properties *)

Phases == {"closed", "previewing", "ready", "validating", "checking",
           "writing", "verifying", "undoing", "restoring", "done"}

\* The type of every variable; and the dialog waits for its user exactly when no
\* file is left to deal with.
TypeOK ==
  /\ disk \in [Files -> DiskFiles]
  /\ preview \in [Files -> DiskFiles] /\ prepared \in [Files -> DiskFiles]
  /\ phase \in Phases
  /\ outcome \in {"none", "applied", "conflict", "failed"}
  /\ {left, targets, conflicts, applied, rollbackFailures} \subseteq SUBSET Files
  /\ windowed \subseteq Texts /\ overwritten \subseteq Texts
  /\ {versions, faults, previews} \subseteq Nat
  /\ left = {} <=> phase \in {"closed", "ready", "done"}

\* The transaction and its rollback replace only the text the user has reviewed
\* and their own result: a text another program writes between the preview and
\* the end is lost only if it appears between the last read of its file and the
\* rename that follows it.
ForeignKept == overwritten \subseteq windowed

\* Another program has written f since its preview.
Newer(f) == disk[f].text.version > preview[f].text.version

\* The outcome that apply_text_edits reports is true of the disk, except where
\* another program has written since.  Applied: every confirmed file holds its
\* edited text.  Conflict or failed: every confirmed file that is not listed as
\* a rollback failure holds the text the user reviewed.
OutcomeTrue ==
  phase = "done" =>
    IF outcome = "applied"
    THEN \A f \in targets : Newer(f) \/ disk[f].text = Edited(preview[f].text)
    ELSE \A f \in targets \ rollbackFailures :
           Newer(f) \/ disk[f].text = preview[f].text

\* What f holds, compared with what the user has reviewed of it.
Held(f) ==
  IF disk[f].text = preview[f].text THEN "reviewed"
  ELSE IF disk[f].text = Edited(preview[f].text) THEN "edited" ELSE "other"

Stage ==
  CASE phase = "validating" -> "deciding"
    [] phase \in {"checking", "writing", "verifying"} -> "forward"
    [] phase \in {"undoing", "restoring"} -> "back"
    [] OTHER -> "idle"

\* Confirmed files that validation has found as they were reviewed; and written
\* ones that the rollback, if there is one, has still to look at.
Passed == IF Stage = "deciding" THEN targets \ (left \cup conflicts) ELSE {}
Pending ==
  CASE Stage = "forward" -> applied
    [] Stage = "back" -> left
    [] OTHER -> {}

Promise == INSTANCE ReviewedEdit WITH
  holds <- [f \in Files |-> Held(f)], stage <- Stage, chosen <- targets,
  passed <- Passed, edited <- Pending, named <- rollbackFailures,
  result <- outcome

\* Reading, validating, rechecking, writing, verifying and taking back are the
\* steps of a reviewed edit: "valida el lote completo antes de escribir [...] y
\* restaura en orden inverso ante un fallo posterior" (docs/architecture/adr-004-
\* lsp-workspace-edit-transactions.md:28).
OnlyReviewed == Promise!Spec
=============================================================================
