------------------------- MODULE EditTransactionProofs -------------------------
(***************************************************************************)
(* Proofs about EditTransaction, for any number of files and previews, and *)
(* for any number of faults and of writes by other programs: what is kept  *)
(* of others' texts, what the report says, and that the transaction is one *)
(* of ReviewedEdit.                                                        *)
(***************************************************************************)
EXTENDS EditTransaction, TLAPS

USE FilesAssumption, LimitsAssumption

-----------------------------------------------------------------------------
(* The inductive invariant *)

\* f holds what the user reviewed; or the edited text; unless it is newer.
Original(f) == Newer(f) \/ disk[f].text = preview[f].text
HasEdits(f) == Newer(f) \/ disk[f].text = Edited(preview[f].text)

Committing == {"checking", "writing", "verifying"}
RollingBack == {"undoing", "restoring"}

\* No text is newer than the last version another program has written.
Aged ==
  \A f \in Files : /\ disk[f].text.version <= versions
                   /\ preview[f].text.version <= versions

\* The preview tells what the files hold until the transaction writes.
Previewed ==
  /\ phase = "previewing" => \A f \in Files \ left : Original(f)
  /\ phase \in {"ready", "validating"} => \A f \in Files : Original(f)

\* Targets that have been validated are prepared as they were reviewed.
Reviewed ==
  /\ phase = "validating" =>
       /\ left \subseteq targets /\ conflicts \subseteq targets
       /\ applied = {} /\ rollbackFailures = {} /\ outcome = "none"
       /\ \A f \in targets \ (left \cup conflicts) :
            prepared[f].text = preview[f].text
  /\ phase \in Committing \cup RollingBack =>
       /\ left \subseteq targets /\ applied \subseteq targets
       /\ \A f \in targets : prepared[f].text = preview[f].text

\* The commit has written the targets behind it, and while it verifies one, that
\* one too.
Progress ==
  /\ phase \in {"checking", "writing"} => applied = targets \ left
  /\ phase = "verifying" =>
       \A f \in Files : InOrder(f) => applied = (targets \ left) \cup {f}
  /\ phase \in Committing =>
       /\ rollbackFailures = {} /\ outcome = "none"
       /\ \A f \in applied : HasEdits(f)
       /\ \A f \in targets \ applied : Original(f)

\* The rollback has restored what is behind it, except for what it lists.
Regress ==
  phase \in RollingBack =>
    /\ outcome # "applied" /\ left \subseteq applied
    /\ \A f \in left : HasEdits(f)
    /\ \A f \in targets \ (left \cup rollbackFailures) : Original(f)

\* What a rename is about to replace is what was read last, unless another
\* program has written in between.
Window ==
  /\ phase = "writing" => \A f \in Files : InOrder(f) =>
       disk[f].text = preview[f].text \/ disk[f].text \in windowed
  /\ phase = "restoring" => \A f \in Files : InReverse(f) =>
       disk[f].text = Result(f) \/ disk[f].text \in windowed

IInv ==
  /\ TypeOK /\ Aged /\ Previewed /\ Reviewed /\ Progress /\ Regress /\ Window
  /\ ForeignKept /\ OutcomeTrue

-----------------------------------------------------------------------------
(* What the disk operators do *)

LEMMA TextType ==
  /\ \A n \in Nat : Written(n) \in Texts /\ Written(n).version = n
  /\ \A t \in Texts : Edited(t) \in Texts /\ Edited(t).version = t.version
  /\ \A d \in DiskFiles : d.text \in Texts /\ d.text.version \in Nat
BY DEF Texts, DiskFiles, Written, Edited

\* Put gives f its new text and leaves every other file alone.
LEMMA PutEffect ==
  ASSUME disk \in [Files -> DiskFiles], NEW f \in Files, NEW t \in Texts,
         Put(f, t)
  PROVE  /\ disk' \in [Files -> DiskFiles] /\ disk'[f].text = t
         /\ \A g \in Files \ {f} : disk'[g] = disk[g]
<1>1. PICK m \in {disk[f].mtime, disk[f].mtime + 1} :
        disk' = [disk EXCEPT ![f] = [text |-> t, mtime |-> m]]
  BY DEF Put
<1>2. m \in Nat
  BY <1>1 DEF DiskFiles
<1>3. [text |-> t, mtime |-> m] \in DiskFiles
  BY <1>2 DEF DiskFiles
<1>4. QED
  BY <1>1, <1>3

\* Rewrite moreover keeps account of a text it did not expect.
LEMMA RewriteEffect ==
  ASSUME disk \in [Files -> DiskFiles], NEW f \in Files, NEW t \in Texts,
         NEW seen, Rewrite(f, seen, t),
         disk[f].text = seen \/ disk[f].text \in windowed,
         overwritten \subseteq windowed, windowed \subseteq Texts
  PROVE  /\ disk' \in [Files -> DiskFiles] /\ disk'[f].text = t
         /\ \A g \in Files \ {f} : disk'[g] = disk[g]
         /\ windowed' = windowed
         /\ overwritten' \subseteq windowed /\ overwritten' \subseteq Texts
<1>1. Put(f, t) /\ windowed' = windowed
  BY DEF Rewrite
<1>2. overwritten' \subseteq windowed
  BY DEF Rewrite
<1>3. QED
  BY <1>1, <1>2, PutEffect

-----------------------------------------------------------------------------
(* Every step keeps the invariant *)

LEMMA InitHolds == Init => IInv
<1>1. \A n \in Nat : Written(n) \in Texts /\ Written(n).version = n
  BY TextType
<1>2. SUFFICES ASSUME Init PROVE IInv
  OBVIOUS
<1>3. disk \in [Files -> DiskFiles] /\ preview = disk
      /\ \A f \in Files : disk[f].text.version = 0
  BY <1>1, <1>2 DEF Init, DiskFiles
<1>4. TypeOK
  BY <1>2, <1>3 DEF Init, TypeOK, Phases
<1>5. Aged
  BY <1>2, <1>3 DEF Init, Aged
<1>6. QED
  BY <1>2, <1>4, <1>5 DEF Init, IInv, Previewed, Reviewed, Progress, Regress,
     Window, Committing, RollingBack, ForeignKept, OutcomeTrue

\* Another program's write makes its file newer than the preview, which every
\* part of the invariant allows for.
LEMMA OtherWritesKeeps ==
  ASSUME IInv, NEW f \in Files, OtherWrites(f)
  PROVE  IInv'
<1> DEFINE w == Written(versions + 1)
<1>1. /\ UNCHANGED <<phase, left, reviewing, deciding, committing, faults,
                     overwritten>>
      /\ versions' = versions + 1 /\ Put(f, w)
      /\ windowed' = IF InWindow(f) THEN windowed \cup {w} ELSE windowed
  BY DEF OtherWrites
<1>2. UNCHANGED <<preview, targets, previews, conflicts, prepared, applied,
                  rollbackFailures, outcome>>
  BY <1>1 DEF reviewing, deciding, committing
<1>3. TypeOK /\ versions \in Nat /\ disk \in [Files -> DiskFiles]
      /\ preview \in [Files -> DiskFiles]
  BY DEF IInv, TypeOK
<1>4. w \in Texts /\ w.version = versions + 1
  BY <1>3, TextType
<1> HIDE DEF w
<1>5. /\ disk' \in [Files -> DiskFiles] /\ disk'[f].text = w
      /\ \A g \in Files \ {f} : disk'[g] = disk[g]
  BY <1>1, <1>3, <1>4, PutEffect
<1>6. \A g \in Files : /\ disk[g].text.version \in Nat
                       /\ preview[g].text.version \in Nat
                       /\ disk[g].text.version <= versions
                       /\ preview[g].text.version <= versions
  BY <1>3, TextType DEF IInv, Aged
<1>7. /\ Newer(f)'
      /\ \A g \in Files : /\ Original(g) => Original(g)'
                          /\ HasEdits(g) => HasEdits(g)'
  <2>1. w.version > preview[f].text.version
    BY <1>3, <1>4, <1>6
  <2>2. Newer(f)'
    BY <1>2, <1>5, <2>1 DEF Newer
  <2>3. ASSUME NEW g \in Files, g # f
        PROVE  Original(g)' = Original(g) /\ HasEdits(g)' = HasEdits(g)
    BY <1>2, <1>5, <2>3 DEF Newer, Original, HasEdits
  <2>4. QED
    BY <2>2, <2>3 DEF Original, HasEdits
<1>8. TypeOK'
  BY <1>1, <1>2, <1>3, <1>4, <1>5 DEF TypeOK
<1>9. Aged'
  BY <1>1, <1>2, <1>3, <1>4, <1>5, <1>6 DEF Aged
<1>10. Previewed'
  BY <1>1, <1>2, <1>7 DEF IInv, Previewed
<1>11. Reviewed'
  BY <1>1, <1>2 DEF IInv, Reviewed
<1>12. \A g \in Files : InOrder(g)' = InOrder(g) /\ InReverse(g)' = InReverse(g)
  BY <1>1 DEF InOrder, InReverse
<1>13. applied \subseteq Files /\ targets \subseteq Files /\ left \subseteq Files
  BY <1>3 DEF TypeOK, IInv, Reviewed
<1>14. Progress'
  BY <1>1, <1>2, <1>7, <1>12, <1>13 DEF IInv, Progress
<1>15. Regress'
  BY <1>1, <1>2, <1>7, <1>13 DEF IInv, Regress
<1>16. windowed \subseteq windowed'
  BY <1>1
<1>17. \A g \in Files : Result(g)' = Result(g)
  BY <1>2 DEF Result
<1>18. Window'
  <2>1. ASSUME phase' = "writing", NEW g \in Files, InOrder(g)'
        PROVE  disk'[g].text = preview[g].text \/ disk'[g].text \in windowed'
    <3>1. CASE g = f
      BY <1>1, <1>5, <1>12, <2>1, <3>1 DEF InWindow
    <3>2. CASE g # f
      BY <1>1, <1>5, <1>12, <1>16, <2>1, <3>2 DEF IInv, Window
    <3>3. QED
      BY <3>1, <3>2
  <2>2. ASSUME phase' = "restoring", NEW g \in Files, InReverse(g)'
        PROVE  disk'[g].text = Result(g) \/ disk'[g].text \in windowed'
    <3>1. CASE g = f
      BY <1>1, <1>5, <1>12, <2>2, <3>1 DEF InWindow
    <3>2. CASE g # f
      BY <1>1, <1>5, <1>12, <1>16, <2>2, <3>2 DEF IInv, Window
    <3>3. QED
      BY <3>1, <3>2
  <2>3. QED
    BY <1>2, <1>17, <2>1, <2>2 DEF Window
<1>19. ForeignKept'
  BY <1>1, <1>16 DEF IInv, ForeignKept
<1>20. OutcomeTrue'
  BY <1>1, <1>2, <1>7, <1>13 DEF IInv, OutcomeTrue, Original, HasEdits
<1>21. QED
  BY <1>8, <1>9, <1>10, <1>11, <1>14, <1>15, <1>18, <1>19, <1>20 DEF IInv

LEMMA PreviewKeeps ==
  ASSUME IInv, Preview
  PROVE  IInv'
<1>1. /\ phase \in {"closed", "previewing", "ready", "done"}
      /\ phase' = "previewing" /\ left' = Files /\ previews' = previews + 1
      /\ UNCHANGED <<disk, preview, targets, conflicts, prepared, applied,
                     rollbackFailures, outcome, versions, faults, windowed,
                     overwritten>>
  BY DEF Preview, deciding, committing, history
<1>2. TypeOK'
  <2>1. /\ {left', targets, conflicts, applied, rollbackFailures}
             \subseteq SUBSET Files
        /\ {versions, faults, previews'} \subseteq Nat
    BY <1>1 DEF IInv, TypeOK
  <2>2. left' = {} <=> phase' \in {"closed", "ready", "done"}
    BY <1>1
  <2>3. QED
    BY <1>1, <2>1, <2>2 DEF IInv, TypeOK, Phases
<1>3. QED
  BY <1>1, <1>2 DEF IInv, Aged, Previewed, Reviewed, Progress, Regress, Window,
     ForeignKept, OutcomeTrue, Committing, RollingBack

LEMMA PreviewReadsKeeps ==
  ASSUME IInv, NEW f \in Files, PreviewReads(f)
  PROVE  IInv'
<1>1. /\ phase = "previewing"
      /\ UNCHANGED <<disk, targets, previews, conflicts, prepared, applied,
                     rollbackFailures, outcome, versions, windowed, overwritten>>
  BY DEF PreviewReads, deciding, committing, history
<1>2. faults' \in Nat
  BY DEF PreviewReads, Succeeds, Fails, IInv, TypeOK
<1>3. CASE /\ preview' = [preview EXCEPT ![f] = disk[f]]
           /\ left' = left \ {f}
           /\ phase' = IF left' = {} THEN "ready" ELSE phase
  <2>1. disk[f] \in DiskFiles /\ preview \in [Files -> DiskFiles]
        /\ left \subseteq Files
    BY DEF IInv, TypeOK
  <2>2. preview'[f] = disk[f]
        /\ \A g \in Files \ {f} : preview'[g] = preview[g]
    BY <1>3, <2>1
  <2>3. TypeOK'
    BY <1>1, <1>2, <1>3, <2>1 DEF IInv, TypeOK, Phases
  <2>4. Aged'
    BY <1>1, <2>2 DEF IInv, Aged
  <2>5. \A g \in Files \ left' : Original(g)'
    BY <1>1, <1>3, <2>1, <2>2 DEF IInv, Previewed, Original, Newer
  <2>6. Previewed'
    BY <1>1, <1>3, <2>5 DEF Previewed
  <2>7. QED
    BY <1>1, <1>3, <2>3, <2>4, <2>6 DEF IInv, Reviewed, Progress, Regress,
       Window, ForeignKept, OutcomeTrue, Committing, RollingBack
<1>4. CASE phase' = "closed" /\ left' = {} /\ UNCHANGED preview
  <2>1. TypeOK'
    BY <1>1, <1>2, <1>4 DEF IInv, TypeOK, Phases
  <2>2. QED
    BY <1>1, <1>4, <2>1 DEF IInv, Aged, Previewed, Reviewed, Progress, Regress,
       Window, ForeignKept, OutcomeTrue, Committing, RollingBack
<1>5. QED
  BY <1>3, <1>4 DEF PreviewReads

LEMMA ConfirmKeeps ==
  ASSUME IInv, NEW chosen \in SUBSET Files, Confirm(chosen)
  PROVE  IInv'
<1>1. /\ phase = "ready" /\ phase' = "validating" /\ chosen # {}
      /\ targets' = chosen /\ left' = chosen
      /\ conflicts' = {} /\ applied' = {} /\ rollbackFailures' = {}
      /\ outcome' = "none"
      /\ UNCHANGED <<disk, preview, previews, prepared, versions, faults,
                     windowed, overwritten>>
  BY DEF Confirm, history
<1>2. TypeOK'
  BY <1>1 DEF IInv, TypeOK, Phases
<1>3. Previewed'
  BY <1>1 DEF IInv, Previewed, Original, Newer
<1>4. QED
  BY <1>1, <1>2, <1>3 DEF IInv, Aged, Reviewed, Progress, Regress, Window,
     ForeignKept, OutcomeTrue, Committing, RollingBack

LEMMA DiesKeeps ==
  ASSUME IInv, Dies
  PROVE  IInv'
<1>1. /\ phase' = "closed" /\ left' = {}
      /\ UNCHANGED <<disk, preview, targets, previews, conflicts, prepared,
                     applied, rollbackFailures, outcome, versions, faults,
                     windowed, overwritten>>
  BY DEF Dies, reviewing, deciding, committing, history
<1>2. TypeOK'
  BY <1>1 DEF IInv, TypeOK, Phases
<1>3. QED
  BY <1>1, <1>2 DEF IInv, Aged, Previewed, Reviewed, Progress, Regress, Window,
     ForeignKept, OutcomeTrue, Committing, RollingBack

\* Reading alone: of the disk and the preview everything stays.
LEMMA ValidateKeeps ==
  ASSUME IInv, NEW f \in Files, Validate(f)
  PROVE  IInv'
<1>1. /\ phase = "validating" /\ InOrder(f)
      /\ UNCHANGED <<disk, preview, targets, previews, applied,
                     rollbackFailures, versions, windowed, overwritten>>
  BY DEF Validate, reviewing, history
<1>2. /\ disk \in [Files -> DiskFiles] /\ prepared \in [Files -> DiskFiles]
      /\ left \subseteq targets /\ targets \subseteq Files
      /\ conflicts \subseteq targets /\ f \in targets /\ f \in left
      /\ applied = {} /\ rollbackFailures = {} /\ outcome = "none"
      /\ \A g \in Files : Original(g)
      /\ \A g \in targets \ (left \cup conflicts) :
           prepared[g].text = preview[g].text
  BY <1>1 DEF IInv, TypeOK, Previewed, Reviewed, InOrder
<1>3. faults' \in Nat
  BY DEF Validate, Finds, Misses, Succeeds, Fails, IInv, TypeOK
<1>4. \A g \in Files : Original(g)'
  BY <1>1, <1>2 DEF Original, Newer
<1>5. ASSUME Validated(f), conflicts' \subseteq targets,
             prepared' \in [Files -> DiskFiles],
             \A g \in targets \ ((left \ {f}) \cup conflicts') :
               prepared'[g].text = preview[g].text
      PROVE  IInv'
  <2>1. CASE left # {f} /\ phase' = "validating" /\ outcome' = outcome
             /\ left' = left \ {f}
    <3>1. TypeOK'
      BY <1>1, <1>2, <1>3, <1>5, <2>1 DEF IInv, TypeOK, Phases
    <3>2. Reviewed'
      BY <1>1, <1>2, <1>5, <2>1 DEF Reviewed, Committing, RollingBack
    <3>3. QED
      BY <1>1, <1>4, <2>1, <3>1, <3>2 DEF IInv, Aged, Previewed, Progress,
         Regress, Window, ForeignKept, OutcomeTrue, Committing, RollingBack
  <2>2. CASE left = {f} /\ conflicts' = {} /\ phase' = "checking"
             /\ outcome' = outcome /\ left' = targets
    <3>1. TypeOK'
      BY <1>1, <1>2, <1>3, <1>5, <2>2 DEF IInv, TypeOK, Phases
    <3>2. \A g \in targets : prepared'[g].text = preview[g].text
      BY <1>5, <2>2
    <3>3. Reviewed'
      BY <1>1, <1>2, <2>2, <3>2 DEF Reviewed, Committing, RollingBack
    <3>4. Progress'
      BY <1>1, <1>2, <1>4, <2>2 DEF Progress, Committing
    <3>5. QED
      BY <1>1, <2>2, <3>1, <3>3, <3>4 DEF IInv, Aged, Previewed, Regress,
         Window, ForeignKept, OutcomeTrue, RollingBack
  <2>3. CASE left = {f} /\ conflicts' # {} /\ phase' = "done"
             /\ outcome' = "conflict" /\ left' = left \ {f}
    <3>1. TypeOK'
      BY <1>1, <1>2, <1>3, <1>5, <2>3 DEF IInv, TypeOK, Phases
    <3>2. OutcomeTrue'
      BY <1>1, <1>2, <1>4, <2>3 DEF OutcomeTrue, Original
    <3>3. QED
      BY <1>1, <2>3, <3>1, <3>2 DEF IInv, Aged, Previewed, Reviewed, Progress,
         Regress, Window, ForeignKept, Committing, RollingBack
  <2>4. QED
    BY <1>5, <2>1, <2>2, <2>3 DEF Validated, Goes, Ends
<1>6. CASE /\ Finds(f, preview[f]) /\ prepared' = [prepared EXCEPT ![f] = disk[f]]
           /\ UNCHANGED conflicts /\ Validated(f)
  <2>1. disk[f].text = preview[f].text
    BY <1>6 DEF Finds, SameVersion
  <2>2. prepared' \in [Files -> DiskFiles] /\ prepared'[f] = disk[f]
        /\ \A g \in Files \ {f} : prepared'[g] = prepared[g]
    BY <1>2, <1>6
  <2>3. \A g \in targets \ ((left \ {f}) \cup conflicts') :
          prepared'[g].text = preview[g].text
    BY <1>2, <1>6, <2>1, <2>2
  <2>4. QED
    BY <1>2, <1>5, <1>6, <2>2, <2>3
<1>7. CASE /\ conflicts' = conflicts \cup {f} /\ UNCHANGED prepared
           /\ Validated(f)
  BY <1>2, <1>5, <1>7
<1>8. CASE Succeeds /\ Ends("failed") /\ left' = {} /\ UNCHANGED deciding
  <2>1. phase' = "done" /\ outcome' = "failed"
        /\ UNCHANGED <<conflicts, prepared>>
    BY <1>8 DEF Ends, deciding
  <2>2. TypeOK'
    BY <1>1, <1>2, <1>3, <1>8, <2>1 DEF IInv, TypeOK, Phases
  <2>3. OutcomeTrue'
    BY <1>1, <1>2, <1>4, <2>1 DEF OutcomeTrue, Original
  <2>4. QED
    BY <1>1, <2>1, <2>2, <2>3 DEF IInv, Aged, Previewed, Reviewed, Progress,
       Regress, Window, ForeignKept, Committing, RollingBack
<1>9. QED
  BY <1>6, <1>7, <1>8 DEF Validate

\* Aborting: what is applied is to be undone, the rest has never been touched.
LEMMA AbortKeeps ==
  ASSUME IInv, phase \in Committing, faults' \in Nat,
         NEW o \in {"conflict", "failed"}, Abort(o), UNCHANGED applied,
         UNCHANGED <<disk, reviewing, deciding, rollbackFailures, versions,
                     history>>
  PROVE  IInv'
<1>1. /\ outcome' = o /\ left' = applied
      /\ phase' = IF applied = {} THEN "done" ELSE "undoing"
      /\ UNCHANGED <<disk, preview, targets, previews, conflicts, prepared,
                     applied, rollbackFailures, versions, windowed, overwritten>>
  BY DEF Abort, reviewing, deciding, history
<1>2. /\ applied \subseteq targets /\ targets \subseteq Files
      /\ \A g \in targets : prepared[g].text = preview[g].text
      /\ \A g \in applied : HasEdits(g)
      /\ \A g \in targets \ applied : Original(g)
  BY DEF IInv, TypeOK, Reviewed, Progress, Committing
<1>3. TypeOK'
  BY <1>1, <1>2 DEF IInv, TypeOK, Phases
<1>4. Aged' /\ Previewed' /\ Progress' /\ Window' /\ ForeignKept'
  BY <1>1 DEF IInv, Aged, Previewed, Progress, Window, ForeignKept, Committing
<1>5. Reviewed'
  BY <1>1, <1>2 DEF Reviewed, Committing, RollingBack
<1>6. /\ \A g \in applied : HasEdits(g)'
      /\ \A g \in targets \ applied : Original(g)'
  BY <1>1, <1>2 DEF HasEdits, Original, Newer
<1>7. Regress'
  BY <1>1, <1>6 DEF Regress, RollingBack
<1>8. OutcomeTrue'
  BY <1>1, <1>6 DEF OutcomeTrue, Original
<1>9. QED
  BY <1>3, <1>4, <1>5, <1>7, <1>8 DEF IInv

LEMMA CheckKeeps ==
  ASSUME IInv, NEW f \in Files, Check(f)
  PROVE  IInv'
<1>1. /\ phase = "checking" /\ InOrder(f)
      /\ UNCHANGED <<disk, reviewing, deciding, rollbackFailures, versions,
                     history>>
  BY DEF Check
<1>2. faults' \in Nat
  BY DEF Check, Finds, Misses, Succeeds, Fails, IInv, TypeOK
<1>3. CASE Misses(f, prepared[f]) /\ UNCHANGED applied /\ Abort("conflict")
  BY <1>1, <1>2, <1>3, AbortKeeps DEF Committing
<1>4. CASE Finds(f, prepared[f]) /\ Goes("writing") /\ UNCHANGED <<left, applied>>
  <2>1. /\ phase' = "writing"
        /\ UNCHANGED <<disk, left, preview, targets, previews, conflicts,
                       prepared, applied, rollbackFailures, outcome, versions,
                       windowed, overwritten>>
    BY <1>1, <1>4 DEF Goes, reviewing, deciding, history
  <2>2. TypeOK'
    BY <1>1, <1>2, <2>1 DEF IInv, TypeOK, Phases
  <2>3. left \subseteq Files /\ f \in left /\ f \in targets
    BY <1>1 DEF IInv, TypeOK, Reviewed, Committing, InOrder
  <2>4. disk[f].text = preview[f].text
    BY <1>1, <1>4, <2>3 DEF Finds, SameVersion, IInv, Reviewed, Committing
  <2>5. \A g \in Files : InOrder(g)' => g = f
    BY <1>1, <2>1, <2>3 DEF InOrder
  <2>6. Window'
    BY <2>1, <2>4, <2>5 DEF Window
  <2>7. Progress'
    BY <1>1, <2>1 DEF IInv, Progress, Committing, HasEdits, Original, Newer
  <2>8. Reviewed'
    BY <1>1, <2>1 DEF IInv, Reviewed, Committing, RollingBack
  <2>9. QED
    BY <1>1, <2>1, <2>2, <2>6, <2>7, <2>8 DEF IInv, Aged, Previewed, Regress,
       ForeignKept, OutcomeTrue, RollingBack
<1>5. QED
  BY <1>3, <1>4 DEF Check

LEMMA WriteKeeps ==
  ASSUME IInv, NEW f \in Files, Write(f)
  PROVE  IInv'
<1>1. /\ phase = "writing" /\ InOrder(f)
      /\ UNCHANGED <<reviewing, deciding, rollbackFailures, versions>>
  BY DEF Write
<1>2. CASE Fails /\ UNCHANGED <<disk, history, applied>> /\ Abort("failed")
  <2>1. faults' \in Nat
    BY <1>2 DEF Fails, IInv, TypeOK
  <2>2. QED
    BY <1>1, <1>2, <2>1, AbortKeeps DEF Committing
<1>3. CASE /\ Succeeds /\ Rewrite(f, preview[f].text, Result(f))
           /\ applied' = applied \cup {f} /\ Goes("verifying") /\ UNCHANGED left
  <2>1. /\ phase' = "verifying" /\ applied' = applied \cup {f}
        /\ UNCHANGED <<left, preview, targets, previews, conflicts, prepared,
                       rollbackFailures, outcome, versions, faults>>
    BY <1>1, <1>3 DEF Goes, Succeeds, reviewing, deciding
  <2>2. /\ disk \in [Files -> DiskFiles] /\ prepared \in [Files -> DiskFiles]
        /\ overwritten \subseteq windowed /\ windowed \subseteq Texts
        /\ f \in left /\ left \subseteq targets /\ targets \subseteq Files
        /\ applied = targets \ left /\ rollbackFailures = {}
        /\ outcome = "none"
        /\ \A g \in targets : prepared[g].text = preview[g].text
        /\ \A g \in applied : HasEdits(g)
        /\ \A g \in targets \ applied : Original(g)
    BY <1>1 DEF IInv, TypeOK, ForeignKept, Reviewed, Progress, Committing,
       InOrder
  <2>3. disk[f].text = preview[f].text \/ disk[f].text \in windowed
    BY <1>1 DEF IInv, Window
  <2>4. Result(f) \in Texts /\ Result(f).version = preview[f].text.version
        /\ Result(f) = Edited(preview[f].text)
    BY <2>2, TextType DEF Result
  <2> DEFINE t == Result(f)
  <2> HIDE DEF t
  <2>5. t \in Texts /\ Rewrite(f, preview[f].text, t)
    BY <1>3, <2>4 DEF t
  <2>6. /\ disk' \in [Files -> DiskFiles] /\ disk'[f].text = t
        /\ \A g \in Files \ {f} : disk'[g] = disk[g]
        /\ windowed' = windowed
        /\ overwritten' \subseteq windowed /\ overwritten' \subseteq Texts
    BY <2>2, <2>3, <2>5, RewriteEffect
  <2>7. t = Edited(preview[f].text) /\ t.version = preview[f].text.version
    BY <2>4 DEF t
  <2>8. TypeOK'
    BY <1>1, <2>1, <2>2, <2>6 DEF IInv, TypeOK, Phases
  <2>9. Aged'
    BY <2>1, <2>6, <2>7 DEF IInv, Aged
  <2>10. HasEdits(f)'
    BY <2>1, <2>6, <2>7 DEF HasEdits
  <2>11. ASSUME NEW g \in Files, g # f
         PROVE  HasEdits(g)' = HasEdits(g) /\ Original(g)' = Original(g)
    BY <2>1, <2>6, <2>11 DEF HasEdits, Original, Newer
  <2>12. /\ \A g \in applied' : HasEdits(g)'
         /\ \A g \in targets \ applied' : Original(g)'
    BY <2>1, <2>2, <2>10, <2>11
  <2>13. \A g \in Files : InOrder(g)' => g = f
    BY <1>1, <2>1, <2>2 DEF InOrder
  <2>14. Progress'
    BY <2>1, <2>2, <2>12, <2>13 DEF Progress, Committing
  <2>15. Reviewed'
    BY <2>1, <2>2 DEF Reviewed, Committing, RollingBack
  <2>16. ForeignKept'
    BY <2>6 DEF ForeignKept
  <2>17. QED
    BY <2>1, <2>8, <2>9, <2>14, <2>15, <2>16 DEF IInv, Previewed, Regress,
       Window, OutcomeTrue, RollingBack
<1>4. QED
  BY <1>2, <1>3 DEF Write

LEMMA VerifyKeeps ==
  ASSUME IInv, NEW f \in Files, Verify(f)
  PROVE  IInv'
<1>1. /\ phase = "verifying" /\ InOrder(f) /\ UNCHANGED applied
      /\ UNCHANGED <<disk, reviewing, deciding, rollbackFailures, versions,
                     history>>
  BY DEF Verify
<1>2. faults' \in Nat
  BY DEF Verify, Holds, Lacks, Succeeds, Fails, IInv, TypeOK
<1>3. CASE Lacks(f) /\ Abort("failed")
  BY <1>1, <1>2, <1>3, AbortKeeps DEF Committing
<1>4. CASE /\ Holds(f) /\ left' = left \ {f}
           /\ IF left = {f} THEN Ends("applied") ELSE Goes("checking")
  <2>1. UNCHANGED <<disk, preview, targets, previews, conflicts, prepared,
                    applied, rollbackFailures, versions, windowed, overwritten>>
    BY <1>1 DEF reviewing, deciding, history
  <2>2. /\ f \in left /\ left \subseteq targets /\ targets \subseteq Files
        /\ applied = (targets \ left) \cup {f}
        /\ rollbackFailures = {} /\ outcome = "none"
        /\ \A g \in targets : prepared[g].text = preview[g].text
        /\ \A g \in applied : HasEdits(g)
        /\ \A g \in targets \ applied : Original(g)
    BY <1>1 DEF IInv, TypeOK, Reviewed, Progress, Committing, InOrder
  <2>3. /\ \A g \in applied : HasEdits(g)'
        /\ \A g \in targets \ applied : Original(g)'
    BY <2>1, <2>2 DEF HasEdits, Original, Newer
  <2>4. CASE left = {f}
    <3>1. phase' = "done" /\ outcome' = "applied" /\ left' = {}
          /\ applied = targets
      BY <1>4, <2>2, <2>4 DEF Ends
    <3>2. TypeOK'
      BY <1>2, <2>1, <3>1 DEF IInv, TypeOK, Phases
    <3>3. OutcomeTrue'
      BY <2>1, <2>3, <3>1 DEF OutcomeTrue, HasEdits
    <3>4. QED
      BY <2>1, <3>1, <3>2, <3>3 DEF IInv, Aged, Previewed, Reviewed, Progress,
         Regress, Window, ForeignKept, Committing, RollingBack
  <2>5. CASE left # {f}
    <3>1. phase' = "checking" /\ outcome' = "none" /\ left' = left \ {f}
          /\ applied = targets \ left' /\ left' # {}
      BY <1>4, <2>2, <2>5 DEF Goes
    <3>2. TypeOK'
      BY <1>2, <2>1, <2>2, <3>1 DEF IInv, TypeOK, Phases
    <3>3. Progress'
      BY <2>1, <2>2, <2>3, <3>1 DEF Progress, Committing
    <3>4. Reviewed'
      BY <2>1, <2>2, <3>1 DEF Reviewed, Committing, RollingBack
    <3>5. QED
      BY <2>1, <3>1, <3>2, <3>3, <3>4 DEF IInv, Aged, Previewed, Regress,
         Window, ForeignKept, OutcomeTrue, RollingBack
  <2>6. QED
    BY <2>4, <2>5
<1>5. QED
  BY <1>3, <1>4 DEF Verify

\* The rollback is done with f: it is restored, or listed as a failure.
LEMMA UndoneKeeps ==
  ASSUME IInv, phase \in RollingBack, NEW f \in Files, InReverse(f), Undone(f),
         faults' \in Nat, disk' \in [Files -> DiskFiles],
         \A g \in Files \ {f} : disk'[g] = disk[g],
         disk'[f].text.version <= versions,
         rollbackFailures \subseteq rollbackFailures',
         rollbackFailures' \subseteq Files,
         f \in rollbackFailures' \/ Original(f)',
         windowed' = windowed, overwritten' \subseteq windowed,
         UNCHANGED <<reviewing, deciding, applied, versions>>
  PROVE  IInv'
<1>1. /\ left' = left \ {f} /\ outcome' = outcome
      /\ phase' = IF left = {f} THEN "done" ELSE "undoing"
      /\ UNCHANGED <<preview, targets, previews, conflicts, prepared, applied,
                     versions>>
  BY DEF Undone, Goes, reviewing, deciding
<1>2. /\ f \in left /\ left \subseteq applied /\ left \subseteq targets
      /\ applied \subseteq targets /\ targets \subseteq Files
      /\ outcome # "applied" /\ windowed \subseteq Texts
      /\ \A g \in targets : prepared[g].text = preview[g].text
      /\ \A g \in left : HasEdits(g)
      /\ \A g \in targets \ (left \cup rollbackFailures) : Original(g)
  BY DEF IInv, TypeOK, Reviewed, Regress, InReverse
<1>3. TypeOK'
  BY <1>1, <1>2 DEF IInv, TypeOK, Phases
<1>4. Aged'
  BY <1>1 DEF IInv, Aged
<1>5. ASSUME NEW g \in Files, g # f
      PROVE  HasEdits(g)' = HasEdits(g) /\ Original(g)' = Original(g)
  BY <1>1, <1>5 DEF HasEdits, Original, Newer
<1>6. /\ \A g \in left' : HasEdits(g)'
      /\ \A g \in targets \ (left' \cup rollbackFailures') : Original(g)'
  BY <1>1, <1>2, <1>5
<1>7. Reviewed'
  BY <1>1, <1>2 DEF Reviewed, Committing, RollingBack
<1>8. CASE left = {f}
  <2>1. OutcomeTrue'
    BY <1>1, <1>2, <1>6, <1>8 DEF OutcomeTrue, Original
  <2>2. QED
    BY <1>1, <1>3, <1>4, <1>7, <1>8, <2>1 DEF IInv, Previewed, Progress,
       Regress, Window, ForeignKept, Committing, RollingBack
<1>9. CASE left # {f}
  <2>1. Regress'
    BY <1>1, <1>2, <1>6 DEF Regress
  <2>2. QED
    BY <1>1, <1>3, <1>4, <1>7, <1>9, <2>1 DEF IInv, Previewed, Progress,
       Window, ForeignKept, OutcomeTrue, Committing
<1>10. QED
  BY <1>8, <1>9

LEMMA GivesUpKeeps ==
  ASSUME IInv, phase \in RollingBack, NEW f \in Files, InReverse(f), GivesUp(f),
         faults' \in Nat,
         UNCHANGED <<disk, reviewing, deciding, applied, versions, history>>
  PROVE  IInv'
<1>1. /\ rollbackFailures' = rollbackFailures \cup {f} /\ Undone(f)
      /\ windowed' = windowed /\ overwritten' = overwritten /\ disk' = disk
  BY DEF GivesUp, history
<1>2. /\ disk \in [Files -> DiskFiles] /\ disk[f].text.version <= versions
      /\ rollbackFailures \subseteq Files /\ overwritten \subseteq windowed
  BY DEF IInv, TypeOK, Aged, ForeignKept
<1>3. QED
  BY <1>1, <1>2, UndoneKeeps

LEMMA UndoCheckKeeps ==
  ASSUME IInv, NEW f \in Files, UndoCheck(f)
  PROVE  IInv'
<1>1. /\ phase = "undoing" /\ InReverse(f)
      /\ UNCHANGED <<disk, reviewing, deciding, applied, versions, history>>
  BY DEF UndoCheck
<1>2. faults' \in Nat
  BY DEF UndoCheck, Holds, Lacks, Succeeds, Fails, IInv, TypeOK
<1>3. CASE Lacks(f) /\ GivesUp(f)
  BY <1>1, <1>2, <1>3, GivesUpKeeps DEF RollingBack
<1>4. CASE Holds(f) /\ Goes("restoring") /\ UNCHANGED <<left, rollbackFailures>>
  <2>1. /\ phase' = "restoring" /\ disk[f].text = Result(f)
        /\ UNCHANGED <<disk, left, preview, targets, previews, conflicts,
                       prepared, applied, rollbackFailures, outcome, versions,
                       windowed, overwritten>>
    BY <1>1, <1>4 DEF Goes, Holds, reviewing, deciding, history
  <2>2. TypeOK'
    BY <1>1, <1>2, <2>1 DEF IInv, TypeOK, Phases
  <2>3. \A g \in Files : InReverse(g)' => g = f
    BY <1>1, <2>1 DEF InReverse
  <2>4. Window'
    BY <2>1, <2>3 DEF Window, Result
  <2>5. Regress'
    BY <1>1, <2>1 DEF IInv, Regress, RollingBack, HasEdits, Original, Newer
  <2>6. Reviewed'
    BY <1>1, <2>1 DEF IInv, Reviewed, Committing, RollingBack
  <2>7. QED
    BY <1>1, <2>1, <2>2, <2>4, <2>5, <2>6 DEF IInv, Aged, Previewed, Progress,
       ForeignKept, OutcomeTrue, Committing
<1>5. QED
  BY <1>3, <1>4 DEF UndoCheck

LEMMA RestoreKeeps ==
  ASSUME IInv, NEW f \in Files, Restore(f)
  PROVE  IInv'
<1>1. /\ phase = "restoring" /\ InReverse(f)
      /\ UNCHANGED <<reviewing, deciding, applied, versions>>
  BY DEF Restore
<1>2. faults' \in Nat
  BY DEF Restore, Succeeds, Fails, IInv, TypeOK
<1>3. CASE Fails /\ UNCHANGED <<disk, history>> /\ GivesUp(f)
  BY <1>1, <1>2, <1>3, GivesUpKeeps DEF RollingBack
<1>4. CASE /\ Rewrite(f, Result(f), prepared[f].text)
           /\ UNCHANGED rollbackFailures /\ Undone(f)
  <2>1. /\ disk \in [Files -> DiskFiles] /\ prepared \in [Files -> DiskFiles]
        /\ overwritten \subseteq windowed /\ windowed \subseteq Texts
        /\ rollbackFailures \subseteq Files /\ f \in targets
        /\ prepared[f].text = preview[f].text
        /\ preview[f].text.version <= versions
    BY <1>1 DEF IInv, TypeOK, ForeignKept, Reviewed, RollingBack, Aged,
       InReverse
  <2>2. disk[f].text = Result(f) \/ disk[f].text \in windowed
    BY <1>1 DEF IInv, Window
  <2> DEFINE t == prepared[f].text
  <2>3. t \in Texts /\ t = preview[f].text
    BY <2>1, TextType
  <2> HIDE DEF t
  <2>4. Rewrite(f, Result(f), t)
    BY <1>4 DEF t
  <2>5. /\ disk' \in [Files -> DiskFiles] /\ disk'[f].text = t
        /\ \A g \in Files \ {f} : disk'[g] = disk[g]
        /\ windowed' = windowed
        /\ overwritten' \subseteq windowed /\ overwritten' \subseteq Texts
    BY <2>1, <2>2, <2>3, <2>4, RewriteEffect
  <2>6. preview' = preview
    BY <1>1 DEF reviewing
  <2>7. Original(f)'
    BY <2>3, <2>5, <2>6 DEF Original
  <2>8. disk'[f].text.version <= versions
    BY <2>1, <2>3, <2>5
  <2>9. rollbackFailures' = rollbackFailures
    BY <1>4
  <2>10. QED
    BY <1>1, <1>2, <1>4, <2>1, <2>5, <2>7, <2>8, <2>9, UndoneKeeps
       DEF RollingBack
<1>5. QED
  BY <1>3, <1>4 DEF Restore

LEMMA StutterKeeps ==
  ASSUME IInv, UNCHANGED vars
  PROVE  IInv'
<1>1. UNCHANGED <<disk, phase, left, preview, targets, previews, conflicts,
                  prepared, applied, rollbackFailures, outcome, versions,
                  faults, windowed, overwritten>>
  BY DEF vars, reviewing, deciding, committing, history
<1>2. QED
  BY <1>1 DEF IInv, TypeOK, Aged, Previewed, Reviewed, Progress, Regress,
     Window, ForeignKept, OutcomeTrue, Original, HasEdits, Newer, InOrder,
     InReverse, Result

LEMMA StepKeeps == IInv /\ [Next]_vars => IInv'
<1>1. SUFFICES ASSUME IInv, [Next]_vars PROVE IInv'
  OBVIOUS
<1>2. CASE \E f \in Files : OtherWrites(f)
  BY <1>1, <1>2, OtherWritesKeeps
<1>3. CASE Preview \/ Dies \/ \E chosen \in SUBSET Files : Confirm(chosen)
  BY <1>1, <1>3, PreviewKeeps, DiesKeeps, ConfirmKeeps
<1>4. ASSUME NEW f \in Files, Step(f) PROVE IInv'
  <2>1. CASE PreviewReads(f) \/ Validate(f)
    BY <1>1, <2>1, PreviewReadsKeeps, ValidateKeeps
  <2>2. CASE Check(f) \/ Write(f) \/ Verify(f)
    BY <1>1, <2>2, CheckKeeps, WriteKeeps, VerifyKeeps
  <2>3. CASE UndoCheck(f) \/ Restore(f)
    BY <1>1, <2>3, UndoCheckKeeps, RestoreKeeps
  <2>4. QED
    BY <1>4, <2>1, <2>2, <2>3 DEF Step
<1>5. CASE UNCHANGED vars
  BY <1>1, <1>5, StutterKeeps
<1>6. QED
  BY <1>1, <1>2, <1>3, <1>4, <1>5 DEF Next

LEMMA Invariance == Spec => []IInv
BY InitHolds, StepKeeps, PTL DEF Spec

-----------------------------------------------------------------------------
(* The promises *)

\* The dialog and the transaction keep to their types, and never wait for a file
\* when none is left.
THEOREM EditTypes == Spec => []TypeOK
<1>1. IInv => TypeOK
  BY DEF IInv
<1>2. QED
  BY <1>1, Invariance, PTL

\* For any edit, any faults and any writes by other programs: what is replaced is
\* what the user has reviewed or the transaction's own text; another program's
\* text is lost only between the last read of a file and its rename.
THEOREM OthersKeepTheirText == Spec => []ForeignKept
<1>1. IInv => ForeignKept
  BY DEF IInv
<1>2. QED
  BY <1>1, Invariance, PTL

\* For any edit, any faults and any writes by other programs: the outcome and the
\* rollback failures tell what the confirmed files hold.
THEOREM ReportIsTrue == Spec => []OutcomeTrue
<1>1. IInv => OutcomeTrue
  BY DEF IInv
<1>2. QED
  BY <1>1, Invariance, PTL

-----------------------------------------------------------------------------
(* The transaction keeps the promise of ReviewedEdit. *)

\* A step of the reviewed edit, or none.
Moves == [Promise!Next]_(Promise!vars)

Holding == [f \in Files |-> Held(f)]

LEMMA HeldAside ==
  ASSUME NEW f, disk'[f] = disk[f], preview'[f] = preview[f]
  PROVE  Held(f)' = Held(f)
BY DEF Held

LEMMA HoldingAside ==
  ASSUME UNCHANGED <<disk, preview>>
  PROVE  Holding' = Holding
BY DEF Holding, Held

\* One file comes to hold h.
LEMMA HoldingNext ==
  ASSUME NEW f \in Files, NEW h, Held(f)' = h,
         \A g \in Files \ {f} : disk'[g] = disk[g] /\ preview'[g] = preview[g]
  PROVE  Promise!Becomes(f, h)
<1>1. \A g \in Files \ {f} : Held(g)' = Held(g)
  BY DEF Held
<1>2. Holding' = [Holding EXCEPT ![f] = h]
  BY <1>1 DEF Holding
<1> QED
  BY <1>2 DEF Holding, Promise!Becomes

LEMMA EditedDiffers ==
  ASSUME NEW t \in Texts
  PROVE  Edited(t) # t /\ Edited(t).version = t.version
BY DEF Edited, Texts

\* Where the edit stands, phase by phase.
LEMMA Standing ==
  /\ phase \in {"closed", "previewing", "ready", "done"} =>
       Stage = "idle" /\ Passed = {} /\ Pending = {}
  /\ phase = "validating" =>
       Stage = "deciding" /\ Passed = targets \ (left \cup conflicts) /\ Pending = {}
  /\ phase \in Committing => Stage = "forward" /\ Passed = {} /\ Pending = applied
  /\ phase \in RollingBack => Stage = "back" /\ Passed = {} /\ Pending = left
BY DEF Stage, Passed, Pending, Committing, RollingBack

LEMMA StandingThen ==
  /\ phase' \in {"closed", "previewing", "ready", "done"} =>
       Stage' = "idle" /\ Passed' = {} /\ Pending' = {}
  /\ phase' = "validating" =>
       Stage' = "deciding" /\ Passed' = targets' \ (left' \cup conflicts') /\ Pending' = {}
  /\ phase' \in Committing => Stage' = "forward" /\ Passed' = {} /\ Pending' = applied'
  /\ phase' \in RollingBack => Stage' = "back" /\ Passed' = {} /\ Pending' = left'
BY DEF Stage, Passed, Pending, Committing, RollingBack

\* Nothing the promise speaks of has changed.
LEMMA StandsStill ==
  ASSUME UNCHANGED <<disk, preview, targets, rollbackFailures, outcome>>,
         Stage' = Stage, Passed' = Passed, Pending' = Pending
  PROVE  Moves
BY HoldingAside DEF Moves, Promise!vars, Holding

LEMMA OthersMove ==
  ASSUME IInv, NEW f \in Files, OtherWrites(f)
  PROVE  Moves
<1> DEFINE w == Written(versions + 1)
<1>1. /\ Put(f, w)
      /\ UNCHANGED <<phase, left, preview, targets, conflicts, applied,
                     rollbackFailures, outcome>>
  BY DEF OtherWrites, reviewing, deciding, committing
<1>2. /\ disk \in [Files -> DiskFiles] /\ preview \in [Files -> DiskFiles]
      /\ versions \in Nat /\ preview[f].text \in Texts
      /\ preview[f].text.version <= versions
  BY TextType DEF IInv, TypeOK, Aged
<1>3. w \in Texts /\ w.version = versions + 1
  BY <1>2, TextType
<1> HIDE DEF w
<1>4. disk'[f].text = w /\ \A g \in Files \ {f} : disk'[g] = disk[g]
  BY <1>1, <1>2, <1>3, PutEffect
<1>5. preview[f].text.version \in Nat
  BY <1>2 DEF Texts
<1>6. w # preview[f].text /\ w # Edited(preview[f].text)
  BY <1>2, <1>3, <1>5, EditedDiffers
<1>7. Held(f)' = "other"
  BY <1>1, <1>4, <1>6 DEF Held
<1>8. Promise!Becomes(f, "other")
  BY <1>1, <1>4, <1>7, HoldingNext
<1>9. Stage' = Stage /\ Passed' = Passed /\ Pending' = Pending
  BY <1>1 DEF Stage, Passed, Pending
<1>10. Promise!Others(f)
  BY <1>1, <1>8, <1>9 DEF Promise!Others
<1> QED
  BY <1>10 DEF Moves, Promise!Next

LEMMA PreviewReadsMoves ==
  ASSUME IInv, NEW f \in Files, PreviewReads(f)
  PROVE  Moves
<1>1. /\ phase = "previewing" /\ phase' \in {"previewing", "ready", "closed"}
      /\ UNCHANGED <<disk, targets, rollbackFailures, outcome>>
      /\ \/ preview' = [preview EXCEPT ![f] = disk[f]]
         \/ preview' = preview
  BY DEF PreviewReads, committing
<1>2. /\ Stage = "idle" /\ Passed = {} /\ Pending = {}
      /\ Stage' = "idle" /\ Passed' = {} /\ Pending' = {}
  BY <1>1, Standing, StandingThen
<1>3. CASE preview' = preview
  BY <1>1, <1>2, <1>3, StandsStill
<1>4. CASE preview' = [preview EXCEPT ![f] = disk[f]]
  <2>1. preview'[f] = disk[f] /\ \A g \in Files \ {f} : preview'[g] = preview[g]
    BY <1>4 DEF IInv, TypeOK
  <2>2. Held(f)' = "reviewed"
    BY <1>1, <2>1 DEF Held
  <2>3. Promise!Becomes(f, "reviewed")
    BY <1>1, <2>1, <2>2, HoldingNext
  <2>4. Promise!Review(f)
    BY <1>1, <1>2, <2>3 DEF Promise!Review
  <2> QED
    BY <2>4 DEF Moves, Promise!Next
<1> QED
  BY <1>1, <1>3, <1>4

LEMMA ConfirmMoves ==
  ASSUME NEW files \in SUBSET Files, Confirm(files)
  PROVE  Moves
<1>1. /\ phase = "ready" /\ phase' = "validating" /\ files # {}
      /\ targets' = files /\ left' = files /\ outcome' = "none"
      /\ rollbackFailures' = {} /\ UNCHANGED <<disk, preview>>
  BY DEF Confirm
<1>2. /\ Stage = "idle" /\ Passed = {} /\ Pending = {}
      /\ Stage' = "deciding" /\ Passed' = {} /\ Pending' = {}
  BY <1>1, Standing, StandingThen
<1>3. Promise!Choose(files)
  BY <1>1, <1>2, HoldingAside DEF Promise!Choose, Holding
<1> QED
  BY <1>3 DEF Moves, Promise!Next

LEMMA DiesMoves ==
  ASSUME Dies
  PROVE  Moves
<1>1. /\ phase' = "closed"
      /\ UNCHANGED <<disk, preview, targets, rollbackFailures, outcome>>
  BY DEF Dies, reviewing, committing
<1>2. Stage' = "idle" /\ Passed' = {} /\ Pending' = {}
  BY <1>1, StandingThen
<1>3. Promise!Die
  BY <1>1, <1>2, HoldingAside DEF Promise!Die, Holding
<1> QED
  BY <1>3 DEF Moves, Promise!Next

LEMMA PreviewMoves ==
  ASSUME Preview
  PROVE  Moves
<1>1. /\ phase \in {"closed", "previewing", "ready", "done"} /\ phase' = "previewing"
      /\ UNCHANGED <<disk, preview, targets, rollbackFailures, outcome>>
  BY DEF Preview, committing
<1>2. Stage' = Stage /\ Passed' = Passed /\ Pending' = Pending
  BY <1>1, Standing, StandingThen
<1> QED
  BY <1>1, <1>2, StandsStill

\* Validation finds the targets as they were reviewed, or does not; behind the
\* last one the edit goes forward only if it has found them all.
LEMMA ValidateMoves ==
  ASSUME IInv, NEW f \in Files, Validate(f)
  PROVE  Moves
<1>1. /\ phase = "validating" /\ InOrder(f)
      /\ UNCHANGED <<disk, preview, targets, applied, rollbackFailures>>
  BY DEF Validate, reviewing
<1>2. /\ left \subseteq targets /\ conflicts \subseteq targets /\ applied = {}
      /\ f \in left
  BY <1>1 DEF IInv, Reviewed, InOrder
<1>3. Stage = "deciding" /\ Passed = targets \ (left \cup conflicts) /\ Pending = {}
  BY <1>1, Standing
<1>4. Holding' = Holding
  BY <1>1, HoldingAside
<1>5. ASSUME phase' = "done", outcome' \in {"conflict", "failed"} PROVE Moves
  <2>1. Stage' = "idle" /\ Passed' = {} /\ Pending' = {}
    BY <1>5, StandingThen
  <2>2. Promise!Refuse(outcome')
    BY <1>1, <1>3, <1>4, <2>1 DEF Promise!Refuse, Holding
  <2> QED
    BY <1>5, <2>2 DEF Moves, Promise!Next
<1>6. CASE /\ Finds(f, preview[f]) /\ UNCHANGED conflicts /\ Validated(f)
  <2>1. Held(f) = "reviewed"
    BY <1>6 DEF Finds, SameVersion, Held
  <2>2. CASE left # {f} /\ Goes("validating")
    <3>1. left' = left \ {f} /\ left' # {} /\ phase' = "validating" /\ outcome' = outcome
      BY <1>2, <1>6, <2>2 DEF Validated, Goes
    <3>2. /\ Stage' = "deciding" /\ Pending' = {}
          /\ Passed' = targets \ ((left \ {f}) \cup conflicts)
      BY <1>1, <1>6, <3>1, StandingThen
    <3>3. CASE f \in conflicts
      <4>1. Passed' = Passed
        BY <1>3, <3>2, <3>3
      <4> QED
        BY <1>1, <1>3, <3>1, <3>2, <4>1, StandsStill
    <3>4. CASE f \notin conflicts
      <4>1. Passed' = Passed \cup {f} /\ Passed \cup {f} # targets
        BY <1>2, <1>3, <3>1, <3>2, <3>4
      <4>2. Promise!Pass(f)
        BY <1>1, <1>2, <1>3, <1>4, <2>1, <3>1, <3>2, <4>1 DEF Promise!Pass, Holding
      <4> QED
        BY <4>2 DEF Moves, Promise!Next
    <3> QED
      BY <3>3, <3>4
  <2>3. CASE left = {f} /\ conflicts' = {} /\ Goes("checking")
    <3>1. phase' = "checking" /\ outcome' = outcome
      BY <2>3 DEF Goes
    <3>2. Stage' = "forward" /\ Passed' = {} /\ Pending' = {}
      BY <1>1, <1>2, <3>1, StandingThen DEF Committing
    <3>3. Passed \cup {f} = targets
      BY <1>2, <1>3, <1>6, <2>3
    <3>4. Promise!Pass(f)
      BY <1>1, <1>2, <1>3, <1>4, <2>1, <3>1, <3>2, <3>3 DEF Promise!Pass, Holding
    <3> QED
      BY <3>4 DEF Moves, Promise!Next
  <2>4. CASE Ends("conflict")
    BY <1>5, <2>4 DEF Ends
  <2> QED
    BY <1>6, <2>2, <2>3, <2>4 DEF Validated
<1>7. CASE conflicts' = conflicts \cup {f} /\ Validated(f)
  <2>1. CASE left # {f} /\ Goes("validating")
    <3>1. left' = left \ {f} /\ phase' = "validating" /\ outcome' = outcome
      BY <1>7, <2>1 DEF Validated, Goes
    <3>2. Stage' = "deciding" /\ Pending' = {} /\ Passed' = Passed
      BY <1>1, <1>2, <1>3, <1>7, <3>1, StandingThen
    <3> QED
      BY <1>1, <1>3, <3>1, <3>2, StandsStill
  <2>2. CASE Ends("conflict")
    BY <1>5, <2>2 DEF Ends
  <2> QED
    BY <1>7, <2>1, <2>2 DEF Validated
<1>8. CASE Ends("failed")
  BY <1>5, <1>8 DEF Ends
<1> QED
  BY <1>6, <1>7, <1>8 DEF Validate

LEMMA AbortMoves ==
  ASSUME phase \in Committing, NEW o \in {"conflict", "failed"}, Abort(o),
         UNCHANGED <<disk, reviewing, applied, rollbackFailures>>
  PROVE  Moves
<1>1. /\ outcome' = o /\ left' = applied
      /\ phase' = IF applied = {} THEN "done" ELSE "undoing"
      /\ UNCHANGED <<disk, preview, targets, rollbackFailures>>
  BY DEF Abort, reviewing
<1>2. Stage = "forward" /\ Passed = {} /\ Pending = applied
  BY Standing
<1>3. Stage' = (IF applied = {} THEN "idle" ELSE "back") /\ Passed' = {} /\ Pending' = applied
  <2>1. CASE applied = {}
    BY <1>1, <2>1, StandingThen
  <2>2. CASE applied # {}
    BY <1>1, <2>2, StandingThen DEF RollingBack
  <2> QED
    BY <2>1, <2>2
<1>4. Promise!Turn(o)
  BY <1>1, <1>2, <1>3, HoldingAside DEF Promise!Turn, Holding
<1> QED
  BY <1>4 DEF Moves, Promise!Next

LEMMA CheckMoves ==
  ASSUME NEW f \in Files, Check(f)
  PROVE  Moves
<1>1. phase = "checking" /\ UNCHANGED <<disk, reviewing, deciding, rollbackFailures>>
  BY DEF Check
<1>2. CASE UNCHANGED applied /\ Abort("conflict")
  BY <1>1, <1>2, AbortMoves DEF Committing
<1>3. CASE Goes("writing") /\ UNCHANGED <<left, applied>>
  <2>1. phase' = "writing" /\ UNCHANGED <<preview, targets, outcome>>
    BY <1>1, <1>3 DEF Goes, reviewing
  <2>2. Stage' = Stage /\ Passed' = Passed /\ Pending' = Pending
    BY <1>1, <1>3, <2>1, Standing, StandingThen DEF Committing
  <2> QED
    BY <1>1, <2>1, <2>2, StandsStill
<1> QED
  BY <1>2, <1>3 DEF Check

LEMMA WriteMoves ==
  ASSUME IInv, NEW f \in Files, Write(f)
  PROVE  Moves
<1>1. /\ phase = "writing" /\ InOrder(f)
      /\ UNCHANGED <<preview, targets, conflicts, rollbackFailures>>
      /\ UNCHANGED reviewing
  BY DEF Write, reviewing, deciding
<1>2. CASE UNCHANGED <<disk, applied>> /\ Abort("failed")
  BY <1>1, <1>2, AbortMoves DEF Committing
<1>3. CASE /\ Rewrite(f, preview[f].text, Result(f))
           /\ applied' = applied \cup {f} /\ Goes("verifying") /\ UNCHANGED left
  <2>1. phase' = "verifying" /\ outcome' = outcome /\ Put(f, Result(f))
    BY <1>3 DEF Goes, Rewrite
  <2>2. /\ disk \in [Files -> DiskFiles] /\ f \in left /\ left \subseteq targets
        /\ targets \subseteq Files /\ applied = targets \ left
        /\ preview[f].text \in Texts /\ prepared[f].text = preview[f].text
    BY <1>1, TextType DEF IInv, TypeOK, Reviewed, Progress, Committing, InOrder
  <2>3. Result(f) = Edited(preview[f].text) /\ Result(f) \in Texts
    BY <2>2, TextType DEF Result
  <2> DEFINE t == Result(f)
  <2> HIDE DEF t
  <2>4. t \in Texts /\ Put(f, t) /\ t = Edited(preview[f].text)
    BY <2>1, <2>3 DEF t
  <2>5. disk'[f].text = t /\ \A g \in Files \ {f} : disk'[g] = disk[g]
    BY <2>2, <2>4, PutEffect
  <2>6. Held(f)' = "edited"
    BY <1>1, <2>2, <2>4, <2>5, EditedDiffers DEF Held
  <2>7. Promise!Becomes(f, "edited")
    BY <1>1, <2>5, <2>6, HoldingNext
  <2>8. /\ Stage = "forward" /\ Passed = {} /\ Pending = applied
        /\ Stage' = "forward" /\ Passed' = {} /\ Pending' = applied \cup {f}
    BY <1>1, <1>3, <2>1, Standing, StandingThen DEF Committing
  <2>9. targets \ applied = left /\ \A g \in left : f <= g
    BY <1>1, <2>2 DEF InOrder
  <2>10. Promise!Edit(f)
    BY <1>1, <2>1, <2>2, <2>7, <2>8, <2>9 DEF Promise!Edit
  <2> QED
    BY <2>10 DEF Moves, Promise!Next
<1> QED
  BY <1>2, <1>3 DEF Write, history

LEMMA VerifyMoves ==
  ASSUME IInv, NEW f \in Files, Verify(f)
  PROVE  Moves
<1>1. /\ phase = "verifying" /\ InOrder(f)
      /\ UNCHANGED <<disk, preview, targets, applied, rollbackFailures>>
      /\ UNCHANGED reviewing
  BY DEF Verify, reviewing
<1>2. Stage = "forward" /\ Passed = {} /\ Pending = applied
  BY <1>1, Standing DEF Committing
<1>3. CASE Abort("failed")
  BY <1>1, <1>3, AbortMoves DEF Committing
<1>4. CASE left = {f} /\ Ends("applied")
  <2>1. applied = targets
    BY <1>1, <1>4 DEF IInv, Reviewed, Progress, Committing
  <2>2. phase' = "done" /\ outcome' = "applied"
    BY <1>4 DEF Ends
  <2>3. Stage' = "idle" /\ Passed' = {} /\ Pending' = {}
    BY <2>2, StandingThen
  <2>4. Promise!Finish
    BY <1>1, <1>2, <2>1, <2>2, <2>3, HoldingAside DEF Promise!Finish, Holding
  <2> QED
    BY <2>4 DEF Moves, Promise!Next
<1>5. CASE Goes("checking")
  <2>1. phase' = "checking" /\ outcome' = outcome
    BY <1>5 DEF Goes
  <2>2. Stage' = Stage /\ Passed' = Passed /\ Pending' = Pending
    BY <1>1, <1>2, <2>1, StandingThen DEF Committing
  <2> QED
    BY <1>1, <2>1, <2>2, StandsStill
<1> QED
  BY <1>3, <1>4, <1>5 DEF Verify

\* The rollback is done with the last of its files.
LEMMA LeavesMove ==
  ASSUME phase \in RollingBack, NEW f \in Files, InReverse(f), Undone(f),
         UNCHANGED <<targets>>
  PROVE  Promise!Leaves(f)
<1>1. /\ left' = left \ {f} /\ outcome' = outcome /\ f \in left
      /\ phase' = IF left = {f} THEN "done" ELSE "undoing"
      /\ \A g \in left : g <= f
  BY DEF Undone, Goes, InReverse
<1>2. Stage = "back" /\ Passed = {} /\ Pending = left
  BY Standing
<1>3. CASE left = {f}
  <2>1. Stage' = "idle" /\ Passed' = {} /\ Pending' = {}
    BY <1>1, <1>3, StandingThen
  <2> QED
    BY <1>1, <1>2, <1>3, <2>1 DEF Promise!Leaves
<1>4. CASE left # {f}
  <2>1. Stage' = "back" /\ Passed' = {} /\ Pending' = left \ {f}
    BY <1>1, <1>4, StandingThen DEF RollingBack
  <2> QED
    BY <1>1, <1>2, <1>4, <2>1 DEF Promise!Leaves
<1> QED
  BY <1>3, <1>4

LEMMA GivesUpMoves ==
  ASSUME phase \in RollingBack, NEW f \in Files, InReverse(f), GivesUp(f),
         UNCHANGED <<disk, reviewing>>
  PROVE  Moves
<1>1. rollbackFailures' = rollbackFailures \cup {f} /\ Undone(f)
      /\ UNCHANGED <<disk, preview, targets>>
  BY DEF GivesUp, reviewing
<1>2. Promise!Leaves(f)
  BY <1>1, LeavesMove
<1>3. Promise!Name(f)
  BY <1>1, <1>2, HoldingAside DEF Promise!Name, Holding
<1> QED
  BY <1>3 DEF Moves, Promise!Next

LEMMA UndoCheckMoves ==
  ASSUME NEW f \in Files, UndoCheck(f)
  PROVE  Moves
<1>1. phase = "undoing" /\ InReverse(f) /\ UNCHANGED <<disk, reviewing>>
  BY DEF UndoCheck
<1>2. CASE GivesUp(f)
  BY <1>1, <1>2, GivesUpMoves DEF RollingBack
<1>3. CASE Goes("restoring") /\ UNCHANGED <<left, rollbackFailures>>
  <2>1. phase' = "restoring" /\ UNCHANGED <<preview, targets, outcome>>
    BY <1>1, <1>3 DEF Goes, reviewing
  <2>2. Stage' = Stage /\ Passed' = Passed /\ Pending' = Pending
    BY <1>1, <1>3, <2>1, Standing, StandingThen DEF RollingBack
  <2> QED
    BY <1>1, <1>3, <2>1, <2>2, StandsStill
<1> QED
  BY <1>2, <1>3 DEF UndoCheck

LEMMA RestoreMoves ==
  ASSUME IInv, NEW f \in Files, Restore(f)
  PROVE  Moves
<1>1. /\ phase = "restoring" /\ InReverse(f) /\ UNCHANGED <<preview, targets>>
      /\ UNCHANGED reviewing
  BY DEF Restore, reviewing
<1>2. CASE UNCHANGED disk /\ GivesUp(f)
  BY <1>1, <1>2, GivesUpMoves DEF RollingBack
<1>3. CASE /\ Rewrite(f, Result(f), prepared[f].text)
           /\ UNCHANGED rollbackFailures /\ Undone(f)
  <2>1. /\ disk \in [Files -> DiskFiles] /\ preview[f].text \in Texts
        /\ prepared[f].text = preview[f].text
    BY <1>1, TextType DEF IInv, TypeOK, Reviewed, RollingBack, InReverse
  <2>2. Put(f, preview[f].text)
    BY <1>3, <2>1 DEF Rewrite
  <2> DEFINE t == preview[f].text
  <2>3. t \in Texts /\ Put(f, t)
    BY <2>1, <2>2
  <2> HIDE DEF t
  <2>4. disk'[f].text = t /\ \A g \in Files \ {f} : disk'[g] = disk[g]
    BY <2>1, <2>3, PutEffect
  <2>5. Held(f)' = "reviewed"
    BY <1>1, <2>4 DEF Held, t
  <2>6. Promise!Becomes(f, "reviewed")
    BY <1>1, <2>4, <2>5, HoldingNext
  <2>7. Promise!Leaves(f)
    BY <1>1, <1>3, LeavesMove DEF RollingBack
  <2>8. Promise!TakeBack(f)
    BY <1>3, <2>6, <2>7 DEF Promise!TakeBack
  <2> QED
    BY <2>8 DEF Moves, Promise!Next
<1> QED
  BY <1>2, <1>3 DEF Restore, history

LEMMA EveryStepMoves == IInv /\ [Next]_vars => Moves
<1> SUFFICES ASSUME IInv, [Next]_vars PROVE Moves
  OBVIOUS
<1>1. CASE \E f \in Files : OtherWrites(f)
  BY <1>1, OthersMove
<1>2. CASE Preview \/ Dies \/ \E chosen \in SUBSET Files : Confirm(chosen)
  BY <1>2, PreviewMoves, DiesMoves, ConfirmMoves
<1>3. ASSUME NEW f \in Files, Step(f) PROVE Moves
  <2>1. CASE PreviewReads(f) \/ Validate(f)
    BY <2>1, PreviewReadsMoves, ValidateMoves
  <2>2. CASE Check(f) \/ Write(f) \/ Verify(f)
    BY <2>2, CheckMoves, WriteMoves, VerifyMoves
  <2>3. CASE UndoCheck(f) \/ Restore(f)
    BY <2>3, UndoCheckMoves, RestoreMoves
  <2> QED
    BY <1>3, <2>1, <2>2, <2>3 DEF Step
<1>4. CASE UNCHANGED vars
  <2>1. UNCHANGED <<disk, phase, left, preview, targets, conflicts, applied,
                    rollbackFailures, outcome>>
    BY <1>4 DEF vars, reviewing, deciding, committing
  <2>2. Stage' = Stage /\ Passed' = Passed /\ Pending' = Pending
    BY <2>1 DEF Stage, Passed, Pending
  <2> QED
    BY <2>1, <2>2, StandsStill
<1> QED
  BY <1>1, <1>2, <1>3, <1>4 DEF Next

\* For any edit, any faults and any writes by other programs: only confirmed files
\* are edited, after all of them were found as reviewed, in order and once; and the
\* way back, if one write fails, is the other way round and names what it must
\* leave (apply_text_edits, rollback).
THEOREM ReviewIsKept == Spec => OnlyReviewed
<1>1. Init => Promise!Init
  <2> SUFFICES ASSUME Init PROVE Promise!Init
    OBVIOUS
  <2>1. Stage = "idle" /\ Passed = {} /\ Pending = {}
    BY Standing DEF Init
  <2>2. \A f \in Files : Held(f) = "reviewed"
    BY DEF Init, Held
  <2> QED
    BY <2>1, <2>2 DEF Init, Promise!Init
<1>2. IInv /\ [Next]_vars => [Promise!Next]_(Promise!vars)
  BY EveryStepMoves DEF Moves
<1> QED
  BY <1>1, <1>2, Invariance, PTL DEF Spec, OnlyReviewed, Promise!Spec

===============================================================================
