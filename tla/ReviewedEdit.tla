----------------------------- MODULE ReviewedEdit -----------------------------
(***************************************************************************)
(* What an edit of several files promises the user who reviews it          *)
(* (docs/architecture/adr-004-lsp-workspace-edit-transactions.md:26-28).   *)
(* Only confirmed files are changed, and none before every one of them was *)
(* found as it was reviewed.  Each is edited once, in the order of the     *)
(* paths.  An edit that cannot go on takes its files back the other way    *)
(* round, and goes forward no more; a file it cannot take back it names.   *)
(* It ends as applied only when all files have been edited.  Meanwhile     *)
(* other programs write what and when they want.                           *)
(***************************************************************************)
EXTENDS Naturals

CONSTANTS
  Files   \* numbered in the order of their paths

VARIABLES
  holds,   \* what each file holds: the "reviewed" text, the "edited" one, or
           \* some "other"
  stage,   \* of the edit
  chosen,  \* the files the user has confirmed
  passed,  \* those found as they were reviewed
  edited,  \* those edited, and not dealt with by the way back
  named,   \* those that could not be taken back
  result

vars == <<holds, stage, chosen, passed, edited, named, result>>

Init ==
  /\ holds = [f \in Files |-> "reviewed"]
  /\ stage = "idle" /\ result = "none"
  /\ chosen = {} /\ passed = {} /\ edited = {} /\ named = {}

Becomes(f, h) == holds' = [holds EXCEPT ![f] = h]

Others(f) ==
  /\ Becomes(f, "other")
  /\ UNCHANGED <<stage, chosen, passed, edited, named, result>>

\* The user sees what f holds now.
Review(f) ==
  /\ stage = "idle" /\ Becomes(f, "reviewed")
  /\ UNCHANGED <<stage, chosen, passed, edited, named, result>>

Choose(files) ==
  /\ stage = "idle" /\ files # {}
  /\ stage' = "deciding" /\ chosen' = files /\ result' = "none"
  /\ named' = {}
  /\ UNCHANGED <<holds, passed, edited>>

Pass(f) ==
  /\ stage = "deciding" /\ f \in chosen /\ holds[f] = "reviewed"
  /\ IF passed \cup {f} = chosen
     THEN stage' = "forward" /\ passed' = {}
     ELSE passed' = passed \cup {f} /\ UNCHANGED stage
  /\ UNCHANGED <<holds, chosen, edited, named, result>>

Refuse(reason) ==
  /\ stage = "deciding" /\ stage' = "idle"
  /\ passed' = {} /\ result' = reason
  /\ UNCHANGED <<holds, chosen, edited, named>>

Edit(f) ==
  /\ stage = "forward" /\ f \in chosen \ edited
  /\ \A g \in chosen \ edited : f <= g
  /\ Becomes(f, "edited") /\ edited' = edited \cup {f}
  /\ UNCHANGED <<stage, chosen, passed, named, result>>

Finish ==
  /\ stage = "forward" /\ edited = chosen
  /\ stage' = "idle" /\ result' = "applied" /\ edited' = {}
  /\ UNCHANGED <<holds, chosen, passed, named>>

Turn(reason) ==
  /\ stage = "forward" /\ result' = reason
  /\ stage' = IF edited = {} THEN "idle" ELSE "back"
  /\ UNCHANGED <<holds, chosen, passed, edited, named>>

\* The last file that is still edited is dealt with.
Leaves(f) ==
  /\ stage = "back" /\ f \in edited /\ \A g \in edited : g <= f
  /\ edited' = edited \ {f}
  /\ stage' = IF edited = {f} THEN "idle" ELSE "back"
  /\ UNCHANGED <<chosen, passed, result>>

TakeBack(f) == Leaves(f) /\ Becomes(f, "reviewed") /\ UNCHANGED named
Name(f)     == Leaves(f) /\ named' = named \cup {f} /\ UNCHANGED holds

\* The application dies, and leaves the files as they are.
Die ==
  /\ stage' = "idle" /\ passed' = {} /\ edited' = {}
  /\ UNCHANGED <<holds, chosen, named, result>>

Next ==
  \/ \E f \in Files : \/ Others(f) \/ Review(f) \/ Pass(f) \/ Edit(f)
                      \/ TakeBack(f) \/ Name(f)
  \/ \E files \in SUBSET Files : Choose(files)
  \/ \E reason \in {"conflict", "failed"} : Refuse(reason) \/ Turn(reason)
  \/ Finish \/ Die

Spec == Init /\ [][Next]_vars
===============================================================================
