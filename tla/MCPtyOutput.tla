----------------------------- MODULE MCPtyOutput -----------------------------
(***************************************************************************)
(* Instance of PtyOutput for TLC: two shares and two captures of a short   *)
(* output, or one share of an output long enough to overflow the buffer.   *)
(* A waiter that gives up on the reader is followed for a short output of  *)
(* a pane that stays shown, with one share and one capture.  No step that  *)
(* is cut off here lets a behaviour rest where fairness asks for more, so  *)
(* the scope refutes no liveness; it only leaves behaviours unexplored.    *)
(***************************************************************************)
EXTENDS PtyOutput

OneShare == shares + (IF starting THEN 1 ELSE 0) <= 1 /\ capture.token <= 1
PaneStays == pane = "shown"

GivenUp == reader = "reading" /\ waiter \notin {"waiting", "joining"}

PipelineScope ==
  /\ read <= 2 \/ (OneShare /\ PaneStays /\ capture.token = 0)
  /\ GivenUp => read <= 2 /\ OneShare /\ PaneStays
==============================================================================
