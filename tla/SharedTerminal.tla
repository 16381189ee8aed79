---------------------------- MODULE SharedTerminal ----------------------------
(***************************************************************************)
(* What a shared terminal promises its guest, whatever connections fail,   *)
(* lag and come back in between.  The frames of the terminal are applied   *)
(* one by one, each once; only a screen that was captured may stand for    *)
(* those before it, and only as the first thing on a connection.  What is  *)
(* typed enters the shell in the order it was typed, at most once, and     *)
(* only while somebody holds control; control changes hands by a grant and *)
(* is otherwise only lost.  Once the share is closed nothing is published, *)
(* granted or entered any more.                                            *)
(***************************************************************************)
EXTENDS Naturals, Sequences

CONSTANTS
  People,     \* who may hold control
  NoOne

VARIABLES
  over,       \* has the share been closed?
  published,  \* the frames of the terminal so far
  applied,    \* the last frame on the guest's screen
  feed,       \* what its connection brings next: "none" (there is no
              \* connection), a captured "screen", or the "stream"
  holder,     \* who is in control
  issued,     \* how many commands the guest's user has given
  entered     \* the numbers of those the shell was given as input, in order

vars == <<over, published, applied, feed, holder, issued, entered>>

Init ==
  /\ over = FALSE /\ published = 0 /\ applied = 0 /\ feed = "none"
  /\ holder = NoOne /\ issued = 0 /\ entered = <<>>

\* Whoever lags behind loses its place, and control with it.
MayLose == holder' \in {holder, NoOne}

Publish ==
  /\ ~over /\ published' = published + 1 /\ MayLose
  /\ UNCHANGED <<over, applied, feed, issued, entered>>

Grant(p) ==
  /\ ~over /\ holder' \in {p, NoOne}
  /\ UNCHANGED <<over, published, applied, feed, issued, entered>>

Lose ==
  /\ MayLose
  /\ UNCHANGED <<over, published, applied, feed, issued, entered>>

Connect ==
  /\ feed = "none" /\ feed' \in {"screen", "stream"}
  /\ UNCHANGED <<over, published, applied, holder, issued, entered>>

Disconnect ==
  /\ feed' = "none"
  /\ UNCHANGED <<over, published, applied, holder, issued, entered>>

\* The end of the terminal is a frame, and the last thing on its connection.
Apply ==
  /\ feed = "stream" /\ feed' \in {"stream", "none"}
  /\ applied' = applied + 1 /\ applied' <= published
  /\ UNCHANGED <<over, published, holder, issued, entered>>

Restore ==
  /\ feed = "screen" /\ feed' = "stream"
  /\ applied' \in applied..published
  /\ UNCHANGED <<over, published, holder, issued, entered>>

Give ==
  /\ issued' = issued + 1
  /\ UNCHANGED <<over, published, applied, feed, holder, entered>>

Enter(n) ==
  /\ ~over /\ holder # NoOne
  /\ \A i \in DOMAIN entered : entered[i] < n
  /\ entered' = Append(entered, n)
  /\ UNCHANGED <<over, published, applied, feed, holder, issued>>

Close ==
  /\ ~over /\ over' = TRUE /\ holder' = NoOne
  /\ UNCHANGED <<published, applied, feed, issued, entered>>

Next ==
  \/ Publish \/ Lose \/ Close
  \/ Connect \/ Disconnect \/ Apply \/ Restore
  \/ Give
  \/ \E p \in People : Grant(p)
  \/ \E n \in 1..issued : Enter(n)

Spec == Init /\ [][Next]_vars
=============================================================================
