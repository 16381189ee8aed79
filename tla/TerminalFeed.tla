----------------------------- MODULE TerminalFeed -----------------------------
(***************************************************************************)
(* What sharing a terminal promises: host and guests are fed the same      *)
(* output in the same order.  Every chunk goes to both at once; the guests *)
(* of a share have exactly what the host was fed since the share began.    *)
(***************************************************************************)
EXTENDS Naturals, Sequences

CONSTANTS
  Chunk     \* what one flush may carry: non-empty sequences of output

VARIABLES
  host,     \* all output fed to the host's terminal
  guests,   \* the output published to the current share
  shared,   \* is there a share?
  origin    \* how much the host had been fed when the share began

feed == <<host, guests, shared, origin>>

Init == host = <<>> /\ guests = <<>> /\ shared = FALSE /\ origin = 0

Emit(c) ==
  /\ host' = host \o c
  /\ guests' = IF shared THEN guests \o c ELSE guests
  /\ UNCHANGED <<shared, origin>>

Share ==
  /\ ~shared /\ shared' = TRUE
  /\ origin' = Len(host) /\ guests' = <<>>
  /\ UNCHANGED host

Unshare ==
  /\ shared /\ shared' = FALSE
  /\ guests' = <<>> /\ origin' = 0
  /\ UNCHANGED host

Next == Share \/ Unshare \/ \E c \in Chunk : Emit(c)

Spec == Init /\ [][Next]_feed

\* Guests are fed what the host is fed, from the start of the share on.
SameFeed ==
  /\ shared => /\ origin + Len(guests) = Len(host)
               /\ \A i \in 1..Len(guests) : guests[i] = host[origin + i]
  /\ ~shared => guests = <<>>
=============================================================================
