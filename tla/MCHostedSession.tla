--------------------------- MODULE MCHostedSession ---------------------------
(***************************************************************************)
(* Instances of HostedSession for TLC.                                     *)
(***************************************************************************)
EXTENDS HostedSession, TLC

CONSTANTS ada, ADA

\* Two spellings of one name, and another name.
MCLowercase == [n \in Names |-> IF n = ADA THEN ada ELSE n]

MCSizes == 1..2

IdsAndNonces == Permutations(ParticipantIds) \cup Permutations(Nonces)

\* Control: participants come and go, ask, are granted and
\* banned, while the terminal is silent.
ControlScope ==
  /\ ~expired /\ snapshot = NoSnapshot
  /\ nextSequence = 0 /\ grid = InitialGrid

\* Stream: one participant, never granted or banned, follows the output; the
\* longest streams are not resized.
StreamScope ==
  /\ ~expired /\ banned = {} /\ controllerId = NoOne
  /\ Cardinality(usedNonces) <= 1
  /\ \A p \in participants : ~record[p].requested /\ record[p].name # ADA
  /\ nextSequence = MaxSequence => \A i \in DOMAIN gridLog : gridLog[i] = InitialGrid

\* Behaviours that stay within one or the other.
Scope == ControlScope \/ StreamScope
=============================================================================
