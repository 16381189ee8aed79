----------------------------- MODULE MCGuestLink -----------------------------
(***************************************************************************)
(* Instances of GuestLink for TLC.                                         *)
(***************************************************************************)
EXTENDS GuestLink, TLC

CONSTANTS ada, ADA

MCLowercase == [n \in Names |-> n]

IdsSymmetry == Permutations(ParticipantIds)

\* The clock is left to HostedSession's runs, the guest that closes its end to
\* the run on the end of a share; the user of the guest either only
\* watches a terminal that nobody is granted ...
WatchScope ==
  /\ issued = 0 /\ controllerId = NoOne
  /\ \A p \in ParticipantIds : \A i \in DOMAIN outbound[p] :
       outbound[p][i].type # "role_changed"

\* ... or works in one that shows nothing and stays shared, with a host who
\* grants and takes back control unasked.
WorkScope ==
  /\ ~closed
  /\ snapshot = NoSnapshot /\ nextSequence = 0
  /\ \A p \in participants : ~record[p].requested

LinkScope == ~expired /\ registered # "closed" /\ (WatchScope \/ WorkScope)

\* The run on the end of a share leaves snapshots aside.
EndsScope == ~expired /\ snapshot = NoSnapshot
=============================================================================
