---------------------------- MODULE MCRemoteSession ----------------------------
(***************************************************************************)
(* Instances of RemoteSession for TLC.                                     *)
(***************************************************************************)
EXTENDS RemoteSession

CONSTANTS new, note, again, drop, memo, s1

Issue(type, draft) ==
  [type |-> type, session |-> s1, decision |-> "none", run |-> NoRun,
   draft |-> draft, plan |-> NoRun]

\* A conversation begun with a draft that is sent later.  Other desktops take
\* the draft out, and write one of their own.
MCPayload ==
  [c \in Commands |->
     CASE c = new -> Issue("create", NoRun)
       [] c = note -> Issue("draft", NoRun)
       [] c = again -> Issue("send", note)
       [] c = drop -> Issue("removeDraft", note)
       [] c = memo -> Issue("draft", NoRun)]

MCFollowup == [c \in Mine |-> IF c = new THEN note ELSE NoRun]

\* A Retry that is over without an answer (localStorage is too full, the request
\* failed) is followed between polls, on a host that has not crashed.
RetryUnsavedScope ==
  retried /\ sending = NoRun /\ pending # NoRun /\ ~starting.failed =>
    crashes = MaxCrashes /\ poll = NoPoll

MCEmits == {<<c, "delta">> : c \in Commands \cap {again}}
=============================================================================
