----------------------------- MODULE MCHostEngine -----------------------------
(***************************************************************************)
(* Instances of HostEngine for TLC.                                        *)
(***************************************************************************)
EXTENDS HostEngine

CONSTANTS new, ask, again, allow, deny, open, plan, reply, build, halt, pack, tune, s1, s2

Issue(type, s, run, decision) ==
  [type |-> type, session |-> s, decision |-> decision, run |-> run,
   draft |-> NoRun, plan |-> NoRun]

\* In one session a first turn that asks for an approval, which two desktops
\* give, and a second turn.  In the other a turn that asks a question and writes
\* a plan, and one that builds it and is cancelled; settings change, and the
\* conversation is compacted.
MCPayload ==
  [c \in Commands |->
     CASE c = new -> Issue("create", s1, NoRun, "none")
       [] c \in {ask, again} -> Issue("send", s1, NoRun, "none")
       [] c = allow -> Issue("approve", s1, ask, "allow")
       [] c = deny -> Issue("approve", s1, ask, "deny")
       [] c = open -> Issue("create", s2, NoRun, "none")
       [] c = plan -> Issue("send", s2, NoRun, "none")
       [] c = reply -> Issue("answer", s2, plan, "none")
       [] c = build -> [Issue("send", s2, NoRun, "none") EXCEPT !.plan = plan]
       [] c = halt -> Issue("cancel", s2, build, "none")
       [] c = pack -> Issue("compact", s2, NoRun, "none")
       [] c = tune -> Issue("configure", s2, NoRun, "none")]

MCEmits == {<<ask, "delta">>, <<ask, "ask">>, <<plan, "question">>, <<plan, "plan">>}

\* One session or the other is used.  In the first, branches are switched
\* before any write fails and the session is renamed before any crash; in the
\* second, nothing of this happens.  No action that fairness is assumed of leads out of this.
Scope ==
  \/ /\ disk[s2] = NoSession /\ open \notin receipts
     /\ faults = MaxFaults \/ ~switching
     /\ disk[s1] # NoSession /\ disk[s1].title = "renamed" =>
          crashes = MaxCrashes
  \/ /\ new \notin receipts /\ ~switching /\ up = "up"
     /\ faults = MaxFaults /\ crashes = MaxCrashes
     /\ disk[s2] # NoSession => disk[s2].title # "renamed"
=============================================================================
