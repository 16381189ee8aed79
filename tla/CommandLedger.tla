----------------------------- MODULE CommandLedger -----------------------------
(***************************************************************************)
(* What the agent host promises of the commands it accepts, whatever       *)
(* crashes, storage failures and retries lie between: a command takes      *)
(* effect at most once, only once it was accepted, and acceptance is for   *)
(* good; a session has one turn open at a time; a turn that is over stays  *)
(* over and its prompt is not handed to the provider any more.             *)
(* ("A receipt means durable host acceptance, not provider completion";    *)
(* "Never replay a send automatically after a crash", src/host/engine.ts.) *)
(***************************************************************************)
EXTENDS Naturals

CONSTANTS Commands, Turns, SessionOf(_)

VARIABLES
  accepted,   \* the commands with a receipt
  open,       \* the turns that are open
  effects     \* how often each command was handed to a provider

vars == <<accepted, open, effects>>

Init == accepted = {} /\ open = {} /\ effects = [c \in Commands |-> 0]

\* A command that starts no turn may take effect as it is accepted.
Accept(c) ==
  /\ c \notin accepted /\ c \notin Turns
  /\ accepted' = accepted \cup {c}
  /\ \E n \in {0, 1} : effects' = [effects EXCEPT ![c] = @ + n]
  /\ UNCHANGED open

Open(c) ==
  /\ c \in Turns \ accepted
  /\ \A d \in open : SessionOf(d) # SessionOf(c)
  /\ accepted' = accepted \cup {c}
  /\ open' = open \cup {c}
  /\ UNCHANGED effects

Hand(c) ==
  /\ c \in open /\ effects[c] = 0
  /\ effects' = [effects EXCEPT ![c] = 1]
  /\ UNCHANGED <<accepted, open>>

\* Turns end one by one, or together when the host comes up after a crash.
Close ==
  /\ \E over \in SUBSET open : open' = open \ over
  /\ UNCHANGED <<accepted, effects>>

Next == (\E c \in Commands : Accept(c) \/ Open(c) \/ Hand(c)) \/ Close

Spec == Init /\ [][Next]_vars
=============================================================================
