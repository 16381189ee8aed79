-------------------------- MODULE RemoteSessionProofs --------------------------
(***************************************************************************)
(* Proofs about RemoteSession: under every tab the host stays the host of  *)
(* HostEngine, no command of the tab is forgotten, and the transcript it   *)
(* shows at the host's revision is the host's.                             *)
(***************************************************************************)
EXTENDS RemoteSession, HostEngineOutput

USE DEF Marked

-----------------------------------------------------------------------------
(* The host under a tab *)

LEMMA HostSteps ==
  ASSUME [Host \/ Tab]_remoteVars
  PROVE  [Next]_vars
<1>1. ASSUME NEW c \in Mine, Serve(c)
      PROVE  [Next]_vars
  <2>1. c \in Commands
    BY RemoteAssumption
  <2>2. TurnAway(c) => UNCHANGED vars
    BY DEF TurnAway
  <2> QED
    BY <1>1, <2>1, <2>2 DEF Serve, Next, Request
<1>2. CASE Host
  BY <1>2 DEF Host, Next, Request
<1>3. ASSUME NEW c \in Mine, Submit(c) \/ TryAgain(c) \/ SaveFails(c)
      PROVE  UNCHANGED vars
  BY <1>3 DEF Submit, TryAgain, SaveFails, Unsaved
<1>4. Retry \/ RetryUnsaved \/ Begun \/ Confirmed \/ Rejected \/ Fails \/ Restart => UNCHANGED vars
  BY DEF Retry, RetryUnsaved, Unsaved, Begun, Confirmed, Rejected, Fails, Restart
<1>5. ASSUME NEW s \in Sessions, PollAsks(s) \/ PollAsksAgain(s)
      PROVE  UNCHANGED vars
  BY <1>5 DEF PollAsks, PollAsksAgain
<1>6. PollTakes \/ PollFails => UNCHANGED vars
  BY DEF PollTakes, PollFails
<1>7. UNCHANGED remoteVars => UNCHANGED vars
  BY DEF remoteVars
<1> QED
  BY <1>1, <1>2, <1>3, <1>4, <1>5, <1>6, <1>7 DEF Tab

\* Whatever tabs do, and lose: the host behaves as HostEngine has it, so what is
\* proved of every host holds beside every tab.
THEOREM TabsLeaveTheHost == RemoteSpec => Spec
<1>1. RemoteInit => Init
  BY DEF RemoteInit
<1>2. [Host \/ Tab]_remoteVars => [Next]_vars
  BY HostSteps
<1> QED
  BY <1>1, <1>2, PTL DEF RemoteSpec, Spec

\* However often a tab sends a command again, on a request that failed, an answer
\* that was lost or after a restart (run, retryPending), the host carries
\* it out as CommandLedger has it: once, or not at all.
THEOREM RetriesTakeEffectOnce == RemoteSpec => LedgerSpec
BY TabsLeaveTheHost, ImplementsLedger, PTL

\* The receipts of a tab's own commands come from its requests only.
LEMMA OthersReceipts ==
  ASSUME Host
  PROVE  receipts' = receipts \/ \E c \in Commands \ Mine : receipts' = receipts \cup {c}
<1>1. ASSUME NEW c \in Commands \ Mine, Refuse(c) \/ Create(c) \/ Accept(c)
      PROVE  receipts' = receipts \/ receipts' = receipts \cup {c}
  BY <1>1 DEF Refuse, Create, Accept
<1>2. ASSUME NEW s \in Sessions, TurnStep(s)
      PROVE  receipts' = receipts
  <2>1. Finish(s) \/ FinishRetry(s) => receipts' = receipts
    BY DEF Finish, FinishRetry, Settle
  <2>2. (\E p \in {"stopping", "retrying"} : SettleFails(s, p)) => receipts' = receipts
    BY DEF SettleFails
  <2>3. (\E x \in Emits : Event(s, x[1], x[2])) => receipts' = receipts
    BY DEF Event
  <2> QED
    BY <1>2, <2>1, <2>2, <2>3
       DEF TurnStep, CallProvider, SendReturns, RetryFires, FlushTimer, stored
<1>3. ASSUME NEW s \in Sessions, Side(s)
      PROVE  receipts' = receipts
  BY <1>3 DEF Side, Rename, Delete, TitleArrives, NoTitle, stored
<1>4. BeginSwitch \/ EndSwitch \/ BeginClose \/ Exit \/ Crash \/ Start => receipts' = receipts
  BY DEF BeginSwitch, EndSwitch, BeginClose, Exit, Crash, Gone, Start, stored
<1> QED
  BY <1>1, <1>2, <1>3, <1>4 DEF Host

-----------------------------------------------------------------------------
(* The outbox *)

Mail ==
  /\ wire \subseteq outbox /\ outbox = {c \in Mine : answer[c] = "open"}
  /\ bound \in BOOLEAN /\ retried \in BOOLEAN
  /\ pending \in Mine \cup {NoRun} /\ unseen \in Mine \cup {NoRun}
  /\ sending \in outbox \cup {NoRun}
  /\ reply \in {"none", "receipt", "rejected"} /\ losses \in 0..MaxLosses
  /\ starting \in [id : Mine \cup {NoRun}, failed : BOOLEAN]
  /\ starting.failed => starting.id \in Mine
  /\ answer \in [Mine -> {"fresh", "open", "receipt", "rejected"}]

\* The answer under way is true, and final.
Replied ==
  reply # "none" =>
    /\ sending \in outbox \ wire
    /\ reply = "receipt" <=> sending \in receipts

\* So is what the tab was told.
ToldTrue ==
  \A c \in Mine : /\ answer[c] \in {"fresh", "rejected"} => c \notin receipts
                  /\ answer[c] = "receipt" => c \in receipts

\* A conversation that is begun has its message under way, at least.
BegunBoth ==
  \A c \in Mine : Type(c) = "create" /\ Followup[c] # NoRun /\ answer[c] = "receipt" =>
    answer[Followup[c]] # "fresh"

MInv == Mail /\ Replied /\ ToldTrue /\ BegunBoth

LEMMA NoRunMine == NoRun \notin Mine
BY PayloadAssumption, RemoteAssumption

\* Steps that leave the mail alone.
LEMMA MailStays ==
  ASSUME MInv, UNCHANGED <<outbox, bound, pending, sending, wire, reply, answer>>,
         retried' \in BOOLEAN,
         receipts' \cap Mine = receipts \cap Mine,
         unseen' \in Mine \cup {NoRun}, losses' \in 0..MaxLosses,
         starting' \in [id : Mine \cup {NoRun}, failed : BOOLEAN],
         starting'.failed => starting'.id \in Mine
  PROVE  MInv'
<1>1. Mail'
  BY DEF MInv, Mail
<1>2. \A c \in Mine : c \in receipts' <=> c \in receipts
  OBVIOUS
<1>3. Replied'
  BY <1>2 DEF MInv, Mail, Replied
<1>4. ToldTrue' /\ BegunBoth'
  BY <1>2 DEF MInv, ToldTrue, BegunBoth
<1> QED
  BY <1>1, <1>3, <1>4 DEF MInv

LEMMA StartingType ==
  ASSUME MInv, NEW c \in Mine, NEW failed \in BOOLEAN
  PROVE  /\ Starting(c, failed) \in [id : Mine \cup {NoRun}, failed : BOOLEAN]
         /\ Starting(c, failed).failed => Starting(c, failed).id \in Mine
         /\ StartingAgain \in [id : Mine \cup {NoRun}, failed : BOOLEAN]
         /\ ~StartingAgain.failed
         /\ NotStarting \in [id : Mine \cup {NoRun}, failed : BOOLEAN] /\ ~NotStarting.failed
<1>1. Starts(c) \in Mine \cup {NoRun}
  BY RemoteAssumption DEF Starts
<1>2. starting \in [id : Mine \cup {NoRun}, failed : BOOLEAN]
      /\ (starting.failed => starting.id \in Mine)
  BY DEF MInv, Mail
<1>3. NotStarting \in [id : Mine \cup {NoRun}, failed : BOOLEAN] /\ ~NotStarting.failed
  BY DEF NotStarting
<1>4. StartingAgain \in [id : Mine \cup {NoRun}, failed : BOOLEAN] /\ ~StartingAgain.failed
  BY <1>2, <1>3 DEF StartingAgain
<1>5. /\ Starting(c, failed) \in [id : Mine \cup {NoRun}, failed : BOOLEAN]
      /\ Starting(c, failed).failed => Starting(c, failed).id \in Mine
  BY <1>1, <1>2 DEF Starting
<1> QED
  BY <1>3, <1>4, <1>5

\* run() from its first line to the request.
LEMMA SendMail ==
  ASSUME MInv, NEW c \in Mine, Send(c), sending = NoRun,
         UNCHANGED <<receipts, bound, losses>>, retried' \in BOOLEAN,
         starting' \in [id : Mine \cup {NoRun}, failed : BOOLEAN],
         starting'.failed => starting'.id \in Mine
  PROVE  MInv'
<1>1. Mail /\ ToldTrue /\ BegunBoth
  BY DEF MInv
<1>2. /\ outbox' = outbox \cup {c} /\ pending' = c /\ sending' = c
      /\ wire' = wire \cup {c} /\ reply' = "none"
      /\ unseen' \in {c, unseen} /\ answer' = [answer EXCEPT ![c] = "open"]
  BY DEF Send
<1>3. \A d \in Mine : answer'[d] = IF d = c THEN "open" ELSE answer[d]
  BY <1>1, <1>2 DEF Mail
<1>4. outbox' = {d \in Mine : answer'[d] = "open"}
  BY <1>1, <1>2, <1>3 DEF Mail
<1>5. Mail'
  BY <1>1, <1>2, <1>4 DEF Mail
<1>6. Replied'
  BY <1>2 DEF Replied
<1>7. ToldTrue'
  BY <1>1, <1>3 DEF ToldTrue
<1>8. BegunBoth'
  <2> SUFFICES ASSUME NEW d \in Mine, Type(d) = "create", Followup[d] # NoRun,
                      answer'[d] = "receipt"
               PROVE  answer'[Followup[d]] # "fresh"
    BY DEF BegunBoth
  <2>1. d # c /\ answer[d] = "receipt" /\ Followup[d] \in Mine
    BY <1>3, RemoteAssumption
  <2> QED
    BY <1>1, <1>3, <2>1 DEF BegunBoth
<1> QED
  BY <1>5, <1>6, <1>7, <1>8 DEF MInv

LEMMA SubmitMInv ==
  ASSUME MInv, NEW c \in Mine, Submit(c)
  PROVE  MInv'
<1>1. Send(c) /\ sending = NoRun /\ retried' \in {retried, FALSE}
      /\ starting' = Starting(c, FALSE) /\ UNCHANGED <<receipts, bound, losses>>
  BY DEF Submit, UserMay, vars, stored
<1>2. retried' \in BOOLEAN
  BY <1>1 DEF MInv, Mail
<1> QED
  BY <1>1, <1>2, SendMail, StartingType

LEMMA RetryMInv ==
  ASSUME MInv, Retry
  PROVE  MInv'
<1>1. pending \in Mine
  BY DEF Retry, MInv, Mail
<1>2. Send(pending) /\ sending = NoRun /\ retried' = TRUE /\ starting' = StartingAgain
      /\ UNCHANGED <<receipts, bound, losses>>
  BY DEF Retry, vars, stored
<1> QED
  BY <1>1, <1>2, SendMail, StartingType

LEMMA TryAgainMInv ==
  ASSUME MInv, NEW c \in Mine, TryAgain(c)
  PROVE  MInv'
<1>1. Send(c) /\ sending = NoRun /\ retried' = FALSE /\ starting' = StartingAgain
      /\ UNCHANGED <<receipts, bound, losses>>
  BY DEF TryAgain, AgainMay, vars, stored
<1> QED
  BY <1>1, SendMail, StartingType

\* A command that could not be saved is not sent, so the mail is as it was.
LEMMA UnsavedMInv ==
  ASSUME MInv, NEW c \in Mine, SaveFails(c) \/ (RetryUnsaved /\ c = pending)
  PROVE  MInv'
<1>1. /\ UNCHANGED <<outbox, bound, pending, sending, wire, reply, answer, receipts>>
      /\ unseen' \in {c, unseen} /\ (losses' = losses \/ (losses > 0 /\ losses' = losses - 1))
      /\ starting' \in {Starting(c, TRUE), StartingAgain} /\ retried' \in {retried, TRUE}
  BY DEF SaveFails, RetryUnsaved, Unsaved, vars, stored, stores
<1>2. unseen' \in Mine \cup {NoRun} /\ losses' \in 0..MaxLosses
  BY <1>1, RemoteAssumption DEF MInv, Mail
<1>3. retried' \in BOOLEAN
  BY <1>1 DEF MInv, Mail
<1>4. /\ starting' \in [id : Mine \cup {NoRun}, failed : BOOLEAN]
      /\ starting'.failed => starting'.id \in Mine
  BY <1>1, StartingType
<1> QED
  BY <1>1, <1>2, <1>3, <1>4, MailStays

LEMMA RetryUnsavedMInv ==
  ASSUME MInv, RetryUnsaved
  PROVE  MInv'
<1>1. pending \in Mine
  BY DEF RetryUnsaved, MInv, Mail
<1> QED
  BY <1>1, UnsavedMInv

\* The answer to the request under way has come; the entry leaves the outbox.
Delivered(c, told) ==
  /\ sending = c /\ outbox' = outbox \ {c} /\ pending' \in Remaining(outbox \ {c})
  /\ sending' = NoRun /\ reply' = "none" /\ wire' = wire
  /\ answer' = [answer EXCEPT ![c] = told]
  /\ UNCHANGED <<receipts, retried, losses>>

LEMMA DeliveredMInv ==
  ASSUME MInv, reply # "none", NEW c, NEW told \in {"receipt", "rejected"}, Delivered(c, told),
         reply = told, bound' \in BOOLEAN,
         unseen' \in Mine \cup {NoRun},
         starting' \in [id : Mine \cup {NoRun}, failed : BOOLEAN],
         starting'.failed => starting'.id \in Mine,
         told = "receipt" /\ Type(c) = "create" => Followup[c] = NoRun
  PROVE  MInv'
<1>1. Mail /\ Replied /\ ToldTrue /\ BegunBoth
  BY DEF MInv
<1>2. /\ c \in outbox /\ c \notin wire /\ c \in Mine
      /\ reply = "receipt" <=> c \in receipts
  BY <1>1 DEF Mail, Replied, Delivered
<1>3. \A d \in Mine : answer'[d] = IF d = c THEN told ELSE answer[d]
  BY <1>1 DEF Mail, Delivered
<1>4. answer' \in [Mine -> {"fresh", "open", "receipt", "rejected"}]
  BY <1>1 DEF Mail, Delivered
<1>5. outbox' = {d \in Mine : answer'[d] = "open"}
  BY <1>1, <1>2, <1>3 DEF Mail, Delivered
<1>6. pending' \in Mine \cup {NoRun}
  BY <1>1 DEF Mail, Delivered, Remaining
<1>7. Mail'
  BY <1>1, <1>2, <1>4, <1>5, <1>6 DEF Mail, Delivered
<1>8. Replied'
  BY DEF Replied, Delivered
<1>9. ToldTrue'
  BY <1>1, <1>2, <1>3 DEF ToldTrue, Delivered
<1>10. BegunBoth'
  <2> SUFFICES ASSUME NEW d \in Mine, Type(d) = "create", Followup[d] # NoRun,
                      answer'[d] = "receipt"
               PROVE  answer'[Followup[d]] # "fresh"
    BY DEF BegunBoth
  <2>1. d # c /\ answer[d] = "receipt" /\ Followup[d] \in Mine
    BY <1>3, RemoteAssumption
  <2> QED
    BY <1>1, <1>3, <2>1 DEF BegunBoth
<1> QED
  BY <1>7, <1>8, <1>9, <1>10 DEF MInv

LEMMA BegunMInv ==
  ASSUME MInv, Begun
  PROVE  MInv'
<1>1. Mail /\ Replied /\ ToldTrue /\ BegunBoth
  BY DEF MInv
<1> DEFINE c == sending
<1>2. c \in outbox /\ c \notin wire /\ c \in Mine /\ c \in receipts
  BY <1>1 DEF Mail, Replied, Begun
<1>3. CASE Followup[c] = NoRun
  <2>1. Delivered(c, "receipt") /\ reply = "receipt" /\ bound' = TRUE
        /\ unseen' = unseen /\ starting' = starting
    BY <1>3 DEF Begun, Delivered, vars, stored
  <2>2. unseen' \in Mine \cup {NoRun}
        /\ starting' \in [id : Mine \cup {NoRun}, failed : BOOLEAN]
        /\ (starting'.failed => starting'.id \in Mine)
    BY <1>1, <2>1 DEF Mail
  <2> HIDE DEF c
  <2> QED
    BY <1>3, <2>1, <2>2, DeliveredMInv
<1>4. CASE Followup[c] # NoRun
  <2> DEFINE f == Followup[c]
  <2>1. f \in Mine
    BY <1>2, <1>4, RemoteAssumption
  <2>2. /\ bound' = TRUE /\ outbox' = (outbox \ {c}) \cup {f} /\ pending' = f /\ sending' = f
        /\ reply' = "none" /\ wire' = wire \cup {f} /\ unseen' \in {f, unseen}
        /\ answer' = [answer EXCEPT ![c] = "receipt", ![f] = "open"]
        /\ UNCHANGED <<receipts, retried, starting, losses>>
    BY <1>4 DEF Begun, vars, stored
  <2> HIDE DEF c, f
  <2>3. \A d \in Mine : answer'[d] = IF d = f THEN "open" ELSE IF d = c THEN "receipt"
                                     ELSE answer[d]
    BY <1>1, <1>2, <2>1, <2>2 DEF Mail
  <2>4. answer' \in [Mine -> {"fresh", "open", "receipt", "rejected"}]
    BY <1>1, <2>2 DEF Mail
  <2>5. outbox' = {d \in Mine : answer'[d] = "open"}
    BY <1>1, <1>2, <2>1, <2>2, <2>3 DEF Mail
  <2>6. Mail'
    BY <1>1, <1>2, <2>1, <2>2, <2>4, <2>5 DEF Mail
  <2>7. Replied'
    BY <2>2 DEF Replied
  <2>8. ToldTrue'
    <3> SUFFICES ASSUME NEW d \in Mine
                 PROVE  /\ answer'[d] \in {"fresh", "rejected"} => d \notin receipts
                        /\ answer'[d] = "receipt" => d \in receipts
      BY <2>2 DEF ToldTrue
    <3>1. CASE d = f
      BY <2>3, <3>1
    <3>2. CASE d # f /\ d = c
      BY <1>2, <2>3, <3>2
    <3>3. CASE d # f /\ d # c
      BY <1>1, <2>3, <3>3 DEF ToldTrue
    <3> QED
      BY <3>1, <3>2, <3>3
  <2>9. BegunBoth'
    <3> SUFFICES ASSUME NEW d \in Mine, Type(d) = "create", Followup[d] # NoRun,
                        answer'[d] = "receipt"
                 PROVE  answer'[Followup[d]] # "fresh"
      BY DEF BegunBoth
    <3>1. d # f /\ Followup[d] \in Mine
      BY <2>3, RemoteAssumption
    <3>2. CASE d = c
      BY <2>1, <2>3, <3>2 DEF f
    <3>3. CASE d # c
      BY <1>1, <2>3, <3>1, <3>3 DEF BegunBoth
    <3> QED
      BY <3>2, <3>3
  <2> QED
    BY <2>6, <2>7, <2>8, <2>9 DEF MInv
<1> QED
  BY <1>3, <1>4

LEMMA ConfirmedMInv ==
  ASSUME MInv, Confirmed
  PROVE  MInv'
<1>1. /\ Delivered(sending, "receipt") /\ reply = "receipt" /\ UNCHANGED <<bound, unseen>>
      /\ starting' \in {starting, NotStarting} /\ Type(sending) # "create"
  BY DEF Confirmed, Delivered, vars, stored
<1>2. NotStarting \in [id : Mine \cup {NoRun}, failed : BOOLEAN] /\ ~NotStarting.failed
  BY DEF NotStarting
<1>3. bound' \in BOOLEAN /\ unseen' \in Mine \cup {NoRun}
      /\ starting' \in [id : Mine \cup {NoRun}, failed : BOOLEAN]
      /\ (starting'.failed => starting'.id \in Mine)
  BY <1>1, <1>2 DEF MInv, Mail
<1> QED
  BY <1>1, <1>3, DeliveredMInv

LEMMA RejectedMInv ==
  ASSUME MInv, Rejected
  PROVE  MInv'
<1>1. /\ Delivered(sending, "rejected") /\ reply = "rejected" /\ bound' = bound
      /\ unseen' \in {unseen, NoRun} /\ starting' \in {starting, Starting(sending, TRUE)}
  BY DEF Rejected, AfterFailure, Delivered, vars, stored
<1>2. sending \in Mine
  BY <1>1 DEF MInv, Mail, Replied
<1>3. bound' \in BOOLEAN /\ unseen' \in Mine \cup {NoRun}
  BY <1>1 DEF MInv, Mail
<1>4. /\ starting' \in [id : Mine \cup {NoRun}, failed : BOOLEAN]
      /\ starting'.failed => starting'.id \in Mine
  <2>1. /\ Starting(sending, TRUE) \in [id : Mine \cup {NoRun}, failed : BOOLEAN]
        /\ Starting(sending, TRUE).failed => Starting(sending, TRUE).id \in Mine
    BY <1>2, StartingType
  <2>2. /\ starting \in [id : Mine \cup {NoRun}, failed : BOOLEAN]
        /\ starting.failed => starting.id \in Mine
    BY DEF MInv, Mail
  <2> QED
    BY <1>1, <2>1, <2>2
<1> QED
  BY <1>1, <1>3, <1>4, DeliveredMInv

\* What a lost answer and a restart leave: nothing is awaited any more.
LEMMA SilenceMInv ==
  ASSUME MInv, sending' = NoRun, reply' = "none", wire' \subseteq wire,
         UNCHANGED <<outbox, bound, answer, receipts>>, retried' \in BOOLEAN,
         losses > 0, losses' = losses - 1, pending' \in Mine \cup {NoRun},
         unseen' \in Mine \cup {NoRun},
         starting' \in [id : Mine \cup {NoRun}, failed : BOOLEAN],
         starting'.failed => starting'.id \in Mine
  PROVE  MInv'
<1>1. losses' \in 0..MaxLosses
  BY RemoteAssumption DEF MInv, Mail
<1>2. Mail'
  BY <1>1 DEF MInv, Mail
<1>3. Replied' /\ ToldTrue' /\ BegunBoth'
  BY DEF MInv, Replied, ToldTrue, BegunBoth
<1> QED
  BY <1>2, <1>3 DEF MInv

LEMMA FailsMInv ==
  ASSUME MInv, Fails
  PROVE  MInv'
<1>1. /\ sending # NoRun /\ losses > 0 /\ losses' = losses - 1 /\ wire' \subseteq wire
      /\ sending' = NoRun /\ reply' = "none"
      /\ starting' \in {starting, Starting(sending, TRUE)}
      /\ UNCHANGED <<outbox, bound, pending, retried, unseen, answer, receipts>>
  BY DEF Fails, AfterFailure, vars, stored, stores
<1>2. sending \in Mine
  BY <1>1 DEF MInv, Mail
<1>3. /\ starting' \in [id : Mine \cup {NoRun}, failed : BOOLEAN]
      /\ starting'.failed => starting'.id \in Mine
  <2>1. /\ Starting(sending, TRUE) \in [id : Mine \cup {NoRun}, failed : BOOLEAN]
        /\ Starting(sending, TRUE).failed => Starting(sending, TRUE).id \in Mine
    BY <1>2, StartingType
  <2>2. /\ starting \in [id : Mine \cup {NoRun}, failed : BOOLEAN]
        /\ starting.failed => starting.id \in Mine
    BY DEF MInv, Mail
  <2> QED
    BY <1>1, <2>1, <2>2
<1>4. retried' \in BOOLEAN /\ pending' \in Mine \cup {NoRun} /\ unseen' \in Mine \cup {NoRun}
  BY <1>1 DEF MInv, Mail
<1> QED
  BY <1>1, <1>3, <1>4, SilenceMInv

LEMMA RestartMInv ==
  ASSUME MInv, Restart
  PROVE  MInv'
<1>1. /\ losses > 0 /\ losses' = losses - 1 /\ sending' = NoRun /\ retried' = FALSE
      /\ reply' = "none" /\ wire' \subseteq wire /\ unseen' = NoRun /\ starting' = NotStarting
      /\ pending' \in Remaining(outbox) /\ UNCHANGED <<outbox, bound, answer, receipts>>
  BY DEF Restart, vars, stored, stores
<1>2. NotStarting \in [id : Mine \cup {NoRun}, failed : BOOLEAN] /\ ~NotStarting.failed
  BY DEF NotStarting
<1>3. pending' \in Mine \cup {NoRun}
  BY <1>1 DEF MInv, Mail, Remaining
<1>4. retried' \in BOOLEAN /\ unseen' \in Mine \cup {NoRun}
  BY <1>1
<1> QED
  BY <1>1, <1>2, <1>3, <1>4, SilenceMInv

LEMMA ServeMInv ==
  ASSUME MInv, NEW c \in Mine, Serve(c)
  PROVE  MInv'
<1>1. Mail /\ Replied /\ ToldTrue /\ BegunBoth
  BY DEF MInv
<1>2. PICK r \in {"receipt", "rejected"} :
        /\ Answer(c, r) /\ c \in wire
        /\ r = "receipt" => receipts' = receipts \cup {c}
        /\ r = "rejected" => receipts' = receipts /\ c \notin receipts
  BY DEF Serve, Create, Accept, Refuse, TurnAway, vars, stored
<1>3. /\ wire' = wire \ {c} /\ reply' = IF sending = c THEN r ELSE reply
      /\ UNCHANGED <<outbox, bound, pending, sending, retried, unseen, starting, losses, answer>>
  BY <1>2 DEF Answer, stores, screen
<1>4. Mail'
  BY <1>1, <1>3 DEF Mail
<1>5. c \in outbox /\ answer[c] = "open" /\ c # NoRun
  BY <1>1, <1>2, NoRunMine DEF Mail
<1>6. Replied'
  <2> SUFFICES ASSUME reply' # "none"
               PROVE  /\ sending' \in outbox' \ wire'
                      /\ reply' = "receipt" <=> sending' \in receipts'
    BY DEF Replied
  <2>1. CASE sending = c
    BY <1>2, <1>3, <1>5, <2>1
  <2>2. CASE sending # c
    BY <1>1, <1>2, <1>3, <2>2 DEF Replied
  <2> QED
    BY <2>1, <2>2
<1>7. ToldTrue'
  BY <1>1, <1>2, <1>3, <1>5 DEF ToldTrue
<1>8. BegunBoth'
  BY <1>1, <1>3 DEF BegunBoth
<1> QED
  BY <1>4, <1>6, <1>7, <1>8 DEF MInv

LEMMA PollTakesMInv ==
  ASSUME MInv, PollTakes
  PROVE  MInv'
<1>1. /\ unseen' \in {unseen, NoRun} /\ starting' \in {starting, NotStarting}
      /\ UNCHANGED <<outbox, bound, pending, sending, retried, wire, reply, answer, losses, receipts>>
  BY DEF PollTakes, vars, stored, stores, request
<1>2. NotStarting \in [id : Mine \cup {NoRun}, failed : BOOLEAN] /\ ~NotStarting.failed
  BY DEF NotStarting
<1>3. unseen' \in Mine \cup {NoRun} /\ losses' \in 0..MaxLosses /\ retried' \in BOOLEAN
      /\ starting' \in [id : Mine \cup {NoRun}, failed : BOOLEAN]
      /\ (starting'.failed => starting'.id \in Mine)
  BY <1>1, <1>2 DEF MInv, Mail
<1> QED
  BY <1>1, <1>3, MailStays

LEMMA StepMInv ==
  ASSUME MInv, [Host \/ Tab]_remoteVars
  PROVE  MInv'
<1>1. ASSUME NEW c \in Mine, Submit(c) \/ TryAgain(c) \/ SaveFails(c) \/ Serve(c)
      PROVE  MInv'
  BY <1>1, SubmitMInv, TryAgainMInv, UnsavedMInv, ServeMInv
<1>2. ASSUME Retry \/ RetryUnsaved \/ Begun \/ Confirmed \/ Rejected \/ Fails \/ Restart \/ PollTakes
      PROVE  MInv'
  BY <1>2, RetryMInv, RetryUnsavedMInv, BegunMInv, ConfirmedMInv, RejectedMInv, FailsMInv,
     RestartMInv, PollTakesMInv
<1>3. ASSUME UNCHANGED <<outbox, bound, pending, sending, retried, wire, reply, answer,
                         unseen, starting, losses>>,
             receipts' \cap Mine = receipts \cap Mine
      PROVE  MInv'
  <2>1. unseen' \in Mine \cup {NoRun} /\ losses' \in 0..MaxLosses /\ retried' \in BOOLEAN
        /\ starting' \in [id : Mine \cup {NoRun}, failed : BOOLEAN]
        /\ (starting'.failed => starting'.id \in Mine)
    BY <1>3 DEF MInv, Mail
  <2> QED
    BY <1>3, <2>1, MailStays
<1>4. ASSUME NEW s \in Sessions, PollAsks(s) \/ PollAsksAgain(s)
      PROVE  MInv'
  BY <1>3, <1>4 DEF PollAsks, PollAsksAgain, vars, stored, stores, request
<1>5. CASE PollFails \/ UNCHANGED remoteVars
  BY <1>3, <1>5 DEF PollFails, remoteVars, tab, screen, vars, stored, stores, request
<1>6. CASE Host
  <2>1. UNCHANGED tab
    BY <1>6 DEF Host
  <2>2. receipts' \cap Mine = receipts \cap Mine
    BY <1>6, OthersReceipts
  <2> QED
    BY <1>3, <2>1, <2>2 DEF tab, stores, request, screen
<1> QED
  BY <1>1, <1>2, <1>4, <1>5, <1>6 DEF Tab

LEMMA InitMInv == RemoteInit => MInv
<1> SUFFICES ASSUME RemoteInit
             PROVE  MInv
  OBVIOUS
<1>1. /\ outbox = {} /\ bound = FALSE /\ pending = NoRun /\ sending = NoRun /\ retried = FALSE
      /\ wire = {} /\ reply = "none" /\ unseen = NoRun /\ losses = MaxLosses
      /\ starting = [id |-> NoRun, failed |-> FALSE] /\ receipts = {}
  BY DEF RemoteInit, Init, NotStarting
<1>2. answer = [c \in Mine |-> "fresh"]
  BY DEF RemoteInit
<1>3. answer \in [Mine -> {"fresh", "open", "receipt", "rejected"}]
  BY <1>2
<1>4. \A c \in Mine : answer[c] = "fresh"
  BY <1>2
<1>5. Mail
  <2>1. outbox = {c \in Mine : answer[c] = "open"}
    BY <1>1, <1>4
  <2>2. losses \in 0..MaxLosses
    BY <1>1, RemoteAssumption
  <2>3. starting \in [id : Mine \cup {NoRun}, failed : BOOLEAN] /\ ~starting.failed
    BY <1>1
  <2> QED
    BY <1>1, <1>3, <2>1, <2>2, <2>3 DEF Mail
<1>6. Replied /\ ToldTrue
  BY <1>1, <1>4 DEF Replied, ToldTrue
<1>7. \A c \in Mine : answer[c] # "receipt"
  BY <1>4
<1>8. BegunBoth
  BY <1>7 DEF BegunBoth
<1> QED
  BY <1>5, <1>6, <1>8 DEF MInv

\* The bookkeeping of the outbox, for every tab and every host.
THEOREM OutboxHolds == RemoteSpec => []MInv
BY InitMInv, StepMInv, PTL DEF RemoteSpec

\* A command the host may have accepted stays in the outbox until the tab was
\* told, and what it was told is true: whatever requests and answers are lost,
\* and however often the app restarts.
THEOREM NothingIsForgotten == RemoteSpec => []NothingForgotten
<1>1. MInv => NothingForgotten
  BY DEF MInv, Mail, ToldTrue, NothingForgotten
<1> QED
  BY <1>1, OutboxHolds, PTL

\* The message a conversation is begun with stays in the outbox, as itself or
\* behind the create command, until the host answered it.
THEOREM FollowupIsKept == RemoteSpec => []FollowupKept
<1>1. MInv => FollowupKept
  <2> SUFFICES ASSUME MInv, NEW c \in Mine, Type(c) = "create", Followup[c] # NoRun
               PROVE  \/ answer[c] \in {"fresh", "rejected"} \/ c \in outbox
                      \/ Followup[c] \in outbox
                      \/ answer[Followup[c]] \in {"receipt", "rejected"}
    BY DEF FollowupKept
  <2>1. Mail /\ BegunBoth /\ Followup[c] \in Mine
    BY RemoteAssumption DEF MInv
  <2>2. answer[c] \in {"fresh", "open", "receipt", "rejected"}
        /\ answer[Followup[c]] \in {"fresh", "open", "receipt", "rejected"}
    BY <2>1 DEF Mail
  <2>3. CASE answer[c] = "open"
    BY <2>1, <2>3 DEF Mail
  <2>4. CASE answer[c] = "receipt"
    BY <2>1, <2>2, <2>4 DEF Mail, BegunBoth
  <2> QED
    BY <2>2, <2>3, <2>4
<1> QED
  BY <1>1, OutboxHolds, PTL

-----------------------------------------------------------------------------
(* Revisions and stamps *)

\* w is v, or a later revision of v: what is stamped no later than v is as in v.
Later(v, w) ==
  \/ w = v
  \/ /\ v.rev < w.rev
     /\ \A i \in Present(w) :
          \/ v.rev < w.stamps[i]
          \/ w.blocks[i] = v.blocks[i] /\ w.stamps[i] = v.stamps[i]

\* Every block is stamped with a revision.
Stamped(v) == 0 < v.rev /\ \A i \in Present(v) : 0 < v.stamps[i]

\* The same blocks, as far as they are no drafts.
Agree(a, b) == a = b \/ {a.mark, b.mark} \subseteq {"draft", "absent"}

\* What is shown (k) of what is stored (v) is old at most where the stamps say so.
Behind(k, v) ==
  /\ k.rev <= v.rev
  /\ \A i \in Present(v) : v.stamps[i] <= k.rev => Agree(k.blocks[i], v.blocks[i])
  /\ k.rev = v.rev => \A i \in BlockIds : Agree(k.blocks[i], v.blocks[i])

LEMMA LaterWritten ==
  ASSUME NEW p \in Values, NEW n \in Values
  PROVE  Written(p, n) \in Values /\ Later(p, Written(p, n))
<1> DEFINE w == Written(p, n)
<1>1. /\ w \in Values /\ w.rev = p.rev + 1 /\ w.blocks = n.blocks
      /\ w.stamps = BlockRevisions(p, n, p.rev + 1)
  BY WrittenValue
<1>2. p.rev \in Nat
  BY DEF Values
<1> HIDE DEF w
<1>3. \A i \in Present(w) : w.stamps[i] = IF w.blocks[i] = p.blocks[i] THEN p.stamps[i]
                                          ELSE p.rev + 1
  BY <1>1 DEF BlockRevisions, Present
<1>4. Later(p, w)
  BY <1>1, <1>2, <1>3 DEF Later
<1> QED
  BY <1>1, <1>4 DEF w

LEMMA LaterLater ==
  ASSUME NEW u \in Values, NEW v \in Values, NEW w \in Values, Later(u, v), Later(v, w)
  PROVE  Later(u, w)
<1>1. CASE u = v \/ v = w
  BY <1>1
<1>2. CASE u # v /\ v # w
  <2>1. u.rev \in Nat /\ v.rev \in Nat /\ w.rev \in Nat
        /\ \A i \in BlockIds : w.stamps[i] \in Nat /\ v.stamps[i] \in Nat /\ u.stamps[i] \in Nat
    BY DEF Values
  <2>2. u.rev < v.rev /\ v.rev < w.rev
    BY <1>2 DEF Later
  <2>3. ASSUME NEW i \in Present(w)
        PROVE  \/ u.rev < w.stamps[i]
               \/ w.blocks[i] = u.blocks[i] /\ w.stamps[i] = u.stamps[i]
    <3>1. i \in BlockIds
      BY DEF Present
    <3>2. CASE v.rev < w.stamps[i]
      BY <2>1, <2>2, <3>1, <3>2
    <3>3. CASE w.blocks[i] = v.blocks[i] /\ w.stamps[i] = v.stamps[i]
      <4>1. i \in Present(v)
        BY <3>3 DEF Present
      <4>2. \/ u.rev < v.stamps[i]
            \/ v.blocks[i] = u.blocks[i] /\ v.stamps[i] = u.stamps[i]
        BY <1>2, <4>1 DEF Later
      <4> QED
        BY <3>3, <4>2
    <3> QED
      BY <1>2, <3>2, <3>3 DEF Later
  <2>4. u.rev < w.rev
    BY <2>1, <2>2
  <2> QED
    BY <2>3, <2>4 DEF Later
<1> QED
  BY <1>1, <1>2

LEMMA LaterStamped ==
  ASSUME NEW v \in Values, NEW w \in Values, Stamped(v), Later(v, w)
  PROVE  Stamped(w)
<1>1. CASE w = v
  BY <1>1
<1>2. CASE w # v
  <2>1. v.rev \in Nat /\ w.rev \in Nat /\ \A i \in BlockIds : w.stamps[i] \in Nat
    BY DEF Values
  <2>2. 0 < w.rev
    BY <1>2, <2>1 DEF Later
  <2>3. ASSUME NEW i \in Present(w)
        PROVE  0 < w.stamps[i]
    <3>1. CASE v.rev < w.stamps[i]
      BY <2>1, <3>1 DEF Present
    <3>2. CASE w.blocks[i] = v.blocks[i] /\ w.stamps[i] = v.stamps[i]
      BY <3>2 DEF Stamped, Present
    <3> QED
      BY <1>2, <3>1, <3>2 DEF Later
  <2> QED
    BY <2>2, <2>3 DEF Stamped
<1> QED
  BY <1>1, <1>2

\* What was behind a value is behind its later revisions.
LEMMA BehindLater ==
  ASSUME NEW k \in Values, NEW v \in Values, NEW w \in Values, Behind(k, v), Later(v, w)
  PROVE  Behind(k, w)
<1>1. CASE w = v
  BY <1>1
<1>2. CASE w # v
  <2>1. k.rev \in Nat /\ v.rev \in Nat /\ w.rev \in Nat
        /\ \A i \in BlockIds : w.stamps[i] \in Nat /\ v.stamps[i] \in Nat
    BY DEF Values
  <2>2. k.rev < w.rev
    BY <1>2, <2>1 DEF Later, Behind
  <2>3. ASSUME NEW i \in Present(w), w.stamps[i] <= k.rev
        PROVE  Agree(k.blocks[i], w.blocks[i])
    <3>1. i \in BlockIds
      BY DEF Present
    <3>2. ~(v.rev < w.stamps[i])
      BY <2>1, <2>3, <3>1 DEF Behind
    <3>3. w.blocks[i] = v.blocks[i] /\ w.stamps[i] = v.stamps[i]
      BY <1>2, <3>2 DEF Later
    <3>4. i \in Present(v)
      BY <3>3 DEF Present
    <3>5. Agree(k.blocks[i], v.blocks[i])
      BY <2>3, <3>3, <3>4 DEF Behind
    <3> QED
      BY <3>3, <3>5
  <2> QED
    BY <2>1, <2>2, <2>3 DEF Behind
<1> QED
  BY <1>1, <1>2

-----------------------------------------------------------------------------
(* What a sync and an accepted draft make of what is shown *)

LEMMA SeenValue ==
  ASSUME NEW v \in Values
  PROVE  /\ Seen(v) \in Values /\ Seen(v).rev = v.rev /\ Seen(v).blocks = v.blocks
BY DEF Seen, Values

\* A value that shows the stored blocks is behind none.
LEMMA BehindSame ==
  ASSUME NEW k, NEW v \in Values, k.rev = v.rev,
         \A i \in BlockIds : Agree(k.blocks[i], v.blocks[i])
  PROVE  Behind(k, v)
<1>1. v.rev \in Nat
  BY DEF Values
<1> QED
  BY <1>1 DEF Behind, Present

\* applySessionSync of an update: the new blocks, and the known ones where there
\* are none.
LEMMA DeltaValue ==
  ASSUME NEW v \in Values, NEW k \in Values, k # NoView, k.rev < v.rev
  PROVE  LET w == ApplySync(k, Sync(v, k)) IN
         /\ w \in Values /\ w.rev = v.rev
         /\ \A i \in BlockIds : w.blocks[i] =
              IF i \notin Present(v) THEN NoBlock
              ELSE IF v.stamps[i] > k.rev /\ v.blocks[i] # NoBlock THEN v.blocks[i]
              ELSE k.blocks[i]
<1> DEFINE d == [Seen(v) EXCEPT !.blocks = [i \in BlockIds |->
                   IF v.stamps[i] > k.rev THEN v.blocks[i] ELSE NoBlock]]
           b == [i \in BlockIds |->
                   IF i \notin Present(v) THEN NoBlock
                   ELSE IF d.blocks[i] # NoBlock THEN d.blocks[i] ELSE k.blocks[i]]
<1>1. k.rev \in Nat /\ v.rev \in Nat /\ k.blocks \in [BlockIds -> Blocks]
      /\ v.blocks \in [BlockIds -> Blocks]
  BY DEF Values
<1>2. d \in Values /\ d.rev = v.rev
      /\ d.blocks = [i \in BlockIds |-> IF v.stamps[i] > k.rev THEN v.blocks[i] ELSE NoBlock]
  <2>1. [i \in BlockIds |-> IF v.stamps[i] > k.rev THEN v.blocks[i] ELSE NoBlock]
          \in [BlockIds -> Blocks]
    BY <1>1 DEF Blocks
  <2> QED
    BY <2>1, SeenValue DEF Values
<1>3. Sync(v, k) = [kind |-> "delta", base |-> k.rev, value |-> d, ids |-> Present(v)]
  <2>1. k.rev # v.rev /\ ~(k.rev > v.rev)
    BY <1>1
  <2>2. [Seen(v) EXCEPT !.blocks = [i \in BlockIds |->
           IF v.stamps[i] > k.rev THEN @[i] ELSE NoBlock]] = d
    BY SeenValue DEF Values
  <2> HIDE DEF d
  <2> QED
    BY <2>1, <2>2 DEF Sync
<1> HIDE DEF d
<1>4. b \in [BlockIds -> Blocks]
  BY <1>1, <1>2 DEF Values, Blocks
<1>5. ApplySync(k, Sync(v, k)) = [d EXCEPT !.blocks = b]
  BY <1>2, <1>3 DEF ApplySync, Values
<1>6. [d EXCEPT !.blocks = b] \in Values /\ [d EXCEPT !.blocks = b].rev = v.rev
      /\ [d EXCEPT !.blocks = b].blocks = b
  <2> HIDE DEF b
  <2> QED
    BY <1>2, <1>4 DEF Values
<1>7. \A i \in BlockIds : b[i] =
              IF i \notin Present(v) THEN NoBlock
              ELSE IF v.stamps[i] > k.rev /\ v.blocks[i] # NoBlock THEN v.blocks[i]
              ELSE k.blocks[i]
  BY <1>2
<1> HIDE DEF b
<1> QED
  BY <1>5, <1>6, <1>7

\* What a sync makes of what was known is the stored transcript.
LEMMA SyncBehind ==
  ASSUME NEW v \in Values, NEW k \in Values \cup {NoView}, k # NoView => Behind(k, v)
  PROVE  ApplySync(k, Sync(v, k)) \in Values /\ Behind(ApplySync(k, Sync(v, k)), v)
<1>1. CASE k # NoView /\ k.rev = v.rev
  <2>1. ApplySync(k, Sync(v, k)) = k
    BY <1>1 DEF Sync, ApplySync
  <2> QED
    BY <1>1, <2>1
<1>2. CASE k = NoView
  <2>1. ApplySync(k, Sync(v, k)) = Seen(v)
    BY <1>2 DEF Sync, ApplySync
  <2>2. Behind(Seen(v), v)
    BY SeenValue, BehindSame DEF Agree
  <2> QED
    BY <2>1, <2>2, SeenValue
<1>3. CASE k # NoView /\ k.rev # v.rev
  <2>1. k \in Values /\ k.rev \in Nat /\ v.rev \in Nat
    BY <1>3 DEF Values
  <2>2. k.rev < v.rev
    BY <1>3, <2>1 DEF Behind
  <2> DEFINE w == ApplySync(k, Sync(v, k))
  <2>3. /\ w \in Values /\ w.rev = v.rev
        /\ \A i \in BlockIds : w.blocks[i] =
              IF i \notin Present(v) THEN NoBlock
              ELSE IF v.stamps[i] > k.rev /\ v.blocks[i] # NoBlock THEN v.blocks[i]
              ELSE k.blocks[i]
    BY <1>3, <2>1, <2>2, DeltaValue
  <2> HIDE DEF w
  <2>4. ASSUME NEW i \in BlockIds
        PROVE  Agree(w.blocks[i], v.blocks[i])
    <3>1. CASE i \notin Present(v)
      BY <2>3, <3>1 DEF Present, Agree
    <3>2. CASE i \in Present(v) /\ v.stamps[i] > k.rev
      BY <2>3, <3>2 DEF Present, Agree
    <3>3. CASE i \in Present(v) /\ ~(v.stamps[i] > k.rev)
      <4>1. v.stamps[i] <= k.rev
        BY <2>1, <3>3 DEF Values
      <4>2. Agree(k.blocks[i], v.blocks[i])
        BY <1>3, <3>3, <4>1 DEF Behind
      <4> QED
        BY <2>3, <3>3, <4>2
    <3> QED
      BY <3>1, <3>2, <3>3
  <2>5. Behind(w, v)
    BY <2>3, <2>4, BehindSame
  <2> QED
    BY <2>3, <2>5 DEF w
<1> QED
  BY <1>1, <1>2, <1>3

\* A value whose drafts are replaced by hand is behind what it was behind.
DraftPut(k, c) ==
  [k EXCEPT !.status = "idle",
     !.blocks = [i \in BlockIds |->
        IF i = <<c, "user">> THEN Marked("draft")
        ELSE IF k.blocks[i].mark = "draft" THEN NoBlock ELSE k.blocks[i]]]

LEMMA DraftPutValue ==
  ASSUME NEW k \in Values, NEW c \in Commands
  PROVE  /\ DraftPut(k, c) \in Values /\ DraftPut(k, c).rev = k.rev
         /\ \A i \in BlockIds : DraftPut(k, c).blocks[i] =
              IF i = <<c, "user">> THEN Marked("draft")
              ELSE IF k.blocks[i].mark = "draft" THEN NoBlock ELSE k.blocks[i]
<1> DEFINE b == [i \in BlockIds |->
        IF i = <<c, "user">> THEN Marked("draft")
        ELSE IF k.blocks[i].mark = "draft" THEN NoBlock ELSE k.blocks[i]]
<1>1. b \in [BlockIds -> Blocks]
  BY MarkedBlock DEF Values, Blocks, Marks
<1>2. DraftPut(k, c) = [k EXCEPT !.status = "idle", !.blocks = b]
  BY DEF DraftPut
<1>3. \A i \in BlockIds : b[i] =
              IF i = <<c, "user">> THEN Marked("draft")
              ELSE IF k.blocks[i].mark = "draft" THEN NoBlock ELSE k.blocks[i]
  OBVIOUS
<1> HIDE DEF b
<1> QED
  BY <1>1, <1>2, <1>3 DEF Values

LEMMA DraftBehind ==
  ASSUME NEW k \in Values, NEW v \in Values, NEW c \in Commands, Type(c) = "draft",
         Sound(v), Behind(k, v)
  PROVE  Behind(DraftPut(k, c), v)
<1> DEFINE w == DraftPut(k, c)
<1>1. /\ w \in Values /\ w.rev = k.rev
      /\ \A i \in BlockIds : w.blocks[i] =
              IF i = <<c, "user">> THEN Marked("draft")
              ELSE IF k.blocks[i].mark = "draft" THEN NoBlock ELSE k.blocks[i]
  BY DraftPutValue
<1> HIDE DEF w
<1>2. ASSUME NEW i \in BlockIds, Agree(k.blocks[i], v.blocks[i])
      PROVE  Agree(w.blocks[i], v.blocks[i])
  <2>1. CASE i = <<c, "user">>
    <3>1. v.blocks[i].mark \in {"draft", "absent"}
      BY <2>1 DEF Sound
    <3>2. w.blocks[i].mark = "draft"
      BY <1>1, <2>1
    <3> QED
      BY <3>1, <3>2 DEF Agree
  <2>2. CASE i # <<c, "user">> /\ k.blocks[i].mark = "draft"
    <3>1. w.blocks[i].mark = "absent"
      BY <1>1, <2>2 DEF NoBlock
    <3>2. v.blocks[i].mark \in {"draft", "absent"}
      BY <1>2, <2>2 DEF Agree
    <3> QED
      BY <3>1, <3>2 DEF Agree
  <2>3. CASE i # <<c, "user">> /\ k.blocks[i].mark # "draft"
    BY <1>1, <1>2, <2>3
  <2> QED
    BY <2>1, <2>2, <2>3
<1>3. Behind(w, v)
  BY <1>1, <1>2 DEF Behind, Present
<1> QED
  BY <1>3 DEF w

\* Nothing but the id of a session is older than its first revision.
LEMMA BlankBehind ==
  ASSUME NEW c \in Commands, NEW v \in Values, Stamped(v)
  PROVE  /\ [Created(c) EXCEPT !.rev = 0] \in Values
         /\ Behind([Created(c) EXCEPT !.rev = 0], v)
<1> DEFINE k == [Created(c) EXCEPT !.rev = 0]
<1>1. k \in Values /\ k.rev = 0
  BY CreatedValue DEF Values
<1>2. v.rev \in Nat /\ \A i \in BlockIds : v.stamps[i] \in Nat
  BY DEF Values
<1> HIDE DEF k
<1>3. Behind(k, v)
  BY <1>1, <1>2 DEF Stamped, Behind, Present
<1> QED
  BY <1>1, <1>3 DEF k

-----------------------------------------------------------------------------
(* What a step does to a stored session: it goes, it comes, or it is revised *)

Grows(s) ==
  \/ disk'[s] = NoSession
  \/ disk[s] # NoSession /\ Later(disk[s], disk'[s])
  \/ /\ disk[s] = NoSession
     /\ \E c \in Commands : /\ Type(c) = "create" /\ SessionOf(c) = s /\ c \notin receipts
                            /\ disk'[s] = Created(c)

LEMMA SameGrows ==
  ASSUME UNCHANGED disk
  PROVE  \A t \in Sessions : Grows(t)
BY DEF Grows, Later

LEMMA StoredGrows ==
  ASSUME TypeOK, NEW s \in Sessions, disk[s] # NoSession, NEW w \in Values,
         Store(s, w), Later(disk[s], w)
  PROVE  \A t \in Sessions : Grows(t)
<1>1. disk'[s] = w /\ \A t \in Sessions \ {s} : disk'[t] = disk[t]
  BY DEF Store, TypeOK
<1> QED
  BY <1>1 DEF Grows, Later

LEMMA FlushedLater ==
  ASSUME TypeOK, NEW s \in Sessions, disk[s] # NoSession
  PROVE  Flushed(s) \in Values /\ Later(disk[s], Flushed(s))
<1>1. disk[s] \in Values
  BY DEF TypeOK
<1>2. CASE Dirty(s)
  <2>1. live[s].value \in Values
    BY <1>2 DEF TypeOK, Dirty, Live
  <2>2. Flushed(s) = Written(disk[s], live[s].value)
    BY <1>2 DEF Flushed
  <2> QED
    BY <1>1, <2>1, <2>2, LaterWritten
<1>3. CASE ~Dirty(s)
  BY <1>1, <1>3 DEF Flushed, Later
<1> QED
  BY <1>2, <1>3

LEMMA FlushedWritten ==
  ASSUME TypeOK, NEW s \in Sessions, disk[s] # NoSession, NEW n \in Values
  PROVE  Written(Flushed(s), n) \in Values /\ Later(disk[s], Written(Flushed(s), n))
<1>1. Flushed(s) \in Values /\ Later(disk[s], Flushed(s)) /\ disk[s] \in Values
  BY FlushedLater DEF TypeOK
<1>2. Written(Flushed(s), n) \in Values /\ Later(Flushed(s), Written(Flushed(s), n))
  BY <1>1, LaterWritten
<1> QED
  BY <1>1, <1>2, LaterLater

LEMMA RequestGrows ==
  ASSUME IInv, NEW c \in Commands, Refuse(c) \/ Create(c) \/ Accept(c)
  PROVE  \A t \in Sessions : Grows(t)
<1> DEFINE s == SessionOf(c)
<1>1. TypeOK /\ s \in Sessions
  BY PayloadFields DEF IInv
<1>2. CASE Refuse(c)
  <2>1. UNCHANGED disk \/ (disk[s] # NoSession /\ Store(s, Flushed(s)))
    BY <1>2 DEF Refuse, FlushThrows
  <2> QED
    BY <1>1, <2>1, SameGrows, FlushedLater, StoredGrows
<1>3. CASE Create(c)
  <2>1. disk'[s] = Created(c) /\ disk[s] = NoSession /\ Type(c) = "create" /\ c \notin receipts
        /\ \A t \in Sessions \ {s} : disk'[t] = disk[t]
    BY <1>1, <1>3 DEF Create, Store, TypeOK
  <2> QED
    BY <2>1 DEF Grows, Later
<1>4. CASE Accept(c)
  <2> DEFINE f == Flushed(s)
  <2>1. disk[s] # NoSession /\ Store(s, Written(f, After(c, f)))
    BY <1>4 DEF Accept
  <2>2. f \in Values
    BY <1>1, <2>1, FlushedLater
  <2>3. After(c, f) \in Values
    BY <2>2, AfterValue
  <2>4. Written(f, After(c, f)) \in Values /\ Later(disk[s], Written(f, After(c, f)))
    BY <1>1, <2>1, <2>3, FlushedWritten
  <2> QED
    BY <1>1, <2>1, <2>4, StoredGrows
<1> QED
  BY <1>2, <1>3, <1>4

LEMMA TitleGrows ==
  ASSUME IInv, NEW s \in Sessions, Rename(s) \/ TitleArrives(s)
  PROVE  \A t \in Sessions : Grows(t)
<1> DEFINE f == Flushed(s)
           u == Written(f, [f EXCEPT !.title = "renamed"])
           w == Written(f, [f EXCEPT !.title = "generated"])
<1>1. TypeOK /\ disk[s] # NoSession
  BY DEF IInv, Rename, TitleArrives
<1>2. f \in Values /\ Later(disk[s], f)
  BY <1>1, FlushedLater
<1>3. [f EXCEPT !.title = "renamed"] \in Values /\ [f EXCEPT !.title = "generated"] \in Values
  <2> HIDE DEF f
  <2> QED
    BY <1>2 DEF Values
<1>4. u \in Values /\ Later(disk[s], u) /\ w \in Values /\ Later(disk[s], w)
  BY <1>1, <1>3, FlushedWritten
<1>5. UNCHANGED disk \/ \E x \in {f, u, w} : Store(s, x)
  BY DEF Rename, TitleArrives, FlushThrows
<1> HIDE DEF f, u, w
<1> QED
  BY <1>1, <1>2, <1>4, <1>5, SameGrows, StoredGrows

LEMMA SettleGrows ==
  ASSUME IInv, NEW s \in Sessions,
         Finish(s) \/ FinishRetry(s) \/ \E p \in {"stopping", "retrying"} : SettleFails(s, p)
  PROVE  \A t \in Sessions : Grows(t)
<1>1. TypeOK /\ running[s] # NoTurn
  BY DEF IInv, Finish, FinishRetry, SettleFails
<1>2. disk[s] # NoSession
  BY <1>1 DEF IInv, Consistent, Running
<1>3. CASE Finish(s) \/ FinishRetry(s)
  <2>1. PICK st \in {"idle", "interrupted"}, clean \in BOOLEAN : Settle(s, st, clean)
    BY <1>3 DEF Finish, FinishRetry
  <2> DEFINE v == Flushed(s)
  <2>2. v \in Values /\ Later(disk[s], v)
    BY <1>1, <1>2, FlushedLater
  <2>3. Settled(v, st, clean) \in Values
    BY <2>2, SettledValue
  <2>4. Written(v, Settled(v, st, clean)) \in Values
        /\ Later(disk[s], Written(v, Settled(v, st, clean)))
    BY <1>1, <1>2, <2>3, FlushedWritten
  <2>5. Store(s, v) \/ Store(s, Written(v, Settled(v, st, clean)))
    BY <2>1 DEF Settle
  <2> HIDE DEF v
  <2> QED
    BY <1>1, <1>2, <2>2, <2>4, <2>5, StoredGrows
<1>4. CASE \E p \in {"stopping", "retrying"} : SettleFails(s, p)
  <2>1. UNCHANGED disk \/ Store(s, Flushed(s))
    BY <1>4 DEF SettleFails
  <2> QED
    BY <1>1, <1>2, <2>1, SameGrows, FlushedLater, StoredGrows
<1> QED
  BY <1>3, <1>4

LEMMA FlushGrows ==
  ASSUME IInv, NEW s \in Sessions, NEW l, l.value \in Values, live[s] # NoLive, ScheduledFlush(s, l)
  PROVE  \A t \in Sessions : Grows(t)
<1>1. TypeOK /\ disk[s] # NoSession /\ disk[s] \in Values
  BY DEF IInv, Consistent, Running, TypeOK
<1>2. UNCHANGED disk \/ Store(s, Written(disk[s], l.value))
  BY DEF ScheduledFlush, Store
<1>3. Written(disk[s], l.value) \in Values /\ Later(disk[s], Written(disk[s], l.value))
  BY <1>1, LaterWritten
<1> QED
  BY <1>1, <1>2, <1>3, SameGrows, StoredGrows

LEMMA EventGrows ==
  ASSUME IInv, NEW s \in Sessions,
         FlushTimer(s) \/ \E x \in Emits : Event(s, x[1], x[2])
  PROVE  \A t \in Sessions : Grows(t)
<1>1. live[s] # NoLive /\ live[s] \in Live /\ live[s].value \in Values
  BY DEF IInv, FlushTimer, Event, TypeOK, Live
<1>2. CASE FlushTimer(s)
  <2>1. UNCHANGED disk \/ ScheduledFlush(s, live[s])
    BY <1>2 DEF FlushTimer
  <2> QED
    BY <1>1, <2>1, SameGrows, FlushGrows
<1>3. ASSUME NEW x \in Emits, Event(s, x[1], x[2])
      PROVE  \A t \in Sessions : Grows(t)
  <2> DEFINE e == x[2]
             w == Apply(e, live[s].value)
             l == [live[s] EXCEPT !.value = w, !.dirty = TRUE]
  <2>1. e \in Events
    BY BoundsAssumption
  <2>2. w \in Values
    BY <1>1, <2>1, ApplyValue
  <2>3. l = [live[s] EXCEPT !.value = Apply(e, @), !.dirty = TRUE]
    BY <1>1 DEF Live
  <2>4. l.value = w
    <3> HIDE DEF w
    <3> QED
      BY <1>1 DEF Live
  <2>5. UNCHANGED disk \/ ScheduledFlush(s, l)
    BY <1>3, <2>3 DEF Event
  <2> HIDE DEF l, w
  <2> QED
    BY <1>1, <2>2, <2>4, <2>5, SameGrows, FlushGrows
<1> QED
  BY <1>2, <1>3

LEMMA StartGrows ==
  ASSUME IInv, Start
  PROVE  \A t \in Sessions : Grows(t)
<1> SUFFICES ASSUME NEW t \in Sessions
             PROVE  Grows(t)
  OBVIOUS
<1>1. \/ disk'[t] = disk[t]
      \/ Running(t) /\ disk'[t] = Written(disk[t], Settled(disk[t], "interrupted", FALSE))
  BY DEF Start
<1>2. CASE disk'[t] = disk[t]
  BY <1>2 DEF Grows, Later
<1>3. CASE Running(t) /\ disk'[t] = Written(disk[t], Settled(disk[t], "interrupted", FALSE))
  <2>1. disk[t] \in Values /\ disk[t] # NoSession
    BY <1>3 DEF IInv, TypeOK, Running
  <2>2. Settled(disk[t], "interrupted", FALSE) \in Values
    BY <2>1, SettledValue
  <2>3. Later(disk[t], disk'[t])
    BY <1>3, <2>1, <2>2, LaterWritten
  <2> QED
    BY <2>1, <2>3 DEF Grows
<1> QED
  BY <1>1, <1>2, <1>3

LEMMA StepGrows ==
  ASSUME IInv, [Next]_vars
  PROVE  \A t \in Sessions : Grows(t)
<1>1. ASSUME NEW c \in Commands, Refuse(c) \/ Create(c) \/ Accept(c)
      PROVE  \A t \in Sessions : Grows(t)
  BY <1>1, RequestGrows
<1>2. ASSUME NEW s \in Sessions, TurnStep(s)
      PROVE  \A t \in Sessions : Grows(t)
  <2>1. CallProvider(s) \/ SendReturns(s) \/ RetryFires(s) => UNCHANGED disk
    BY DEF CallProvider, SendReturns, RetryFires, stored
  <2> QED
    BY <1>2, <2>1, SameGrows, SettleGrows, EventGrows DEF TurnStep
<1>3. ASSUME NEW s \in Sessions, Side(s)
      PROVE  \A t \in Sessions : Grows(t)
  <2>1. NoTitle(s) => UNCHANGED disk
    BY DEF NoTitle, stored
  <2>2. ASSUME Delete(s)
        PROVE  \A t \in Sessions : Grows(t)
    <3>1. \A t \in Sessions : disk'[t] = NoSession \/ disk'[t] = disk[t]
      BY <2>2 DEF Delete, Store, IInv, TypeOK
    <3> QED
      BY <3>1 DEF Grows, Later
  <2> QED
    BY <1>3, <2>1, <2>2, SameGrows, TitleGrows DEF Side
<1>4. BeginSwitch \/ EndSwitch \/ BeginClose \/ Exit \/ Crash \/ UNCHANGED vars => UNCHANGED disk
  BY DEF BeginSwitch, EndSwitch, BeginClose, Exit, Crash, Gone, vars, stored
<1> QED
  BY <1>1, <1>2, <1>3, <1>4, SameGrows, StartGrows DEF Next, Request

\* Receipts are kept.
LEMMA ReceiptsKept ==
  ASSUME IInv, [Next]_vars, NEW c \in receipts
  PROVE  c \in receipts'
<1>1. c \in Commands /\ SessionOf(c) \in Sessions
  BY PayloadFields DEF IInv, TypeOK
<1>2. Change(SessionOf(c))
  BY <1>1, StepChange
<1>3. PICK new \in SUBSET Commands : Accepts(SessionOf(c), new)
  BY <1>2 DEF Change, Absent, Content, Made, Commanded, Told, Ends, Dropped, Quietly
<1> QED
  BY <1>1, <1>3 DEF Accepts

-----------------------------------------------------------------------------
(* What the tab shows *)

\* A view (k) of session s is no newer than what is stored of s (v), among the
\* receipts rs.
Current(k, rs, s, v) ==
  /\ \E c \in rs : Type(c) = "create" /\ SessionOf(c) = s
  /\ v # NoSession => Behind(k, v)

View ==
  /\ known \in Values \cup {NoView}
  /\ poll # NoPoll => ApplySync(poll.known, poll.sync) \in Values
  /\ \A s \in Sessions :
       /\ disk[s] # NoSession => Stamped(disk[s])
       /\ known # NoView => Current(known, receipts, s, disk[s])
       /\ poll # NoPoll => Current(ApplySync(poll.known, poll.sync), receipts, s, disk[s])

RInv == HInv /\ MInv /\ View

\* The host goes on, what was answered becomes older.
LEMMA CurrentKept ==
  ASSUME HInv, [Next]_vars, HInv', NEW s \in Sessions,
         NEW k \in Values, Current(k, receipts, s, disk[s])
  PROVE  Current(k, receipts', s, disk'[s])
<1>1. IInv /\ TypeOK /\ TypeOK' /\ Grows(s)
  BY StepGrows DEF HInv, IInv
<1>2. PICK c \in receipts : Type(c) = "create" /\ SessionOf(c) = s
  BY DEF Current
<1>3. c \in receipts' /\ c \in Commands
  BY <1>1, ReceiptsKept DEF TypeOK
<1>4. ASSUME disk'[s] # NoSession
      PROVE  Behind(k, disk'[s])
  <2>1. ASSUME NEW d \in Commands, Type(d) = "create", SessionOf(d) = s, d \notin receipts
        PROVE  FALSE
    BY <1>2, <1>3, <2>1, NullAssumption
  <2>2. disk[s] # NoSession /\ Later(disk[s], disk'[s])
    BY <1>1, <1>4, <2>1 DEF Grows
  <2>3. disk[s] \in Values /\ disk'[s] \in Values
    BY <1>1, <1>4, <2>2 DEF TypeOK
  <2>4. Behind(k, disk[s])
    BY <2>2 DEF Current
  <2> QED
    BY <2>2, <2>3, <2>4, BehindLater
<1> QED
  BY <1>2, <1>3, <1>4 DEF Current

LEMMA StampedKept ==
  ASSUME HInv, [Next]_vars, HInv', NEW s \in Sessions,
         disk[s] # NoSession => Stamped(disk[s]), disk'[s] # NoSession
  PROVE  Stamped(disk'[s])
<1>1. TypeOK /\ TypeOK' /\ Grows(s)
  BY StepGrows DEF HInv, IInv
<1>2. CASE disk[s] # NoSession
  <2>1. disk[s] \in Values /\ disk'[s] \in Values /\ Later(disk[s], disk'[s])
    BY <1>1, <1>2 DEF Grows, TypeOK
  <2> QED
    BY <1>2, <2>1, LaterStamped
<1>3. CASE disk[s] = NoSession
  <2>1. PICK c \in Commands : disk'[s] = Created(c)
    BY <1>1, <1>3 DEF Grows
  <2>2. Present(Created(c)) = {} /\ Created(c).rev = 1
    BY CreatedValue DEF Present
  <2> QED
    BY <2>1, <2>2 DEF Stamped
<1> QED
  BY <1>2, <1>3

\* Steps that show nothing new.
LEMMA ViewStays ==
  ASSUME RInv, HInv', [Next]_vars, known' \in {known, NoView}, poll' \in {poll, NoPoll}
  PROVE  View'
<1>1. HInv /\ View
  BY DEF RInv
<1>2. ASSUME NEW s \in Sessions
      PROVE  /\ disk'[s] # NoSession => Stamped(disk'[s])
             /\ known' # NoView => Current(known', receipts', s, disk'[s])
             /\ poll' # NoPoll =>
                  Current(ApplySync(poll'.known, poll'.sync), receipts', s, disk'[s])
  <2>1. disk'[s] # NoSession => Stamped(disk'[s])
    BY <1>1, StampedKept DEF View
  <2>2. ASSUME known' # NoView
        PROVE  Current(known', receipts', s, disk'[s])
    <3>1. known' = known /\ known # NoView /\ known \in Values
          /\ Current(known, receipts, s, disk[s])
      BY <1>1, <2>2 DEF View
    <3> QED
      BY <1>1, <3>1, CurrentKept
  <2>3. ASSUME poll' # NoPoll
        PROVE  Current(ApplySync(poll'.known, poll'.sync), receipts', s, disk'[s])
    <3>1. poll' = poll /\ ApplySync(poll.known, poll.sync) \in Values
          /\ Current(ApplySync(poll.known, poll.sync), receipts, s, disk[s])
      BY <1>1, <2>3 DEF View
    <3>2. Current(ApplySync(poll.known, poll.sync), receipts', s, disk'[s])
      BY <1>1, <3>1, CurrentKept
    <3> QED
      BY <3>1, <3>2
  <2> QED
    BY <2>1, <2>2, <2>3
<1>3. /\ known' \in Values \cup {NoView}
      /\ poll' # NoPoll => ApplySync(poll'.known, poll'.sync) \in Values
  BY <1>1 DEF View
<1> QED
  BY <1>2, <1>3 DEF View

\* The host answers a poll.
LEMMA AsksView ==
  ASSUME RInv, NEW s \in Sessions, disk[s] # NoSession, NEW k \in {known, NoView},
         poll' = Asked(s, k), UNCHANGED <<vars, known>>
  PROVE  View'
<1> DEFINE w == ApplySync(k, Sync(disk[s], k))
<1>1. HInv /\ View /\ disk[s] \in Values /\ UNCHANGED <<disk, receipts>>
  BY DEF RInv, HInv, IInv, TypeOK, vars
<1>2. k \in Values \cup {NoView} /\ (k # NoView => Behind(k, disk[s]))
  BY <1>1 DEF View, Current
<1>3. w \in Values /\ Behind(w, disk[s])
  BY <1>1, <1>2, SyncBehind
<1>4. ApplySync(poll'.known, poll'.sync) = w
  BY DEF Asked
<1>5. \E c \in receipts : Type(c) = "create" /\ SessionOf(c) = s
  BY <1>1 DEF HInv, Whole
<1> HIDE DEF w
<1>6. Current(w, receipts, s, disk[s])
  BY <1>3, <1>5 DEF Current
<1>7. \A t \in Sessions : t = s
  BY RemoteAssumption
<1>8. /\ known' \in Values \cup {NoView}
      /\ poll' # NoPoll => ApplySync(poll'.known, poll'.sync) \in Values
  BY <1>1, <1>3, <1>4 DEF View
<1>9. \A t \in Sessions :
       /\ disk'[t] # NoSession => Stamped(disk'[t])
       /\ known' # NoView => Current(known', receipts', t, disk'[t])
       /\ poll' # NoPoll =>
            Current(ApplySync(poll'.known, poll'.sync), receipts', t, disk'[t])
  BY <1>1, <1>4, <1>6, <1>7 DEF View
<1> QED
  BY <1>8, <1>9 DEF View

LEMMA TakesView ==
  ASSUME RInv, PollTakes
  PROVE  View'
<1>1. View /\ UNCHANGED <<disk, receipts>> /\ poll # NoPoll /\ poll' = NoPoll
      /\ known' = ApplySync(poll.known, poll.sync)
  BY DEF RInv, PollTakes, vars
<1> QED
  BY <1>1 DEF View

\* A draft is put in by hand once it was accepted.
LEMMA ConfirmedView ==
  ASSUME RInv, Confirmed
  PROVE  View'
<1> DEFINE c == sending
           b == [Created(c) EXCEPT !.rev = 0]
           k == IF known # NoView THEN known ELSE b
<1>1. /\ HInv /\ MInv /\ View /\ UNCHANGED <<disk, receipts>> /\ poll' = NoPoll
      /\ known' = IF Type(c) = "draft" THEN WithDraft(c) ELSE known
      /\ c \in receipts /\ c \in Commands
  <2>1. MInv /\ reply = "receipt"
    BY DEF RInv, Confirmed
  <2>2. c \in receipts
    BY <2>1 DEF MInv, Replied
  <2> QED
    BY <2>2 DEF RInv, HInv, IInv, TypeOK, Confirmed, vars
<1>2. CASE Type(c) # "draft"
  BY <1>1, <1>2 DEF View
<1>3. CASE Type(c) = "draft"
  <2>1. b \in Values
    BY <1>1, CreatedValue DEF Values
  <2>2. k \in Values
    BY <1>1, <2>1 DEF View
  <2>3. known' = DraftPut(k, c)
    BY <1>1, <1>3, <2>2 DEF WithDraft, DraftPut, Values
  <2>4. DraftPut(k, c) \in Values
    BY <1>1, <2>2, DraftPutValue
  <2>5. ASSUME NEW s \in Sessions
        PROVE  Current(DraftPut(k, c), receipts, s, disk[s])
    <3>1. SessionOf(c) = s
      BY <1>1, PayloadFields, RemoteAssumption
    <3>2. \E d \in receipts : Type(d) = "create" /\ SessionOf(d) = s
      BY <1>1, <3>1 DEF HInv, Whole
    <3>3. ASSUME disk[s] # NoSession
          PROVE  Behind(DraftPut(k, c), disk[s])
      <4>1. disk[s] \in Values /\ Sound(disk[s]) /\ Stamped(disk[s])
        BY <1>1, <3>3 DEF HInv, IInv, TypeOK, Honest, View
      <4>2. CASE known # NoView
        <5>1. Behind(k, disk[s])
          BY <1>1, <3>3, <4>2 DEF View, Current
        <5> HIDE DEF k, c
        <5> QED
          BY <1>1, <1>3, <2>2, <4>1, <5>1, DraftBehind
      <4>3. CASE known = NoView
        <5>1. Behind(b, disk[s])
          BY <1>1, <4>1, BlankBehind
        <5>2. Behind(k, disk[s])
          BY <4>3, <5>1
        <5> HIDE DEF k, c
        <5> QED
          BY <1>1, <1>3, <2>2, <4>1, <5>2, DraftBehind
      <4> QED
        BY <4>2, <4>3
    <3> QED
      BY <3>2, <3>3 DEF Current
  <2> HIDE DEF k
  <2>6. known' \in Values /\ \A s \in Sessions : Current(known', receipts', s, disk'[s])
    BY <1>1, <2>3, <2>4, <2>5
  <2>7. \A s \in Sessions : disk'[s] # NoSession => Stamped(disk'[s])
    BY <1>1 DEF View
  <2> QED
    BY <1>1, <2>6, <2>7 DEF View
<1> QED
  BY <1>2, <1>3

LEMMA StepRInv ==
  ASSUME RInv, [Host \/ Tab]_remoteVars
  PROVE  RInv'
<1>1. [Next]_vars
  BY HostSteps
<1>2. HInv'
  BY <1>1, StepHInv DEF RInv
<1>3. MInv'
  BY StepMInv DEF RInv
<1>4. View'
  <2>1. ASSUME NEW s \in Sessions, PollAsks(s) \/ PollAsksAgain(s)
        PROVE  View'
    <3>1. disk[s] # NoSession /\ UNCHANGED <<vars, known>>
          /\ (poll' = Asked(s, known) \/ poll' = Asked(s, NoView))
      BY <2>1 DEF PollAsks, PollAsksAgain
    <3> QED
      BY <3>1, AsksView
  <2>2. PollTakes \/ Confirmed => View'
    BY TakesView, ConfirmedView
  <2>3. ASSUME known' \in {known, NoView}, poll' \in {poll, NoPoll}
        PROVE  View'
    BY <1>1, <1>2, <2>3, ViewStays
  <2>4. ASSUME NEW c \in Mine, Submit(c) \/ TryAgain(c) \/ SaveFails(c) \/ Serve(c)
        PROVE  known' \in {known, NoView} /\ poll' \in {poll, NoPoll}
    BY <2>4 DEF Submit, TryAgain, SaveFails, Unsaved, Serve, Answer, screen
  <2>5. Retry \/ RetryUnsaved \/ Begun \/ Rejected \/ Fails \/ Restart \/ PollFails =>
          known' \in {known, NoView} /\ poll' \in {poll, NoPoll}
    BY DEF Retry, RetryUnsaved, Unsaved, Begun, Rejected, Fails, Restart, PollFails
  <2>6. Host \/ UNCHANGED remoteVars => known' \in {known, NoView} /\ poll' \in {poll, NoPoll}
    BY DEF Host, remoteVars, tab, screen
  <2> QED
    BY <2>1, <2>2, <2>3, <2>4, <2>5, <2>6 DEF Tab
<1> QED
  BY <1>2, <1>3, <1>4 DEF RInv

LEMMA InitRInv ==
  ASSUME RemoteInit
  PROVE  RInv
<1>1. IInv
  BY InitIInv DEF RemoteInit
<1>2. \A s \in Sessions : Honest(s) /\ Whole(s)
  BY DEF RemoteInit, Init, Honest, Whole
<1>3. View
  BY DEF RemoteInit, Init, View
<1> QED
  BY <1>1, <1>2, <1>3, InitMInv DEF RInv, HInv

\* What the tab shows and was answered is never newer than what is stored.
THEOREM ViewHolds == RemoteSpec => []RInv
BY InitRInv, StepRInv, PTL DEF RemoteSpec

\* At the host's revision the tab shows the host's transcript, drafts aside:
\* whatever updates were lost, applied late, or applied after a draft was put in
\* by hand (blockRevisions, sync, applySessionSync).
THEOREM TranscriptIsFaithful == RemoteSpec => []TranscriptFaithful
<1>1. RInv => TranscriptFaithful
  BY DEF RInv, View, Current, Behind, Agree, TranscriptFaithful
<1> QED
  BY <1>1, ViewHolds, PTL

\* The types of a tab, for every tab and every host.
THEOREM TabTypes == RemoteSpec => []RemoteTypeOK
<1>1. RInv => RemoteTypeOK
  BY NoRunMine DEF RInv, MInv, Mail, Replied, View, RemoteTypeOK
<1> QED
  BY <1>1, ViewHolds, PTL
=============================================================================
