------------------------------- MODULE Outbox -------------------------------
(***************************************************************************)
(* The transactional outbox of apps/notifications and its delivery passes: *)
(* the inline drain that runs after a commit and the scheduled             *)
(* run_notifier, any number of them at a time, on rows of the Notification *)
(* table.  A pass claims a batch in one transaction, sends outside any     *)
(* transaction and records each outcome from the rows it claimed, which it *)
(* does not read again.                                                    *)
(*                                                                         *)
(* next_attempt_at is kept as due_in, the ticks from now until then: zero  *)
(* or less is due, and as the column doubles as the claim stamp, -n is a   *)
(* claim n ticks old.  Rows with no recipient (invitations, contact form)  *)
(* and rows whose recipient set a preference are one kind each; a message  *)
(* stands for one recipient on one channel.                                *)
(***************************************************************************)
EXTENDS Integers, FiniteSets

CONSTANTS
  MaxMessage,     \* bound: notification rows
  Worker,         \* delivery passes that may run at a time
  BatchSize,      \* NOTIFIER_BATCH_SIZE
  MaxAttempts,    \* NOTIFIER_MAX_ATTEMPTS
  StuckAfter,     \* STUCK_SENDING_MINUTES, in ticks
  Strangers,      \* messages to addresses without an account
  Invites,        \* INSTRUCTOR_INVITE messages
  WhatsApp,       \* messages on that channel; the others are e-mails
  MaxLosses,      \* bound: crashes and replies lost on their way back
  Prompt          \* whether a pass is never slower than StuckAfter with a row

Message == 1..MaxMessage

ASSUME OutboxAssumption ==
  /\ MaxMessage \in Nat
  /\ BatchSize \in Nat \ {0}
  /\ MaxAttempts \in Nat \ {0}
  /\ StuckAfter \in Nat \ {0}
  /\ MaxLosses \in Nat
  /\ Prompt \in BOOLEAN
  /\ Strangers \subseteq Message
  /\ Invites \subseteq Message \ Strangers
  /\ WhatsApp \subseteq Message \ (Strangers \cup Invites)

(* The longest backoff is the last: a law of arithmetic, which the proofs  *)
(* use and the provers, who know nothing of powers, cannot show.           *)
ASSUME PowersAssumption ==
  \A n \in 0..MaxAttempts : 2 ^ n \in 1..(2 ^ MaxAttempts)

VARIABLES
  row,        \* the Notification table
  wants,      \* the recipient's notify_email or notify_whatsapp
  pass,       \* for a worker, the rows it has claimed and the reply it holds
  accepted,   \* history: how often the provider has taken the message
  excused,    \* history: how often its acceptance was lost before it was recorded
  changed,    \* history: messages whose recipient changed it since the last claim
  losses      \* crashes and lost replies so far

ovars == <<row, wants, pass, accepted, excused, changed, losses>>

Status == {"NONE", "PENDING", "SENDING", "SENT", "FAILED", "SKIPPED"}

(* What deliver learns from an adapter: sent, or a ChannelError that says  *)
(* to try again ("error") or is permanent: for what the message is         *)
(* ("rejected"), for a recipient refused for now ("greylisted") or for     *)
(* what the provider makes of our account ("barred").                      *)
Permanent == {"rejected", "greylisted", "barred"}
Reply == {"sent", "error"} \cup Permanent

Unqueued == [status |-> "NONE", attempts |-> 0, due_in |-> 0, last_error |-> "none"]

Resting == [batch |-> <<>>, reply |-> "none"]

-----------------------------------------------------------------------------
(* Queueing *)

(* _email_row and _whatsapp_row. *)
RowStatus(m) == IF m \in Strangers \/ wants[m] THEN "PENDING" ELSE "SKIPPED"

(* queue_instructor_invite puts the row it has built back on the queue. *)
StatusAtQueue(m) == IF m \in Invites THEN "PENDING" ELSE RowStatus(m)

Queue(m) ==
  /\ row[m] = Unqueued
  /\ \A n \in 1..(m - 1) : row[n] # Unqueued
  /\ row' = [row EXCEPT ![m].status = StatusAtQueue(m)]
  /\ UNCHANGED <<wants, pass, accepted, excused, changed, losses>>

(* The recipient edits the profile. *)
ChangePreference(m) ==
  /\ m \notin Strangers
  /\ wants' = [wants EXCEPT ![m] = ~@]
  /\ changed' = changed \cup {m}
  /\ UNCHANGED <<row, pass, accepted, excused, losses>>

-----------------------------------------------------------------------------
(* A delivery pass *)

(* Mutant: rows that another pass is sending are not filtered out. *)
DueOrSending == {m \in Message : row[m].status \in {"PENDING", "SENDING"} /\ row[m].due_in <= 0}

Due == {m \in Message : row[m].status = "PENDING" /\ row[m].due_in <= 0}

(* The batch in primary-key order; SKIP LOCKED leaves to a claim under way *)
(* the rows it has, as if it had been first.                               *)
Lowest(M) == {m \in M : Cardinality({n \in M : n < m}) < BatchSize}

(* Mutant: the preference is the one the row was queued with. *)
SnapshotAsQueued(m) == [attempts |-> row[m].attempts, wants |-> TRUE]

Snapshot(m) == [attempts |-> row[m].attempts, wants |-> m \in Strangers \/ wants[m]]

(* claim_batch. *)
Claim(w) ==
  /\ pass[w] = Resting
  /\ Due # {}
  /\ LET claimed == Lowest(Due)
     IN /\ row' = [m \in Message |-> IF m \in claimed
                                       THEN [row[m] EXCEPT !.status = "SENDING", !.due_in = 0]
                                       ELSE row[m]]
        /\ pass' = [pass EXCEPT ![w].batch = [m \in claimed |-> Snapshot(m)]]
        /\ changed' = changed \ claimed
  /\ UNCHANGED <<wants, accepted, excused, losses>>

Batch(w) == DOMAIN pass[w].batch

(* The row a pass is at: it goes through its batch in order. *)
IsNext(w, m) == m \in Batch(w) /\ \A n \in Batch(w) : m <= n

Handled(w, m) ==
  [batch |-> [n \in Batch(w) \ {m} |-> pass[w].batch[n]], reply |-> "none"]

(* deliver: _skip_reason_at_send has one. *)
Skip(w, m) ==
  /\ IsNext(w, m)
  /\ pass[w].reply = "none"
  /\ ~pass[w].batch[m].wants
  /\ row' = [row EXCEPT ![m].status = "SKIPPED", ![m].due_in = 0]
  /\ pass' = [pass EXCEPT ![w] = Handled(w, m)]
  /\ UNCHANGED <<wants, accepted, excused, changed, losses>>

-----------------------------------------------------------------------------
(* The channels *)

(* What can become of a request to a provider: it is taken; it is taken    *)
(* and the answer lost, or not the JSON expected; it never arrives; or it  *)
(* is turned down: throttled, out of order, for our credentials, or for    *)
(* the message itself.                                                     *)
Taken == {"taken", "taken_unheard", "taken_garbled"}
Answer == Taken \cup {"unreachable", "throttled", "out_of_order", "locked_out", "malformed"}

(* Mutant: every status below 500 is held against the message. *)
ZeptoMailStrict(answer) ==
  CASE answer \in {"taken", "taken_garbled"} -> "sent"
    [] answer = "malformed" -> "rejected"
    [] answer \in {"throttled", "locked_out"} -> "barred"
    [] OTHER -> "error"

(* The ZeptoMail backend: an unreadable answer only loses the request id,  *)
(* and our own troubles are worth another try.                             *)
ZeptoMail(answer) ==
  CASE answer \in {"taken", "taken_garbled"} -> "sent"
    [] answer = "malformed" -> "rejected"
    [] OTHER -> "error"

(* Django's SMTP backend: a refusal of the only recipient, for now or for  *)
(* good, raises SMTPRecipientsRefused; the rest is one exception or other. *)
SMTP(answer) ==
  CASE answer = "taken" -> "sent"
    [] answer = "malformed" -> "rejected"
    [] answer = "throttled" -> "greylisted"
    [] OTHER -> "error"

(* EmailAdapter.send, over the backend that is configured. *)
EmailReplies(answer) == {ZeptoMail(answer), SMTP(answer)}

(* WhatsAppCloudAdapter.send: an unreadable answer raises, and credentials *)
(* that are not accepted are one more 4xx.                                 *)
WhatsAppReply(answer) ==
  CASE answer = "taken" -> "sent"
    [] answer = "malformed" -> "rejected"
    [] answer = "locked_out" -> "barred"
    [] OTHER -> "error"

Replies(m, answer) == IF m \in WhatsApp THEN {WhatsAppReply(answer)} ELSE EmailReplies(answer)

(* deliver: adapter.send.  An acceptance nobody hears of is a loss. *)
Send(w, m) ==
  /\ IsNext(w, m)
  /\ pass[w].reply = "none"
  /\ pass[w].batch[m].wants
  /\ \E answer \in Answer : \E reply \in Replies(m, answer) :
       LET unheard == answer \in Taken /\ reply # "sent"
       IN /\ unheard => losses < MaxLosses
          /\ pass' = [pass EXCEPT ![w].reply = reply]
          /\ accepted' = [accepted EXCEPT ![m] = IF answer \in Taken THEN @ + 1 ELSE @]
          /\ excused' = [excused EXCEPT ![m] = IF unheard THEN @ + 1 ELSE @]
          /\ losses' = IF unheard THEN losses + 1 ELSE losses
  /\ UNCHANGED <<row, wants, changed>>

(* Mutant: the last attempt is one too late. *)
FailedLate(attempts, error) ==
  IF error \in Permanent \/ attempts > MaxAttempts
    THEN [status |-> "FAILED", attempts |-> attempts, due_in |-> 0, last_error |-> error]
    ELSE [status |-> "PENDING", attempts |-> attempts, due_in |-> 2 ^ attempts, last_error |-> error]

(* _record_failure: exponential backoff, then FAILED. *)
Failed(attempts, error) ==
  IF error \in Permanent \/ attempts >= MaxAttempts
    THEN [status |-> "FAILED", attempts |-> attempts, due_in |-> 0, last_error |-> error]
    ELSE [status |-> "PENDING", attempts |-> attempts, due_in |-> 2 ^ attempts, last_error |-> error]

(* deliver: the outcome is saved over the row, from the claimed copy. *)
Record(w, m) ==
  LET attempts == pass[w].batch[m].attempts + 1
  IN /\ IsNext(w, m)
     /\ pass[w].reply # "none"
     /\ row' = [row EXCEPT ![m] =
                  IF pass[w].reply = "sent"
                    THEN [row[m] EXCEPT !.status = "SENT", !.attempts = attempts, !.due_in = 0]
                    ELSE Failed(attempts, pass[w].reply)]
     /\ pass' = [pass EXCEPT ![w] = Handled(w, m)]
     /\ UNCHANGED <<wants, accepted, excused, changed, losses>>

(* The process dies, or the cycle raises and gives its batch up.  What it  *)
(* had sent and not recorded is forgotten.                                 *)
Crash(w) ==
  /\ pass[w] # Resting
  /\ losses < MaxLosses
  /\ losses' = losses + 1
  /\ pass' = [pass EXCEPT ![w] = Resting]
  /\ excused' = [m \in Message |->
                   IF IsNext(w, m) /\ pass[w].reply = "sent" THEN excused[m] + 1 ELSE excused[m]]
  /\ UNCHANGED <<row, wants, accepted, changed>>

-----------------------------------------------------------------------------
(* Recovery, retries and time *)

(* Mutants: the cutoff lies on the wrong side of now, or at now. *)
StuckInFuture(m) == row[m].status = "SENDING" /\ row[m].due_in > StuckAfter
StuckAtOnce(m) == row[m].status = "SENDING" /\ row[m].due_in < 0

Stuck(m) == row[m].status = "SENDING" /\ row[m].due_in < -StuckAfter

Requeued(r) == [r EXCEPT !.status = "PENDING", !.due_in = 0]

(* recover_stuck, by the scheduled pass. *)
RecoverStuck ==
  /\ \E m \in Message : Stuck(m)
  /\ row' = [m \in Message |-> IF Stuck(m) THEN Requeued(row[m]) ELSE row[m]]
  /\ UNCHANGED <<wants, pass, accepted, excused, changed, losses>>

(* The office's retry_failed. *)
RetryFailed(M) ==
  /\ \A m \in M : row[m].status = "FAILED"
  /\ row' = [m \in Message |-> IF m \in M
                                 THEN [Requeued(row[m]) EXCEPT !.attempts = 0, !.last_error = "none"]
                                 ELSE row[m]]
  /\ UNCHANGED <<wants, pass, accepted, excused, changed, losses>>

(* One tick later; a due row is just due, and a claim past the cutoff is   *)
(* just past it.                                                           *)
Later(r) ==
  CASE r.status = "PENDING" /\ r.due_in > 0 -> [r EXCEPT !.due_in = @ - 1]
    [] r.status = "SENDING" /\ r.due_in >= -StuckAfter -> [r EXCEPT !.due_in = @ - 1]
    [] OTHER -> r

Tick ==
  /\ Prompt => \A w \in Worker : \A m \in Batch(w) : row[m].due_in > -StuckAfter
  /\ row' = [m \in Message |-> Later(row[m])]
  /\ UNCHANGED <<wants, pass, accepted, excused, changed, losses>>

Init ==
  /\ row = [m \in Message |-> Unqueued]
  /\ wants \in [Message -> BOOLEAN]
  /\ pass = [w \in Worker |-> Resting]
  /\ accepted = [m \in Message |-> 0]
  /\ excused = [m \in Message |-> 0]
  /\ changed = {}
  /\ losses = 0

Deliver(w) == \E m \in Message : Skip(w, m) \/ Send(w, m) \/ Record(w, m)

Next ==
  \/ \E m \in Message : Queue(m) \/ ChangePreference(m)
  \/ \E w \in Worker : Claim(w) \/ Deliver(w) \/ Crash(w)
  \/ RecoverStuck
  \/ \E M \in SUBSET Message : RetryFailed(M)
  \/ Tick

Spec == Init /\ [][Next]_ovars

(* The scheduler starts a pass again and again; a pass that does not crash *)
(* gets on with its batch; the clock goes on.                              *)
FairSpec ==
  /\ Spec
  /\ \A w \in Worker : WF_ovars(Claim(w)) /\ WF_ovars(Deliver(w))
  /\ WF_ovars(RecoverStuck)
  /\ WF_ovars(Tick)
-----------------------------------------------------------------------------
(* Properties *)

TypeOK ==
  /\ row \in [Message -> [status : Status, attempts : 0..MaxAttempts,
                          due_in : (-StuckAfter - 1)..(2 ^ MaxAttempts),
                          last_error : Reply \cup {"none"}]]
  /\ wants \in [Message -> BOOLEAN]
  /\ \A w \in Worker : /\ Batch(w) \subseteq Message
                       /\ pass[w].reply \in Reply \cup {"none"}
                       /\ pass[w].reply # "none" => Batch(w) # {}
  /\ accepted \in [Message -> Nat]
  /\ excused \in [Message -> Nat]

(* worker.py 13: "Claiming uses SELECT ... FOR UPDATE SKIP LOCKED so the   *)
(* two can overlap safely".  A row that is being sent is being sent by one *)
(* pass, and no pass holds a row that has been settled or put back.        *)
OneOwner ==
  /\ \A w \in Worker : \A m \in Batch(w) : row[m].status = "SENDING"
  /\ \A v, w \in Worker : v # w => Batch(v) \cap Batch(w) = {}

(* worker.py 138-139, recover_stuck: "may rarely cause a duplicate send    *)
(* after a mid-send crash".  A family gets a message once more for every   *)
(* time its acceptance was lost, by a crash or on the wire, and never      *)
(* otherwise: not when passes overlap, nor through retries.                *)
DuplicateOnlyAfterLoss == \A m \in Message : accepted[m] <= 1 + excused[m]

(* worker.py 54-56, _skip_reason_at_send: however many attempts a message  *)
(* needs, nobody gets it who had opted out when the pass claimed it.       *)
OptOutHonoured ==
  [][\A m \in Message : accepted'[m] > accepted[m] =>
       wants[m] \/ m \in changed \cup Strangers]_ovars

(* services.py 341-342, queue_instructor_invite: "the one email a new      *)
(* account must get, whatever its notification preferences".               *)
InviteNeverSkipped == \A m \in Invites : row[m].status # "SKIPPED"

(* run_notifier.py 15-18 and worker.py 10-12: whatever crashes, fails or   *)
(* is lost, a queued message is in the end sent, skipped, or failed in     *)
(* front of the office, provided that the office does not forever put      *)
(* failed ones back in front of it: a batch goes by primary key.           *)
OfficeRelents == <>[][~\E M \in SUBSET Message : RetryFailed(M)]_ovars

EveryMessageEnds ==
  OfficeRelents =>
    \A m \in Message : (row[m].status \in {"PENDING", "SENDING"})
                        ~> (row[m].status \in {"SENT", "FAILED", "SKIPPED"})

(* The promise of Delivery: "queued" covers PENDING and SENDING. *)
StateOf(status) == CASE status = "NONE" -> "none"
                     [] status \in {"PENDING", "SENDING"} -> "queued"
                     [] status = "SENT" -> "sent"
                     [] status = "FAILED" -> "failed"
                     [] status = "SKIPPED" -> "skipped"

(* On WhatsApp every refusal passes for one of the message, and over SMTP  *)
(* a recipient refused for now passes for one refused for good.            *)
Unfit(m) ==
  row[m].last_error \in IF m \in WhatsApp THEN {"rejected", "barred"} ELSE {"rejected", "greylisted"}

Promise == INSTANCE Delivery WITH
  MaxTries <- MaxAttempts,
  state <- [m \in Message |-> StateOf(row[m].status)],
  tries <- [m \in Message |-> row[m].attempts],
  unfit <- {m \in Message : Unfit(m)}

(* models.py 126, "Transactional outbox + delivery log", and zeptomail.py  *)
(* 49-52, "a fixed token or a recovered service lets the queued row go     *)
(* out": the log tells the truth about each message, a message that was    *)
(* sent is never on the queue again, and none is given up for a trouble    *)
(* that is not its own before it has had all its tries.                    *)
KeepsPromise == Promise!DSpec
=============================================================================
