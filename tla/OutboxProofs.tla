---------------------------- MODULE OutboxProofs ----------------------------
(***************************************************************************)
(* Proofs about Outbox, for every number of messages and passes: its       *)
(* types, that its log tells the truth however slow the passes are and, as *)
(* long as none is slower than StuckAfter (Prompt), that a row has one     *)
(* owner, that only a loss makes a duplicate, that an opt-out is honoured, *)
(* and that the outbox keeps the promise of Delivery.                      *)
(***************************************************************************)
EXTENDS Outbox, TLAPS

(* How long until a row is due, or since it was claimed. *)
Dues == (-StuckAfter - 1)..(2 ^ MaxAttempts)

Row == [status : Status, attempts : 0..MaxAttempts, due_in : Dues, last_error : Reply \cup {"none"}]

(* What a pass keeps of the rows it has claimed. *)
Copy == [attempts : 0..(MaxAttempts - 1), wants : BOOLEAN]
Copies == UNION {[M -> Copy] : M \in SUBSET Message}

Pass == [batch : Copies, reply : Reply \cup {"none"}]

(* A row on the queue has a try left, and a claimed copy too. *)
HasTry(r) == r.status \in {"NONE", "PENDING", "SENDING"} => r.attempts < MaxAttempts

Typed ==
  /\ TypeOK
  /\ pass \in [Worker -> Pass]
  /\ changed \subseteq Message
  /\ \A m \in Message : HasTry(row[m])

-----------------------------------------------------------------------------
(* The operators *)

LEMMA Bounds ==
  /\ MaxAttempts \in Nat /\ MaxAttempts > 0
  /\ StuckAfter \in Nat /\ StuckAfter > 0
  /\ Prompt \in BOOLEAN
BY OutboxAssumption

(* What is due in the time of a backoff, now, or was claimed by now. *)
LEMMA BackoffDue == \A n \in 0..MaxAttempts : 2 ^ n \in Dues
<1> DEFINE top == 2 ^ MaxAttempts
<1>1. top \in Int /\ \A n \in 0..MaxAttempts : 2 ^ n \in 1..top
  <2>1. MaxAttempts \in 0..MaxAttempts
    BY Bounds
  <2> QED
    BY <2>1, PowersAssumption
<1>2. Dues = (-StuckAfter - 1)..top
  BY DEF Dues
<1> HIDE DEF top
<1> QED
  BY <1>1, <1>2, Bounds

LEMMA DuesAre ==
  /\ Dues \subseteq Int
  /\ 0 \in Dues
  /\ \A d \in Dues : -StuckAfter - 1 <= d
  /\ \A d \in Dues : d >= -StuckAfter => d - 1 \in Dues
<1> DEFINE top == 2 ^ MaxAttempts
<1>1. top \in Int /\ top >= 1
  <2>1. MaxAttempts \in 0..MaxAttempts
    BY Bounds
  <2> QED
    BY <2>1, PowersAssumption
<1>2. Dues = (-StuckAfter - 1)..top
  BY DEF Dues
<1> HIDE DEF top
<1> QED
  BY <1>1, <1>2, Bounds

(* A batch is a function on some messages. *)
LEMMA CopiesAre ==
  ASSUME NEW f \in Copies
  PROVE  DOMAIN f \subseteq Message /\ f \in [DOMAIN f -> Copy]
<1>1. PICK M \in SUBSET Message : f \in [M -> Copy]
  BY DEF Copies
<1> QED
  BY <1>1

LEMMA CopiesHave ==
  ASSUME NEW M \in SUBSET Message, NEW f \in [M -> Copy]
  PROVE  f \in Copies
BY DEF Copies

LEMMA RowFields ==
  ASSUME Typed
  PROVE  /\ row \in [Message -> Row]
         /\ \A m \in Message : /\ row[m] \in Row
                              /\ HasTry(row[m])
                              /\ row[m].status \in Status
                              /\ row[m].attempts \in 0..MaxAttempts
                              /\ row[m].due_in \in Dues
                              /\ row[m].last_error \in Reply \cup {"none"}
<1>1. row \in [Message -> Row]
  BY DEF Typed, TypeOK, Row, Dues
<1> QED
  BY <1>1 DEF Row, Typed

(* The fields of a pass. *)
LEMMA PassFields ==
  ASSUME Typed, NEW w \in Worker
  PROVE  /\ Batch(w) \subseteq Message
         /\ pass[w].batch \in [Batch(w) -> Copy]
         /\ pass[w].reply \in Reply \cup {"none"}
         /\ pass[w] \in Pass
BY CopiesAre DEF Typed, Batch, Pass

(* A row given back: its new contents, as _record_failure leaves them. *)
LEMMA FailedRow ==
  ASSUME NEW n \in 1..MaxAttempts, NEW error \in Reply \ {"sent"}
  PROVE  /\ Failed(n, error) \in Row
         /\ Failed(n, error).status \in {"PENDING", "FAILED"}
         /\ Failed(n, error).status = "PENDING" => n < MaxAttempts /\ error = "error"
         /\ Failed(n, error).status = "FAILED" => n = MaxAttempts \/ error # "error"
         /\ Failed(n, error).attempts = n
         /\ Failed(n, error).last_error = error
<1> DEFINE wait == 2 ^ n
           failed == [status |-> "FAILED", attempts |-> n, due_in |-> 0, last_error |-> error]
           again == [status |-> "PENDING", attempts |-> n, due_in |-> wait, last_error |-> error]
<1>1. wait \in Dues /\ 0 \in Dues
  <2>1. n \in 0..MaxAttempts
    BY Bounds
  <2> QED
    BY <2>1, DuesAre, BackoffDue
<1>2. Failed(n, error) = IF error \in Permanent \/ n >= MaxAttempts THEN failed ELSE again
  BY DEF Failed
<1> HIDE DEF wait
<1>3. failed \in Row /\ again \in Row
  <2>1. n \in 0..MaxAttempts /\ error \in Reply \cup {"none"}
    BY Bounds
  <2> QED
    BY <1>1, <2>1 DEF Row, Status
<1>4. error \notin Permanent => error = "error"
  BY DEF Reply
<1>5. error \in Permanent => error # "error"
  BY DEF Permanent
<1>6. n >= MaxAttempts <=> n = MaxAttempts
  BY Bounds
<1>7. ~(n >= MaxAttempts) => n < MaxAttempts
  BY Bounds
<1> QED
  BY <1>2, <1>3, <1>4, <1>5, <1>6, <1>7

-----------------------------------------------------------------------------
(* What the steps of a pass do to the passes *)

(* The row a pass is at is one. *)
LEMMA NextIsOne ==
  ASSUME NEW w \in Worker, Batch(w) \subseteq Message,
         NEW m, NEW n, IsNext(w, m), IsNext(w, n)
  PROVE  m = n
<1>1. m \in Int /\ n \in Int /\ m <= n /\ n <= m
  BY DEF IsNext, Message
<1> QED
  BY <1>1

(* A row is settled: it leaves its batch, and the others are as they were. *)
LEMMA HandledPass ==
  ASSUME Typed, NEW w \in Worker, NEW m \in Message,
         pass' = [pass EXCEPT ![w] = Handled(w, m)]
  PROVE  /\ pass' \in [Worker -> Pass]
         /\ Batch(w)' = Batch(w) \ {m}
         /\ \A n \in Batch(w)' : pass'[w].batch[n] = pass[w].batch[n]
         /\ pass'[w].reply = "none"
         /\ \A v \in Worker \ {w} : pass'[v] = pass[v] /\ Batch(v)' = Batch(v)
<1> DEFINE rest == [n \in Batch(w) \ {m} |-> pass[w].batch[n]]
<1>1. rest \in [Batch(w) \ {m} -> Copy] /\ Batch(w) \ {m} \in SUBSET Message
  BY PassFields
<1>2. rest \in Copies
  BY <1>1, CopiesHave
<1>3. pass \in [Worker -> Pass]
  BY DEF Typed
<1>4. pass' = [pass EXCEPT ![w] = [batch |-> rest, reply |-> "none"]]
  BY DEF Handled
<1>5. DOMAIN rest = Batch(w) \ {m} /\ \A n \in Batch(w) \ {m} : rest[n] = pass[w].batch[n]
  OBVIOUS
<1> HIDE DEF rest
<1>6. pass' \in [Worker -> Pass]
  BY <1>2, <1>3, <1>4 DEF Pass
<1>7. pass'[w] = [batch |-> rest, reply |-> "none"]
  BY <1>3, <1>4
<1>8. \A v \in Worker \ {w} : pass'[v] = pass[v]
  BY <1>3, <1>4
<1> QED
  BY <1>5, <1>6, <1>7, <1>8 DEF Batch

(* An answer comes back: only the reply changes. *)
LEMMA AnsweredPass ==
  ASSUME Typed, NEW w \in Worker, NEW reply \in Reply,
         pass' = [pass EXCEPT ![w].reply = reply]
  PROVE  /\ pass' \in [Worker -> Pass]
         /\ pass'[w].reply = reply
         /\ pass'[w].batch = pass[w].batch
         /\ \A v \in Worker : Batch(v)' = Batch(v)
         /\ \A v \in Worker \ {w} : pass'[v] = pass[v]
<1>1. pass \in [Worker -> Pass]
  BY DEF Typed
<1>2. pass' \in [Worker -> Pass] /\ pass'[w].reply = reply /\ pass'[w].batch = pass[w].batch
  BY <1>1 DEF Pass
<1>3. \A v \in Worker \ {w} : pass'[v] = pass[v]
  BY <1>1
<1> QED
  BY <1>2, <1>3 DEF Batch

(* A pass that dies has nothing left. *)
LEMMA DeadPass ==
  ASSUME Typed, NEW w \in Worker, pass' = [pass EXCEPT ![w] = Resting]
  PROVE  /\ pass' \in [Worker -> Pass]
         /\ Batch(w)' = {}
         /\ pass'[w].reply = "none"
         /\ \A v \in Worker \ {w} : pass'[v] = pass[v] /\ Batch(v)' = Batch(v)
<1>1. pass \in [Worker -> Pass]
  BY DEF Typed
<1>2. <<>> \in [{} -> Copy] /\ DOMAIN <<>> = {} /\ {} \in SUBSET Message
  OBVIOUS
<1>3. <<>> \in Copies
  BY <1>2, CopiesHave
<1>4. Resting \in Pass /\ Resting.batch = <<>> /\ Resting.reply = "none"
  BY <1>3 DEF Pass, Resting
<1>5. pass' \in [Worker -> Pass] /\ pass'[w] = Resting
        /\ \A v \in Worker \ {w} : pass'[v] = pass[v]
  BY <1>1, <1>4
<1> QED
  BY <1>2, <1>4, <1>5 DEF Batch

(* A claim: the batch is what was due, as it was then. *)
LEMMA ClaimedPass ==
  ASSUME Typed, NEW w \in Worker, Claim(w)
  PROVE  /\ pass' \in [Worker -> Pass]
         /\ Batch(w) = {}
         /\ pass'[w].reply = "none" /\ pass[w].reply = "none"
         /\ Batch(w)' = Lowest(Due)
         /\ \A m \in Batch(w)' : pass'[w].batch[m] = Snapshot(m)
         /\ \A v \in Worker \ {w} : pass'[v] = pass[v] /\ Batch(v)' = Batch(v)
<1> DEFINE claimed == Lowest(Due)
           taken == [m \in claimed |-> Snapshot(m)]
<1>1. pass \in [Worker -> Pass]
  BY DEF Typed
<1>2. claimed \in SUBSET Message /\ claimed \subseteq Due
  BY DEF Lowest, Due
<1>3. \A m \in claimed : Snapshot(m) \in Copy
  <2> TAKE m \in claimed
  <2>1. m \in Message /\ row[m].status = "PENDING"
    BY <1>2 DEF Due
  <2>2. row[m].attempts \in 0..MaxAttempts /\ row[m].attempts < MaxAttempts
    BY <2>1, RowFields DEF Typed, HasTry
  <2>3. row[m].attempts \in 0..(MaxAttempts - 1)
    BY <2>2, Bounds
  <2>4. (m \in Strangers \/ wants[m]) \in BOOLEAN
    BY <2>1 DEF Typed, TypeOK
  <2> QED
    BY <2>3, <2>4 DEF Snapshot, Copy
<1>4. taken \in [claimed -> Copy]
  BY <1>3
<1>5. taken \in Copies
  BY <1>2, <1>4, CopiesHave
<1>6. pass' = [pass EXCEPT ![w].batch = taken] /\ pass[w] = Resting
  BY DEF Claim
<1>7. DOMAIN taken = claimed /\ \A m \in claimed : taken[m] = Snapshot(m)
  OBVIOUS
<1> HIDE DEF taken, claimed
<1>8. pass' \in [Worker -> Pass] /\ pass'[w].batch = taken /\ pass'[w].reply = pass[w].reply
        /\ \A v \in Worker \ {w} : pass'[v] = pass[v]
  BY <1>1, <1>5, <1>6 DEF Pass
<1>9. pass[w].reply = "none" /\ Batch(w) = {}
  BY <1>6 DEF Resting, Batch
<1> QED
  BY <1>7, <1>8, <1>9 DEF Batch, claimed

-----------------------------------------------------------------------------
(* Types *)

(* The changes a step may make to a row. *)
LEMMA RowChanges ==
  ASSUME NEW r \in Row, HasTry(r)
  PROVE  /\ r.status = "NONE" =>
              \A s \in {"PENDING", "SKIPPED"} :
                 [r EXCEPT !.status = s] \in Row /\ HasTry([r EXCEPT !.status = s])
         /\ r.status = "PENDING" =>
              /\ [r EXCEPT !.status = "SENDING", !.due_in = 0] \in Row
              /\ HasTry([r EXCEPT !.status = "SENDING", !.due_in = 0])
         /\ /\ [r EXCEPT !.status = "SKIPPED", !.due_in = 0] \in Row
            /\ HasTry([r EXCEPT !.status = "SKIPPED", !.due_in = 0])
         /\ \A n \in 0..MaxAttempts :
              /\ [r EXCEPT !.status = "SENT", !.attempts = n, !.due_in = 0] \in Row
              /\ HasTry([r EXCEPT !.status = "SENT", !.attempts = n, !.due_in = 0])
         /\ r.status = "SENDING" => Requeued(r) \in Row /\ HasTry(Requeued(r))
         /\ /\ [Requeued(r) EXCEPT !.attempts = 0, !.last_error = "none"] \in Row
            /\ HasTry([Requeued(r) EXCEPT !.attempts = 0, !.last_error = "none"])
         /\ Later(r) \in Row /\ HasTry(Later(r))
<1>1. 0 \in Dues /\ \A d \in Dues : d >= -StuckAfter => d - 1 \in Dues
  BY DuesAre
<1>2. r.due_in > 0 => r.due_in >= -StuckAfter
  <2>1. r.due_in \in Dues
    BY DEF Row
  <2>2. r.due_in \in Int
    BY <2>1, DuesAre
  <2> QED
    BY <2>2, Bounds
<1>3. 0 \in 0..MaxAttempts /\ 0 < MaxAttempts
  BY Bounds
<1>4. Later(r) \in Row /\ HasTry(Later(r))
  <2>1. CASE r.status = "PENDING" /\ r.due_in > 0
    BY <1>1, <1>2, <2>1 DEF Later, Row, HasTry
  <2>2. CASE r.status = "SENDING" /\ r.due_in >= -StuckAfter
    BY <1>1, <2>2 DEF Later, Row, HasTry
  <2>3. CASE /\ ~(r.status = "PENDING" /\ r.due_in > 0)
             /\ ~(r.status = "SENDING" /\ r.due_in >= -StuckAfter)
    BY <2>3 DEF Later
  <2> QED
    BY <2>1, <2>2, <2>3
<1>5. /\ [Requeued(r) EXCEPT !.attempts = 0, !.last_error = "none"] \in Row
      /\ HasTry([Requeued(r) EXCEPT !.attempts = 0, !.last_error = "none"])
  BY <1>1, <1>3 DEF Requeued, Row, Status, HasTry
<1>6. r.status = "SENDING" => Requeued(r) \in Row /\ HasTry(Requeued(r))
  BY <1>1 DEF Requeued, Row, Status, HasTry
<1> QED
  BY <1>1, <1>4, <1>5, <1>6 DEF Row, Status, HasTry

(* A step that keeps rows and passes well formed keeps the types: of the   *)
(* rest only the preferences and two counters have one.                    *)
LEMMA TypedStep ==
  ASSUME Typed,
         DOMAIN row' = Message /\ row' = [m \in Message |-> row'[m]],
         \A m \in Message : row'[m] \in Row /\ HasTry(row'[m]),
         pass' \in [Worker -> Pass],
         \A w \in Worker : pass'[w].reply # "none" => Batch(w)' # {},
         wants' \in [Message -> BOOLEAN],
         accepted' \in [Message -> Nat], excused' \in [Message -> Nat],
         changed' \subseteq Message
  PROVE  Typed'
<1>1. row' \in [Message -> Row]
  OBVIOUS
<1>2. \A w \in Worker : Batch(w)' \subseteq Message /\ pass'[w].reply \in Reply \cup {"none"}
  BY CopiesAre DEF Batch, Pass
<1>3. TypeOK'
  BY <1>1, <1>2 DEF TypeOK, Row, Dues
<1> QED
  BY <1>3 DEF Typed

(* Nobody else learns of a step that leaves the passes alone. *)
LEMMA PassesStay ==
  ASSUME Typed, UNCHANGED pass
  PROVE  /\ pass' \in [Worker -> Pass]
         /\ \A w \in Worker : pass'[w].reply # "none" => Batch(w)' # {}
BY DEF Typed, TypeOK, Batch

LEMMA QueueTyped ==
  ASSUME Typed, NEW m \in Message, Queue(m)
  PROVE  Typed'
<1>1. StatusAtQueue(m) \in {"PENDING", "SKIPPED"} /\ row[m].status = "NONE"
  BY DEF Queue, StatusAtQueue, RowStatus, Unqueued
<1>2. /\ DOMAIN row' = Message /\ row' = [n \in Message |-> row'[n]]
      /\ \A n \in Message : row'[n] \in Row /\ HasTry(row'[n])
  BY <1>1, RowFields, RowChanges DEF Queue
<1> QED
  BY <1>2, PassesStay, TypedStep DEF Queue, Typed, TypeOK

LEMMA ChangePreferenceTyped ==
  ASSUME Typed, NEW m \in Message, ChangePreference(m)
  PROVE  Typed'
<1>1. /\ DOMAIN row' = Message /\ row' = [n \in Message |-> row'[n]]
      /\ \A n \in Message : row'[n] \in Row /\ HasTry(row'[n])
  BY RowFields DEF ChangePreference
<1>2. wants' \in [Message -> BOOLEAN] /\ changed' \subseteq Message
  BY DEF ChangePreference, Typed, TypeOK
<1> QED
  BY <1>1, <1>2, PassesStay, TypedStep DEF ChangePreference, Typed, TypeOK

LEMMA ClaimTyped ==
  ASSUME Typed, NEW w \in Worker, Claim(w)
  PROVE  Typed'
<1>1. \A m \in Lowest(Due) : row[m].status = "PENDING"
  BY DEF Lowest, Due
<1>2. row' = [m \in Message |-> IF m \in Lowest(Due)
                                THEN [row[m] EXCEPT !.status = "SENDING", !.due_in = 0]
                                ELSE row[m]]
  BY DEF Claim
<1>3. /\ DOMAIN row' = Message /\ row' = [n \in Message |-> row'[n]]
      /\ \A n \in Message : row'[n] \in Row /\ HasTry(row'[n])
  BY <1>1, <1>2, RowFields, RowChanges
<1>4. changed' \subseteq Message /\ UNCHANGED <<wants, accepted, excused>>
  BY DEF Claim, Typed
<1>5. /\ pass' \in [Worker -> Pass]
      /\ \A v \in Worker : pass'[v].reply # "none" => Batch(v)' # {}
  BY ClaimedPass DEF Typed, TypeOK
<1> QED
  BY <1>3, <1>4, <1>5, TypedStep DEF Typed, TypeOK

(* A row that is settled leaves a pass without an answer. *)
LEMMA HandledTyped ==
  ASSUME Typed, NEW w \in Worker, NEW m \in Message, NEW r \in Row, HasTry(r),
         row' = [row EXCEPT ![m] = r],
         pass' = [pass EXCEPT ![w] = Handled(w, m)],
         UNCHANGED <<wants, accepted, excused, changed>>
  PROVE  Typed'
<1>1. /\ DOMAIN row' = Message /\ row' = [n \in Message |-> row'[n]]
      /\ \A n \in Message : row'[n] \in Row /\ HasTry(row'[n])
  BY RowFields
<1>2. /\ pass' \in [Worker -> Pass]
      /\ \A v \in Worker : pass'[v].reply # "none" => Batch(v)' # {}
  BY HandledPass DEF Typed, TypeOK
<1> QED
  BY <1>1, <1>2, TypedStep DEF Typed, TypeOK

LEMMA SkipTyped ==
  ASSUME Typed, NEW w \in Worker, NEW m \in Message, Skip(w, m)
  PROVE  Typed'
<1> DEFINE r == [row[m] EXCEPT !.status = "SKIPPED", !.due_in = 0]
<1>1. r \in Row /\ HasTry(r)
  BY RowFields, RowChanges
<1>2. row' = [row EXCEPT ![m] = r]
  BY RowFields DEF Skip
<1> QED
  BY <1>1, <1>2, HandledTyped DEF Skip

(* What is recorded over a row. *)
Outcome(w, m) ==
  IF pass[w].reply = "sent"
    THEN [row[m] EXCEPT !.status = "SENT", !.attempts = pass[w].batch[m].attempts + 1, !.due_in = 0]
    ELSE Failed(pass[w].batch[m].attempts + 1, pass[w].reply)

LEMMA OutcomeTyped ==
  ASSUME Typed, NEW w \in Worker, NEW m \in Message, Record(w, m)
  PROVE  /\ Outcome(w, m) \in Row /\ HasTry(Outcome(w, m))
         /\ m \in Batch(w)
         /\ pass[w].reply \in Reply
         /\ pass[w].batch[m].attempts + 1 \in 1..MaxAttempts
         /\ row' = [row EXCEPT ![m] = Outcome(w, m)]
<1> DEFINE n == pass[w].batch[m].attempts + 1
           reply == pass[w].reply
<1>1. m \in Batch(w) /\ reply \in Reply
  BY PassFields DEF Record, IsNext
<1>2. n \in 1..MaxAttempts /\ n \in 0..MaxAttempts
  BY <1>1, PassFields, Bounds DEF Copy
<1>3. row' = [row EXCEPT ![m] = Outcome(w, m)]
  BY DEF Record, Outcome
<1>4. CASE reply = "sent"
  BY <1>1, <1>2, <1>3, <1>4, RowFields, RowChanges DEF Outcome
<1>5. CASE reply # "sent"
  <2>1. Outcome(w, m) = Failed(n, reply)
    BY <1>5 DEF Outcome
  <2>2. Failed(n, reply) \in Row /\ HasTry(Failed(n, reply))
    <3> HIDE DEF n, reply
    <3> QED
      BY <1>1, <1>2, <1>5, FailedRow DEF HasTry
  <2> QED
    BY <2>1, <2>2, <1>1, <1>2, <1>3
<1> QED
  BY <1>4, <1>5

LEMMA RecordTyped ==
  ASSUME Typed, NEW w \in Worker, NEW m \in Message, Record(w, m)
  PROVE  Typed'
BY OutcomeTyped, HandledTyped DEF Record

LEMMA RowsAlone ==
  ASSUME Typed, UNCHANGED row
  PROVE  /\ DOMAIN row' = Message /\ row' = [n \in Message |-> row'[n]]
         /\ \A n \in Message : row'[n] \in Row /\ HasTry(row'[n])
BY RowFields

(* An answer of a provider, and what the adapter makes of it. *)
Answered(w, m, answer, reply) ==
  LET unheard == answer \in Taken /\ reply # "sent"
  IN  /\ reply \in Replies(m, answer)
      /\ pass' = [pass EXCEPT ![w].reply = reply]
      /\ accepted' = [accepted EXCEPT ![m] = IF answer \in Taken THEN @ + 1 ELSE @]
      /\ excused' = [excused EXCEPT ![m] = IF unheard THEN @ + 1 ELSE @]

(* A reply that is not known to be the message's or the account's fault is *)
(* one of those the channel has; "sent" is only said of what was taken.    *)
LEMMA RepliesAre ==
  ASSUME NEW m \in Message, NEW answer \in Answer, NEW reply \in Replies(m, answer)
  PROVE  /\ reply \in Reply
         /\ reply = "sent" => answer \in Taken
         /\ reply \in Permanent =>
              reply \in IF m \in WhatsApp THEN {"rejected", "barred"} ELSE {"rejected", "greylisted"}
BY DEF Answer, Taken, Replies, WhatsAppReply, EmailReplies, ZeptoMail, SMTP, Reply, Permanent

LEMMA SendAnswered ==
  ASSUME NEW w \in Worker, NEW m \in Message, Send(w, m)
  PROVE  \E answer \in Answer : \E reply \in Reply : Answered(w, m, answer, reply)
<1>1. PICK answer \in Answer : \E reply \in Replies(m, answer) : Answered(w, m, answer, reply)
  BY DEF Send, Answered
<1> QED
  BY <1>1, RepliesAre

LEMMA SendTyped ==
  ASSUME Typed, NEW w \in Worker, NEW m \in Message, Send(w, m)
  PROVE  Typed'
<1>1. PICK answer \in Answer, reply \in Reply : Answered(w, m, answer, reply)
  BY SendAnswered
<1>3. accepted' \in [Message -> Nat] /\ excused' \in [Message -> Nat]
  BY <1>1 DEF Answered, Typed, TypeOK
<1>4. /\ pass' \in [Worker -> Pass]
      /\ pass'[w].batch = pass[w].batch
      /\ \A v \in Worker : Batch(v)' = Batch(v)
      /\ \A v \in Worker \ {w} : pass'[v] = pass[v]
  BY <1>1, AnsweredPass DEF Answered
<1>5. m \in Batch(w)
  BY DEF Send, IsNext
<1>6. \A v \in Worker : pass'[v].reply # "none" => Batch(v)' # {}
  BY <1>4, <1>5 DEF Typed, TypeOK
<1>7. UNCHANGED <<row, wants, changed>>
  BY DEF Send
<1> QED
  BY <1>3, <1>4, <1>6, <1>7, RowsAlone, TypedStep DEF Typed, TypeOK

LEMMA CrashTyped ==
  ASSUME Typed, NEW w \in Worker, Crash(w)
  PROVE  Typed'
<1>1. excused' \in [Message -> Nat]
  BY DEF Crash, Typed, TypeOK
<1>2. /\ pass' \in [Worker -> Pass]
      /\ \A v \in Worker : pass'[v].reply # "none" => Batch(v)' # {}
  BY DeadPass DEF Crash, Typed, TypeOK
<1> QED
  BY <1>1, <1>2, RowsAlone, TypedStep DEF Crash, Typed, TypeOK

LEMMA RecoverTyped ==
  ASSUME Typed, RecoverStuck
  PROVE  Typed'
<1>1. row' = [m \in Message |-> IF Stuck(m) THEN Requeued(row[m]) ELSE row[m]]
  BY DEF RecoverStuck
<1>2. /\ DOMAIN row' = Message /\ row' = [n \in Message |-> row'[n]]
      /\ \A n \in Message : row'[n] \in Row /\ HasTry(row'[n])
  BY <1>1, RowFields, RowChanges DEF Stuck
<1> QED
  BY <1>2, PassesStay, TypedStep DEF RecoverStuck, Typed, TypeOK

LEMMA RetryTyped ==
  ASSUME Typed, NEW M \in SUBSET Message, RetryFailed(M)
  PROVE  Typed'
<1>1. row' = [m \in Message |-> IF m \in M
                                THEN [Requeued(row[m]) EXCEPT !.attempts = 0, !.last_error = "none"]
                                ELSE row[m]]
  BY DEF RetryFailed
<1>2. /\ DOMAIN row' = Message /\ row' = [n \in Message |-> row'[n]]
      /\ \A n \in Message : row'[n] \in Row /\ HasTry(row'[n])
  BY <1>1, RowFields, RowChanges
<1> QED
  BY <1>2, PassesStay, TypedStep DEF RetryFailed, Typed, TypeOK

LEMMA TickTyped ==
  ASSUME Typed, Tick
  PROVE  Typed'
<1>1. row' = [m \in Message |-> Later(row[m])]
  BY DEF Tick
<1>2. /\ DOMAIN row' = Message /\ row' = [n \in Message |-> row'[n]]
      /\ \A n \in Message : row'[n] \in Row /\ HasTry(row'[n])
  BY <1>1, RowFields, RowChanges
<1> QED
  BY <1>2, PassesStay, TypedStep DEF Tick, Typed, TypeOK

LEMMA InitTyped == Init => Typed
<1> SUFFICES ASSUME Init PROVE Typed
  OBVIOUS
<1>1. Unqueued \in Row /\ HasTry(Unqueued)
  BY Bounds, DuesAre DEF Unqueued, Row, Status, HasTry
<1>2. <<>> \in [{} -> Copy] /\ {} \in SUBSET Message /\ DOMAIN <<>> = {}
  OBVIOUS
<1>3. Resting \in Pass /\ Resting.batch = <<>> /\ Resting.reply = "none"
  BY <1>2, CopiesHave DEF Resting, Pass
<1>4. row \in [Message -> Row] /\ \A m \in Message : HasTry(row[m])
  BY <1>1 DEF Init
<1>5. pass \in [Worker -> Pass] /\ \A w \in Worker : Batch(w) = {} /\ pass[w].reply = "none"
  BY <1>2, <1>3 DEF Init, Batch
<1>6. TypeOK
  BY <1>4, <1>5 DEF Init, TypeOK, Row, Dues
<1> QED
  BY <1>4, <1>5, <1>6 DEF Typed, Init

LEMMA NextTyped ==
  ASSUME Typed, [Next]_ovars
  PROVE  Typed'
<1>1. ASSUME NEW m \in Message, Queue(m) \/ ChangePreference(m) PROVE Typed'
  BY <1>1, QueueTyped, ChangePreferenceTyped
<1>2. ASSUME NEW w \in Worker, Claim(w) \/ Deliver(w) \/ Crash(w) PROVE Typed'
  BY <1>2, ClaimTyped, SkipTyped, SendTyped, RecordTyped, CrashTyped DEF Deliver
<1>3. CASE RecoverStuck
  BY <1>3, RecoverTyped
<1>4. ASSUME NEW M \in SUBSET Message, RetryFailed(M) PROVE Typed'
  BY <1>4, RetryTyped
<1>5. CASE Tick
  BY <1>5, TickTyped
<1>6. CASE UNCHANGED ovars
  BY <1>6, PassesStay, RowsAlone, TypedStep DEF ovars, Typed, TypeOK
<1> QED
  BY <1>1, <1>2, <1>3, <1>4, <1>5, <1>6 DEF Next

(* A message has a status, a number of tries and a deadline in range,      *)
(* whatever fails, and a pass with an answer has the row it is about.      *)
THEOREM TypeCorrect == Spec => []TypeOK
<1>1. Typed /\ [Next]_ovars => Typed'
  BY NextTyped
<1>2. Typed => TypeOK
  BY DEF Typed
<1> QED
  BY <1>1, <1>2, InitTyped, PTL DEF Spec

-----------------------------------------------------------------------------
(* Ownership.  While passes are prompt, a claimed row is SENDING, is not   *)
(* stuck, and has the tries of its claimed copy until its pass settles it. *)

Holds(w, m) ==
  /\ row[m].status = "SENDING"
  /\ row[m].due_in >= -StuckAfter
  /\ row[m].attempts = pass[w].batch[m].attempts

Owned ==
  /\ \A w \in Worker : \A m \in Batch(w) : Holds(w, m)
  /\ \A v, w \in Worker : v # w => Batch(v) \cap Batch(w) = {}

LEMMA OwnedIsOne == Owned => OneOwner
BY DEF Owned, OneOwner, Holds

(* What is not held may change, what is held may only leave its batch.     *)
LEMMA OwnedStep ==
  ASSUME Owned,
         \A w \in Worker : Batch(w)' \subseteq Batch(w),
         \A w \in Worker : \A m \in Batch(w)' :
            /\ pass'[w].batch[m] = pass[w].batch[m]
            /\ row'[m] = row[m]
  PROVE  Owned'
<1>1. \A v, w \in Worker : v # w => Batch(v)' \cap Batch(w)' = {}
  BY DEF Owned
<1>2. \A w \in Worker : \A m \in Batch(w)' : Holds(w, m)'
  BY DEF Owned, Holds
<1> QED
  BY <1>1, <1>2 DEF Owned

(* No pass has what is not being sent, or is stuck. *)
LEMMA NotHeld ==
  ASSUME Typed, Owned, NEW w \in Worker, NEW m \in Batch(w)
  PROVE  row[m].status = "SENDING" /\ ~Stuck(m)
<1>1. row[m].status = "SENDING" /\ row[m].due_in >= -StuckAfter
  BY DEF Owned, Holds
<1>2. row[m].due_in \in Int
  BY RowFields, PassFields, DuesAre
<1> QED
  BY <1>1, <1>2, Bounds DEF Stuck

LEMMA QueueOwned ==
  ASSUME Typed, Owned, NEW m \in Message, Queue(m)
  PROVE  Owned'
<1>1. \A w \in Worker : m \notin Batch(w)
  BY NotHeld DEF Queue, Unqueued
<1>2. \A n \in Message \ {m} : row'[n] = row[n]
  BY RowFields DEF Queue
<1>3. \A w \in Worker : Batch(w)' = Batch(w) /\ Batch(w) \subseteq Message /\ pass'[w] = pass[w]
  BY PassFields DEF Queue, Batch
<1> QED
  BY <1>1, <1>2, <1>3, OwnedStep

LEMMA ClaimOwned ==
  ASSUME Typed, Owned, NEW w \in Worker, Claim(w)
  PROVE  Owned'
<1> DEFINE claimed == Lowest(Due)
<1>1. claimed \subseteq Message /\ \A m \in claimed : row[m].status = "PENDING"
  BY DEF Lowest, Due
<1>2. row' = [m \in Message |-> IF m \in claimed
                                THEN [row[m] EXCEPT !.status = "SENDING", !.due_in = 0]
                                ELSE row[m]]
  BY DEF Claim
<1>3. /\ Batch(w)' = claimed
      /\ \A m \in claimed : pass'[w].batch[m] = Snapshot(m)
      /\ \A v \in Worker \ {w} : pass'[v] = pass[v] /\ Batch(v)' = Batch(v)
  BY ClaimedPass
<1> HIDE DEF claimed
<1>4. \A v \in Worker : Batch(v) \cap claimed = {}
  BY <1>1, NotHeld
<1>5. \A m \in claimed : Holds(w, m)'
  <2> TAKE m \in claimed
  <2>1. row[m] \in Row /\ row'[m] = [row[m] EXCEPT !.status = "SENDING", !.due_in = 0]
    BY <1>1, <1>2, RowFields
  <2>2. row'[m].status = "SENDING" /\ row'[m].due_in = 0 /\ row'[m].attempts = row[m].attempts
    BY <2>1 DEF Row
  <2>3. pass'[w].batch[m].attempts = row[m].attempts
    <3>1. Snapshot(m).attempts = row[m].attempts
      BY DEF Snapshot
    <3> QED
      BY <1>3, <3>1
  <2>4. 0 >= -StuckAfter
    BY Bounds
  <2> QED
    BY <2>2, <2>3, <2>4 DEF Holds
<1>6. ASSUME NEW v \in Worker \ {w}, NEW m \in Batch(v)
      PROVE  Holds(v, m)'
  <2>1. m \in Message /\ m \notin claimed
    BY <1>4, PassFields
  <2>2. row'[m] = row[m] /\ pass'[v] = pass[v]
    BY <1>2, <1>3, <2>1
  <2> QED
    BY <2>2 DEF Owned, Holds
<1>7. \A v \in Worker : \A m \in Batch(v)' : Holds(v, m)'
  BY <1>3, <1>5, <1>6
<1>8. \A u, v \in Worker : u # v => Batch(u)' \cap Batch(v)' = {}
  BY <1>3, <1>4 DEF Owned
<1> QED
  BY <1>7, <1>8 DEF Owned

LEMMA HandledOwned ==
  ASSUME Typed, Owned, NEW w \in Worker, NEW m \in Batch(w),
         \A n \in Message \ {m} : row'[n] = row[n],
         pass' = [pass EXCEPT ![w] = Handled(w, m)]
  PROVE  Owned'
<1>1. m \in Message /\ \A v \in Worker : Batch(v) \subseteq Message
  BY PassFields
<1>2. \A v \in Worker \ {w} : m \notin Batch(v)
  BY DEF Owned
<1>3. /\ Batch(w)' = Batch(w) \ {m}
      /\ \A n \in Batch(w)' : pass'[w].batch[n] = pass[w].batch[n]
      /\ \A v \in Worker \ {w} : pass'[v] = pass[v] /\ Batch(v)' = Batch(v)
  BY <1>1, HandledPass
<1> QED
  BY <1>1, <1>2, <1>3, OwnedStep

LEMMA SettleOwned ==
  ASSUME Typed, Owned, NEW w \in Worker, NEW m \in Message, Skip(w, m) \/ Record(w, m)
  PROVE  Owned'
<1>1. m \in Batch(w) /\ pass' = [pass EXCEPT ![w] = Handled(w, m)]
  BY DEF Skip, Record, IsNext
<1>2. \A n \in Message \ {m} : row'[n] = row[n]
  BY RowFields DEF Skip, Record
<1> QED
  BY <1>1, <1>2, HandledOwned

LEMMA SendOwned ==
  ASSUME Typed, Owned, NEW w \in Worker, NEW m \in Message, Send(w, m)
  PROVE  Owned'
<1>1. PICK answer \in Answer, reply \in Reply : Answered(w, m, answer, reply)
  BY SendAnswered
<1>2. \A v \in Worker : Batch(v)' = Batch(v) /\ pass'[v].batch = pass[v].batch
  BY <1>1, AnsweredPass DEF Answered
<1> QED
  BY <1>2, OwnedStep DEF Send

LEMMA CrashOwned ==
  ASSUME Typed, Owned, NEW w \in Worker, Crash(w)
  PROVE  Owned'
<1>1. /\ Batch(w)' = {}
      /\ \A v \in Worker \ {w} : pass'[v] = pass[v] /\ Batch(v)' = Batch(v)
  BY DeadPass DEF Crash
<1> QED
  BY <1>1, OwnedStep DEF Crash

LEMMA RecoverOwned ==
  ASSUME Typed, Owned, RecoverStuck
  PROVE  Owned'
<1>1. \A w \in Worker : \A m \in Batch(w) : m \in Message /\ ~Stuck(m)
  BY NotHeld, PassFields
<1>2. \A w \in Worker : \A m \in Batch(w) : row'[m] = row[m]
  BY <1>1 DEF RecoverStuck
<1>3. \A w \in Worker : Batch(w)' = Batch(w) /\ pass'[w] = pass[w]
  BY DEF RecoverStuck, Batch
<1> QED
  BY <1>2, <1>3, OwnedStep

LEMMA RetryOwned ==
  ASSUME Typed, Owned, NEW M \in SUBSET Message, RetryFailed(M)
  PROVE  Owned'
<1>1. \A w \in Worker : \A m \in Batch(w) : m \in Message /\ m \notin M
  BY NotHeld, PassFields DEF RetryFailed
<1>2. \A w \in Worker : \A m \in Batch(w) : row'[m] = row[m]
  BY <1>1 DEF RetryFailed
<1>3. \A w \in Worker : Batch(w)' = Batch(w) /\ pass'[w] = pass[w]
  BY DEF RetryFailed, Batch
<1> QED
  BY <1>2, <1>3, OwnedStep

(* Here the passes must be prompt: the clock waits for them. *)
LEMMA TickOwned ==
  ASSUME Prompt, Typed, Owned, Tick
  PROVE  Owned'
<1>1. ASSUME NEW w \in Worker, NEW m \in Batch(w)
      PROVE  Holds(w, m)'
  <2>1. /\ m \in Message /\ row[m] \in Row /\ row[m].due_in \in Int
        /\ row[m].status = "SENDING"
        /\ row[m].attempts = pass[w].batch[m].attempts
    BY PassFields, RowFields, DuesAre DEF Owned, Holds
  <2>2. row[m].due_in > -StuckAfter
    BY DEF Tick
  <2>3. row[m].due_in >= -StuckAfter /\ row[m].due_in - 1 >= -StuckAfter
    BY <2>1, <2>2, Bounds
  <2>4. row'[m] = [row[m] EXCEPT !.due_in = @ - 1]
    BY <2>1, <2>3 DEF Tick, Later
  <2>5. /\ row'[m].status = "SENDING" /\ row'[m].due_in = row[m].due_in - 1
        /\ row'[m].attempts = row[m].attempts
    BY <2>1, <2>4 DEF Row
  <2> QED
    BY <2>1, <2>3, <2>5 DEF Holds, Tick
<1>2. \A w \in Worker : Batch(w)' = Batch(w)
  BY DEF Tick, Batch
<1> QED
  BY <1>1, <1>2 DEF Owned

LEMMA NextOwned ==
  ASSUME Prompt, Typed, Owned, [Next]_ovars
  PROVE  Owned'
<1>1. ASSUME UNCHANGED <<row, pass>> PROVE Owned'
  BY <1>1, OwnedStep DEF Batch
<1>2. ASSUME NEW m \in Message, Queue(m) \/ ChangePreference(m) PROVE Owned'
  BY <1>1, <1>2, QueueOwned DEF ChangePreference
<1>3. ASSUME NEW w \in Worker, Claim(w) \/ Deliver(w) \/ Crash(w) PROVE Owned'
  BY <1>3, ClaimOwned, SettleOwned, SendOwned, CrashOwned DEF Deliver
<1>4. CASE RecoverStuck
  BY <1>4, RecoverOwned
<1>5. ASSUME NEW M \in SUBSET Message, RetryFailed(M) PROVE Owned'
  BY <1>5, RetryOwned
<1>6. CASE Tick
  BY <1>6, TickOwned
<1>7. CASE UNCHANGED ovars
  BY <1>1, <1>7 DEF ovars
<1> QED
  BY <1>2, <1>3, <1>4, <1>5, <1>6, <1>7 DEF Next

LEMMA InitOwned == Init => Owned
<1> SUFFICES ASSUME Init PROVE Owned
  OBVIOUS
<1>1. DOMAIN <<>> = {}
  OBVIOUS
<1>2. \A w \in Worker : Batch(w) = {}
  BY <1>1 DEF Init, Batch, Resting
<1> QED
  BY <1>2 DEF Owned

(* The scheduled pass and any number of inline drains can overlap safely:  *)
(* if none is slower with a row than STUCK_SENDING_MINUTES, a row that is  *)
(* being sent is being sent by one of them.                                *)
THEOREM SingleOwner ==
  ASSUME Prompt
  PROVE  Spec => []OneOwner
<1>1. Typed /\ Owned /\ [Next]_ovars => Typed' /\ Owned'
  BY NextTyped, NextOwned
<1>2. Owned => OneOwner
  BY OwnedIsOne
<1> QED
  BY <1>1, <1>2, InitTyped, InitOwned, PTL DEF Spec

-----------------------------------------------------------------------------
(* Duplicates.  Every acceptance but the one that is recorded, or about to *)
(* be, has been excused.                                                   *)

AboutToRecord(m) == \E w \in Worker : IsNext(w, m) /\ pass[w].reply = "sent"

Heard(m) == row[m].status = "SENT" \/ AboutToRecord(m)

Counted ==
  \A m \in Message :
    \/ accepted[m] <= excused[m]
    \/ Heard(m) /\ accepted[m] <= 1 + excused[m]

LEMMA CountedExcuses == Typed /\ Counted => DuplicateOnlyAfterLoss
<1> SUFFICES ASSUME Typed, Counted, NEW m \in Message
             PROVE  accepted[m] <= 1 + excused[m]
  BY DEF DuplicateOnlyAfterLoss
<1>1. accepted[m] \in Nat /\ excused[m] \in Nat
  BY DEF Typed, TypeOK
<1> QED
  BY <1>1 DEF Counted

LEMMA CountedStep ==
  ASSUME Counted, UNCHANGED <<accepted, excused>>, \A m \in Message : Heard(m) => Heard(m)'
  PROVE  Counted'
BY DEF Counted

(* A message is heard of as long as its row and its pass remember.         *)
LEMMA HeardStays ==
  ASSUME NEW m \in Message,
         row[m].status = "SENT" => row'[m].status = "SENT",
         \A w \in Worker : IsNext(w, m) /\ pass[w].reply = "sent" => pass'[w] = pass[w]
  PROVE  Heard(m) => Heard(m)'
<1>1. CASE row[m].status = "SENT"
  BY <1>1 DEF Heard
<1>2. ASSUME NEW w \in Worker, IsNext(w, m), pass[w].reply = "sent"
      PROVE  Heard(m)'
  <2>1. pass'[w] = pass[w]
    BY <1>2
  <2>2. IsNext(w, m)' /\ pass'[w].reply = "sent"
    BY <1>2, <2>1 DEF IsNext, Batch
  <2> QED
    BY <2>2 DEF Heard, AboutToRecord
<1> QED
  BY <1>1, <1>2 DEF Heard, AboutToRecord

(* A row that was sent is not touched again.                               *)
LEMMA SentStays ==
  ASSUME Typed, Owned, [Next]_ovars, NEW m \in Message, row[m].status = "SENT"
  PROVE  row'[m].status = "SENT"
<1>1. row[m] \in Row
  BY RowFields
<1>2. ASSUME NEW n \in Message, Queue(n) PROVE row'[m].status = "SENT"
  BY <1>2, RowFields DEF Queue, Unqueued
<1>3. ASSUME NEW w \in Worker, Claim(w) PROVE row'[m].status = "SENT"
  <2>1. m \notin Lowest(Due)
    BY DEF Lowest, Due
  <2> QED
    BY <1>3, <2>1 DEF Claim
<1>4. ASSUME NEW w \in Worker, NEW n \in Message, Skip(w, n) \/ Record(w, n)
      PROVE  row'[m].status = "SENT"
  <2>1. n \in Batch(w)
    BY <1>4 DEF Skip, Record, IsNext
  <2>2. m # n
    BY <2>1, NotHeld
  <2> QED
    BY <1>4, <2>2, RowFields DEF Skip, Record
<1>5. CASE RecoverStuck
  BY <1>5 DEF RecoverStuck, Stuck
<1>6. ASSUME NEW M \in SUBSET Message, RetryFailed(M) PROVE row'[m].status = "SENT"
  <2>1. m \notin M
    BY <1>6 DEF RetryFailed
  <2> QED
    BY <1>6, <2>1 DEF RetryFailed
<1>7. CASE Tick
  BY <1>7 DEF Tick, Later
<1>8. CASE UNCHANGED row
  BY <1>8
<1> QED
  BY <1>2, <1>3, <1>4, <1>5, <1>6, <1>7, <1>8
     DEF Next, Deliver, Send, Crash, ChangePreference, ovars

LEMMA SendCounted ==
  ASSUME Typed, Owned, Counted, NEW w \in Worker, NEW m \in Message, Send(w, m)
  PROVE  Counted'
<1>1. PICK answer \in Answer, reply \in Reply : Answered(w, m, answer, reply)
  BY SendAnswered
<1>2. m \in Batch(w) /\ IsNext(w, m) /\ pass[w].reply = "none" /\ UNCHANGED row
  BY DEF Send, IsNext
<1>3. /\ pass'[w].reply = reply /\ pass'[w].batch = pass[w].batch
      /\ \A v \in Worker \ {w} : pass'[v] = pass[v]
  BY <1>1, AnsweredPass DEF Answered
<1>4. \A n \in Message : accepted[n] \in Nat /\ excused[n] \in Nat
  BY DEF Typed, TypeOK
<1>5. ASSUME NEW n \in Message \ {m}
      PROVE  /\ accepted'[n] = accepted[n] /\ excused'[n] = excused[n]
             /\ Heard(n) => Heard(n)'
  <2>1. accepted'[n] = accepted[n] /\ excused'[n] = excused[n]
    BY <1>1 DEF Answered, Typed, TypeOK
  <2>2. \A v \in Worker : IsNext(v, n) /\ pass[v].reply = "sent" => pass'[v] = pass[v]
    BY <1>2, <1>3
  <2> QED
    BY <1>2, <2>1, <2>2, HeardStays
<1>6. ~Heard(m)
  <2>1. \A v \in Worker \ {w} : m \notin Batch(v)
    BY <1>2 DEF Owned
  <2>2. row[m].status # "SENT"
    BY <1>2, NotHeld
  <2> QED
    BY <1>2, <2>1, <2>2 DEF Heard, AboutToRecord, IsNext
<1>7. accepted[m] <= excused[m]
  BY <1>6 DEF Counted
<1>8. \/ accepted'[m] <= excused'[m]
      \/ Heard(m)' /\ accepted'[m] <= 1 + excused'[m]
  <2>1. CASE answer \in Taken /\ reply = "sent"
    <3>1. accepted'[m] = accepted[m] + 1 /\ excused'[m] = excused[m]
      BY <1>1, <2>1 DEF Answered, Typed, TypeOK
    <3>2. IsNext(w, m)' /\ pass'[w].reply = "sent"
      BY <1>2, <1>3, <2>1 DEF IsNext, Batch
    <3> QED
      BY <1>4, <1>7, <3>1, <3>2 DEF Heard, AboutToRecord
  <2>2. CASE answer \in Taken /\ reply # "sent"
    <3>1. accepted'[m] = accepted[m] + 1 /\ excused'[m] = excused[m] + 1
      BY <1>1, <2>2 DEF Answered, Typed, TypeOK
    <3> QED
      BY <1>4, <1>7, <3>1
  <2>3. CASE answer \notin Taken
    <3>1. accepted'[m] = accepted[m] /\ excused'[m] = excused[m]
      BY <1>1, <2>3 DEF Answered, Typed, TypeOK
    <3> QED
      BY <1>7, <3>1
  <2> QED
    BY <2>1, <2>2, <2>3
<1> QED
  BY <1>5, <1>8 DEF Counted

LEMMA CrashCounted ==
  ASSUME Typed, Owned, Counted, NEW w \in Worker, Crash(w)
  PROVE  Counted'
<1>1. \A v \in Worker \ {w} : pass'[v] = pass[v]
  BY DeadPass DEF Crash
<1>2. \A n \in Message : accepted[n] \in Nat /\ excused[n] \in Nat
  BY DEF Typed, TypeOK
<1> SUFFICES ASSUME NEW m \in Message
             PROVE  \/ accepted'[m] <= excused'[m]
                    \/ Heard(m)' /\ accepted'[m] <= 1 + excused'[m]
  BY DEF Counted
<1>3. CASE IsNext(w, m) /\ pass[w].reply = "sent"
  <2>1. accepted'[m] = accepted[m] /\ excused'[m] = excused[m] + 1
    BY <1>3 DEF Crash
  <2> QED
    BY <1>2, <2>1 DEF Counted
<1>4. CASE ~(IsNext(w, m) /\ pass[w].reply = "sent")
  <2>1. accepted'[m] = accepted[m] /\ excused'[m] = excused[m]
    BY <1>4 DEF Crash
  <2>2. Heard(m) => Heard(m)'
    BY <1>1, <1>4, HeardStays DEF Crash
  <2> QED
    BY <2>1, <2>2 DEF Counted
<1> QED
  BY <1>3, <1>4

LEMMA RecordHeard ==
  ASSUME Typed, Owned, NEW w \in Worker, NEW m \in Message, Record(w, m), NEW n \in Message
  PROVE  Heard(n) => Heard(n)'
<1>1. m \in Batch(w) /\ IsNext(w, m) /\ pass' = [pass EXCEPT ![w] = Handled(w, m)]
  BY DEF Record, IsNext
<1>2. \A v \in Worker \ {w} : pass'[v] = pass[v]
  BY <1>1, HandledPass
<1>3. [Next]_ovars
  BY DEF Next, Deliver
<1>4. row[n].status = "SENT" => row'[n].status = "SENT"
  BY <1>3, SentStays
<1>5. CASE n = m
  <2>1. CASE pass[w].reply = "sent"
    <3>1. row'[m].status = "SENT"
      <4>1. row[m] \in Row /\ row'[m] = Outcome(w, m)
        BY RowFields, OutcomeTyped
      <4>2. Outcome(w, m).status = "SENT"
        BY <2>1, <4>1 DEF Outcome, Row
      <4> QED
        BY <4>1, <4>2
    <3> QED
      BY <1>5, <3>1 DEF Heard
  <2>2. CASE pass[w].reply # "sent"
    BY <1>2, <1>4, <2>2, HeardStays
  <2> QED
    BY <2>1, <2>2
<1>6. CASE n # m
  <2>1. ~IsNext(w, n)
    BY <1>1, <1>6, NextIsOne, PassFields
  <2> QED
    BY <1>2, <1>4, <2>1, HeardStays
<1> QED
  BY <1>5, <1>6

LEMMA NextCounted ==
  ASSUME Typed, Owned, Counted, [Next]_ovars
  PROVE  Counted'
<1>1. \A m \in Message : row[m].status = "SENT" => row'[m].status = "SENT"
  BY SentStays
<1>2. ASSUME UNCHANGED <<pass, accepted, excused>> PROVE Counted'
  BY <1>1, <1>2, HeardStays, CountedStep
<1>3. ASSUME NEW w \in Worker, Claim(w) PROVE Counted'
  <2>1. /\ pass[w].reply = "none"
        /\ \A v \in Worker \ {w} : pass'[v] = pass[v]
    BY <1>3, ClaimedPass
  <2> QED
    BY <1>1, <1>3, <2>1, HeardStays, CountedStep DEF Claim
<1>4. ASSUME NEW w \in Worker, NEW m \in Message, Skip(w, m) PROVE Counted'
  <2>1. /\ pass[w].reply = "none"
        /\ \A v \in Worker \ {w} : pass'[v] = pass[v]
    BY <1>4, HandledPass DEF Skip
  <2> QED
    BY <1>1, <1>4, <2>1, HeardStays, CountedStep DEF Skip
<1>5. ASSUME NEW w \in Worker, NEW m \in Message, Record(w, m) PROVE Counted'
  BY <1>5, RecordHeard, CountedStep DEF Record
<1>6. ASSUME NEW w \in Worker, Deliver(w) PROVE Counted'
  BY <1>4, <1>5, <1>6, SendCounted DEF Deliver
<1> QED
  BY <1>2, <1>3, <1>6, CrashCounted
     DEF Next, Queue, ChangePreference, RecoverStuck, RetryFailed, Tick, ovars

LEMMA InitCounted == Init => Counted
BY DEF Init, Counted

(* A family gets a message once more for every time its acceptance was     *)
(* lost, and never otherwise, however passes overlap and whatever the      *)
(* office retries, if passes are prompt.                                   *)
THEOREM DuplicatesExcused ==
  ASSUME Prompt
  PROVE  Spec => []DuplicateOnlyAfterLoss
<1>1. Typed /\ Owned /\ Counted /\ [Next]_ovars => Typed' /\ Owned' /\ Counted'
  BY NextTyped, NextOwned, NextCounted
<1>2. Typed /\ Counted => DuplicateOnlyAfterLoss
  BY CountedExcuses
<1> QED
  BY <1>1, <1>2, InitTyped, InitOwned, InitCounted, PTL DEF Spec

-----------------------------------------------------------------------------
(* Consent.  What a pass is about to send was wanted when it was claimed,  *)
(* and still is, unless the recipient has changed it since.                *)

Consents(m) == m \in Strangers \/ wants[m] \/ m \in changed

Consented ==
  \A w \in Worker : \A m \in Batch(w) : pass[w].batch[m].wants => Consents(m)

LEMMA ConsentedStep ==
  ASSUME Consented,
         \A w \in Worker : Batch(w)' \subseteq Batch(w),
         \A w \in Worker : \A m \in Batch(w)' : pass'[w].batch[m] = pass[w].batch[m],
         \A w \in Worker : \A m \in Batch(w)' : Consents(m) => Consents(m)'
  PROVE  Consented'
BY DEF Consented

LEMMA ClaimConsented ==
  ASSUME Typed, Owned, Consented, NEW w \in Worker, Claim(w)
  PROVE  Consented'
<1> DEFINE claimed == Lowest(Due)
<1>1. /\ Batch(w)' = claimed
      /\ \A m \in claimed : pass'[w].batch[m] = Snapshot(m)
      /\ \A v \in Worker \ {w} : pass'[v] = pass[v] /\ Batch(v)' = Batch(v)
  BY ClaimedPass
<1>2. changed' = changed \ claimed /\ UNCHANGED wants
  BY DEF Claim
<1>3. \A m \in claimed : row[m].status = "PENDING"
  BY DEF Lowest, Due
<1> HIDE DEF claimed
<1>4. ASSUME NEW m \in claimed, pass'[w].batch[m].wants
      PROVE  Consents(m)'
  <2>1. Snapshot(m).wants
    BY <1>1, <1>4
  <2>2. Snapshot(m).wants = (m \in Strangers \/ wants[m])
    BY DEF Snapshot
  <2> QED
    BY <1>2, <2>1, <2>2 DEF Consents
<1>5. ASSUME NEW v \in Worker \ {w}, NEW m \in Batch(v), pass'[v].batch[m].wants
      PROVE  Consents(m)'
  <2>1. m \notin claimed
    BY <1>3, NotHeld
  <2>2. Consents(m)
    BY <1>1, <1>5 DEF Consented
  <2> QED
    BY <1>2, <2>1, <2>2 DEF Consents
<1> QED
  BY <1>1, <1>4, <1>5 DEF Consented

LEMMA NextConsented ==
  ASSUME Typed, Owned, Consented, [Next]_ovars
  PROVE  Consented'
<1>1. ASSUME UNCHANGED <<pass, wants, changed>> PROVE Consented'
  BY <1>1, ConsentedStep DEF Batch, Consents
<1>2. ASSUME NEW m \in Message, ChangePreference(m) PROVE Consented'
  <2>1. \A n \in Message : Consents(n) => Consents(n)'
    BY <1>2 DEF ChangePreference, Consents, Typed, TypeOK
  <2>2. \A w \in Worker : Batch(w)' = Batch(w) /\ Batch(w) \subseteq Message /\ pass'[w] = pass[w]
    BY <1>2, PassFields DEF ChangePreference, Batch
  <2> QED
    BY <2>1, <2>2, ConsentedStep
<1>3. ASSUME NEW w \in Worker, NEW m \in Message, Skip(w, m) \/ Record(w, m) PROVE Consented'
  <2>1. pass' = [pass EXCEPT ![w] = Handled(w, m)] /\ UNCHANGED <<wants, changed>>
    BY <1>3 DEF Skip, Record
  <2> QED
    BY <2>1, HandledPass, ConsentedStep DEF Consents
<1>4. ASSUME NEW w \in Worker, NEW m \in Message, Send(w, m) PROVE Consented'
  <2>1. PICK answer \in Answer, reply \in Reply : Answered(w, m, answer, reply)
    BY <1>4, SendAnswered
  <2>2. \A v \in Worker : Batch(v)' = Batch(v) /\ pass'[v].batch = pass[v].batch
    BY <2>1, AnsweredPass DEF Answered
  <2> QED
    BY <1>4, <2>2, ConsentedStep DEF Send, Consents
<1>5. ASSUME NEW w \in Worker, Crash(w) PROVE Consented'
  <2>1. /\ Batch(w)' = {}
        /\ \A v \in Worker \ {w} : pass'[v] = pass[v] /\ Batch(v)' = Batch(v)
    BY <1>5, DeadPass DEF Crash
  <2> QED
    BY <1>5, <2>1, ConsentedStep DEF Crash, Consents
<1> QED
  BY <1>1, <1>2, <1>3, <1>4, <1>5, ClaimConsented
     DEF Next, Deliver, Queue, RecoverStuck, RetryFailed, Tick, ovars

LEMMA InitConsented == Init => Consented
<1> SUFFICES ASSUME Init PROVE Consented
  OBVIOUS
<1>1. DOMAIN <<>> = {}
  OBVIOUS
<1>2. \A w \in Worker : Batch(w) = {}
  BY <1>1 DEF Init, Batch, Resting
<1> QED
  BY <1>2 DEF Consented

(* Only a send is an acceptance. *)
LEMMA AcceptedBySend ==
  ASSUME Typed, Consented, [Next]_ovars, NEW m \in Message, accepted'[m] > accepted[m]
  PROVE  Consents(m)
<1>1. accepted[m] \in Nat /\ ~(accepted[m] > accepted[m])
  <2>1. accepted[m] \in Nat
    BY DEF Typed, TypeOK
  <2> QED
    BY <2>1
<1>2. accepted' # accepted
  BY <1>1
<1>3. PICK w \in Worker, n \in Message : Send(w, n)
  BY <1>2 DEF Next, Deliver, Queue, ChangePreference, Claim, Skip, Record, Crash,
              RecoverStuck, RetryFailed, Tick, ovars
<1>4. PICK answer \in Answer, reply \in Reply : Answered(w, n, answer, reply)
  BY <1>3, SendAnswered
<1>5. n = m
  BY <1>1, <1>4 DEF Answered, Typed, TypeOK
<1>6. m \in Batch(w) /\ pass[w].batch[m].wants
  BY <1>3, <1>5 DEF Send, IsNext
<1> QED
  BY <1>6 DEF Consented

(* Nobody gets a message who had opted out when the pass that sends it     *)
(* claimed it, however many attempts and passes it takes, if passes are    *)
(* prompt.                                                                 *)
THEOREM ConsentAtClaim ==
  ASSUME Prompt
  PROVE  Spec => OptOutHonoured
<1>1. /\ Typed /\ Owned /\ Consented /\ [Next]_ovars
      => Typed' /\ Owned' /\ Consented'
  BY NextTyped, NextOwned, NextConsented
<1>2. /\ Typed /\ Consented /\ [Next]_ovars
      => [\A m \in Message : accepted'[m] > accepted[m] =>
            wants[m] \/ m \in changed \cup Strangers]_ovars
  BY AcceptedBySend DEF Consents
<1> QED
  BY <1>1, <1>2, InitTyped, InitOwned, InitConsented, PTL DEF Spec, OptOutHonoured

-----------------------------------------------------------------------------
(* The promise of Delivery.  A row on the queue has not been turned down   *)
(* for good, and the answer a pass holds is one the row may be settled by. *)

Verdicts(m) == IF m \in WhatsApp THEN {"rejected", "barred"} ELSE {"rejected", "greylisted"}

OpenMinded(r) ==
  r.status \in {"NONE", "PENDING", "SENDING"} => r.last_error \in {"none", "error"}

Grounded(w, m) ==
  /\ pass[w].reply = "sent" => accepted[m] > 0
  /\ pass[w].reply \in Permanent => pass[w].reply \in Verdicts(m)

Truthful ==
  /\ \A m \in Message : OpenMinded(row[m])
  /\ \A w \in Worker : \A m \in Message : IsNext(w, m) => Grounded(w, m)

(* A step that settles no row and brings no answer. *)
LEMMA TruthfulStep ==
  ASSUME Truthful, UNCHANGED accepted,
         \A m \in Message : OpenMinded(row'[m]),
         \A w \in Worker : pass'[w] = pass[w] \/ pass'[w].reply = "none"
  PROVE  Truthful'
<1>1. ASSUME NEW w \in Worker, NEW m \in Message, IsNext(w, m)'
      PROVE  Grounded(w, m)'
  <2>1. CASE pass'[w] = pass[w]
    BY <1>1, <2>1 DEF Truthful, Grounded, IsNext, Batch
  <2>2. CASE pass'[w].reply = "none"
    BY <2>2 DEF Grounded, Permanent
  <2> QED
    BY <1>1, <2>1, <2>2
<1> QED
  BY <1>1 DEF Truthful

LEMMA RecordOpenMinded ==
  ASSUME Typed, NEW w \in Worker, NEW m \in Message, Record(w, m)
  PROVE  OpenMinded(Outcome(w, m))
<1>1. /\ pass[w].reply \in Reply
      /\ pass[w].batch[m].attempts + 1 \in 1..MaxAttempts
  BY OutcomeTyped
<1>2. CASE pass[w].reply = "sent"
  <2>1. Outcome(w, m).status = "SENT"
    BY <1>2, RowFields DEF Outcome, Row
  <2> QED
    BY <2>1 DEF OpenMinded
<1>3. CASE pass[w].reply # "sent"
  <2> DEFINE n == pass[w].batch[m].attempts + 1
             reply == pass[w].reply
  <2>1. Outcome(w, m) = Failed(n, reply)
    BY <1>3 DEF Outcome
  <2>2. n \in 1..MaxAttempts /\ reply \in Reply \ {"sent"}
    BY <1>1, <1>3
  <2> HIDE DEF n, reply
  <2> QED
    BY <2>1, <2>2, FailedRow DEF OpenMinded
<1> QED
  BY <1>2, <1>3

LEMMA SendTruthful ==
  ASSUME Typed, Truthful, NEW w \in Worker, NEW m \in Message, Send(w, m)
  PROVE  Truthful'
<1>1. PICK answer \in Answer, reply \in Reply : Answered(w, m, answer, reply)
  BY SendAnswered
<1>2. m \in Batch(w) /\ IsNext(w, m) /\ UNCHANGED row
  BY DEF Send, IsNext
<1>3. /\ pass'[w].reply = reply /\ pass'[w].batch = pass[w].batch
      /\ \A v \in Worker \ {w} : pass'[v] = pass[v]
  BY <1>1, AnsweredPass DEF Answered
<1>4. /\ reply = "sent" => answer \in Taken
      /\ reply \in Permanent => reply \in Verdicts(m)
  BY <1>1, RepliesAre DEF Answered, Verdicts
<1>5. \A n \in Message : accepted[n] \in Nat /\ accepted'[n] >= accepted[n]
  BY <1>1 DEF Answered, Typed, TypeOK
<1>6. answer \in Taken => accepted'[m] > 0
  BY <1>1 DEF Answered, Typed, TypeOK
<1>7. ASSUME NEW v \in Worker, NEW n \in Message, IsNext(v, n)'
      PROVE  Grounded(v, n)'
  <2>1. CASE v = w
    <3>1. IsNext(w, n)
      BY <1>3, <1>7, <2>1 DEF IsNext, Batch
    <3>2. n = m
      BY <1>2, <3>1, NextIsOne, PassFields
    <3> QED
      BY <1>3, <1>4, <1>6, <2>1, <3>2 DEF Grounded
  <2>2. CASE v # w
    <3>1. IsNext(v, n) /\ pass'[v] = pass[v]
      BY <1>3, <1>7, <2>2 DEF IsNext, Batch
    <3>2. accepted[n] > 0 => accepted'[n] > 0
      <4>1. accepted[n] \in Nat /\ accepted'[n] \in Nat /\ accepted'[n] >= accepted[n]
        BY <1>1, <1>5 DEF Answered, Typed, TypeOK
      <4> QED
        BY <4>1
    <3> QED
      BY <3>1, <3>2 DEF Truthful, Grounded
  <2> QED
    BY <2>1, <2>2
<1> QED
  BY <1>2, <1>7 DEF Truthful, OpenMinded

LEMMA NextTruthful ==
  ASSUME Typed, Truthful, [Next]_ovars
  PROVE  Truthful'
<1>1. \A m \in Message : row[m] \in Row /\ OpenMinded(row[m])
  BY RowFields DEF Truthful
<1>2. ASSUME UNCHANGED <<row, pass, accepted>> PROVE Truthful'
  BY <1>1, <1>2, TruthfulStep
<1>3. ASSUME NEW m \in Message, Queue(m) PROVE Truthful'
  <2>1. \A n \in Message : OpenMinded(row'[n])
    BY <1>1, <1>3, RowFields DEF Queue, OpenMinded, Unqueued, Row
  <2> QED
    BY <1>3, <2>1, TruthfulStep DEF Queue
<1>4. ASSUME NEW w \in Worker, Claim(w) PROVE Truthful'
  <2>1. \A m \in Lowest(Due) : row[m].status = "PENDING"
    BY DEF Lowest, Due
  <2>2. row' = [m \in Message |-> IF m \in Lowest(Due)
                                THEN [row[m] EXCEPT !.status = "SENDING", !.due_in = 0]
                                ELSE row[m]]
    BY <1>4 DEF Claim
  <2>3. \A m \in Message : OpenMinded(row'[m])
    BY <1>1, <2>1, <2>2 DEF OpenMinded, Row
  <2> QED
    BY <1>4, <2>3, ClaimedPass, TruthfulStep DEF Claim
<1>5. ASSUME NEW w \in Worker, NEW m \in Message, Skip(w, m) PROVE Truthful'
  <2>1. \A n \in Message : OpenMinded(row'[n])
    BY <1>1, <1>5, RowFields DEF Skip, OpenMinded, Row
  <2> QED
    BY <1>5, <2>1, HandledPass, TruthfulStep DEF Skip
<1>6. ASSUME NEW w \in Worker, NEW m \in Message, Record(w, m) PROVE Truthful'
  <2>1. \A n \in Message : OpenMinded(row'[n])
    BY <1>1, <1>6, RowFields, OutcomeTyped, RecordOpenMinded
  <2> QED
    BY <1>6, <2>1, HandledPass, TruthfulStep DEF Record
<1>7. ASSUME NEW w \in Worker, Crash(w) PROVE Truthful'
  BY <1>1, <1>7, DeadPass, TruthfulStep DEF Crash
<1>8. CASE RecoverStuck
  <2>1. \A m \in Message : OpenMinded(row'[m])
    BY <1>1, <1>8 DEF RecoverStuck, Stuck, Requeued, OpenMinded, Row
  <2> QED
    BY <1>8, <2>1, TruthfulStep DEF RecoverStuck
<1>9. ASSUME NEW M \in SUBSET Message, RetryFailed(M) PROVE Truthful'
  <2>1. \A m \in Message : OpenMinded(row'[m])
    BY <1>1, <1>9 DEF RetryFailed, Requeued, OpenMinded, Row
  <2> QED
    BY <1>9, <2>1, TruthfulStep DEF RetryFailed
<1>10. CASE Tick
  <2>1. \A m \in Message : OpenMinded(row'[m])
    BY <1>1, <1>10 DEF Tick, Later, OpenMinded, Row
  <2> QED
    BY <1>10, <2>1, TruthfulStep DEF Tick
<1>11. ASSUME NEW w \in Worker, Deliver(w) PROVE Truthful'
  BY <1>5, <1>6, <1>11, SendTruthful DEF Deliver
<1> QED
  BY <1>2, <1>3, <1>4, <1>7, <1>8, <1>9, <1>10, <1>11 DEF Next, ChangePreference, ovars

LEMMA InitTruthful == Init => Truthful
<1> SUFFICES ASSUME Init PROVE Truthful
  OBVIOUS
<1>1. \A w \in Worker : pass[w].reply = "none"
  BY DEF Init, Resting
<1>2. \A m \in Message : OpenMinded(row[m])
  BY DEF Init, Unqueued, OpenMinded
<1> QED
  BY <1>1, <1>2 DEF Truthful, Grounded, Permanent

-----------------------------------------------------------------------------
(* The refinement, step by step.  What Delivery sees of the rows: *)

States == [m \in Message |-> StateOf(row[m].status)]
Tries == [m \in Message |-> row[m].attempts]
Refused == {m \in Message : Unfit(m)}
Seen == <<States, Tries, Refused>>

LEMMA UnfitIs == \A m : Unfit(m) <=> row[m].last_error \in Verdicts(m)
BY DEF Unfit, Verdicts

(* Rows that only move between PENDING and SENDING look the same. *)
LEMMA LookAlike ==
  ASSUME \A m \in Message : /\ StateOf(row'[m].status) = StateOf(row[m].status)
                            /\ row'[m].attempts = row[m].attempts
                            /\ row'[m].last_error = row[m].last_error
  PROVE  UNCHANGED Seen
BY UnfitIs DEF Seen, States, Tries, Refused, Unfit

(* One message becomes what its new row says. *)
Becomes(m, r) ==
  /\ States' = [States EXCEPT ![m] = StateOf(r.status)]
  /\ StateOf(r.status) = States[m] => UNCHANGED States
  /\ Tries' = [Tries EXCEPT ![m] = r.attempts]
  /\ r.attempts = Tries[m] => UNCHANGED Tries
  /\ Tries[m] = row[m].attempts
  /\ r.last_error \in Verdicts(m) => Refused' = Refused \cup {m}
  /\ r.last_error \notin Verdicts(m) /\ m \notin Refused => UNCHANGED Refused

LEMMA OneChanges ==
  ASSUME Typed, NEW m \in Message, NEW r \in Row, row' = [row EXCEPT ![m] = r]
  PROVE  Becomes(m, r)
<1>1. row'[m] = r /\ \A n \in Message \ {m} : row'[n] = row[n]
  BY RowFields
<1>2. /\ States' = [States EXCEPT ![m] = StateOf(r.status)]
      /\ StateOf(r.status) = States[m] => UNCHANGED States
  <2>1. States' = [n \in Message |-> StateOf(row'[n].status)]
    BY DEF States, StateOf
  <2>2. States' = [n \in Message |-> IF n = m THEN StateOf(r.status) ELSE States[n]]
    BY <1>1, <2>1 DEF States
  <2>3. States = [n \in Message |-> States[n]]
    BY DEF States
  <2> HIDE DEF States
  <2> QED
    BY <2>2, <2>3
<1>3. /\ Tries' = [Tries EXCEPT ![m] = r.attempts]
      /\ r.attempts = Tries[m] => UNCHANGED Tries
  <2>1. Tries' = [n \in Message |-> IF n = m THEN r.attempts ELSE Tries[n]]
    BY <1>1 DEF Tries
  <2>2. Tries = [n \in Message |-> Tries[n]]
    BY DEF Tries
  <2> HIDE DEF Tries
  <2> QED
    BY <2>1, <2>2
<1>4. \A n \in Message : Unfit(n)' <=> row'[n].last_error \in Verdicts(n)
  BY DEF Unfit, Verdicts
<1>5. Refused' = IF r.last_error \in Verdicts(m) THEN Refused \cup {m} ELSE Refused \ {m}
  BY <1>1, <1>4, UnfitIs DEF Refused
<1>6. m \notin Refused => Refused \ {m} = Refused
  OBVIOUS
<1>7. Tries[m] = row[m].attempts
  BY DEF Tries
<1> HIDE DEF States, Tries, Refused
<1> QED
  BY <1>2, <1>3, <1>5, <1>6, <1>7 DEF Becomes

LEMMA StateOfEach ==
  /\ StateOf("NONE") = "none"
  /\ StateOf("PENDING") = "queued" /\ StateOf("SENDING") = "queued"
  /\ StateOf("SENT") = "sent" /\ StateOf("FAILED") = "failed" /\ StateOf("SKIPPED") = "skipped"
BY DEF StateOf

LEMMA QueuePromised ==
  ASSUME Typed, Truthful, NEW m \in Message, Queue(m)
  PROVE  Promise!Enqueue(m)
<1> DEFINE r == [row[m] EXCEPT !.status = StatusAtQueue(m)]
<1>1. StatusAtQueue(m) \in {"PENDING", "SKIPPED"}
  BY DEF StatusAtQueue, RowStatus
<1>2. row[m] \in Row /\ row[m] = Unqueued
  BY RowFields DEF Queue
<1>3. r \in Row /\ row' = [row EXCEPT ![m] = r]
  BY <1>1, <1>2, RowFields DEF Queue, Row, Status
<1>4. r.status = StatusAtQueue(m) /\ r.attempts = row[m].attempts /\ r.last_error = "none"
  BY <1>2 DEF Row, Unqueued
<1>5. m \notin Refused /\ "none" \notin Verdicts(m)
  BY <1>2, UnfitIs DEF Refused, Verdicts, Unqueued
<1> HIDE DEF r
<1>6. Becomes(m, r)
  BY <1>3, OneChanges
<1>7. /\ States' = [States EXCEPT ![m] = StateOf(r.status)]
      /\ UNCHANGED <<Tries, Refused>>
  BY <1>4, <1>5, <1>6 DEF Becomes
<1>8. States[m] = "none" /\ StateOf(r.status) \in {"queued", "skipped"}
  BY <1>1, <1>2, <1>4, StateOfEach DEF States, Unqueued
<1> QED
  BY <1>7, <1>8 DEF Promise!Enqueue, States, Tries, Refused, Queue

(* A held row is on the queue, and nothing is held against it. *)
LEMMA HeldQueued ==
  ASSUME Typed, Owned, Truthful, NEW w \in Worker, NEW m \in Batch(w)
  PROVE  /\ m \in Message
         /\ States[m] = "queued" /\ m \notin Refused
         /\ row[m].last_error \notin Verdicts(m)
<1>1. m \in Message /\ row[m].status = "SENDING"
  BY NotHeld, PassFields
<1>2. row[m].last_error \in {"none", "error"}
  BY <1>1 DEF Truthful, OpenMinded
<1> QED
  BY <1>1, <1>2, UnfitIs, StateOfEach DEF States, Refused, Verdicts

LEMMA SkipPromised ==
  ASSUME Typed, Owned, Truthful, NEW w \in Worker, NEW m \in Message, Skip(w, m)
  PROVE  Promise!Skip(m)
<1> DEFINE r == [row[m] EXCEPT !.status = "SKIPPED", !.due_in = 0]
<1>1. m \in Batch(w)
  BY DEF Skip, IsNext
<1>2. r \in Row /\ row' = [row EXCEPT ![m] = r]
  BY RowFields, RowChanges DEF Skip
<1>3. r.status = "SKIPPED" /\ r.attempts = row[m].attempts /\ r.last_error = row[m].last_error
  BY RowFields DEF Row
<1> HIDE DEF r
<1>4. States[m] = "queued" /\ m \notin Refused /\ row[m].last_error \notin Verdicts(m)
  BY <1>1, HeldQueued
<1>5. States' = [States EXCEPT ![m] = "skipped"] /\ UNCHANGED <<Tries, Refused>>
  <2>1. Becomes(m, r)
    BY <1>2, OneChanges
  <2> QED
    BY <2>1, <1>3, <1>4, StateOfEach DEF Becomes
<1> QED
  BY <1>4, <1>5 DEF Promise!Skip, Promise!Queued, States, Tries, Refused, Skip

LEMMA SendPromised ==
  ASSUME Typed, Owned, Truthful, NEW w \in Worker, NEW m \in Message, Send(w, m)
  PROVE  Promise!Accept(m) \/ UNCHANGED <<Seen, accepted>>
<1>1. PICK answer \in Answer, reply \in Reply : Answered(w, m, answer, reply)
  BY SendAnswered
<1>2. m \in Batch(w) /\ UNCHANGED row
  BY DEF Send, IsNext
<1>3. UNCHANGED Seen
  BY <1>2, LookAlike
<1>4. \/ accepted' = [accepted EXCEPT ![m] = @ + 1]
      \/ UNCHANGED accepted
  BY <1>1 DEF Answered, Typed, TypeOK
<1> QED
  BY <1>2, <1>3, <1>4, HeldQueued DEF Promise!Accept, Promise!Queued, Seen, States, Tries, Refused

LEMMA RecordPromised ==
  ASSUME Typed, Owned, Truthful, NEW w \in Worker, NEW m \in Message, Record(w, m)
  PROVE  Promise!EndTry(m)
<1> DEFINE n == pass[w].batch[m].attempts + 1
           reply == pass[w].reply
           r == Outcome(w, m)
<1>1. /\ m \in Batch(w) /\ IsNext(w, m)
      /\ reply \in Reply /\ n \in 1..MaxAttempts
      /\ r \in Row /\ row' = [row EXCEPT ![m] = r]
  BY OutcomeTyped DEF Record
<1>8. Becomes(m, r)
  BY <1>1, OneChanges
<1>2. row[m].attempts + 1 = n /\ Tries[m] = row[m].attempts
  BY <1>1 DEF Owned, Holds, Tries
<1>3. Grounded(w, m)
  BY <1>1 DEF Truthful
<1>4. States[m] = "queued" /\ m \notin Refused /\ row[m].last_error \notin Verdicts(m)
  BY <1>1, HeldQueued
<1>5. UNCHANGED accepted
  BY DEF Record
<1>6. CASE reply = "sent"
  <2>1. r.status = "SENT" /\ r.attempts = n /\ r.last_error = row[m].last_error
    BY <1>6, RowFields DEF Outcome, Row
  <2>2. accepted[m] > 0
    BY <1>3, <1>6 DEF Grounded
  <2> HIDE DEF r, n, reply
  <2>3. /\ States' = [States EXCEPT ![m] = "sent"] /\ Tries' = [Tries EXCEPT ![m] = @ + 1]
        /\ UNCHANGED Refused
    BY <1>2, <1>4, <1>8, <2>1, StateOfEach DEF Becomes
  <2> QED
    BY <1>4, <1>5, <2>2, <2>3 DEF Promise!EndTry, Promise!Queued, States, Tries, Refused
<1>7. CASE reply # "sent"
  <2>1. r = Failed(n, reply)
    BY <1>7 DEF Outcome
  <2>2. reply \in Permanent => reply \in Verdicts(m)
    BY <1>3 DEF Grounded
  <2>3. reply = "error" => reply \notin Verdicts(m)
    BY DEF Verdicts
  <2>4. reply = "error" \/ reply \in Permanent
    BY <1>1, <1>7 DEF Reply
  <2> HIDE DEF r, n, reply
  <2>5. /\ r.status \in {"PENDING", "FAILED"}
        /\ r.status = "PENDING" => n < MaxAttempts /\ reply = "error"
        /\ r.status = "FAILED" => n = MaxAttempts \/ reply # "error"
        /\ r.attempts = n /\ r.last_error = reply
    BY <1>1, <1>7, <2>1, FailedRow
  <2>6. Tries' = [Tries EXCEPT ![m] = @ + 1] /\ Tries'[m] = n
    <3>1. Tries' = [Tries EXCEPT ![m] = n]
      BY <1>8, <2>5 DEF Becomes
    <3>2. Tries[m] + 1 = n /\ m \in DOMAIN Tries
      BY <1>2 DEF Tries
    <3> HIDE DEF Tries
    <3> QED
      BY <3>1, <3>2
  <2>7. CASE r.status = "PENDING"
    <3>1. StateOf(r.status) = States[m] /\ r.last_error \notin Verdicts(m)
      BY <1>4, <2>3, <2>5, <2>7, StateOfEach
    <3>2. UNCHANGED <<States, Refused>>
      BY <1>4, <1>8, <3>1 DEF Becomes
    <3> QED
      BY <1>4, <1>5, <2>5, <2>6, <2>7, <3>2
         DEF Promise!EndTry, Promise!Queued, States, Tries, Refused
  <2>8. CASE r.status = "FAILED"
    <3>1. States' = [States EXCEPT ![m] = "failed"]
      BY <1>8, <2>8, StateOfEach DEF Becomes
    <3>2. \/ n >= MaxAttempts /\ UNCHANGED Refused
          \/ Refused' = Refused \cup {m}
      <4>1. CASE reply = "error"
        <5>1. n = MaxAttempts /\ n >= MaxAttempts
          BY <2>5, <2>8, <4>1, Bounds
        <5>2. UNCHANGED Refused
          BY <1>4, <1>8, <2>3, <2>5, <4>1 DEF Becomes
        <5> QED
          BY <5>1, <5>2
      <4>2. CASE reply \in Permanent
        BY <1>8, <2>2, <2>5, <4>2 DEF Becomes
      <4> QED
        BY <2>4, <4>1, <4>2
    <3> QED
      BY <1>4, <1>5, <2>6, <3>1, <3>2
         DEF Promise!EndTry, Promise!Queued, States, Tries, Refused
  <2> QED
    BY <2>5, <2>7, <2>8
<1> QED
  BY <1>6, <1>7

LEMMA RetryPromised ==
  ASSUME Typed, NEW M \in SUBSET Message, RetryFailed(M)
  PROVE  Promise!Requeue(M)
<1>1. row' = [m \in Message |-> IF m \in M
                                THEN [Requeued(row[m]) EXCEPT !.attempts = 0, !.last_error = "none"]
                                ELSE row[m]]
  BY DEF RetryFailed
<1>2. ASSUME NEW m \in M
      PROVE  /\ row[m].status = "FAILED"
             /\ row'[m].status = "PENDING" /\ row'[m].attempts = 0
             /\ row'[m].last_error = "none"
  <2>1. row[m] \in Row /\ row[m].status = "FAILED"
    BY RowFields DEF RetryFailed
  <2>2. row'[m] = [Requeued(row[m]) EXCEPT !.attempts = 0, !.last_error = "none"]
    BY <1>1
  <2> QED
    BY <2>1, <2>2 DEF Requeued, Row
<1>3. \A m \in Message \ M : row'[m] = row[m]
  BY <1>1
<1>4. \A m \in Message : Unfit(m)' <=> row'[m].last_error \in Verdicts(m)
  BY DEF Unfit, Verdicts
<1>5. \A m \in Message : "none" \notin Verdicts(m)
  BY DEF Verdicts
<1>6. Refused' = Refused \ M
  BY <1>2, <1>3, <1>4, <1>5, UnfitIs DEF Refused
<1>7. /\ States' = [m \in Message |-> IF m \in M THEN "queued" ELSE States[m]]
      /\ Tries' = [m \in Message |-> IF m \in M THEN 0 ELSE Tries[m]]
  BY <1>2, <1>3, StateOfEach DEF States, Tries
<1>8. \A m \in M : States[m] = "failed"
  BY <1>2, StateOfEach DEF States
<1> QED
  BY <1>6, <1>7, <1>8 DEF Promise!Requeue, States, Tries, Refused, RetryFailed

(* Delivery does not see a claim, a crash, a recovery or the clock. *)
LEMMA Unseen ==
  ASSUME Typed,
         \/ \E w \in Worker : Claim(w) \/ Crash(w)
         \/ \E m \in Message : ChangePreference(m)
         \/ RecoverStuck \/ Tick
  PROVE  UNCHANGED <<Seen, accepted>>
<1>1. \A m \in Message : row[m] \in Row
  BY RowFields
<1>2. ASSUME NEW w \in Worker, Claim(w) PROVE UNCHANGED Seen
  <2>1. \A m \in Lowest(Due) : row[m].status = "PENDING"
    BY DEF Lowest, Due
  <2>2. row' = [m \in Message |-> IF m \in Lowest(Due)
                                THEN [row[m] EXCEPT !.status = "SENDING", !.due_in = 0]
                                ELSE row[m]]
    BY <1>2 DEF Claim
  <2> QED
    BY <1>1, <2>1, <2>2, StateOfEach, LookAlike DEF Row
<1>3. ASSUME RecoverStuck PROVE UNCHANGED Seen
  BY <1>1, <1>3, StateOfEach, LookAlike DEF RecoverStuck, Stuck, Requeued, Row
<1>4. ASSUME Tick PROVE UNCHANGED Seen
  BY <1>1, <1>4, LookAlike DEF Tick, Later, Row
<1>5. ASSUME UNCHANGED row PROVE UNCHANGED Seen
  BY <1>5, LookAlike
<1>6. UNCHANGED Seen
  BY <1>2, <1>3, <1>4, <1>5 DEF Crash, ChangePreference
<1> QED
  BY <1>6 DEF Claim, Crash, ChangePreference, RecoverStuck, Tick

LEMMA NextPromised ==
  ASSUME Typed, Owned, Truthful, [Next]_ovars
  PROVE  [Promise!DNext]_(Promise!dvars)
<1>1. Promise!dvars = <<States, accepted, Tries, Refused>>
  BY DEF Promise!dvars, States, Tries, Refused
<1>2. UNCHANGED <<Seen, accepted>> => UNCHANGED Promise!dvars
  BY <1>1 DEF Seen, Promise!dvars, States, Tries, Refused
<1>3. ASSUME NEW m \in Message, Queue(m) PROVE Promise!DNext
  BY <1>3, QueuePromised DEF Promise!DNext
<1>4. ASSUME NEW w \in Worker, Deliver(w) PROVE Promise!DNext \/ UNCHANGED Promise!dvars
  BY <1>2, <1>4, SkipPromised, SendPromised, RecordPromised DEF Deliver, Promise!DNext
<1>5. ASSUME NEW M \in SUBSET Message, RetryFailed(M) PROVE Promise!DNext
  BY <1>5, RetryPromised DEF Promise!DNext
<1>6. CASE UNCHANGED ovars
  BY <1>2, <1>6, LookAlike DEF ovars
<1> QED
  BY <1>2, <1>3, <1>4, <1>5, <1>6, Unseen DEF Next

LEMMA InitPromised == Init => Promise!DInit
<1> SUFFICES ASSUME Init PROVE Promise!DInit
  OBVIOUS
<1>1. \A m \in Message : row[m] = Unqueued /\ ~Unfit(m)
  BY UnfitIs DEF Init, Unqueued, Verdicts
<1> QED
  BY <1>1, StateOfEach DEF Promise!DInit, Init, Unqueued

(* The outbox implements Delivery: the log tells the truth about every     *)
(* message, a message that was sent is never on the queue again, and none  *)
(* is given up for a trouble that is not its own before its last try.      *)
THEOREM OutboxKeepsPromise ==
  ASSUME Prompt
  PROVE  Spec => KeepsPromise
<1>1. /\ Typed /\ Owned /\ Truthful /\ [Next]_ovars
      => Typed' /\ Owned' /\ Truthful'
  BY NextTyped, NextOwned, NextTruthful
<1>2. Typed /\ Owned /\ Truthful /\ [Next]_ovars => [Promise!DNext]_(Promise!dvars)
  BY NextPromised
<1> QED
  BY <1>1, <1>2, InitTyped, InitOwned, InitTruthful, InitPromised, PTL
     DEF Spec, KeepsPromise, Promise!DSpec
-----------------------------------------------------------------------------
(* The log, however slow the passes are.  A message to a stranger has no   *)
(* account behind it that could have opted out, and its pass knows.        *)

StrangersAsked ==
  \A w \in Worker : \A m \in Batch(w) \cap Strangers : pass[w].batch[m].wants

Accounted(m) ==
  /\ row[m].status = "SENT" => accepted[m] > 0
  /\ row[m].status = "FAILED" => row[m].attempts >= MaxAttempts \/ Unfit(m)
  /\ row[m].status = "SKIPPED" => m \notin Strangers

(* models.py 126, "Transactional outbox + delivery log": a message logged  *)
(* as sent was taken by the provider, one logged as failed has had all its *)
(* tries or cannot be delivered, and only an account's own preferences     *)
(* have one skipped.                                                       *)
LogTellsTheTruth == \A m \in Message : Accounted(m)

LEMMA NextStrangers ==
  ASSUME Typed, StrangersAsked, [Next]_ovars
  PROVE  StrangersAsked'
<1>1. ASSUME \A w \in Worker : Batch(w)' \subseteq Batch(w),
             \A w \in Worker : \A m \in Batch(w)' : pass'[w].batch[m] = pass[w].batch[m]
      PROVE  StrangersAsked'
  BY <1>1 DEF StrangersAsked
<1>2. CASE UNCHANGED pass
  BY <1>1, <1>2 DEF Batch
<1>3. ASSUME NEW w \in Worker, Claim(w) PROVE StrangersAsked'
  <2>1. /\ \A m \in Batch(w)' : pass'[w].batch[m] = Snapshot(m)
        /\ \A v \in Worker \ {w} : pass'[v] = pass[v] /\ Batch(v)' = Batch(v)
    BY <1>3, ClaimedPass
  <2>2. \A m \in Strangers : Snapshot(m).wants
    BY DEF Snapshot
  <2> QED
    BY <2>1, <2>2 DEF StrangersAsked
<1>4. ASSUME NEW w \in Worker, NEW m \in Message, Skip(w, m) \/ Record(w, m)
      PROVE  StrangersAsked'
  <2>1. pass' = [pass EXCEPT ![w] = Handled(w, m)]
    BY <1>4 DEF Skip, Record
  <2> QED
    BY <1>1, <2>1, HandledPass
<1>5. ASSUME NEW w \in Worker, NEW m \in Message, Send(w, m) PROVE StrangersAsked'
  <2>1. PICK answer \in Answer, reply \in Reply : Answered(w, m, answer, reply)
    BY <1>5, SendAnswered
  <2>2. \A v \in Worker : Batch(v)' = Batch(v) /\ pass'[v].batch = pass[v].batch
    BY <2>1, AnsweredPass DEF Answered
  <2> QED
    BY <1>1, <2>2
<1>6. ASSUME NEW w \in Worker, Crash(w) PROVE StrangersAsked'
  <2>1. /\ Batch(w)' = {}
        /\ \A v \in Worker \ {w} : pass'[v] = pass[v] /\ Batch(v)' = Batch(v)
    BY <1>6, DeadPass DEF Crash
  <2> QED
    BY <1>1, <2>1
<1> QED
  BY <1>2, <1>3, <1>4, <1>5, <1>6
     DEF Next, Deliver, Queue, ChangePreference, RecoverStuck, RetryFailed, Tick, ovars

(* What has been accepted stays accepted. *)
LEMMA AcceptedGrows ==
  ASSUME Typed, [Next]_ovars, NEW m \in Message
  PROVE  accepted[m] > 0 => accepted'[m] > 0
<1>1. accepted \in [Message -> Nat]
  BY DEF Typed, TypeOK
<1>2. ASSUME NEW w \in Worker, NEW n \in Message, Send(w, n)
      PROVE  accepted[m] > 0 => accepted'[m] > 0
  <2>1. PICK answer \in Answer, reply \in Reply : Answered(w, n, answer, reply)
    BY <1>2, SendAnswered
  <2> QED
    BY <1>1, <2>1 DEF Answered
<1>3. UNCHANGED accepted => (accepted[m] > 0 => accepted'[m] > 0)
  OBVIOUS
<1> QED
  BY <1>2, <1>3 DEF Next, Deliver, Queue, ChangePreference, Claim, Skip, Record, Crash,
                    RecoverStuck, RetryFailed, Tick, ovars

(* A row keeps its account as long as no step settles it.                  *)
LEMMA StaysAccounted ==
  ASSUME Typed, [Next]_ovars, NEW m \in Message, Accounted(m),
         \/ row'[m] = row[m]
         \/ row'[m].status \in {"PENDING", "SENDING"}
  PROVE  Accounted(m)'
BY AcceptedGrows DEF Accounted, Unfit

LEMMA RecordAccounted ==
  ASSUME Typed, Truthful, NEW w \in Worker, NEW m \in Message, Record(w, m)
  PROVE  Accounted(m)'
<1> DEFINE n == pass[w].batch[m].attempts + 1
           reply == pass[w].reply
<1>1. IsNext(w, m) /\ Grounded(w, m) /\ UNCHANGED accepted
  BY DEF Record, Truthful
<1>2. row'[m] = Outcome(w, m) /\ n \in 1..MaxAttempts /\ reply \in Reply
  BY OutcomeTyped, RowFields
<1>3. CASE reply = "sent"
  <2>1. row'[m].status = "SENT"
    BY <1>2, <1>3, RowFields DEF Outcome, Row
  <2> QED
    BY <1>1, <1>3, <2>1 DEF Accounted, Grounded
<1>4. CASE reply # "sent"
  <2>1. row'[m] = Failed(n, reply)
    BY <1>2, <1>4 DEF Outcome
  <2>2. reply \in Permanent => reply \in Verdicts(m)
    BY <1>1 DEF Grounded
  <2>3. Unfit(m)' <=> row'[m].last_error \in Verdicts(m)
    BY DEF Unfit, Verdicts
  <2> HIDE DEF n, reply
  <2>4. /\ row'[m].status \in {"PENDING", "FAILED"}
        /\ row'[m].status = "FAILED" => row'[m].attempts >= MaxAttempts
                                         \/ row'[m].last_error \in Verdicts(m)
    BY <2>1, <2>2 DEF Failed
  <2> QED
    BY <2>3, <2>4 DEF Accounted
<1> QED
  BY <1>3, <1>4

LEMMA NextAccounted ==
  ASSUME Typed, Truthful, StrangersAsked, LogTellsTheTruth, [Next]_ovars, NEW m \in Message
  PROVE  Accounted(m)'
<1>1. Accounted(m) /\ row[m] \in Row /\ DOMAIN row = Message
  BY RowFields DEF LogTellsTheTruth
<1>2. CASE row'[m] = row[m]
  BY <1>1, <1>2, StaysAccounted
<1>3. ASSUME NEW n \in Message, Queue(n), row'[m] # row[m] PROVE Accounted(m)'
  <2>1. m = n /\ row'[m].status = StatusAtQueue(m)
    BY <1>1, <1>3, RowFields DEF Queue, Row
  <2>2. row'[m].status \in {"PENDING", "SKIPPED"} /\ (row'[m].status = "SKIPPED" => m \notin Strangers)
    BY <2>1 DEF StatusAtQueue, RowStatus
  <2> QED
    BY <2>2 DEF Accounted
<1>4. ASSUME NEW w \in Worker, Claim(w), row'[m] # row[m] PROVE Accounted(m)'
  <2>1. row'[m] = [row[m] EXCEPT !.status = "SENDING", !.due_in = 0]
    BY <1>4 DEF Claim
  <2>2. row'[m].status = "SENDING"
    BY <1>1, <2>1 DEF Row
  <2> QED
    BY <1>1, <2>2, StaysAccounted
<1>5. ASSUME NEW w \in Worker, NEW n \in Message, Skip(w, n), row'[m] # row[m] PROVE Accounted(m)'
  <2>1. m = n /\ row'[m].status = "SKIPPED"
    BY <1>1, <1>5, RowFields DEF Skip, Row
  <2>2. m \notin Strangers
    BY <1>5, <2>1 DEF Skip, IsNext, StrangersAsked
  <2> QED
    BY <2>1, <2>2 DEF Accounted
<1>6. ASSUME NEW w \in Worker, NEW n \in Message, Record(w, n), row'[m] # row[m] PROVE Accounted(m)'
  <2>1. m = n
    BY <1>6, OutcomeTyped, RowFields
  <2> QED
    BY <1>6, <2>1, RecordAccounted
<1>7. CASE RecoverStuck /\ row'[m] # row[m]
  <2>1. row'[m] = Requeued(row[m])
    BY <1>7 DEF RecoverStuck
  <2>2. row'[m].status = "PENDING"
    BY <1>1, <2>1 DEF Requeued, Row
  <2> QED
    BY <1>1, <2>2, StaysAccounted
<1>8. ASSUME NEW M \in SUBSET Message, RetryFailed(M), row'[m] # row[m] PROVE Accounted(m)'
  <2>1. row'[m] = [Requeued(row[m]) EXCEPT !.attempts = 0, !.last_error = "none"]
    BY <1>8 DEF RetryFailed
  <2>2. row'[m].status = "PENDING"
    BY <1>1, <2>1 DEF Requeued, Row
  <2> QED
    BY <1>1, <2>2, StaysAccounted
<1>9. CASE Tick /\ row'[m] # row[m]
  <2>1. row'[m] = Later(row[m])
    BY <1>9 DEF Tick
  <2>2. row'[m].status \in {"PENDING", "SENDING"}
    BY <1>1, <1>9, <2>1 DEF Later, Row
  <2> QED
    BY <1>1, <2>2, StaysAccounted
<1>10. CASE row'[m] # row[m]
  BY <1>3, <1>4, <1>5, <1>6, <1>7, <1>8, <1>9, <1>10
     DEF Next, Deliver, ChangePreference, Send, Crash, ovars
<1> QED
  BY <1>2, <1>10

(* However slow its passes are, and even when two of them send one row:    *)
(* the log tells the truth of every message.                               *)
THEOREM LogIsTruthful == Spec => []LogTellsTheTruth
<1>1. Init => StrangersAsked /\ LogTellsTheTruth
  <2> SUFFICES ASSUME Init PROVE StrangersAsked /\ LogTellsTheTruth
    OBVIOUS
  <2>1. DOMAIN <<>> = {}
    OBVIOUS
  <2>2. \A w \in Worker : Batch(w) = {}
    BY <2>1 DEF Init, Batch, Resting
  <2>3. \A m \in Message : row[m].status = "NONE"
    BY DEF Init, Unqueued
  <2> QED
    BY <2>2, <2>3 DEF StrangersAsked, LogTellsTheTruth, Accounted
<1>2. Typed /\ Truthful /\ [Next]_ovars => Typed' /\ Truthful'
  BY NextTyped, NextTruthful
<1>3. Typed /\ StrangersAsked /\ [Next]_ovars => StrangersAsked'
  BY NextStrangers
<1>4. Typed /\ Truthful /\ StrangersAsked /\ LogTellsTheTruth /\ [Next]_ovars => LogTellsTheTruth'
  BY NextAccounted DEF LogTellsTheTruth
<1> QED
  BY <1>1, <1>2, <1>3, <1>4, InitTyped, InitTruthful, PTL DEF Spec
=============================================================================
