------------------------------ MODULE Delivery ------------------------------
(***************************************************************************)
(* What the outbox of apps/notifications promises about each message,      *)
(* whoever delivers it and however often it is tried: a queued message     *)
(* ends in one of three ways, "sent" means that the provider took it, the  *)
(* provider is offered nothing that is not queued, a message is given up   *)
(* after all its tries or because it can never be delivered, and only the  *)
(* office puts one that failed back on the queue, with its tries restored. *)
(***************************************************************************)
EXTENDS Naturals

CONSTANTS Message, MaxTries

VARIABLES
  state,      \* "none", "queued", "sent", "failed" or "skipped"
  accepted,   \* how many times the provider has taken the message
  tries,      \* how many tries have ended since the office last intervened
  unfit       \* messages turned down for what they are

dvars == <<state, accepted, tries, unfit>>

Queued(m) == state[m] = "queued"

Enqueue(m) ==
  /\ state[m] = "none"
  /\ \E s \in {"queued", "skipped"} : state' = [state EXCEPT ![m] = s]
  /\ UNCHANGED <<accepted, tries, unfit>>

Accept(m) ==
  /\ Queued(m)
  /\ accepted' = [accepted EXCEPT ![m] = @ + 1]
  /\ UNCHANGED <<state, tries, unfit>>

(* A try ends: well, to be repeated, or for good. *)
EndTry(m) ==
  /\ Queued(m)
  /\ tries' = [tries EXCEPT ![m] = @ + 1]
  /\ \/ accepted[m] > 0 /\ state' = [state EXCEPT ![m] = "sent"] /\ UNCHANGED unfit
     \/ tries'[m] < MaxTries /\ UNCHANGED <<state, unfit>>
     \/ /\ \/ tries'[m] >= MaxTries /\ UNCHANGED unfit
           \/ unfit' = unfit \cup {m}
        /\ state' = [state EXCEPT ![m] = "failed"]
  /\ UNCHANGED accepted

Skip(m) ==
  /\ Queued(m)
  /\ state' = [state EXCEPT ![m] = "skipped"]
  /\ UNCHANGED <<accepted, tries, unfit>>

Requeue(M) ==
  /\ \A m \in M : state[m] = "failed"
  /\ state' = [m \in Message |-> IF m \in M THEN "queued" ELSE state[m]]
  /\ tries' = [m \in Message |-> IF m \in M THEN 0 ELSE tries[m]]
  /\ unfit' = unfit \ M
  /\ UNCHANGED accepted

DInit ==
  /\ state = [m \in Message |-> "none"]
  /\ accepted = [m \in Message |-> 0]
  /\ tries = [m \in Message |-> 0]
  /\ unfit = {}

DNext ==
  \/ \E m \in Message : Enqueue(m) \/ Accept(m) \/ EndTry(m) \/ Skip(m)
  \/ \E M \in SUBSET Message : Requeue(M)

DSpec == DInit /\ [][DNext]_dvars
=============================================================================
