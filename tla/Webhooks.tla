-------------------------------- MODULE Webhooks --------------------------------
(***************************************************************************)
(* One webhook of an organization: its row, the requests of its owner, the *)
(* goroutines that deliver events to its receiver, and the rule that       *)
(* disables it after too many failures.  No transaction spans two          *)
(* statements: a request or a goroutine works on a copy of the row and     *)
(* writes it back.  An id is never used again, so a deleted webhook stays  *)
(* deleted; Create is the initial state.                                   *)
(*                                                                         *)
(* The row's url and events are one configuration; those in Subscribed     *)
(* name the event whose deliveries are modelled.                           *)
(***************************************************************************)
EXTENDS Integers, FiniteSets

CONSTANTS
  Deliveries, \* goroutines delivering at a time
  Editors,    \* requests of the owner under way at a time
  Configs, Subscribed,
  NoRow,
  MaxFailures, MaxRetries, \* WebhookServiceConfig
  MaxEdits,   \* bound: how many requests change the webhook
  MaxFaults   \* bound: crashes and failed statements

ASSUME WebhooksAssumption ==
  /\ Deliveries \cap Editors = {}
  /\ Subscribed \subseteq Configs /\ Subscribed # {}
  /\ MaxFailures \in Nat \ {0} /\ MaxRetries \in Nat
  /\ MaxEdits \in Nat /\ MaxFaults \in Nat
  /\ NoRow \notin [config : Configs, enabled : BOOLEAN,
                   failures : 0..(MaxFailures + 1)]
  /\ NoRow \notin [config : Configs, enabled : BOOLEAN]

VARIABLES
  row,      \* the webhook's row
  pc, copy, \* of each request and each delivery: the next step, and the copy of
            \* the row that it will write back
  attempt,  \* attempts a delivery has made before this one
  recorded, \* webhook_deliveries has a row that can be retried
  down,     \* the receiver has stopped accepting anything, for good
  edits, faults, \* how much of the bounds has been used
  slipped   \* history: since a failure was last counted, the webhook was
            \* enabled again, or a crash or an error cut off the check

callVars == <<pc, copy, attempt>>
vars == <<row, callVars, recorded, down, edits, faults, slipped>>

Actors == Deliveries \cup Editors

\* Counts above MaxFailures + 1 are kept at it: the code only asks for >= MaxFailures.
Rows == [config : Configs, enabled : BOOLEAN, failures : 0..(MaxFailures + 1)]

\* What is used of a copy: its failure count is never looked at.
Copies == [config : Configs, enabled : BOOLEAN]

TypeOK ==
  /\ row \in Rows \cup {NoRow}
  /\ \A d \in Deliveries : pc[d] \in {"idle", "send", "succeed", "reset", "fail",
                                      "count", "recheck", "disable"}
  /\ \A e \in Editors : pc[e] \in {"idle", "update"}
  /\ DOMAIN pc = Actors
  /\ copy \in [Actors -> Copies \cup {NoRow}]
  /\ attempt \in [Deliveries -> 0..MaxRetries]
  /\ recorded \in BOOLEAN /\ down \in BOOLEAN /\ slipped \in BOOLEAN
  /\ edits \in 0..MaxEdits
  /\ faults \in 0..MaxFaults

Init ==
  /\ row \in [config : Configs, enabled : {TRUE}, failures : {0}]
  /\ pc = [a \in Actors |-> "idle"]
  /\ copy = [a \in Actors |-> NoRow]
  /\ attempt = [d \in Deliveries |-> 0]
  /\ recorded = FALSE /\ down = FALSE /\ slipped = FALSE
  /\ edits = 0 /\ faults = 0

-----------------------------------------------------------------------------
Goto(a, l) == pc' = [pc EXCEPT ![a] = l]

\* A call ends and forgets what it had read.
Return(a) ==
  /\ Goto(a, "idle")
  /\ copy' = [copy EXCEPT ![a] = NoRow]
  /\ attempt' = IF a \in Deliveries THEN [attempt EXCEPT ![a] = 0] ELSE attempt

\* The events reach the webhook.
Listening == row # NoRow /\ row.enabled /\ row.config \in Subscribed

Failing == row # NoRow /\ row.failures >= MaxFailures

\* webhookRepo.Update: url, events and enabled; not the failure count, and not
\* the secret.
Written(r) ==
  IF row = NoRow THEN NoRow
  ELSE [row EXCEPT !.config = r.config, !.enabled = r.enabled]
-----------------------------------------------------------------------------
(* The owner's requests. *)

\* Update reads the row and applies the request to the copy: a new
\* configuration, enabled or disabled, or only one of the two.  It also resets
\* the failure count of the copy, which has no effect.
Edit(e) ==
  /\ pc[e] = "idle" /\ row # NoRow
  /\ edits < MaxEdits /\ edits' = edits + 1
  /\ \E c \in Configs, b \in BOOLEAN :
       copy' = [copy EXCEPT ![e] = [config |-> c, enabled |-> b]]
  /\ Goto(e, "update")
  /\ UNCHANGED <<row, attempt, recorded, down, faults, slipped>>

\* RotateSecret changes the secret of its copy, which the update does not write:
\* what it writes back is the row as it was.
Rotate(e) ==
  /\ pc[e] = "idle" /\ row # NoRow
  /\ edits < MaxEdits /\ edits' = edits + 1
  /\ copy' = [copy EXCEPT ![e] = [config |-> row.config, enabled |-> row.enabled]]
  /\ Goto(e, "update")
  /\ UNCHANGED <<row, attempt, recorded, down, faults, slipped>>

\* Both write the copy back.
Update(e) ==
  /\ e \in Editors /\ pc[e] = "update"
  /\ row' = Written(copy[e])
  /\ slipped' = (slipped \/ (row # NoRow /\ ~row.enabled /\ copy[e].enabled))
  /\ Return(e)
  /\ UNCHANGED <<recorded, down, edits, faults>>

Delete(e) ==
  /\ pc[e] = "idle" /\ row # NoRow
  /\ edits < MaxEdits /\ edits' = edits + 1
  /\ row' = NoRow
  /\ UNCHANGED <<callVars, recorded, down, faults, slipped>>
-----------------------------------------------------------------------------
(* Deliveries. *)

Start(d) ==
  /\ pc[d] = "idle"
  /\ Goto(d, "send")
  /\ UNCHANGED <<row, copy, attempt, recorded, down, edits, faults, slipped>>

\* Deliver: an event finds the webhook enabled and subscribed.
Deliver(d) == Listening /\ Start(d)

\* RetryDelivery: any recorded delivery, of a webhook that may be disabled.
RetryDelivery(d) == recorded /\ row # NoRow /\ Start(d)

\* Mutant: the retries are compared with <= instead of <.
SendOnceMore(d) ==
  /\ pc[d] = "send"
  /\ \/ ~down /\ Goto(d, "succeed") /\ UNCHANGED attempt
     \/ Goto(d, "fail") /\ UNCHANGED attempt
     \/ /\ attempt[d] <= MaxRetries
        /\ attempt' = [attempt EXCEPT ![d] = @ + 1]
        /\ UNCHANGED pc
  /\ UNCHANGED <<row, copy, recorded, down, edits, faults, slipped>>

\* One attempt of sendWebhook.  The receiver accepts, refuses for good (4xx
\* but 429), or fails in a way that is retried: 5xx, 429, or no answer, which
\* says nothing of whether it got the event.
Send(d) ==
  /\ pc[d] = "send"
  /\ \/ ~down /\ Goto(d, "succeed") /\ UNCHANGED attempt
     \/ Goto(d, "fail") /\ UNCHANGED attempt
     \/ /\ attempt[d] < MaxRetries
        /\ attempt' = [attempt EXCEPT ![d] = @ + 1]
        /\ UNCHANGED pc
  /\ UNCHANGED <<row, copy, recorded, down, edits, faults, slipped>>

\* recordDeliverySuccess and recordDeliveryFailure: the delivery's own row.
Record(d) ==
  /\ pc[d] \in {"succeed", "fail"}
  /\ recorded' = (recorded \/ row # NoRow)
  /\ Goto(d, IF pc[d] = "succeed" THEN "reset" ELSE "count")
  /\ UNCHANGED <<row, copy, attempt, down, edits, faults, slipped>>

\* ResetFailureCount.
Reset(d) ==
  /\ pc[d] = "reset"
  /\ row' = IF row = NoRow THEN NoRow ELSE [row EXCEPT !.failures = 0]
  /\ Return(d)
  /\ UNCHANGED <<recorded, down, edits, faults, slipped>>

\* IncrementFailureCount.
Count(d) ==
  /\ pc[d] = "count"
  /\ row' = IF row = NoRow THEN NoRow
            ELSE [row EXCEPT !.failures = IF @ > MaxFailures THEN @ ELSE @ + 1]
  /\ slipped' = FALSE
  /\ Goto(d, "recheck")
  /\ UNCHANGED <<copy, attempt, recorded, down, edits, faults>>

\* Mutant: the count is compared with = , which a concurrent delivery skips.
RecheckEqual(d) ==
  /\ pc[d] = "recheck"
  /\ \/ /\ row # NoRow /\ row.failures = MaxFailures
        /\ copy' = [copy EXCEPT ![d] =
             [config |-> row.config, enabled |-> FALSE]]
        /\ Goto(d, "disable")
        /\ UNCHANGED attempt
     \/ ~(row # NoRow /\ row.failures = MaxFailures) /\ Return(d)
  /\ UNCHANGED <<row, recorded, down, edits, faults, slipped>>

\* Mutant: the count is compared with > instead of >=.
RecheckAbove(d) ==
  /\ pc[d] = "recheck"
  /\ \/ /\ row # NoRow /\ row.failures > MaxFailures
        /\ copy' = [copy EXCEPT ![d] =
             [config |-> row.config, enabled |-> FALSE]]
        /\ Goto(d, "disable")
        /\ UNCHANGED attempt
     \/ ~(row # NoRow /\ row.failures > MaxFailures) /\ Return(d)
  /\ UNCHANGED <<row, recorded, down, edits, faults, slipped>>

\* GetByID after the count.
Recheck(d) ==
  /\ pc[d] = "recheck"
  /\ \/ /\ Failing
        /\ copy' = [copy EXCEPT ![d] =
             [config |-> row.config, enabled |-> FALSE]]
        /\ Goto(d, "disable")
        /\ UNCHANGED attempt
     \/ ~Failing /\ Return(d)
  /\ UNCHANGED <<row, recorded, down, edits, faults, slipped>>

\* The copy goes back whole, over whatever was written since it was read.
Disable(d) ==
  /\ pc[d] = "disable"
  /\ row' = Written(copy[d])
  /\ Return(d)
  /\ UNCHANGED <<recorded, down, edits, faults, slipped>>
-----------------------------------------------------------------------------
(* Failures. *)

\* A statement of a delivery fails: its error is ignored and the next is run.
\* Without the row that GetByID should have read, nothing is disabled.
Fail(d) ==
  /\ faults < MaxFaults /\ faults' = faults + 1
  /\ \/ /\ pc[d] = "succeed" /\ Goto(d, "reset") /\ UNCHANGED <<copy, attempt, slipped>>
     \/ /\ pc[d] = "fail" /\ Goto(d, "count") /\ UNCHANGED <<copy, attempt, slipped>>
     \/ /\ pc[d] = "count" /\ Goto(d, "recheck") /\ UNCHANGED <<copy, attempt, slipped>>
     \/ /\ pc[d] = "reset" /\ Return(d) /\ UNCHANGED slipped
     \/ /\ pc[d] \in {"recheck", "disable"} /\ Return(d) /\ slipped' = TRUE
  /\ UNCHANGED <<row, recorded, down, edits>>

\* The process ends: deliveries under way are forgotten.
Crash ==
  /\ faults < MaxFaults /\ faults' = faults + 1
  /\ pc' = [a \in Actors |-> "idle"]
  /\ copy' = [a \in Actors |-> NoRow]
  /\ attempt' = [d \in Deliveries |-> 0]
  /\ slipped' = (slipped \/ \E d \in Deliveries : pc[d] \in {"recheck", "disable"})
  /\ UNCHANGED <<row, recorded, down, edits>>

GoDown ==
  /\ ~down /\ down' = TRUE
  /\ UNCHANGED <<row, callVars, recorded, edits, faults, slipped>>

\* What a goroutine does once it has started.
Run(d) == Send(d) \/ Record(d) \/ Reset(d) \/ Count(d) \/ Recheck(d) \/ Disable(d)

Next ==
  \/ \E e \in Editors : Edit(e) \/ Rotate(e) \/ Update(e) \/ Delete(e)
  \/ \E d \in Deliveries : Deliver(d) \/ RetryDelivery(d) \/ Run(d) \/ Fail(d)
  \/ Crash \/ GoDown

Spec == Init /\ [][Next]_vars

\* Goroutines and requests that have started run on, and events keep coming.
Fairness ==
  /\ \A d \in Deliveries : WF_vars(Run(d)) /\ WF_vars(Deliver(d))
  /\ \A e \in Editors : WF_vars(Update(e))

FairSpec == Spec /\ Fairness

-----------------------------------------------------------------------------
(* Properties. *)

\* An enabled webhook that has failed MaxFailures times in a row is being
\* looked at by a delivery, or slipped: however deliveries, successes and the
\* owner's requests interleave, no failure is counted that nobody acts on.
FailingIsDisabled ==
  Failing /\ row.enabled /\ ~slipped
    => \E d \in Deliveries : pc[d] \in {"recheck", "disable"}

\* A receiver that is down for good stops being called: if events keep coming,
\* the webhook ends up disabled (or deleted, or no longer subscribed) for
\* ever, in spite of crashes, failed statements, retries and stale writes.
DeadReceiverIsDropped == <>down => <>[]~Listening
=============================================================================
