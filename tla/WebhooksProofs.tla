----------------------------- MODULE WebhooksProofs -----------------------------
(***************************************************************************)
(* Proofs about Webhooks, for any number of deliveries and requests, any   *)
(* configurations and any bounds.                                          *)
(***************************************************************************)
EXTENDS Webhooks, TLAPS

-----------------------------------------------------------------------------
(* Type correctness.                                                       *)

\* What is about to write the row back has a copy of it; a delivery's copy is of
\* a disabled webhook.
CopyInv ==
  /\ \A a \in Actors : pc[a] \in {"update", "disable"} => copy[a] \in Copies
  /\ \A d \in Deliveries : pc[d] = "disable" => copy[d].enabled = FALSE

TypeInv == TypeOK /\ CopyInv

\* Every variable keeps its type.
LEMMA StepType == TypeInv /\ [Next]_vars => TypeInv'
<1>. SUFFICES ASSUME TypeInv, [Next]_vars PROVE TypeInv'
  OBVIOUS
<1>. USE DEF TypeInv, TypeOK, CopyInv, Actors, Rows, Copies
<1>1. ASSUME NEW e \in Editors, Edit(e) PROVE TypeInv'
  BY <1>1, WebhooksAssumption DEF Edit, Goto
<1>2. ASSUME NEW e \in Editors, Rotate(e) PROVE TypeInv'
  BY <1>2, WebhooksAssumption DEF Rotate, Goto
<1>3. ASSUME NEW e \in Editors, Update(e) PROVE TypeInv'
  BY <1>3, WebhooksAssumption DEF Update, Written, Return, Goto
<1>4. ASSUME NEW e \in Editors, Delete(e) PROVE TypeInv'
  BY <1>4, WebhooksAssumption DEF Delete, callVars
<1>5. ASSUME NEW d \in Deliveries, Deliver(d) PROVE TypeInv'
  BY <1>5, WebhooksAssumption DEF Deliver, Start, Goto
<1>6. ASSUME NEW d \in Deliveries, RetryDelivery(d) PROVE TypeInv'
  BY <1>6, WebhooksAssumption DEF RetryDelivery, Start, Goto
<1>7. ASSUME NEW d \in Deliveries, Send(d) PROVE TypeInv'
  BY <1>7, WebhooksAssumption DEF Send, Goto
<1>8. ASSUME NEW d \in Deliveries, Record(d) PROVE TypeInv'
  BY <1>8, WebhooksAssumption DEF Record, Goto
<1>9. ASSUME NEW d \in Deliveries, Reset(d) PROVE TypeInv'
  BY <1>9, WebhooksAssumption DEF Reset, Return, Goto
<1>10. ASSUME NEW d \in Deliveries, Count(d) PROVE TypeInv'
  <2>1. row' \in Rows \cup {NoRow}
    BY <1>10, WebhooksAssumption DEF Count
  <2>2. pc[d] = "count" /\ pc' = [pc EXCEPT ![d] = "recheck"] /\ slipped' = FALSE
        /\ UNCHANGED <<copy, attempt, recorded, down, edits, faults>>
    BY <1>10 DEF Count, Goto
  <2>. QED  BY <2>1, <2>2, WebhooksAssumption
<1>11. ASSUME NEW d \in Deliveries, Recheck(d) PROVE TypeInv'
  <2>1. CASE Failing /\ copy' = [copy EXCEPT ![d] = [config |-> row.config, enabled |-> FALSE]]
                   /\ Goto(d, "disable") /\ UNCHANGED attempt
    <3>1. [config |-> row.config, enabled |-> FALSE] \in Copies
      BY <2>1, WebhooksAssumption DEF Failing
    <3>2. copy' \in [Actors -> Copies \cup {NoRow}]
      BY <3>1, <2>1
    <3>. QED  BY <1>11, <2>1, <3>1, <3>2, WebhooksAssumption DEF Recheck, Goto
  <2>2. CASE ~Failing /\ Return(d)
    BY <1>11, <2>2, WebhooksAssumption DEF Recheck, Return, Goto
  <2>. QED  BY <1>11, <2>1, <2>2 DEF Recheck
<1>12. ASSUME NEW d \in Deliveries, Disable(d) PROVE TypeInv'
  <2>1. row' \in Rows \cup {NoRow}
    BY <1>12, WebhooksAssumption DEF Disable, Written
  <2>. QED  BY <1>12, <2>1, WebhooksAssumption DEF Disable, Return, Goto
<1>13. ASSUME NEW d \in Deliveries, Fail(d) PROVE TypeInv'
  <2>1. faults' \in 0..MaxFaults /\ UNCHANGED <<row, recorded, down, edits>>
    BY <1>13, WebhooksAssumption DEF Fail
  <2>2. CASE Return(d) /\ slipped' \in BOOLEAN
    BY <2>1, <2>2, WebhooksAssumption DEF Return, Goto
  <2>3. CASE (\E l \in {"reset", "count", "recheck"} : Goto(d, l)) /\ UNCHANGED <<copy, attempt, slipped>>
    BY <2>1, <2>3, WebhooksAssumption DEF Goto
  <2>. QED  BY <1>13, <2>2, <2>3 DEF Fail
<1>14. CASE Crash
  BY <1>14, WebhooksAssumption DEF Crash
<1>15. CASE GoDown
  BY <1>15, WebhooksAssumption DEF GoDown, callVars
<1>16. CASE UNCHANGED vars
  BY <1>16 DEF vars, callVars
<1>. QED  BY <1>1, <1>2, <1>3, <1>4, <1>5, <1>6, <1>7, <1>8, <1>9, <1>10, <1>11, <1>12,
          <1>13, <1>14, <1>15, <1>16 DEF Next, Run

\* It holds in every state.
LEMMA TypeInvariant == Spec => []TypeInv
<1>1. Init => TypeInv
  <2>. SUFFICES ASSUME Init PROVE TypeInv
    OBVIOUS
  <2>1. PICK c \in Configs : row = [config |-> c, enabled |-> TRUE, failures |-> 0]
    BY DEF Init
  <2>2. row \in Rows
    BY <2>1, WebhooksAssumption DEF Rows
  <2>3. \A a \in Actors : pc[a] = "idle" /\ copy[a] = NoRow
    BY DEF Init
  <2>4. CopyInv
    BY <2>3 DEF CopyInv, Actors
  <2>5. TypeOK
    <3>1. row \in Rows \cup {NoRow} /\ DOMAIN pc = Actors /\ copy \in [Actors -> Copies \cup {NoRow}]
      BY <2>2 DEF Init
    <3>2. /\ \A d \in Deliveries : pc[d] = "idle"
          /\ \A e \in Editors : pc[e] = "idle"
      BY <2>3 DEF Actors
    <3>3. attempt \in [Deliveries -> 0..MaxRetries] /\ edits \in 0..MaxEdits /\ faults \in 0..MaxFaults
      BY WebhooksAssumption DEF Init
    <3>4. recorded \in BOOLEAN /\ down \in BOOLEAN /\ slipped \in BOOLEAN
      BY DEF Init
    <3>. QED  BY <3>1, <3>2, <3>3, <3>4 DEF TypeOK
  <2>. QED  BY <2>4, <2>5 DEF TypeInv
<1>2. TypeInv /\ [Next]_vars => TypeInv'
  BY StepType
<1>. QED  BY <1>1, <1>2, PTL DEF Spec

\* Every variable keeps its type, whatever the constants.
THEOREM TypeCorrect == Spec => []TypeOK
<1>1. TypeInv => TypeOK
  BY DEF TypeInv
<1>. QED  BY <1>1, TypeInvariant, PTL

-----------------------------------------------------------------------------
(* The rule that disables a webhook.                                       *)

\* A delivery stops looking at a webhook that fails only when it has disabled it, or slips.
LEMMA FailingStep == TypeInv /\ FailingIsDisabled /\ [Next]_vars => FailingIsDisabled'
<1>. SUFFICES ASSUME TypeInv, FailingIsDisabled, [Next]_vars PROVE FailingIsDisabled'
  OBVIOUS
<1>. USE DEF TypeInv, TypeOK, CopyInv, Actors, Rows, Copies, FailingIsDisabled, Failing
<1>1. ASSUME NEW e \in Editors, Edit(e) PROVE FailingIsDisabled'
  BY <1>1, WebhooksAssumption DEF Edit, Goto
<1>2. ASSUME NEW e \in Editors, Rotate(e) PROVE FailingIsDisabled'
  BY <1>2, WebhooksAssumption DEF Rotate, Goto
<1>3. ASSUME NEW e \in Editors, Update(e) PROVE FailingIsDisabled'
  <2>1. copy[e] \in Copies /\ row \in Rows \cup {NoRow}
    BY <1>3 DEF Update
  <2>2. CASE row = NoRow
    BY <1>3, <2>2 DEF Update, Written
  <2>3. CASE row # NoRow
    <3>1. row'.failures = row.failures /\ row'.enabled = copy[e].enabled /\ row \in Rows
      BY <1>3, <2>1, <2>3 DEF Update, Written
    <3>2. SUFFICES ASSUME row'.failures >= MaxFailures, row'.enabled, ~slipped'
                   PROVE  \E d \in Deliveries : pc'[d] \in {"recheck", "disable"}
      OBVIOUS
    <3>3. ~slipped /\ row.enabled
      BY <1>3, <2>3, <3>1, <3>2 DEF Update
    <3>4. PICK d \in Deliveries : pc[d] \in {"recheck", "disable"}
      BY <2>3, <3>1, <3>2, <3>3
    <3>5. d # e
      BY WebhooksAssumption
    <3>. QED  BY <1>3, <3>4, <3>5 DEF Update, Return, Goto
  <2>. QED  BY <2>2, <2>3
<1>4. ASSUME NEW e \in Editors, Delete(e) PROVE FailingIsDisabled'
  BY <1>4, WebhooksAssumption DEF Delete, callVars
<1>5. ASSUME NEW d \in Deliveries, Deliver(d) PROVE FailingIsDisabled'
  BY <1>5, WebhooksAssumption DEF Deliver, Start, Goto
<1>6. ASSUME NEW d \in Deliveries, RetryDelivery(d) PROVE FailingIsDisabled'
  BY <1>6, WebhooksAssumption DEF RetryDelivery, Start, Goto
<1>7. ASSUME NEW d \in Deliveries, Send(d) PROVE FailingIsDisabled'
  BY <1>7, WebhooksAssumption DEF Send, Goto
<1>8. ASSUME NEW d \in Deliveries, Record(d) PROVE FailingIsDisabled'
  BY <1>8, WebhooksAssumption DEF Record, Goto
<1>9. ASSUME NEW d \in Deliveries, Reset(d) PROVE FailingIsDisabled'
  BY <1>9, WebhooksAssumption DEF Reset, Return, Goto
<1>10. ASSUME NEW d \in Deliveries, Count(d) PROVE FailingIsDisabled'
  BY <1>10, WebhooksAssumption DEF Count, Goto
<1>11. ASSUME NEW d \in Deliveries, Recheck(d) PROVE FailingIsDisabled'
  BY <1>11, WebhooksAssumption DEF Recheck, Return, Goto
<1>12. ASSUME NEW d \in Deliveries, Disable(d) PROVE FailingIsDisabled'
  BY <1>12, WebhooksAssumption DEF Disable, Written, Return, Goto
<1>13. ASSUME NEW d \in Deliveries, Fail(d) PROVE FailingIsDisabled'
  BY <1>13, WebhooksAssumption DEF Fail, Return, Goto
<1>14. CASE Crash
  BY <1>14, WebhooksAssumption DEF Crash
<1>15. CASE GoDown
  BY <1>15, WebhooksAssumption DEF GoDown, callVars
<1>16. CASE UNCHANGED vars
  BY <1>16 DEF vars, callVars
<1>. QED  BY <1>1, <1>2, <1>3, <1>4, <1>5, <1>6, <1>7, <1>8, <1>9, <1>10, <1>11, <1>12,
          <1>13, <1>14, <1>15, <1>16 DEF Next, Run

\* An enabled webhook that has failed too often is being looked at, or slipped.
THEOREM FailingIsAlwaysDisabled == Spec => []FailingIsDisabled
<1>1. Init => FailingIsDisabled
  BY WebhooksAssumption DEF Init, FailingIsDisabled, Failing
<1>2. TypeInv /\ FailingIsDisabled /\ [Next]_vars => FailingIsDisabled'
  BY FailingStep
<1>. QED  BY <1>1, <1>2, TypeInvariant, PTL DEF Spec

=============================================================================
