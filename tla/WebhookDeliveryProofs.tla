------------------------ MODULE WebhookDeliveryProofs ------------------------
(***************************************************************************)
(* Theorems about WebhookDelivery for every set of dispatchers, endpoints  *)
(* and events, every WEBHOOK_MAX_ATTEMPTS and any number of faults.        *)
(***************************************************************************)
EXTENDS WebhookDelivery, FiniteSetTheorems, TLAPS

(***************************************************************************)
(* Type correctness.                                                       *)
(***************************************************************************)

Operations == {"idle", "publish", "claim", "post", "complete", "fail"}
Statuses   == {"none"} \union Open \union Settled

LEMMA InitType == Init => TypeOK
BY WebhookAssumption DEF Init, TypeOK

\* What Record leaves is a row again.
LEMMA RecordType ==
    ASSUME TypeOK, NEW p \in Dispatchers, NEW d \in Deliveries,
           NEW s \in Statuses, Record(p, d, s)
    PROVE  /\ status' \in [Deliveries -> Statuses]
           /\ claim' \in [Deliveries -> Dispatchers \union {Nobody}]
           /\ lapsed' \in [Deliveries -> BOOLEAN]
BY DEF TypeOK, Record, Statuses

LEMMA ControlType ==
    ASSUME TypeOK, NEW p \in Dispatchers, NEW d \in Deliveries \union {Nobody},
           NEW op \in Operations, Goto(p, op),
           current' = [current EXCEPT ![p] = d],
           op \in {"complete", "fail"} <=> d # Nobody
    PROVE  /\ pc' \in [Dispatchers -> Operations]
           /\ current' \in [Dispatchers -> Deliveries \union {Nobody}]
           /\ \A q \in Dispatchers :
                pc'[q] \in {"complete", "fail"} <=> current'[q] # Nobody
BY DEF TypeOK, Goto, Operations

LEMMA NamesOfStatus ==
    /\ {"none", "PENDING", "DELIVERED"} \subseteq Statuses
    /\ \A n \in Nat : FailedStatus(n) \in {"RETRY", "DEAD_LETTER"}
    /\ {"RETRY", "DEAD_LETTER"} \subseteq Statuses
BY DEF Statuses, Open, Settled, FailedStatus

\* The steps that say nothing of who is at work on what.
LEMMA EnvironmentType ==
    ASSUME TypeOK,
           \/ \E n \in Endpoints : CreateEndpoint(n) \/ DisableEndpoint(n)
           \/ \E e \in Events : Emit(e)
           \/ \E d \in Deliveries : LeaseLapses(d)
    PROVE  TypeOK'
<1>1. ASSUME NEW n \in Endpoints, CreateEndpoint(n) \/ DisableEndpoint(n)
      PROVE  TypeOK'
  BY <1>1 DEF TypeOK, CreateEndpoint, DisableEndpoint, localVars, history
<1>2. ASSUME NEW e \in Events, Emit(e) PROVE TypeOK'
  BY <1>2 DEF TypeOK, Emit, localVars
<1>3. ASSUME NEW d \in Deliveries, LeaseLapses(d) PROVE TypeOK'
  <2>1. faults' \in 0..MaxFaults
    BY <1>3, WebhookAssumption DEF TypeOK, LeaseLapses, Fault, NoFault
  <2> QED BY <1>3, <2>1 DEF TypeOK, LeaseLapses, localVars, history
<1> QED BY <1>1, <1>2, <1>3

\* The steps of a dispatcher.
LEMMA DispatcherType ==
    ASSUME TypeOK, NEW p \in Dispatchers, PollStep(p) \/ AbortPoll(p)
    PROVE  TypeOK'
<1> DEFINE ControlTypeOK ==
      /\ pc \in [Dispatchers -> Operations]
      /\ current \in [Dispatchers -> Deliveries \union {Nobody}]
      /\ \A q \in Dispatchers :
           pc[q] \in {"complete", "fail"} <=> current[q] # Nobody
<1>1. ASSUME NEW op \in {"idle", "publish", "claim", "post"}, Goto(p, op),
             \/ current' = [current EXCEPT ![p] = Nobody]
             \/ UNCHANGED current /\ pc[p] \notin {"complete", "fail"}
      PROVE  ControlTypeOK'
  BY <1>1 DEF TypeOK, Goto, Operations
<1>2. faults \in 0..MaxFaults
  BY DEF TypeOK
<1>3. CASE InsertDeliveries(p)
  <2>1. ControlTypeOK'
    BY <1>1, <1>3 DEF InsertDeliveries
  <2> QED BY <1>3, <2>1
          DEF TypeOK, InsertDeliveries, Matching, rowVars, history, Operations
<1>4. CASE PublishEvents(p)
  <2>1. ControlTypeOK'
    BY <1>1, <1>4 DEF PublishEvents
  <2>2. status' \in [Deliveries -> Statuses]
    BY <1>4 DEF TypeOK, PublishEvents, Statuses, Open
  <2> QED BY <1>4, <2>1, <2>2
          DEF TypeOK, PublishEvents, history, Operations, Statuses
<1>5. CASE ClaimDeliveries(p)
  <2>1. PICK found \in SUBSET Claimable :
         /\ claim' = [d \in Deliveries |-> IF d \in found THEN p ELSE claim[d]]
         /\ lapsed' = [d \in Deliveries |-> lapsed[d] /\ d \notin found]
         /\ attempt' = [d \in Deliveries |->
                IF d \in found THEN attempt[d] + 1 ELSE attempt[d]]
         /\ batch' = [batch EXCEPT ![p] = found]
         /\ Goto(p, IF found = {} THEN "idle" ELSE "post")
    BY <1>5 DEF ClaimDeliveries
  <2>2. ControlTypeOK'
    BY <1>1, <1>5, <2>1 DEF ClaimDeliveries
  <2>3. claim' \in [Deliveries -> Dispatchers \union {Nobody}]
        /\ lapsed' \in [Deliveries -> BOOLEAN]
    BY <2>1 DEF TypeOK
  <2>4. attempt' \in [Deliveries -> Nat]
    BY <2>1 DEF TypeOK
  <2>5. batch' \in [Dispatchers -> SUBSET Deliveries]
    BY <2>1 DEF TypeOK, Claimable
  <2> QED BY <1>5, <2>2, <2>3, <2>4, <2>5
          DEF TypeOK, ClaimDeliveries, history, Operations
<1>6. CASE Post(p)
  <2>1. PICK d \in batch[p] :
         /\ current' = [current EXCEPT ![p] = d]
         /\ batch' = [batch EXCEPT ![p] = batch[p] \ {d}]
         /\ \/ UNCHANGED posts \/ posts' = [posts EXCEPT ![d] = posts[d] + 1]
         /\ \/ UNCHANGED accepted
            \/ accepted' = [accepted EXCEPT ![d] = accepted[d] + 1]
         /\ Goto(p, "fail") \/ Goto(p, "complete")
    BY <1>6 DEF Post
  <2>2. d \in Deliveries /\ d # Nobody
    BY WebhookAssumption DEF TypeOK
  <2>3. ControlTypeOK'
    BY <2>1, <2>2, ControlType DEF Operations
  <2>4. posts' \in [Deliveries -> Nat] /\ accepted' \in [Deliveries -> Nat]
    BY <2>1, <2>2 DEF TypeOK
  <2>5. batch' \in [Dispatchers -> SUBSET Deliveries]
    BY <2>1 DEF TypeOK
  <2> QED BY <1>6, <2>3, <2>4, <2>5 DEF TypeOK, Post, rowVars, Operations
<1>7. CASE Complete(p)
  <2>1. current[p] \in Deliveries
    BY <1>7 DEF TypeOK, Complete
  <2>2. /\ status' \in [Deliveries -> Statuses]
        /\ claim' \in [Deliveries -> Dispatchers \union {Nobody}]
        /\ lapsed' \in [Deliveries -> BOOLEAN]
    <3>1. CASE Record(p, current[p], "DELIVERED")
      BY <2>1, <3>1, RecordType, NamesOfStatus
    <3>2. CASE UNCHANGED <<status, claim, lapsed>>
      BY <3>2 DEF TypeOK, Statuses
    <3> QED BY <1>7, <3>1, <3>2 DEF Complete
  <2>3. faults' \in 0..MaxFaults
    BY <1>2, <1>7, WebhookAssumption DEF Complete, Fault, NoFault
  <2>4. ControlTypeOK'
    <3>1. CASE NextDelivery(p)
      BY <1>1, <3>1 DEF NextDelivery
    <3>2. CASE Goto(p, "fail") /\ UNCHANGED current
      BY <1>7, <3>2 DEF Complete, TypeOK, Goto, Operations
    <3> QED BY <1>7, <3>1, <3>2 DEF Complete
  <2> QED BY <1>7, <2>2, <2>3, <2>4
          DEF TypeOK, Complete, history, Operations, Statuses
<1>8. CASE Fail(p)
  <2>1. current[p] \in Deliveries
    BY <1>8 DEF TypeOK, Fail
  <2>2. FailedStatus(attempt[current[p]]) \in Statuses
    BY <2>1, NamesOfStatus DEF TypeOK
  <2>3. /\ status' \in [Deliveries -> Statuses]
        /\ claim' \in [Deliveries -> Dispatchers \union {Nobody}]
        /\ lapsed' \in [Deliveries -> BOOLEAN]
    BY <1>8, <2>1, <2>2, RecordType DEF Fail
  <2>4. ControlTypeOK'
    BY <1>1, <1>8 DEF Fail, NextDelivery
  <2> QED BY <1>8, <2>3, <2>4 DEF TypeOK, Fail, history, Operations, Statuses
<1>9. CASE AbortPoll(p)
  <2>1. ControlTypeOK'
    BY <1>1, <1>9 DEF AbortPoll
  <2>2. faults' \in 0..MaxFaults
    BY <1>2, <1>9, WebhookAssumption DEF AbortPoll, Fault
  <2> QED BY <1>9, <2>1, <2>2 DEF TypeOK, AbortPoll, rowVars, history, Operations
<1> QED BY <1>3, <1>4, <1>5, <1>6, <1>7, <1>8, <1>9 DEF PollStep

LEMMA TypeInvariant == TypeOK /\ [Next]_vars => TypeOK'
<1> SUFFICES ASSUME TypeOK, [Next]_vars PROVE TypeOK'
  OBVIOUS
<1>1. CASE UNCHANGED vars
  BY <1>1 DEF vars, rowVars, localVars, history, TypeOK
<1> QED BY <1>1, EnvironmentType, DispatcherType DEF Next

\* Every reachable state of the webhook delivery is well typed.
THEOREM TypeCorrect == Spec => []TypeOK
BY InitType, TypeInvariant, PTL DEF Spec

(***************************************************************************)
(* The rows: a claimed row is open, and an open transaction inserts rows   *)
(* that nobody has and nobody else inserts.                                *)
(***************************************************************************)

RowInv ==
    /\ \A d \in Deliveries :
        /\ claim[d] # Nobody => status[d] \in Open
        /\ status[d] = "none" => attempt[d] = 0
    /\ \A p \in Dispatchers : \A d \in inserted[p] :
        /\ status[d] = "none" /\ pc[p] = "publish"
        /\ \A q \in Dispatchers : d \in inserted[q] => q = p
    /\ \A p \in Dispatchers :
        /\ batch[p] # {} => pc[p] \in {"post", "complete", "fail"}
        /\ current[p] \notin batch[p]

LEMMA InitRows == Init => RowInv
BY WebhookAssumption DEF Init, RowInv, Open

\* The three ways Complete and Fail leave the row in hand.
LEMMA RecordShape ==
    ASSUME TypeOK, RowInv, NEW p \in Dispatchers, NEW d \in Deliveries, NEW s,
           Record(p, d, s)
    PROVE  \/ /\ claim[d] = p /\ status[d] \in Open
              /\ status' = [status EXCEPT ![d] = s]
              /\ claim' = [claim EXCEPT ![d] = Nobody]
              /\ lapsed' = [lapsed EXCEPT ![d] = FALSE]
           \/ claim[d] # p /\ UNCHANGED <<status, claim, lapsed>>
BY WebhookAssumption DEF Record, HoldsClaim, RowInv

\* Complete and Fail say: the row in hand is recorded or left alone, and the
\* dispatcher goes on to the next delivery or, after an exception, to Fail.
LEMMA OutcomeShape ==
    ASSUME TypeOK, NEW p \in Dispatchers, Complete(p) \/ Fail(p)
    PROVE  /\ current[p] \in Deliveries /\ pc[p] \in {"complete", "fail"}
           /\ \/ UNCHANGED <<status, claim, lapsed>>
              \/ Complete(p) /\ Record(p, current[p], "DELIVERED")
              \/ Fail(p) /\ Record(p, current[p], FailedStatus(attempt[current[p]]))
           /\ \/ /\ Goto(p, IF batch[p] = {} THEN "idle" ELSE "post")
                 /\ current' = [current EXCEPT ![p] = Nobody]
                 /\ faults' = faults
              \/ Complete(p) /\ Goto(p, "fail") /\ UNCHANGED current
                 /\ faults' = faults + 1
           /\ UNCHANGED <<endpoint, emitted, published, attempt, inserted, batch,
                          history>>
<1>1. current[p] \in Deliveries /\ pc[p] \in {"complete", "fail"}
  BY DEF Complete, Fail, TypeOK
<1> QED BY <1>1, Zenon DEF Complete, Fail, NextDelivery, Fault, NoFault

LEMMA RowStep == TypeOK /\ RowInv /\ [Next]_vars => RowInv'
<1> SUFFICES ASSUME TypeOK, RowInv, [Next]_vars PROVE RowInv'
  OBVIOUS
<1>1. CASE UNCHANGED <<status, attempt, claim, localVars>>
  BY <1>1 DEF RowInv, localVars
<1>2. ASSUME NEW p \in Dispatchers, InsertDeliveries(p) PROVE RowInv'
  <2>1. /\ pc[p] = "idle" /\ pc' = [pc EXCEPT ![p] = "publish"]
        /\ inserted' = [inserted EXCEPT ![p] = {d \in Matching : status[d] = "none"}]
        /\ \A q \in Dispatchers : inserted[q] \intersect Matching = {}
        /\ UNCHANGED <<status, attempt, claim, batch, current>>
    BY <1>2 DEF InsertDeliveries, Goto, rowVars
  <2> QED BY <2>1 DEF RowInv, TypeOK, Matching
<1>3. ASSUME NEW p \in Dispatchers, PublishEvents(p) PROVE RowInv'
  <2>1. /\ pc[p] = "publish" /\ pc' = [pc EXCEPT ![p] = "claim"]
        /\ inserted' = [inserted EXCEPT ![p] = {}]
        /\ status' = [d \in Deliveries |->
                IF d \in inserted[p] THEN "PENDING" ELSE status[d]]
        /\ UNCHANGED <<attempt, claim, batch, current>>
    BY <1>3 DEF PublishEvents, Goto
  <2>2. ASSUME NEW d \in Deliveries
        PROVE  /\ claim'[d] # Nobody => status'[d] \in Open
               /\ status'[d] = "none" => attempt'[d] = 0
    BY <2>1 DEF RowInv, Open
  <2>3. ASSUME NEW q \in Dispatchers, NEW d \in inserted'[q]
        PROVE  /\ status'[d] = "none" /\ pc'[q] = "publish"
               /\ \A r \in Dispatchers : d \in inserted'[r] => r = q
    BY <2>1 DEF RowInv, TypeOK
  <2>4. ASSUME NEW q \in Dispatchers
        PROVE  /\ batch'[q] # {} => pc'[q] \in {"post", "complete", "fail"}
               /\ current'[q] \notin batch'[q]
    BY <2>1 DEF RowInv, TypeOK
  <2> QED BY <2>2, <2>3, <2>4 DEF RowInv
<1>4. ASSUME NEW p \in Dispatchers, ClaimDeliveries(p) PROVE RowInv'
  <2>1. PICK found \in SUBSET Claimable :
         /\ claim' = [d \in Deliveries |-> IF d \in found THEN p ELSE claim[d]]
         /\ attempt' = [d \in Deliveries |->
                IF d \in found THEN attempt[d] + 1 ELSE attempt[d]]
         /\ batch' = [batch EXCEPT ![p] = found]
         /\ pc' = [pc EXCEPT ![p] = IF found = {} THEN "idle" ELSE "post"]
    BY <1>4 DEF ClaimDeliveries, Goto
  <2>2. pc[p] = "claim" /\ UNCHANGED <<status, inserted, current>>
    BY <1>4 DEF ClaimDeliveries
  <2>3. \A d \in found : status[d] \in Open
    BY DEF Claimable
  <2>4. current[p] \notin found
    BY <2>2, WebhookAssumption DEF TypeOK, Claimable
  <2>5. ASSUME NEW d \in Deliveries
        PROVE  /\ claim'[d] # Nobody => status'[d] \in Open
               /\ status'[d] = "none" => attempt'[d] = 0
    BY <2>1, <2>2, <2>3 DEF RowInv, Open
  <2>6. ASSUME NEW q \in Dispatchers, NEW d \in inserted'[q]
        PROVE  /\ status'[d] = "none" /\ pc'[q] = "publish"
               /\ \A r \in Dispatchers : d \in inserted'[r] => r = q
    BY <2>1, <2>2 DEF RowInv, TypeOK
  <2>7. ASSUME NEW q \in Dispatchers
        PROVE  /\ batch'[q] # {} => pc'[q] \in {"post", "complete", "fail"}
               /\ current'[q] \notin batch'[q]
    BY <2>1, <2>2, <2>4 DEF RowInv, TypeOK
  <2> QED BY <2>5, <2>6, <2>7 DEF RowInv
<1>5. ASSUME NEW p \in Dispatchers, Post(p) PROVE RowInv'
  <2>1. PICK d \in batch[p] :
         /\ current' = [current EXCEPT ![p] = d]
         /\ batch' = [batch EXCEPT ![p] = batch[p] \ {d}]
         /\ pc' = [pc EXCEPT ![p] = "fail"] \/ pc' = [pc EXCEPT ![p] = "complete"]
    BY <1>5 DEF Post, Goto
  <2>2. pc[p] = "post" /\ UNCHANGED <<status, attempt, claim, inserted>>
    BY <1>5 DEF Post, rowVars
  <2> QED BY <2>1, <2>2 DEF RowInv, TypeOK
<1>6. ASSUME NEW p \in Dispatchers, Complete(p) \/ Fail(p) PROVE RowInv'
  <2>1. /\ current[p] \in Deliveries /\ pc[p] \in {"complete", "fail"}
        /\ UNCHANGED <<attempt, inserted, batch>>
    BY <1>6, OutcomeShape
  <2>2. \/ UNCHANGED <<status, claim>>
        \/ \E s \in {"DELIVERED", "RETRY", "DEAD_LETTER"} :
            /\ status[current[p]] \in Open
            /\ status' = [status EXCEPT ![current[p]] = s]
            /\ claim' = [claim EXCEPT ![current[p]] = Nobody]
    <3>1. FailedStatus(attempt[current[p]]) \in {"RETRY", "DEAD_LETTER"}
      BY <2>1, NamesOfStatus DEF TypeOK
    <3> QED BY <1>6, <2>1, <3>1, OutcomeShape, RecordShape
  <2>3. ASSUME NEW d \in Deliveries
        PROVE  /\ claim'[d] # Nobody => status'[d] \in Open
               /\ status'[d] = "none" => attempt'[d] = 0 /\ status[d] = "none"
               /\ status[d] = "none" => status'[d] = "none"
    BY <2>1, <2>2 DEF RowInv, TypeOK, Open
  <2>4. \/ /\ pc' = [pc EXCEPT ![p] = IF batch[p] = {} THEN "idle" ELSE "post"]
           /\ current' = [current EXCEPT ![p] = Nobody]
        \/ pc' = [pc EXCEPT ![p] = "fail"] /\ UNCHANGED current
    BY <1>6, OutcomeShape DEF Goto
  <2>5. ASSUME NEW q \in Dispatchers, NEW d \in inserted'[q]
        PROVE  /\ status'[d] = "none" /\ pc'[q] = "publish"
               /\ \A r \in Dispatchers : d \in inserted'[r] => r = q
    BY <2>1, <2>3, <2>4 DEF RowInv, TypeOK
  <2>6. ASSUME NEW q \in Dispatchers
        PROVE  /\ batch'[q] # {} => pc'[q] \in {"post", "complete", "fail"}
               /\ current'[q] \notin batch'[q]
    BY <2>1, <2>4, WebhookAssumption DEF RowInv, TypeOK
  <2> QED BY <2>3, <2>5, <2>6 DEF RowInv
<1>7. ASSUME NEW p \in Dispatchers, AbortPoll(p) PROVE RowInv'
  BY <1>7, WebhookAssumption DEF AbortPoll, Goto, RowInv, TypeOK, rowVars
<1>8. ASSUME NEW n \in Endpoints, CreateEndpoint(n) \/ DisableEndpoint(n)
      PROVE  RowInv'
  BY <1>1, <1>8 DEF CreateEndpoint, DisableEndpoint
<1>9. ASSUME NEW e \in Events, Emit(e) PROVE RowInv'
  BY <1>1, <1>9 DEF Emit
<1>10. ASSUME NEW d \in Deliveries, LeaseLapses(d) PROVE RowInv'
  BY <1>1, <1>10 DEF LeaseLapses
<1>11. CASE UNCHANGED vars
  BY <1>1, <1>11 DEF vars, rowVars
<1> QED BY <1>2, <1>3, <1>4, <1>5, <1>6, <1>7, <1>8, <1>9, <1>10, <1>11
        DEF Next, PollStep

(***************************************************************************)
(* Outcomes: earned, and final.                                            *)
(***************************************************************************)

\* What a step may do to rows, whoever takes it: nothing to a settled row; a
\* row becomes DELIVERED in the hand of a dispatcher that was answered 2xx,
\* and DEAD_LETTER on its last attempt.
RowsMove ==
    \A d \in Deliveries :
        /\ status[d] \in Settled =>
              status'[d] = status[d] /\ attempt'[d] = attempt[d]
        /\ status'[d] = "DELIVERED" => status[d] = "DELIVERED"
              \/ \E p \in Dispatchers : pc[p] = "complete" /\ current[p] = d
        /\ status'[d] = "DEAD_LETTER" => status[d] = "DEAD_LETTER"
              \/ attempt[d] >= MaxAttempts
        /\ attempt'[d] >= attempt[d] /\ accepted'[d] >= accepted[d]

LEMMA RowsMoveStep == TypeOK /\ RowInv /\ [Next]_vars => RowsMove
<1> SUFFICES ASSUME TypeOK, RowInv, [Next]_vars PROVE RowsMove
  OBVIOUS
<1>1. ASSUME NEW d \in Deliveries
      PROVE  attempt[d] \in Nat /\ accepted[d] \in Nat /\ status[d] \in Statuses
  BY DEF TypeOK, Statuses
<1>2. CASE UNCHANGED <<status, attempt, accepted>>
  BY <1>1, <1>2 DEF RowsMove
<1>3. ASSUME NEW p \in Dispatchers, PublishEvents(p) PROVE RowsMove
  <2>1. /\ UNCHANGED <<attempt, accepted>>
        /\ status' = [d \in Deliveries |->
                IF d \in inserted[p] THEN "PENDING" ELSE status[d]]
    BY <1>3 DEF PublishEvents, history
  <2> QED BY <1>1, <2>1 DEF RowsMove, RowInv, Settled
<1>4. ASSUME NEW p \in Dispatchers, ClaimDeliveries(p) PROVE RowsMove
  <2>1. PICK found \in SUBSET Claimable :
         attempt' = [d \in Deliveries |->
                IF d \in found THEN attempt[d] + 1 ELSE attempt[d]]
    BY <1>4 DEF ClaimDeliveries
  <2>2. UNCHANGED <<status, accepted>>
    BY <1>4 DEF ClaimDeliveries, history
  <2>3. \A d \in found : status[d] \notin Settled
    BY DEF Claimable, Open, Settled
  <2> QED BY <1>1, <2>1, <2>2, <2>3 DEF RowsMove
<1>5. ASSUME NEW p \in Dispatchers, Post(p) PROVE RowsMove
  <2>1. PICK d \in batch[p] :
         \/ UNCHANGED accepted
         \/ accepted' = [accepted EXCEPT ![d] = accepted[d] + 1]
    BY <1>5 DEF Post
  <2>2. UNCHANGED <<status, attempt>>
    BY <1>5 DEF Post, rowVars
  <2>3. \A e \in Deliveries : accepted'[e] >= accepted[e]
    BY <1>1, <2>1 DEF TypeOK
  <2> QED BY <1>1, <2>2, <2>3 DEF RowsMove
<1>6. ASSUME NEW p \in Dispatchers, Complete(p) \/ Fail(p) PROVE RowsMove
  <2>1. /\ current[p] \in Deliveries /\ UNCHANGED <<attempt, accepted>>
        /\ Complete(p) => pc[p] = "complete"
    BY <1>6, OutcomeShape DEF history, Complete
  <2>2. \/ UNCHANGED status
        \/ \E s \in {"DELIVERED", "RETRY", "DEAD_LETTER"} :
            /\ status[current[p]] \in Open
            /\ status' = [status EXCEPT ![current[p]] = s]
            /\ s = "DELIVERED" => pc[p] = "complete"
            /\ s = "DEAD_LETTER" => attempt[current[p]] >= MaxAttempts
    <3>1. FailedStatus(attempt[current[p]]) = "DEAD_LETTER"
             => attempt[current[p]] >= MaxAttempts
      BY DEF FailedStatus
    <3>2. FailedStatus(attempt[current[p]]) \in {"RETRY", "DEAD_LETTER"}
      BY <2>1, NamesOfStatus DEF TypeOK
    <3>3. CASE Complete(p) /\ Record(p, current[p], "DELIVERED")
      BY <2>1, <3>3, RecordShape
    <3>4. CASE Record(p, current[p], FailedStatus(attempt[current[p]]))
      BY <2>1, <3>1, <3>2, <3>4, RecordShape
    <3> QED BY <1>6, <3>3, <3>4, OutcomeShape
  <2> QED BY <1>1, <2>1, <2>2 DEF RowsMove, Open, Settled, TypeOK
<1> QED BY <1>2, <1>3, <1>4, <1>5, <1>6
        DEF Next, PollStep, InsertDeliveries, AbortPoll, CreateEndpoint,
            DisableEndpoint, Emit, LeaseLapses, vars, rowVars, history

\* A dispatcher about to record a delivery has been answered 2xx.
OutcomeInv ==
    /\ OutcomeIsEarned
    /\ \A p \in Dispatchers : pc[p] = "complete" => accepted[current[p]] > 0

LEMMA InitOutcome == Init => OutcomeInv
BY DEF Init, OutcomeInv, OutcomeIsEarned

\* A dispatcher is about to record d after the step only if it was before or
\* has just been answered 2xx.
LEMMA CompletingStep ==
    ASSUME TypeOK, [Next]_vars, NEW p \in Dispatchers, pc'[p] = "complete"
    PROVE  \/ pc[p] = "complete" /\ current'[p] = current[p]
           \/ /\ pc[p] = "post" /\ current'[p] \in batch[p]
              /\ accepted' = [accepted EXCEPT
                    ![current'[p]] = accepted[current'[p]] + 1]
<1>1. CASE UNCHANGED <<pc, current>>
  BY <1>1
<1>2. ASSUME NEW q \in Dispatchers, Post(q)
      PROVE  \/ p # q /\ pc'[p] = pc[p] /\ current'[p] = current[p]
             \/ /\ p = q /\ pc[p] = "post" /\ current'[p] \in batch[p]
                /\ accepted' = [accepted EXCEPT
                      ![current'[p]] = accepted[current'[p]] + 1]
  BY <1>2 DEF Post, Goto, TypeOK
<1>3. ASSUME NEW q \in Dispatchers,
             \/ InsertDeliveries(q) \/ PublishEvents(q) \/ ClaimDeliveries(q)
             \/ Complete(q) \/ Fail(q) \/ AbortPoll(q)
      PROVE  p # q /\ pc'[p] = pc[p] /\ current'[p] = current[p]
  BY <1>3
     DEF InsertDeliveries, PublishEvents, ClaimDeliveries, Complete, Fail,
         NextDelivery, AbortPoll, Goto, TypeOK
<1> QED BY <1>1, <1>2, <1>3
        DEF Next, PollStep, CreateEndpoint, DisableEndpoint, Emit, LeaseLapses,
            vars, localVars

LEMMA OutcomeStep == TypeOK /\ RowInv /\ OutcomeInv /\ [Next]_vars => OutcomeInv'
<1> SUFFICES ASSUME TypeOK, RowInv, OutcomeInv, [Next]_vars PROVE OutcomeInv'
  OBVIOUS
<1>1. RowsMove /\ TypeOK'
  BY RowsMoveStep, TypeInvariant
<1>2. ASSUME NEW d \in Deliveries
      PROVE  /\ attempt[d] \in Nat /\ attempt'[d] \in Nat /\ MaxAttempts \in Nat
             /\ accepted[d] \in Nat /\ accepted'[d] \in Nat
  BY <1>1, WebhookAssumption DEF TypeOK
<1>3. OutcomeIsEarned'
  BY <1>1, <1>2 DEF RowsMove, OutcomeInv, OutcomeIsEarned
<1>4. ASSUME NEW p \in Dispatchers, pc'[p] = "complete"
      PROVE  accepted'[current'[p]] > 0
  <2>1. current'[p] \in Deliveries
    BY <1>1, <1>4 DEF TypeOK
  <2>2. CASE pc[p] = "complete" /\ current'[p] = current[p]
    BY <1>1, <1>2, <2>1, <2>2 DEF RowsMove, OutcomeInv
  <2>3. CASE accepted' = [accepted EXCEPT
                    ![current'[p]] = accepted[current'[p]] + 1]
    BY <1>2, <2>1, <2>3 DEF TypeOK
  <2> QED BY <1>4, <2>2, <2>3, CompletingStep
<1> QED BY <1>3, <1>4 DEF OutcomeInv

(***************************************************************************)
(* Events passed over: only those committed between the two statements.    *)
(***************************************************************************)

\* Between its two statements a dispatcher is about to insert every row that
\* an event it can see still lacks.
SkippedInv ==
    /\ OnlyRacedEventsSkipped
    /\ \A d \in due : endpoint[d[1]] # "absent" /\ d[2] \in emitted
    /\ \A p \in Dispatchers : \A d \in due :
        (pc[p] = "publish" /\ endpoint[d[1]] = "enabled" /\ d[2] \notin raced)
            => d \in inserted[p] \/ status[d] # "none" \/ d[2] \in published

LEMMA InitSkipped == Init => SkippedInv
BY DEF Init, SkippedInv, OnlyRacedEventsSkipped

LEMMA SkippedStep == TypeOK /\ RowInv /\ SkippedInv /\ [Next]_vars => SkippedInv'
<1> SUFFICES ASSUME TypeOK, RowInv, SkippedInv, [Next]_vars PROVE SkippedInv'
  OBVIOUS
<1>1. ASSUME NEW d \in due
      PROVE  d \in Deliveries /\ d[1] \in Endpoints /\ d[2] \in Events
  BY DEF TypeOK, Deliveries
\* Steps that neither create endpoints or rows nor open or close a
\* transaction.
<1>2. ASSUME UNCHANGED <<endpoint, emitted, published, due, raced>>,
             \A d \in Deliveries : status[d] # "none" => status'[d] # "none",
             \A p \in Dispatchers : pc'[p] = "publish" =>
                 pc[p] = "publish" /\ inserted'[p] = inserted[p]
      PROVE  SkippedInv'
  BY <1>1, <1>2 DEF SkippedInv, OnlyRacedEventsSkipped
<1>3. ASSUME NEW n \in Endpoints, CreateEndpoint(n) \/ DisableEndpoint(n)
      PROVE  SkippedInv'
  <2>1. UNCHANGED <<emitted, published, due, raced, status, pc, inserted>>
    BY <1>3 DEF CreateEndpoint, DisableEndpoint, localVars, history
  <2>2. \A d \in due : endpoint'[d[1]] # "absent"
            /\ (endpoint'[d[1]] = "enabled" => endpoint[d[1]] = "enabled")
    BY <1>1, <1>3 DEF CreateEndpoint, DisableEndpoint, TypeOK, SkippedInv
  <2> QED BY <2>1, <2>2 DEF SkippedInv, OnlyRacedEventsSkipped
<1>4. ASSUME NEW e \in Events, Emit(e) PROVE SkippedInv'
  <2>1. /\ e \notin emitted /\ emitted' = emitted \union {e}
        /\ due' = due \union {d \in Deliveries :
                             d[2] = e /\ endpoint[d[1]] = "enabled"}
        /\ raced' = IF \E p \in Dispatchers : pc[p] = "publish"
                    THEN raced \union {e} ELSE raced
        /\ UNCHANGED <<endpoint, published, status, pc, inserted>>
    BY <1>4 DEF Emit, localVars
  <2>2. e \notin published
    BY <2>1 DEF TypeOK
  <2>3. \A d \in due' : d \in due \/ (d[2] = e /\ endpoint[d[1]] = "enabled")
    BY <2>1
  <2>4. OnlyRacedEventsSkipped'
    BY <2>1, <2>2, <2>3 DEF SkippedInv, OnlyRacedEventsSkipped
  <2>5. \A d \in due' : endpoint'[d[1]] # "absent" /\ d[2] \in emitted'
    BY <2>1, <2>3 DEF SkippedInv
  <2>6. ASSUME NEW p \in Dispatchers, NEW d \in due', pc'[p] = "publish",
               endpoint'[d[1]] = "enabled", d[2] \notin raced'
        PROVE  d \in inserted'[p] \/ status'[d] # "none" \/ d[2] \in published'
    <3>1. d[2] # e /\ d[2] \notin raced
      BY <2>1, <2>6
    <3> QED BY <2>1, <2>3, <2>6, <3>1 DEF SkippedInv
  <2> QED BY <2>4, <2>5, <2>6 DEF SkippedInv
<1>5. ASSUME NEW p \in Dispatchers, InsertDeliveries(p) PROVE SkippedInv'
  <2>1. /\ pc' = [pc EXCEPT ![p] = "publish"]
        /\ inserted' = [inserted EXCEPT ![p] = {d \in Matching : status[d] = "none"}]
        /\ UNCHANGED <<endpoint, emitted, published, due, raced, status>>
    BY <1>5 DEF InsertDeliveries, Goto, rowVars, history
  <2>2. OnlyRacedEventsSkipped'
    BY <2>1 DEF SkippedInv, OnlyRacedEventsSkipped
  <2>3. ASSUME NEW q \in Dispatchers, NEW d \in due', pc'[q] = "publish",
               endpoint'[d[1]] = "enabled", d[2] \notin raced'
        PROVE  d \in inserted'[q] \/ status'[d] # "none" \/ d[2] \in published'
    <3>1. CASE q = p
      <4>1. d \in due /\ d \in Deliveries /\ d[2] \in emitted
        BY <1>1, <2>1 DEF SkippedInv
      <4>2. d \in Matching \/ d[2] \in published
        BY <2>1, <2>3, <4>1 DEF Matching
      <4> QED BY <2>1, <3>1, <4>2 DEF TypeOK
    <3>2. CASE q # p
      BY <2>1, <2>3, <3>2 DEF SkippedInv, TypeOK
    <3> QED BY <3>1, <3>2
  <2> QED BY <2>1, <2>2, <2>3 DEF SkippedInv
<1>6. ASSUME NEW p \in Dispatchers, PublishEvents(p) PROVE SkippedInv'
  <2>1. /\ pc[p] = "publish" /\ pc' = [pc EXCEPT ![p] = "claim"]
        /\ inserted' = [inserted EXCEPT ![p] = {}]
        /\ status' = [d \in Deliveries |->
                IF d \in inserted[p] THEN "PENDING" ELSE status[d]]
        /\ published' = emitted
        /\ UNCHANGED <<endpoint, emitted, due, raced>>
    BY <1>6 DEF PublishEvents, Goto, history
  <2>2. ASSUME NEW d \in due', d[2] \in published' \ raced',
               endpoint'[d[1]] = "enabled"
        PROVE  status'[d] # "none"
    <3>1. d \in inserted[p] \/ status[d] # "none"
      BY <2>1, <2>2 DEF SkippedInv, OnlyRacedEventsSkipped
    <3> QED BY <1>1, <2>1, <3>1
  <2>3. \A q \in Dispatchers : \A d \in due' : d[2] \in published'
    BY <2>1 DEF SkippedInv
  <2> QED BY <2>1, <2>2, <2>3 DEF SkippedInv, OnlyRacedEventsSkipped
<1>7. ASSUME NEW p \in Dispatchers, Complete(p) \/ Fail(p) PROVE SkippedInv'
  <2>1. UNCHANGED <<endpoint, emitted, published, inserted, due, raced>>
    BY <1>7, OutcomeShape DEF history
  <2>2. \A q \in Dispatchers : pc'[q] = "publish" => pc[q] = "publish"
    BY <1>7, OutcomeShape DEF Goto, TypeOK
  <2>3. UNCHANGED status
        \/ \E s \in {"DELIVERED", "RETRY", "DEAD_LETTER"} :
              status' = [status EXCEPT ![current[p]] = s]
    <3>1. current[p] \in Deliveries
          /\ FailedStatus(attempt[current[p]]) \in {"RETRY", "DEAD_LETTER"}
      BY <1>7, OutcomeShape, NamesOfStatus DEF TypeOK
    <3> QED BY <1>7, <3>1, OutcomeShape, RecordShape
  <2>4. \A d \in Deliveries : status[d] # "none" => status'[d] # "none"
    BY <2>3 DEF TypeOK
  <2> QED BY <1>2, <2>1, <2>2, <2>4
<1>8. ASSUME NEW p \in Dispatchers, ClaimDeliveries(p) \/ Post(p)
      PROVE  SkippedInv'
  <2>1. /\ UNCHANGED <<endpoint, emitted, published, inserted, due, raced, status>>
        /\ \A q \in Dispatchers : pc'[q] = "publish" => pc[q] = "publish"
    BY <1>8 DEF ClaimDeliveries, Post, Goto, TypeOK, rowVars, history
  <2> QED BY <1>2, <2>1
<1>9. ASSUME NEW p \in Dispatchers, AbortPoll(p) PROVE SkippedInv'
  <2>1. /\ UNCHANGED <<endpoint, emitted, published, due, raced, status>>
        /\ \A q \in Dispatchers : pc'[q] = "publish" =>
              pc[q] = "publish" /\ inserted'[q] = inserted[q]
    BY <1>9 DEF AbortPoll, Goto, TypeOK, rowVars, history
  <2> QED BY <1>2, <2>1
<1>10. ASSUME NEW d \in Deliveries, LeaseLapses(d) PROVE SkippedInv'
  BY <1>2, <1>10 DEF LeaseLapses, localVars, history
<1>11. CASE UNCHANGED vars
  BY <1>2, <1>11 DEF vars, rowVars, localVars, history
<1> QED BY <1>3, <1>4, <1>5, <1>6, <1>7, <1>8, <1>9, <1>10, <1>11
        DEF Next, PollStep

(***************************************************************************)
(* Without faults a claim is held exactly by the dispatcher at work.       *)
(***************************************************************************)

FaultlessInv ==
    faults = 0 => \A d \in Deliveries :
        /\ \A p \in Dispatchers : AtWork(p, d) <=> claim[d] = p
        /\ ~lapsed[d]
        /\ accepted[d] > 0 =>
              /\ accepted[d] = 1
              /\ \/ status[d] = "DELIVERED"
                 \/ \E p \in Dispatchers : pc[p] = "complete" /\ current[p] = d

LEMMA InitFaultless == Init => FaultlessInv
BY WebhookAssumption DEF Init, FaultlessInv, AtWork

LEMMA FaultlessStep ==
    TypeOK /\ RowInv /\ FaultlessInv /\ [Next]_vars => FaultlessInv'
<1> SUFFICES ASSUME TypeOK, RowInv, FaultlessInv, [Next]_vars, faults' = 0
             PROVE  FaultlessInv'
  BY DEF FaultlessInv
<1>1. CASE UNCHANGED <<claim, lapsed, accepted, status, pc, batch, current, faults>>
  BY <1>1 DEF FaultlessInv, AtWork
<1>2. faults \in Nat
  BY DEF TypeOK
<1>3. ASSUME faults = 0, NEW d \in Deliveries
      PROVE  /\ \A p \in Dispatchers : AtWork(p, d) <=> claim[d] = p
             /\ ~lapsed[d]
             /\ accepted[d] > 0 =>
                   /\ accepted[d] = 1
                   /\ \/ status[d] = "DELIVERED"
                      \/ \E p \in Dispatchers : pc[p] = "complete" /\ current[p] = d
  BY <1>3 DEF FaultlessInv
<1>4. ASSUME NEW p \in Dispatchers, InsertDeliveries(p) PROVE FaultlessInv'
  <2>1. /\ UNCHANGED <<claim, lapsed, accepted, status, batch, current, faults>>
        /\ \A q \in Dispatchers : pc[q] = "complete" => pc'[q] = "complete"
    BY <1>4 DEF InsertDeliveries, Goto, TypeOK, rowVars, history
  <2> QED BY <2>1 DEF FaultlessInv, AtWork
<1>5. ASSUME NEW p \in Dispatchers, PublishEvents(p) PROVE FaultlessInv'
  <2>1. /\ UNCHANGED <<claim, lapsed, accepted, batch, current, faults>>
        /\ \A q \in Dispatchers : pc[q] = "complete" => pc'[q] = "complete"
    BY <1>5 DEF PublishEvents, Goto, TypeOK, history
  <2>2. \A d \in Deliveries : status[d] = "DELIVERED" => status'[d] = "DELIVERED"
    BY <1>5 DEF PublishEvents, RowInv
  <2> QED BY <2>1, <2>2 DEF FaultlessInv, AtWork
<1>6. ASSUME NEW p \in Dispatchers, ClaimDeliveries(p) PROVE FaultlessInv'
  <2>1. PICK found \in SUBSET Claimable :
         /\ claim' = [d \in Deliveries |-> IF d \in found THEN p ELSE claim[d]]
         /\ lapsed' = [d \in Deliveries |-> lapsed[d] /\ d \notin found]
         /\ batch' = [batch EXCEPT ![p] = found]
         /\ pc' = [pc EXCEPT ![p] = IF found = {} THEN "idle" ELSE "post"]
    BY <1>6 DEF ClaimDeliveries, Goto
  <2>2. pc[p] = "claim" /\ UNCHANGED <<status, accepted, current, faults>>
    BY <1>6 DEF ClaimDeliveries, history
  <2>3. batch[p] = {} /\ current[p] = Nobody /\ faults = 0
    BY <2>2 DEF RowInv, TypeOK
  <2>4. ASSUME NEW d \in found
        PROVE  d \in Deliveries /\ claim[d] = Nobody /\ d # Nobody
    BY <1>3, <2>3, WebhookAssumption DEF Claimable
  <2>5. ASSUME NEW d \in Deliveries, NEW q \in Dispatchers
        PROVE  AtWork(q, d)' <=> claim'[d] = q
    <3>1. CASE q = p
      BY <1>3, <2>1, <2>2, <2>3, <2>4, <3>1, WebhookAssumption DEF AtWork, TypeOK
    <3>2. CASE q # p
      <4>1. AtWork(q, d)' <=> AtWork(q, d)
        BY <2>1, <2>2, <3>2 DEF AtWork, TypeOK
      <4>2. d \in found => claim[d] = Nobody /\ q # Nobody
        BY <2>4, WebhookAssumption
      <4> QED BY <1>3, <2>1, <2>3, <3>2, <4>1, <4>2
    <3> QED BY <3>1, <3>2
  <2>6. ASSUME NEW d \in Deliveries
        PROVE  /\ ~lapsed'[d]
               /\ accepted'[d] > 0 =>
                   /\ accepted'[d] = 1
                   /\ \/ status'[d] = "DELIVERED"
                      \/ \E q \in Dispatchers : pc'[q] = "complete" /\ current'[q] = d
    BY <1>3, <2>1, <2>2, <2>3 DEF TypeOK
  <2> QED BY <2>5, <2>6 DEF FaultlessInv
<1>7. ASSUME NEW p \in Dispatchers, Post(p) PROVE FaultlessInv'
  <2>1. PICK d \in batch[p] :
         /\ current' = [current EXCEPT ![p] = d]
         /\ batch' = [batch EXCEPT ![p] = batch[p] \ {d}]
         /\ \/ UNCHANGED accepted /\ pc' = [pc EXCEPT ![p] = "fail"]
            \/ /\ accepted' = [accepted EXCEPT ![d] = accepted[d] + 1]
               /\ pc' = [pc EXCEPT ![p] = "complete"]
    BY <1>7 DEF Post, Goto
  <2>2. pc[p] = "post" /\ UNCHANGED <<claim, lapsed, status, faults>>
    BY <1>7 DEF Post, rowVars
  <2>3. d \in Deliveries /\ d # Nobody /\ current[p] = Nobody /\ faults = 0
    BY <2>2, WebhookAssumption DEF TypeOK
  <2>4. claim[d] = p
    BY <1>3, <2>3 DEF AtWork
  <2>5. accepted[d] = 0
    <3>1. status[d] # "DELIVERED"
      BY <2>3, <2>4, WebhookAssumption DEF RowInv, Open
    <3>2. ASSUME NEW q \in Dispatchers, pc[q] = "complete", current[q] = d
          PROVE  FALSE
      BY <1>3, <2>2, <2>3, <2>4, <3>2 DEF AtWork
    <3>3. accepted[d] \in Nat
      BY <2>3 DEF TypeOK
    <3> QED BY <1>3, <2>3, <3>1, <3>2, <3>3
  <2>6. ASSUME NEW e \in Deliveries, NEW q \in Dispatchers
        PROVE  AtWork(q, e)' <=> claim'[e] = q
    <3>1. AtWork(q, e)' <=> AtWork(q, e)
      BY <2>1, <2>2, <2>3, WebhookAssumption DEF AtWork, TypeOK
    <3> QED BY <1>3, <2>2, <2>3, <3>1
  <2>7. ASSUME NEW e \in Deliveries, accepted'[e] > 0
        PROVE  /\ accepted'[e] = 1
               /\ \/ status'[e] = "DELIVERED"
                  \/ \E q \in Dispatchers : pc'[q] = "complete" /\ current'[q] = e
    <3>1. CASE e = d
      BY <2>1, <2>3, <2>5, <2>7, <3>1 DEF TypeOK
    <3>2. CASE e # d
      <4>1. accepted'[e] = accepted[e] /\ status'[e] = status[e]
        BY <2>1, <2>2, <3>2 DEF TypeOK
      <4>2. ASSUME NEW q \in Dispatchers, pc[q] = "complete", current[q] = e
            PROVE  pc'[q] = "complete" /\ current'[q] = e
        BY <2>1, <2>2, <4>2 DEF TypeOK
      <4> QED BY <1>3, <2>3, <2>7, <4>1, <4>2
    <3> QED BY <3>1, <3>2
  <2> QED BY <1>3, <2>2, <2>3, <2>6, <2>7 DEF FaultlessInv
<1>8. ASSUME NEW p \in Dispatchers, Complete(p) \/ Fail(p) PROVE FaultlessInv'
  <2>1. /\ current[p] \in Deliveries /\ UNCHANGED <<batch, accepted>>
        /\ pc[p] \in {"complete", "fail"} /\ faults = 0
        /\ pc' = [pc EXCEPT ![p] = IF batch[p] = {} THEN "idle" ELSE "post"]
        /\ current' = [current EXCEPT ![p] = Nobody]
    BY <1>2, <1>8, OutcomeShape DEF Goto, history
  <2>2. PICK d \in Deliveries : d = current[p]
    BY <2>1
  <2>3. claim[d] = p /\ d \notin batch[p]
    BY <1>3, <2>1, <2>2 DEF AtWork, RowInv
  <2>4. PICK s : /\ status' = [status EXCEPT ![d] = s]
                 /\ claim' = [claim EXCEPT ![d] = Nobody]
                 /\ lapsed' = [lapsed EXCEPT ![d] = FALSE]
                 /\ Complete(p) => s = "DELIVERED"
    BY <1>2, <1>8, <2>1, <2>2, <2>3
       DEF Complete, Fail, Fault, Record, HoldsClaim
  <2>5. ASSUME NEW e \in Deliveries, NEW q \in Dispatchers
        PROVE  AtWork(q, e)' <=> claim'[e] = q
    <3>1. CASE e = d
      <4>1. claim'[e] # q
        BY <2>4, <3>1, WebhookAssumption DEF TypeOK
      <4>2. ~AtWork(q, e)'
        BY <1>3, <2>1, <2>2, <2>3, <3>1, WebhookAssumption DEF AtWork, TypeOK
      <4> QED BY <4>1, <4>2
    <3>2. CASE e # d
      <4>1. claim'[e] = claim[e]
        BY <2>4, <3>2 DEF TypeOK
      <4>2. AtWork(q, e)' <=> AtWork(q, e)
        BY <2>1, <2>2, <3>2, WebhookAssumption DEF AtWork, TypeOK
      <4> QED BY <1>3, <2>1, <4>1, <4>2
    <3> QED BY <3>1, <3>2
  <2>6. ASSUME NEW e \in Deliveries PROVE ~lapsed'[e]
    BY <1>3, <2>1, <2>4 DEF TypeOK
  <2>7. ASSUME NEW e \in Deliveries, accepted'[e] > 0
        PROVE  /\ accepted'[e] = 1
               /\ \/ status'[e] = "DELIVERED"
                  \/ \E q \in Dispatchers : pc'[q] = "complete" /\ current'[q] = e
    <3>1. accepted[e] = 1
          /\ (status[e] = "DELIVERED"
                \/ \E q \in Dispatchers : pc[q] = "complete" /\ current[q] = e)
      BY <1>3, <2>1, <2>7
    <3>2. CASE e = d
      <4>1. status[e] # "DELIVERED"
        BY <2>3, <3>2, WebhookAssumption DEF RowInv, Open
      <4>2. PICK q \in Dispatchers : pc[q] = "complete" /\ current[q] = e
        BY <3>1, <4>1
      <4>3. q = p
        BY <1>3, <2>1, <2>3, <3>2, <4>2 DEF AtWork
      <4>4. Complete(p)
        BY <1>8, <4>2, <4>3 DEF Fail
      <4> QED BY <2>1, <2>4, <3>1, <3>2, <4>4 DEF TypeOK
    <3>3. CASE e # d
      <4>1. status'[e] = status[e]
        BY <2>4, <3>3 DEF TypeOK
      <4>2. ASSUME NEW q \in Dispatchers, pc[q] = "complete", current[q] = e
            PROVE  pc'[q] = "complete" /\ current'[q] = e
        BY <2>1, <2>2, <3>3, <4>2 DEF TypeOK
      <4> QED BY <2>1, <3>1, <4>1, <4>2
    <3> QED BY <3>2, <3>3
  <2> QED BY <2>5, <2>6, <2>7 DEF FaultlessInv
<1>9. ASSUME NEW d \in Deliveries, LeaseLapses(d) PROVE FALSE
  <2>1. AtWork(claim[d], d) => faults' = faults + 1
    BY <1>9 DEF LeaseLapses, Fault
  <2>2. ~AtWork(claim[d], d) => faults = 0
    BY <1>9 DEF LeaseLapses, NoFault
  <2>3. claim[d] \in Dispatchers
    BY <1>9 DEF LeaseLapses, TypeOK
  <2> QED BY <1>2, <1>3, <2>1, <2>2, <2>3
<1>10. ASSUME NEW p \in Dispatchers, AbortPoll(p) PROVE FALSE
  BY <1>2, <1>10 DEF AbortPoll, Fault
<1>11. ASSUME NEW n \in Endpoints, CreateEndpoint(n) \/ DisableEndpoint(n)
       PROVE  FaultlessInv'
  BY <1>1, <1>11 DEF CreateEndpoint, DisableEndpoint, localVars, history
<1>12. ASSUME NEW e \in Events, Emit(e) PROVE FaultlessInv'
  BY <1>1, <1>12 DEF Emit, localVars
<1>13. CASE UNCHANGED vars
  BY <1>1, <1>13 DEF vars, rowVars, localVars, history
<1> QED BY <1>4, <1>5, <1>6, <1>7, <1>8, <1>9, <1>10, <1>11, <1>12, <1>13
        DEF Next, PollStep

(***************************************************************************)
(* The retry budget.                                                       *)
(***************************************************************************)

\* The dispatchers that will still post a delivery under some claim.
Waiting(d) == {p \in Dispatchers : d \in batch[p]}

\* A claim pays for one POST.
PostsInv == \A d \in Deliveries : posts[d] + Cardinality(Waiting(d)) <= attempt[d]

\* An open unclaimed row has an attempt left, and a claim that nobody is at
\* work on any more, or that has run out, has cost a fault.
Overdue(d) == claim[d] # Nobody /\ (lapsed[d] \/ ~AtWork(claim[d], d))

DueInv ==
    \A d \in Deliveries :
        /\ attempt[d] <= MaxAttempts + faults
        /\ status[d] \in Open /\ claim[d] = Nobody => attempt[d] < MaxAttempts
        /\ Overdue(d) => attempt[d] < MaxAttempts + faults

LEMMA InitBudget == Init => PostsInv /\ DueInv
<1> SUFFICES ASSUME Init PROVE PostsInv /\ DueInv
  OBVIOUS
<1>1. ASSUME NEW d \in Deliveries PROVE Cardinality(Waiting(d)) = 0
  <2>1. Waiting(d) = {}
    BY DEF Init, Waiting
  <2> QED BY <2>1, FS_EmptySet
<1> QED BY <1>1, WebhookAssumption DEF Init, PostsInv, DueInv, Overdue, Open

LEMMA WaitingFinite ==
    ASSUME NEW d
    PROVE  IsFiniteSet(Waiting(d)) /\ Cardinality(Waiting(d)) \in Nat
<1>1. Waiting(d) \subseteq Dispatchers
  BY DEF Waiting
<1> QED BY <1>1, FS_Subset, FS_CardinalityType, WebhookAssumption

LEMMA PostsStep == TypeOK /\ RowInv /\ PostsInv /\ [Next]_vars => PostsInv'
<1> SUFFICES ASSUME TypeOK, RowInv, PostsInv, [Next]_vars PROVE PostsInv'
  OBVIOUS
<1>1. CASE UNCHANGED <<posts, batch, attempt>>
  BY <1>1 DEF PostsInv, Waiting
<1>2. ASSUME NEW d \in Deliveries
      PROVE  posts[d] \in Nat /\ attempt[d] \in Nat
             /\ posts[d] + Cardinality(Waiting(d)) <= attempt[d]
  BY DEF TypeOK, PostsInv
<1>3. ASSUME NEW p \in Dispatchers, ClaimDeliveries(p) PROVE PostsInv'
  <2>1. PICK found \in SUBSET Claimable :
         /\ attempt' = [d \in Deliveries |->
                IF d \in found THEN attempt[d] + 1 ELSE attempt[d]]
         /\ batch' = [batch EXCEPT ![p] = found]
    BY <1>3 DEF ClaimDeliveries
  <2>2. UNCHANGED posts /\ batch[p] = {}
    BY <1>3 DEF ClaimDeliveries, history, RowInv
  <2>3. ASSUME NEW d \in Deliveries
        PROVE  posts'[d] + Cardinality(Waiting(d)') <= attempt'[d]
    <3>1. CASE d \in found
      <4>1. Waiting(d)' = Waiting(d) \union {p} /\ p \notin Waiting(d)
        BY <2>1, <2>2, <3>1 DEF Waiting, TypeOK
      <4>2. Cardinality(Waiting(d)') = Cardinality(Waiting(d)) + 1
        BY <4>1, WaitingFinite, FS_AddElement
      <4> QED BY <1>2, <2>1, <2>2, <3>1, <4>2, WaitingFinite
    <3>2. CASE d \notin found
      <4>1. Waiting(d)' = Waiting(d)
        BY <2>1, <2>2, <3>2 DEF Waiting, TypeOK
      <4> QED BY <1>2, <2>1, <2>2, <3>2, <4>1
    <3> QED BY <3>1, <3>2
  <2> QED BY <2>3 DEF PostsInv
<1>4. ASSUME NEW p \in Dispatchers, Post(p) PROVE PostsInv'
  <2>1. PICK e \in batch[p] :
         /\ batch' = [batch EXCEPT ![p] = batch[p] \ {e}]
         /\ UNCHANGED posts \/ posts' = [posts EXCEPT ![e] = posts[e] + 1]
    BY <1>4 DEF Post
  <2>2. UNCHANGED attempt /\ e \in Deliveries
    BY <1>4 DEF Post, rowVars, TypeOK
  <2>3. ASSUME NEW d \in Deliveries
        PROVE  posts'[d] + Cardinality(Waiting(d)') <= attempt'[d]
    <3>1. CASE d = e
      <4>1. Waiting(d)' = Waiting(d) \ {p} /\ p \in Waiting(d)
        BY <2>1, <3>1 DEF Waiting, TypeOK
      <4>2. Cardinality(Waiting(d)') = Cardinality(Waiting(d)) - 1
        BY <4>1, WaitingFinite, FS_RemoveElement
      <4>3. posts'[d] <= posts[d] + 1 /\ posts'[d] \in Nat
        BY <1>2, <2>1, <2>2, <3>1 DEF TypeOK
      <4> QED BY <1>2, <2>2, <4>2, <4>3, WaitingFinite
    <3>2. CASE d # e
      <4>1. Waiting(d)' = Waiting(d) /\ posts'[d] = posts[d]
        BY <2>1, <2>2, <3>2 DEF Waiting, TypeOK
      <4> QED BY <1>2, <2>2, <4>1
    <3> QED BY <3>1, <3>2
  <2> QED BY <2>3 DEF PostsInv
<1>5. ASSUME NEW p \in Dispatchers, AbortPoll(p) PROVE PostsInv'
  <2>1. UNCHANGED <<posts, attempt>> /\ batch' = [batch EXCEPT ![p] = {}]
    BY <1>5 DEF AbortPoll, rowVars, history
  <2>2. ASSUME NEW d \in Deliveries
        PROVE  posts'[d] + Cardinality(Waiting(d)') <= attempt'[d]
    <3>1. Waiting(d)' \subseteq Waiting(d)
      BY <2>1 DEF Waiting, TypeOK
    <3>2. /\ Cardinality(Waiting(d)') <= Cardinality(Waiting(d))
          /\ Cardinality(Waiting(d)') \in Nat
      BY <3>1, WaitingFinite, FS_Subset, FS_CardinalityType
    <3> QED BY <1>2, <2>1, <3>2, WaitingFinite
  <2> QED BY <2>2 DEF PostsInv
<1>6. ASSUME NEW p \in Dispatchers, Complete(p) \/ Fail(p) PROVE PostsInv'
  BY <1>1, <1>6, OutcomeShape DEF history
<1> QED BY <1>1, <1>3, <1>4, <1>5, <1>6
        DEF Next, PollStep, InsertDeliveries, PublishEvents, CreateEndpoint,
            DisableEndpoint, Emit, LeaseLapses, vars, rowVars, localVars, history

LEMMA DueStep == TypeOK /\ RowInv /\ DueInv /\ [Next]_vars => DueInv'
<1> SUFFICES ASSUME TypeOK, RowInv, DueInv, [Next]_vars PROVE DueInv'
  OBVIOUS
<1>1. CASE UNCHANGED <<status, attempt, claim, lapsed, batch, current, faults>>
  BY <1>1 DEF DueInv, Overdue, AtWork
<1>2. faults \in Nat /\ MaxAttempts \in Nat \ {0}
  BY WebhookAssumption DEF TypeOK
<1>3. ASSUME NEW d \in Deliveries
      PROVE  /\ attempt[d] \in Nat /\ attempt[d] <= MaxAttempts + faults
             /\ status[d] \in Open /\ claim[d] = Nobody => attempt[d] < MaxAttempts
             /\ Overdue(d) => attempt[d] < MaxAttempts + faults
  BY DEF TypeOK, DueInv
<1>4. ASSUME NEW p \in Dispatchers, PublishEvents(p) PROVE DueInv'
  <2>1. /\ UNCHANGED <<attempt, claim, lapsed, batch, current, faults>>
        /\ status' = [d \in Deliveries |->
                IF d \in inserted[p] THEN "PENDING" ELSE status[d]]
    BY <1>4 DEF PublishEvents, history
  <2>2. \A d \in inserted[p] : d \in Deliveries => attempt[d] = 0
    BY DEF RowInv
  <2>3. ASSUME NEW d \in Deliveries, status'[d] \in Open, claim'[d] = Nobody
        PROVE  attempt'[d] < MaxAttempts
    BY <1>2, <1>3, <2>1, <2>2, <2>3
  <2> QED BY <1>3, <2>1, <2>3 DEF DueInv, Overdue, AtWork
<1>5. ASSUME NEW p \in Dispatchers, ClaimDeliveries(p) PROVE DueInv'
  <2>1. PICK found \in SUBSET Claimable :
         /\ claim' = [d \in Deliveries |-> IF d \in found THEN p ELSE claim[d]]
         /\ lapsed' = [d \in Deliveries |-> lapsed[d] /\ d \notin found]
         /\ attempt' = [d \in Deliveries |->
                IF d \in found THEN attempt[d] + 1 ELSE attempt[d]]
         /\ batch' = [batch EXCEPT ![p] = found]
    BY <1>5 DEF ClaimDeliveries
  <2>2. UNCHANGED <<status, current, faults>> /\ batch[p] = {}
    BY <1>5 DEF ClaimDeliveries, history, RowInv
  <2>3. ASSUME NEW d \in found
        PROVE  /\ d \in Deliveries /\ status[d] \in Open
               /\ claim[d] = Nobody \/ lapsed[d]
    BY DEF Claimable
  <2>4. ASSUME NEW d \in Deliveries
        PROVE  /\ attempt'[d] <= MaxAttempts + faults'
               /\ status'[d] \in Open /\ claim'[d] = Nobody
                     => attempt'[d] < MaxAttempts
               /\ Overdue(d)' => attempt'[d] < MaxAttempts + faults'
    <3>1. CASE d \in found
      <4>1. attempt[d] < MaxAttempts + faults
        <5>1. CASE claim[d] = Nobody
          BY <1>2, <1>3, <2>3, <3>1, <5>1
        <5>2. CASE claim[d] # Nobody
          BY <1>3, <2>3, <3>1, <5>2 DEF Overdue
        <5> QED BY <5>1, <5>2
      <4>2. claim'[d] = p /\ ~lapsed'[d] /\ d \in batch'[p]
        BY <2>1, <3>1 DEF TypeOK
      <4>3. attempt'[d] = attempt[d] + 1
        BY <2>1, <3>1
      <4>4. claim'[d] # Nobody /\ ~Overdue(d)'
        BY <4>2, WebhookAssumption DEF Overdue, AtWork
      <4> QED BY <1>2, <1>3, <2>2, <4>1, <4>3, <4>4
    <3>2. CASE d \notin found
      <4>1. claim'[d] = claim[d] /\ attempt'[d] = attempt[d] /\ lapsed'[d] = lapsed[d]
        BY <2>1, <3>2 DEF TypeOK
      <4>2. Overdue(d)' => Overdue(d)
        BY <2>1, <2>2, <4>1 DEF Overdue, AtWork, TypeOK
      <4> QED BY <1>3, <2>2, <4>1, <4>2
    <3> QED BY <3>1, <3>2
  <2> QED BY <2>4 DEF DueInv
<1>6. ASSUME NEW p \in Dispatchers, Post(p) PROVE DueInv'
  <2>1. PICK e \in batch[p] :
         /\ current' = [current EXCEPT ![p] = e]
         /\ batch' = [batch EXCEPT ![p] = batch[p] \ {e}]
    BY <1>6 DEF Post
  <2>2. UNCHANGED <<status, attempt, claim, lapsed, faults>> /\ current[p] = Nobody
    BY <1>6 DEF Post, rowVars, TypeOK
  <2>3. ASSUME NEW d \in Deliveries, Overdue(d)' PROVE Overdue(d)
    <3>1. claim[d] # Nobody /\ claim[d] \in Dispatchers
      BY <2>2, <2>3 DEF Overdue, TypeOK
    <3>2. d \in batch[claim[d]] \union {current[claim[d]]} =>
            d \in batch'[claim[d]] \union {current'[claim[d]]}
      BY <2>1, <2>2, <3>1, WebhookAssumption DEF TypeOK
    <3> QED BY <2>2, <2>3, <3>1, <3>2 DEF Overdue, AtWork
  <2> QED BY <1>3, <2>2, <2>3 DEF DueInv
<1>7. ASSUME NEW p \in Dispatchers, Complete(p) \/ Fail(p) PROVE DueInv'
  <2>1. /\ current[p] \in Deliveries /\ UNCHANGED <<attempt, batch>>
        /\ faults' \in {faults, faults + 1}
        /\ current' = [current EXCEPT ![p] = Nobody] \/ UNCHANGED current
    BY <1>7, OutcomeShape DEF history
  <2>2. PICK e \in Deliveries : e = current[p]
    BY <2>1
  <2>3. ASSUME NEW d \in Deliveries, claim'[d] = claim[d], lapsed'[d] = lapsed[d],
               d # e \/ claim[d] # p, Overdue(d)'
        PROVE  Overdue(d)
    <3>1. claim[d] # Nobody /\ claim[d] \in Dispatchers
      BY <2>3 DEF Overdue, TypeOK
    <3>2. d \in batch[claim[d]] \union {current[claim[d]]} =>
            d \in batch'[claim[d]] \union {current'[claim[d]]}
      BY <2>1, <2>2, <2>3, <3>1 DEF TypeOK
    <3> QED BY <2>3, <3>1, <3>2 DEF Overdue, AtWork
  <2>4. CASE UNCHANGED <<status, claim, lapsed>> /\ claim[e] # p
    <3>1. ASSUME NEW d \in Deliveries, Overdue(d)' PROVE Overdue(d)
      BY <2>3, <2>4, <3>1
    <3> QED BY <1>2, <1>3, <2>1, <2>4, <3>1 DEF DueInv
  <2>5. CASE UNCHANGED <<status, claim, lapsed, current>>
    <3>1. \A d \in Deliveries : Overdue(d)' <=> Overdue(d)
      BY <2>1, <2>5 DEF Overdue, AtWork
    <3> QED BY <1>2, <1>3, <2>1, <2>5, <3>1 DEF DueInv
  <2>6. ASSUME NEW s, status' = [status EXCEPT ![e] = s],
               claim' = [claim EXCEPT ![e] = Nobody],
               lapsed' = [lapsed EXCEPT ![e] = FALSE],
               s \in Open => attempt[e] < MaxAttempts
        PROVE  DueInv'
    <3>1. ASSUME NEW d \in Deliveries
          PROVE  /\ attempt'[d] <= MaxAttempts + faults'
                 /\ status'[d] \in Open /\ claim'[d] = Nobody
                       => attempt'[d] < MaxAttempts
                 /\ Overdue(d)' => attempt'[d] < MaxAttempts + faults'
      <4>1. CASE d = e
        <5>1. ~Overdue(d)'
          BY <2>6, <4>1 DEF Overdue, TypeOK
        <5> QED BY <1>2, <1>3, <2>1, <2>6, <4>1, <5>1 DEF TypeOK
      <4>2. CASE d # e
        <5>1. status'[d] = status[d] /\ claim'[d] = claim[d] /\ lapsed'[d] = lapsed[d]
          BY <2>6, <4>2 DEF TypeOK
        <5>2. Overdue(d)' => Overdue(d)
          BY <2>3, <4>2, <5>1
        <5> QED BY <1>2, <1>3, <2>1, <5>1, <5>2
      <4> QED BY <4>1, <4>2
    <3> QED BY <3>1 DEF DueInv
  <2>7. "DELIVERED" \notin Open
        /\ (FailedStatus(attempt[e]) \in Open => attempt[e] < MaxAttempts)
    BY <1>2, <1>3 DEF Open, FailedStatus
  <2>8. \/ UNCHANGED <<status, claim, lapsed, current>>
        \/ \E s \in {"DELIVERED", FailedStatus(attempt[e])} : Record(p, e, s)
    BY <1>7, <2>2 DEF Complete, Fail
  <2> QED BY <2>2, <2>4, <2>5, <2>6, <2>7, <2>8, RecordShape
<1>8. ASSUME NEW p \in Dispatchers, AbortPoll(p) PROVE DueInv'
  BY <1>2, <1>3, <1>8 DEF AbortPoll, Fault, DueInv, rowVars
<1>9. ASSUME NEW e \in Deliveries, LeaseLapses(e) PROVE DueInv'
  <2>1. /\ UNCHANGED <<status, attempt, claim, batch, current>>
        /\ lapsed' = [lapsed EXCEPT ![e] = TRUE]
        /\ (faults' = faults /\ ~AtWork(claim[e], e)) \/ faults' = faults + 1
    BY <1>9 DEF LeaseLapses, Fault, NoFault, localVars
  <2>2. ASSUME NEW d \in Deliveries
        PROVE  /\ attempt'[d] <= MaxAttempts + faults'
               /\ status'[d] \in Open /\ claim'[d] = Nobody
                     => attempt'[d] < MaxAttempts
               /\ Overdue(d)' => attempt'[d] < MaxAttempts + faults'
    BY <1>2, <1>3, <2>1 DEF Overdue, AtWork, TypeOK
  <2> QED BY <2>2 DEF DueInv
<1>10. ASSUME NEW p \in Dispatchers, InsertDeliveries(p) PROVE DueInv'
  BY <1>1, <1>10 DEF InsertDeliveries, rowVars
<1>11. ASSUME NEW n \in Endpoints, CreateEndpoint(n) \/ DisableEndpoint(n)
       PROVE  DueInv'
  BY <1>1, <1>11 DEF CreateEndpoint, DisableEndpoint, localVars
<1>12. ASSUME NEW e \in Events, Emit(e) PROVE DueInv'
  BY <1>1, <1>12 DEF Emit, localVars
<1>13. CASE UNCHANGED vars
  BY <1>1, <1>13 DEF vars, rowVars, localVars
<1> QED BY <1>4, <1>5, <1>6, <1>7, <1>8, <1>9, <1>10, <1>11, <1>12, <1>13
        DEF Next, PollStep

(***************************************************************************)
(* The theorems.                                                           *)
(***************************************************************************)

ReachableInv ==
    /\ TypeOK /\ RowInv /\ OutcomeInv /\ SkippedInv /\ FaultlessInv
    /\ PostsInv /\ DueInv

LEMMA ReachableInitially == Init => ReachableInv
BY InitType, InitRows, InitOutcome, InitSkipped, InitFaultless, InitBudget
   DEF ReachableInv

LEMMA ReachableStep == ReachableInv /\ [Next]_vars => ReachableInv'
BY TypeInvariant, RowStep, OutcomeStep, SkippedStep, FaultlessStep, PostsStep,
   DueStep
   DEF ReachableInv

LEMMA ReachableAlways == Spec => []ReachableInv
BY ReachableInitially, ReachableStep, PTL DEF Spec

\* A row is DELIVERED only after a 2xx answer, and a DEAD_LETTER only after
\* WEBHOOK_MAX_ATTEMPTS attempts, whoever else claims it meanwhile.
THEOREM OutcomeIsEarnedHolds == Spec => []OutcomeIsEarned
<1>1. ReachableInv => OutcomeIsEarned
  BY DEF ReachableInv, OutcomeInv
<1> QED BY <1>1, ReachableAlways, PTL

\* One POST per claim, and more claims than WEBHOOK_MAX_ATTEMPTS only as often
\* as a poll was aborted or overran its lease.
THEOREM PostsWithinBudgetHolds == Spec => []PostsWithinBudget
<1>1. ASSUME ReachableInv PROVE PostsWithinBudget
  <2>1. ASSUME NEW d \in Deliveries
        PROVE  posts[d] <= attempt[d] /\ attempt[d] <= MaxAttempts + faults
    <3>1. posts[d] \in Nat /\ attempt[d] \in Nat
      BY <1>1 DEF ReachableInv, TypeOK
    <3>2. posts[d] + Cardinality(Waiting(d)) <= attempt[d]
      BY <1>1 DEF ReachableInv, PostsInv
    <3> QED BY <1>1, <3>1, <3>2, WaitingFinite DEF ReachableInv, DueInv
  <2> QED BY <2>1 DEF PostsWithinBudget
<1> QED BY <1>1, ReachableAlways, PTL

\* Without such a fault an endpoint accepts an event at most once, and an event
\* it accepted is not given up.
THEOREM AcceptedOnceWithoutFaultHolds == Spec => []AcceptedOnceWithoutFault
<1>1. ASSUME ReachableInv, faults = 0, NEW d \in Deliveries
      PROVE  /\ accepted[d] <= 1
             /\ accepted[d] = 1 => status[d] # "DEAD_LETTER"
  <2>1. accepted[d] \in Nat
    BY <1>1 DEF ReachableInv, TypeOK
  <2>2. CASE accepted[d] = 0
    BY <2>2
  <2>3. CASE accepted[d] > 0 /\ status[d] = "DELIVERED"
    BY <1>1, <2>3 DEF ReachableInv, FaultlessInv
  <2>4. ASSUME accepted[d] > 0, NEW p \in Dispatchers,
               pc[p] = "complete", current[p] = d
        PROVE  accepted[d] = 1 /\ status[d] # "DEAD_LETTER"
    <3>1. accepted[d] = 1 /\ claim[d] = p
      BY <1>1, <2>4 DEF ReachableInv, FaultlessInv, AtWork
    <3>2. status[d] \in Open
      BY <1>1, <3>1, WebhookAssumption DEF ReachableInv, RowInv
    <3> QED BY <3>1, <3>2 DEF Open
  <2> QED BY <1>1, <2>1, <2>2, <2>3, <2>4 DEF ReachableInv, FaultlessInv
<1>2. ReachableInv => AcceptedOnceWithoutFault
  BY <1>1 DEF AcceptedOnceWithoutFault
<1> QED BY <1>2, ReachableAlways, PTL

\* An endpoint enabled for a published event has its row, unless the event was
\* committed between the two statements of some dispatcher.
THEOREM OnlyRacedEventsSkippedHolds == Spec => []OnlyRacedEventsSkipped
<1>1. ReachableInv => OnlyRacedEventsSkipped
  BY DEF ReachableInv, SkippedInv
<1> QED BY <1>1, ReachableAlways, PTL

SettledKept ==
    \A d \in Deliveries :
        status[d] \in Settled =>
            status'[d] = status[d] /\ attempt'[d] = attempt[d]

\* A delivered or given-up row is never touched again, whoever is still at
\* work on it.
THEOREM OutcomeIsFinalHolds == Spec => OutcomeIsFinal
<1>1. ReachableInv /\ [Next]_vars => SettledKept
  BY RowsMoveStep DEF ReachableInv, RowsMove, SettledKept
<1>2. Spec => [][SettledKept]_vars
  <2>1. ReachableInv /\ [Next]_vars => [SettledKept]_vars
    BY <1>1
  <2> QED BY <2>1, ReachableAlways, PTL DEF Spec
<1> QED BY <1>2 DEF OutcomeIsFinal, SettledKept
=============================================================================
