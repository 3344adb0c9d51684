--------------------------- MODULE JobOutboxProofs ---------------------------
(***************************************************************************)
(* Theorems about JobOutbox for every set of jobs, outbox events, stream   *)
(* entries and publishers, and any number of faults and losses of Valkey.  *)
(***************************************************************************)
EXTENDS JobOutbox, FiniteSetTheorems, TLAPS

(***************************************************************************)
(* What the operations do to the rows, the stream and the publishers.      *)
(***************************************************************************)

Operations == {"idle", "reconcile", "enqueue", "claim", "publish", "complete",
               "fail"}

\* The row an INSERT adds is a new one of the job.
LEMMA InsertShape ==
    ASSUME NEW j \in Jobs, InsertEvent(j)
    PROVE  \E e \in Events \ created :
               EventJob[e] = j /\ created' = created \union {e}
BY DEF InsertEvent

\* The entry XADD adds is a new one of the event's job.
LEMMA SendShape ==
    ASSUME NEW e \in Events, Send(e)
    PROVE  /\ \E m \in Messages \ sent : JobOf[m] = EventJob[e] /\ XAdd(m)
           /\ sentFor' = [sentFor EXCEPT ![e] = @ + 1]
BY DEF Send

\* One POST of a batch: the event comes into the publisher's hand, and reaches
\* the stream or not.
LEMMA PublishShape ==
    ASSUME TypeOK, NEW p \in Publishers, Publish(p)
    PROVE  /\ pc[p] = "publish" /\ UNCHANGED <<rowVars, candidates, held, losses>>
           /\ \E e \in batch[p] :
                /\ current' = [current EXCEPT ![p] = e]
                /\ batch' = [batch EXCEPT ![p] = batch[p] \ {e}]
                /\ \/ Send(e) /\ Goto(p, "complete") /\ faults' = faults
                   \/ Send(e) /\ Goto(p, "fail") /\ faults' = faults + 1
                   \/ /\ UNCHANGED <<streamVars, sentFor>>
                      /\ Goto(p, "fail") /\ faults' = faults + 1
BY Zenon DEF Publish, Fault, bounds

\* Complete and Fail: the claim in hand is ended or left alone, and the
\* publisher goes on to the next event or, after an exception, to Fail.
LEMMA OutcomeShape ==
    ASSUME TypeOK, NEW p \in Publishers, Complete(p) \/ Fail(p)
    PROVE  /\ current[p] \in Events /\ pc[p] \in {"complete", "fail"}
           /\ \/ UNCHANGED <<published, claim, lapsed>>
              \/ /\ claim[current[p]] = p
                 /\ \/ UNCHANGED published
                    \/ /\ pc[p] = "complete"
                       /\ published' = [published EXCEPT ![current[p]] = "recent"]
                 /\ claim' = [claim EXCEPT ![current[p]] = Nobody]
                 /\ lapsed' = [lapsed EXCEPT ![current[p]] = FALSE]
           /\ \/ /\ Goto(p, IF batch[p] = {} THEN "idle" ELSE "publish")
                 /\ current' = [current EXCEPT ![p] = Nobody]
                 /\ faults' = faults
              \/ Goto(p, "fail") /\ UNCHANGED current /\ faults' = faults + 1
           /\ UNCHANGED <<streamVars, job, created, attempt, candidates, batch,
                          held, sentFor, losses>>
<1>1. current[p] \in Events /\ pc[p] \in {"complete", "fail"}
  BY DEF Complete, Fail, TypeOK
<1>2. CASE Complete(p)
  BY <1>1, <1>2, Zenon DEF Complete, NextEvent, Fault, bounds, HoldsClaim, MarkPublished
<1>3. CASE Fail(p)
  BY <1>1, <1>3, Zenon DEF Fail, NextEvent, bounds, HoldsClaim
<1> QED BY <1>2, <1>3

LEMMA ClaimShape ==
    ASSUME NEW p \in Publishers, ClaimEvents(p)
    PROVE  /\ pc[p] \in {"idle", "claim"}
           /\ \E found \in SUBSET Claimable :
                /\ claim' = [e \in Events |-> IF e \in found THEN p ELSE claim[e]]
                /\ lapsed' = [e \in Events |-> lapsed[e] /\ e \notin found]
                /\ attempt' = [e \in Events |->
                      IF e \in found THEN attempt[e] + 1 ELSE attempt[e]]
                /\ batch' = [batch EXCEPT ![p] = found]
                /\ Goto(p, IF found = {} THEN "idle" ELSE "publish")
           /\ UNCHANGED <<streamVars, job, created, published, candidates, current,
                          held, sentFor, bounds>>
BY DEF ClaimEvents

\* What a worker's step does to the stream, to the row of the job its delivery
\* carries, and to the deliveries in hand.
LEMMA WorkerShape ==
    ASSUME TypeOK, NEW m \in Messages,
           Deliver(m) \/ WorkOn(m) \/ GiveBack(m) \/ Acknowledge(m)
    PROVE  /\ WorkerUnchanged /\ UNCHANGED <<sent, group, losses>>
           /\ Fault \/ UNCHANGED bounds
           /\ held' \subseteq held \union {m} /\ held' \subseteq held \union pending'
           /\ \/ UNCHANGED <<entries, markers>> /\ pending' \subseteq pending \union entries
              \/ /\ Worker!MayAcknowledge(m) /\ UNCHANGED job
                 /\ entries' = entries \ {m} /\ markers' = markers \ {m}
                 /\ pending' = pending \ {m} /\ held' = held \ {m}
           /\ \/ UNCHANGED job
              \/ /\ m \in held
                 /\ \E to \in {"open", "active", "settled"} :
                      /\ job[JobOf[m]] \in {"open", "active", "settled"}
                      /\ job' = [job EXCEPT ![JobOf[m]] = to]
                      /\ to = "open" => Fault
<1>1. CASE Deliver(m)
  BY <1>1 DEF Deliver, Worker!Deliver, Worker!XReadGroup, Worker!Undelivered,
              Worker!streamVars, bounds, TypeOK, StreamTypeOK
<1>2. CASE WorkOn(m)
  <2>1. PICK to \in {"open", "active", "settled"} :
          /\ <<job[JobOf[m]], to>> \in Worker!RowSteps
          /\ job' = [job EXCEPT ![JobOf[m]] = to]
    BY <1>2 DEF WorkOn, Worker!Work
  <2>2. job[JobOf[m]] \in {"open", "active", "settled"}
    BY <2>1 DEF Worker!RowSteps
  <2>3. job'[JobOf[m]] = to
    BY <2>1, JobOfAssumption DEF TypeOK
  <2>4. /\ WorkerUnchanged /\ UNCHANGED <<streamVars, held>> /\ m \in held
        /\ IF to = "open" THEN Fault ELSE UNCHANGED bounds
    BY <1>2, <2>3 DEF WorkOn, Worker!Work, Worker!streamVars, streamVars
  <2> QED BY <2>1, <2>2, <2>4 DEF Fault, bounds, streamVars
<1>3. CASE GiveBack(m)
  <2>1. /\ WorkerUnchanged /\ Fault /\ UNCHANGED streamVars
        /\ m \in held /\ held' = held \ {m}
    BY <1>3 DEF GiveBack, Worker!GiveBack, Worker!streamVars, streamVars
  <2>2. \/ UNCHANGED job
        \/ job[JobOf[m]] = "active" /\ job' = [job EXCEPT ![JobOf[m]] = "open"]
    BY <1>3 DEF GiveBack, Worker!GiveBack
  <2> QED BY <2>1, <2>2 DEF Fault, streamVars
<1>4. CASE Acknowledge(m)
  BY <1>4 DEF Acknowledge, Worker!Acknowledge, Worker!AckAndDelete, bounds
<1> QED BY <1>1, <1>2, <1>3, <1>4

(***************************************************************************)
(* Type correctness.                                                       *)
(***************************************************************************)

RowTypeOK ==
    /\ job \in [Jobs -> JobState]
    /\ created \subseteq Events
    /\ published \in [Events -> {"no", "recent", "stale"}]
    /\ claim \in [Events -> Publishers \union {Nobody}]
    /\ lapsed \in [Events -> BOOLEAN]
    /\ attempt \in [Events -> Nat]
    /\ sentFor \in [Events -> Nat]

ControlTypeOK ==
    /\ pc \in [Publishers -> Operations]
    /\ candidates \in [Publishers -> SUBSET Jobs]
    /\ batch \in [Publishers -> SUBSET Events]
    /\ current \in [Publishers -> Events \union Jobs \union {Nobody}]
    /\ \A p \in Publishers :
         /\ pc[p] = "enqueue" <=> current[p] \in Jobs
         /\ pc[p] \in {"complete", "fail"} <=> current[p] \in Events

BoundTypeOK == faults \in 0..MaxFaults /\ losses \in 0..MaxLosses

LEMMA TypeParts ==
    TypeOK <=> /\ StreamTypeOK /\ held \subseteq Messages
               /\ RowTypeOK /\ ControlTypeOK /\ BoundTypeOK
BY DEF TypeOK, RowTypeOK, ControlTypeOK, BoundTypeOK, Operations

LEMMA TypePartsNext ==
    ASSUME StreamTypeOK', held' \subseteq Messages,
           RowTypeOK', ControlTypeOK', BoundTypeOK'
    PROVE  TypeOK'
BY DEF TypeOK, RowTypeOK, ControlTypeOK, BoundTypeOK, Operations

LEMMA InitType == Init => TypeOK
<1> SUFFICES ASSUME Init PROVE TypeOK
  OBVIOUS
<1>1. StreamTypeOK /\ held \subseteq Messages
  BY DEF Init, StreamInit, StreamTypeOK
<1>2. RowTypeOK
  BY DEF Init, RowTypeOK, JobState
<1>3. ControlTypeOK
  BY OutboxAssumption DEF Init, ControlTypeOK, Operations
<1>4. BoundTypeOK
  BY OutboxAssumption DEF Init, BoundTypeOK
<1> QED BY <1>1, <1>2, <1>3, <1>4, TypeParts

LEMMA FaultType == BoundTypeOK /\ Fault => BoundTypeOK'
BY OutboxAssumption DEF BoundTypeOK, Fault

LEMMA XAddType ==
    ASSUME StreamTypeOK, NEW m \in Messages, XAdd(m)
    PROVE  StreamTypeOK'
BY DEF StreamTypeOK, XAdd

\* Users, time, workers and Valkey.
LEMMA EnvironmentType ==
    ASSUME TypeOK,
           \/ \E j \in Jobs : CreateJob(j) \/ CancelJob(j)
           \/ \E e \in Events : LeaseLapses(e) \/ TurnStale(e)
           \/ \E m \in Messages : Deliver(m) \/ WorkOn(m) \/ GiveBack(m) \/ Acknowledge(m)
           \/ RestartWorker \/ LoseValkey
    PROVE  TypeOK'
<1>1. /\ StreamTypeOK /\ held \subseteq Messages
      /\ RowTypeOK /\ ControlTypeOK /\ BoundTypeOK
  BY TypeParts
<1>2. ASSUME UNCHANGED <<streamVars, held>> PROVE StreamTypeOK' /\ held' \subseteq Messages
  BY <1>1, <1>2 DEF StreamTypeOK, streamVars
<1>3. UNCHANGED bounds => BoundTypeOK'
  BY <1>1 DEF bounds, BoundTypeOK
<1>4. UNCHANGED localVars => ControlTypeOK'
  BY <1>1 DEF localVars, ControlTypeOK
<1>5. ASSUME NEW j \in Jobs, CreateJob(j) PROVE TypeOK'
  <2>1. RowTypeOK'
    BY <1>1, <1>5, InsertShape DEF CreateJob, RowTypeOK, JobState
  <2> QED BY <1>2, <1>3, <1>4, <1>5, <2>1, TypePartsNext DEF CreateJob
<1>6. ASSUME NEW j \in Jobs, CancelJob(j) PROVE TypeOK'
  <2>1. RowTypeOK'
    BY <1>1, <1>6 DEF CancelJob, RowTypeOK, JobState
  <2> QED BY <1>2, <1>3, <1>4, <1>6, <2>1, TypePartsNext DEF CancelJob
<1>7. ASSUME NEW e \in Events, LeaseLapses(e) PROVE TypeOK'
  <2>1. RowTypeOK'
    BY <1>1, <1>7 DEF LeaseLapses, RowTypeOK
  <2>2. BoundTypeOK'
    BY <1>1, <1>3, <1>7, FaultType DEF LeaseLapses
  <2> QED BY <1>2, <1>4, <1>7, <2>1, <2>2, TypePartsNext DEF LeaseLapses
<1>8. ASSUME NEW e \in Events, TurnStale(e) PROVE TypeOK'
  <2>1. RowTypeOK'
    BY <1>1, <1>8 DEF TurnStale, RowTypeOK
  <2> QED BY <1>2, <1>3, <1>4, <1>8, <2>1, TypePartsNext DEF TurnStale
<1>9. ASSUME WorkerUnchanged, job' \in [Jobs -> JobState], BoundTypeOK',
             StreamTypeOK', held' \subseteq Messages
      PROVE  TypeOK'
  <2>1. RowTypeOK'
    BY <1>1, <1>9 DEF WorkerUnchanged, RowTypeOK
  <2> QED BY <1>4, <1>9, <2>1, TypePartsNext DEF WorkerUnchanged
<1>10. job \in [Jobs -> JobState]
  BY <1>1 DEF RowTypeOK
<1>11. ASSUME NEW m \in Messages,
              Deliver(m) \/ WorkOn(m) \/ GiveBack(m) \/ Acknowledge(m)
       PROVE  TypeOK'
  <2>1. StreamTypeOK' /\ held' \subseteq Messages
    BY <1>1, <1>11, WorkerShape DEF StreamTypeOK
  <2>2. job' \in [Jobs -> JobState]
    BY <1>10, <1>11, WorkerShape DEF JobState
  <2>3. BoundTypeOK'
    BY <1>1, <1>3, <1>11, WorkerShape, FaultType
  <2> QED BY <1>9, <1>11, <2>1, <2>2, <2>3, WorkerShape
<1>14. CASE RestartWorker
  <2>1. StreamTypeOK' /\ held' \subseteq Messages
    BY <1>1, <1>14 DEF RestartWorker, EnsureGroups, StreamTypeOK
  <2>2. BoundTypeOK'
    BY <1>1, <1>14, FaultType DEF RestartWorker
  <2> QED BY <1>9, <1>10, <1>14, <2>1, <2>2 DEF RestartWorker
<1>15. CASE LoseValkey
  <2>1. StreamTypeOK' /\ held' \subseteq Messages
    BY <1>1, <1>15 DEF LoseValkey, StreamTypeOK
  <2>2. BoundTypeOK'
    BY <1>1, <1>15, OutboxAssumption DEF LoseValkey, BoundTypeOK
  <2> QED BY <1>9, <1>10, <1>15, <2>1, <2>2 DEF LoseValkey
<1> QED BY <1>5, <1>6, <1>7, <1>8, <1>11, <1>14, <1>15

\* The publishers.
LEMMA PublisherType ==
    ASSUME TypeOK, NEW p \in Publishers, PollStep(p) \/ AbortPoll(p)
    PROVE  TypeOK'
<1>1. /\ StreamTypeOK /\ held \subseteq Messages
      /\ RowTypeOK /\ ControlTypeOK /\ BoundTypeOK
  BY TypeParts
<1>2. ASSUME UNCHANGED <<streamVars, held>>
      PROVE  StreamTypeOK' /\ held' \subseteq Messages
  BY <1>1, <1>2 DEF StreamTypeOK, streamVars
<1>3. UNCHANGED bounds => BoundTypeOK'
  BY <1>1 DEF bounds, BoundTypeOK
<1>4. UNCHANGED <<rowVars, sentFor>> => RowTypeOK'
  BY <1>1 DEF rowVars, RowTypeOK
\* A publisher that has nothing in hand after its step.
<1>5. ASSUME NEW op \in {"idle", "reconcile", "claim", "publish"}, Goto(p, op),
             \/ current' = [current EXCEPT ![p] = Nobody]
             \/ UNCHANGED current /\ pc[p] \notin {"enqueue", "complete", "fail"},
             candidates' \in [Publishers -> SUBSET Jobs],
             batch' \in [Publishers -> SUBSET Events]
      PROVE  ControlTypeOK'
  BY <1>1, <1>5, OutboxAssumption DEF ControlTypeOK, Goto, Operations
<1>6. /\ candidates \in [Publishers -> SUBSET Jobs]
      /\ batch \in [Publishers -> SUBSET Events]
  BY <1>1 DEF ControlTypeOK
<1>7. CASE FindCandidates(p)
  <2>1. candidates' \in [Publishers -> SUBSET Jobs]
    BY <1>6, <1>7 DEF FindCandidates
  <2>2. ControlTypeOK'
    BY <1>5, <1>6, <1>7, <2>1 DEF FindCandidates
  <2> QED BY <1>2, <1>3, <1>4, <1>7, <2>2, TypePartsNext DEF FindCandidates
<1>8. CASE CheckMarker(p)
  <2>1. candidates' \in [Publishers -> SUBSET Jobs]
    BY <1>6, <1>8 DEF CheckMarker
  <2>2. ControlTypeOK'
    BY <1>1, <1>6, <1>8, <2>1, OutboxAssumption
       DEF CheckMarker, ControlTypeOK, Goto, Operations
  <2> QED BY <1>2, <1>3, <1>4, <1>8, <2>2, TypePartsNext DEF CheckMarker
<1>9. CASE Enqueue(p)
  <2>1. ControlTypeOK'
    BY <1>5, <1>6, <1>9 DEF Enqueue
  <2>2. current[p] \in Jobs
    BY <1>1, <1>9 DEF Enqueue, ControlTypeOK
  <2>3. created' \subseteq Events
    BY <1>1, <1>9, <2>2, InsertShape DEF Enqueue, RowTypeOK
  <2>4. RowTypeOK'
    BY <1>1, <1>9, <2>3 DEF Enqueue, RowTypeOK
  <2> QED BY <1>2, <1>3, <1>9, <2>1, <2>4, TypePartsNext DEF Enqueue
<1>10. CASE EndReconcile(p)
  <2>1. ControlTypeOK'
    BY <1>5, <1>6, <1>10 DEF EndReconcile
  <2> QED BY <1>2, <1>3, <1>4, <1>10, <2>1, TypePartsNext DEF EndReconcile
<1>11. CASE ClaimEvents(p)
  <2>1. PICK found \in SUBSET Claimable :
         /\ claim' = [e \in Events |-> IF e \in found THEN p ELSE claim[e]]
         /\ lapsed' = [e \in Events |-> lapsed[e] /\ e \notin found]
         /\ attempt' = [e \in Events |->
                IF e \in found THEN attempt[e] + 1 ELSE attempt[e]]
         /\ batch' = [batch EXCEPT ![p] = found]
         /\ Goto(p, IF found = {} THEN "idle" ELSE "publish")
    BY <1>11, ClaimShape
  <2>2. batch' \in [Publishers -> SUBSET Events]
    BY <1>1, <1>6, <2>1 DEF Claimable, Unpublished, RowTypeOK
  <2>3. ControlTypeOK'
    BY <1>5, <1>6, <1>11, <2>1, <2>2, ClaimShape
  <2>4. /\ claim' \in [Events -> Publishers \union {Nobody}]
        /\ lapsed' \in [Events -> BOOLEAN]
        /\ attempt' \in [Events -> Nat]
    BY <1>1, <2>1 DEF RowTypeOK
  <2>5. RowTypeOK'
    BY <1>1, <1>11, <2>4, ClaimShape DEF RowTypeOK
  <2> QED BY <1>2, <1>3, <1>11, <2>3, <2>5, ClaimShape, TypePartsNext
<1>12. CASE Publish(p)
  <2>1. PICK e \in batch[p] :
         /\ current' = [current EXCEPT ![p] = e]
         /\ batch' = [batch EXCEPT ![p] = batch[p] \ {e}]
         /\ Send(e) \/ UNCHANGED <<streamVars, sentFor>>
         /\ Goto(p, "complete") \/ Goto(p, "fail")
    BY <1>12, PublishShape
  <2>2. e \in Events /\ e \notin Jobs
    BY <1>6, OutboxAssumption
  <2>3. ControlTypeOK'
    BY <1>1, <1>6, <1>12, <2>1, <2>2, PublishShape
       DEF ControlTypeOK, Goto, Operations
  <2>4. sentFor' \in [Events -> Nat]
    BY <1>1, <2>1, <2>2, SendShape DEF RowTypeOK
  <2>5. RowTypeOK'
    BY <1>1, <1>12, <2>4, PublishShape DEF RowTypeOK, rowVars
  <2>6. StreamTypeOK' /\ held' \subseteq Messages
    BY <1>1, <1>12, <2>1, <2>2, SendShape, XAddType, PublishShape
       DEF StreamTypeOK, streamVars
  <2>7. BoundTypeOK'
    BY <1>1, <1>3, <1>12, FaultType DEF Publish
  <2> QED BY <2>3, <2>5, <2>6, <2>7, TypePartsNext
<1>13. CASE Complete(p) \/ Fail(p)
  <2>1. current[p] \in Events
    BY <1>13, OutcomeShape
  <2>2. /\ published' \in [Events -> {"no", "recent", "stale"}]
        /\ claim' \in [Events -> Publishers \union {Nobody}]
        /\ lapsed' \in [Events -> BOOLEAN]
    <3>1. CASE UNCHANGED <<published, claim, lapsed>>
      BY <1>1, <3>1 DEF RowTypeOK
    <3>2. CASE /\ claim' = [claim EXCEPT ![current[p]] = Nobody]
               /\ lapsed' = [lapsed EXCEPT ![current[p]] = FALSE]
               /\ \/ UNCHANGED published
                  \/ published' = [published EXCEPT ![current[p]] = "recent"]
      BY <1>1, <2>1, <3>2 DEF RowTypeOK
    <3> QED BY <1>1, <1>13, <3>1, <3>2, OutcomeShape
  <2>3. RowTypeOK'
    <3>1. UNCHANGED <<job, created, attempt, sentFor>>
      BY <1>13, OutcomeShape
    <3> QED BY <1>1, <2>2, <3>1 DEF RowTypeOK
  <2>4. ControlTypeOK'
    <3>1. CASE /\ Goto(p, IF batch[p] = {} THEN "idle" ELSE "publish")
               /\ current' = [current EXCEPT ![p] = Nobody]
      BY <1>5, <1>6, <1>13, <3>1, OutcomeShape
    <3>2. CASE Goto(p, "fail") /\ UNCHANGED current
      BY <1>1, <1>13, <3>2, OutcomeShape DEF ControlTypeOK, Goto, Operations
    <3> QED BY <1>13, <3>1, <3>2, OutcomeShape
  <2>5. BoundTypeOK'
    BY <1>1, <1>3, <1>13, FaultType DEF Complete, Fail
  <2> QED BY <1>2, <1>13, <2>3, <2>4, <2>5, OutcomeShape, TypePartsNext
<1>14. CASE AbortPoll(p)
  <2>1. /\ candidates' \in [Publishers -> SUBSET Jobs]
        /\ batch' \in [Publishers -> SUBSET Events]
    BY <1>6, <1>14 DEF AbortPoll
  <2>2. ControlTypeOK'
    BY <1>5, <1>14, <2>1 DEF AbortPoll
  <2>3. BoundTypeOK'
    BY <1>1, <1>14, FaultType DEF AbortPoll
  <2> QED BY <1>2, <1>4, <1>14, <2>2, <2>3, TypePartsNext DEF AbortPoll
<1> QED BY <1>7, <1>8, <1>9, <1>10, <1>11, <1>12, <1>13, <1>14 DEF PollStep

LEMMA TypeInvariant == TypeOK /\ [Next]_vars => TypeOK'
<1> SUFFICES ASSUME TypeOK, [Next]_vars PROVE TypeOK'
  OBVIOUS
<1>1. CASE UNCHANGED vars
  BY <1>1 DEF vars, streamVars, rowVars, localVars, bounds, TypeOK, StreamTypeOK
<1> QED BY <1>1, EnvironmentType, PublisherType DEF Next

\* Every reachable state of the outbox, its publishers and the stream is well
\* typed.
THEOREM TypeCorrect == Spec => []TypeOK
BY InitType, TypeInvariant, PTL DEF Spec

(***************************************************************************)
(* Events and claims: a claimed event is waiting, jobs that events or      *)
(* publishers name exist, and a job has one event waiting.                 *)
(***************************************************************************)

EventsInv ==
    /\ \A e \in Events :
        /\ claim[e] # Nobody => e \in created /\ published[e] = "no"
        /\ e \notin created => published[e] = "no"
        /\ e \in created => job[EventJob[e]] # "absent"
    /\ OneEventWaiting

HandInv ==
    \A p \in Publishers :
        /\ \A j \in candidates[p] : job[j] # "absent"
        /\ current[p] \in Jobs => job[current[p]] # "absent"
        /\ batch[p] # {} => pc[p] \in {"publish", "complete", "fail"}
        /\ current[p] \notin batch[p] /\ batch[p] \subseteq created
        /\ current[p] \in Events => current[p] \in created

RowInv == EventsInv /\ HandInv

LEMMA InitRows == Init => RowInv
BY OutboxAssumption
   DEF Init, RowInv, EventsInv, HandInv, OneEventWaiting, EventsOf, Unpublished

\* Publishers never write a job's row.
LEMMA PublishersLeaveJobs ==
    ASSUME TypeOK, NEW p \in Publishers, PollStep(p) \/ AbortPoll(p)
    PROVE  UNCHANGED job
<1>1. CASE Publish(p)
  BY <1>1, PublishShape DEF rowVars
<1>2. CASE Complete(p) \/ Fail(p)
  BY <1>2, OutcomeShape
<1> QED BY <1>1, <1>2
        DEF PollStep, FindCandidates, CheckMarker, Enqueue, EndReconcile,
            ClaimEvents, AbortPoll, rowVars

\* A job that exists goes on to exist, and a settled job stays settled unless
\* the holder of a delivery of it takes it up again, which the bound counts.
LEMMA JobsRemain ==
    ASSUME TypeOK, [Next]_vars, NEW j \in Jobs
    PROVE  /\ job[j] # "absent" => job'[j] # "absent"
           /\ job[j] = "settled" => \/ job'[j] = "settled"
                                   \/ /\ Fault /\ UNCHANGED entries
                                      /\ \E m \in held : JobOf[m] = j
<1>1. CASE UNCHANGED job
  BY <1>1
<1>2. ASSUME NEW i \in Jobs, CreateJob(i) \/ CancelJob(i)
      PROVE  /\ job[j] # "absent" => job'[j] # "absent"
             /\ job[j] = "settled" => job'[j] = "settled"
  BY <1>2 DEF CreateJob, CancelJob, TypeOK
<1>3. ASSUME NEW m \in Messages,
             Deliver(m) \/ WorkOn(m) \/ GiveBack(m) \/ Acknowledge(m)
      PROVE  /\ job[j] # "absent" => job'[j] # "absent"
             /\ job[j] = "settled" => \/ job'[j] = "settled"
                                     \/ /\ Fault /\ UNCHANGED entries
                                        /\ \E n \in held : JobOf[n] = j
  <2>1. ASSUME job' # job
        PROVE  /\ m \in held /\ UNCHANGED entries
               /\ \E to \in {"open", "active", "settled"} :
                    /\ job[JobOf[m]] \in {"open", "active", "settled"}
                    /\ job' = [job EXCEPT ![JobOf[m]] = to]
                    /\ to = "open" => Fault
    BY <1>3, <2>1, WorkerShape, Zenon
  <2>2. job[JobOf[m]] = "settled" => job'[JobOf[m]] # "active"
    BY <1>3, <2>1, JobOfAssumption
       DEF Deliver, WorkOn, GiveBack, Acknowledge, Worker!Deliver, Worker!Work,
           Worker!RowSteps, Worker!GiveBack, Worker!Acknowledge, TypeOK
  <2> QED BY <1>1, <2>1, <2>2, JobOfAssumption DEF TypeOK
<1> QED BY <1>1, <1>2, <1>3, PublishersLeaveJobs
        DEF Next, LeaseLapses, TurnStale, RestartWorker, LoseValkey, vars, rowVars

\* Steps that leave the events alone, or only add faults to them.
LEMMA EventsKept ==
    ASSUME TypeOK, EventsInv, [Next]_vars, UNCHANGED <<created, published, claim>>
    PROVE  EventsInv'
<1>1. \A e \in Events : e \in created => job'[EventJob[e]] # "absent"
  BY JobsRemain, OutboxAssumption DEF EventsInv
<1> QED BY <1>1 DEF EventsInv, OneEventWaiting, EventsOf, Unpublished

\* An INSERT for a job that exists and has nothing waiting.
LEMMA InsertKeepsEvents ==
    ASSUME TypeOK, EventsInv, NEW j \in Jobs, InsertEvent(j), NothingUnpublished(j),
           job'[j] # "absent",
           \A i \in Jobs : job[i] # "absent" => job'[i] # "absent",
           UNCHANGED <<published, claim>>
    PROVE  EventsInv'
<1>1. PICK e \in Events \ created : EventJob[e] = j /\ created' = created \union {e}
  BY InsertShape
<1>2. ASSUME NEW f \in Events
      PROVE  /\ claim'[f] # Nobody => f \in created' /\ published'[f] = "no"
             /\ f \notin created' => published'[f] = "no"
             /\ f \in created' => job'[EventJob[f]] # "absent"
  BY <1>1, OutboxAssumption DEF EventsInv
<1>3. ASSUME NEW i \in Jobs, NEW f, NEW g,
             f \in created' /\ EventJob[f] = i /\ published'[f] = "no",
             g \in created' /\ EventJob[g] = i /\ published'[g] = "no"
      PROVE  f = g
  <2>1. ASSUME NEW h \in created', EventJob[h] = j, published'[h] = "no"
        PROVE  h = e
    BY <1>1, <2>1 DEF NothingUnpublished, EventsOf, Unpublished
  <2>2. CASE i = j
    BY <1>3, <2>1, <2>2
  <2>3. CASE i # j
    BY <1>1, <1>3, <2>3 DEF EventsInv, OneEventWaiting, EventsOf, Unpublished
  <2> QED BY <2>2, <2>3
<1> QED BY <1>2, <1>3 DEF EventsInv, OneEventWaiting, EventsOf, Unpublished

LEMMA EventsStep == TypeOK /\ RowInv /\ [Next]_vars => EventsInv'
<1> SUFFICES ASSUME TypeOK, RowInv, [Next]_vars PROVE EventsInv'
  OBVIOUS
<1>1. EventsInv /\ HandInv
  BY DEF RowInv
<1>2. CASE UNCHANGED <<created, published, claim>>
  BY <1>1, <1>2, EventsKept
<1>3. ASSUME NEW j \in Jobs, CreateJob(j) PROVE EventsInv'
  <2>1. NothingUnpublished(j)
    BY <1>1, <1>3 DEF CreateJob, EventsInv, NothingUnpublished, EventsOf,
                      Unpublished, TypeOK
  <2>2. job'[j] # "absent"
    BY <1>3 DEF CreateJob, TypeOK
  <2> QED BY <1>1, <1>3, <2>1, <2>2, InsertKeepsEvents, JobsRemain DEF CreateJob
<1>4. ASSUME NEW p \in Publishers, Enqueue(p) PROVE EventsInv'
  <2>1. PICK j \in Jobs : j = current[p]
    BY <1>4 DEF Enqueue, TypeOK
  <2>2. job[j] # "absent" /\ UNCHANGED <<job, published, claim>>
    BY <1>1, <1>4, <2>1 DEF Enqueue, HandInv
  <2>3. CASE InsertEvent(j) /\ MayEnqueue(j)
    BY <1>1, <2>2, <2>3, InsertKeepsEvents DEF MayEnqueue
  <2>4. CASE UNCHANGED created
    BY <1>2, <2>2, <2>4
  <2> QED BY <1>4, <2>1, <2>3, <2>4 DEF Enqueue
<1>5. ASSUME NEW p \in Publishers, ClaimEvents(p) PROVE EventsInv'
  <2>1. PICK found \in SUBSET Claimable :
          claim' = [e \in Events |-> IF e \in found THEN p ELSE claim[e]]
    BY <1>5, ClaimShape
  <2>2. UNCHANGED <<job, created, published>>
    BY <1>5, ClaimShape
  <2>3. ASSUME NEW e \in Events, claim'[e] # Nobody
        PROVE  e \in created /\ published[e] = "no"
    BY <1>1, <2>1, <2>3 DEF Claimable, Unpublished, EventsInv
  <2> QED BY <1>1, <2>2, <2>3 DEF EventsInv, OneEventWaiting, EventsOf, Unpublished
<1>6. ASSUME NEW p \in Publishers, Complete(p) \/ Fail(p) PROVE EventsInv'
  <2>1. PICK e \in Events : e = current[p]
    BY <1>6, OutcomeShape
  <2>2. e \in created /\ UNCHANGED <<job, created>>
    BY <1>1, <1>6, <2>1, OutcomeShape DEF HandInv
  <2>3. CASE UNCHANGED <<published, claim>>
    BY <1>2, <2>2, <2>3
  <2>4. CASE /\ claim' = [claim EXCEPT ![e] = Nobody]
             /\ \/ UNCHANGED published
                \/ published' = [published EXCEPT ![e] = "recent"]
    <3>1. ASSUME NEW f \in Events
          PROVE  /\ claim'[f] # Nobody => f \in created /\ published'[f] = "no"
                 /\ f \notin created => published'[f] = "no"
                 /\ published'[f] = "no" => published[f] = "no"
      BY <1>1, <2>2, <2>4 DEF EventsInv, TypeOK
    <3> QED BY <1>1, <2>2, <3>1 DEF EventsInv, OneEventWaiting, EventsOf, Unpublished, TypeOK
  <2> QED BY <1>6, <2>1, <2>3, <2>4, OutcomeShape
<1>7. ASSUME NEW e \in Events, TurnStale(e) PROVE EventsInv'
  <2>1. UNCHANGED <<job, created, claim>> /\ published[e] = "recent"
        /\ published' = [published EXCEPT ![e] = "stale"]
    BY <1>7 DEF TurnStale
  <2>2. \A f \in Events : published'[f] = "no" <=> published[f] = "no"
    BY <2>1 DEF TypeOK
  <2> QED BY <1>1, <2>1, <2>2 DEF EventsInv, OneEventWaiting, EventsOf, Unpublished, TypeOK
<1>8. ASSUME NEW p \in Publishers, Publish(p) PROVE EventsInv'
  BY <1>2, <1>8, PublishShape DEF rowVars
<1> QED BY <1>2, <1>3, <1>4, <1>5, <1>6, <1>7, <1>8
        DEF Next, PollStep, CancelJob, FindCandidates, CheckMarker, EndReconcile,
            AbortPoll, LeaseLapses, Deliver, WorkOn, GiveBack, Acknowledge, RestartWorker,
            LoseValkey, WorkerUnchanged, vars, rowVars

\* What a publisher's step may do to the publishers' local state.
LEMMA LocalShape ==
    ASSUME TypeOK, [Next]_vars
    PROVE  \/ UNCHANGED localVars
           \/ \E p \in Publishers :
                /\ PollStep(p) \/ AbortPoll(p)
                /\ \A q \in Publishers \ {p} :
                     /\ pc'[q] = pc[q] /\ candidates'[q] = candidates[q]
                     /\ batch'[q] = batch[q] /\ current'[q] = current[q]
<1>1. ASSUME NEW p \in Publishers, PollStep(p) \/ AbortPoll(p), NEW q \in Publishers \ {p}
      PROVE  /\ pc'[q] = pc[q] /\ candidates'[q] = candidates[q]
             /\ batch'[q] = batch[q] /\ current'[q] = current[q]
  <2>1. CASE FindCandidates(p) \/ CheckMarker(p) \/ Enqueue(p) \/ EndReconcile(p)
             \/ AbortPoll(p)
    BY <1>1, <2>1
       DEF FindCandidates, CheckMarker, Enqueue, EndReconcile, AbortPoll, Goto, TypeOK
  <2>2. CASE ClaimEvents(p)
    BY <1>1, <2>2, ClaimShape DEF Goto, TypeOK
  <2>3. CASE Publish(p)
    BY <1>1, <2>3, PublishShape DEF Goto, TypeOK
  <2>4. CASE Complete(p) \/ Fail(p)
    BY <1>1, <2>4, OutcomeShape DEF Goto, TypeOK
  <2> QED BY <1>1, <2>1, <2>2, <2>3, <2>4 DEF PollStep
<1> QED BY <1>1
        DEF Next, CreateJob, CancelJob, LeaseLapses, TurnStale, Deliver, WorkOn, GiveBack,
            Acknowledge, RestartWorker, LoseValkey, WorkerUnchanged, vars

\* Events are never deleted.
LEMMA EventsRemain == TypeOK /\ [Next]_vars => created \subseteq created'
<1> SUFFICES ASSUME TypeOK, [Next]_vars PROVE created \subseteq created'
  OBVIOUS
<1>1. ASSUME NEW p \in Publishers, PollStep(p) \/ AbortPoll(p)
      PROVE  created \subseteq created'
  <2>1. CASE Publish(p)
    BY <2>1, PublishShape DEF rowVars
  <2>2. CASE Complete(p) \/ Fail(p)
    BY <2>2, OutcomeShape
  <2>3. CASE Enqueue(p)
    BY <2>3 DEF Enqueue, InsertEvent
  <2> QED BY <1>1, <2>1, <2>2, <2>3
          DEF PollStep, FindCandidates, CheckMarker, EndReconcile, ClaimEvents,
              AbortPoll, rowVars
<1> QED BY <1>1
        DEF Next, CreateJob, InsertEvent, CancelJob, LeaseLapses, TurnStale,
            Deliver, WorkOn, GiveBack, Acknowledge, RestartWorker, LoseValkey,
            WorkerUnchanged, vars, rowVars

HandOK(p) ==
    /\ \A j \in candidates[p] : job[j] # "absent"
    /\ current[p] \in Jobs => job[current[p]] # "absent"
    /\ batch[p] # {} => pc[p] \in {"publish", "complete", "fail"}
    /\ current[p] \notin batch[p] /\ batch[p] \subseteq created
    /\ current[p] \in Events => current[p] \in created

LEMMA HandStep == TypeOK /\ RowInv /\ [Next]_vars => HandInv'
<1> SUFFICES ASSUME TypeOK, RowInv, [Next]_vars PROVE HandInv'
  OBVIOUS
<1>1. \A q \in Publishers : HandOK(q)
  BY DEF RowInv, HandInv, HandOK
<1>2. \A j \in Jobs : job[j] # "absent" => job'[j] # "absent"
  BY JobsRemain
<1>3. created \subseteq created'
  BY EventsRemain
<1>4. ASSUME NEW q \in Publishers, pc'[q] = pc[q], candidates'[q] = candidates[q],
             batch'[q] = batch[q], current'[q] = current[q]
      PROVE  HandOK(q)'
  BY <1>1, <1>2, <1>3, <1>4 DEF HandOK, TypeOK
<1>5. ASSUME NEW p \in Publishers, PollStep(p) \/ AbortPoll(p) PROVE HandOK(p)'
  <2>1. CASE FindCandidates(p)
    BY <1>1, <2>1, OutboxAssumption
       DEF FindCandidates, Candidate, Goto, HandOK, TypeOK, rowVars
  <2>2. CASE CheckMarker(p)
    BY <1>1, <2>2, OutboxAssumption DEF CheckMarker, Goto, HandOK, TypeOK, rowVars
  <2>3. CASE Enqueue(p)
    <3>1. /\ pc[p] = "enqueue" /\ current' = [current EXCEPT ![p] = Nobody]
          /\ UNCHANGED <<candidates, batch, job>>
      BY <2>3 DEF Enqueue
    <3> QED BY <1>1, <3>1, OutboxAssumption DEF HandOK, TypeOK
  <2>4. CASE EndReconcile(p)
    BY <1>1, <2>4 DEF EndReconcile, Goto, HandOK, TypeOK, rowVars
  <2>5. CASE ClaimEvents(p)
    <3>1. PICK found \in SUBSET Claimable :
            /\ batch' = [batch EXCEPT ![p] = found]
            /\ Goto(p, IF found = {} THEN "idle" ELSE "publish")
      BY <2>5 DEF ClaimEvents
    <3>2. /\ pc[p] \in {"idle", "claim"}
          /\ UNCHANGED <<candidates, current, job, created>>
      BY <2>5, ClaimShape
    <3>3. found \subseteq created /\ found \subseteq Events
      BY DEF Claimable, Unpublished, TypeOK
    <3>4. current[p] \notin Jobs /\ current[p] \notin Events
      BY <3>2 DEF TypeOK
    <3> QED BY <1>1, <3>1, <3>2, <3>3, <3>4 DEF Goto, HandOK, TypeOK
  <2>6. CASE Publish(p)
    <3>1. PICK e \in batch[p] :
            /\ current' = [current EXCEPT ![p] = e]
            /\ batch' = [batch EXCEPT ![p] = batch[p] \ {e}]
            /\ pc' = [pc EXCEPT ![p] = "complete"] \/ pc' = [pc EXCEPT ![p] = "fail"]
      BY <2>6, PublishShape DEF Goto
    <3>2. UNCHANGED <<candidates, job, created>>
      BY <2>6, PublishShape DEF rowVars
    <3>3. e \in Events /\ e \notin Jobs
      BY OutboxAssumption DEF TypeOK
    <3> QED BY <1>1, <3>1, <3>2, <3>3 DEF HandOK, TypeOK
  <2>7. CASE Complete(p) \/ Fail(p)
    <3>1. /\ UNCHANGED <<candidates, batch, job, created>>
          /\ \/ /\ pc' = [pc EXCEPT ![p] = IF batch[p] = {} THEN "idle" ELSE "publish"]
                /\ current' = [current EXCEPT ![p] = Nobody]
             \/ pc' = [pc EXCEPT ![p] = "fail"] /\ UNCHANGED current
      BY <2>7, OutcomeShape DEF Goto
    <3> QED BY <1>1, <3>1, OutboxAssumption DEF HandOK, TypeOK
  <2>8. CASE AbortPoll(p)
    BY <1>1, <2>8, OutboxAssumption DEF AbortPoll, Goto, HandOK, TypeOK, rowVars
  <2> QED BY <1>5, <2>1, <2>2, <2>3, <2>4, <2>5, <2>6, <2>7, <2>8 DEF PollStep
<1>6. \A q \in Publishers : HandOK(q)'
  <2>1. CASE UNCHANGED localVars
    BY <1>4, <2>1 DEF localVars
  <2> QED BY <1>4, <1>5, <2>1, LocalShape
<1> QED BY <1>6 DEF HandInv, HandOK

(***************************************************************************)
(* Sends and claims.                                                       *)
(***************************************************************************)

\* The publishers that will still send an event under some claim.
Waiting(e) == {p \in Publishers : e \in batch[p]}

\* A claim pays for one send, and what is about to be marked has been sent.
SentInv ==
    /\ \A e \in Events :
        /\ sentFor[e] + Cardinality(Waiting(e)) <= attempt[e]
        /\ published[e] # "no" => sentFor[e] > 0
    /\ \A p \in Publishers : pc[p] = "complete" => sentFor[current[p]] > 0

LEMMA InitSent == Init => SentInv
<1> SUFFICES ASSUME Init PROVE SentInv
  OBVIOUS
<1>1. ASSUME NEW e \in Events PROVE Cardinality(Waiting(e)) = 0
  <2>1. Waiting(e) = {}
    BY DEF Init, Waiting
  <2> QED BY <2>1, FS_EmptySet
<1> QED BY <1>1 DEF Init, SentInv

LEMMA WaitingFinite ==
    ASSUME NEW e
    PROVE  IsFiniteSet(Waiting(e)) /\ Cardinality(Waiting(e)) \in Nat
<1>1. Waiting(e) \subseteq Publishers
  BY DEF Waiting
<1> QED BY <1>1, FS_Subset, FS_CardinalityType, OutboxAssumption

LEMMA SentStep == TypeOK /\ RowInv /\ SentInv /\ [Next]_vars => SentInv'
<1> SUFFICES ASSUME TypeOK, RowInv, SentInv, [Next]_vars PROVE SentInv'
  OBVIOUS
<1>1. ASSUME NEW e \in Events
      PROVE  sentFor[e] \in Nat /\ attempt[e] \in Nat
             /\ sentFor[e] + Cardinality(Waiting(e)) <= attempt[e]
  BY DEF TypeOK, SentInv
\* Steps that send, claim and mark nothing.
<1>2. ASSUME UNCHANGED <<attempt, sentFor>>,
             \A e \in Events : published'[e] # "no" => published[e] # "no",
             \A q \in Publishers : batch'[q] \subseteq batch[q],
             \A q \in Publishers : pc'[q] = "complete" =>
                pc[q] = "complete" /\ current'[q] = current[q]
      PROVE  SentInv'
  <2>1. ASSUME NEW e \in Events
        PROVE  sentFor'[e] + Cardinality(Waiting(e)') <= attempt'[e]
    <3>1. Waiting(e)' \subseteq Waiting(e)
      BY <1>2 DEF Waiting
    <3>2. /\ Cardinality(Waiting(e)') <= Cardinality(Waiting(e))
          /\ Cardinality(Waiting(e)') \in Nat
      BY <3>1, WaitingFinite, FS_Subset, FS_CardinalityType
    <3> QED BY <1>1, <1>2, <3>2, WaitingFinite
  <2> QED BY <1>2, <2>1 DEF SentInv
<1>3. ASSUME NEW p \in Publishers, ClaimEvents(p) PROVE SentInv'
  <2>1. PICK found \in SUBSET Claimable :
         /\ attempt' = [e \in Events |->
                IF e \in found THEN attempt[e] + 1 ELSE attempt[e]]
         /\ batch' = [batch EXCEPT ![p] = found]
         /\ pc' = [pc EXCEPT ![p] = IF found = {} THEN "idle" ELSE "publish"]
    BY <1>3, ClaimShape, Zenon DEF Goto
  <2>2. UNCHANGED <<sentFor, published, current>> /\ batch[p] = {}
    BY <1>3, ClaimShape DEF RowInv, HandInv
  <2>3. ASSUME NEW e \in Events
        PROVE  sentFor'[e] + Cardinality(Waiting(e)') <= attempt'[e]
    <3>1. CASE e \in found
      <4>1. Waiting(e)' = Waiting(e) \union {p} /\ p \notin Waiting(e)
        BY <2>1, <2>2, <3>1 DEF Waiting, TypeOK
      <4>2. Cardinality(Waiting(e)') = Cardinality(Waiting(e)) + 1
        BY <4>1, WaitingFinite, FS_AddElement
      <4> QED BY <1>1, <2>1, <2>2, <3>1, <4>2, WaitingFinite
    <3>2. CASE e \notin found
      <4>1. Waiting(e)' = Waiting(e)
        BY <2>1, <2>2, <3>2 DEF Waiting, TypeOK
      <4> QED BY <1>1, <2>1, <2>2, <3>2, <4>1
    <3> QED BY <3>1, <3>2
  <2> QED BY <2>1, <2>2, <2>3 DEF SentInv, TypeOK
<1>4. ASSUME NEW p \in Publishers, Publish(p) PROVE SentInv'
  <2>1. PICK e \in batch[p] :
         /\ current' = [current EXCEPT ![p] = e]
         /\ batch' = [batch EXCEPT ![p] = batch[p] \ {e}]
         /\ \/ Send(e) /\ Goto(p, "complete")
            \/ (Send(e) \/ UNCHANGED sentFor) /\ Goto(p, "fail")
    BY <1>4, PublishShape
  <2>2. e \in Events /\ UNCHANGED <<attempt, published>>
    BY <1>4, PublishShape DEF TypeOK, rowVars
  <2>3. /\ UNCHANGED sentFor \/ sentFor' = [sentFor EXCEPT ![e] = sentFor[e] + 1]
        /\ pc' = [pc EXCEPT ![p] = "fail"]
           \/ /\ pc' = [pc EXCEPT ![p] = "complete"]
              /\ sentFor' = [sentFor EXCEPT ![e] = sentFor[e] + 1]
    BY <2>1, <2>2, SendShape DEF Goto
  <2>4. ASSUME NEW d \in Events
        PROVE  sentFor'[d] + Cardinality(Waiting(d)') <= attempt'[d]
    <3>1. CASE d = e
      <4>1. Waiting(d)' = Waiting(d) \ {p} /\ p \in Waiting(d)
        BY <2>1, <3>1 DEF Waiting, TypeOK
      <4>2. Cardinality(Waiting(d)') = Cardinality(Waiting(d)) - 1
        BY <4>1, WaitingFinite, FS_RemoveElement
      <4>3. sentFor'[d] <= sentFor[d] + 1 /\ sentFor'[d] \in Nat
        BY <1>1, <2>2, <2>3, <3>1 DEF TypeOK
      <4> QED BY <1>1, <2>2, <4>2, <4>3, WaitingFinite
    <3>2. CASE d # e
      <4>1. Waiting(d)' = Waiting(d) /\ sentFor'[d] = sentFor[d]
        BY <2>1, <2>2, <2>3, <3>2 DEF Waiting, TypeOK
      <4> QED BY <1>1, <2>2, <4>1
    <3> QED BY <3>1, <3>2
  <2>5. \A d \in Events : sentFor'[d] >= sentFor[d]
    BY <1>1, <2>2, <2>3 DEF TypeOK
  <2>6. ASSUME NEW d \in Events, published'[d] # "no" PROVE sentFor'[d] > 0
    <3>1. sentFor[d] > 0 /\ sentFor[d] \in Nat /\ sentFor'[d] \in Int
      BY <1>1, <2>2, <2>3, <2>6 DEF SentInv, TypeOK
    <3> QED BY <2>5, <3>1
  <2>7. ASSUME NEW q \in Publishers, pc'[q] = "complete"
        PROVE  sentFor'[current'[q]] > 0
    <3>1. CASE q = p
      BY <1>1, <2>1, <2>2, <2>3, <2>7, <3>1 DEF TypeOK
    <3>2. CASE q # p
      <4>1. pc[q] = "complete" /\ current'[q] = current[q] /\ current[q] \in Events
        BY <2>1, <2>3, <2>7, <3>2 DEF TypeOK
      <4>2. sentFor[current[q]] > 0 /\ sentFor[current[q]] \in Nat
            /\ sentFor'[current[q]] \in Int
        BY <1>1, <2>2, <2>3, <4>1 DEF SentInv, TypeOK
      <4> QED BY <2>5, <4>1, <4>2
    <3> QED BY <3>1, <3>2
  <2> QED BY <2>4, <2>6, <2>7 DEF SentInv
<1>5. ASSUME NEW p \in Publishers, Complete(p) \/ Fail(p) PROVE SentInv'
  <2>1. /\ current[p] \in Events /\ UNCHANGED <<attempt, sentFor, batch>>
        /\ \/ UNCHANGED published
           \/ /\ pc[p] = "complete"
              /\ published' = [published EXCEPT ![current[p]] = "recent"]
        /\ \A q \in Publishers : pc'[q] = "complete" =>
              pc[q] = "complete" /\ current'[q] = current[q]
    BY <1>5, OutcomeShape DEF Goto, TypeOK
  <2>2. ASSUME NEW e \in Events, published'[e] # "no" PROVE sentFor'[e] > 0
    BY <2>1, <2>2 DEF SentInv, TypeOK
  <2> QED BY <1>1, <2>1, <2>2 DEF SentInv, Waiting
<1>6. ASSUME NEW p \in Publishers, AbortPoll(p) PROVE SentInv'
  BY <1>2, <1>6 DEF AbortPoll, Goto, TypeOK, rowVars
<1>7. ASSUME NEW e \in Events, TurnStale(e) PROVE SentInv'
  <2>1. \A d \in Events : published'[d] # "no" => published[d] # "no"
    BY <1>7 DEF TurnStale, TypeOK
  <2> QED BY <1>2, <1>7, <2>1 DEF TurnStale, localVars
<1>8. ASSUME NEW p \in Publishers,
             FindCandidates(p) \/ CheckMarker(p) \/ Enqueue(p) \/ EndReconcile(p)
      PROVE  SentInv'
  <2>1. /\ UNCHANGED <<attempt, sentFor, published, batch>>
        /\ \A q \in Publishers : pc'[q] = "complete" =>
              pc[q] = "complete" /\ current'[q] = current[q]
    BY <1>8 DEF FindCandidates, CheckMarker, Enqueue, EndReconcile, Goto, TypeOK, rowVars
  <2> QED BY <1>2, <2>1
<1>9. CASE UNCHANGED <<attempt, sentFor, published, localVars>>
  BY <1>9 DEF SentInv, Waiting, localVars
<1> QED BY <1>3, <1>4, <1>5, <1>6, <1>7, <1>8, <1>9
        DEF Next, PollStep, CreateJob, CancelJob, LeaseLapses, Deliver, WorkOn, GiveBack,
            Acknowledge, RestartWorker, LoseValkey, WorkerUnchanged, vars, rowVars

(***************************************************************************)
(* Coverage: while Valkey keeps its data, an open job has an event or an   *)
(* entry that will bring it to a worker.                                   *)
(***************************************************************************)

Safe(j) == job[j] = "settled" \/ InStream(j)

\* Candidates were in the stream when they were found, and stay there until they
\* are settled; whoever could take up a settled job holds an entry of it.
CoverInv ==
    losses = 0 =>
        /\ markers = entries /\ pending \subseteq entries /\ held \subseteq entries
        /\ UnsettledJobIsCovered
        /\ \A p \in Publishers :
            /\ \A j \in candidates[p] : Safe(j)
            /\ pc[p] = "complete" => Safe(EventJob[current[p]])

LEMMA InitCover == Init => CoverInv
BY OutboxAssumption
   DEF Init, StreamInit, CoverInv, UnsettledJobIsCovered

\* A step that loses nothing leaves entries and markers alone, adds one of
\* each for an event in some publisher's hand, or removes those of a job that is
\* settled or has another entry.
LEMMA StreamShape ==
    ASSUME TypeOK, [Next]_vars, losses' = 0
    PROVE  /\ losses = 0
           /\ \/ UNCHANGED <<entries, markers>>
              \/ \E p \in Publishers : \E e \in batch[p] : \E m \in Messages :
                    /\ Publish(p) /\ Send(e) /\ current' = [current EXCEPT ![p] = e]
                    /\ JobOf[m] = EventJob[e]
                    /\ entries' = entries \union {m} /\ markers' = markers \union {m}
              \/ \E m \in Messages :
                    /\ Worker!MayAcknowledge(m) /\ UNCHANGED job
                    /\ entries' = entries \ {m} /\ markers' = markers \ {m}
<1>1. losses \in Nat
  BY DEF TypeOK
<1>2. CASE UNCHANGED <<entries, markers, losses>>
  BY <1>2
<1>3. ASSUME NEW p \in Publishers, Publish(p)
      PROVE  /\ UNCHANGED losses
             /\ \/ UNCHANGED <<entries, markers>>
                \/ \E e \in batch[p] : \E m \in Messages :
                      /\ Send(e) /\ current' = [current EXCEPT ![p] = e]
                      /\ JobOf[m] = EventJob[e]
                      /\ entries' = entries \union {m} /\ markers' = markers \union {m}
  <2>1. PICK e \in batch[p] : /\ current' = [current EXCEPT ![p] = e]
                              /\ Send(e) \/ UNCHANGED streamVars
    BY <1>3, PublishShape
  <2>2. e \in Events /\ UNCHANGED losses
    BY <1>3, PublishShape DEF TypeOK
  <2>3. CASE UNCHANGED streamVars
    BY <2>2, <2>3 DEF streamVars
  <2>4. CASE Send(e)
    <3>1. PICK m \in Messages \ sent : JobOf[m] = EventJob[e] /\ XAdd(m)
      BY <2>2, <2>4, SendShape
    <3> QED BY <2>1, <2>2, <2>4, <3>1 DEF XAdd
  <2> QED BY <2>1, <2>3, <2>4
<1>4. ASSUME NEW m \in Messages,
             Deliver(m) \/ WorkOn(m) \/ GiveBack(m) \/ Acknowledge(m)
      PROVE  /\ UNCHANGED losses
             /\ \/ UNCHANGED <<entries, markers>>
                \/ /\ Worker!MayAcknowledge(m) /\ UNCHANGED job
                   /\ entries' = entries \ {m} /\ markers' = markers \ {m}
  BY <1>4, WorkerShape, Zenon
<1>5. ASSUME NEW p \in Publishers, Complete(p) \/ Fail(p)
      PROVE  UNCHANGED <<entries, markers, losses>>
  BY <1>5, OutcomeShape DEF streamVars
<1>6. ASSUME LoseValkey PROVE FALSE
  BY <1>1, <1>6 DEF LoseValkey
<1> QED BY <1>2, <1>3, <1>4, <1>5, <1>6
        DEF Next, PollStep, CreateJob, CancelJob, FindCandidates, CheckMarker,
            Enqueue, EndReconcile, ClaimEvents, AbortPoll, Fault, LeaseLapses,
            TurnStale, RestartWorker, EnsureGroups, vars, streamVars, bounds

\* Entries in hand are in the stream, and leave it only together.
LEMMA HeldStays ==
    ASSUME TypeOK, CoverInv, [Next]_vars, losses' = 0
    PROVE  pending' \subseteq entries' /\ held' \subseteq entries'
<1>1. /\ losses = 0 /\ pending \subseteq entries /\ held \subseteq entries
  BY StreamShape DEF CoverInv
<1>2. CASE UNCHANGED <<entries, pending, held>>
  BY <1>1, <1>2
<1>3. ASSUME NEW m \in Messages,
             Deliver(m) \/ WorkOn(m) \/ GiveBack(m) \/ Acknowledge(m)
      PROVE  pending' \subseteq entries' /\ held' \subseteq entries'
  <2>1. CASE /\ UNCHANGED entries /\ pending' \subseteq pending \union entries
    BY <1>1, <1>3, <2>1, WorkerShape
  <2>2. CASE /\ entries' = entries \ {m} /\ pending' = pending \ {m}
             /\ held' = held \ {m}
    BY <1>1, <2>2
  <2> QED BY <1>3, <2>1, <2>2, WorkerShape
<1>4. ASSUME NEW p \in Publishers, Publish(p)
      PROVE  pending' \subseteq entries' /\ held' \subseteq entries'
  <2>1. PICK e \in batch[p] : Send(e) \/ UNCHANGED streamVars
    BY <1>4, PublishShape
  <2>2. e \in Events /\ UNCHANGED held
    BY <1>4, PublishShape DEF TypeOK
  <2>3. CASE Send(e)
    BY <1>1, <2>2, <2>3, SendShape DEF XAdd
  <2> QED BY <1>2, <2>1, <2>2, <2>3 DEF streamVars
<1>5. ASSUME NEW p \in Publishers, Complete(p) \/ Fail(p)
      PROVE  UNCHANGED <<entries, pending, held>>
  BY <1>5, OutcomeShape DEF streamVars
<1>6. CASE RestartWorker
  BY <1>1, <1>6 DEF RestartWorker, EnsureGroups
<1>7. ASSUME LoseValkey PROVE FALSE
  BY <1>1, <1>7 DEF LoseValkey
<1> QED BY <1>2, <1>3, <1>4, <1>5, <1>6, <1>7
        DEF Next, PollStep, CreateJob, CancelJob, FindCandidates, CheckMarker,
            Enqueue, EndReconcile, ClaimEvents, AbortPoll, LeaseLapses, TurnStale,
            vars, streamVars

\* A job that is settled or in the stream stays so.
LEMMA SafeStays ==
    ASSUME TypeOK, CoverInv, [Next]_vars, losses' = 0, NEW j \in Jobs, Safe(j)
    PROVE  Safe(j)'
<1>1. losses = 0 /\ held \subseteq entries
  BY StreamShape DEF CoverInv
<1>2. CASE job[j] = "settled"
  BY <1>1, <1>2, JobsRemain DEF Safe, InStream
<1>3. CASE job[j] # "settled"
  <2>1. PICK n \in entries : JobOf[n] = j
    BY <1>3 DEF Safe, InStream
  <2>2. \E k \in entries' : JobOf[k] = j
    BY <1>3, <2>1, StreamShape DEF Worker!MayAcknowledge
  <2> QED BY <2>2 DEF Safe, InStream
<1> QED BY <1>2, <1>3

\* An unsettled job that is covered stays covered by its event, unless a
\* publisher marks the event as published.
LEMMA CoveredStays ==
    ASSUME TypeOK, RowInv, CoverInv, [Next]_vars, losses' = 0, NEW j \in Jobs,
           job'[j] \in {"open", "active"}
    PROVE  Safe(j)' \/ ~NothingUnpublished(j)'
<1>1. losses = 0
  BY StreamShape
<1>2. CASE Safe(j)
  BY <1>2, SafeStays
<1>3. CASE ~NothingUnpublished(j)
  <2>1. PICK e \in created : EventJob[e] = j /\ published[e] = "no"
    BY <1>3 DEF NothingUnpublished, EventsOf, Unpublished
  <2>2. e \in created' /\ e \in Events
    BY EventsRemain, <2>1 DEF TypeOK
  <2>3. CASE published'[e] = "no"
    BY <2>1, <2>2, <2>3 DEF NothingUnpublished, EventsOf, Unpublished
  <2>4. CASE published'[e] # "no"
    <3>1. PICK p \in Publishers : pc[p] = "complete" /\ current[p] = e
      <4>1. ASSUME NEW p \in Publishers, PollStep(p) \/ AbortPoll(p)
            PROVE  pc[p] = "complete" /\ current[p] = e
        <5>1. CASE Complete(p) \/ Fail(p)
          BY <2>1, <2>2, <2>4, <5>1, OutcomeShape DEF TypeOK
        <5>2. CASE Publish(p)
          BY <2>1, <2>4, <5>2, PublishShape DEF rowVars
        <5> QED BY <2>1, <2>4, <4>1, <5>1, <5>2
                DEF PollStep, FindCandidates, CheckMarker, Enqueue, EndReconcile,
                    ClaimEvents, AbortPoll, rowVars
      <4>2. ASSUME NEW f \in Events, TurnStale(f) PROVE FALSE
        BY <2>1, <2>2, <2>4, <4>2 DEF TurnStale, TypeOK
      <4> QED BY <2>1, <2>4, <4>1, <4>2
              DEF Next, CreateJob, CancelJob, LeaseLapses, Deliver, WorkOn, GiveBack,
                  Acknowledge, RestartWorker, LoseValkey, WorkerUnchanged, vars,
                  rowVars
    <3>2. Safe(j)
      BY <1>1, <2>1, <3>1 DEF CoverInv
    <3> QED BY <3>2, SafeStays
  <2> QED BY <2>3, <2>4
<1>4. CASE job[j] = "absent"
  <2>1. CreateJob(j)
    <3>1. ASSUME NEW i \in Jobs, CreateJob(i) \/ CancelJob(i) PROVE CreateJob(j)
      BY <1>4, <3>1 DEF CreateJob, CancelJob, TypeOK
    <3>2. ASSUME NEW m \in Messages,
                 Deliver(m) \/ WorkOn(m) \/ GiveBack(m) \/ Acknowledge(m)
          PROVE  FALSE
      BY <1>4, <3>2, WorkerShape, JobOfAssumption DEF TypeOK
    <3>3. job' # job
      BY <1>4
    <3> QED BY <3>1, <3>2, <3>3, PublishersLeaveJobs
            DEF Next, LeaseLapses, TurnStale, RestartWorker, LoseValkey, vars,
                rowVars
  <2>2. PICK e \in Events \ created : EventJob[e] = j /\ created' = created \union {e}
    BY <2>1, InsertShape DEF CreateJob
  <2>3. published'[e] = "no"
    BY <2>1, <2>2 DEF CreateJob, RowInv, EventsInv
  <2> QED BY <2>2, <2>3 DEF NothingUnpublished, EventsOf, Unpublished
<1> QED BY <1>1, <1>2, <1>3, <1>4
        DEF CoverInv, UnsettledJobIsCovered, Safe, TypeOK, JobState

CoverOK(p) ==
    /\ \A j \in candidates[p] : Safe(j)
    /\ pc[p] = "complete" => Safe(EventJob[current[p]])

LEMMA CoverStep == TypeOK /\ RowInv /\ CoverInv /\ [Next]_vars => CoverInv'
<1> SUFFICES ASSUME TypeOK, RowInv, CoverInv, [Next]_vars, losses' = 0
             PROVE  CoverInv'
  BY DEF CoverInv
<1>1. /\ losses = 0 /\ markers = entries
      /\ \A q \in Publishers : CoverOK(q)
  BY StreamShape DEF CoverInv, CoverOK
<1>2. markers' = entries'
  BY <1>1, StreamShape
<1>3. UnsettledJobIsCovered'
  BY CoveredStays DEF UnsettledJobIsCovered, Safe
<1>4. \A j \in Jobs : Safe(j) => Safe(j)'
  BY SafeStays
<1>5. ASSUME NEW q \in Publishers, pc'[q] = pc[q], candidates'[q] = candidates[q],
             batch'[q] = batch[q], current'[q] = current[q]
      PROVE  CoverOK(q)'
  <2>1. \A j \in candidates[q] : j \in Jobs
    BY DEF TypeOK
  <2>2. pc[q] = "complete" => EventJob[current[q]] \in Jobs
    BY OutboxAssumption DEF TypeOK
  <2>3. \A j \in candidates'[q] : Safe(j)'
    BY <1>1, <1>4, <1>5, <2>1 DEF CoverOK
  <2>4. pc[q] = "complete" => Safe(EventJob[current[q]])'
    <3>1. PICK c : c = EventJob[current[q]]
      OBVIOUS
    <3>2. pc[q] = "complete" => Safe(c)'
      BY <1>1, <1>4, <2>2, <3>1 DEF CoverOK
    <3>3. EventJob[current'[q]] = c
      BY <1>5, <3>1
    <3> QED BY <3>2, <3>3 DEF Safe
  <2> QED BY <1>1, <1>4, <1>5, <2>3, <2>4 DEF CoverOK, Safe
<1>6. ASSUME NEW p \in Publishers, PollStep(p) \/ AbortPoll(p) PROVE CoverOK(p)'
  <2>1. CASE FindCandidates(p)
    <3>1. /\ candidates' = [candidates EXCEPT ![p] = {j \in Jobs : Candidate(j)}]
          /\ pc' = [pc EXCEPT ![p] = "reconcile"]
          /\ UNCHANGED <<current, job, entries>>
      BY <2>1 DEF FindCandidates, Goto, rowVars, streamVars
    <3>2. ASSUME NEW j \in Jobs, Candidate(j) PROVE Safe(j)
      BY <1>1, <3>2 DEF CoverInv, UnsettledJobIsCovered, Candidate, Safe
    <3> QED BY <1>1, <3>1, <3>2 DEF CoverOK, Safe, InStream, TypeOK
  <2>2. CASE CheckMarker(p)
    <3>1. PICK j \in candidates[p] :
           /\ candidates' = [candidates EXCEPT ![p] = candidates[p] \ {j}]
           /\ IF MarkerFound(j)
              THEN UNCHANGED <<pc, current>>
              ELSE /\ current' = [current EXCEPT ![p] = j]
                   /\ pc' = [pc EXCEPT ![p] = "enqueue"]
      BY <2>2 DEF CheckMarker, Goto
    <3>2. UNCHANGED <<job, entries>>
      BY <2>2 DEF CheckMarker, rowVars, streamVars
    <3> QED BY <1>1, <3>1, <3>2 DEF CoverOK, Safe, InStream, TypeOK
  <2>3. CASE Enqueue(p) \/ EndReconcile(p) \/ AbortPoll(p)
    <3>1. /\ candidates'[p] \subseteq candidates[p] /\ pc'[p] # "complete"
          /\ current'[p] \in Jobs => current'[p] = current[p]
          /\ UNCHANGED <<job, entries>>
      BY <2>3, OutboxAssumption
         DEF Enqueue, EndReconcile, AbortPoll, Goto, TypeOK, rowVars, streamVars
    <3> QED BY <1>1, <3>1 DEF CoverOK, Safe, InStream
  <2>4. CASE ClaimEvents(p)
    <3>1. /\ UNCHANGED <<candidates, current, job, entries>> /\ pc'[p] # "complete"
      BY <2>4, ClaimShape DEF Goto, TypeOK, streamVars
    <3> QED BY <1>1, <3>1 DEF CoverOK, Safe, InStream
  <2>5. CASE Complete(p) \/ Fail(p)
    <3>1. /\ UNCHANGED <<candidates, job, entries>> /\ pc'[p] # "complete"
          /\ current'[p] \in {current[p], Nobody}
      BY <2>5, OutcomeShape DEF Goto, TypeOK, streamVars
    <3> QED BY <1>1, <3>1, OutboxAssumption DEF CoverOK, Safe, InStream
  <2>6. CASE Publish(p)
    <3>1. PICK e \in batch[p] :
           /\ current' = [current EXCEPT ![p] = e]
           /\ (Send(e) /\ Goto(p, "complete")) \/ Goto(p, "fail")
      BY <2>6, PublishShape
    <3>2. e \in Events /\ e \notin Jobs /\ EventJob[e] \in Jobs
      BY OutboxAssumption DEF TypeOK
    <3>3. UNCHANGED <<candidates, job>> /\ current'[p] = e
      BY <2>6, <3>1, PublishShape DEF rowVars, TypeOK
    <3>4. ASSUME pc'[p] = "complete"
          PROVE  \E m \in entries' : JobOf[m] = EventJob[e]
      <4>1. Send(e)
        BY <3>1, <3>4 DEF Goto, TypeOK
      <4>2. PICK m \in Messages \ sent : JobOf[m] = EventJob[e] /\ XAdd(m)
        BY <3>2, <4>1, SendShape
      <4> QED BY <4>2 DEF XAdd
    <3>5. \A j \in candidates'[p] : Safe(j)'
      BY <1>1, <1>4, <3>3 DEF CoverOK, TypeOK
    <3> QED BY <3>2, <3>3, <3>4, <3>5 DEF CoverOK, Safe, InStream
  <2> QED BY <1>6, <2>1, <2>2, <2>3, <2>4, <2>5, <2>6 DEF PollStep
<1>7. \A q \in Publishers : CoverOK(q)'
  <2>1. CASE UNCHANGED localVars
    BY <1>5, <2>1 DEF localVars
  <2> QED BY <1>5, <1>6, <2>1, LocalShape
<1> QED BY <1>2, <1>3, <1>7, HeldStays DEF CoverInv, CoverOK

(***************************************************************************)
(* Without faults and losses: a claim stays with the publisher that works  *)
(* on it, an unsettled job has one event, and whatever of it is in the     *)
(* stream was sent for that event, once.                                   *)
(***************************************************************************)

Faultless == faults = 0 /\ losses = 0

\* The event has been sent, and is marked or about to be marked.
Dispatched(e) ==
    \/ published[e] # "no"
    \/ \E p \in Publishers : pc[p] = "complete" /\ current[p] = e

ClaimsKept ==
    /\ \A p \in Publishers : pc[p] # "fail"
    /\ \A e \in Events : ~lapsed[e]
    /\ \A e \in Events, p \in Publishers : AtWork(p, e) <=> claim[e] = p

SentOnce ==
    /\ \A j \in Jobs : job[j] # "settled" => \A e, f \in EventsOf(j) : e = f
    /\ \A m \in entries : job[JobOf[m]] # "settled" =>
          \E e \in EventsOf(JobOf[m]) : Dispatched(e)
    /\ \A m, n \in entries : JobOf[m] = JobOf[n] /\ job[JobOf[m]] # "settled" => m = n

\* A candidate whose marker is gone has been settled.
OnlySettledReplaced ==
    \A p \in Publishers : current[p] \in Jobs => job[current[p]] = "settled"

FaultlessInv == Faultless => ClaimsKept /\ SentOnce /\ OnlySettledReplaced

LEMMA InitFaultless == Init => FaultlessInv
BY OutboxAssumption
   DEF Init, StreamInit, FaultlessInv, ClaimsKept, SentOnce, OnlySettledReplaced,
       AtWork, EventsOf

\* What a publisher's step does when nothing goes wrong.
LEMMA FaultlessStepShape ==
    ASSUME TypeOK, [Next]_vars, Faultless'
    PROVE  /\ Faultless
           /\ \A p \in Publishers : ~AbortPoll(p)
           /\ \A p \in Publishers : Publish(p) =>
                \E e \in batch[p] :
                  /\ current' = [current EXCEPT ![p] = e]
                  /\ batch' = [batch EXCEPT ![p] = batch[p] \ {e}]
                  /\ pc' = [pc EXCEPT ![p] = "complete"]
                  /\ Send(e)
           /\ \A e \in Events : LeaseLapses(e) =>
                claim[e] # Nobody /\ ~AtWork(claim[e], e)
           /\ \A j \in Jobs : job[j] = "settled" => job'[j] = "settled"
<1>1. faults \in Nat /\ losses \in Nat /\ faults' = 0 /\ losses' = 0
  BY DEF TypeOK, Faultless
<1>2. losses = 0
  BY <1>1, StreamShape
<1>3. ASSUME Fault PROVE FALSE
  BY <1>1, <1>3 DEF Fault
<1>4. ASSUME NEW p \in Publishers, Publish(p)
      PROVE  /\ faults = 0
             /\ \E e \in batch[p] :
                  /\ current' = [current EXCEPT ![p] = e]
                  /\ batch' = [batch EXCEPT ![p] = batch[p] \ {e}]
                  /\ pc' = [pc EXCEPT ![p] = "complete"]
                  /\ Send(e)
  BY <1>1, <1>4, PublishShape DEF Goto
<1>5. ASSUME NEW p \in Publishers, Complete(p) \/ Fail(p) PROVE faults = 0
  BY <1>1, <1>5, OutcomeShape
<1>6. ASSUME NEW e \in Events, LeaseLapses(e)
      PROVE  claim[e] # Nobody /\ ~AtWork(claim[e], e) /\ faults = 0
  BY <1>1, <1>3, <1>6 DEF LeaseLapses, bounds
<1>7. ASSUME NEW m \in Messages,
             Deliver(m) \/ WorkOn(m) \/ GiveBack(m) \/ Acknowledge(m)
      PROVE  faults = 0
  BY <1>1, <1>3, <1>7, WorkerShape DEF bounds
<1>8. faults = 0
  BY <1>1, <1>3, <1>4, <1>5, <1>6, <1>7
     DEF Next, PollStep, CreateJob, CancelJob, FindCandidates, CheckMarker,
         Enqueue, EndReconcile, ClaimEvents, AbortPoll, TurnStale, RestartWorker,
         LoseValkey, vars, bounds
<1>9. \A j \in Jobs : job[j] = "settled" => job'[j] = "settled"
  BY <1>3, JobsRemain
<1> QED BY <1>2, <1>3, <1>4, <1>6, <1>8, <1>9 DEF Faultless, AbortPoll

LEMMA ClaimsKeptStep ==
    ASSUME TypeOK, RowInv, ClaimsKept, [Next]_vars, Faultless'
    PROVE  ClaimsKept'
<1>1. CASE UNCHANGED <<claim, lapsed, localVars>>
  BY <1>1 DEF ClaimsKept, AtWork, localVars
<1>2. ASSUME NEW p \in Publishers,
             FindCandidates(p) \/ CheckMarker(p) \/ Enqueue(p) \/ EndReconcile(p)
      PROVE  ClaimsKept'
  <2>1. /\ UNCHANGED <<claim, lapsed, batch>>
        /\ \A q \in Publishers : pc'[q] # "fail"
        /\ current[p] \notin Events /\ current'[p] \notin Events
        /\ \A q \in Publishers \ {p} : current'[q] = current[q]
    BY <1>2, OutboxAssumption
       DEF FindCandidates, CheckMarker, Enqueue, EndReconcile, Goto, ClaimsKept,
           TypeOK, rowVars
  <2> QED BY <2>1 DEF ClaimsKept, AtWork
<1>3. ASSUME NEW p \in Publishers, ClaimEvents(p) PROVE ClaimsKept'
  <2>1. PICK found \in SUBSET Claimable :
         /\ claim' = [e \in Events |-> IF e \in found THEN p ELSE claim[e]]
         /\ lapsed' = [e \in Events |-> lapsed[e] /\ e \notin found]
         /\ batch' = [batch EXCEPT ![p] = found]
         /\ Goto(p, IF found = {} THEN "idle" ELSE "publish")
    BY <1>3, ClaimShape
  <2>2. /\ UNCHANGED current /\ batch[p] = {} /\ current[p] \notin Events
    BY <1>3, ClaimShape DEF RowInv, HandInv, TypeOK
  <2>3. \A e \in found : e \in Events /\ claim[e] = Nobody
    BY DEF Claimable, Unpublished, ClaimsKept, TypeOK
  <2>4. ASSUME NEW e \in Events, NEW q \in Publishers
        PROVE  AtWork(q, e)' <=> claim'[e] = q
    <3>1. CASE q = p
      <4>1. AtWork(p, e)' <=> e \in found
        BY <2>1, <2>2 DEF AtWork, TypeOK
      <4>2. claim[e] # p
        BY <2>2 DEF ClaimsKept, AtWork
      <4> QED BY <2>1, <3>1, <4>1, <4>2
    <3>2. CASE q # p
      <4>1. AtWork(q, e)' <=> AtWork(q, e)
        BY <2>1, <2>2, <3>2 DEF AtWork, TypeOK
      <4>2. claim'[e] = q <=> claim[e] = q
        BY <2>1, <2>3, <3>2, OutboxAssumption
      <4> QED BY <4>1, <4>2 DEF ClaimsKept
    <3> QED BY <3>1, <3>2
  <2>5. /\ \A q \in Publishers : pc'[q] # "fail"
        /\ \A e \in Events : ~lapsed'[e]
    BY <2>1 DEF Goto, ClaimsKept, TypeOK
  <2> QED BY <2>4, <2>5 DEF ClaimsKept
<1>4. ASSUME NEW p \in Publishers, Publish(p) PROVE ClaimsKept'
  <2>1. PICK e \in batch[p] :
         /\ current' = [current EXCEPT ![p] = e]
         /\ batch' = [batch EXCEPT ![p] = batch[p] \ {e}]
         /\ pc' = [pc EXCEPT ![p] = "complete"]
    BY <1>4, FaultlessStepShape
  <2>2. UNCHANGED <<claim, lapsed>> /\ current[p] \notin Events
    BY <1>4, PublishShape DEF rowVars, TypeOK
  <2>3. \A f \in Events, q \in Publishers : AtWork(q, f)' <=> AtWork(q, f)
    BY <2>1, <2>2 DEF AtWork, TypeOK
  <2> QED BY <2>1, <2>2, <2>3 DEF ClaimsKept, TypeOK
<1>5. ASSUME NEW p \in Publishers, Complete(p) PROVE ClaimsKept'
  <2>1. PICK e \in Events : e = current[p]
    BY <1>5, OutcomeShape
  <2>2. claim[e] = p /\ e \notin batch[p]
    BY <2>1 DEF ClaimsKept, AtWork, RowInv, HandInv
  <2>3. /\ current' = [current EXCEPT ![p] = Nobody]
        /\ pc' = [pc EXCEPT ![p] = IF batch[p] = {} THEN "idle" ELSE "publish"]
        /\ UNCHANGED batch
    <3>1. faults = 0 /\ faults' = 0
      BY FaultlessStepShape DEF Faultless
    <3> QED BY <1>5, <3>1, OutcomeShape DEF Goto
  <2>4. /\ claim' = [claim EXCEPT ![e] = Nobody]
        /\ lapsed' = [lapsed EXCEPT ![e] = FALSE]
    <3>1. ~Fault
      BY FaultlessStepShape DEF Faultless, Fault
    <3> QED BY <1>5, <2>1, <2>2, <3>1 DEF Complete, MarkPublished, HoldsClaim
  <2>5. ASSUME NEW f \in Events, NEW q \in Publishers
        PROVE  AtWork(q, f)' <=> claim'[f] = q
    <3>1. CASE f = e
      <4>1. ~AtWork(q, e)'
        BY <2>1, <2>2, <2>3, OutboxAssumption DEF ClaimsKept, AtWork, TypeOK
      <4>2. claim'[e] # q
        BY <2>4, OutboxAssumption DEF TypeOK
      <4> QED BY <3>1, <4>1, <4>2
    <3>2. CASE f # e
      BY <2>1, <2>3, <2>4, <3>2, OutboxAssumption DEF ClaimsKept, AtWork, TypeOK
    <3> QED BY <3>1, <3>2
  <2> QED BY <2>3, <2>4, <2>5 DEF ClaimsKept, TypeOK
<1>6. ASSUME NEW p \in Publishers, Fail(p) PROVE FALSE
  BY <1>6 DEF Fail, ClaimsKept
<1>7. ASSUME NEW e \in Events, LeaseLapses(e) PROVE FALSE
  BY <1>7, FaultlessStepShape DEF ClaimsKept, TypeOK
<1> QED BY <1>1, <1>2, <1>3, <1>4, <1>5, <1>6, <1>7, FaultlessStepShape
        DEF Next, PollStep, CreateJob, CancelJob, TurnStale, Deliver, WorkOn, GiveBack,
            Acknowledge, RestartWorker, LoseValkey, WorkerUnchanged, vars, rowVars

\* The events of a job that stays unsettled: none is added but the first.
LEMMA EventsOfUnsettled ==
    ASSUME TypeOK, RowInv, OnlySettledReplaced, [Next]_vars, Faultless',
           NEW j \in Jobs, job'[j] # "settled"
    PROVE  /\ job[j] # "settled"
           /\ \/ EventsOf(j)' = EventsOf(j)
              \/ /\ EventsOf(j) = {} /\ UNCHANGED entries
                 /\ \E e \in Events : EventsOf(j)' = {e}
<1>1. job[j] # "settled" /\ losses = 0
  BY FaultlessStepShape DEF Faultless
<1>2. CASE UNCHANGED created
  BY <1>1, <1>2 DEF EventsOf
<1>3. ASSUME NEW i \in Jobs, CreateJob(i)
      PROVE  \/ EventsOf(j)' = EventsOf(j)
             \/ /\ EventsOf(j) = {} /\ UNCHANGED entries
                /\ \E e \in Events : EventsOf(j)' = {e}
  <2>1. PICK e \in Events \ created : EventJob[e] = i /\ created' = created \union {e}
    BY <1>3, InsertShape DEF CreateJob
  <2>2. CASE i = j
    <3>1. EventsOf(j) = {}
      BY <1>3, <2>2 DEF CreateJob, EventsOf, RowInv, EventsInv, TypeOK
    <3>2. EventsOf(j)' = {e}
      BY <2>1, <2>2, <3>1 DEF EventsOf
    <3> QED BY <1>3, <3>1, <3>2 DEF CreateJob, streamVars
  <2>3. CASE i # j
    BY <2>1, <2>3 DEF EventsOf
  <2> QED BY <2>2, <2>3
<1>4. ASSUME NEW p \in Publishers, Enqueue(p) PROVE EventsOf(j)' = EventsOf(j)
  <2>1. PICK i \in Jobs : i = current[p]
    BY <1>4 DEF Enqueue, TypeOK
  <2>2. i # j
    BY <1>1, <1>4, <2>1 DEF OnlySettledReplaced
  <2>3. \/ \E e \in Events \ created : EventJob[e] = i /\ created' = created \union {e}
        \/ UNCHANGED created
    BY <1>4, <2>1, InsertShape DEF Enqueue
  <2> QED BY <2>2, <2>3 DEF EventsOf
<1>5. ASSUME NEW p \in Publishers, Publish(p) PROVE UNCHANGED created
  BY <1>5, PublishShape DEF rowVars
<1>6. ASSUME NEW p \in Publishers, Complete(p) \/ Fail(p) PROVE UNCHANGED created
  BY <1>6, OutcomeShape
<1> QED BY <1>1, <1>2, <1>3, <1>4, <1>5, <1>6
        DEF Next, PollStep, CancelJob, FindCandidates, CheckMarker, EndReconcile,
            ClaimEvents, AbortPoll, LeaseLapses, TurnStale, Deliver, WorkOn, GiveBack,
            Acknowledge, RestartWorker, LoseValkey, WorkerUnchanged, vars, rowVars

\* What has been sent stays marked, or is being marked.
LEMMA DispatchedStays ==
    ASSUME TypeOK, RowInv, ClaimsKept, [Next]_vars, Faultless',
           NEW e \in Events, Dispatched(e)
    PROVE  Dispatched(e)'
<1>1. CASE published[e] # "no"
  <2>1. ASSUME NEW p \in Publishers, Complete(p) \/ Fail(p) PROVE published'[e] # "no"
    BY <1>1, <2>1, OutcomeShape DEF TypeOK
  <2>2. ASSUME NEW f \in Events, TurnStale(f) PROVE published'[e] # "no"
    BY <1>1, <2>2 DEF TurnStale, TypeOK
  <2>3. ASSUME NEW p \in Publishers, Publish(p) PROVE published'[e] # "no"
    BY <1>1, <2>3, PublishShape DEF rowVars
  <2>4. published'[e] # "no"
    BY <1>1, <2>1, <2>2, <2>3
       DEF Next, PollStep, CreateJob, CancelJob, FindCandidates, CheckMarker,
           Enqueue, EndReconcile, ClaimEvents, AbortPoll, LeaseLapses, Deliver,
           WorkOn, GiveBack, Acknowledge, RestartWorker, LoseValkey, WorkerUnchanged, vars,
           rowVars
  <2> QED BY <2>4 DEF Dispatched
<1>2. ASSUME NEW p \in Publishers, pc[p] = "complete", current[p] = e
      PROVE  Dispatched(e)'
  <2>1. CASE pc'[p] = pc[p] /\ current'[p] = current[p]
    BY <1>2, <2>1 DEF Dispatched
  <2>2. CASE PollStep(p) \/ AbortPoll(p)
    <3>1. Complete(p)
      BY <1>2, <2>2, FaultlessStepShape, PublishShape, ClaimShape
         DEF PollStep, FindCandidates, CheckMarker, Enqueue, EndReconcile, Fail
    <3>2. claim[e] = p
      BY <1>2 DEF ClaimsKept, AtWork
    <3>3. published' = [published EXCEPT ![e] = "recent"]
      <4>1. ~Fault
        BY FaultlessStepShape DEF Faultless, Fault
      <4> QED BY <1>2, <3>1, <3>2, <4>1 DEF Complete, MarkPublished, HoldsClaim
    <3> QED BY <3>3 DEF Dispatched, TypeOK
  <2> QED BY <2>1, <2>2, LocalShape DEF localVars
<1> QED BY <1>1, <1>2 DEF Dispatched

LEMMA SentOnceStep ==
    ASSUME TypeOK, RowInv, ClaimsKept, SentOnce, OnlySettledReplaced, [Next]_vars,
           Faultless'
    PROVE  SentOnce'
<1>1. ASSUME NEW j \in Jobs, job'[j] # "settled" PROVE \A e, f \in EventsOf(j)' : e = f
  BY <1>1, EventsOfUnsettled DEF SentOnce
<1>2. ASSUME NEW m \in Messages, job'[JobOf[m]] # "settled"
      PROVE  job[JobOf[m]] # "settled" /\ JobOf[m] \in Jobs
  BY <1>2, FaultlessStepShape, JobOfAssumption
\* Entries that were there before.
<1>3. ASSUME NEW m \in entries, m \in Messages, job'[JobOf[m]] # "settled"
      PROVE  \E e \in EventsOf(JobOf[m])' : Dispatched(e)'
  <2>1. PICK e \in EventsOf(JobOf[m]) : Dispatched(e)
    BY <1>2, <1>3 DEF SentOnce
  <2>2. PICK j \in Jobs : j = JobOf[m]
    BY <1>3, JobOfAssumption
  <2>3. e \in EventsOf(j)'
    BY <1>3, <2>1, <2>2, EventsOfUnsettled
  <2>4. e \in Events
    BY <2>1 DEF EventsOf, TypeOK
  <2>5. Dispatched(e)'
    BY <2>1, <2>4, DispatchedStays
  <2> QED BY <2>2, <2>3, <2>5 DEF EventsOf
<1>4. entries \subseteq Messages
  BY DEF TypeOK, StreamTypeOK
<1>5. CASE entries' \subseteq entries
  <2>1. \A m \in entries' : job'[JobOf[m]] # "settled" =>
           \E e \in EventsOf(JobOf[m])' : Dispatched(e)'
    BY <1>3, <1>4, <1>5
  <2>2. \A m, n \in entries' : JobOf[m] = JobOf[n] /\ job'[JobOf[m]] # "settled" => m = n
    BY <1>2, <1>4, <1>5 DEF SentOnce
  <2> QED BY <1>1, <2>1, <2>2 DEF SentOnce, EventsOf, Dispatched
<1>6. ASSUME NEW p \in Publishers, NEW e \in batch[p], NEW x \in Messages,
             Publish(p), current' = [current EXCEPT ![p] = e],
             JobOf[x] = EventJob[e], entries' = entries \union {x}
      PROVE  SentOnce'
  <2>1. PICK j \in Jobs : j = JobOf[x]
    BY JobOfAssumption
  <2>2. /\ UNCHANGED <<job, created, published>> /\ pc[p] = "publish"
        /\ e \in Events /\ e \in created /\ claim[e] = p /\ published[e] = "no"
    BY <1>6, PublishShape, OutboxAssumption
       DEF rowVars, ClaimsKept, AtWork, RowInv, HandInv, EventsInv, TypeOK
  <2>3. pc'[p] = "complete" /\ current'[p] = e
    <3>1. pc' = [pc EXCEPT ![p] = "complete"]
      BY <1>6, FaultlessStepShape, Zenon
    <3> QED BY <1>6, <3>1 DEF TypeOK
  <2>4. Dispatched(e)' /\ e \in EventsOf(j)'
    BY <1>6, <2>1, <2>2, <2>3 DEF Dispatched, EventsOf
  <2>5. ~Dispatched(e)
    <3>1. ASSUME NEW q \in Publishers, pc[q] = "complete", current[q] = e PROVE FALSE
      <4>1. claim[e] = q
        BY <2>2, <3>1 DEF ClaimsKept, AtWork
      <4> QED BY <2>2, <3>1, <4>1
    <3> QED BY <2>2, <3>1 DEF Dispatched
  <2>6. ASSUME NEW n \in entries, JobOf[n] = j, job[j] # "settled" PROVE FALSE
    <3>1. PICK f \in EventsOf(j) : Dispatched(f)
      BY <2>6 DEF SentOnce
    <3>2. f = e
      BY <1>6, <2>1, <2>2, <2>6 DEF SentOnce, EventsOf
    <3> QED BY <2>5, <3>1, <3>2
  <2>7. ASSUME NEW m \in entries', job'[JobOf[m]] # "settled"
        PROVE  \E f \in EventsOf(JobOf[m])' : Dispatched(f)'
    <3>1. CASE m = x
      BY <2>1, <2>4, <3>1
    <3>2. CASE m \in entries
      BY <1>3, <1>4, <2>7, <3>2
    <3> QED BY <1>6, <2>7, <3>1, <3>2
  <2>8. ASSUME NEW m \in entries', NEW n \in entries', JobOf[m] = JobOf[n],
               job'[JobOf[m]] # "settled"
        PROVE  m = n
    BY <1>6, <2>1, <2>2, <2>6, <2>8 DEF SentOnce
  <2> QED BY <1>1, <2>7, <2>8 DEF SentOnce, EventsOf, Dispatched
<1>7. losses' = 0
  BY DEF Faultless
<1>8. CASE UNCHANGED <<entries, markers>>
  BY <1>5, <1>8
<1>9. CASE \E m \in Messages : entries' = entries \ {m}
  BY <1>5, <1>9
<1> QED BY <1>6, <1>7, <1>8, <1>9, StreamShape, Zenon

\* Without losses a candidate is settled or in the stream, where its marker is.
LEMMA ReplacedStep ==
    ASSUME TypeOK, CoverInv, OnlySettledReplaced, [Next]_vars, Faultless'
    PROVE  OnlySettledReplaced'
<1>1. /\ \A j \in Jobs : job[j] = "settled" => job'[j] = "settled"
      /\ losses = 0 /\ markers = entries
  BY FaultlessStepShape DEF Faultless, CoverInv
<1>2. ASSUME NEW q \in Publishers, current'[q] = current[q], current'[q] \in Jobs
      PROVE  job'[current'[q]] = "settled"
  BY <1>1, <1>2 DEF OnlySettledReplaced
<1>3. ASSUME NEW p \in Publishers, CheckMarker(p), current'[p] \in Jobs
      PROVE  job'[current'[p]] = "settled"
  <2>1. PICK j \in candidates[p] :
          IF MarkerFound(j) THEN UNCHANGED current
                            ELSE current' = [current EXCEPT ![p] = j]
    BY <1>3 DEF CheckMarker
  <2>2. CASE MarkerFound(j)
    BY <1>2, <1>3, <2>1, <2>2
  <2>3. CASE ~MarkerFound(j)
    <3>1. j \in Jobs /\ Safe(j)
      BY <1>1 DEF CoverInv, TypeOK
    <3>2. job[j] = "settled"
      BY <1>1, <2>3, <3>1 DEF MarkerFound, HasJobDelivery, Safe, InStream
    <3>3. current'[p] = j
      BY <2>1, <2>3 DEF TypeOK
    <3> QED BY <1>1, <3>1, <3>2, <3>3
  <2> QED BY <2>2, <2>3
<1>4. ASSUME NEW p \in Publishers, PollStep(p), ~CheckMarker(p), current'[p] \in Jobs
      PROVE  current'[p] = current[p]
  <2>1. CASE FindCandidates(p) \/ Enqueue(p) \/ EndReconcile(p)
    BY <1>4, <2>1, OutboxAssumption DEF FindCandidates, Enqueue, EndReconcile, TypeOK
  <2>2. CASE ClaimEvents(p)
    BY <2>2, ClaimShape
  <2>3. CASE Publish(p)
    BY <1>4, <2>3, PublishShape, OutboxAssumption DEF TypeOK
  <2>4. CASE Complete(p) \/ Fail(p)
    BY <1>4, <2>4, OutcomeShape, OutboxAssumption DEF TypeOK
  <2> QED BY <1>4, <2>1, <2>2, <2>3, <2>4 DEF PollStep
<1>5. ASSUME NEW q \in Publishers, current'[q] \in Jobs
      PROVE  job'[current'[q]] = "settled"
  <2>1. CASE UNCHANGED localVars
    BY <1>2, <1>5, <2>1 DEF localVars
  <2> QED BY <1>2, <1>3, <1>4, <1>5, <2>1, LocalShape, FaultlessStepShape
<1> QED BY <1>5 DEF OnlySettledReplaced

LEMMA FaultlessStep ==
    TypeOK /\ RowInv /\ CoverInv /\ FaultlessInv /\ [Next]_vars => FaultlessInv'
<1> SUFFICES ASSUME TypeOK, RowInv, CoverInv, FaultlessInv, [Next]_vars, Faultless'
             PROVE  ClaimsKept' /\ SentOnce' /\ OnlySettledReplaced'
  BY DEF FaultlessInv
<1>1. ClaimsKept /\ SentOnce /\ OnlySettledReplaced
  BY FaultlessStepShape DEF FaultlessInv
<1> QED BY <1>1, ClaimsKeptStep, SentOnceStep, ReplacedStep

(***************************************************************************)
(* The safety properties.                                                  *)
(***************************************************************************)

ReachableInv == TypeOK /\ RowInv /\ SentInv /\ CoverInv /\ FaultlessInv

LEMMA ReachableInitially == Init => ReachableInv
BY InitType, InitRows, InitSent, InitCover, InitFaultless DEF ReachableInv

LEMMA ReachableStep == ReachableInv /\ [Next]_vars => ReachableInv'
BY TypeInvariant, EventsStep, HandStep, SentStep, CoverStep, FaultlessStep
   DEF ReachableInv, RowInv

LEMMA ReachableAlways == Spec => []ReachableInv
BY ReachableInitially, ReachableStep, PTL DEF Spec

\* As long as Valkey loses nothing, every job that is not settled has an event
\* still to be published or an entry in the stream, whatever publishers and
\* workers go through.
THEOREM UnsettledJobIsCoveredHolds == Spec => []UnsettledJobIsCovered
<1>1. ReachableInv => UnsettledJobIsCovered
  BY DEF ReachableInv, CoverInv, UnsettledJobIsCovered
<1> QED BY <1>1, ReachableAlways, PTL

\* A job never has two events waiting, although several API processes
\* reconcile at once.
THEOREM OneEventWaitingHolds == Spec => []OneEventWaiting
<1>1. ReachableInv => OneEventWaiting
  BY DEF ReachableInv, RowInv, EventsInv
<1> QED BY <1>1, ReachableAlways, PTL

\* Without a failure, an overrun lease or a loss of Valkey, an unsettled job
\* is never in the stream twice.
THEOREM DeliveredOnceWithoutFaultHolds == Spec => []DeliveredOnceWithoutFault
<1>1. ReachableInv => DeliveredOnceWithoutFault
  BY DEF ReachableInv, FaultlessInv, Faultless, SentOnce, DeliveredOnceWithoutFault
<1> QED BY <1>1, ReachableAlways, PTL

\* A claim buys at most one send, and an event counts as published only after
\* a send.
THEOREM SendsMatchClaimsHolds == Spec => []SendsMatchClaims
<1>1. ASSUME ReachableInv, NEW e \in Events
      PROVE  sentFor[e] <= attempt[e] /\ (published[e] # "no" => sentFor[e] > 0)
  <2>1. /\ sentFor[e] + Cardinality(Waiting(e)) <= attempt[e]
        /\ published[e] # "no" => sentFor[e] > 0
        /\ sentFor[e] \in Nat /\ attempt[e] \in Nat
    BY <1>1 DEF ReachableInv, SentInv, TypeOK
  <2> QED BY <2>1, WaitingFinite
<1>2. ReachableInv => SendsMatchClaims
  BY <1>1 DEF SendsMatchClaims
<1> QED BY <1>2, ReachableAlways, PTL

\* A claim whose lease has not run out is given up by its holder only.
THEOREM ClaimsRespectedHolds == Spec => ClaimsRespected
<1> DEFINE Respected ==
      \A e \in Events : claim[e] # Nobody /\ ~lapsed[e] /\ claim'[e] # claim[e] =>
          \E p \in Publishers : claim[e] = p /\ current[p] = e
<1>1. ASSUME TypeOK, [Next]_vars PROVE Respected
  <2>1. ASSUME NEW p \in Publishers, ClaimEvents(p) PROVE Respected
    <3>1. PICK found \in SUBSET Claimable :
            claim' = [e \in Events |-> IF e \in found THEN p ELSE claim[e]]
      BY <2>1, ClaimShape
    <3>2. \A e \in found : claim[e] = Nobody \/ lapsed[e]
      BY DEF Claimable
    <3> QED BY <3>1, <3>2
  <2>2. ASSUME NEW p \in Publishers, Complete(p) \/ Fail(p) PROVE Respected
    BY <1>1, <2>2, OutcomeShape DEF TypeOK
  <2>3. ASSUME NEW p \in Publishers, Publish(p) PROVE UNCHANGED claim
    BY <1>1, <2>3, PublishShape DEF rowVars
  <2> QED BY <1>1, <2>1, <2>2, <2>3
          DEF Next, PollStep, CreateJob, CancelJob, FindCandidates, CheckMarker,
              Enqueue, EndReconcile, AbortPoll, LeaseLapses, TurnStale, Deliver,
              WorkOn, GiveBack, Acknowledge, RestartWorker, LoseValkey, WorkerUnchanged,
              vars, rowVars
<1>2. TypeOK /\ [Next]_vars => [Respected]_vars
  BY <1>1
<1> QED BY <1>2, TypeCorrect, PTL DEF Spec, ClaimsRespected
=============================================================================
