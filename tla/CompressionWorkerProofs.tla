----------------------- MODULE CompressionWorkerProofs -----------------------
(***************************************************************************)
(* Theorems about CompressionWorker for every set of jobs, deliveries and  *)
(* workers and every WORKER_MAX_ATTEMPTS.                                  *)
(***************************************************************************)
EXTENDS CompressionWorker, TLAPS

(***************************************************************************)
(* Type correctness.                                                       *)
(***************************************************************************)

\* The state table of process_job names states and operations only, and no
\* transition it lists starts or ends in a terminal state.
LEMMA TransitionType ==
    ASSUME NEW op \in DOMAIN Transition
    PROVE  /\ op \in Handling
           /\ Transition[op][1] \in Status \ Terminal
           /\ Transition[op][2] \in Status \ Terminal
           /\ Transition[op][3] \in Handling
BY DEF Transition, Handling, Status, Terminal

\* A worker that is not idle holds a delivery of some job.
LEMMA BusyHoldsJob ==
    ASSUME TypeOK, NEW w \in Workers, pc[w] # "idle"
    PROVE  msg[w] \in Messages /\ Job(w) \in Jobs
BY JobOfAssumption, WorkerAssumption DEF TypeOK, Job

\* Initially every variable has its type.
LEMMA InitType == Init => TypeOK
BY WorkerAssumption
   DEF Init, TypeOK, StreamInit, StreamTypeOK, Status, Operations, Unread

\* A worker that lets go of its delivery is idle and holds none.
LEMMA ReleaseType ==
    ASSUME TypeOK, NEW w \in Workers, NEW rest \in SUBSET Messages,
           Release(w, rest)
    PROVE  /\ pc' \in [Workers -> Operations]
           /\ msg' \in [Workers -> Messages \union {NoMessage}]
           /\ fresh' \in [Workers -> BOOLEAN]
           /\ batch' \in [Workers -> SUBSET Messages]
           /\ seen' \in [Workers -> [status : Status, attempt : Nat]]
           /\ run' \in [Workers -> Nat]
           /\ \A v \in Workers : msg'[v] = NoMessage <=> pc'[v] = "idle"
BY DEF TypeOK, Release, Goto, Operations, Status, Unread

\* Taking, returning and dropping deliveries keeps the types.
LEMMA DeliveryType ==
    ASSUME TypeOK, NEW w \in Workers,
           Poll(w) \/ Acknowledge(w) \/ AcknowledgeError(w) \/ Crash(w)
    PROVE  TypeOK'
<1>1. ASSUME NextOfBatch(w) PROVE TypeOK'
  BY <1>1, WorkerAssumption
     DEF TypeOK, StreamTypeOK, NextOfBatch, Take, Goto, Operations, Status,
         streamVars, rowVars
<1>2. ASSUME NEW m \in Messages, ReadNew(w, m) PROVE TypeOK'
  BY <1>2, WorkerAssumption
     DEF TypeOK, StreamTypeOK, ReadNew, XReadGroup, Take, Goto, Operations,
         Status, rowVars
<1>3. ASSUME NEW claimed \in SUBSET Messages, Reclaim(w, claimed)
      PROVE  TypeOK'
  BY <1>3, WorkerAssumption
     DEF TypeOK, StreamTypeOK, Reclaim, Take, Goto, Operations, Status,
         streamVars, rowVars
<1>4. ASSUME AckAndDelete(msg[w]) \/ UNCHANGED streamVars
      PROVE  StreamTypeOK'
  BY <1>4 DEF TypeOK, StreamTypeOK, AckAndDelete, streamVars
<1>5. batch[w] \in SUBSET Messages /\ {} \in SUBSET Messages
  BY DEF TypeOK
<1>6. ASSUME Acknowledge(w) PROVE TypeOK'
  BY ReleaseType, <1>4, <1>5, <1>6 DEF TypeOK, Acknowledge, rowVars
<1>7. ASSUME AcknowledgeError(w) PROVE TypeOK'
  BY ReleaseType, <1>4, <1>5, <1>7 DEF TypeOK, AcknowledgeError, rowVars
<1>8. ASSUME Crash(w) PROVE TypeOK'
  BY ReleaseType, <1>4, <1>5, <1>8 DEF TypeOK, Crash, rowVars
<1> QED BY <1>1, <1>2, <1>3, <1>6, <1>7, <1>8 DEF Poll

\* A worker that goes on with the delivery in its hand is not idle.
LEMMA GotoType ==
    ASSUME TypeOK, NEW w \in Workers, pc[w] # "idle",
           NEW op \in Operations \ {"idle"}, Goto(w, op), UNCHANGED msg
    PROVE  /\ pc' \in [Workers -> Operations]
           /\ msg' \in [Workers -> Messages \union {NoMessage}]
           /\ \A v \in Workers : msg'[v] = NoMessage <=> pc'[v] = "idle"
BY DEF TypeOK, Goto

\* The operations a busy worker can go to are operations.
LEMMA OperationNames ==
    /\ Handling \subseteq Operations \ {"idle"}
    /\ {"read", "fail", "ack"} \subseteq Operations \ {"idle"}
    /\ {"sweep", "reset", "claim", "validate", "preprocess", "persist",
        "select", "package"} \subseteq Handling
BY DEF Handling, Operations

\* So are the states it writes.
LEMMA StateNames ==
    /\ {"PENDING", "VALIDATING", "FAILED_RETRYABLE"} \subseteq Status
    /\ Terminal \subseteq Status
    /\ {"COMPLETED", "FAILED_TERMINAL", "CANCELLED"} \subseteq Terminal
BY DEF Status, Terminal

\* The two outcomes of the transaction of _recover_compression_job: refused by
\* a foreign key, or the job is reset to PENDING or given up.
LEMMA ResetOutcomes ==
    ASSUME NEW w \in Workers, RecoverReset(w)
    PROVE  \/ /\ Goto(w, "fail")
              /\ UNCHANGED <<status, attempt, selected, rows, marked>>
           \/ /\ rows[Job(w)] \intersect pinned[Job(w)] = {}
              /\ selected' = [selected EXCEPT ![Job(w)] = 0]
              /\ rows' = [rows EXCEPT ![Job(w)] = {}]
              /\ marked' = [marked EXCEPT ![Job(w)] = {}]
              /\ attempt' = [attempt EXCEPT ![Job(w)] = NextAttempt(w)]
              /\ \/ /\ Exhausted(NextAttempt(w))
                    /\ status' = [status EXCEPT ![Job(w)] = "FAILED_TERMINAL"]
                    /\ Goto(w, "ack")
                 \/ /\ ~Exhausted(NextAttempt(w))
                    /\ status' = [status EXCEPT ![Job(w)] = "PENDING"]
                    /\ Goto(w, "claim")
BY Zenon DEF RecoverReset, Forget

\* The same, without saying which of the two resets it was.
LEMMA ResetShape ==
    ASSUME NEW w \in Workers, RecoverReset(w)
    PROVE  \/ /\ Goto(w, "fail")
              /\ UNCHANGED <<status, attempt, selected, rows, marked>>
           \/ \E s, op :
              /\ selected' = [selected EXCEPT ![Job(w)] = 0]
              /\ rows' = [rows EXCEPT ![Job(w)] = {}]
              /\ marked' = [marked EXCEPT ![Job(w)] = {}]
              /\ attempt' = [attempt EXCEPT ![Job(w)] = NextAttempt(w)]
              /\ status' = [status EXCEPT ![Job(w)] = s]
              /\ Goto(w, op)
BY ResetOutcomes, Zenon

\* Every operation of process_job and _fail_job keeps the types.
LEMMA HandleType ==
    ASSUME TypeOK, NEW w \in Workers, Handle(w)
    PROVE  TypeOK'
<1> pc[w] # "idle"
  BY DEF Handle, ReadJob, RecoverSweep, RecoverReset, Claim, Advance,
         Transition, Validate, PutObjects, PersistRows, MarkCompressed,
         Complete, TerminalFailure, Raise, Handling, FailJob
<1> Job(w) \in Jobs
  BY BusyHoldsJob
<1> DEFINE Step(op) == Goto(w, op) /\ UNCHANGED msg
<1> DEFINE StepTyped ==
      /\ pc' \in [Workers -> Operations]
      /\ msg' \in [Workers -> Messages \union {NoMessage}]
      /\ \A v \in Workers : msg'[v] = NoMessage <=> pc'[v] = "idle"
<1>0. ASSUME NEW op \in Operations \ {"idle"}, Step(op) PROVE StepTyped
  BY <1>0, GotoType
<1> HIDE DEF StepTyped
<1>a. ASSUME StepTyped, UNCHANGED streamVars,
             status' \in [Jobs -> Status], attempt' \in [Jobs -> Nat],
             UNCHANGED <<selected, rows, marked, pinned, completions, source,
                         objects, fresh, batch, seen, run, runs, faults>>
      PROVE  TypeOK'
  BY <1>a DEF TypeOK, StepTyped, StreamTypeOK, streamVars
<1>1. CASE ReadJob(w)
  <2>1. StepTyped
    BY <1>0, <1>1, OperationNames DEF ReadJob
  <2>2. seen' \in [Workers -> [status : Status, attempt : Nat]]
    BY <1>1 DEF ReadJob, TypeOK
  <2> QED BY <1>1, <2>1, <2>2
          DEF ReadJob, TypeOK, StepTyped, StreamTypeOK, streamVars, rowVars
<1>2. CASE RecoverSweep(w)
  <2>1. StepTyped
    BY <1>0, <1>2, OperationNames DEF RecoverSweep, localVars
  <2> QED BY <1>2, <2>1
          DEF RecoverSweep, TypeOK, StepTyped, StreamTypeOK, streamVars,
              rowVars, localVars
<1>3. CASE RecoverReset(w)
  <2>1. NextAttempt(w) \in Nat
    BY DEF NextAttempt, TypeOK
  <2>2. StepTyped
    BY <1>0, <1>3, OperationNames DEF RecoverReset, localVars
  <2>3. /\ status' \in [Jobs -> Status] /\ attempt' \in [Jobs -> Nat]
        /\ selected' \in [Jobs -> Nat]
        /\ rows' \in [Jobs -> SUBSET Nat]
        /\ marked' \in [Jobs -> SUBSET Nat]
    <3>1. CASE UNCHANGED <<status, attempt, selected, rows, marked>>
      BY <3>1 DEF TypeOK
    <3>2. ASSUME NEW s \in Status, status' = [status EXCEPT ![Job(w)] = s],
                 attempt' = [attempt EXCEPT ![Job(w)] = NextAttempt(w)],
                 selected' = [selected EXCEPT ![Job(w)] = 0],
                 rows' = [rows EXCEPT ![Job(w)] = {}],
                 marked' = [marked EXCEPT ![Job(w)] = {}]
          PROVE  /\ status' \in [Jobs -> Status]
                 /\ attempt' \in [Jobs -> Nat]
                 /\ selected' \in [Jobs -> Nat]
                 /\ rows' \in [Jobs -> SUBSET Nat]
                 /\ marked' \in [Jobs -> SUBSET Nat]
      BY <2>1, <3>2 DEF TypeOK
    <3> QED BY <1>3, <3>1, <3>2, ResetOutcomes, StateNames
  <2> QED BY <1>3, <2>2, <2>3
          DEF RecoverReset, TypeOK, StepTyped, StreamTypeOK, streamVars,
              localVars
<1>4. CASE Claim(w)
  <2>1. StepTyped
    BY <1>0, <1>4, OperationNames DEF Claim, CompareAndSet
  <2>2. status' \in [Jobs -> Status]
    BY <1>4, StateNames DEF Claim, CompareAndSet, TypeOK
  <2>3. runs' \in [Jobs -> Nat] /\ run' \in [Workers -> Nat]
    <3>1. CASE status[Job(w)] = "PENDING"
      <4>1. /\ runs' = [runs EXCEPT ![Job(w)] = runs[Job(w)] + 1]
            /\ run' = [run EXCEPT ![w] = runs[Job(w)] + 1]
        BY <1>4, <3>1 DEF Claim
      <4> QED BY <4>1 DEF TypeOK
    <3>2. CASE status[Job(w)] # "PENDING"
      BY <1>4, <3>2 DEF Claim, TypeOK
    <3> QED BY <3>1, <3>2
  <2> QED BY <1>4, <2>1, <2>2, <2>3
          DEF Claim, TypeOK, StepTyped, StreamTypeOK, streamVars
<1>5. CASE Advance(w)
  <2>1. PICK op \in DOMAIN Transition : op = pc[w]
    BY <1>5 DEF Advance
  <2>2. /\ Transition[op][2] \in Status
        /\ Transition[op][3] \in Operations \ {"idle"}
    BY <2>1, TransitionType, OperationNames
  <2>3. StepTyped
    BY <1>0, <1>5, <2>1, <2>2, OperationNames
       DEF Advance, CompareAndSet, localVars
  <2>4. status' \in [Jobs -> Status]
    BY <1>5, <2>1, <2>2 DEF Advance, CompareAndSet, TypeOK
  <2> QED BY <1>a, <1>5, <2>3, <2>4 DEF Advance, TypeOK, localVars
<1>6. CASE Validate(w)
  <2>1. StepTyped
    BY <1>0, <1>6, OperationNames DEF Validate, localVars
  <2> QED BY <1>a, <1>6, <2>1 DEF Validate, TypeOK, rowVars, localVars
<1>7. CASE PutObjects(w)
  <2>1. StepTyped
    BY <1>0, <1>7, OperationNames DEF PutObjects, localVars
  <2> QED BY <1>7, <2>1
          DEF PutObjects, TypeOK, StepTyped, StreamTypeOK, streamVars,
              rowVars, localVars
<1>8. CASE PersistRows(w)
  <2>1. StepTyped
    BY <1>0, <1>8, OperationNames DEF PersistRows, localVars
  <2> QED BY <1>8, <2>1
          DEF PersistRows, TypeOK, StepTyped, StreamTypeOK, streamVars,
              localVars
<1>9. CASE MarkCompressed(w)
  <2>1. StepTyped
    BY <1>0, <1>9, OperationNames DEF MarkCompressed, localVars
  <2> QED BY <1>9, <2>1
          DEF MarkCompressed, TypeOK, StepTyped, StreamTypeOK, streamVars,
              localVars
<1>10. CASE Complete(w)
  <2>1. StepTyped
    BY <1>0, <1>10, OperationNames DEF Complete, localVars
  <2>2. status' \in [Jobs -> Status]
    BY <1>10, StateNames DEF Complete, TypeOK
  <2>3. /\ selected' \in [Jobs -> Nat]
        /\ completions' \in [Jobs -> Nat]
    <3>1. CASE status[Job(w)] = "PACKAGING" /\ run[w] \in rows[Job(w)]
      <4>1. /\ selected' = [selected EXCEPT ![Job(w)] = run[w]]
            /\ completions' = [completions EXCEPT ![Job(w)] = completions[Job(w)] + 1]
        BY <1>10, <3>1 DEF Complete
      <4> QED BY <4>1 DEF TypeOK
    <3>2. CASE ~(status[Job(w)] = "PACKAGING" /\ run[w] \in rows[Job(w)])
      <4>1. UNCHANGED <<selected, completions>>
        BY <1>10, <3>2 DEF Complete
      <4> QED BY <4>1 DEF TypeOK
    <3> QED BY <3>1, <3>2
  <2>4. source' \in [Sources -> {"kept", "due", "deleted"}]
    BY <1>10 DEF Complete, TypeOK
  <2> QED BY <1>10, <2>1, <2>2, <2>3, <2>4
          DEF Complete, TypeOK, StepTyped, StreamTypeOK, streamVars, localVars
<1>11. CASE TerminalFailure(w)
  <2>1. StepTyped
    BY <1>0, <1>11, OperationNames DEF TerminalFailure, localVars
  <2>2. status' \in [Jobs -> Status]
    BY <1>11, StateNames DEF TerminalFailure, TypeOK
  <2> QED BY <1>a, <1>11, <2>1, <2>2 DEF TerminalFailure, TypeOK, localVars
<1>12. CASE Raise(w)
  <2>1. StepTyped
    BY <1>0, <1>12, OperationNames DEF Raise, localVars
  <2> QED BY <1>a, <1>12, <2>1 DEF Raise, TypeOK, rowVars, localVars
<1>13. CASE FailJob(w)
  <2>1. PICK verdict \in Status :
            /\ status' = [status EXCEPT ![Job(w)] = verdict]
            /\ AfterFailure(w, verdict)
    BY <1>13, StateNames DEF FailJob, TypeOK
  <2>2. status' \in [Jobs -> Status] /\ attempt' \in [Jobs -> Nat]
    BY <1>13, <2>1 DEF FailJob, TypeOK
  <2>3. CASE verdict \in Terminal
    <3>1. Goto(w, "ack") /\ UNCHANGED localVars
      BY <2>1, <2>3 DEF AfterFailure
    <3>2. StepTyped
      BY <1>0, <3>1, OperationNames DEF localVars
    <3> QED BY <1>a, <1>13, <2>2, <3>1, <3>2 DEF FailJob, localVars
  <2>4. CASE verdict \notin Terminal
    <3>1. Release(w, batch[w])
      BY <2>1, <2>4 DEF AfterFailure
    <3> QED BY <1>13, <2>2, <3>1, ReleaseType
            DEF FailJob, TypeOK, StreamTypeOK, streamVars
  <2> QED BY <2>3, <2>4
<1> QED
  BY <1>1, <1>2, <1>3, <1>4, <1>5, <1>6, <1>7, <1>8, <1>9, <1>10, <1>11,
     <1>12, <1>13 DEF Handle

\* So do the publisher, the API's clients and the retention sweep.
LEMMA OutsideType ==
    ASSUME TypeOK,
           \/ \E m \in Messages : Publish(m)
           \/ \E j \in Jobs : Cancel(j) \/ RequestDecompression(j)
           \/ \E s \in Sources : DeleteOriginal(s)
           \/ UNCHANGED vars
    PROVE  TypeOK'
<1> USE DEF TypeOK, StreamTypeOK, streamVars, rowVars, localVars
<1>1. ASSUME NEW m \in Messages, Publish(m) PROVE TypeOK'
  BY <1>1 DEF Publish, XAdd
<1>2. ASSUME NEW j \in Jobs, Cancel(j) PROVE TypeOK'
  BY <1>2, StateNames DEF Cancel
<1>3. ASSUME NEW j \in Jobs, RequestDecompression(j) PROVE TypeOK'
  BY <1>3 DEF RequestDecompression
<1>4. ASSUME NEW s \in Sources, DeleteOriginal(s) PROVE TypeOK'
  BY <1>4 DEF DeleteOriginal, Lifecycle!Delete
<1>5. ASSUME UNCHANGED vars PROVE TypeOK'
  BY <1>5 DEF vars
<1> QED BY <1>1, <1>2, <1>3, <1>4, <1>5

\* The type invariant holds of every behaviour of the worker.
THEOREM TypeCorrect == Spec => []TypeOK
<1>1. Init => TypeOK
  BY InitType
<1>2. TypeOK /\ [Next]_vars => TypeOK'
  BY DeliveryType, HandleType, OutsideType DEF Next
<1> QED BY <1>1, <1>2, PTL DEF Spec

(***************************************************************************)
(* Properties that hold however deliveries overlap.                        *)
(***************************************************************************)

\* The attempt a handler read leaves room for one more.
AttemptInv ==
    /\ AttemptsBounded
    /\ \A w \in Workers : pc[w] \in Handling => seen[w].attempt < MaxAttempts

\* What is marked 'compressed' or referenced by a decompression job is an artifact
\* row of the job.
ReferenceInv ==
    \A j \in Jobs : pinned[j] \subseteq rows[j] /\ marked[j] \subseteq rows[j]

\* A delivery step touches no row, and its worker handles nothing afterwards.
LEMMA DeliveryFrame ==
    ASSUME TypeOK, NEW w \in Workers,
           Poll(w) \/ Acknowledge(w) \/ AcknowledgeError(w) \/ Crash(w)
    PROVE  /\ UNCHANGED <<rowVars, source, objects, runs>>
           /\ pc'[w] \in {"idle", "read"}
           /\ \A v \in Workers \ {w} :
                  /\ pc'[v] = pc[v] /\ msg'[v] = msg[v] /\ fresh'[v] = fresh[v]
                  /\ batch'[v] = batch[v] /\ seen'[v] = seen[v]
                  /\ run'[v] = run[v]
<1>1. ASSUME NEW m, NEW f, NEW rest, Take(w, m, f, rest)
      PROVE  /\ pc'[w] = "read"
             /\ \A v \in Workers \ {w} :
                  /\ pc'[v] = pc[v] /\ msg'[v] = msg[v] /\ fresh'[v] = fresh[v]
                  /\ batch'[v] = batch[v] /\ seen'[v] = seen[v]
                  /\ run'[v] = run[v]
  BY <1>1 DEF Take, Goto, TypeOK
<1>2. ASSUME NEW rest, Release(w, rest)
      PROVE  /\ pc'[w] = "idle"
             /\ \A v \in Workers \ {w} :
                  /\ pc'[v] = pc[v] /\ msg'[v] = msg[v] /\ fresh'[v] = fresh[v]
                  /\ batch'[v] = batch[v] /\ seen'[v] = seen[v]
                  /\ run'[v] = run[v]
  BY <1>2 DEF Release, Goto, TypeOK
<1>3. CASE Poll(w)
  BY <1>1, <1>3 DEF Poll, NextOfBatch, ReadNew, Reclaim
<1>4. CASE Acknowledge(w) \/ AcknowledgeError(w) \/ Crash(w)
  BY <1>2, <1>4 DEF Acknowledge, AcknowledgeError, Crash
<1> QED BY <1>3, <1>4

\* A handling step touches the rows of one job and the locals of one worker.
LEMMA HandleFrame ==
    ASSUME TypeOK, NEW w \in Workers, Handle(w)
    PROVE  /\ UNCHANGED <<streamVars, pinned>>
           /\ pc[w] # "idle"
           /\ \A j \in Jobs \ {Job(w)} :
                  /\ status'[j] = status[j] /\ attempt'[j] = attempt[j]
                  /\ selected'[j] = selected[j] /\ rows'[j] = rows[j]
                  /\ marked'[j] = marked[j]
                  /\ completions'[j] = completions[j]
                  /\ objects'[j] = objects[j] /\ runs'[j] = runs[j]
           /\ \A v \in Workers \ {w} :
                  /\ pc'[v] = pc[v] /\ msg'[v] = msg[v] /\ fresh'[v] = fresh[v]
                  /\ batch'[v] = batch[v] /\ seen'[v] = seen[v]
                  /\ run'[v] = run[v]
<1> USE DEF TypeOK, rowVars, localVars, Goto
<1>1. CASE ReadJob(w)
  BY <1>1 DEF ReadJob
<1>2. CASE RecoverSweep(w)
  BY <1>2 DEF RecoverSweep
<1>3. CASE RecoverReset(w)
  <2>1. UNCHANGED <<streamVars, pinned, completions, source, objects,
                    localVars, runs, faults>> /\ pc[w] = "reset"
    BY <1>3 DEF RecoverReset
  <2>2. CASE Goto(w, "fail")
             /\ UNCHANGED <<status, attempt, selected, rows, marked>>
    BY <2>1, <2>2
  <2>3. ASSUME NEW s, NEW op,
               selected' = [selected EXCEPT ![Job(w)] = 0],
               rows' = [rows EXCEPT ![Job(w)] = {}],
               marked' = [marked EXCEPT ![Job(w)] = {}],
               attempt' = [attempt EXCEPT ![Job(w)] = NextAttempt(w)],
               status' = [status EXCEPT ![Job(w)] = s], Goto(w, op)
        PROVE  /\ \A j \in Jobs \ {Job(w)} :
                     /\ status'[j] = status[j] /\ attempt'[j] = attempt[j]
                     /\ selected'[j] = selected[j] /\ rows'[j] = rows[j]
                     /\ marked'[j] = marked[j]
               /\ \A v \in Workers \ {w} : pc'[v] = pc[v]
    BY <2>3
  <2> QED BY <1>3, <2>1, <2>2, <2>3, ResetShape
<1>4. CASE Claim(w)
  BY <1>4 DEF Claim, CompareAndSet
<1>5. CASE Advance(w)
  BY <1>5 DEF Advance, CompareAndSet, Transition
<1>6. CASE Validate(w)
  BY <1>6 DEF Validate
<1>7. CASE PutObjects(w)
  BY <1>7 DEF PutObjects
<1>8. CASE PersistRows(w)
  BY <1>8 DEF PersistRows
<1>9. CASE MarkCompressed(w)
  BY <1>9 DEF MarkCompressed
<1>10. CASE Complete(w)
  BY <1>10 DEF Complete
<1>11. CASE TerminalFailure(w)
  BY <1>11 DEF TerminalFailure
<1>12. CASE Raise(w)
  BY <1>12 DEF Raise, Handling
<1>13. CASE FailJob(w)
  BY <1>13 DEF FailJob, AfterFailure, Release
<1> QED
  BY <1>1, <1>2, <1>3, <1>4, <1>5, <1>6, <1>7, <1>8, <1>9, <1>10, <1>11,
     <1>12, <1>13 DEF Handle

\* The outcomes of _fail_job: the verdict found, or one attempt more.
LEMMA FailOutcomes ==
    ASSUME TypeOK, NEW w \in Workers, FailJob(w)
    PROVE  /\ pc'[w] \in {"idle", "ack"}
           /\ pc'[w] = "ack" => status'[Job(w)] \in Terminal /\ UNCHANGED localVars
           /\ pc'[w] = "idle" => msg'[w] = NoMessage
           /\ \/ /\ status[Job(w)] \in Terminal
                 /\ UNCHANGED <<status, attempt>>
              \/ /\ status[Job(w)] \notin Terminal
                 /\ attempt' = [attempt EXCEPT ![Job(w)] = attempt[Job(w)] + 1]
                 /\ IF Exhausted(attempt[Job(w)] + 1)
                    THEN status' = [status EXCEPT ![Job(w)] = "FAILED_TERMINAL"]
                    ELSE status' = [status EXCEPT ![Job(w)] = "FAILED_RETRYABLE"]
<1>1. PICK verdict :
        /\ verdict = IF status[Job(w)] \in Terminal THEN status[Job(w)]
                     ELSE IF Exhausted(attempt[Job(w)] + 1)
                     THEN "FAILED_TERMINAL" ELSE "FAILED_RETRYABLE"
        /\ status' = [status EXCEPT ![Job(w)] = verdict]
        /\ AfterFailure(w, verdict)
  BY DEF FailJob
<1>2. /\ pc[w] = "fail"
      /\ attempt' = IF status[Job(w)] \in Terminal THEN attempt
                    ELSE [attempt EXCEPT ![Job(w)] = @ + 1]
  BY DEF FailJob
<1>3. Job(w) \in Jobs
  BY <1>2, BusyHoldsJob
<1>4. \/ verdict \in Terminal /\ pc'[w] = "ack" /\ UNCHANGED localVars
      \/ pc'[w] = "idle" /\ msg'[w] = NoMessage
  BY <1>1 DEF AfterFailure, Release, Goto, TypeOK
<1>5. status'[Job(w)] = verdict
  BY <1>1, <1>3 DEF TypeOK
<1>6. CASE status[Job(w)] \in Terminal
  BY <1>1, <1>2, <1>4, <1>5, <1>6 DEF TypeOK
<1>7. CASE status[Job(w)] \notin Terminal
  BY <1>1, <1>2, <1>4, <1>5, <1>7
<1> QED BY <1>6, <1>7

\* A compare-and-set finds the state it expects and goes on, or changes
\* nothing and raises.
LEMMA CompareAndSetOutcomes ==
    ASSUME TypeOK, NEW w \in Workers, Claim(w) \/ Advance(w)
    PROVE  /\ UNCHANGED <<attempt, selected, rows, marked, completions, source,
                         objects, msg, seen>>
           /\ \/ pc'[w] = "fail" /\ UNCHANGED <<status, runs, run>>
              \/ /\ status[Job(w)] \notin Terminal
                 /\ status'[Job(w)] \in Status \ Terminal
                 /\ pc'[w] \in Handling
<1> pc[w] # "idle"
  BY DEF Claim, Advance, Transition
<1> Job(w) \in Jobs
  BY BusyHoldsJob
<1>1. CASE Claim(w)
  BY <1>1 DEF Claim, CompareAndSet, Goto, TypeOK, Handling, Status, Terminal
<1>2. CASE Advance(w)
  <2>1. PICK op \in DOMAIN Transition : op = pc[w]
    BY <1>2 DEF Advance
  <2>2. /\ Transition[op][1] \in Status \ Terminal
        /\ Transition[op][2] \in Status \ Terminal
        /\ Transition[op][3] \in Handling
    BY <2>1, TransitionType
  <2>3. CompareAndSet(w, Transition[op][1], Transition[op][2],
                         Transition[op][3])
    BY <1>2, <2>1 DEF Advance
  <2> QED BY <1>2, <2>2, <2>3
          DEF Advance, CompareAndSet, Goto, TypeOK, localVars
<1> QED BY <1>1, <1>2

\* No step breaks the attempt bound.
LEMMA AttemptStep ==
    ASSUME TypeOK, AttemptInv, [Next]_vars
    PROVE  AttemptInv'
<1> DEFINE Bounded(j) ==
      attempt[j] <= MaxAttempts
        /\ (attempt[j] = MaxAttempts => status[j] = "FAILED_TERMINAL")
<1> DEFINE Room(w) == pc[w] \in Handling => seen[w].attempt < MaxAttempts
<1> USE WorkerAssumption
<1>0. \A j \in Jobs : Bounded(j) /\ attempt[j] \in Nat
  BY DEF AttemptInv, AttemptsBounded, TypeOK
<1>1. \A w \in Workers : Room(w)
  BY DEF AttemptInv
<1>2. SUFFICES /\ \A j \in Jobs : Bounded(j)'
               /\ \A w \in Workers : Room(w)'
  BY DEF AttemptInv, AttemptsBounded
<1>3. ASSUME NEW w \in Workers,
             Poll(w) \/ Acknowledge(w) \/ AcknowledgeError(w) \/ Crash(w)
      PROVE  (\A j \in Jobs : Bounded(j)') /\ (\A v \in Workers : Room(v)')
  <2>1. UNCHANGED <<status, attempt>> /\ pc'[w] \notin Handling
    BY <1>3, DeliveryFrame DEF rowVars, Handling
  <2>2. \A v \in Workers \ {w} : pc'[v] = pc[v] /\ seen'[v] = seen[v]
    BY <1>3, DeliveryFrame
  <2> QED BY <1>0, <1>1, <2>1, <2>2
<1>4. ASSUME NEW w \in Workers, Handle(w)
      PROVE  (\A j \in Jobs : Bounded(j)') /\ (\A v \in Workers : Room(v)')
  <2>1. PICK job \in Jobs : job = Job(w)
    BY <1>4, HandleFrame, BusyHoldsJob
  <2>2. /\ \A j \in Jobs \ {Job(w)} :
              status'[j] = status[j] /\ attempt'[j] = attempt[j]
        /\ \A v \in Workers \ {w} : pc'[v] = pc[v] /\ seen'[v] = seen[v]
    BY <1>4, HandleFrame
  <2>3. SUFFICES Bounded(job)' /\ Room(w)'
    <3>1. \A j \in Jobs : j # Job(w) => Bounded(j)'
      BY <1>0, <2>2
    <3>2. \A v \in Workers : v # w => Room(v)'
      BY <1>1, <2>2
    <3> QED BY <2>1, <2>3, <3>1, <3>2
  <2>4. status[Job(w)] \notin Terminal => attempt[Job(w)] < MaxAttempts
    BY <1>0, <2>1 DEF Terminal
  <2>5. CASE ReadJob(w)
    BY <1>0, <2>1, <2>4, <2>5
       DEF ReadJob, rowVars, TypeOK, Goto, Handling, Terminal
  <2>6. CASE RecoverReset(w)
    <3>1. /\ seen'[w] = seen[w] /\ pc[w] = "reset"
          /\ seen[w].attempt \in Nat /\ seen[w].attempt < MaxAttempts
      BY <1>1, <2>6 DEF RecoverReset, localVars, TypeOK, Handling
    <3>2. NextAttempt(w) \in Nat /\ NextAttempt(w) <= MaxAttempts
      BY <3>1 DEF NextAttempt
    <3>3. CASE UNCHANGED <<status, attempt>>
      BY <1>0, <2>1, <3>1, <3>3
    <3>4. ASSUME attempt' = [attempt EXCEPT ![Job(w)] = NextAttempt(w)],
                 \/ /\ Exhausted(NextAttempt(w))
                    /\ status' = [status EXCEPT ![Job(w)] = "FAILED_TERMINAL"]
                 \/ ~Exhausted(NextAttempt(w))
          PROVE  Bounded(job)' /\ Room(w)'
      <4>1. attempt'[Job(w)] = NextAttempt(w)
        BY <2>1, <3>4 DEF TypeOK
      <4>2. Exhausted(NextAttempt(w)) => status'[Job(w)] = "FAILED_TERMINAL"
        BY <2>1, <3>4 DEF TypeOK
      <4> QED BY <2>1, <3>1, <3>2, <4>1, <4>2 DEF Exhausted
    <3> QED BY <2>6, <3>3, <3>4, ResetOutcomes
  <2>7. CASE Claim(w) \/ Advance(w)
    <3>1. UNCHANGED <<attempt, seen>> /\ (pc[w] \in Handling)
      BY <2>7, CompareAndSetOutcomes, TransitionType
         DEF Claim, Advance, Handling
    <3>2. status' # status => attempt[Job(w)] < MaxAttempts
      BY <2>4, <2>7, CompareAndSetOutcomes
    <3> QED BY <1>0, <1>1, <2>1, <3>1, <3>2
  <2>8. CASE \/ RecoverSweep(w) \/ Validate(w) \/ PutObjects(w)
             \/ PersistRows(w) \/ MarkCompressed(w) \/ Raise(w)
    <3>1. UNCHANGED <<status, attempt, seen>>
      BY <2>8 DEF RecoverSweep, Validate, PutObjects, PersistRows,
         MarkCompressed, Raise, rowVars, localVars
    <3>2. pc[w] \in Handling \/ pc'[w] = "fail"
      BY <2>8 DEF RecoverSweep, Validate, PutObjects, PersistRows,
         MarkCompressed, Raise, Goto, Handling, TypeOK
    <3> QED BY <1>0, <1>1, <2>1, <3>1, <3>2 DEF Handling
  <2>9. CASE Complete(w) \/ TerminalFailure(w)
    <3>1. UNCHANGED <<attempt, seen>> /\ pc'[w] \notin Handling
      BY <2>9 DEF Complete, TerminalFailure, localVars, Goto, Handling, TypeOK
    <3>2. \/ status'[Job(w)] = "FAILED_TERMINAL"
          \/ UNCHANGED status
          \/ attempt[Job(w)] < MaxAttempts
      BY <2>1, <2>4, <2>9 DEF Complete, TerminalFailure, TypeOK, Terminal
    <3> QED BY <1>0, <2>1, <3>1, <3>2
  <2>10. CASE FailJob(w)
    <3>1. pc'[w] \notin Handling
      BY <2>10, FailOutcomes DEF Handling
    <3>2. CASE UNCHANGED <<status, attempt>>
      BY <1>0, <2>1, <3>1, <3>2
    <3>3. ASSUME status[Job(w)] \notin Terminal,
                 attempt' = [attempt EXCEPT ![Job(w)] = attempt[Job(w)] + 1],
                 IF Exhausted(attempt[Job(w)] + 1)
                 THEN status' = [status EXCEPT ![Job(w)] = "FAILED_TERMINAL"]
                 ELSE status' = [status EXCEPT ![Job(w)] = "FAILED_RETRYABLE"]
          PROVE  Bounded(job)' /\ Room(w)'
      <4>1. attempt'[Job(w)] = attempt[Job(w)] + 1
        BY <2>1, <3>3 DEF TypeOK
      <4>2. Exhausted(attempt[Job(w)] + 1)
              => status'[Job(w)] = "FAILED_TERMINAL"
        BY <2>1, <3>3 DEF TypeOK
      <4> QED BY <1>0, <2>1, <2>4, <3>1, <3>3, <4>1, <4>2 DEF Exhausted
    <3> QED BY <2>10, <3>2, <3>3, FailOutcomes
  <2> QED
    BY <1>4, <2>5, <2>6, <2>7, <2>8, <2>9, <2>10 DEF Handle
<1>5. ASSUME NEW j \in Jobs, Cancel(j)
      PROVE  (\A i \in Jobs : Bounded(i)') /\ (\A w \in Workers : Room(w)')
  BY <1>0, <1>1, <1>5 DEF Cancel, localVars, TypeOK, Terminal
<1>6. ASSUME \/ \E m \in Messages : Publish(m)
             \/ \E j \in Jobs : RequestDecompression(j)
             \/ \E s \in Sources : DeleteOriginal(s)
             \/ UNCHANGED vars
      PROVE  (\A j \in Jobs : Bounded(j)') /\ (\A w \in Workers : Room(w)')
  <2>1. UNCHANGED <<status, attempt, pc, seen>>
    BY <1>6 DEF Publish, RequestDecompression, DeleteOriginal, vars, rowVars,
       localVars
  <2> QED BY <1>0, <1>1, <2>1
<1> QED BY <1>3, <1>4, <1>5, <1>6 DEF Next

\* However deliveries overlap and workers fail, a job never uses more than
\* WORKER_MAX_ATTEMPTS attempts, and using the last one fails it for good.
THEOREM AttemptsNeverExceeded == Spec => []AttemptsBounded
<1>1. Init => AttemptInv
  BY WorkerAssumption DEF Init, AttemptInv, AttemptsBounded, Handling
<1>2. TypeOK /\ AttemptInv /\ [Next]_vars => AttemptInv'
  BY AttemptStep
<1>3. AttemptInv => AttemptsBounded
  BY DEF AttemptInv
<1> QED BY <1>1, <1>2, <1>3, TypeCorrect, PTL DEF Spec

\* No step leaves a reference without its row.
LEMMA ReferenceStep ==
    ASSUME TypeOK, ReferenceInv, [Next]_vars
    PROVE  ReferenceInv'
<1> DEFINE Sound(j) ==
      /\ pinned[j] \subseteq rows[j]
      /\ marked[j] \subseteq rows[j]
<1>0. \A j \in Jobs : Sound(j)
  BY DEF ReferenceInv
<1>1. SUFFICES \A j \in Jobs : Sound(j)'
  BY DEF ReferenceInv
<1>2. CASE UNCHANGED <<pinned, rows, marked>>
  BY <1>0, <1>2
<1>3. ASSUME NEW w \in Workers, RecoverReset(w)
      PROVE  \A j \in Jobs : Sound(j)'
  <2>1. UNCHANGED pinned
    BY <1>3 DEF RecoverReset
  <2>2. CASE UNCHANGED <<rows, marked>>
    BY <1>0, <2>1, <2>2
  <2>3. ASSUME rows[Job(w)] \intersect pinned[Job(w)] = {},
               rows' = [rows EXCEPT ![Job(w)] = {}],
               marked' = [marked EXCEPT ![Job(w)] = {}]
        PROVE  \A j \in Jobs : Sound(j)'
    <3>1. PICK job \in Jobs : job = Job(w)
      BY <1>3, BusyHoldsJob DEF RecoverReset
    <3>2. pinned[job] = {}
      BY <1>0, <2>3, <3>1
    <3>3. marked'[job] = {}
      BY <2>3, <3>1 DEF TypeOK
    <3>4. \A j \in Jobs : j # job => rows'[j] = rows[j] /\ marked'[j] = marked[j]
      BY <2>3, <3>1 DEF TypeOK
    <3>5. Sound(job)'
      BY <2>1, <3>2, <3>3
    <3> QED BY <1>0, <2>1, <3>4, <3>5
  <2> QED BY <1>3, <2>2, <2>3, ResetOutcomes
<1>4. ASSUME NEW w \in Workers,
             PersistRows(w) \/ MarkCompressed(w)
      PROVE  \A j \in Jobs : Sound(j)'
  <2>1. PICK job \in Jobs : job = Job(w)
    BY <1>4, BusyHoldsJob DEF PersistRows, MarkCompressed
  <2>2. CASE PersistRows(w)
    BY <1>0, <2>1, <2>2 DEF PersistRows, TypeOK
  <2>3. CASE MarkCompressed(w)
    BY <1>0, <2>1, <2>3 DEF MarkCompressed, TypeOK
  <2> QED BY <1>4, <2>2, <2>3
<1>5. ASSUME NEW j \in Jobs, RequestDecompression(j)
      PROVE  \A i \in Jobs : Sound(i)'
  BY <1>0, <1>5 DEF RequestDecompression, TypeOK
<1>6. ASSUME NEW w \in Workers, Handle(w),
             ~(RecoverReset(w) \/ PersistRows(w) \/ MarkCompressed(w))
      PROVE  UNCHANGED <<pinned, rows, marked>>
  BY <1>6 DEF Handle, ReadJob, RecoverSweep, Claim, Advance, Validate,
     PutObjects, Complete, TerminalFailure, Raise, FailJob, rowVars
<1>7. ASSUME NEW w \in Workers,
             Poll(w) \/ Acknowledge(w) \/ AcknowledgeError(w) \/ Crash(w)
      PROVE  UNCHANGED <<pinned, rows, marked>>
  BY <1>7, DeliveryFrame DEF rowVars
<1>8. ASSUME \/ \E m \in Messages : Publish(m)
             \/ \E j \in Jobs : Cancel(j)
             \/ \E s \in Sources : DeleteOriginal(s)
             \/ UNCHANGED vars
      PROVE  UNCHANGED <<pinned, rows, marked>>
  BY <1>8 DEF Publish, Cancel, DeleteOriginal, vars, rowVars
<1> QED BY <1>2, <1>3, <1>4, <1>5, <1>6, <1>7, <1>8 DEF Next

LEMMA ReferencesStay == Spec => []ReferenceInv
<1>1. Init => ReferenceInv
  BY DEF Init, ReferenceInv
<1> QED BY <1>1, ReferenceStep, TypeCorrect, PTL DEF Spec

(***************************************************************************)
(* When a verdict is final, whatever the deployment.                       *)
(***************************************************************************)

\* A handler that is not in the middle of process_job only reads, raises or
\* records a failure, which leaves a terminal status alone.
LEMMA TerminalStays ==
    ASSUME TypeOK, NEW w \in Workers, Handle(w), pc[w] \notin Handling,
           status[Job(w)] \in Terminal
    PROVE  UNCHANGED status
<1>1. ReadJob(w) \/ Raise(w) \/ FailJob(w)
  BY TransitionType
     DEF Handle, Handling, RecoverSweep, RecoverReset, Claim, Advance, Validate,
         PutObjects, PersistRows, MarkCompressed, Complete, TerminalFailure
<1> QED BY <1>1, FailOutcomes DEF ReadJob, Raise, rowVars

\* A handler that goes on does so with the delivery it has.
LEMMA HandleKeepsHand ==
    ASSUME TypeOK, NEW w \in Workers, Handle(w), pc'[w] \in Handling
    PROVE  UNCHANGED msg
<1>1. CASE FailJob(w)
  BY <1>1, FailOutcomes DEF Handling
<1>2. CASE ~FailJob(w)
  BY <1>2 DEF Handle, ReadJob, RecoverSweep, RecoverReset, Claim, Advance,
     Validate, PutObjects, PersistRows, MarkCompressed, Complete,
     TerminalFailure, Raise, localVars
<1> QED BY <1>1, <1>2

\* A handler that finds the verdict ends its operation outside process_job.
LEMMA StandingStep ==
    ASSUME TypeOK, NEW w \in Workers, Handle(w), NEW j \in Jobs, VerdictStands(j)
    PROVE  VerdictStands(j)' /\ status'[j] = status[j]
<1>1. /\ pc[w] # "idle" /\ Job(w) \in Jobs
      /\ \A v \in Workers \ {w} : pc'[v] = pc[v] /\ Job(v)' = Job(v)
  BY HandleFrame, BusyHoldsJob DEF Job
<1>2. CASE Job(w) = j
  <2>1. pc[w] \notin Handling
    BY <1>2 DEF VerdictStands
  <2>2. UNCHANGED status
    BY <1>2, <2>1, TerminalStays DEF VerdictStands
  <2>3. ReadJob(w) \/ Raise(w) \/ FailJob(w)
    BY <2>1, TransitionType
       DEF Handle, Handling, RecoverSweep, RecoverReset, Claim, Advance, Validate,
           PutObjects, PersistRows, MarkCompressed, Complete, TerminalFailure
  <2>4. pc'[w] \in {"ack", "fail", "idle"}
    <3>1. ReadJob(w) => pc'[w] = "ack"
      <4>1. status[Job(w)] \in Terminal
        BY <1>2 DEF VerdictStands
      <4> QED BY <4>1 DEF ReadJob, Goto, Terminal, TypeOK
    <3>2. Raise(w) => pc'[w] = "fail"
      BY DEF Raise, Goto, TypeOK
    <3> QED BY <2>3, <3>1, <3>2, FailOutcomes
  <2> QED BY <1>1, <2>2, <2>4 DEF VerdictStands, Handling
<1>3. CASE Job(w) # j
  <2>1. status'[j] = status[j]
    BY <1>3, HandleFrame
  <2>2. pc'[w] \in Handling => Job(w)' = Job(w)
    BY HandleKeepsHand DEF Job
  <2> QED BY <1>1, <1>3, <2>1, <2>2 DEF VerdictStands
<1> QED BY <1>2, <1>3

\* Nobody else touches a verdict or starts to handle with an old row.
LEMMA StandingKept ==
    ASSUME TypeOK, [Next]_vars, NEW j \in Jobs, VerdictStands(j)
    PROVE  VerdictStands(j)' /\ status'[j] = status[j]
<1>1. ASSUME UNCHANGED <<status, pc, msg>>
      PROVE  VerdictStands(j)' /\ status'[j] = status[j]
  BY <1>1 DEF VerdictStands, Job
<1>2. ASSUME NEW w \in Workers,
             Poll(w) \/ Acknowledge(w) \/ AcknowledgeError(w) \/ Crash(w)
      PROVE  VerdictStands(j)' /\ status'[j] = status[j]
  BY <1>2, DeliveryFrame DEF VerdictStands, Job, Handling, rowVars
<1>3. ASSUME NEW i \in Jobs, Cancel(i)
      PROVE  VerdictStands(j)' /\ status'[j] = status[j]
  BY <1>3 DEF Cancel, VerdictStands, Job, TypeOK, localVars
<1>4. ASSUME \/ \E m \in Messages : Publish(m)
             \/ \E i \in Jobs : RequestDecompression(i)
             \/ \E s \in Sources : DeleteOriginal(s)
             \/ UNCHANGED vars
      PROVE  UNCHANGED <<status, pc, msg>>
  BY <1>4 DEF Publish, RequestDecompression, DeleteOriginal, vars, rowVars,
              localVars
<1> QED BY <1>1, <1>2, <1>3, <1>4, StandingStep DEF Next

\* Verdicts and cancellations are final once no handler is left that read the
\* row before, for any number of deliveries of the job and any claim batch.
THEOREM StandingVerdictsAreFinal == Spec => StandingVerdictIsFinal
<1>1. TypeOK /\ [Next]_vars
        => [\A j \in Jobs : VerdictStands(j)
              => VerdictStands(j)' /\ status'[j] = status[j]]_vars
  BY StandingKept
<1> QED BY <1>1, TypeCorrect, PTL DEF Spec, StandingVerdictIsFinal
=============================================================================
