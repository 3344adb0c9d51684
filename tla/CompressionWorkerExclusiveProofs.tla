------------------- MODULE CompressionWorkerExclusiveProofs -------------------
(***************************************************************************)
(* What CompressionWorker guarantees as long as no two workers handle one  *)
(* job at a time, however many deliveries carry it and however large the   *)
(* claims are; and a deployment in which they never do.                    *)
(***************************************************************************)
EXTENDS CompressionWorkerProofs, FiniteSetTheorems

(***************************************************************************)
(* The inductive invariant, in named parts.                                *)
(***************************************************************************)

\* What a job row promises at any moment.  In particular a PENDING job has no
\* rows, and every started run but one is charged to the attempt counter.
JobConsistent(j) ==
    /\ completions[j] = IF status[j] = "COMPLETED" THEN 1 ELSE 0
    /\ status[j] = "COMPLETED" =>
        selected[j] \in rows[j] /\ selected[j] \in objects[j]
    /\ \A r, q \in rows[j] : r = q
    /\ status[j] = "PENDING" => rows[j] = {}
    /\ runs[j] <= MaxAttempts
    /\ runs[j] <= attempt[j] + 1
    /\ status[j] \in {"PENDING", "FAILED_RETRYABLE"} => runs[j] <= attempt[j]

\* The operations of a run before and after its rows are committed.
BeforeRows == {"validate", "preprocess", "encode", "measure", "put", "persist"}
AfterRows == {"select", "mark", "package", "complete"}

\* What a handler may rely on: no verdict of a worker stands while it handles
\* the job, a recovery charges the run it found, the rows of the job are its
\* own and its objects are stored, and it acknowledges a terminal job only.
HandlerConsistent(w) ==
    /\ pc[w] \in Handling =>
        status[Job(w)] \notin {"COMPLETED", "FAILED_TERMINAL"}
    /\ pc[w] \in {"sweep", "reset"} => runs[Job(w)] <= NextAttempt(w)
    /\ pc[w] \in BeforeRows => status[Job(w)] # "PENDING" /\ rows[Job(w)] = {}
    /\ pc[w] \in AfterRows =>
        status[Job(w)] # "PENDING" /\ rows[Job(w)] = {run[w]}
    /\ pc[w] \in AfterRows \union {"persist"} => run[w] \in objects[Job(w)]
    /\ pc[w] = "ack" => status[Job(w)] \in Terminal

\* A source is due or deleted only after one of its jobs completed.
SourceReleasedByCompletion ==
    \A s \in Sources : source[s] # "kept" =>
        \E j \in Jobs : SourceOf[j] = s /\ status[j] = "COMPLETED"

\* A job that is being handled has lost no delivery yet.
HandledNotAcked ==
    \A w \in Workers : pc[w] \in Handling =>
        \A m \in sent \ entries : JobOf[m] # Job(w)

ExclusiveInv ==
    /\ \A j \in Jobs : JobConsistent(j)
    /\ \A w \in Workers : HandlerConsistent(w)
    /\ SourceReleasedByCompletion
    /\ AckedOnlyWhenTerminal
    /\ HandledNotAcked

(***************************************************************************)
(* One handling step, seen from its own job and its own worker.            *)
(***************************************************************************)

\* A handling step that leaves its handler idle or failing, or changes no row
\* its handler relies on, is judged by its job alone.
LEMMA HandleStep ==
    ASSUME TypeOK, AttemptInv, NEW w \in Workers, Handle(w),
           NEW job \in Jobs, job = Job(w), JobConsistent(job),
           HandlerConsistent(w)
    PROVE  JobConsistent(job)' /\ HandlerConsistent(w)'
<1> USE WorkerAssumption
<1>0. /\ pc[w] # "idle" /\ msg[w] \in Messages
      /\ attempt[job] \in Nat /\ runs[job] \in Nat /\ completions[job] \in Nat
      /\ status[job] \in Status /\ status[job] = status[Job(w)]
      /\ seen[w].attempt \in Nat
  BY HandleFrame, BusyHoldsJob DEF TypeOK
<1>1. status[job] \notin Terminal => attempt[job] < MaxAttempts
  BY <1>0 DEF AttemptInv, AttemptsBounded, Terminal
<1>a. ASSUME UNCHANGED <<status, attempt, selected, rows, completions, runs>>,
             objects[job] \subseteq objects'[job]
      PROVE  JobConsistent(job)'
  BY <1>a DEF JobConsistent
<1>b. ASSUME pc'[w] \in {"idle", "fail"} PROVE HandlerConsistent(w)'
  BY <1>b DEF HandlerConsistent, Handling, BeforeRows, AfterRows
<1>c. ASSUME UNCHANGED msg PROVE Job(w)' = job
  BY <1>c DEF Job
<1>2. CASE ReadJob(w)
  <2>1. UNCHANGED <<status, attempt, selected, rows, completions, runs,
                    objects, msg, run>>
    BY <1>2 DEF ReadJob, rowVars
  <2>2. seen'[w] = [status |-> status[job], attempt |-> attempt[job]]
    BY <1>2 DEF ReadJob, TypeOK
  <2>3. NextAttempt(w)' = IF status[job] = "FAILED_RETRYABLE" THEN attempt[job]
                          ELSE attempt[job] + 1
    BY <2>2 DEF NextAttempt
  <2>4. \/ pc'[w] = "ack" /\ status[job] \in Terminal
        \/ pc'[w] \in {"claim", "sweep"} /\ status[job] \notin Terminal
    BY <1>0, <1>2 DEF ReadJob, Goto, TypeOK, Terminal
  <2>5. Job(w)' = job
    BY <1>c, <2>1
  <2>6. runs[job] <= NextAttempt(w)'
    BY <1>0, <2>3 DEF JobConsistent
  <2>7. HandlerConsistent(w)'
    BY <2>1, <2>4, <2>5, <2>6
       DEF HandlerConsistent, Handling, Terminal, BeforeRows, AfterRows
  <2> QED BY <1>a, <2>1, <2>7
<1>3. CASE RecoverSweep(w)
  <2>1. UNCHANGED <<status, attempt, selected, rows, completions, runs, msg,
                    run, seen>> /\ pc[w] = "sweep" /\ pc'[w] = "reset"
    BY <1>3 DEF RecoverSweep, rowVars, localVars, Goto, TypeOK
  <2>2. status[job] # "COMPLETED"
    BY <1>0, <2>1 DEF HandlerConsistent, Handling
  <2>3. JobConsistent(job)'
    BY <2>1, <2>2 DEF JobConsistent
  <2>4. Job(w)' = job /\ NextAttempt(w)' = NextAttempt(w)
    BY <1>c, <2>1 DEF NextAttempt
  <2>5. HandlerConsistent(w)'
    BY <2>1, <2>4 DEF HandlerConsistent, Handling, BeforeRows, AfterRows
  <2> QED BY <2>3, <2>5
<1>4. CASE RecoverReset(w)
  <2>1. UNCHANGED <<completions, runs, objects, msg, run, seen>>
        /\ pc[w] = "reset"
    BY <1>4 DEF RecoverReset, localVars
  <2>2. /\ status[job] \notin {"COMPLETED", "FAILED_TERMINAL"}
        /\ runs[job] <= NextAttempt(w)
    BY <2>1 DEF HandlerConsistent, Handling
  <2>3. CASE Goto(w, "fail") /\ UNCHANGED <<status, attempt, selected, rows>>
    <3>1. pc'[w] = "fail"
      BY <2>3 DEF Goto, TypeOK
    <3> QED BY <1>a, <1>b, <2>1, <2>3, <3>1
  <2>4. ASSUME rows' = [rows EXCEPT ![Job(w)] = {}],
               attempt' = [attempt EXCEPT ![Job(w)] = NextAttempt(w)],
               NEW s, NEW op, <<s, op>> \in {<<"FAILED_TERMINAL", "ack">>,
                                            <<"PENDING", "claim">>},
               status' = [status EXCEPT ![Job(w)] = s], Goto(w, op)
        PROVE  JobConsistent(job)' /\ HandlerConsistent(w)'
    <3>1. /\ status'[job] = s /\ pc'[w] = op
          /\ attempt'[job] = NextAttempt(w) /\ rows'[job] = {}
      BY <2>4 DEF Goto, TypeOK
    <3>2. completions[job] = 0 /\ runs[job] <= MaxAttempts
      BY <2>2 DEF JobConsistent
    <3>3. NextAttempt(w) \in Nat
      BY <1>0 DEF NextAttempt
    <3>4. JobConsistent(job)'
      BY <1>0, <2>1, <2>2, <2>4, <3>1, <3>2, <3>3 DEF JobConsistent
    <3>5. HandlerConsistent(w)'
      BY <1>c, <2>1, <2>4, <3>1
         DEF HandlerConsistent, Handling, Terminal, BeforeRows, AfterRows
    <3> QED BY <3>4, <3>5
  <2>5. \/ Goto(w, "fail") /\ UNCHANGED <<status, attempt, selected, rows>>
        \/ /\ rows' = [rows EXCEPT ![Job(w)] = {}]
           /\ attempt' = [attempt EXCEPT ![Job(w)] = NextAttempt(w)]
           /\ \/ /\ status' = [status EXCEPT ![Job(w)] = "FAILED_TERMINAL"]
                 /\ Goto(w, "ack")
              \/ /\ status' = [status EXCEPT ![Job(w)] = "PENDING"]
                 /\ Goto(w, "claim")
    BY <1>4, ResetOutcomes, Zenon
  <2>6. /\ <<"FAILED_TERMINAL", "ack">> \in {<<"FAILED_TERMINAL", "ack">>,
                                            <<"PENDING", "claim">>}
        /\ <<"PENDING", "claim">> \in {<<"FAILED_TERMINAL", "ack">>,
                                      <<"PENDING", "claim">>}
    OBVIOUS
  <2> QED BY <2>3, <2>4, <2>5, <2>6
<1>5. CASE Claim(w)
  <2>1. UNCHANGED <<attempt, selected, rows, completions, objects, msg>>
    BY <1>5, CompareAndSetOutcomes
  <2>2. CASE status[Job(w)] # "PENDING"
    <3>1. pc'[w] = "fail" /\ UNCHANGED <<status, runs>>
      BY <1>5, <2>2 DEF Claim, CompareAndSet, Goto, TypeOK
    <3> QED BY <1>a, <1>b, <2>1, <3>1
  <2>3. CASE status[Job(w)] = "PENDING"
    <3>1. /\ status'[job] = "VALIDATING" /\ pc'[w] = "validate"
          /\ runs'[job] = runs[job] + 1
      BY <1>5, <2>3 DEF Claim, CompareAndSet, Goto, TypeOK
    <3>2. /\ runs[job] <= attempt[job] /\ rows[job] = {}
          /\ completions[job] = 0 /\ attempt[job] < MaxAttempts
      BY <1>0, <1>1, <2>3 DEF JobConsistent, Terminal
    <3>3. JobConsistent(job)'
      BY <1>0, <2>1, <3>1, <3>2 DEF JobConsistent
    <3>4. HandlerConsistent(w)'
      BY <1>c, <2>1, <3>1, <3>2
         DEF HandlerConsistent, Handling, BeforeRows, AfterRows
    <3> QED BY <3>3, <3>4
  <2> QED BY <2>2, <2>3
<1>6. CASE Advance(w)
  <2>1. UNCHANGED <<attempt, selected, rows, completions, objects, msg, runs,
                    run>>
    BY <1>6 DEF Advance, localVars
  <2>2. CASE pc'[w] = "fail" /\ UNCHANGED status
    BY <1>a, <1>b, <2>1, <2>2
  <2>3. ASSUME NEW t, status'[job] = t,
               t \notin Terminal \union {"PENDING", "FAILED_RETRYABLE"},
               status[job] \notin Terminal,
               \/ pc[w] \in BeforeRows /\ pc'[w] \in BeforeRows \ {"persist"}
               \/ pc[w] \in AfterRows /\ pc'[w] \in AfterRows
        PROVE  JobConsistent(job)' /\ HandlerConsistent(w)'
    <3>1. JobConsistent(job)'
      BY <2>1, <2>3 DEF JobConsistent, Terminal
    <3>2. HandlerConsistent(w)'
      BY <1>c, <2>1, <2>3
         DEF HandlerConsistent, Handling, Terminal, BeforeRows, AfterRows
    <3> QED BY <3>1, <3>2
  <2>4. \/ pc'[w] = "fail" /\ UNCHANGED status
        \/ \E t : /\ status'[job] = t
                  /\ t \notin Terminal \union {"PENDING", "FAILED_RETRYABLE"}
                  /\ status[job] \notin Terminal
                  /\ \/ /\ pc[w] \in BeforeRows
                        /\ pc'[w] \in BeforeRows \ {"persist"}
                     \/ pc[w] \in AfterRows /\ pc'[w] \in AfterRows
    <3>1. PICK op \in DOMAIN Transition : op = pc[w]
      BY <1>6 DEF Advance
    <3>2. /\ Transition[op][1] \notin Terminal
          /\ Transition[op][2] \notin Terminal \union
                                     {"PENDING", "FAILED_RETRYABLE"}
          /\ \/ /\ op \in BeforeRows
                /\ Transition[op][3] \in BeforeRows \ {"persist"}
             \/ op \in AfterRows /\ Transition[op][3] \in AfterRows
      BY <3>1 DEF Transition, Terminal, BeforeRows, AfterRows
    <3>3. CompareAndSet(w, Transition[op][1], Transition[op][2],
                           Transition[op][3])
      BY <1>6, <3>1 DEF Advance
    <3> QED BY <3>1, <3>2, <3>3 DEF CompareAndSet, Goto, TypeOK
  <2> QED BY <2>2, <2>3, <2>4
<1>7. CASE Validate(w)
  <2>1. UNCHANGED <<status, attempt, selected, rows, completions, runs,
                    objects, msg, run>>
        /\ pc[w] = "validate" /\ pc'[w] = "preprocess"
    BY <1>7 DEF Validate, rowVars, localVars, Goto, TypeOK
  <2>2. HandlerConsistent(w)'
    BY <1>c, <2>1 DEF HandlerConsistent, Handling, BeforeRows, AfterRows
  <2> QED BY <1>a, <2>1, <2>2
<1>8. CASE PutObjects(w)
  <2>1. UNCHANGED <<status, attempt, selected, rows, completions, runs, msg,
                    run>>
        /\ pc[w] = "put" /\ pc'[w] = "persist"
        /\ objects'[job] = objects[job] \union {run[w]}
    BY <1>8 DEF PutObjects, rowVars, localVars, Goto, TypeOK
  <2>2. HandlerConsistent(w)'
    BY <1>c, <2>1 DEF HandlerConsistent, Handling, BeforeRows, AfterRows
  <2> QED BY <1>a, <2>1, <2>2
<1>9. CASE PersistRows(w)
  <2>1. UNCHANGED <<status, attempt, selected, completions, runs, objects, msg,
                    run>>
        /\ pc[w] = "persist" /\ pc'[w] = "select"
        /\ rows'[job] = rows[job] \union {run[w]}
    BY <1>9 DEF PersistRows, localVars, Goto, TypeOK
  <2>2. /\ status[job] \notin {"COMPLETED", "FAILED_TERMINAL", "PENDING"}
        /\ rows'[job] = {run[w]}
    BY <2>1 DEF HandlerConsistent, Handling, BeforeRows
  <2>3. JobConsistent(job)'
    BY <2>1, <2>2 DEF JobConsistent
  <2>4. HandlerConsistent(w)'
    BY <1>c, <2>1, <2>2
       DEF HandlerConsistent, Handling, BeforeRows, AfterRows
  <2> QED BY <2>3, <2>4
<1>10. CASE MarkCompressed(w)
  <2>1. UNCHANGED <<status, attempt, selected, rows, completions, runs,
                    objects, msg, run>>
        /\ pc[w] = "mark" /\ pc'[w] = "package"
    BY <1>10 DEF MarkCompressed, localVars, Goto, TypeOK
  <2>2. HandlerConsistent(w)'
    BY <1>c, <2>1 DEF HandlerConsistent, Handling, BeforeRows, AfterRows
  <2> QED BY <1>a, <2>1, <2>2
<1>11. CASE Complete(w)
  <2>1. UNCHANGED <<attempt, rows, runs, objects, msg>> /\ pc[w] = "complete"
    BY <1>11 DEF Complete, localVars
  <2>2. rows[job] = {run[w]} /\ run[w] \in objects[job]
    BY <2>1 DEF HandlerConsistent, AfterRows
  <2>3. CASE ~(status[Job(w)] = "PACKAGING" /\ run[w] \in rows[Job(w)])
    <3>1. UNCHANGED <<status, selected, completions>> /\ pc'[w] = "fail"
      BY <1>11, <2>3 DEF Complete, Goto, TypeOK
    <3> QED BY <1>a, <1>b, <2>1, <3>1
  <2>4. CASE status[Job(w)] = "PACKAGING" /\ run[w] \in rows[Job(w)]
    <3>1. /\ status'[job] = "COMPLETED" /\ selected'[job] = run[w]
          /\ completions'[job] = completions[job] + 1 /\ pc'[w] = "ack"
      BY <1>11, <2>4 DEF Complete, Goto, TypeOK
    <3>2. completions[job] = 0
      BY <2>4 DEF JobConsistent
    <3>3. JobConsistent(job)'
      BY <2>1, <2>2, <3>1, <3>2 DEF JobConsistent
    <3>4. HandlerConsistent(w)'
      BY <1>c, <2>1, <3>1
         DEF HandlerConsistent, Handling, Terminal, BeforeRows, AfterRows
    <3> QED BY <3>3, <3>4
  <2> QED BY <2>3, <2>4
<1>12. CASE TerminalFailure(w)
  <2>1. UNCHANGED <<attempt, selected, rows, completions, runs, objects, msg>>
        /\ pc[w] \in Handling /\ pc'[w] = "ack"
        /\ status'[job] = "FAILED_TERMINAL"
    BY <1>12 DEF TerminalFailure, localVars, Goto, TypeOK, Handling
  <2>2. status[job] # "COMPLETED"
    BY <2>1 DEF HandlerConsistent
  <2>3. JobConsistent(job)'
    BY <2>1, <2>2 DEF JobConsistent
  <2>4. HandlerConsistent(w)'
    BY <1>c, <2>1
       DEF HandlerConsistent, Handling, Terminal, BeforeRows, AfterRows
  <2> QED BY <2>3, <2>4
<1>13. CASE Raise(w)
  <2>1. UNCHANGED <<status, attempt, selected, rows, completions, runs,
                    objects>> /\ pc'[w] = "fail"
    BY <1>13 DEF Raise, rowVars, Goto, TypeOK
  <2> QED BY <1>a, <1>b, <2>1
<1>14. CASE FailJob(w)
  <2>1. UNCHANGED <<selected, rows, completions, runs, objects>>
    BY <1>14 DEF FailJob
  <2>2. HandlerConsistent(w)'
    <3>1. CASE pc'[w] = "idle"
      BY <1>b, <3>1
    <3>2. CASE pc'[w] = "ack"
      <4>1. status'[job] \in Terminal /\ Job(w)' = job
        BY <1>14, <1>c, <3>2, FailOutcomes DEF localVars
      <4> QED BY <3>2, <4>1
              DEF HandlerConsistent, Handling, BeforeRows, AfterRows
    <3> QED BY <1>14, <3>1, <3>2, FailOutcomes
  <2>3. CASE UNCHANGED <<status, attempt>>
    BY <1>a, <2>1, <2>2, <2>3
  <2>4. ASSUME status[Job(w)] \notin Terminal,
               attempt' = [attempt EXCEPT ![Job(w)] = attempt[Job(w)] + 1],
               NEW s \in {"FAILED_TERMINAL", "FAILED_RETRYABLE"},
               status' = [status EXCEPT ![Job(w)] = s]
        PROVE  JobConsistent(job)'
    <3>1. attempt'[job] = attempt[job] + 1 /\ status'[job] = s
      BY <2>4 DEF TypeOK
    <3>2. status[job] # "COMPLETED"
      BY <2>4 DEF Terminal
    <3> QED BY <1>0, <2>1, <2>4, <3>1, <3>2 DEF JobConsistent
  <2> QED BY <1>14, <2>2, <2>3, <2>4, FailOutcomes
<1> QED
  BY <1>2, <1>3, <1>4, <1>5, <1>6, <1>7, <1>8, <1>9, <1>10, <1>11, <1>12,
     <1>13, <1>14 DEF Handle

(***************************************************************************)
(* All jobs and all workers together.                                      *)
(***************************************************************************)

\* No step undoes the verdict of a worker.
LEMMA VerdictStep ==
    ASSUME TypeOK, ExclusiveInv, [Next]_vars
    PROVE  \A j \in Jobs : status[j] \in {"COMPLETED", "FAILED_TERMINAL"}
                => status'[j] = status[j]
<1>1. CASE UNCHANGED status
  BY <1>1
<1>2. ASSUME NEW w \in Workers, Handle(w),
             NEW j \in Jobs, status[j] \in {"COMPLETED", "FAILED_TERMINAL"}
      PROVE  status'[j] = status[j]
  <2>1. CASE j # Job(w)
    BY <1>2, <2>1, HandleFrame
  <2>2. CASE j = Job(w)
    <3>1. pc[w] \notin Handling /\ status[Job(w)] \in Terminal
      BY <1>2, <2>2 DEF ExclusiveInv, HandlerConsistent, Terminal
    <3> QED BY <1>2, <3>1, TerminalStays
  <2> QED BY <2>1, <2>2
<1>3. ASSUME NEW i \in Jobs, Cancel(i),
             NEW j \in Jobs, status[j] \in {"COMPLETED", "FAILED_TERMINAL"}
      PROVE  status'[j] = status[j]
  BY <1>3 DEF Cancel, Terminal, TypeOK
<1>4. ASSUME NEW w \in Workers,
             Poll(w) \/ Acknowledge(w) \/ AcknowledgeError(w) \/ Crash(w)
      PROVE  UNCHANGED status
  BY <1>4, DeliveryFrame DEF rowVars
<1>5. ASSUME \/ \E m \in Messages : Publish(m)
             \/ \E j \in Jobs : RequestDecompression(j)
             \/ \E s \in Sources : DeleteOriginal(s)
             \/ UNCHANGED vars
      PROVE  UNCHANGED status
  BY <1>5 DEF Publish, RequestDecompression, DeleteOriginal, vars, rowVars
<1> QED BY <1>1, <1>2, <1>3, <1>4, <1>5 DEF Next

\* A delivery leaves the stream with its job in a terminal state, and the job
\* stays in one.
LEMMA AckedStep ==
    ASSUME TypeOK, ExclusiveInv, [Next]_vars
    PROVE  AckedOnlyWhenTerminal'
<1>0. \A m \in sent \ entries : JobOf[m] \in Jobs /\ status[JobOf[m]] \in Terminal
  BY JobOfAssumption DEF ExclusiveInv, AckedOnlyWhenTerminal, TypeOK, StreamTypeOK
<1>1. CASE UNCHANGED status /\ sent' \ entries' \subseteq sent \ entries
  BY <1>0, <1>1 DEF AckedOnlyWhenTerminal
<1>2. ASSUME NEW m \in Messages, Publish(m) PROVE AckedOnlyWhenTerminal'
  BY <1>1, <1>2 DEF Publish, XAdd, rowVars
<1>3. ASSUME NEW w \in Workers,
             Poll(w) \/ Acknowledge(w) \/ AcknowledgeError(w) \/ Crash(w)
      PROVE  AckedOnlyWhenTerminal'
  <2>1. UNCHANGED status
    BY <1>3, DeliveryFrame DEF rowVars
  <2>2. \/ UNCHANGED <<sent, entries>>
        \/ /\ pc[w] = "ack" /\ UNCHANGED sent
           /\ entries' = entries \ {msg[w]}
    BY <1>3 DEF Poll, NextOfBatch, ReadNew, XReadGroup, Reclaim, Acknowledge,
       AcknowledgeError, Crash, AckAndDelete, streamVars
  <2>3. pc[w] = "ack" => status[JobOf[msg[w]]] \in Terminal
    BY DEF ExclusiveInv, HandlerConsistent, Job
  <2> QED BY <1>0, <2>1, <2>2, <2>3 DEF AckedOnlyWhenTerminal
<1>4. ASSUME NEW w \in Workers, Handle(w) PROVE AckedOnlyWhenTerminal'
  <2>1. UNCHANGED <<sent, entries>>
    BY <1>4, HandleFrame DEF streamVars
  <2>2. ASSUME NEW m \in sent \ entries PROVE status'[JobOf[m]] \in Terminal
    <3>1. CASE JobOf[m] # Job(w)
      BY <1>0, <1>4, <3>1, HandleFrame
    <3>2. CASE JobOf[m] = Job(w)
      <4>1. pc[w] \notin Handling /\ status[Job(w)] \in Terminal
        BY <1>0, <3>2 DEF ExclusiveInv, HandledNotAcked
      <4> QED BY <1>0, <1>4, <4>1, TerminalStays
    <3> QED BY <3>1, <3>2
  <2> QED BY <2>1, <2>2 DEF AckedOnlyWhenTerminal
<1>5. ASSUME NEW j \in Jobs, Cancel(j) PROVE AckedOnlyWhenTerminal'
  <2>1. status' = [status EXCEPT ![j] = "CANCELLED"] /\ UNCHANGED <<sent, entries>>
    BY <1>5 DEF Cancel, streamVars
  <2>2. \A i \in Jobs : status[i] \in Terminal => status'[i] \in Terminal
    BY <2>1 DEF Terminal, TypeOK
  <2> QED BY <1>0, <2>1, <2>2 DEF AckedOnlyWhenTerminal
<1>6. ASSUME \/ \E j \in Jobs : RequestDecompression(j)
             \/ \E s \in Sources : DeleteOriginal(s)
             \/ UNCHANGED vars
      PROVE  AckedOnlyWhenTerminal'
  BY <1>1, <1>6 DEF RequestDecompression, DeleteOriginal, vars, rowVars, streamVars
<1> QED BY <1>2, <1>3, <1>4, <1>5, <1>6 DEF Next

\* A worker gets into process_job by reading a row that is not terminal.
LEMMA HandlingBegins ==
    ASSUME TypeOK, NEW w \in Workers, Handle(w), pc'[w] \in Handling
    PROVE  /\ Job(w)' = Job(w)
           /\ pc[w] \in Handling \/ status[Job(w)] \notin Terminal
<1>1. CASE ReadJob(w)
  <2>1. UNCHANGED msg /\ pc[w] = "read"
    BY <1>1 DEF ReadJob
  <2>2. status[Job(w)] \in Terminal => pc'[w] = "ack"
    BY <1>1, <2>1 DEF ReadJob, Goto, Terminal, TypeOK
  <2> QED BY <2>1, <2>2 DEF Job, Handling
<1>2. CASE FailJob(w)
  BY <1>2, FailOutcomes DEF Handling
<1>3. CASE Raise(w)
  BY <1>3 DEF Raise, Goto, Handling, TypeOK
<1>4. CASE ~(ReadJob(w) \/ FailJob(w) \/ Raise(w))
  <2>1. UNCHANGED msg
    BY <1>4 DEF Handle, RecoverSweep, RecoverReset, Claim, Advance, Validate,
       PutObjects, PersistRows, MarkCompressed, Complete, TerminalFailure,
       localVars
  <2>2. pc[w] \in Handling
    BY <1>4, TransitionType
       DEF Handle, Handling, RecoverSweep, RecoverReset, Claim, Advance,
           Validate, PutObjects, PersistRows, MarkCompressed, Complete,
           TerminalFailure
  <2> QED BY <2>1, <2>2 DEF Job
<1> QED BY <1>1, <1>2, <1>3, <1>4

\* While a worker handles a job, no other acknowledges a delivery of it.
LEMMA HandledStep ==
    ASSUME ExclusiveHandling, TypeOK, ExclusiveInv, [Next]_vars
    PROVE  HandledNotAcked'
<1>0. \A w \in Workers : pc[w] \in Handling =>
        \A m \in sent \ entries : JobOf[m] # Job(w)
  BY DEF ExclusiveInv, HandledNotAcked
<1>1. CASE UNCHANGED <<pc, msg>> /\ sent' \ entries' \subseteq sent \ entries
  BY <1>0, <1>1 DEF HandledNotAcked, Job
<1>2. ASSUME NEW w \in Workers,
             Poll(w) \/ Acknowledge(w) \/ AcknowledgeError(w) \/ Crash(w),
             NEW v \in Workers, pc'[v] \in Handling, NEW m \in sent' \ entries'
      PROVE  JobOf[m] # Job(v)'
  <2>1. v # w /\ pc'[v] = pc[v] /\ msg'[v] = msg[v]
    BY <1>2, DeliveryFrame DEF Handling
  <2>2. UNCHANGED sent /\ (m \in entries => pc[w] = "ack" /\ m = msg[w])
    BY <1>2 DEF Poll, NextOfBatch, ReadNew, XReadGroup, Reclaim, Acknowledge,
       AcknowledgeError, Crash, AckAndDelete, streamVars
  <2>3. CASE m \in entries
    <3>1. msg[v] # NoMessage /\ msg[w] # NoMessage
      BY <1>2, <2>1, <2>2, <2>3 DEF TypeOK, Handling
    <3>2. Job(v) # Job(w)
      BY <2>1, <3>1 DEF ExclusiveHandling
    <3> QED BY <2>1, <2>2, <2>3, <3>2 DEF Job
  <2>4. CASE m \notin entries
    BY <1>0, <1>2, <2>1, <2>2, <2>4 DEF Job
  <2> QED BY <2>3, <2>4
<1>3. ASSUME NEW w \in Workers, Handle(w),
             NEW v \in Workers, pc'[v] \in Handling, NEW m \in sent' \ entries'
      PROVE  JobOf[m] # Job(v)'
  <2>1. m \in sent \ entries
    BY <1>3, HandleFrame DEF streamVars
  <2>2. CASE v # w
    <3>1. pc'[v] = pc[v] /\ msg'[v] = msg[v]
      BY <1>3, <2>2, HandleFrame
    <3> QED BY <1>0, <1>3, <2>1, <3>1 DEF Job
  <2>3. CASE v = w
    BY <1>0, <1>3, <2>1, <2>3, HandlingBegins
       DEF ExclusiveInv, AckedOnlyWhenTerminal, Job
  <2> QED BY <2>2, <2>3
<1>4. ASSUME \/ \E m \in Messages : Publish(m)
             \/ \E j \in Jobs : Cancel(j) \/ RequestDecompression(j)
             \/ \E s \in Sources : DeleteOriginal(s)
             \/ UNCHANGED vars
      PROVE  UNCHANGED <<pc, msg>> /\ sent' \ entries' \subseteq sent \ entries
  BY <1>4 DEF Publish, XAdd, Cancel, RequestDecompression, DeleteOriginal, vars,
     localVars, streamVars
<1> QED BY <1>1, <1>2, <1>3, <1>4 DEF Next, HandledNotAcked

\* Only a completion releases a source.
LEMMA SourceStep ==
    ASSUME TypeOK, ExclusiveInv, [Next]_vars
    PROVE  SourceReleasedByCompletion'
<1>0. SourceReleasedByCompletion
  BY DEF ExclusiveInv
<1>1. \A j \in Jobs : status[j] = "COMPLETED" => status'[j] = "COMPLETED"
  BY VerdictStep
<1>2. CASE UNCHANGED source
  BY <1>0, <1>1, <1>2 DEF SourceReleasedByCompletion
<1>3. ASSUME NEW w \in Workers, Complete(w) PROVE SourceReleasedByCompletion'
  <2>1. PICK job \in Jobs : job = Job(w)
    BY <1>3, BusyHoldsJob DEF Complete
  <2>2. \/ UNCHANGED source
        \/ /\ status'[job] = "COMPLETED"
           /\ \A s \in Sources : s # SourceOf[job] => source'[s] = source[s]
    BY <1>3, <2>1 DEF Complete, TypeOK
  <2> QED BY <1>0, <1>1, <1>2, <2>2 DEF SourceReleasedByCompletion
<1>4. ASSUME NEW s \in Sources, DeleteOriginal(s)
      PROVE  SourceReleasedByCompletion'
  <2>1. \A t \in Sources : source'[t] # "kept" => source[t] # "kept"
    BY <1>4 DEF DeleteOriginal, Lifecycle!Delete, TypeOK
  <2> QED BY <1>0, <1>1, <2>1 DEF SourceReleasedByCompletion
<1>5. ASSUME NEW w \in Workers, Handle(w), ~Complete(w) PROVE UNCHANGED source
  BY <1>5 DEF Handle, ReadJob, RecoverSweep, RecoverReset, Claim, Advance,
     Validate, PutObjects, PersistRows, MarkCompressed, TerminalFailure, Raise,
     FailJob
<1>6. ASSUME NEW w \in Workers,
             Poll(w) \/ Acknowledge(w) \/ AcknowledgeError(w) \/ Crash(w)
      PROVE  UNCHANGED source
  BY <1>6, DeliveryFrame
<1>7. ASSUME \/ \E m \in Messages : Publish(m)
             \/ \E j \in Jobs : Cancel(j) \/ RequestDecompression(j)
             \/ UNCHANGED vars
      PROVE  UNCHANGED source
  BY <1>7 DEF Publish, Cancel, RequestDecompression, vars
<1> QED BY <1>2, <1>3, <1>4, <1>5, <1>6, <1>7 DEF Next

\* The invariant is inductive.
LEMMA ExclusiveStep ==
    ASSUME ExclusiveHandling, TypeOK, AttemptInv, ExclusiveInv, [Next]_vars
    PROVE  ExclusiveInv'
<1> DEFINE Jobs_ == \A j \in Jobs : JobConsistent(j)
           Handlers == \A w \in Workers : HandlerConsistent(w)
<1>0. Jobs_ /\ Handlers /\ ExclusiveHandling
  BY DEF ExclusiveInv
<1>1. SUFFICES Jobs_' /\ Handlers'
  BY <1>1, AckedStep, HandledStep, SourceStep, <1>0 DEF ExclusiveInv
<1>2. CASE UNCHANGED <<status, attempt, selected, rows, completions, objects,
                      runs, pc, msg, seen, run>>
  BY <1>0, <1>2 DEF JobConsistent, HandlerConsistent, Job, NextAttempt
<1>3. ASSUME NEW w \in Workers,
             Poll(w) \/ Acknowledge(w) \/ AcknowledgeError(w) \/ Crash(w)
      PROVE  Jobs_' /\ Handlers'
  <2>1. UNCHANGED <<status, attempt, selected, rows, completions, objects, runs>>
    BY <1>3, DeliveryFrame DEF rowVars
  <2>2. HandlerConsistent(w)'
    BY <1>3, DeliveryFrame
       DEF HandlerConsistent, Handling, BeforeRows, AfterRows
  <2>3. ASSUME NEW v \in Workers, v # w PROVE HandlerConsistent(v)'
    <3>1. /\ pc'[v] = pc[v] /\ msg'[v] = msg[v] /\ seen'[v] = seen[v]
          /\ run'[v] = run[v]
      BY <1>3, <2>3, DeliveryFrame
    <3>2. Job(v)' = Job(v) /\ NextAttempt(v)' = NextAttempt(v)
      BY <3>1 DEF Job, NextAttempt
    <3> QED BY <1>0, <2>1, <3>1, <3>2 DEF HandlerConsistent
  <2>4. Jobs_'
    BY <1>0, <2>1 DEF JobConsistent
  <2> QED BY <2>2, <2>3, <2>4
<1>4. ASSUME NEW w \in Workers, Handle(w) PROVE Jobs_' /\ Handlers'
  <2>1. PICK job \in Jobs : job = Job(w)
    BY <1>4, HandleFrame, BusyHoldsJob
  <2>2. JobConsistent(job)' /\ HandlerConsistent(w)'
    BY <1>0, <1>4, <2>1, HandleStep
  <2>3. ASSUME NEW j \in Jobs, j # job PROVE JobConsistent(j)'
    <3>1. /\ status'[j] = status[j] /\ attempt'[j] = attempt[j]
          /\ selected'[j] = selected[j] /\ rows'[j] = rows[j]
          /\ completions'[j] = completions[j]
          /\ objects'[j] = objects[j] /\ runs'[j] = runs[j]
      BY <1>4, <2>1, <2>3, HandleFrame
    <3> QED BY <1>0, <3>1 DEF JobConsistent
  <2>4. ASSUME NEW v \in Workers, v # w PROVE HandlerConsistent(v)'
    <3>1. /\ pc'[v] = pc[v] /\ msg'[v] = msg[v] /\ seen'[v] = seen[v]
          /\ run'[v] = run[v]
      BY <1>4, <2>4, HandleFrame
    <3>2. CASE pc[v] = "idle"
      BY <3>1, <3>2 DEF HandlerConsistent, Handling, BeforeRows, AfterRows
    <3>3. CASE pc[v] # "idle"
      <4>1. Job(v) \in Jobs /\ Job(v) # Job(w)
        BY <1>0, <1>4, <2>4, <3>3, HandleFrame, BusyHoldsJob
           DEF ExclusiveHandling, TypeOK
      <4>2. Job(v)' = Job(v) /\ NextAttempt(v)' = NextAttempt(v)
        BY <3>1 DEF Job, NextAttempt
      <4>3. /\ status'[Job(v)] = status[Job(v)] /\ rows'[Job(v)] = rows[Job(v)]
            /\ objects'[Job(v)] = objects[Job(v)]
            /\ runs'[Job(v)] = runs[Job(v)]
        BY <1>4, <4>1, HandleFrame
      <4> QED BY <1>0, <3>1, <4>2, <4>3 DEF HandlerConsistent
    <3> QED BY <3>2, <3>3
  <2> QED BY <2>2, <2>3, <2>4
<1>5. ASSUME NEW j \in Jobs, Cancel(j) PROVE Jobs_' /\ Handlers'
  <2>1. /\ UNCHANGED <<attempt, selected, rows, completions, objects, runs, pc,
                       msg, seen, run>>
        /\ status[j] \notin Terminal /\ status'[j] = "CANCELLED"
        /\ \A i \in Jobs : i # j => status'[i] = status[i]
    BY <1>5 DEF Cancel, localVars, TypeOK
  <2>2. Jobs_'
    BY <1>0, <2>1 DEF JobConsistent, Terminal
  <2>3. ASSUME NEW w \in Workers PROVE HandlerConsistent(w)'
    <3>1. Job(w)' = Job(w) /\ NextAttempt(w)' = NextAttempt(w)
      BY <2>1 DEF Job, NextAttempt
    <3>2. CASE pc[w] = "idle"
      BY <2>1, <3>2 DEF HandlerConsistent, Handling, BeforeRows, AfterRows
    <3>3. CASE pc[w] # "idle"
      <4>1. Job(w) \in Jobs
        BY <3>3, BusyHoldsJob
      <4>2. \/ status'[Job(w)] = status[Job(w)]
            \/ status'[Job(w)] = "CANCELLED"
        BY <2>1, <4>1
      <4> QED BY <1>0, <2>1, <3>1, <4>2 DEF HandlerConsistent, Terminal
    <3> QED BY <3>2, <3>3
  <2> QED BY <2>2, <2>3
<1>6. ASSUME \/ \E m \in Messages : Publish(m)
             \/ \E j \in Jobs : RequestDecompression(j)
             \/ \E s \in Sources : DeleteOriginal(s)
             \/ UNCHANGED vars
      PROVE  UNCHANGED <<status, attempt, selected, rows, completions, objects,
                         runs, pc, msg, seen, run>>
  BY <1>6 DEF Publish, RequestDecompression, DeleteOriginal, vars, rowVars,
     localVars
<1> QED BY <1>2, <1>3, <1>4, <1>5, <1>6 DEF Next

\* The invariant holds initially.
LEMMA ExclusiveInit == Init => ExclusiveInv
BY WorkerAssumption, JobOfAssumption
   DEF Init, StreamInit, ExclusiveInv, JobConsistent, HandlerConsistent,
       Handling, BeforeRows, AfterRows, SourceReleasedByCompletion,
       AckedOnlyWhenTerminal, HandledNotAcked

\* What the invariant says, in the terms of the properties.
LEMMA ExclusiveMeaning ==
    ASSUME TypeOK, ExclusiveInv
    PROVE  /\ CompletedPayloadStored /\ CompletionAnnouncedOnce
           /\ RunsWithinAttempts /\ SingleGeneration
           /\ SourceKeptUntilCompletion /\ AckedOnlyWhenTerminal
BY DEF ExclusiveInv, JobConsistent, CompletedPayloadStored,
       CompletionAnnouncedOnce, RunsWithinAttempts, SingleGeneration,
       SourceKeptUntilCompletion, SourceReleasedByCompletion

\* The whole invariant holds as long as handlers of one job do not overlap.
THEOREM ExclusiveInvariant ==
    Spec /\ []ExclusiveHandling => [](TypeOK /\ AttemptInv /\ ExclusiveInv)
<1>1. Init => AttemptInv /\ ExclusiveInv
  BY ExclusiveInit, WorkerAssumption
     DEF Init, AttemptInv, AttemptsBounded, Handling
<1>2. ExclusiveHandling /\ TypeOK /\ AttemptInv /\ ExclusiveInv /\ [Next]_vars
        => AttemptInv' /\ ExclusiveInv'
  BY AttemptStep, ExclusiveStep
<1> QED BY <1>1, <1>2, TypeCorrect, PTL DEF Spec

\* The premise of this and the next seven: no two workers ever handle one job at
\* a time.  A completed job keeps the rows and the stored payload it selected.
THEOREM CompletedPayloadIsStored ==
    Spec /\ []ExclusiveHandling => []CompletedPayloadStored
<1>1. TypeOK /\ ExclusiveInv => CompletedPayloadStored
  BY ExclusiveMeaning
<1> QED BY <1>1, ExclusiveInvariant, PTL

\* A job announces its completion exactly when it is COMPLETED, and once.
THEOREM CompletionIsAnnouncedOnce ==
    Spec /\ []ExclusiveHandling => []CompletionAnnouncedOnce
<1>1. TypeOK /\ ExclusiveInv => CompletionAnnouncedOnce
  BY ExclusiveMeaning
<1> QED BY <1>1, ExclusiveInvariant, PTL

\* No delivery is dropped before its job is terminal.
THEOREM AcknowledgedOnlyWhenTerminal ==
    Spec /\ []ExclusiveHandling => []AckedOnlyWhenTerminal
<1>1. TypeOK /\ ExclusiveInv => AckedOnlyWhenTerminal
  BY ExclusiveMeaning
<1> QED BY <1>1, ExclusiveInvariant, PTL

\* Crashes and failures together start a job at most WORKER_MAX_ATTEMPTS times.
THEOREM RunsStayWithinAttempts ==
    Spec /\ []ExclusiveHandling => []RunsWithinAttempts
<1>1. TypeOK /\ ExclusiveInv => RunsWithinAttempts
  BY ExclusiveMeaning
<1> QED BY <1>1, ExclusiveInvariant, PTL

\* The candidates of a job are always of one run.
THEOREM GenerationsNeverMix ==
    Spec /\ []ExclusiveHandling => []SingleGeneration
<1>1. TypeOK /\ ExclusiveInv => SingleGeneration
  BY ExclusiveMeaning
<1> QED BY <1>1, ExclusiveInvariant, PTL

\* No source is deleted before a job that read it has completed.
THEOREM SourcesKeptUntilCompletion ==
    Spec /\ []ExclusiveHandling => []SourceKeptUntilCompletion
<1>1. TypeOK /\ ExclusiveInv => SourceKeptUntilCompletion
  BY ExclusiveMeaning
<1> QED BY <1>1, ExclusiveInvariant, PTL

\* COMPLETED and FAILED_TERMINAL are never left.
THEOREM VerdictsAreFinal ==
    Spec /\ []ExclusiveHandling => WorkerVerdictIsFinal
<1>1. TypeOK /\ ExclusiveInv /\ [Next]_vars
        => [\A j \in Jobs : status[j] \in {"COMPLETED", "FAILED_TERMINAL"}
                => status'[j] = status[j]]_status
  BY VerdictStep
<1> QED BY <1>1, ExclusiveInvariant, PTL DEF Spec, WorkerVerdictIsFinal

\* A job whose payload was swept under a decompression request is in no run: a
\* recovery fails for it, and its claim misses.
LEMMA StrandedHandleStep ==
    ASSUME TypeOK, ReferenceInv, ExclusiveInv, NEW w \in Workers, Handle(w),
           NEW j \in Jobs, Stranded(j)
    PROVE  /\ Stranded(j)'
           /\ runs'[j] = runs[j] /\ completions'[j] = completions[j]
           /\ status'[j] \notin {"PENDING", "COMPLETED"}
<1>1. PICK r : r \in pinned[j] /\ r \in rows[j] /\ r \notin objects[j]
  BY DEF Stranded, ReferenceInv
<1>2. status[j] \notin {"PENDING", "COMPLETED"}
  BY <1>1 DEF ExclusiveInv, JobConsistent
<1>3. UNCHANGED pinned
  BY HandleFrame
<1>4. CASE j # Job(w)
  BY <1>2, <1>3, <1>4, HandleFrame DEF Stranded
<1>5. CASE j = Job(w)
  <2>1. pc[w] \notin BeforeRows \union AfterRows
    BY <1>1, <1>5 DEF ExclusiveInv, HandlerConsistent
  <2>2. \/ ReadJob(w) \/ RecoverSweep(w) \/ RecoverReset(w) \/ Claim(w)
        \/ TerminalFailure(w) \/ Raise(w) \/ FailJob(w)
    <3>1. pc[w] \notin {"validate", "preprocess", "encode", "measure", "put", "persist",
                        "select", "mark", "package", "complete"}
      BY <2>1 DEF BeforeRows, AfterRows
    <3>2. ~(Validate(w) \/ PutObjects(w) \/ PersistRows(w) \/ MarkCompressed(w)
              \/ Complete(w))
      BY <3>1 DEF Validate, PutObjects, PersistRows, MarkCompressed, Complete
    <3>3. ~Advance(w)
      BY <3>1 DEF Advance, Transition
    <3> QED BY <3>2, <3>3 DEF Handle
  <2>3. UNCHANGED completions /\ objects'[j] \subseteq objects[j]
    BY <2>2 DEF ReadJob, RecoverSweep, RecoverReset, Claim, TerminalFailure, Raise,
       FailJob, rowVars, TypeOK
  <2>4. UNCHANGED runs /\ status'[j] \in {status[j], "FAILED_TERMINAL", "FAILED_RETRYABLE"}
    <3>1. CASE ReadJob(w) \/ RecoverSweep(w) \/ Raise(w)
      BY <3>1 DEF ReadJob, RecoverSweep, Raise, rowVars
    <3>2. CASE RecoverReset(w)
      BY <1>1, <1>5, <3>2 DEF RecoverReset
    <3>3. CASE Claim(w)
      BY <1>2, <1>5, <3>3 DEF Claim, CompareAndSet
    <3>4. CASE TerminalFailure(w)
      BY <1>5, <3>4 DEF TerminalFailure, TypeOK
    <3>5. CASE FailJob(w)
      BY <1>5, <3>5 DEF FailJob, TypeOK
    <3> QED BY <2>2, <3>1, <3>2, <3>3, <3>4, <3>5
  <2> QED BY <1>2, <1>3, <2>3, <2>4 DEF Stranded
<1> QED BY <1>4, <1>5

LEMMA StrandedStep ==
    ASSUME TypeOK, ReferenceInv, ExclusiveInv, [Next]_vars, NEW j \in Jobs, Stranded(j)
    PROVE  /\ Stranded(j)'
           /\ runs'[j] = runs[j] /\ completions'[j] = completions[j]
           /\ status'[j] \notin {"PENDING", "COMPLETED"}
<1>1. status[j] \notin {"PENDING", "COMPLETED"}
  BY DEF Stranded, ReferenceInv, ExclusiveInv, JobConsistent
<1>2. ASSUME UNCHANGED <<status, runs, completions, objects>>, pinned[j] \subseteq pinned'[j]
      PROVE  /\ Stranded(j)'
             /\ runs'[j] = runs[j] /\ completions'[j] = completions[j]
             /\ status'[j] \notin {"PENDING", "COMPLETED"}
  BY <1>1, <1>2 DEF Stranded
<1>3. ASSUME NEW w \in Workers, Handle(w)
      PROVE  /\ Stranded(j)'
             /\ runs'[j] = runs[j] /\ completions'[j] = completions[j]
             /\ status'[j] \notin {"PENDING", "COMPLETED"}
  BY <1>3, StrandedHandleStep
<1>4. ASSUME NEW i \in Jobs, Cancel(i)
      PROVE  /\ Stranded(j)'
             /\ runs'[j] = runs[j] /\ completions'[j] = completions[j]
             /\ status'[j] \notin {"PENDING", "COMPLETED"}
  BY <1>1, <1>4 DEF Cancel, Stranded, TypeOK
<1>5. CASE \E i \in Jobs : RequestDecompression(i)
  BY <1>2, <1>5 DEF RequestDecompression, TypeOK
<1>6. ASSUME NEW w \in Workers,
             Poll(w) \/ Acknowledge(w) \/ AcknowledgeError(w) \/ Crash(w)
      PROVE  UNCHANGED <<status, runs, completions, objects, pinned>>
  BY <1>6, DeliveryFrame DEF rowVars
<1>7. ASSUME \/ \E m \in Messages : Publish(m)
             \/ \E s \in Sources : DeleteOriginal(s)
             \/ UNCHANGED vars
      PROVE  UNCHANGED <<status, runs, completions, objects, pinned>>
  BY <1>7 DEF Publish, DeleteOriginal, vars, rowVars
<1> QED BY <1>2, <1>3, <1>4, <1>5, <1>6, <1>7 DEF Next

\* Once the payload of a referenced result is swept, the job is not started again
\* and never completes: the premise keeps other handlers away from its rows.
THEOREM StrandedJobsOnlyFail ==
    Spec /\ []ExclusiveHandling => StrandedJobOnlyFails
<1>1. TypeOK /\ ReferenceInv /\ ExclusiveInv /\ [Next]_vars
        => [\A j \in Jobs : Stranded(j) =>
                /\ Stranded(j)'
                /\ runs'[j] = runs[j] /\ completions'[j] = completions[j]
                /\ status'[j] \notin {"PENDING", "COMPLETED"}]_vars
  BY StrandedStep
<1> QED BY <1>1, ExclusiveInvariant, ReferencesStay, PTL DEF Spec, StrandedJobOnlyFails

(***************************************************************************)
(* A deployment in which handlers of one job never overlap.                *)
(***************************************************************************)

\* Every job has one delivery, and XAUTOCLAIM hands over one entry at a time, so
\* that no claimed entry waits in a batch.
OneHandlerDeployment ==
    /\ \A m, n \in Messages : JobOf[m] = JobOf[n] => m = n
    /\ ClaimBatch = 1

\* A delivery in hand is pending, was handed over fresh and is in no other
\* hand; nothing waits in a batch.
Deliveries ==
    /\ pending \subseteq entries /\ entries \subseteq sent
    /\ \A w \in Workers :
        /\ batch[w] = {}
        /\ msg[w] # NoMessage => fresh[w] /\ msg[w] \in pending
        /\ \A v \in Workers : w # v /\ msg[w] # NoMessage => msg[v] # msg[w]

\* With one delivery per job, distinct deliveries in hand are distinct jobs.
LEMMA HandlersApart ==
    ASSUME OneHandlerDeployment, TypeOK, Deliveries
    PROVE  ExclusiveHandling
BY DEF OneHandlerDeployment, TypeOK, Deliveries, ExclusiveHandling, Job

\* An XAUTOCLAIM of one entry leaves nothing for a batch.
LEMMA SingleClaim ==
    ASSUME NEW claimed, IsFiniteSet(claimed), Cardinality(claimed) = 1,
           NEW m \in claimed
    PROVE  claimed \ {m} = {}
BY FS_Singleton

\* No step hands a delivery to a second worker.
LEMMA DeliveriesStep ==
    ASSUME ClaimBatch = 1, TypeOK, Deliveries, [Next]_vars
    PROVE  Deliveries'
<1>1. ASSUME UNCHANGED <<pending, fresh, msg, batch>>,
             entries \subseteq entries', entries' \subseteq sent'
      PROVE  Deliveries'
  BY <1>1 DEF Deliveries
<1>2. ASSUME NEW w \in Workers, NEW rest, rest = {}, Release(w, rest),
             \/ UNCHANGED streamVars
             \/ /\ msg[w] # NoMessage
                /\ pending' = pending \ {msg[w]}
                /\ entries' = entries \ {msg[w]} /\ UNCHANGED sent
      PROVE  Deliveries'
  <2>1. /\ msg' = [msg EXCEPT ![w] = NoMessage]
        /\ fresh' = [fresh EXCEPT ![w] = FALSE]
        /\ batch' = [batch EXCEPT ![w] = {}]
    BY <1>2 DEF Release
  <2>2. \A v \in Workers : batch'[v] = {}
    BY <2>1 DEF Deliveries, TypeOK
  <2>3. \A v \in Workers : msg'[v] # NoMessage =>
            v # w /\ msg'[v] = msg[v] /\ fresh'[v] = fresh[v]
    BY <2>1 DEF TypeOK
  <2>4. pending' \subseteq entries' /\ entries' \subseteq sent'
    BY <1>2 DEF Deliveries, streamVars
  <2>5. \A v \in Workers : msg'[v] # NoMessage => msg'[v] \in pending'
    BY <1>2, <2>3 DEF Deliveries, streamVars
  <2>6. \A v, u \in Workers :
            v # u /\ msg'[v] # NoMessage => msg'[u] # msg'[v]
    BY <2>1, <2>3 DEF Deliveries, TypeOK
  <2> QED BY <2>2, <2>3, <2>4, <2>5, <2>6 DEF Deliveries
<1>3. ASSUME NEW w \in Workers, NEW m \in Messages, Take(w, m, TRUE, {}),
             \A v \in Workers : v # w => msg[v] # m,
             pending' = pending \union {m}, m \in entries,
             UNCHANGED <<entries, sent>>
      PROVE  Deliveries'
  <2>1. /\ msg' = [msg EXCEPT ![w] = m]
        /\ fresh' = [fresh EXCEPT ![w] = TRUE]
        /\ batch' = [batch EXCEPT ![w] = {}]
    BY <1>3 DEF Take
  <2>2. pending' \subseteq entries' /\ entries' \subseteq sent'
    BY <1>3 DEF Deliveries
  <2>3. \A v \in Workers :
            batch'[v] = {} /\ (msg'[v] # NoMessage
                                  => fresh'[v] /\ msg'[v] \in pending')
    BY <1>3, <2>1 DEF Deliveries, TypeOK
  <2>4. \A v, u \in Workers :
            v # u /\ msg'[v] # NoMessage => msg'[u] # msg'[v]
    BY <1>3, <2>1, WorkerAssumption DEF Deliveries, TypeOK
  <2> QED BY <2>2, <2>3, <2>4 DEF Deliveries
<1>4. ASSUME NEW m \in Messages, Publish(m) PROVE Deliveries'
  BY <1>1, <1>4 DEF Publish, XAdd, localVars, Deliveries
<1>5. ASSUME NEW w \in Workers, NextOfBatch(w) PROVE Deliveries'
  BY <1>5 DEF NextOfBatch, Deliveries
<1>6. ASSUME NEW w \in Workers, NEW m \in Messages, ReadNew(w, m)
      PROVE  Deliveries'
  <2>1. /\ Take(w, m, TRUE, {}) /\ m \in entries /\ m \notin pending
        /\ pending' = pending \union {m} /\ UNCHANGED <<entries, sent>>
    BY <1>6 DEF ReadNew, XReadGroup, Undelivered
  <2>2. \A v \in Workers : msg[v] # m
    BY <2>1, WorkerAssumption DEF Deliveries
  <2> QED BY <1>3, <2>1, <2>2
<1>7. ASSUME NEW w \in Workers, NEW claimed \in SUBSET Messages,
             Reclaim(w, claimed)
      PROVE  Deliveries'
  <2>1. PICK m \in claimed : Take(w, m, TRUE, claimed \ {m})
    BY <1>7 DEF Reclaim
  <2>2. claimed \ {m} = {}
    <3>1. Cardinality(claimed) = 1 /\ IsFiniteSet(claimed)
      BY <1>7 DEF Reclaim
    <3> QED BY <3>1, SingleClaim
  <2>3. m \in pending /\ \A v \in Workers : ~(fresh[v] /\ msg[v] = m)
    BY <1>7 DEF Reclaim, Reclaimable
  <2>4. \A v \in Workers : msg[v] # m
    BY <2>1, <2>3, WorkerAssumption DEF Deliveries
  <2>5. UNCHANGED streamVars /\ pending = pending \union {m} /\ m \in entries
    BY <1>7, <2>3 DEF Reclaim, Deliveries
  <2> QED BY <1>3, <2>1, <2>2, <2>4, <2>5 DEF streamVars
<1>8. ASSUME NEW w \in Workers,
             Acknowledge(w) \/ AcknowledgeError(w) \/ Crash(w)
      PROVE  Deliveries'
  <2>1. PICK rest : rest = {} /\ Release(w, rest)
    BY <1>8 DEF Acknowledge, AcknowledgeError, Crash, Deliveries
  <2>2. \/ UNCHANGED streamVars
        \/ pc[w] = "ack" /\ AckAndDelete(msg[w])
    BY <1>8 DEF Acknowledge, AcknowledgeError, Crash
  <2>3. \/ UNCHANGED streamVars
        \/ /\ msg[w] # NoMessage
           /\ pending' = pending \ {msg[w]}
           /\ entries' = entries \ {msg[w]} /\ UNCHANGED sent
    BY <2>2 DEF AckAndDelete, Deliveries, TypeOK
  <2> QED BY <1>2, <2>1, <2>3
<1>9. ASSUME NEW w \in Workers, Handle(w) PROVE Deliveries'
  <2>1. UNCHANGED streamVars
    BY <1>9, HandleFrame
  <2>2. CASE UNCHANGED <<msg, fresh, batch>>
    BY <1>1, <2>1, <2>2 DEF streamVars, Deliveries
  <2>3. CASE FailJob(w)
    <3>1. Release(w, batch[w]) \/ UNCHANGED localVars
      BY <2>3 DEF FailJob, AfterFailure
    <3>2. batch[w] = {}
      BY DEF Deliveries
    <3> QED BY <1>2, <2>1, <2>2, <3>1, <3>2 DEF localVars
  <2>4. FailJob(w) \/ UNCHANGED <<msg, fresh, batch>>
    BY <1>9 DEF Handle, ReadJob, RecoverSweep, RecoverReset, Claim, Advance,
       Validate, PutObjects, PersistRows, MarkCompressed, Complete,
       TerminalFailure, Raise, localVars
  <2> QED BY <2>2, <2>3, <2>4
<1>10. ASSUME \/ \E j \in Jobs : Cancel(j) \/ RequestDecompression(j)
              \/ \E s \in Sources : DeleteOriginal(s)
              \/ UNCHANGED vars
       PROVE  Deliveries'
  BY <1>1, <1>10 DEF Cancel, RequestDecompression, DeleteOriginal, vars,
     localVars, streamVars, Deliveries
<1> QED
  BY <1>4, <1>5, <1>6, <1>7, <1>8, <1>9, <1>10 DEF Next, Poll

\* Under the documented deployment rules no two workers ever handle the same
\* job at the same time.
THEOREM HandlingIsExclusive ==
    OneHandlerDeployment => (Spec => []ExclusiveHandling)
<1> SUFFICES ASSUME OneHandlerDeployment PROVE Spec => []ExclusiveHandling
  OBVIOUS
<1>1. Init => Deliveries
  BY DEF Init, StreamInit, Deliveries
<1>2. TypeOK /\ Deliveries /\ [Next]_vars => Deliveries'
  BY DeliveriesStep DEF OneHandlerDeployment
<1>3. TypeOK /\ Deliveries => ExclusiveHandling
  BY HandlersApart
<1> QED BY <1>1, <1>2, <1>3, TypeCorrect, PTL DEF Spec

\* What the documented deployment rules are worth: all of the above, for any
\* number of jobs, workers, attempts and faults.
THEOREM OneHandlerSuffices ==
    OneHandlerDeployment => (Spec =>
        /\ [](CompletedPayloadStored /\ CompletionAnnouncedOnce)
        /\ [](AckedOnlyWhenTerminal /\ RunsWithinAttempts)
        /\ [](SingleGeneration /\ SourceKeptUntilCompletion)
        /\ WorkerVerdictIsFinal /\ StrandedJobOnlyFails)
<1> SUFFICES ASSUME OneHandlerDeployment
             PROVE  Spec => /\ [](CompletedPayloadStored /\ CompletionAnnouncedOnce)
                            /\ [](AckedOnlyWhenTerminal /\ RunsWithinAttempts)
                            /\ [](SingleGeneration /\ SourceKeptUntilCompletion)
                            /\ WorkerVerdictIsFinal /\ StrandedJobOnlyFails
  OBVIOUS
<1> QED
  BY HandlingIsExclusive, CompletedPayloadIsStored, CompletionIsAnnouncedOnce,
     AcknowledgedOnlyWhenTerminal, RunsStayWithinAttempts, GenerationsNeverMix,
     SourcesKeptUntilCompletion, VerdictsAreFinal, StrandedJobsOnlyFail, PTL
===============================================================================
