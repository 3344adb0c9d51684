------------------- MODULE CompressionWorkerContractProofs -------------------
(***************************************************************************)
(* CompressionWorker implements two specifications.  JobContract is what a *)
(* client sees: every step of deliveries, runs, retries and crashes is a   *)
(* step of the contract or leaves what a client sees alone, as long as no  *)
(* two workers handle one job at a time.  DeliveryHandling is what the     *)
(* stream sees: it is kept as long as no two workers have one delivery.    *)
(***************************************************************************)
EXTENDS CompressionWorkerExclusiveProofs

(***************************************************************************)
(* What the steps of a worker do to the deliveries it has.                 *)
(***************************************************************************)

\* A worker takes a delivery: a new one, one of a claim or the next one of an
\* earlier claim.
TakesOne(w, m, rest) ==
    /\ pc[w] = "idle" /\ msg[w] = NoMessage
    /\ msg' = [msg EXCEPT ![w] = m] /\ batch' = [batch EXCEPT ![w] = rest]
    /\ pc' = [pc EXCEPT ![w] = "read"]
    /\ \/ XReadGroup(m) /\ batch[w] = {} /\ rest = {}
       \/ /\ UNCHANGED streamVars /\ m \notin rest
          /\ {m} \union rest \subseteq batch[w] \union pending

LEMMA PollShape ==
    ASSUME TypeOK, NEW w \in Workers, Poll(w)
    PROVE  /\ \E m \in Messages, rest \in SUBSET Messages : TakesOne(w, m, rest)
           /\ UNCHANGED <<status, runs, completions, source>>
<1>1. CASE NextOfBatch(w)
    <2>1. PICK m \in batch[w] : Take(w, m, FALSE, batch[w] \ {m})
        BY <1>1 DEF NextOfBatch
    <2>2. TakesOne(w, m, batch[w] \ {m})
        BY <1>1, <2>1 DEF NextOfBatch, Take, Goto, TakesOne, TypeOK
    <2>3. m \in Messages /\ batch[w] \ {m} \in SUBSET Messages
        BY DEF TypeOK
    <2> QED BY <1>1, <2>2, <2>3 DEF NextOfBatch, rowVars
<1>2. ASSUME NEW m \in Messages, ReadNew(w, m)
      PROVE  TakesOne(w, m, {}) /\ UNCHANGED <<status, runs, completions, source>>
    BY <1>2 DEF ReadNew, Take, Goto, TakesOne, TypeOK, rowVars
<1>3. ASSUME NEW claimed \in SUBSET Messages, Reclaim(w, claimed)
      PROVE  /\ \E m \in Messages, rest \in SUBSET Messages : TakesOne(w, m, rest)
             /\ UNCHANGED <<status, runs, completions, source>>
    <2>1. PICK m \in claimed : Take(w, m, TRUE, claimed \ {m})
        BY <1>3 DEF Reclaim
    <2>2. TakesOne(w, m, claimed \ {m})
        BY <1>3, <2>1 DEF Reclaim, Reclaimable, Take, Goto, TakesOne, TypeOK
    <2> QED BY <1>3, <2>2 DEF Reclaim, rowVars
<1> QED BY <1>1, <1>2, <1>3 DEF Poll

\* A worker lets go of its delivery; the entry goes only if it was about to
\* acknowledge it.
LEMMA LetGoShape ==
    ASSUME TypeOK, NEW w \in Workers,
           Acknowledge(w) \/ AcknowledgeError(w) \/ Crash(w)
    PROVE  /\ msg' = [msg EXCEPT ![w] = NoMessage]
           /\ pc' = [pc EXCEPT ![w] = "idle"]
           /\ \A v \in Workers : batch'[v] \subseteq batch[v]
           /\ UNCHANGED <<status, runs, completions, source, sent, group>>
           /\ \/ UNCHANGED streamVars
              \/ pc[w] = "ack" /\ AckAndDelete(msg[w])
<1>1. /\ \E rest \in {{}, batch[w]} : Release(w, rest)
      /\ \/ UNCHANGED streamVars
         \/ pc[w] = "ack" /\ AckAndDelete(msg[w])
    BY DEF Acknowledge, AcknowledgeError, Crash
<1>2. UNCHANGED <<status, runs, completions, source>>
    BY DeliveryFrame DEF rowVars
<1> QED BY <1>1, <1>2 DEF Release, Goto, AckAndDelete, streamVars, TypeOK

\* The status a handling step writes, and whether the worker keeps its delivery.
\* It acknowledges a terminal job only, starts or continues a run only on a
\* row that is not terminal, and returns a delivery only with FAILED_RETRYABLE.
LEMMA HandleRow ==
    ASSUME TypeOK, NEW w \in Workers, Handle(w)
    PROVE  \E s \in Status :
              /\ status' = [status EXCEPT ![Job(w)] = s]
              /\ Phase(s) = "active" => status[Job(w)] \notin Terminal
              /\ pc'[w] = "ack" => s \in Terminal
              /\ \/ pc'[w] # "idle" /\ UNCHANGED <<msg, batch>>
                 \/ /\ pc'[w] = "idle" /\ msg' = [msg EXCEPT ![w] = NoMessage]
                    /\ UNCHANGED batch
                    /\ s = "FAILED_RETRYABLE" /\ status[Job(w)] \notin Terminal
<1> DEFINE j == Job(w)
<1>0. j \in Jobs /\ status[j] \in Status /\ pc[w] # "idle"
    BY HandleFrame, BusyHoldsJob DEF TypeOK
<1>k. ASSUME UNCHANGED status PROVE status' = [status EXCEPT ![j] = status[j]]
    BY <1>0, <1>k DEF TypeOK
<1>p. Phase(status[j]) = "active" => status[j] \notin Terminal
    BY DEF Phase, Terminal
<1> HIDE DEF j
<1>1. CASE \/ RecoverSweep(w) \/ Validate(w) \/ PutObjects(w)
           \/ PersistRows(w) \/ MarkCompressed(w) \/ Raise(w)
    <2>1. /\ UNCHANGED <<status, msg, batch>>
          /\ pc'[w] \in {"reset", "preprocess", "persist", "select", "package", "fail"}
        BY <1>1 DEF RecoverSweep, Validate, PutObjects, PersistRows, MarkCompressed,
            Raise, rowVars, localVars, Goto, TypeOK
    <2> QED BY <1>0, <1>k, <1>p, <2>1 DEF j
<1>2. CASE ReadJob(w)
    <2>1. /\ UNCHANGED <<status, msg, batch>> /\ pc'[w] # "idle"
          /\ pc'[w] = "ack" => status[j] \in Terminal
        BY <1>0, <1>2 DEF ReadJob, rowVars, Goto, Terminal, TypeOK, j
    <2> QED BY <1>0, <1>k, <1>p, <2>1 DEF j
<1>3. CASE RecoverReset(w)
    <2>1. UNCHANGED <<msg, batch>>
        BY <1>3 DEF RecoverReset, localVars
    <2>2. \/ pc'[w] = "fail" /\ UNCHANGED status
          \/ pc'[w] = "ack" /\ status' = [status EXCEPT ![j] = "FAILED_TERMINAL"]
          \/ pc'[w] = "claim" /\ status' = [status EXCEPT ![j] = "PENDING"]
        BY <1>3, ResetOutcomes DEF Goto, TypeOK, j
    <2>3. /\ "FAILED_TERMINAL" \in Terminal /\ Terminal \subseteq Status
          /\ "PENDING" \in Status
          /\ Phase("PENDING") = "open" /\ Phase("FAILED_TERMINAL") = "settled"
        BY DEF Phase, Status, Terminal
    <2> QED BY <1>0, <1>k, <1>p, <2>1, <2>2, <2>3 DEF j
<1>4. CASE Claim(w)
    <2>1. UNCHANGED <<msg, batch>>
        BY <1>4 DEF Claim
    <2>2. \/ pc'[w] = "fail" /\ UNCHANGED status
          \/ /\ pc'[w] = "validate" /\ status[j] = "PENDING"
             /\ status' = [status EXCEPT ![j] = "VALIDATING"]
        BY <1>4 DEF Claim, CompareAndSet, Goto, TypeOK, j
    <2>3. "VALIDATING" \in Status /\ "PENDING" \notin Terminal
        BY DEF Status, Terminal
    <2> QED BY <1>0, <1>k, <1>p, <2>1, <2>2, <2>3 DEF j
<1>5. CASE Advance(w)
    <2>1. UNCHANGED <<msg, batch>>
        BY <1>5 DEF Advance, localVars
    <2>2. PICK op \in DOMAIN Transition : op = pc[w]
        BY <1>5 DEF Advance
    <2>3. /\ Transition[op][1] \in Status \ Terminal
          /\ Transition[op][2] \in Status \ Terminal
          /\ Transition[op][3] \notin {"idle", "ack"}
        BY TransitionType DEF Handling
    <2>4. \/ pc'[w] = "fail" /\ UNCHANGED status
          \/ /\ pc'[w] = Transition[op][3] /\ status[j] = Transition[op][1]
             /\ status' = [status EXCEPT ![j] = Transition[op][2]]
        BY <1>5, <2>2 DEF Advance, CompareAndSet, Goto, TypeOK, j
    <2> QED BY <1>0, <1>k, <1>p, <2>1, <2>3, <2>4 DEF j
<1>6. CASE Complete(w) \/ TerminalFailure(w)
    <2>1. UNCHANGED <<msg, batch>>
        BY <1>6 DEF Complete, TerminalFailure, localVars
    <2>2. \/ pc'[w] = "fail" /\ UNCHANGED status
          \/ /\ pc'[w] = "ack"
             /\ \E s \in {"COMPLETED", "FAILED_TERMINAL"} :
                    status' = [status EXCEPT ![j] = s]
        BY <1>6 DEF Complete, TerminalFailure, Goto, TypeOK, j
    <2>3. \A s \in {"COMPLETED", "FAILED_TERMINAL"} :
            s \in Terminal /\ s \in Status /\ Phase(s) = "settled"
        BY DEF Phase, Status, Terminal
    <2> QED BY <1>0, <1>k, <1>p, <2>1, <2>2, <2>3 DEF j
<1>7. CASE FailJob(w)
    <2>1. PICK s \in {status[j], "FAILED_TERMINAL", "FAILED_RETRYABLE"} :
            /\ status' = [status EXCEPT ![j] = s] /\ AfterFailure(w, s)
            /\ status[j] \notin Terminal => s \in {"FAILED_TERMINAL", "FAILED_RETRYABLE"}
            /\ status[j] \in Terminal => s = status[j]
        BY <1>7 DEF FailJob, Terminal, j
    <2>2. /\ {"FAILED_TERMINAL", "FAILED_RETRYABLE"} \subseteq Status
          /\ "FAILED_TERMINAL" \in Terminal
          /\ Phase("FAILED_RETRYABLE") # "active" /\ Phase("FAILED_TERMINAL") # "active"
        BY DEF Phase, Status, Terminal
    <2>3. CASE s \in Terminal
        <3>1. UNCHANGED localVars /\ pc'[w] = "ack"
            BY <1>0, <2>1, <2>3 DEF AfterFailure, Goto, TypeOK
        <3> QED BY <1>0, <1>p, <2>1, <2>2, <2>3, <3>1 DEF localVars, j
    <2>4. CASE s \notin Terminal
        <3>1. Release(w, batch[w])
            BY <2>1, <2>4 DEF AfterFailure
        <3>2. /\ pc'[w] = "idle" /\ msg' = [msg EXCEPT ![w] = NoMessage]
              /\ UNCHANGED batch
            BY <3>1 DEF Release, Goto, TypeOK
        <3>3. s = "FAILED_RETRYABLE" /\ status[j] \notin Terminal
            BY <2>1, <2>2, <2>4
        <3> QED BY <1>0, <1>p, <2>1, <2>2, <3>2, <3>3 DEF j
    <2> QED BY <2>3, <2>4
<1> QED BY <1>1, <1>2, <1>3, <1>4, <1>5, <1>6, <1>7 DEF Handle

\* Whatever a worker has was sent.
SentInv ==
    /\ entries \subseteq sent /\ pending \subseteq sent
    /\ \A w \in Workers :
        /\ batch[w] \subseteq sent
        /\ msg[w] # NoMessage => msg[w] \in sent

LEMMA SentStep == TypeOK /\ SentInv /\ [Next]_vars => SentInv'
<1> SUFFICES ASSUME TypeOK, SentInv, [Next]_vars PROVE SentInv'
    OBVIOUS
<1>1. ASSUME UNCHANGED <<msg, batch, pending>>, sent \subseteq sent',
             entries' \subseteq sent'
      PROVE  SentInv'
    BY <1>1 DEF SentInv
<1>2. ASSUME NEW w \in Workers, Poll(w) PROVE SentInv'
    <2>1. PICK m \in Messages, rest \in SUBSET Messages : TakesOne(w, m, rest)
        BY <1>2, PollShape
    <2>2. UNCHANGED <<sent, entries>> /\ pending' \subseteq pending \union entries
          /\ {m} \union rest \subseteq sent
        BY <2>1 DEF TakesOne, XReadGroup, Undelivered, streamVars, SentInv
    <2> QED BY <2>1, <2>2 DEF TakesOne, SentInv, TypeOK
<1>3. ASSUME NEW w \in Workers,
             Acknowledge(w) \/ AcknowledgeError(w) \/ Crash(w)
      PROVE  SentInv'
    <2>1. entries' \subseteq entries /\ pending' \subseteq pending
        BY <1>3, LetGoShape DEF AckAndDelete, streamVars
    <2> QED BY <1>3, <2>1, LetGoShape DEF SentInv, TypeOK
<1>4. ASSUME NEW w \in Workers, Handle(w) PROVE SentInv'
    <2>1. UNCHANGED <<sent, entries, pending, batch>>
          /\ \A v \in Workers : msg'[v] \in {msg[v], NoMessage}
        BY <1>4, HandleFrame, HandleRow DEF streamVars, TypeOK
    <2> QED BY <2>1 DEF SentInv
<1>5. ASSUME NEW m \in Messages, Publish(m) PROVE SentInv'
    BY <1>1, <1>5 DEF Publish, XAdd, localVars, SentInv
<1>6. ASSUME \/ \E j \in Jobs : Cancel(j) \/ RequestDecompression(j)
             \/ \E s \in Sources : DeleteOriginal(s)
             \/ UNCHANGED vars
      PROVE  UNCHANGED <<msg, batch, pending, sent, entries>>
    BY <1>6 DEF Cancel, RequestDecompression, DeleteOriginal, vars, localVars,
       streamVars
<1> QED BY <1>1, <1>2, <1>3, <1>4, <1>5, <1>6 DEF Next, SentInv

LEMMA SentAlways == Spec => []SentInv
<1>1. Init => SentInv
    BY DEF Init, StreamInit, SentInv
<1> QED BY <1>1, SentStep, TypeCorrect, PTL DEF Spec

(***************************************************************************)
(* A run in progress has begun.                                            *)
(***************************************************************************)

\* The operations in the middle of a run, and what holds there: it has begun.
InRun == BeforeRows \union AfterRows
StartedInv == \A w \in Workers : pc[w] \in InRun => runs[Job(w)] > 0

\* A worker gets into a run only by the claim that starts it.
LEMMA RunBegins ==
    ASSUME TypeOK, NEW w \in Workers, Handle(w), pc'[w] \in InRun
    PROVE  /\ msg'[w] = msg[w] /\ runs'[Job(w)] \in Nat
           /\ \/ pc[w] \in InRun /\ runs'[Job(w)] = runs[Job(w)]
              \/ runs'[Job(w)] = runs[Job(w)] + 1
<1> USE DEF InRun, BeforeRows, AfterRows, Goto
<1> Job(w) \in Jobs
    BY HandleFrame, BusyHoldsJob
<1>1. CASE ReadJob(w) \/ RecoverSweep(w) \/ Raise(w) \/ TerminalFailure(w)
    BY <1>1 DEF ReadJob, RecoverSweep, Raise, TerminalFailure, TypeOK
<1>2. CASE RecoverReset(w)
    <2>1. pc'[w] \in {"fail", "ack", "claim"}
        BY <1>2, ResetOutcomes DEF TypeOK
    <2> QED BY <2>1
<1>3. CASE Claim(w)
    BY <1>3 DEF Claim, CompareAndSet, TypeOK
<1>4. CASE Advance(w)
    <2>1. UNCHANGED <<msg, runs>>
        BY <1>4 DEF Advance, localVars
    <2>2. pc[w] \in InRun
        BY <1>4 DEF Advance, Transition
    <2> QED BY <2>1, <2>2 DEF TypeOK
<1>5. CASE Validate(w) \/ PutObjects(w) \/ PersistRows(w) \/ MarkCompressed(w)
    BY <1>5 DEF Validate, PutObjects, PersistRows, MarkCompressed, localVars, TypeOK
<1>6. CASE Complete(w)
    BY <1>6 DEF Complete, localVars, TypeOK
<1>7. CASE FailJob(w)
    BY <1>7, FailOutcomes
<1> QED BY <1>1, <1>2, <1>3, <1>4, <1>5, <1>6, <1>7 DEF Handle

LEMMA StartedStep ==
    ASSUME ExclusiveHandling, TypeOK, StartedInv, [Next]_vars
    PROVE  StartedInv'
<1>1. ASSUME NEW w \in Workers, Handle(w) PROVE StartedInv'
    <2>1. ASSUME pc'[w] \in InRun PROVE runs'[Job(w)'] > 0
        <3>1. Job(w)' = Job(w) /\ Job(w) \in Jobs
            BY <1>1, <2>1, RunBegins, HandleFrame, BusyHoldsJob DEF Job
        <3>2. runs[Job(w)] \in Nat
            BY <3>1 DEF TypeOK
        <3> QED BY <1>1, <2>1, <3>1, <3>2, RunBegins DEF StartedInv
    <2>2. ASSUME NEW v \in Workers, v # w, pc'[v] \in InRun PROVE runs'[Job(v)'] > 0
        <3>1. pc'[v] = pc[v] /\ msg'[v] = msg[v]
            BY <1>1, <2>2, HandleFrame
        <3>2. pc[v] # "idle" /\ pc[w] # "idle"
            BY <1>1, <2>2, <3>1, HandleFrame DEF InRun, BeforeRows, AfterRows
        <3>3. Job(v) \in Jobs /\ Job(v) # Job(w) /\ Job(v)' = Job(v)
            BY <2>2, <3>1, <3>2, BusyHoldsJob DEF ExclusiveHandling, TypeOK, Job
        <3>4. runs'[Job(v)] = runs[Job(v)]
            BY <1>1, <3>3, HandleFrame
        <3> QED BY <2>2, <3>1, <3>3, <3>4 DEF StartedInv
    <2> QED BY <2>1, <2>2 DEF StartedInv
<1>2. ASSUME NEW w \in Workers,
             Poll(w) \/ Acknowledge(w) \/ AcknowledgeError(w) \/ Crash(w)
      PROVE  StartedInv'
    BY <1>2, DeliveryFrame DEF StartedInv, InRun, BeforeRows, AfterRows, Job
<1>3. ASSUME UNCHANGED <<pc, msg, runs>> PROVE StartedInv'
    BY <1>3 DEF StartedInv, Job
<1>4. ASSUME \/ \E m \in Messages : Publish(m)
             \/ \E j \in Jobs : Cancel(j) \/ RequestDecompression(j)
             \/ \E s \in Sources : DeleteOriginal(s)
             \/ UNCHANGED vars
      PROVE  UNCHANGED <<pc, msg, runs>>
    BY <1>4 DEF Publish, Cancel, RequestDecompression, DeleteOriginal, vars, localVars
<1> QED BY <1>1, <1>2, <1>3, <1>4 DEF Next

(***************************************************************************)
(* The refinement.                                                         *)
(***************************************************************************)

ClientView == [j \in Jobs |-> Verdict(status[j])]
Submitted == {JobOf[m] : m \in sent}

\* One status changes: so does one verdict, if they differ at all.
LEMMA ViewOfStep ==
    ASSUME TypeOK, NEW j \in Jobs, NEW s,
           status' = [status EXCEPT ![j] = s]
    PROVE  ClientView' = [ClientView EXCEPT ![j] = Verdict(s)]
BY DEF ClientView, TypeOK

LEMMA ViewIsStable ==
    ASSUME TypeOK, NEW j \in Jobs, NEW s,
           status' = [status EXCEPT ![j] = s], Verdict(s) = Verdict(status[j])
    PROVE  ClientView' = ClientView
BY DEF ClientView, TypeOK

LEMMA OpenStatus ==
    ASSUME NEW s \in Status
    PROVE  Verdict(s) = "open" <=> s \notin Terminal
BY DEF Verdict, Status, Terminal

\* What a client sees of a step, in the variables of CompressionWorker.
Unseen == ClientView' = ClientView /\ UNCHANGED <<sent, runs, completions, source>>

LEMMA UnseenIsStutter == Unseen => UNCHANGED Contract!vars
BY DEF Unseen, Contract!vars, ClientView

LEMMA SameStatusUnseen ==
    ASSUME UNCHANGED <<status, sent, runs, completions, source>>
    PROVE  Unseen
BY DEF Unseen, ClientView

\* A job in a worker's hand was submitted.
LEMMA InHandIsSubmitted ==
    ASSUME TypeOK, SentInv, NEW w \in Workers, pc[w] # "idle"
    PROVE  Job(w) \in Submitted
BY BusyHoldsJob, WorkerAssumption DEF TypeOK, SentInv, Job, Submitted

LEMMA FailStep ==
    ASSUME TypeOK, NEW j \in Jobs, j \in Submitted,
           status[j] \notin {"COMPLETED", "FAILED_TERMINAL"},
           status' = [status EXCEPT ![j] = "FAILED_TERMINAL"],
           UNCHANGED <<sent, runs, completions, source>>
    PROVE  Contract!Fail(j)
<1>1. ClientView' = [ClientView EXCEPT ![j] = "failed"]
    BY ViewOfStep DEF Verdict
<1>2. ClientView[j] \in {"open", "cancelled"}
    BY DEF ClientView, Verdict, TypeOK, Status, Terminal
<1>3. Submitted' = Submitted
    BY DEF Submitted
<1> QED BY <1>1, <1>2, <1>3 DEF Contract!Fail, ClientView, Submitted

\* A status that is not final, or was read before a cancellation, goes back to
\* one that is open.
LEMMA OpenStep ==
    ASSUME TypeOK, NEW j \in Jobs, j \in Submitted, NEW s \in Status \ Terminal,
           status[j] \notin {"COMPLETED", "FAILED_TERMINAL"},
           status' = [status EXCEPT ![j] = s],
           UNCHANGED <<sent, runs, completions, source>>
    PROVE  Contract!Reopen(j) \/ Unseen
<1>1. Verdict(s) = "open"
    BY OpenStatus
<1>2. CASE status[j] = "CANCELLED"
    <2>1. ClientView' = [ClientView EXCEPT ![j] = "open"] /\ ClientView[j] = "cancelled"
        BY <1>1, <1>2, ViewOfStep DEF ClientView, Verdict
    <2>2. Submitted' = Submitted
        BY DEF Submitted
    <2> QED BY <2>1, <2>2 DEF Contract!Reopen, ClientView, Submitted
<1>3. CASE status[j] # "CANCELLED"
    <2>1. status[j] \in Status /\ status[j] \notin Terminal
        BY <1>3 DEF TypeOK, Terminal
    <2>2. Verdict(status[j]) = "open"
        BY <2>1, OpenStatus
    <2> QED BY <1>1, <2>2, ViewIsStable DEF Unseen
<1> QED BY <1>2, <1>3

LEMMA ClaimStep ==
    ASSUME TypeOK, SentInv, NEW w \in Workers, Claim(w),
           \A j \in Jobs : JobConsistent(j)'
    PROVE  Contract!Start(Job(w)) \/ Unseen
<1> DEFINE job == Job(w)
<1>1. job \in Jobs /\ job \in Submitted
    BY BusyHoldsJob, InHandIsSubmitted DEF Claim
<1>2. UNCHANGED <<sent, completions, source>>
    BY DEF Claim, streamVars
<1>3. CASE status[job] # "PENDING"
    <2>1. UNCHANGED <<status, runs>>
        BY <1>3 DEF Claim, CompareAndSet
    <2> QED BY <1>2, <2>1, SameStatusUnseen
<1>4. CASE status[job] = "PENDING"
    <2>1. status' = [status EXCEPT ![job] = "VALIDATING"]
          /\ runs' = [runs EXCEPT ![job] = @ + 1]
        BY <1>4 DEF Claim, CompareAndSet
    <2>2. ClientView' = ClientView /\ ClientView[job] = "open"
        BY <1>1, <1>4, <2>1, ViewIsStable DEF ClientView, Verdict
    <2>3. runs'[job] <= MaxAttempts /\ runs'[job] = runs[job] + 1 /\ runs[job] \in Nat
        BY <1>1, <2>1 DEF JobConsistent, TypeOK
    <2>4. runs[job] < MaxAttempts
        BY <2>3, WorkerAssumption
    <2>5. Submitted' = Submitted
        BY <1>2 DEF Submitted
    <2> HIDE DEF job
    <2>6. Contract!Start(job)
        BY <1>1, <1>2, <2>1, <2>2, <2>4, <2>5
           DEF Contract!Start, ClientView, Submitted
    <2> QED BY <2>6 DEF job
<1> QED BY <1>3, <1>4

LEMMA CompleteStep ==
    ASSUME TypeOK, StartedInv, NEW w \in Workers, Complete(w)
    PROVE  Contract!Complete(Job(w)) \/ Unseen
<1> DEFINE job == Job(w)
<1>1. job \in Jobs /\ runs[job] > 0
    BY BusyHoldsJob DEF Complete, StartedInv, InRun, AfterRows
<1>2. UNCHANGED <<sent, runs>>
    BY DEF Complete, streamVars
<1>3. CASE ~(status[job] = "PACKAGING" /\ run[w] \in rows[job])
    <2>1. UNCHANGED <<status, completions, source>>
        BY <1>3 DEF Complete
    <2> QED BY <1>2, <2>1, SameStatusUnseen
<1>4. CASE status[job] = "PACKAGING" /\ run[w] \in rows[job]
    <2>1. /\ status' = [status EXCEPT ![job] = "COMPLETED"]
          /\ completions' = [completions EXCEPT ![job] = @ + 1]
          /\ source' = [source EXCEPT ![SourceOf[job]] = IF @ = "kept" THEN "due" ELSE @]
        BY <1>4 DEF Complete
    <2>2. ClientView' = [ClientView EXCEPT ![job] = "completed"]
          /\ ClientView[job] = "open"
        BY <1>1, <1>4, <2>1, ViewOfStep DEF ClientView, Verdict
    <2>3. Submitted' = Submitted
        BY <1>2 DEF Submitted
    <2> HIDE DEF job
    <2>4. Contract!Complete(job)
        BY <1>1, <1>2, <2>1, <2>2, <2>3 DEF Contract!Complete, ClientView, Submitted
    <2> QED BY <2>4 DEF job
<1> QED BY <1>3, <1>4

LEMMA HandleRefines ==
    ASSUME TypeOK, ExclusiveInv, SentInv, StartedInv, NEW w \in Workers, Handle(w),
           \A j \in Jobs : JobConsistent(j)'
    PROVE  Contract!Next \/ Unseen
<1> DEFINE job == Job(w)
<1>1. job \in Jobs /\ job \in Submitted /\ UNCHANGED sent
    BY HandleFrame, BusyHoldsJob, InHandIsSubmitted DEF ExclusiveInv, streamVars
<1>2. pc[w] \in Handling => status[job] \notin {"COMPLETED", "FAILED_TERMINAL"}
    BY DEF ExclusiveInv, HandlerConsistent
<1>3. CASE \/ ReadJob(w) \/ RecoverSweep(w) \/ Validate(w) \/ PutObjects(w)
           \/ PersistRows(w) \/ MarkCompressed(w) \/ Raise(w)
    <2>1. UNCHANGED <<status, runs, completions, source>>
        BY <1>3 DEF ReadJob, RecoverSweep, Validate, PutObjects, PersistRows,
            MarkCompressed, Raise, rowVars
    <2> QED BY <1>1, <2>1, SameStatusUnseen
<1>4. CASE RecoverReset(w)
    <2>1. UNCHANGED <<runs, completions, source>> /\ pc[w] \in Handling
        BY <1>4 DEF RecoverReset, Handling
    <2>2. \/ UNCHANGED status
          \/ status' = [status EXCEPT ![job] = "FAILED_TERMINAL"]
          \/ status' = [status EXCEPT ![job] = "PENDING"]
        BY <1>4, ResetOutcomes
    <2>3. "PENDING" \in Status \ Terminal
        BY DEF Status, Terminal
    <2> HIDE DEF job
    <2>4. Contract!Fail(job) \/ Contract!Reopen(job) \/ Unseen
        BY <1>1, <1>2, <2>1, <2>2, <2>3, SameStatusUnseen, FailStep, OpenStep
    <2> QED BY <1>1, <2>4 DEF Contract!Next
<1>5. CASE Claim(w)
    BY <1>1, <1>5, ClaimStep DEF Contract!Next, ExclusiveInv
<1>6. CASE Advance(w)
    <2>1. UNCHANGED <<runs, completions, source>>
        BY <1>6 DEF Advance
    <2>2. PICK op \in DOMAIN Transition : op = pc[w]
        BY <1>6 DEF Advance
    <2>3. Transition[op][1] \in Status \ Terminal /\ Transition[op][2] \in Status \ Terminal
        BY TransitionType
    <2>4. \/ UNCHANGED status
          \/ /\ status[job] \in Status \ Terminal
             /\ status' = [status EXCEPT ![job] = Transition[op][2]]
        BY <1>6, <2>2, <2>3 DEF Advance, CompareAndSet
    <2>5. status[job] \notin Terminal => status[job] \notin {"COMPLETED", "FAILED_TERMINAL"}
        BY DEF Terminal
    <2> HIDE DEF job
    <2>6. Contract!Reopen(job) \/ Unseen
        BY <1>1, <2>1, <2>3, <2>4, <2>5, SameStatusUnseen, OpenStep
    <2> QED BY <1>1, <2>6 DEF Contract!Next
<1>7. CASE Complete(w)
    BY <1>1, <1>7, CompleteStep DEF Contract!Next, ExclusiveInv
<1>8. CASE TerminalFailure(w)
    <2>1. UNCHANGED <<runs, completions, source>> /\ pc[w] \in Handling
          /\ status' = [status EXCEPT ![job] = "FAILED_TERMINAL"]
        BY <1>8 DEF TerminalFailure, Handling
    <2> HIDE DEF job
    <2>2. Contract!Fail(job)
        BY <1>1, <1>2, <2>1, FailStep
    <2> QED BY <1>1, <2>2 DEF Contract!Next
<1>9. CASE FailJob(w)
    <2>1. UNCHANGED <<runs, completions, source>>
        BY <1>9 DEF FailJob
    <2>2. CASE status[job] \in Terminal
        <3>1. status' = [status EXCEPT ![job] = status[job]]
            BY <1>9, <2>2 DEF FailJob
        <3>2. UNCHANGED status
            BY <1>1, <3>1 DEF TypeOK
        <3> QED BY <1>1, <2>1, <3>2, SameStatusUnseen
    <2>3. CASE status[job] \notin Terminal
        <3>1. \/ status' = [status EXCEPT ![job] = "FAILED_TERMINAL"]
              \/ status' = [status EXCEPT ![job] = "FAILED_RETRYABLE"]
            BY <1>9, <2>3 DEF FailJob
        <3>2. "FAILED_RETRYABLE" \in Status \ Terminal
            BY DEF Status, Terminal
        <3>3. status[job] \notin {"COMPLETED", "FAILED_TERMINAL"}
            BY <2>3 DEF Terminal
        <3> HIDE DEF job
        <3>4. Contract!Fail(job) \/ Contract!Reopen(job) \/ Unseen
            BY <1>1, <2>1, <3>1, <3>2, <3>3, FailStep, OpenStep
        <3> QED BY <1>1, <3>4 DEF Contract!Next
    <2> QED BY <2>2, <2>3
<1> QED BY <1>3, <1>4, <1>5, <1>6, <1>7, <1>8, <1>9 DEF Handle

\* Every step is one of the contract's, or a client sees nothing of it.
LEMMA StepRefines ==
    ASSUME TypeOK, ExclusiveInv, SentInv, StartedInv, [Next]_vars,
           \A j \in Jobs : JobConsistent(j)'
    PROVE  [Contract!Next]_(Contract!vars)
<1>1. ASSUME NEW m \in Messages, Publish(m) PROVE Contract!Submit(JobOf[m])
    <2>1. sent' = sent \union {m} /\ UNCHANGED <<status, runs, completions, source>>
        BY <1>1 DEF Publish, XAdd, rowVars
    <2>2. Submitted' = Submitted \union {JobOf[m]} /\ ClientView' = ClientView
        BY <2>1 DEF Submitted, ClientView
    <2> QED BY <2>1, <2>2 DEF Contract!Submit, Submitted, ClientView
<1>2. ASSUME NEW j \in Jobs, Cancel(j) PROVE Contract!Cancel(j)
    <2>1. /\ status[j] \notin Terminal /\ status' = [status EXCEPT ![j] = "CANCELLED"]
          /\ UNCHANGED <<sent, runs, completions, source>>
        BY <1>2 DEF Cancel, streamVars
    <2>2. ClientView' = [ClientView EXCEPT ![j] = "cancelled"]
        BY <2>1, ViewOfStep DEF Verdict
    <2>3. ClientView[j] = "open"
        BY <2>1, OpenStatus DEF ClientView, TypeOK
    <2>4. Submitted' = Submitted
        BY <2>1 DEF Submitted
    <2> QED BY <2>1, <2>2, <2>3, <2>4 DEF Contract!Cancel, ClientView, Submitted
<1>3. ASSUME NEW s \in Sources, DeleteOriginal(s) PROVE Contract!Delete(s)
    <2>1. UNCHANGED <<status, sent, runs, completions>>
        BY <1>3 DEF DeleteOriginal, streamVars, rowVars
    <2>2. Submitted' = Submitted /\ ClientView' = ClientView
        BY <2>1 DEF Submitted, ClientView
    <2> QED BY <1>3, <2>1, <2>2 DEF DeleteOriginal, Lifecycle!Delete, Contract!Delete,
                                    Submitted, ClientView
<1>4. ASSUME NEW w \in Workers,
             Poll(w) \/ Acknowledge(w) \/ AcknowledgeError(w) \/ Crash(w)
      PROVE  Unseen
    <2>1. UNCHANGED <<status, runs, completions, source>>
        BY <1>4, DeliveryFrame DEF rowVars
    <2>2. UNCHANGED sent
        BY <1>4 DEF Poll, NextOfBatch, ReadNew, XReadGroup, Reclaim, Acknowledge,
           AcknowledgeError, Crash, AckAndDelete, streamVars
    <2> QED BY <2>1, <2>2, SameStatusUnseen
<1>5. ASSUME (\E j \in Jobs : RequestDecompression(j)) \/ UNCHANGED vars PROVE Unseen
    BY <1>5, SameStatusUnseen DEF RequestDecompression, vars, rowVars, streamVars
<1>6. ASSUME NEW w \in Workers, Handle(w) PROVE Contract!Next \/ Unseen
    BY <1>6, HandleRefines
<1>7. \A m \in Messages : JobOf[m] \in Jobs
    BY JobOfAssumption
<1>8. Contract!Next \/ Unseen
    BY <1>1, <1>2, <1>3, <1>4, <1>5, <1>6, <1>7 DEF Next, Contract!Next
<1> QED BY <1>8, UnseenIsStutter

\* As long as no two workers handle one job at a time, the worker with all its
\* crashes, retries and lost acknowledgements does to a job only what the
\* contract says, for any number of jobs, workers, deliveries and faults.
THEOREM WorkerKeepsContract ==
    Spec /\ []ExclusiveHandling => Contract!SafeSpec
<1>1. Init => StartedInv /\ Contract!Init
    <2>1. Init => StartedInv
        BY DEF Init, StartedInv, InRun, BeforeRows, AfterRows
    <2>2. Init => ClientView = [j \in Jobs |-> "open"]
        BY DEF Init, ClientView, Verdict
    <2>3. Init => Contract!Init
        BY <2>2 DEF Init, StreamInit, Contract!Init, ClientView
    <2> QED BY <2>1, <2>3
<1>2. ExclusiveInv => \A j \in Jobs : JobConsistent(j)
    BY DEF ExclusiveInv
<1>3. ExclusiveHandling /\ TypeOK /\ StartedInv /\ [Next]_vars => StartedInv'
    BY StartedStep
<1>4. TypeOK /\ SentInv /\ ExclusiveInv /\ ExclusiveInv' /\ StartedInv /\ [Next]_vars
        => [Contract!Next]_(Contract!vars)
    BY <1>2, StepRefines DEF ExclusiveInv
<1> QED BY <1>1, <1>3, <1>4, ExclusiveInvariant, SentAlways, PTL
        DEF Spec, Contract!SafeSpec

\* In particular under the documented deployment rules.
THEOREM OneHandlerKeepsContract ==
    OneHandlerDeployment => (Spec => Contract!SafeSpec)
<1> SUFFICES ASSUME OneHandlerDeployment PROVE Spec => Contract!SafeSpec
    OBVIOUS
<1> QED BY HandlingIsExclusive, WorkerKeepsContract, PTL

(***************************************************************************)
(* The delivery rules: an open job keeps an entry that nobody is about to  *)
(* acknowledge, however the handlers of its deliveries overlap.            *)
(***************************************************************************)

\* What a worker has is pending, and one delivery is handled once.
HandsInv ==
    /\ group /\ pending \subseteq entries /\ entries \subseteq sent
    /\ \A w \in Workers : Has(w) \subseteq pending /\ msg[w] \notin batch[w]

\* Entry n stays in the stream whatever the next step is.
Stays(n) == n \in entries /\ \A w \in Workers : msg[w] = n => pc[w] # "ack"

CoveredInv ==
    \A m \in sent : status[JobOf[m]] \in Terminal
        \/ \E n \in Messages : JobOf[n] = JobOf[m] /\ Stays(n)

LEMMA HandsDiffer ==
    ASSUME DeliveriesApart, NEW w \in Workers, NEW v \in Workers \ {w}, msg[w] # NoMessage
    PROVE  msg[v] # msg[w] /\ msg[w] \notin batch[v]
<1>1. msg[w] \in Has(w) /\ Has(w) \intersect Has(v) = {}
    BY DEF DeliveriesApart, Has
<1> QED BY <1>1 DEF Has

LEMMA HandEmptied ==
    ASSUME TypeOK, DeliveriesApart, NEW w \in Workers, msg[w] # NoMessage,
           msg' = [msg EXCEPT ![w] = NoMessage]
    PROVE  InHand' = InHand \ {msg[w]}
<1>1. \A v \in Workers : msg'[v] = IF v = w THEN NoMessage ELSE msg[v]
    BY DEF TypeOK
<1>2. \A v \in Workers \ {w} : msg[v] # msg[w]
    BY HandsDiffer
<1>3. ASSUME NEW m PROVE m \in InHand' <=> m \in InHand \ {msg[w]}
    BY <1>1, <1>2 DEF InHand
<1> QED BY <1>3

LEMMA HandsStep ==
    ASSUME TypeOK, DeliveriesApart, HandsInv, [Next]_vars
    PROVE  HandsInv'
<1>1. ASSUME UNCHANGED <<msg, batch, pending, group>>, sent \subseteq sent',
             entries \subseteq entries', entries' \subseteq sent'
      PROVE  HandsInv'
    BY <1>1 DEF HandsInv, Has
<1>2. ASSUME NEW w \in Workers, Poll(w) PROVE HandsInv'
    <2>1. PICK m \in Messages, rest \in SUBSET Messages : TakesOne(w, m, rest)
        BY <1>2, PollShape
    <2>2. /\ UNCHANGED <<sent, entries, group>> /\ pending \subseteq pending'
          /\ pending' \subseteq entries /\ m \notin rest
          /\ {m} \union rest \subseteq pending'
        BY <2>1 DEF TakesOne, XReadGroup, Undelivered, streamVars, HandsInv, Has
    <2> QED BY <2>1, <2>2 DEF TakesOne, HandsInv, Has, TypeOK
<1>3. ASSUME NEW w \in Workers,
             Acknowledge(w) \/ AcknowledgeError(w) \/ Crash(w)
      PROVE  HandsInv'
    <2>1. ASSUME NEW v \in Workers
          PROVE  Has(v)' \subseteq Has(v) \ {msg[w]} /\ msg'[v] \notin batch'[v]
        <3>1. batch'[v] \subseteq batch[v] /\ NoMessage \notin batch[v]
              /\ msg'[v] = IF v = w THEN NoMessage ELSE msg[v]
            BY <1>3, LetGoShape, WorkerAssumption DEF TypeOK
        <3>2. CASE v = w
            BY <3>1, <3>2 DEF HandsInv, Has
        <3>3. CASE v # w
            <4>1. msg[w] = NoMessage \/ (msg[v] # msg[w] /\ msg[w] \notin batch[v])
                BY <3>3, HandsDiffer
            <4> QED BY <3>1, <3>3, <4>1 DEF HandsInv, Has
        <3> QED BY <3>2, <3>3
    <2>2. /\ UNCHANGED <<sent, group>>
          /\ \/ UNCHANGED <<entries, pending>>
             \/ entries' = entries \ {msg[w]} /\ pending' = pending \ {msg[w]}
        BY <1>3, LetGoShape DEF AckAndDelete, streamVars
    <2> QED BY <2>1, <2>2 DEF HandsInv
<1>4. ASSUME NEW w \in Workers, Handle(w) PROVE HandsInv'
    <2>1. UNCHANGED <<streamVars, batch>>
          /\ \A v \in Workers : msg'[v] \in {msg[v], NoMessage}
        BY <1>4, HandleFrame, HandleRow DEF TypeOK
    <2>2. \A v \in Workers : NoMessage \notin batch[v]
        BY WorkerAssumption DEF TypeOK
    <2> QED BY <2>1, <2>2 DEF HandsInv, Has, streamVars
<1>5. ASSUME NEW m \in Messages, Publish(m) PROVE HandsInv'
    BY <1>1, <1>5 DEF Publish, XAdd, localVars, HandsInv
<1>6. ASSUME \/ \E j \in Jobs : Cancel(j) \/ RequestDecompression(j)
             \/ \E s \in Sources : DeleteOriginal(s)
             \/ UNCHANGED vars
      PROVE  UNCHANGED <<msg, batch, streamVars>>
    BY <1>6 DEF Cancel, RequestDecompression, DeleteOriginal, vars, localVars
<1> QED BY <1>1, <1>2, <1>3, <1>4, <1>5, <1>6 DEF Next, HandsInv, streamVars

LEMMA CoveredStep ==
    ASSUME TypeOK, DeliveriesApart, HandsInv, CoveredInv, [Next]_vars
    PROVE  CoveredInv'
<1>1. ASSUME \A j \in Jobs : status[j] \in Terminal => status'[j] \in Terminal,
             UNCHANGED sent,
             \A n \in Messages : Stays(n) => Stays(n)'
      PROVE  CoveredInv'
    BY <1>1, JobOfAssumption DEF CoveredInv, TypeOK, StreamTypeOK
<1>2. ASSUME NEW w \in Workers, Poll(w) PROVE CoveredInv'
    <2>1. PICK m \in Messages, rest \in SUBSET Messages : TakesOne(w, m, rest)
        BY <1>2, PollShape
    <2>2. UNCHANGED <<sent, entries, status>>
        BY <1>2, <2>1, PollShape DEF TakesOne, XReadGroup, streamVars
    <2>3. \A n \in Messages : Stays(n) => Stays(n)'
        BY <2>1, <2>2 DEF TakesOne, Stays, TypeOK
    <2> QED BY <1>1, <2>2, <2>3
<1>3. ASSUME NEW w \in Workers,
             Acknowledge(w) \/ AcknowledgeError(w) \/ Crash(w)
      PROVE  CoveredInv'
    <2>1. /\ UNCHANGED <<status, sent>>
          /\ msg' = [msg EXCEPT ![w] = NoMessage] /\ pc' = [pc EXCEPT ![w] = "idle"]
          /\ \/ UNCHANGED entries
             \/ pc[w] = "ack" /\ entries' = entries \ {msg[w]}
        BY <1>3, LetGoShape DEF AckAndDelete, streamVars
    <2>2. \A n \in Messages : Stays(n) => Stays(n)'
        BY <2>1, WorkerAssumption DEF Stays, TypeOK
    <2> QED BY <1>1, <2>1, <2>2
<1>4. ASSUME NEW w \in Workers, Handle(w) PROVE CoveredInv'
    <2>1. /\ pc[w] # "idle" /\ Job(w) \in Jobs /\ msg[w] \in Messages
          /\ msg[w] # NoMessage /\ UNCHANGED <<sent, entries>>
        BY <1>4, HandleFrame, BusyHoldsJob, WorkerAssumption DEF streamVars
    <2>2. /\ \A v \in Workers \ {w} : pc'[v] = pc[v] /\ msg'[v] = msg[v]
          /\ \A j \in Jobs \ {Job(w)} : status'[j] = status[j]
        BY <1>4, HandleFrame
    <2>3. /\ pc'[w] = "ack" => status'[Job(w)] \in Terminal
          /\ msg'[w] \in {msg[w], NoMessage}
        BY <1>4, <2>1, HandleRow DEF TypeOK
    <2>4. ASSUME NEW m \in sent', status'[JobOf[m]] \notin Terminal
          PROVE  \E n \in Messages : JobOf[n] = JobOf[m] /\ Stays(n)'
        <3>1. m \in sent /\ JobOf[m] \in Jobs
            BY <2>1, JobOfAssumption DEF TypeOK, StreamTypeOK
        <3>2. CASE JobOf[m] = Job(w)
            <4>1. PICK n \in Messages : n = msg[w]
                BY <2>1
            <4>2. pc'[w] # "ack"
                BY <2>3, <2>4, <3>2
            <4>3. ASSUME NEW v \in Workers \ {w} PROVE msg'[v] # n
                BY <2>1, <2>2, <4>1, <4>3 DEF DeliveriesApart, Has
            <4>4. n \in entries'
                BY <2>1, <4>1 DEF HandsInv, Has
            <4> QED BY <3>2, <4>1, <4>2, <4>3, <4>4 DEF Stays, Job
        <3>3. CASE JobOf[m] # Job(w)
            <4>1. status[JobOf[m]] \notin Terminal
                BY <2>2, <2>4, <3>1, <3>3
            <4>2. PICK n \in Messages : JobOf[n] = JobOf[m] /\ Stays(n)
                BY <3>1, <4>1 DEF CoveredInv
            <4>3. n # msg[w] /\ n # NoMessage
                BY <3>3, <4>2, WorkerAssumption DEF Job
            <4> QED BY <2>1, <2>2, <2>3, <4>2, <4>3 DEF Stays
        <3> QED BY <3>2, <3>3
    <2> QED BY <2>4 DEF CoveredInv
<1>5. ASSUME NEW m \in Messages, Publish(m) PROVE CoveredInv'
    <2>1. /\ UNCHANGED <<status, pc, msg>> /\ m \notin sent
          /\ sent' = sent \union {m} /\ entries' = entries \union {m}
        BY <1>5 DEF Publish, XAdd, rowVars, localVars
    <2>2. Stays(m)'
        BY <2>1, WorkerAssumption DEF HandsInv, Has, Stays
    <2>3. \A n \in Messages : Stays(n) => Stays(n)'
        BY <2>1 DEF Stays
    <2> QED BY <2>1, <2>2, <2>3 DEF CoveredInv
<1>6. ASSUME NEW j \in Jobs, Cancel(j) PROVE CoveredInv'
    <2>1. status' = [status EXCEPT ![j] = "CANCELLED"] /\ UNCHANGED <<sent, entries, pc, msg>>
        BY <1>6 DEF Cancel, streamVars, localVars
    <2>2. \A i \in Jobs : status[i] \in Terminal => status'[i] \in Terminal
        BY <2>1 DEF Terminal, TypeOK
    <2> QED BY <1>1, <2>1, <2>2 DEF Stays
<1>7. ASSUME \/ \E j \in Jobs : RequestDecompression(j)
             \/ \E s \in Sources : DeleteOriginal(s)
             \/ UNCHANGED vars
      PROVE  UNCHANGED <<status, sent, entries, pc, msg>>
    BY <1>7 DEF RequestDecompression, DeleteOriginal, vars, rowVars, localVars, streamVars
<1> QED BY <1>1, <1>2, <1>3, <1>4, <1>5, <1>6, <1>7 DEF Next, Stays

\* The job rows as DeliveryHandling sees them.
PhaseView == [j \in Jobs |-> Phase(status[j])]

LEMMA PhaseOfStep ==
    ASSUME TypeOK, NEW j \in Jobs, NEW s, status' = [status EXCEPT ![j] = s]
    PROVE  PhaseView' = [PhaseView EXCEPT ![j] = Phase(s)]
BY DEF PhaseView, TypeOK

LEMMA PhaseNames ==
    ASSUME NEW s \in Status
    PROVE  /\ Phase(s) \in {"open", "active", "settled"}
           /\ Phase(s) = "settled" <=> s \in Terminal
BY DEF Phase, Status, Terminal

LEMMA PhaseOfFailure == Phase("FAILED_RETRYABLE") = "open"
BY DEF Phase, Terminal

\* Seen from the stream, a handling step works on the row, gives the delivery
\* back, or does nothing.
LEMMA HandleIsDelivery ==
    ASSUME TypeOK, DeliveriesApart, NEW w \in Workers, Handle(w)
    PROVE  \/ Delivery!Work(msg[w]) \/ Delivery!GiveBack(msg[w])
           \/ UNCHANGED Delivery!vars
<1> DEFINE j == Job(w)
<1>1. /\ j \in Jobs /\ msg[w] \in Messages /\ msg[w] # NoMessage
      /\ msg[w] \in InHand /\ UNCHANGED streamVars
    BY HandleFrame, BusyHoldsJob, WorkerAssumption DEF InHand
<1>2. PICK s \in Status :
          /\ status' = [status EXCEPT ![j] = s]
          /\ Phase(s) = "active" => status[j] \notin Terminal
          /\ \/ UNCHANGED msg
             \/ /\ msg' = [msg EXCEPT ![w] = NoMessage]
                /\ s = "FAILED_RETRYABLE" /\ status[j] \notin Terminal
    BY HandleRow
<1> j = JobOf[msg[w]]
    BY DEF Job
<1> HIDE DEF j
<1>3. /\ PhaseView' = [PhaseView EXCEPT ![j] = Phase(s)]
      /\ PhaseView[j] = Phase(status[j]) /\ status[j] \in Status
      /\ PhaseView \in [Jobs -> {"open", "active", "settled"}]
    BY <1>1, <1>2, PhaseOfStep, PhaseNames DEF PhaseView, TypeOK
<1>4. CASE UNCHANGED msg
    <2>1. UNCHANGED InHand
        BY <1>4 DEF InHand
    <2>2. CASE Phase(s) = PhaseView[j]
        <3>1. UNCHANGED PhaseView
            BY <1>1, <1>3, <2>2
        <3> QED BY <1>1, <2>1, <3>1 DEF Delivery!vars, Delivery!streamVars, streamVars,
                PhaseView
    <2>3. CASE Phase(s) # PhaseView[j]
        <3>1. <<PhaseView[j], Phase(s)>> \in Delivery!RowSteps
            BY <1>2, <1>3, <2>3, PhaseNames DEF Delivery!RowSteps
        <3>2. Phase(s) \in {"open", "active", "settled"}
            BY PhaseNames
        <3> QED BY <1>1, <1>3, <2>1, <3>1, <3>2
                DEF Delivery!Work, Delivery!streamVars, streamVars, PhaseView
    <2> QED BY <2>2, <2>3
<1>5. CASE /\ msg' = [msg EXCEPT ![w] = NoMessage]
           /\ s = "FAILED_RETRYABLE" /\ status[j] \notin Terminal
    <2>1. InHand' = InHand \ {msg[w]}
        BY <1>1, <1>5, HandEmptied
    <2>2. Phase(s) = "open" /\ PhaseView[j] \in {"open", "active"}
        BY <1>3, <1>5, PhaseNames, PhaseOfFailure
    <2>3. \/ UNCHANGED PhaseView
          \/ PhaseView[j] = "active" /\ PhaseView' = [PhaseView EXCEPT ![j] = "open"]
        BY <1>1, <1>3, <2>2
    <2> QED BY <1>1, <2>1, <2>3
            DEF Delivery!GiveBack, Delivery!streamVars, streamVars, PhaseView
<1> QED BY <1>2, <1>4, <1>5

LEMMA StepIsDelivery ==
    ASSUME TypeOK, DeliveriesApart, DeliveriesApart', HandsInv, CoveredInv, [Next]_vars
    PROVE  [Delivery!Next]_(Delivery!vars)
<1>1. ASSUME UNCHANGED status PROVE UNCHANGED PhaseView
    BY <1>1 DEF PhaseView
<1>2. ASSUME NEW w \in Workers, Poll(w)
      PROVE  \E m \in Messages : Delivery!Deliver(m)
    <2>1. PICK m \in Messages, rest \in SUBSET Messages : TakesOne(w, m, rest)
        BY <1>2, PollShape
    <2>2. UNCHANGED PhaseView
        BY <1>1, <1>2, PollShape
    <2>3. InHand' = InHand \union {m}
        BY <2>1, WorkerAssumption DEF TakesOne, InHand, TypeOK
    <2>4. m \notin InHand
        <3>1. msg'[w] = m /\ m # NoMessage /\ msg[w] = NoMessage
              /\ \A v \in Workers \ {w} : msg'[v] = msg[v]
            BY <2>1, WorkerAssumption DEF TakesOne, TypeOK
        <3>2. ASSUME NEW v \in Workers \ {w} PROVE msg[v] # m
            <4>1. m \in Has(w)' /\ Has(w)' \intersect Has(v)' = {}
                BY <3>1 DEF DeliveriesApart, Has
            <4> QED BY <3>1, <4>1 DEF Has
        <3> QED BY <3>1, <3>2 DEF InHand
    <2>5. \/ XReadGroup(m)
          \/ group /\ m \in pending \ InHand /\ UNCHANGED streamVars
        BY <2>1, <2>4 DEF TakesOne, HandsInv, Has
    <2> QED BY <2>2, <2>3, <2>5
            DEF Delivery!Deliver, Delivery!XReadGroup, Delivery!Undelivered, XReadGroup,
                Undelivered, Delivery!streamVars, streamVars, PhaseView
<1>3. ASSUME NEW w \in Workers,
             Acknowledge(w) \/ AcknowledgeError(w) \/ Crash(w)
      PROVE  Delivery!Next \/ UNCHANGED Delivery!vars
    <2>1. UNCHANGED PhaseView
        BY <1>1, <1>3, LetGoShape
    <2>2. CASE msg[w] = NoMessage
        <3>1. UNCHANGED InHand
            BY <1>3, <2>2, LetGoShape DEF InHand, TypeOK
        <3>2. UNCHANGED streamVars
            BY <1>3, <2>2, LetGoShape DEF TypeOK
        <3> QED BY <2>1, <3>1, <3>2
                DEF Delivery!vars, Delivery!streamVars, streamVars, PhaseView
    <2>3. CASE msg[w] # NoMessage
        <3>1. msg[w] \in Messages /\ msg[w] \in InHand
            BY <2>3 DEF InHand, TypeOK
        <3>2. InHand' = InHand \ {msg[w]}
            BY <1>3, <2>3, LetGoShape, HandEmptied
        <3>3. CASE UNCHANGED streamVars
            BY <2>1, <3>1, <3>2, <3>3
               DEF Delivery!Next, Delivery!GiveBack, Delivery!streamVars, streamVars,
                   PhaseView
        <3>4. CASE pc[w] = "ack" /\ AckAndDelete(msg[w])
            <4>1. JobOf[msg[w]] \in Jobs /\ msg[w] \in sent
                BY <2>3, <3>1, JobOfAssumption DEF HandsInv, Has
            <4>2. \/ status[JobOf[msg[w]]] \in Terminal
                  \/ \E n \in entries \ {msg[w]} : JobOf[n] = JobOf[msg[w]]
                BY <3>4, <4>1 DEF CoveredInv, Stays
            <4>3. Delivery!MayAcknowledge(msg[w])
                BY <4>1, <4>2 DEF Delivery!MayAcknowledge, Phase, Terminal
            <4>4. Delivery!Acknowledge(msg[w])
                BY <2>1, <3>1, <3>2, <3>4, <4>3
                   DEF Delivery!Acknowledge, Delivery!AckAndDelete, AckAndDelete, PhaseView
            <4> QED BY <3>1, <4>4 DEF Delivery!Next
        <3> QED BY <1>3, <3>3, <3>4, LetGoShape
    <2> QED BY <2>2, <2>3
<1>4. ASSUME NEW w \in Workers, Handle(w)
      PROVE  Delivery!Next \/ UNCHANGED Delivery!vars
    BY <1>4, HandleIsDelivery, HandleFrame, BusyHoldsJob DEF Delivery!Next
<1>5. ASSUME NEW m \in Messages, Publish(m) PROVE Delivery!Publish(m)
    <2>1. UNCHANGED <<PhaseView, InHand>>
        BY <1>1, <1>5 DEF Publish, rowVars, localVars, InHand
    <2> QED BY <1>5, <2>1 DEF Publish, XAdd, Delivery!Publish, Delivery!XAdd, PhaseView
<1>6. ASSUME NEW j \in Jobs, Cancel(j) PROVE Delivery!Cancel(j)
    <2>1. /\ status[j] \notin Terminal /\ status' = [status EXCEPT ![j] = "CANCELLED"]
          /\ UNCHANGED <<streamVars, InHand>>
        BY <1>6 DEF Cancel, localVars, InHand
    <2>2. PhaseView' = [PhaseView EXCEPT ![j] = "settled"]
        BY <2>1, PhaseOfStep DEF Phase, Terminal
    <2>3. PhaseView[j] \in {"open", "active"}
        BY <2>1, PhaseNames DEF PhaseView, TypeOK
    <2> QED BY <2>1, <2>2, <2>3
            DEF Delivery!Cancel, Delivery!streamVars, streamVars, PhaseView
<1>7. ASSUME \/ \E j \in Jobs : RequestDecompression(j)
             \/ \E s \in Sources : DeleteOriginal(s)
             \/ UNCHANGED vars
      PROVE  UNCHANGED Delivery!vars
    <2>1. UNCHANGED <<status, streamVars, InHand>>
        BY <1>7 DEF RequestDecompression, DeleteOriginal, vars, rowVars, localVars, InHand
    <2> QED BY <1>1, <2>1 DEF Delivery!vars, Delivery!streamVars, streamVars, PhaseView
<1> QED BY <1>2, <1>3, <1>4, <1>5, <1>6, <1>7 DEF Next, Delivery!Next

LEMMA DeliveryInit == Init => HandsInv /\ CoveredInv /\ Delivery!Init
<1> SUFFICES ASSUME Init PROVE HandsInv /\ CoveredInv /\ Delivery!Init
    OBVIOUS
<1>1. InHand = {} /\ \A w \in Workers : Has(w) = {} /\ msg[w] \notin batch[w]
    BY DEF Init, InHand, Has
<1>2. PhaseView = [j \in Jobs |-> "open"]
    <2>1. Phase("PENDING") = "open"
        BY DEF Phase, Terminal
    <2> QED BY <2>1 DEF Init, PhaseView
<1> QED BY <1>1, <1>2
        DEF Init, StreamInit, HandsInv, CoveredInv, Delivery!Init, Delivery!StreamInit,
            PhaseView

\* As long as no two workers have the same delivery, the compression handlers
\* keep the delivery rules, for claims of any size and however many deliveries
\* of one job are handled at once.
THEOREM WorkerKeepsDeliveryRules ==
    Spec /\ []DeliveriesApart => DeliveryRulesKept
<1>1. TypeOK /\ DeliveriesApart /\ HandsInv /\ CoveredInv /\ [Next]_vars
        => HandsInv' /\ CoveredInv'
    BY HandsStep, CoveredStep
<1>2. /\ TypeOK /\ DeliveriesApart /\ DeliveriesApart' /\ HandsInv /\ CoveredInv
      /\ [Next]_vars
      => [Delivery!Next]_(Delivery!vars)
    BY StepIsDelivery
<1> QED BY <1>1, <1>2, DeliveryInit, TypeCorrect, PTL
        DEF Spec, DeliveryRulesKept, Delivery!Spec

\* An entry leaves the stream only when its job is terminal or another entry of
\* the job is left.
NoJobDropped ==
    \A m \in sent \ entries :
        \/ status[JobOf[m]] \in Terminal
        \/ \E n \in entries : JobOf[n] = JobOf[m]

\* No acknowledgement loses a job, whichever of its handlers overlap, are
\* cancelled or crash, as long as no two workers have the same delivery.
THEOREM NoJobIsDropped == Spec /\ []DeliveriesApart => []NoJobDropped
<1>1. TypeOK /\ DeliveriesApart /\ HandsInv /\ CoveredInv /\ [Next]_vars
        => HandsInv' /\ CoveredInv'
    BY HandsStep, CoveredStep
<1>2. CoveredInv => NoJobDropped
    BY DEF CoveredInv, Stays, NoJobDropped
<1> QED BY <1>1, <1>2, DeliveryInit, TypeCorrect, PTL DEF Spec

\* A claim batch of one keeps deliveries apart, and with them both of the above.
THEOREM SingleClaimsSuffice ==
    ClaimBatch = 1 => (Spec => DeliveryRulesKept /\ []NoJobDropped)
<1> SUFFICES ASSUME ClaimBatch = 1 PROVE Spec => DeliveryRulesKept /\ []NoJobDropped
    OBVIOUS
<1>1. Init => Deliveries
    BY DEF Init, StreamInit, Deliveries
<1>2. TypeOK /\ Deliveries /\ [Next]_vars => Deliveries'
    BY DeliveriesStep
<1>3. TypeOK /\ Deliveries => DeliveriesApart
    BY WorkerAssumption DEF Deliveries, DeliveriesApart, Has, TypeOK
<1>4. Spec => []DeliveriesApart
    BY <1>1, <1>2, <1>3, TypeCorrect, PTL DEF Spec
<1> QED BY <1>4, WorkerKeepsDeliveryRules, NoJobIsDropped, PTL
===============================================================================
