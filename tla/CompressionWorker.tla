-------------------------- MODULE CompressionWorker --------------------------
(***************************************************************************)
(* The compression half of the Python worker: several worker processes     *)
(* take deliveries from the stream, walk a compression job through its     *)
(* states with one committed transaction per step, write candidates to the *)
(* object store, and acknowledge.  Crashes, exceptions, reclaims of        *)
(* pending deliveries, API cancellations and decompression requests happen *)
(* at any point in between.                                                *)
(*                                                                         *)
(* A step of the model is one committed transaction, one object-store call *)
(* or one stream command.  A handler's local variables (the row it read at *)
(* the start, its candidates) are per-worker variables, so a decision made *)
(* on a row that has since changed is a decision on stale data here too.   *)
(***************************************************************************)
EXTENDS JobStream

CONSTANTS
    Workers,      \* worker processes (consumers of the group)
    Sources,      \* uploaded source objects
    SourceOf,     \* compression_jobs.source_object_id
    MaxAttempts,  \* WORKER_MAX_ATTEMPTS
    ClaimBatch,   \* WORKER_CLAIM_BATCH, entries one XAUTOCLAIM may return
    MaxFaults,    \* bound: process crashes plus lost acknowledgements
    NoMessage     \* "no delivery in hand"

ASSUME WorkerAssumption ==
    /\ SourceOf \in [Jobs -> Sources]
    /\ MaxAttempts \in Nat \ {0}
    /\ ClaimBatch \in Nat \ {0}
    /\ MaxFaults \in Nat
    /\ NoMessage \notin Messages

VARIABLES
    \* PostgreSQL
    status,       \* compression_jobs.status
    attempt,      \* compression_jobs.attempt
    selected,     \* compression_jobs.selected_candidate_id, 0 when NULL
    rows,         \* runs of the handler whose candidate and artifact rows exist
    marked,       \* ... whose chosen artifact has kind 'compressed'
    pinned,       \* ... whose 'compressed' artifact a decompression job references
    completions,  \* compression.completed outbox rows of the job
    source,       \* "kept", "due" (delete_after set) or "deleted"
    \* object store
    objects,      \* runs whose candidate objects are stored
    \* worker processes
    pc,           \* the next operation of the worker
    msg,          \* the delivery in hand
    fresh,        \* did handling begin when the delivery was handed over?
    batch,        \* rest of the deliveries XAUTOCLAIM handed over
    seen,         \* the status and attempt process_job read
    run,          \* the run this handler started (names its candidates)
    \* history and bounds
    runs,         \* how often the job went PENDING -> VALIDATING
    faults        \* crashes and lost acknowledgements so far

rowVars    == <<status, attempt, selected, rows, marked, pinned, completions>>
localVars  == <<msg, fresh, batch, seen, run>>
vars == <<streamVars, rowVars, source, objects, pc, localVars, runs, faults>>

Terminal == {"COMPLETED", "FAILED_TERMINAL", "CANCELLED"}
Status == Terminal \union
    {"PENDING", "VALIDATING", "PREPROCESSING", "ENCODING", "MEASURING",
     "SELECTING", "PACKAGING", "FAILED_RETRYABLE"}

\* The operations of process_job after the row was read and found open.
Handling == {"sweep", "reset", "claim", "validate", "preprocess", "encode",
             "measure", "put", "persist", "select", "mark", "package",
             "complete"}
Operations == Handling \union {"idle", "read", "fail", "ack"}

TypeOK ==
    /\ StreamTypeOK
    /\ status \in [Jobs -> Status]
    /\ attempt \in [Jobs -> Nat]
    /\ selected \in [Jobs -> Nat]
    /\ rows \in [Jobs -> SUBSET Nat]
    /\ marked \in [Jobs -> SUBSET Nat]
    /\ pinned \in [Jobs -> SUBSET Nat]
    /\ completions \in [Jobs -> Nat]
    /\ source \in [Sources -> {"kept", "due", "deleted"}]
    /\ objects \in [Jobs -> SUBSET Nat]
    /\ pc \in [Workers -> Operations]
    /\ msg \in [Workers -> Messages \union {NoMessage}]
    /\ fresh \in [Workers -> BOOLEAN]
    /\ batch \in [Workers -> SUBSET Messages]
    /\ seen \in [Workers -> [status : Status, attempt : Nat]]
    /\ run \in [Workers -> Nat]
    /\ runs \in [Jobs -> Nat]
    /\ faults \in Nat
    /\ \A w \in Workers : msg[w] = NoMessage <=> pc[w] = "idle"

Job(w) == JobOf[msg[w]]

\* A worker that has read no row.
Unread == [status |-> "PENDING", attempt |-> 0]

Init ==
    /\ StreamInit
    /\ status = [j \in Jobs |-> "PENDING"]
    /\ attempt = [j \in Jobs |-> 0]
    /\ selected = [j \in Jobs |-> 0]
    /\ rows = [j \in Jobs |-> {}]
    /\ marked = [j \in Jobs |-> {}]
    /\ pinned = [j \in Jobs |-> {}]
    /\ completions = [j \in Jobs |-> 0]
    /\ source = [s \in Sources |-> "kept"]
    /\ objects = [j \in Jobs |-> {}]
    /\ pc = [w \in Workers |-> "idle"]
    /\ msg = [w \in Workers |-> NoMessage]
    /\ fresh = [w \in Workers |-> FALSE]
    /\ batch = [w \in Workers |-> {}]
    /\ seen = [w \in Workers |-> Unread]
    /\ run = [w \in Workers |-> 0]
    /\ runs = [j \in Jobs |-> 0]
    /\ faults = 0

Goto(w, op) == pc' = [pc EXCEPT ![w] = op]

-----------------------------------------------------------------------------
(* Taking and returning deliveries (_run_cycle, process_message).          *)

\* Faulty variants: no idle threshold, and no reclaim at all.
ReclaimableAtOnce == pending
NothingReclaimable == {}

\* An entry is idle long enough for XAUTOCLAIM unless some worker began to
\* handle it the moment it was handed over: WORKER_CLAIM_IDLE_MS is taken, as
\* configuration.md asks, to exceed one handling.  Entries waiting in a batch,
\* and entries whose handling began after such a wait, carry no such promise.
Reclaimable ==
    {m \in pending : \A v \in Workers : ~(fresh[v] /\ msg[v] = m)}

Take(w, m, isFresh, rest) ==
    /\ msg' = [msg EXCEPT ![w] = m]
    /\ fresh' = [fresh EXCEPT ![w] = isFresh]
    /\ batch' = [batch EXCEPT ![w] = rest]
    /\ Goto(w, "read")
    /\ UNCHANGED <<seen, run>>

\* The handler returned, its locals are gone: the rest of the batch is next.
Release(w, rest) ==
    /\ msg' = [msg EXCEPT ![w] = NoMessage]
    /\ fresh' = [fresh EXCEPT ![w] = FALSE]
    /\ batch' = [batch EXCEPT ![w] = rest]
    /\ seen' = [seen EXCEPT ![w] = Unread]
    /\ run' = [run EXCEPT ![w] = 0]
    /\ Goto(w, "idle")

\* queue.ts publish: the outbox publisher adds an entry for a job.
Publish(m) ==
    /\ XAdd(m)
    /\ UNCHANGED <<rowVars, source, objects, pc, localVars, runs, faults>>

ReadNew(w, m) ==
    /\ pc[w] = "idle" /\ batch[w] = {}
    /\ XReadGroup(m)
    /\ Take(w, m, TRUE, {})
    /\ UNCHANGED <<rowVars, source, objects, runs, faults>>

Reclaim(w, claimed) ==
    /\ pc[w] = "idle" /\ batch[w] = {}
    /\ claimed \subseteq Reclaimable
    /\ IsFiniteSet(claimed) /\ Cardinality(claimed) \in 1..ClaimBatch
    /\ \E m \in claimed : Take(w, m, TRUE, claimed \ {m})
    /\ UNCHANGED <<streamVars, rowVars, source, objects, runs, faults>>

NextOfBatch(w) ==
    /\ pc[w] = "idle"
    /\ \E m \in batch[w] : Take(w, m, FALSE, batch[w] \ {m})
    /\ UNCHANGED <<streamVars, rowVars, source, objects, runs, faults>>

Acknowledge(w) ==
    /\ pc[w] = "ack"
    /\ AckAndDelete(msg[w])
    /\ Release(w, batch[w])
    /\ UNCHANGED <<rowVars, source, objects, runs, faults>>

\* A RedisError leaves process_message and the cycle: the rest of the batch is
\* dropped.  The script may or may not have run on the server.
AcknowledgeError(w) ==
    /\ pc[w] = "ack"
    /\ faults < MaxFaults
    /\ faults' = faults + 1
    /\ \/ AckAndDelete(msg[w])
       \/ UNCHANGED streamVars
    /\ Release(w, {})
    /\ UNCHANGED <<rowVars, source, objects, runs>>

\* The process ends (kill, MemoryError, a database error in _fail_job) and its
\* supervisor starts it again; its deliveries stay in the pending list.
Crash(w) ==
    /\ pc[w] # "idle" \/ batch[w] # {}
    /\ faults < MaxFaults
    /\ faults' = faults + 1
    /\ Release(w, {})
    /\ UNCHANGED <<streamVars, rowVars, source, objects, runs>>
-----------------------------------------------------------------------------
(* process_job.                                                            *)

\* Faulty variant: a COMPLETED row is taken for a crashed one.
ReadJobRedoingCompleted(w) ==
    /\ pc[w] = "read"
    /\ seen' = [seen EXCEPT
            ![w] = [status |-> status[Job(w)], attempt |-> attempt[Job(w)]]]
    /\ Goto(w, CASE status[Job(w)] \in Terminal \ {"COMPLETED"} -> "ack"
                 [] status[Job(w)] = "PENDING"                  -> "claim"
                 [] OTHER                                       -> "sweep")
    /\ UNCHANGED <<streamVars, rowVars, source, objects,
                   msg, fresh, batch, run, runs, faults>>

ReadJob(w) ==
    /\ pc[w] = "read"
    /\ seen' = [seen EXCEPT
            ![w] = [status |-> status[Job(w)], attempt |-> attempt[Job(w)]]]
    /\ Goto(w, CASE status[Job(w)] \in Terminal  -> "ack"
                 [] status[Job(w)] = "PENDING"   -> "claim"
                 [] OTHER                        -> "sweep")
    /\ UNCHANGED <<streamVars, rowVars, source, objects,
                   msg, fresh, batch, run, runs, faults>>

\* Faulty variant: a crashed run costs no attempt.
NextAttemptForgettingCrash(w) == seen[w].attempt

NextAttempt(w) ==
    IF seen[w].status = "FAILED_RETRYABLE" THEN seen[w].attempt
                                           ELSE seen[w].attempt + 1

\* Faulty variant: one attempt too many.
ExhaustedLate(n) == n > MaxAttempts

Exhausted(n) == n >= MaxAttempts

\* _recover_compression_job, first half: the stored objects of every tracked
\* candidate are deleted before the transaction that forgets them.
RecoverSweep(w) ==
    /\ pc[w] = "sweep"
    /\ objects' = [objects EXCEPT ![Job(w)] = @ \ rows[Job(w)]]
    /\ Goto(w, "reset")
    /\ UNCHANGED <<streamVars, rowVars, source, localVars, runs, faults>>

\* Faulty variant: the candidate and artifact rows survive the retry.
ForgetNothing(j) ==
    /\ selected' = [selected EXCEPT ![j] = 0]
    /\ UNCHANGED <<rows, marked>>

Forget(j) ==
    /\ selected' = [selected EXCEPT ![j] = 0]
    /\ rows' = [rows EXCEPT ![j] = {}]
    /\ marked' = [marked EXCEPT ![j] = {}]

\* Faulty variant: the DELETE leaves out what a decompression job references, so
\* that the transaction goes through.
RecoverResetSkippingPinned(w) ==
    LET j == Job(w)
    IN  /\ pc[w] = "reset"
        /\ selected' = [selected EXCEPT ![j] = 0]
        /\ rows' = [rows EXCEPT ![j] = @ \intersect pinned[j]]
        /\ marked' = [marked EXCEPT ![j] = @ \intersect pinned[j]]
        /\ attempt' = [attempt EXCEPT ![j] = NextAttempt(w)]
        /\ IF Exhausted(NextAttempt(w))
           THEN /\ status' = [status EXCEPT ![j] = "FAILED_TERMINAL"]
                /\ Goto(w, "ack")
           ELSE /\ status' = [status EXCEPT ![j] = "PENDING"]
                /\ Goto(w, "claim")
        /\ UNCHANGED <<streamVars, pinned, completions, source, objects,
                       localVars, runs, faults>>

\* _recover_compression_job, second half: one transaction on the row as it is
\* now, whatever its status.  A decompression job that references an artifact
\* makes the DELETE fail (foreign key), which is an exception.
RecoverReset(w) ==
    /\ pc[w] = "reset"
    /\ IF rows[Job(w)] \intersect pinned[Job(w)] # {}
       THEN /\ Goto(w, "fail")
            /\ UNCHANGED <<status, attempt, selected, rows, marked>>
       ELSE /\ Forget(Job(w))
            /\ attempt' = [attempt EXCEPT ![Job(w)] = NextAttempt(w)]
            /\ IF Exhausted(NextAttempt(w))
               THEN /\ status' = [status EXCEPT ![Job(w)] = "FAILED_TERMINAL"]
                    /\ Goto(w, "ack")
               ELSE /\ status' = [status EXCEPT ![Job(w)] = "PENDING"]
                    /\ Goto(w, "claim")
    /\ UNCHANGED <<streamVars, pinned, completions, source, objects,
                   localVars, runs, faults>>

\* The compare-and-set transitions between operations: expected, target, next.
Transition ==
    [preprocess |-> <<"VALIDATING", "PREPROCESSING", "encode">>,
     encode     |-> <<"PREPROCESSING", "ENCODING", "measure">>,
     measure    |-> <<"ENCODING", "MEASURING", "put">>,
     select     |-> <<"MEASURING", "SELECTING", "mark">>,
     package    |-> <<"SELECTING", "PACKAGING", "complete">>]

\* _transition: a compare-and-set that commits, or rolls back and raises.
CompareAndSet(w, expected, target, next) ==
    \/ /\ status[Job(w)] = expected
       /\ status' = [status EXCEPT ![Job(w)] = target]
       /\ Goto(w, next)
    \/ /\ status[Job(w)] # expected
       /\ UNCHANGED status
       /\ Goto(w, "fail")

Claim(w) ==
    /\ pc[w] = "claim"
    /\ CompareAndSet(w, "PENDING", "VALIDATING", "validate")
    /\ IF status[Job(w)] = "PENDING"
       THEN /\ runs' = [runs EXCEPT ![Job(w)] = @ + 1]
            /\ run' = [run EXCEPT ![w] = runs[Job(w)] + 1]
       ELSE UNCHANGED <<runs, run>>
    /\ UNCHANGED <<streamVars, attempt, selected, rows, marked, pinned,
                   completions, source, objects, msg, fresh, batch, seen,
                   faults>>

Advance(w) ==
    /\ pc[w] \in DOMAIN Transition
    /\ CompareAndSet(w, Transition[pc[w]][1], Transition[pc[w]][2],
                        Transition[pc[w]][3])
    /\ UNCHANGED <<streamVars, attempt, selected, rows, marked, pinned,
                   completions, source, objects, localVars, runs, faults>>

\* The object is fetched and checked; source_objects gets its measured size,
\* digest and type (data no decision of this module reads).
Validate(w) ==
    /\ pc[w] = "validate"
    /\ source[SourceOf[Job(w)]] # "deleted"
    /\ Goto(w, "preprocess")
    /\ UNCHANGED <<streamVars, rowVars, source, objects, localVars, runs,
                   faults>>

\* put_object of every candidate of this run.
PutObjects(w) ==
    /\ pc[w] = "put"
    /\ objects' = [objects EXCEPT ![Job(w)] = @ \union {run[w]}]
    /\ Goto(w, "persist")
    /\ UNCHANGED <<streamVars, rowVars, source, localVars, runs, faults>>

\* The commit of the candidate and artifact rows; it has no status guard.
PersistRows(w) ==
    /\ pc[w] = "persist"
    /\ rows' = [rows EXCEPT ![Job(w)] = @ \union {run[w]}]
    /\ Goto(w, "select")
    /\ UNCHANGED <<streamVars, status, attempt, selected, marked, pinned,
                   completions, source, objects, localVars, runs, faults>>

\* UPDATE artifacts SET kind = 'compressed': of no effect on deleted rows.
MarkCompressed(w) ==
    /\ pc[w] = "mark"
    /\ marked' = [marked EXCEPT
            ![Job(w)] = @ \union ({run[w]} \intersect rows[Job(w)])]
    /\ Goto(w, "package")
    /\ UNCHANGED <<streamVars, status, attempt, selected, rows, pinned,
                   completions, source, objects, localVars, runs, faults>>

\* Faulty variant: the missed compare-and-set is neither rolled back nor
\* raised, so the event and delete_after are committed all the same.
CompleteUnchecked(w) ==
    /\ pc[w] = "complete"
    /\ IF status[Job(w)] = "PACKAGING"
       THEN /\ status' = [status EXCEPT ![Job(w)] = "COMPLETED"]
            /\ selected' = [selected EXCEPT ![Job(w)] = run[w]]
       ELSE UNCHANGED <<status, selected>>
    /\ completions' = [completions EXCEPT ![Job(w)] = @ + 1]
    /\ source' = [source EXCEPT ![SourceOf[Job(w)]] = "due"]
    /\ Goto(w, "ack")
    /\ UNCHANGED <<streamVars, attempt, rows, marked, pinned, objects,
                   localVars, runs, faults>>

\* The completing transaction: compare-and-set to COMPLETED, outbox event,
\* delete_after of the source.  selected_candidate_id is a deferred foreign
\* key, so a candidate that is gone makes the commit fail.
Complete(w) ==
    /\ pc[w] = "complete"
    /\ IF status[Job(w)] = "PACKAGING" /\ run[w] \in rows[Job(w)]
       THEN /\ status' = [status EXCEPT ![Job(w)] = "COMPLETED"]
            /\ selected' = [selected EXCEPT ![Job(w)] = run[w]]
            /\ completions' = [completions EXCEPT ![Job(w)] = @ + 1]
            /\ source' = [source EXCEPT
                    ![SourceOf[Job(w)]] = IF @ = "kept" THEN "due" ELSE @]
            /\ Goto(w, "ack")
       ELSE /\ Goto(w, "fail")
            /\ UNCHANGED <<status, selected, completions, source>>
    /\ UNCHANGED <<streamVars, attempt, rows, marked, pinned, objects,
                   localVars, runs, faults>>

\* _terminal_failure: the UPDATE names the job only, not a prior status.  It
\* follows the semantic-profile check, the checks of the fetched bytes, the
\* media limits, an empty candidate list and an unsatisfied target_bytes.
TerminalFailure(w) ==
    /\ pc[w] \in {"claim", "validate", "preprocess", "measure", "mark"}
    /\ pc[w] = "validate" => source[SourceOf[Job(w)]] # "deleted"
    /\ status' = [status EXCEPT ![Job(w)] = "FAILED_TERMINAL"]
    /\ Goto(w, "ack")
    /\ UNCHANGED <<streamVars, attempt, selected, rows, marked, pinned,
                   completions, source, objects, localVars, runs, faults>>

\* Any exception of the handler: object store, database, codec, adapter.
Raise(w) ==
    /\ pc[w] \in Handling \union {"read"}
    /\ Goto(w, "fail")
    /\ UNCHANGED <<streamVars, rowVars, source, objects, localVars, runs,
                   faults>>

\* Faulty variant: the acknowledgement sits in a finally clause.
AfterFailureAlwaysAck(w, verdict) == Goto(w, "ack") /\ UNCHANGED localVars

\* process_message: only a terminal verdict of _fail_job is acknowledged; a
\* retryable delivery stays pending until it is idle long enough.
AfterFailure(w, verdict) ==
    \/ verdict \in Terminal /\ Goto(w, "ack") /\ UNCHANGED localVars
    \/ verdict \notin Terminal /\ Release(w, batch[w])

\* _fail_job: one guarded UPDATE.
FailJob(w) ==
    /\ pc[w] = "fail"
    /\ LET verdict ==
               IF status[Job(w)] \in Terminal THEN status[Job(w)]
               ELSE IF Exhausted(attempt[Job(w)] + 1) THEN "FAILED_TERMINAL"
               ELSE "FAILED_RETRYABLE"
       IN  /\ status' = [status EXCEPT ![Job(w)] = verdict]
           /\ AfterFailure(w, verdict)
    /\ attempt' = IF status[Job(w)] \in Terminal THEN attempt
                  ELSE [attempt EXCEPT ![Job(w)] = @ + 1]
    /\ UNCHANGED <<streamVars, selected, rows, marked, pinned, completions,
                   source, objects, runs, faults>>
-----------------------------------------------------------------------------
(* The API and the retention sweep.                                        *)

\* Faulty variant: the UPDATE has no status guard.
CancelUnguarded(j) ==
    /\ status' = [status EXCEPT ![j] = "CANCELLED"]
    /\ UNCHANGED <<streamVars, attempt, selected, rows, marked, pinned,
                   completions, source, objects, pc, localVars, runs, faults>>

\* cancelCompressionJob (a first request; a replay changes no job).
Cancel(j) ==
    /\ status[j] \notin Terminal
    /\ status' = [status EXCEPT ![j] = "CANCELLED"]
    /\ UNCHANGED <<streamVars, attempt, selected, rows, marked, pinned,
                   completions, source, objects, pc, localVars, runs, faults>>

\* createDecompressionJob asks for an artifact of kind 'compressed' and does
\* not look at the status of the job that made it.
RequestDecompression(j) ==
    /\ \E r \in marked[j] \ pinned[j] :
            pinned' = [pinned EXCEPT ![j] = @ \union {r}]
    /\ UNCHANGED <<streamVars, status, attempt, selected, rows, marked,
                   completions, source, objects, pc, localVars, runs, faults>>

\* _delete_due_originals, its effect on what a job can read; SourceRetention
\* has the sweep itself.
Lifecycle == INSTANCE OriginalLifecycle WITH original <- source

DeleteOriginal(s) ==
    /\ Lifecycle!Delete(s)
    /\ UNCHANGED <<streamVars, rowVars, objects, pc, localVars, runs, faults>>
-----------------------------------------------------------------------------
Handle(w) ==
    \/ ReadJob(w) \/ RecoverSweep(w) \/ RecoverReset(w)
    \/ Claim(w) \/ Advance(w) \/ Validate(w)
    \/ PutObjects(w) \/ PersistRows(w) \/ MarkCompressed(w) \/ Complete(w)
    \/ TerminalFailure(w) \/ Raise(w) \/ FailJob(w)

Poll(w) ==
    \/ NextOfBatch(w)
    \/ \E m \in Messages : ReadNew(w, m)
    \/ \E claimed \in SUBSET Messages : Reclaim(w, claimed)

Next ==
    \/ \E m \in Messages : Publish(m)
    \/ \E w \in Workers :
        \/ Poll(w) \/ Handle(w)
        \/ Acknowledge(w) \/ AcknowledgeError(w) \/ Crash(w)
    \/ \E j \in Jobs : Cancel(j) \/ RequestDecompression(j)
    \/ \E s \in Sources : DeleteOriginal(s)

Spec == Init /\ [][Next]_vars

\* A live worker keeps polling and handling: run_forever never leaves its loop.
\* Nothing is promised of clients, of faults or of what a handler decides.
Fairness ==
    \A w \in Workers : WF_vars(Poll(w)) /\ WF_vars(Handle(w) \/ Acknowledge(w))

FairSpec == Spec /\ Fairness
-----------------------------------------------------------------------------
(* Refinement.                                                             *)

Verdict(s) ==
    CASE s = "COMPLETED"       -> "completed"
      [] s = "FAILED_TERMINAL" -> "failed"
      [] s = "CANCELLED"       -> "cancelled"
      [] OTHER                 -> "open"

Contract == INSTANCE JobContract WITH
    Originals  <- Sources,
    OriginalOf <- SourceOf,
    MaxStarts  <- MaxAttempts,
    submitted  <- {JobOf[m] : m \in sent},
    verdict    <- [j \in Jobs |-> Verdict(status[j])],
    starts     <- runs,
    announced  <- completions,
    original   <- source

\* Seen by a client, all the steps of deliveries, retries and crashes are steps
\* of a job that is started a bounded number of times, gets a verdict in the
\* end, and completes with its one announcement or not at all.
ContractKept == Contract!Spec

\* PENDING and FAILED_RETRYABLE wait for a run, the terminal states for nothing.
Phase(s) ==
    CASE s \in {"PENDING", "FAILED_RETRYABLE"} -> "open"
      [] s \in Terminal                       -> "settled"
      [] OTHER                                -> "active"

InHand == {msg[w] : w \in Workers} \ {NoMessage}

Delivery == INSTANCE DeliveryHandling WITH
    job  <- [j \in Jobs |-> Phase(status[j])],
    held <- InHand

\* Seen from the stream, a handler only does what DeliveryHandling allows; above
\* all it gives up an entry only when the job is settled or another entry of it
\* is left.  Needs DeliveriesApart, but no other separation of handlers.
DeliveryRulesKept == Delivery!Spec

\* No delivery a worker has, in hand or waiting, is claimed by another: so with
\* a claim batch of one, and with larger batches that are worked off in time.
Has(w) == batch[w] \union ({msg[w]} \ {NoMessage})
DeliveriesApart == \A w, v \in Workers : w # v => Has(w) \intersect Has(v) = {}
-----------------------------------------------------------------------------
(* Properties.                                                             *)

\* No two workers handle the same job at the same time: what the idle
\* threshold of XAUTOCLAIM is documented to ensure.
ExclusiveHandling ==
    \A w, v \in Workers :
        (w # v /\ msg[w] # NoMessage /\ msg[v] # NoMessage) => Job(w) # Job(v)

\* A COMPLETED job has the rows and the stored payload of the candidate it
\* selected, whatever retries, sweeps and crashes came before.
CompletedPayloadStored ==
    \A j \in Jobs : status[j] = "COMPLETED" =>
        selected[j] \in rows[j] /\ selected[j] \in objects[j]

\* A job announces its completion once if it is COMPLETED and never otherwise,
\* also when a worker dies between the completing commit and its
\* acknowledgement.
CompletionAnnouncedOnce ==
    \A j \in Jobs :
        completions[j] = IF status[j] = "COMPLETED" THEN 1 ELSE 0

\* A delivery leaves the stream only when its job can need it no more.
AckedOnlyWhenTerminal ==
    \A m \in sent \ entries : status[JobOf[m]] \in Terminal

\* Crashes and failures together never start a job more often than
\* WORKER_MAX_ATTEMPTS.
RunsWithinAttempts == \A j \in Jobs : runs[j] <= MaxAttempts

\* A source is deleted only after one of its jobs has completed.
SourceKeptUntilCompletion ==
    \A s \in Sources : source[s] = "deleted" =>
        \E j \in Jobs : SourceOf[j] = s /\ status[j] = "COMPLETED"

\* The candidates a job shows are all of one run: a retry first forgets what
\* an earlier run left behind.
SingleGeneration == \A j \in Jobs : \A r, q \in rows[j] : r = q

\* The attempt counter stops at WORKER_MAX_ATTEMPTS, and a job that used all
\* its attempts is FAILED_TERMINAL.
AttemptsBounded ==
    \A j \in Jobs :
        /\ attempt[j] <= MaxAttempts
        /\ attempt[j] = MaxAttempts => status[j] = "FAILED_TERMINAL"

\* A recovery has deleted a payload that a decompression job refers to.
Stranded(j) == pinned[j] \ objects[j] # {}

\* The sweep of a recovery is not undone when its transaction is refused.  From
\* then on the job cannot do any harm with what is left: it is not started again,
\* nor made ready to be, and never completes on rows without their payload.
StrandedJobOnlyFails ==
    [][\A j \in Jobs : Stranded(j) =>
            /\ Stranded(j)'
            /\ runs'[j] = runs[j] /\ completions'[j] = completions[j]
            /\ status'[j] \notin {"PENDING", "COMPLETED"}]_vars

\* COMPLETED and FAILED_TERMINAL are final: no retry, late step of another
\* worker or cancellation moves a job out of them.
WorkerVerdictIsFinal ==
    [][\A j \in Jobs : status[j] \in {"COMPLETED", "FAILED_TERMINAL"}
            => status'[j] = status[j]]_status

\* The job has its verdict, and no handler is left that read the row before.
VerdictStands(j) ==
    status[j] \in Terminal /\ \A w \in Workers : pc[w] \in Handling => Job(w) # j

\* Any verdict, a cancellation included, is final from then on, however many
\* deliveries of the job are handled at once: only a handler that had read the
\* row before the verdict can undo it.
StandingVerdictIsFinal ==
    [][\A j \in Jobs : VerdictStands(j)
            => VerdictStands(j)' /\ status'[j] = status[j]]_vars

\* CANCELLED is final too.
CancellationIsFinal ==
    [][\A j \in Jobs : status[j] = "CANCELLED" => status'[j] = "CANCELLED"]_status

\* Every published delivery is eventually settled: its job reaches a terminal
\* state and the entry leaves the stream.
DeliverySettles ==
    \A m \in Messages :
        m \in sent ~> (m \notin entries /\ status[JobOf[m]] \in Terminal)
=============================================================================
