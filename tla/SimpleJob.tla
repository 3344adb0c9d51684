------------------------------ MODULE SimpleJob ------------------------------
(***************************************************************************)
(* The capsule and decompression handlers of the worker.  Both take a      *)
(* delivery, recover or claim the row, make one output, verify it, store   *)
(* it under a key derived from the job id, and complete.  They differ in   *)
(* which steps check the row they leave and in what their completing       *)
(* transaction inserts.                                                    *)
(*                                                                         *)
(* A step is one committed transaction, one tool run or one object-store   *)
(* call.  Several deliveries may carry the same job, and a delivery that   *)
(* waited in a worker may be claimed by another, so handlers of one job,   *)
(* and even of one delivery, may overlap.                                  *)
(***************************************************************************)
EXTENDS JobStream

CONSTANTS
    Workers,      \* places of the worker processes for deliveries in hand
    MaxAttempts,  \* WORKER_MAX_ATTEMPTS
    MaxFaults,    \* bound: process crashes plus lost acknowledgements
    NoMessage     \* "no delivery in hand"

ASSUME SimpleJobAssumption ==
    /\ MaxAttempts \in Nat \ {0}
    /\ MaxFaults \in Nat
    /\ NoMessage \notin Messages

VARIABLES
    \* PostgreSQL
    kind,        \* the table of the job's row; never changes
    status,
    attempt,
    listed,    \* does the capsule have capsule_entries rows?
    announced,   \* capsule.completed or decompression.completed outbox rows
    \* object store
    output,      \* the object under the job's output key
    \* worker processes
    pc, msg,     \* the next operation and the delivery in hand
    fresh,       \* did handling begin when the delivery was handed over?
    seen,        \* the status and attempt the recovery will go by
    made,        \* the output the handler has made and not yet stored
    \* history and bounds
    claims,      \* how often the row left PENDING
    overlapped,  \* have two handlers of one job ever run at once?
    shared,      \* has one delivery ever been in two hands at once?
    faults

rowVars   == <<kind, status, attempt, listed, announced>>
localVars == <<msg, fresh, seen, made>>
vars == <<streamVars, rowVars, output, pc, localVars, claims, overlapped,
          shared, faults>>

Terminal == {"COMPLETED", "FAILED_TERMINAL"}

\* BUILDING of a capsule and DECODING of a decompression job are one status.
Status == Terminal \union {"PENDING", "WORKING", "VERIFYING", "FAILED_RETRYABLE"}

Handling == {"recover", "claim", "load", "make", "verifying", "verify", "put",
             "complete"}
Outputs == {"none", "sound", "corrupt"}

Unread == [status |-> "PENDING", attempt |-> 0]

TypeOK ==
    /\ StreamTypeOK
    /\ kind \in [Jobs -> {"capsule", "decompression"}]
    /\ status \in [Jobs -> Status]
    /\ attempt \in [Jobs -> Nat]
    /\ listed \in [Jobs -> BOOLEAN]
    /\ announced \in [Jobs -> Nat]
    /\ output \in [Jobs -> Outputs]
    /\ pc \in [Workers -> Handling \union {"idle", "read", "fail", "ack"}]
    /\ msg \in [Workers -> Messages \union {NoMessage}]
    /\ fresh \in [Workers -> BOOLEAN]
    /\ seen \in [Workers -> [status : Status, attempt : Nat]]
    /\ made \in [Workers -> Outputs]
    /\ claims \in [Jobs -> Nat]
    /\ overlapped \in BOOLEAN
    /\ shared \in BOOLEAN
    /\ faults \in Nat
    /\ \A w \in Workers : msg[w] = NoMessage <=> pc[w] = "idle"

Job(w) == JobOf[msg[w]]
IsCapsule(w) == kind[Job(w)] = "capsule"

Init ==
    /\ StreamInit
    /\ kind \in [Jobs -> {"capsule", "decompression"}]
    /\ status = [j \in Jobs |-> "PENDING"]
    /\ attempt = [j \in Jobs |-> 0]
    /\ listed = [j \in Jobs |-> FALSE]
    /\ announced = [j \in Jobs |-> 0]
    /\ output = [j \in Jobs |-> "none"]
    /\ pc = [w \in Workers |-> "idle"]
    /\ msg = [w \in Workers |-> NoMessage]
    /\ fresh = [w \in Workers |-> FALSE]
    /\ seen = [w \in Workers |-> Unread]
    /\ made = [w \in Workers |-> "none"]
    /\ claims = [j \in Jobs |-> 0]
    /\ overlapped = FALSE
    /\ shared = FALSE
    /\ faults = 0

Goto(w, op) == pc' = [pc EXCEPT ![w] = op]
SetStatus(w, s) == status' = [status EXCEPT ![Job(w)] = s]

-----------------------------------------------------------------------------
(* Deliveries (_run_cycle, process_message, run_forever).                  *)

\* The other workers' handlers of the job that entry m carries.
InProgress(w, m) ==
    {v \in Workers \ {w} : msg[v] # NoMessage /\ Job(v) = JobOf[m]}

\* A pass over the three streams may return an entry of each, and a claim
\* several of one; they are handled one after the other.  An entry that has to
\* wait is taken here like any other, only not fresh.
Take(w, m) ==
    /\ pc[w] = "idle"
    /\ msg' = [msg EXCEPT ![w] = m]
    /\ \E isFresh \in BOOLEAN : fresh' = [fresh EXCEPT ![w] = isFresh]
    /\ Goto(w, "read")
    /\ overlapped' = (overlapped \/ InProgress(w, m) # {})
    /\ shared' = (shared \/ \E v \in Workers \ {w} : msg[v] = m)
    /\ UNCHANGED <<rowVars, output, seen, made, claims, faults>>

Release(w) ==
    /\ msg' = [msg EXCEPT ![w] = NoMessage]
    /\ fresh' = [fresh EXCEPT ![w] = FALSE]
    /\ seen' = [seen EXCEPT ![w] = Unread]
    /\ made' = [made EXCEPT ![w] = "none"]
    /\ Goto(w, "idle")

Publish(m) ==
    /\ XAdd(m)
    /\ UNCHANGED <<rowVars, output, pc, localVars, claims, overlapped, shared,
                   faults>>

ReadNew(w, m) == XReadGroup(m) /\ Take(w, m)

\* Faulty variant: entries of dead workers are never claimed.
ReclaimNever(w, m) == FALSE /\ UNCHANGED vars

\* XAUTOCLAIM of an entry idle for WORKER_CLAIM_IDLE_MS: the threshold exceeds
\* one handling, so it protects the entries whose handling did not wait.
Reclaim(w, m) ==
    /\ m \in pending
    /\ \A v \in Workers : ~(fresh[v] /\ msg[v] = m)
    /\ Take(w, m)
    /\ UNCHANGED streamVars

Acknowledge(w) ==
    /\ pc[w] = "ack"
    /\ AckAndDelete(msg[w])
    /\ Release(w)
    /\ UNCHANGED <<rowVars, output, claims, overlapped, shared, faults>>

\* A RedisError leaves the cycle; the script may or may not have run.
AcknowledgeError(w) ==
    /\ pc[w] = "ack"
    /\ faults < MaxFaults
    /\ faults' = faults + 1
    /\ \/ AckAndDelete(msg[w])
       \/ UNCHANGED streamVars
    /\ Release(w)
    /\ UNCHANGED <<rowVars, output, claims, overlapped, shared>>

\* Kill, MemoryError, or a database error outside the handler.
Crash(w) ==
    /\ pc[w] # "idle"
    /\ faults < MaxFaults
    /\ faults' = faults + 1
    /\ Release(w)
    /\ UNCHANGED <<streamVars, rowVars, output, claims, overlapped, shared>>
-----------------------------------------------------------------------------
(* process_capsule and process_decompression.                              *)

\* Faulty variant: a finished row is taken for one whose worker died.
ReadRowRedoingCompleted(w) ==
    /\ pc[w] = "read"
    /\ \/ status[Job(w)] = "FAILED_TERMINAL" /\ Goto(w, "ack") /\ UNCHANGED seen
       \/ status[Job(w)] = "PENDING" /\ Goto(w, "claim") /\ UNCHANGED seen
       \/ /\ status[Job(w)] \notin {"FAILED_TERMINAL", "PENDING"}
          /\ seen' = [seen EXCEPT ![w] =
                [status |-> status[Job(w)], attempt |-> attempt[Job(w)]]]
          /\ Goto(w, "recover")
    /\ UNCHANGED <<streamVars, rowVars, output, msg, fresh, made, claims,
                   overlapped, shared, faults>>

ReadRow(w) ==
    /\ pc[w] = "read"
    /\ \/ status[Job(w)] \in Terminal /\ Goto(w, "ack") /\ UNCHANGED seen
       \/ status[Job(w)] = "PENDING" /\ Goto(w, "claim") /\ UNCHANGED seen
       \/ /\ status[Job(w)] \notin Terminal \union {"PENDING"}
          /\ seen' = [seen EXCEPT ![w] =
                [status |-> status[Job(w)], attempt |-> attempt[Job(w)]]]
          /\ Goto(w, "recover")
    /\ UNCHANGED <<streamVars, rowVars, output, msg, fresh, made, claims,
                   overlapped, shared, faults>>

\* Faulty variant: a crashed run costs no attempt.
NextAttemptForgettingCrash(w) == seen[w].attempt

NextAttempt(w) ==
    IF seen[w].status = "FAILED_RETRYABLE" THEN seen[w].attempt
                                           ELSE seen[w].attempt + 1

\* _recover_simple_job: one UPDATE by id, whatever the status is by now.
Recover(w) ==
    /\ pc[w] = "recover"
    /\ attempt' = [attempt EXCEPT ![Job(w)] = NextAttempt(w)]
    /\ IF NextAttempt(w) >= MaxAttempts
       THEN SetStatus(w, "FAILED_TERMINAL") /\ Goto(w, "ack")
       ELSE SetStatus(w, "PENDING") /\ Goto(w, "claim")
    /\ seen' = [seen EXCEPT ![w] = Unread]
    /\ UNCHANGED <<streamVars, kind, listed, announced, output, msg, fresh,
                   made, claims, overlapped, shared, faults>>

\* UPDATE ... WHERE status = 'PENDING' RETURNING id, or "claim lost".
Claim(w) ==
    /\ pc[w] = "claim"
    /\ IF status[Job(w)] = "PENDING"
       THEN /\ SetStatus(w, "WORKING")
            /\ claims' = [claims EXCEPT ![Job(w)] = @ + 1]
            /\ Goto(w, "load")
       ELSE Goto(w, "fail") /\ UNCHANGED <<status, claims>>
    /\ UNCHANGED <<streamVars, kind, attempt, listed, announced, output,
                   localVars, overlapped, shared, faults>>

\* The artifacts are fetched and their sizes and digests compared.
Load(w) ==
    /\ pc[w] = "load"
    /\ Goto(w, "make")
    /\ UNCHANGED <<streamVars, rowVars, output, localVars, claims, overlapped,
                   shared, faults>>

\* smcp-capsule build, or decode by the registered adapter.  Nothing is known
\* of the result yet.
Make(w) ==
    /\ pc[w] = "make"
    /\ \E o \in {"sound", "corrupt"} : made' = [made EXCEPT ![w] = o]
    /\ Goto(w, "verifying")
    /\ UNCHANGED <<streamVars, rowVars, output, msg, fresh, seen, claims,
                   overlapped, shared, faults>>

\* The update to VERIFYING.  A capsule whose row moved on is given up ...
CapsuleEntersVerifying(w) ==
    /\ pc[w] = "verifying" /\ IsCapsule(w)
    /\ IF status[Job(w)] = "WORKING"
       THEN SetStatus(w, "VERIFYING") /\ Goto(w, "verify")
       ELSE Goto(w, "fail") /\ UNCHANGED status
    /\ UNCHANGED <<streamVars, kind, attempt, listed, announced, output,
                   localVars, claims, overlapped, shared, faults>>

\* ... a decompression job goes on whether the UPDATE found its row or not.
DecompressionEntersVerifying(w) ==
    /\ pc[w] = "verifying" /\ ~IsCapsule(w)
    /\ IF status[Job(w)] = "WORKING" THEN SetStatus(w, "VERIFYING")
                                     ELSE UNCHANGED status
    /\ Goto(w, "verify")
    /\ UNCHANGED <<streamVars, kind, attempt, listed, announced, output,
                   localVars, claims, overlapped, shared, faults>>

\* Faulty variant: the output is stored without verification.
VerifyNothing(w) ==
    /\ pc[w] = "verify"
    /\ Goto(w, "put")
    /\ UNCHANGED <<streamVars, rowVars, output, localVars, claims, overlapped,
                   shared, faults>>

\* smcp-capsule verify with the digest of the build, or the digest the quality
\* gate recorded.
Verify(w) ==
    /\ pc[w] = "verify"
    /\ made[w] = "sound"
    /\ Goto(w, "put")
    /\ UNCHANGED <<streamVars, rowVars, output, localVars, claims, overlapped,
                   shared, faults>>

\* put_object; the key is the same for every run of the job.
PutOutput(w) ==
    /\ pc[w] = "put"
    /\ output' = [output EXCEPT ![Job(w)] = made[w]]
    /\ made' = [made EXCEPT ![w] = "none"]
    /\ Goto(w, "complete")
    /\ UNCHANGED <<streamVars, rowVars, msg, fresh, seen, claims, overlapped,
                   shared, faults>>

\* Faulty variant: ON CONFLICT DO NOTHING on the entries.
CapsuleCanCompleteAgain(w) == status[Job(w)] = "VERIFYING"

\* What lets the completing transaction of a capsule commit: the row is
\* VERIFYING and the primary key of capsule_entries is free.
CapsuleCanComplete(w) == status[Job(w)] = "VERIFYING" /\ ~listed[Job(w)]

\* Status, entries, audit event and outbox event in one transaction.
CompleteCapsule(w) ==
    /\ pc[w] = "complete" /\ IsCapsule(w)
    /\ IF CapsuleCanComplete(w)
       THEN /\ SetStatus(w, "COMPLETED")
            /\ listed' = [listed EXCEPT ![Job(w)] = TRUE]
            /\ announced' = [announced EXCEPT ![Job(w)] = @ + 1]
            /\ Goto(w, "ack")
       ELSE Goto(w, "fail") /\ UNCHANGED <<status, listed, announced>>
    /\ UNCHANGED <<streamVars, kind, attempt, output, localVars, claims,
                   overlapped, shared, faults>>

\* Status, audit event and outbox event; the row need only be VERIFYING.
CompleteDecompression(w) ==
    /\ pc[w] = "complete" /\ ~IsCapsule(w)
    /\ IF status[Job(w)] = "VERIFYING"
       THEN /\ SetStatus(w, "COMPLETED")
            /\ announced' = [announced EXCEPT ![Job(w)] = @ + 1]
            /\ Goto(w, "ack")
       ELSE Goto(w, "fail") /\ UNCHANGED <<status, announced>>
    /\ UNCHANGED <<streamVars, kind, attempt, listed, output, localVars,
                   claims, overlapped, shared, faults>>

\* When decompression gives up for good: the fetched bytes are too large or
\* not the candidate's, no decoder is registered, or the output is not what
\* the quality gate measured.
BeyondDecoding(w) ==
    /\ pc[w] \in {"load", "make"} \/ (pc[w] = "verify" /\ made[w] = "corrupt")
    /\ ~IsCapsule(w)

\* _terminal_decompression_failure, by id alone.
TerminalFailure(w) ==
    /\ BeyondDecoding(w)
    /\ SetStatus(w, "FAILED_TERMINAL")
    /\ Goto(w, "ack")
    /\ UNCHANGED <<streamVars, kind, attempt, listed, announced, output,
                   localVars, claims, overlapped, shared, faults>>

\* Any exception: database, object store, tool, codec, a rejected capsule.
Raise(w) ==
    /\ pc[w] \in Handling \union {"read"}
    /\ Goto(w, "fail")
    /\ seen' = [seen EXCEPT ![w] = Unread]
    /\ made' = [made EXCEPT ![w] = "none"]
    /\ UNCHANGED <<streamVars, rowVars, output, msg, fresh, claims, overlapped,
                   shared, faults>>

\* Faulty variant: every failure is acknowledged.
AfterFailureAlwaysAck(w, verdict) == Goto(w, "ack") /\ UNCHANGED localVars

AfterFailure(w, verdict) ==
    \/ verdict \in Terminal /\ Goto(w, "ack") /\ UNCHANGED localVars
    \/ verdict \notin Terminal /\ Release(w)

\* _fail_job: one UPDATE, guarded against finished rows.
FailJob(w) ==
    /\ pc[w] = "fail"
    /\ LET open == status[Job(w)] \notin Terminal
           verdict == IF ~open THEN status[Job(w)]
                      ELSE IF attempt[Job(w)] + 1 >= MaxAttempts
                           THEN "FAILED_TERMINAL" ELSE "FAILED_RETRYABLE"
       IN  /\ SetStatus(w, verdict)
           /\ attempt' = IF open THEN [attempt EXCEPT ![Job(w)] = @ + 1]
                                 ELSE attempt
           /\ AfterFailure(w, verdict)
    /\ UNCHANGED <<streamVars, kind, listed, announced, output, claims,
                   overlapped, shared, faults>>
-----------------------------------------------------------------------------
Handle(w) ==
    \/ ReadRow(w) \/ Recover(w) \/ Claim(w) \/ Load(w) \/ Make(w)
    \/ CapsuleEntersVerifying(w) \/ DecompressionEntersVerifying(w)
    \/ Verify(w) \/ PutOutput(w)
    \/ CompleteCapsule(w) \/ CompleteDecompression(w)
    \/ TerminalFailure(w) \/ Raise(w) \/ FailJob(w)

Poll(w) == \E m \in Messages : ReadNew(w, m) \/ Reclaim(w, m)

Next ==
    \/ \E m \in Messages : Publish(m)
    \/ \E w \in Workers :
        Poll(w) \/ Handle(w) \/ Acknowledge(w) \/ AcknowledgeError(w) \/ Crash(w)

Spec == Init /\ [][Next]_vars

Fairness ==
    \A w \in Workers : WF_vars(Poll(w)) /\ WF_vars(Handle(w) \/ Acknowledge(w))

FairSpec == Spec /\ Fairness
-----------------------------------------------------------------------------
(* Refinement.                                                             *)

\* PENDING and FAILED_RETRYABLE wait for a run, the terminal states for nothing.
Phase(s) ==
    CASE s \in {"PENDING", "FAILED_RETRYABLE"} -> "open"
      [] s \in Terminal                       -> "settled"
      [] OTHER                                -> "active"

InHand == {msg[w] : w \in Workers} \ {NoMessage}

Delivery == INSTANCE DeliveryHandling WITH
    job  <- [j \in Jobs |-> Phase(status[j])],
    held <- InHand

\* Seen from the stream, a handler only does what DeliveryHandling allows, as
\* long as no delivery is in two hands; above all it gives up an entry only
\* when the job is finished or another entry of it is left.
DeliveryRulesKept == Delivery!Init /\ [][~shared' => Delivery!Next]_(Delivery!vars)
-----------------------------------------------------------------------------
(* Properties.                                                             *)

\* The object stored for a COMPLETED job was verified, whichever of several
\* overlapping runs put it there last under the shared key.
CompletedOutputVerified ==
    \A j \in Jobs :
        /\ output[j] # "corrupt"
        /\ status[j] = "COMPLETED" => output[j] = "sound"

\* A completion is announced exactly when the job is COMPLETED, unless two
\* handlers have overlapped; a capsule is never announced twice even then,
\* because its entries are inserted by the completing transaction.
CompletionAnnouncedOnce ==
    \A j \in Jobs :
        /\ ~overlapped =>
              announced[j] = IF status[j] = "COMPLETED" THEN 1 ELSE 0
        /\ kind[j] = "capsule" => announced[j] <= 1

\* The attempt counter never passes WORKER_MAX_ATTEMPTS, a job that has used
\* it up is FAILED_TERMINAL, and without overlap no job is started more often.
AttemptsBounded ==
    \A j \in Jobs :
        /\ attempt[j] <= MaxAttempts
        /\ attempt[j] = MaxAttempts => status[j] = "FAILED_TERMINAL"
        /\ ~overlapped => claims[j] <= MaxAttempts

\* An entry leaves the stream only when its job is finished or another entry
\* is left to finish it: overlapping handlers may reopen a finished row, and
\* the one that does still holds its delivery, unless a second worker has
\* claimed the same delivery and acknowledged it.
AckedOnlyWhenFinished ==
    ~shared =>
        \A m \in sent \ entries :
            \/ status[JobOf[m]] \in Terminal
            \/ \E n \in entries : JobOf[n] = JobOf[m]

\* The job is finished, and no handler is left that read the row before.
VerdictStands(j) ==
    status[j] \in Terminal /\ \A w \in Workers : pc[w] \in Handling => Job(w) # j

\* COMPLETED and FAILED_TERMINAL are final, although neither recovery nor a
\* terminal failure looks at the status it replaces: always when handlers have
\* not overlapped, and else from the moment on that no handler is left which
\* read the row before the verdict.
VerdictIsFinal ==
    [][\A j \in Jobs :
        /\ (~overlapped' /\ status[j] \in Terminal) => status'[j] = status[j]
        /\ VerdictStands(j) => VerdictStands(j)' /\ status'[j] = status[j]]_vars

\* Every delivery is settled, overlap or not, unless it was in two hands.
DeliverySettles ==
    \A m \in Messages : m \in sent ~>
        \/ m \notin entries /\ status[JobOf[m]] \in Terminal
        \/ shared
=============================================================================
