--------------------------- MODULE SourceRetention ---------------------------
(***************************************************************************)
(* The retention sweep that every worker runs at the start of a cycle: it  *)
(* claims originals whose delete_after has passed, deletes their objects   *)
(* one by one and records each deletion.  A claim is a lease of five       *)
(* minutes, which a sweep over a slow object store may overrun.            *)
(*                                                                         *)
(* The claim token is represented by the worker that drew it: a worker     *)
(* draws a new one for each sweep, when its previous batch is gone.        *)
(***************************************************************************)
EXTENDS Naturals, FiniteSets

CONSTANTS
    Sources,     \* rows of source_objects
    Workers,     \* worker processes
    BatchSize,   \* DELETION_BATCH_SIZE
    MaxFaults,   \* bound: failed calls, crashes and overrun leases
    Nobody       \* no claim token

ASSUME RetentionAssumption ==
    /\ BatchSize \in Nat \ {0}
    /\ MaxFaults \in Nat
    /\ Nobody \notin Workers

VARIABLES
    \* source_objects
    deleteAfter,  \* "never" (NULL), "later" or "due"
    deleted,      \* deleted_at is set
    claimant,     \* deletion_claim_token
    lapsed,       \* is the claim older than five minutes?
    attempt,      \* deletion_attempt
    audits,       \* source.deleted audit rows
    object,       \* object store: does the original exist?
    \* workers
    batch,        \* claimed rows still to be swept
    current,      \* the row in hand: {} or one source
    pc,           \* "idle", "delete", "record", "retry"
    readAttempt,  \* deletion_attempt as the claim returned it
    faults

rowVars   == <<deleteAfter, deleted, claimant, lapsed, attempt, audits>>
localVars == <<batch, current, pc, readAttempt>>
vars == <<rowVars, object, localVars, faults>>

TypeOK ==
    /\ deleteAfter \in [Sources -> {"never", "later", "due"}]
    /\ deleted \in [Sources -> BOOLEAN]
    /\ claimant \in [Sources -> Workers \union {Nobody}]
    /\ lapsed \in [Sources -> BOOLEAN]
    /\ attempt \in [Sources -> Nat]
    /\ audits \in [Sources -> Nat]
    /\ object \in [Sources -> BOOLEAN]
    /\ batch \in [Workers -> SUBSET Sources]
    /\ current \in [Workers -> SUBSET Sources]
    /\ pc \in [Workers -> {"idle", "delete", "record", "retry"}]
    /\ readAttempt \in [Workers -> [Sources -> Nat]]
    /\ faults \in Nat
    /\ \A w \in Workers :
        IF pc[w] = "idle" THEN current[w] = {}
                          ELSE \E s \in Sources : current[w] = {s}

Init ==
    /\ deleteAfter = [s \in Sources |-> "never"]
    /\ deleted = [s \in Sources |-> FALSE]
    /\ claimant = [s \in Sources |-> Nobody]
    /\ lapsed = [s \in Sources |-> FALSE]
    /\ attempt = [s \in Sources |-> 0]
    /\ audits = [s \in Sources |-> 0]
    /\ object = [s \in Sources |-> TRUE]
    /\ batch = [w \in Workers |-> {}]
    /\ current = [w \in Workers |-> {}]
    /\ pc = [w \in Workers |-> "idle"]
    /\ readAttempt = [w \in Workers |-> [s \in Sources |-> 0]]
    /\ faults = 0

-----------------------------------------------------------------------------
(* Jobs and time.                                                          *)

\* A completing job sets delete_after where it is still NULL; a retention of
\* zero seconds makes it due at once.
Schedule(s) ==
    /\ deleteAfter[s] = "never"
    /\ \E d \in {"later", "due"} : deleteAfter' = [deleteAfter EXCEPT ![s] = d]
    /\ UNCHANGED <<deleted, claimant, lapsed, attempt, audits, object,
                   localVars, faults>>

BecomeDue(s) ==
    /\ deleteAfter[s] = "later"
    /\ deleteAfter' = [deleteAfter EXCEPT ![s] = "due"]
    /\ UNCHANGED <<deleted, claimant, lapsed, attempt, audits, object,
                   localVars, faults>>

\* Five minutes pass.  It counts as a fault when the claimant is still at it.
InSweep(s) ==
    claimant[s] # Nobody
        /\ s \in batch[claimant[s]] \union current[claimant[s]]

ClaimLapses(s) ==
    /\ claimant[s] # Nobody /\ ~lapsed[s]
    /\ IF InSweep(s) THEN faults < MaxFaults /\ faults' = faults + 1
                     ELSE UNCHANGED faults
    /\ lapsed' = [lapsed EXCEPT ![s] = TRUE]
    /\ UNCHANGED <<deleteAfter, deleted, claimant, attempt, audits, object,
                   localVars>>
-----------------------------------------------------------------------------
(* _delete_due_originals.                                                  *)

\* Faulty variant: any scheduled original may be claimed.
ClaimableEarly(s) ==
    /\ deleteAfter[s] # "never" /\ ~deleted[s]
    /\ claimant[s] = Nobody \/ lapsed[s]

Claimable(s) ==
    /\ deleteAfter[s] = "due" /\ ~deleted[s]
    /\ claimant[s] = Nobody \/ lapsed[s]

\* SELECT ... FOR UPDATE SKIP LOCKED LIMIT, with the UPDATE of the claim.
ClaimBatch(w) ==
    /\ pc[w] = "idle" /\ batch[w] = {}
    /\ \E claimed \in SUBSET {s \in Sources : Claimable(s)} :
        /\ IsFiniteSet(claimed) /\ Cardinality(claimed) \in 1..BatchSize
        /\ batch' = [batch EXCEPT ![w] = claimed]
        /\ claimant' = [s \in Sources |-> IF s \in claimed THEN w ELSE claimant[s]]
        /\ lapsed' = [s \in Sources |-> lapsed[s] /\ s \notin claimed]
    /\ readAttempt' = [readAttempt EXCEPT ![w] = attempt]
    /\ UNCHANGED <<deleteAfter, deleted, attempt, audits, object, current, pc,
                   faults>>

NextRow(w) ==
    /\ pc[w] = "idle"
    /\ \E s \in batch[w] :
        /\ current' = [current EXCEPT ![w] = {s}]
        /\ batch' = [batch EXCEPT ![w] = @ \ {s}]
    /\ pc' = [pc EXCEPT ![w] = "delete"]
    /\ UNCHANGED <<rowVars, object, readAttempt, faults>>

\* delete_object of an object that may be gone already.
DeleteObject(w, s) ==
    /\ pc[w] = "delete" /\ current[w] = {s}
    /\ object' = [object EXCEPT ![s] = FALSE]
    /\ pc' = [pc EXCEPT ![w] = "record"]
    /\ UNCHANGED <<rowVars, batch, current, readAttempt, faults>>

\* The object store or the recording statements raise; a delete_object that
\* fails may have been executed.
SweepError(w, s) ==
    /\ pc[w] \in {"delete", "record"} /\ current[w] = {s}
    /\ faults < MaxFaults
    /\ faults' = faults + 1
    /\ \/ UNCHANGED object
       \/ pc[w] = "delete" /\ object' = [object EXCEPT ![s] = FALSE]
    /\ pc' = [pc EXCEPT ![w] = "retry"]
    /\ UNCHANGED <<rowVars, batch, current, readAttempt>>

Done(w) ==
    /\ current' = [current EXCEPT ![w] = {}]
    /\ pc' = [pc EXCEPT ![w] = "idle"]
    /\ UNCHANGED <<batch, readAttempt>>

\* Faulty variant: the claim token is left out of both WHERE clauses.
OwnsIgnoringToken(w, s) == ~deleted[s]

\* The guard of both closing updates.
Owns(w, s) == ~deleted[s] /\ claimant[s] = w

\* Faulty variant: a finished row is recorded and audited again.
RecordAnyway(w, s) ==
    /\ pc[w] = "record" /\ current[w] = {s}
    /\ deleted' = [deleted EXCEPT ![s] = TRUE]
    /\ attempt' = [attempt EXCEPT ![s] = @ + 1]
    /\ audits' = [audits EXCEPT ![s] = @ + 1]
    /\ claimant' = [claimant EXCEPT ![s] = Nobody]
    /\ Done(w)
    /\ UNCHANGED <<deleteAfter, lapsed, object, faults>>

\* deleted_at and the audit row in one transaction, nothing without the claim.
Record(w, s) ==
    /\ pc[w] = "record" /\ current[w] = {s}
    /\ IF Owns(w, s)
       THEN /\ deleted' = [deleted EXCEPT ![s] = TRUE]
            /\ attempt' = [attempt EXCEPT ![s] = @ + 1]
            /\ audits' = [audits EXCEPT ![s] = @ + 1]
            /\ claimant' = [claimant EXCEPT ![s] = Nobody]
       ELSE UNCHANGED <<deleted, attempt, audits, claimant>>
    /\ Done(w)
    /\ UNCHANGED <<deleteAfter, lapsed, object, faults>>

\* Faulty variant: the claim is kept and nothing is rescheduled.
RetryNever(w, s) ==
    /\ pc[w] = "retry" /\ current[w] = {s}
    /\ IF Owns(w, s)
       THEN deleteAfter' = [deleteAfter EXCEPT ![s] = "never"]
       ELSE UNCHANGED deleteAfter
    /\ Done(w)
    /\ UNCHANGED <<deleted, claimant, lapsed, attempt, audits, object, faults>>

\* The claim is given back and delete_after moves ahead by the backoff.
Retry(w, s) ==
    /\ pc[w] = "retry" /\ current[w] = {s}
    /\ IF Owns(w, s)
       THEN /\ attempt' = [attempt EXCEPT ![s] = readAttempt[w][s] + 1]
            /\ claimant' = [claimant EXCEPT ![s] = Nobody]
            /\ deleteAfter' = [deleteAfter EXCEPT ![s] = "later"]
       ELSE UNCHANGED <<attempt, claimant, deleteAfter>>
    /\ Done(w)
    /\ UNCHANGED <<deleted, lapsed, audits, object, faults>>

\* The process ends, or the retry update or a commit raises.
Crash(w) ==
    /\ pc[w] # "idle" \/ batch[w] # {}
    /\ faults < MaxFaults
    /\ faults' = faults + 1
    /\ batch' = [batch EXCEPT ![w] = {}]
    /\ current' = [current EXCEPT ![w] = {}]
    /\ pc' = [pc EXCEPT ![w] = "idle"]
    /\ UNCHANGED <<rowVars, object, readAttempt>>
-----------------------------------------------------------------------------
Sweep(w) ==
    \/ ClaimBatch(w) \/ NextRow(w)
    \/ \E s \in Sources : DeleteObject(w, s) \/ Record(w, s) \/ Retry(w, s)

Next ==
    \/ \E s \in Sources : Schedule(s) \/ BecomeDue(s) \/ ClaimLapses(s)
    \/ \E w \in Workers :
        Sweep(w) \/ Crash(w) \/ \E s \in Sources : SweepError(w, s)

Spec == Init /\ [][Next]_vars

\* Workers keep cycling, time passes, and a claim nobody works on runs out.
Fairness ==
    /\ \A w \in Workers : WF_vars(Sweep(w))
    /\ \A s \in Sources :
        WF_vars(BecomeDue(s)) /\ WF_vars(~InSweep(s) /\ ClaimLapses(s))

FairSpec == Spec /\ Fairness
-----------------------------------------------------------------------------
(* Refinement.                                                             *)

\* delete_after has passed once: a failed deletion moves it ahead again, but
\* counts an attempt.
WasDue(s) ==
    deleteAfter[s] = "due" \/ (deleteAfter[s] = "later" /\ attempt[s] > 0)

\* What matters to a job and to the owner of an original.
Original(s) ==
    IF ~object[s] THEN "deleted"
    ELSE IF WasDue(s) THEN "due"
    ELSE IF deleteAfter[s] = "later" THEN "waiting"
    ELSE "kept"

Originals == [s \in Sources |-> Original(s)]

Lifecycle == INSTANCE OriginalLifecycle WITH original <- Originals

\* Whatever overlapping, failing and restarted sweeps do, an original is
\* scheduled once, deleted once, and never before its retention is over.
LifecycleKept == Lifecycle!Spec
-----------------------------------------------------------------------------
(* Properties.                                                             *)

\* deleted_at, the object store and the audit trail agree: a deletion is on
\* record once, never before the object is gone, also when several sweeps
\* have deleted the same object.
RecordMatchesStore ==
    \A s \in Sources :
        /\ deleted[s] => ~object[s]
        /\ audits[s] = IF deleted[s] THEN 1 ELSE 0

\* A claim that has not lapsed ends only by its holder's own closing update:
\* the late outcome of a sweep that was overtaken changes nothing.
ClaimEndsByHolder ==
    [][\A s \in Sources :
        (claimant[s] # Nobody /\ ~lapsed[s] /\ claimant'[s] # claimant[s])
            => /\ current[claimant[s]] = {s}
               /\ pc[claimant[s]] \in {"record", "retry"}]_vars

\* The attempt counter, which sets the backoff, counts one by one although it
\* is written from the value read when the row was claimed.
AttemptsCountUp ==
    [][\A s \in Sources : attempt'[s] \in {attempt[s], attempt[s] + 1}]_vars

\* Every scheduled original is deleted and recorded in the end, whatever other
\* rows of its batches do.
ScheduledOriginalIsDeleted ==
    \A s \in Sources : deleteAfter[s] # "never" ~> deleted[s]
=============================================================================
