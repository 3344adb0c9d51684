---------------------------- MODULE DeliveryHandling ----------------------------
(***************************************************************************)
(* What the workers do to a delivery and to the row of the job it carries, *)
(* seen from the stream: a job is open (it waits for a run), active or     *)
(* settled, and a delivery is in somebody's hand or not.  No operation of  *)
(* a handler, no attempt and no artifact is left.                          *)
(*                                                                         *)
(* JobOutbox takes its workers from here.  CompressionWorker and SimpleJob *)
(* implement this specification as long as no delivery is in two hands.    *)
(***************************************************************************)
EXTENDS JobStream

VARIABLES
    job,    \* "open" (PENDING, FAILED_RETRYABLE), "active" or "settled"
    held    \* deliveries some worker has in hand

vars == <<streamVars, job, held>>

Init ==
    /\ StreamInit
    /\ job = [j \in Jobs |-> "open"]
    /\ held = {}

\* The outbox publisher sends a job.
Publish(m) == XAdd(m) /\ UNCHANGED <<job, held>>

\* A client cancels a job; only compression jobs can be.
Cancel(j) ==
    /\ job[j] \in {"open", "active"}
    /\ job' = [job EXCEPT ![j] = "settled"]
    /\ UNCHANGED <<streamVars, held>>

\* XREADGROUP hands out a new entry, XAUTOCLAIM a pending one nobody handles.
Deliver(m) ==
    /\ \/ XReadGroup(m)
       \/ group /\ m \in pending \ held /\ UNCHANGED streamVars
    /\ held' = held \union {m}
    /\ UNCHANGED job

\* What the holder of a delivery may do to the row: start a run, end it, give
\* the job up, recover it, and also take up a settled job that was open when
\* the holder read its row.
RowSteps ==
    {<<"open", "active">>, <<"active", "settled">>, <<"open", "settled">>,
     <<"active", "open">>, <<"settled", "open">>}

Work(m) ==
    /\ m \in held
    /\ \E to \in {"open", "active", "settled"} :
         /\ <<job[JobOf[m]], to>> \in RowSteps
         /\ job' = [job EXCEPT ![JobOf[m]] = to]
    /\ UNCHANGED <<streamVars, held>>

\* A run fails and leaves FAILED_RETRYABLE, or the worker dies; the delivery
\* stays pending.
GiveBack(m) ==
    /\ m \in held
    /\ held' = held \ {m}
    /\ \/ UNCHANGED job
       \/ /\ job[JobOf[m]] = "active"
          /\ job' = [job EXCEPT ![JobOf[m]] = "open"]
    /\ UNCHANGED streamVars

\* Faulty variant: a delivery is dropped whatever became of its job.
MayAcknowledgeAnyJob(m) == TRUE

\* The handler has found or made the row terminal.  Another handler may have
\* reopened it since, but then for an entry that is still in the stream.
MayAcknowledge(m) ==
    \/ job[JobOf[m]] = "settled"
    \/ \E n \in entries \ {m} : JobOf[n] = JobOf[m]

Acknowledge(m) ==
    /\ m \in held
    /\ MayAcknowledge(m)
    /\ AckAndDelete(m)
    /\ held' = held \ {m}
    /\ UNCHANGED job

Next ==
    \/ \E m \in Messages :
        \/ Publish(m) \/ Deliver(m) \/ Work(m) \/ GiveBack(m) \/ Acknowledge(m)
    \/ \E j \in Jobs : Cancel(j)

Spec == Init /\ [][Next]_vars
=============================================================================
