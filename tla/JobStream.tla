------------------------------ MODULE JobStream ------------------------------
(***************************************************************************)
(* One Valkey stream of job deliveries with its consumer group and its     *)
(* delivery markers, as the API publisher (queue.ts) and the worker        *)
(* (worker.py) use it.  Every operation below is one atomic server-side    *)
(* command or Lua script.  The order of entries inside the stream is       *)
(* abstracted: no property depends on it.                                  *)
(***************************************************************************)
EXTENDS Naturals, FiniteSets

CONSTANTS
    Jobs,       \* the rows of compression_jobs (aggregate ids)
    Messages,   \* stream entry ids that can ever be allocated by XADD
    JobOf       \* the job each entry carries; two entries may carry the same

ASSUME JobOfAssumption == JobOf \in [Messages -> Jobs]

VARIABLES
    sent,       \* entry ids XADD has allocated so far
    entries,    \* entries now in the stream
    pending,    \* entries in the group's pending list (delivered, not acked)
    markers,    \* members of the smcp:job-delivery:<topic>:<job> sets
    group       \* does the consumer group exist?

streamVars == <<sent, entries, pending, markers, group>>

StreamTypeOK ==
    /\ sent \subseteq Messages
    /\ entries \subseteq Messages
    /\ pending \subseteq Messages
    /\ markers \subseteq Messages
    /\ group \in BOOLEAN

StreamInit ==
    /\ sent = {}
    /\ entries = {}
    /\ pending = {}
    /\ markers = {}
    /\ group = TRUE

\* PUBLISH_JOB_SCRIPT: XADD and SADD of the marker, atomically.
XAdd(m) ==
    /\ m \notin sent
    /\ sent' = sent \union {m}
    /\ entries' = entries \union {m}
    /\ markers' = markers \union {m}
    /\ UNCHANGED <<pending, group>>

\* What XREADGROUP ">" can still hand out.
Undelivered == entries \ pending

XReadGroup(m) ==
    /\ group
    /\ m \in Undelivered
    /\ pending' = pending \union {m}
    /\ UNCHANGED <<sent, entries, markers, group>>

\* ACK_AND_DELETE_SCRIPT: the entry and its marker go only if XACK found the
\* entry pending, whichever consumer it was delivered to.
AckAndDelete(m) ==
    /\ IF m \in pending
       THEN /\ entries' = entries \ {m}
            /\ pending' = pending \ {m}
            /\ markers' = markers \ {m}
       ELSE UNCHANGED <<entries, pending, markers>>
    /\ UNCHANGED <<sent, group>>

\* EXISTS on the marker key of job j (hasJobDelivery).
HasJobDelivery(j) == \E m \in markers : JobOf[m] = j
=============================================================================
