--------------------------- MODULE WebhookDelivery ---------------------------
(***************************************************************************)
(* Completed-job events on their way to a project's webhook endpoints: a   *)
(* dispatcher in each API process turns unpublished events into delivery   *)
(* rows, claims due rows with a two-minute lease, posts them one after the *)
(* other and records the outcome.                                          *)
(*                                                                         *)
(* materializeWebhookDeliveries is one READ COMMITTED transaction of two   *)
(* statements, each with a snapshot of its own; they are two steps here,   *)
(* and what the first one inserts is visible to others at commit.          *)
(***************************************************************************)
EXTENDS Naturals, FiniteSets

CONSTANTS
    Dispatchers,  \* API processes that run a WebhookDispatcher
    Endpoints,    \* webhook_endpoints of the project, subscribed to the events
    Events,       \* completed events that can be emitted
    MaxAttempts,  \* WEBHOOK_MAX_ATTEMPTS
    MaxFaults,    \* bound: aborted polls, failed updates and overrun leases
    Nobody        \* NULL claim_token, and "nothing in hand"

\* webhook_deliveries: UNIQUE (endpoint_id, event_id)
Deliveries == Endpoints \X Events

ASSUME WebhookAssumption ==
    /\ MaxAttempts \in Nat \ {0}
    /\ MaxFaults \in Nat
    /\ IsFiniteSet(Dispatchers)
    /\ Nobody \notin Dispatchers \union Deliveries

VARIABLES
    \* PostgreSQL
    endpoint,   \* "absent", "enabled" or "disabled"
    emitted,    \* committed outbox rows of completed jobs
    published,  \* ... with published_at
    status,     \* of each delivery row, "none" while it does not exist
    attempt,    \* webhook_deliveries.attempt
    claim,      \* claim_token; one dispatcher has one token at a time
    lapsed,     \* claimed_at is more than two minutes ago
    \* dispatcher processes
    pc,         \* "idle", "publish" (between the two statements), "claim", ...
    inserted,   \* rows the open transaction has inserted
    batch,      \* claimed deliveries still to post
    current,    \* the delivery in hand
    \* history and bounds
    posts,      \* POST requests made for the delivery
    accepted,   \* ... answered with 2xx
    due,        \* deliveries whose endpoint was enabled when the event came
    raced,      \* events committed between somebody's two statements
    faults

rowVars   == <<endpoint, emitted, published, status, attempt, claim, lapsed>>
localVars == <<pc, inserted, batch, current>>
history   == <<posts, accepted, due, raced>>
vars == <<rowVars, localVars, history, faults>>

Open    == {"PENDING", "RETRY"}
Settled == {"DELIVERED", "DEAD_LETTER"}

TypeOK ==
    /\ endpoint \in [Endpoints -> {"absent", "enabled", "disabled"}]
    /\ emitted \subseteq Events
    /\ published \subseteq emitted
    /\ status \in [Deliveries -> {"none"} \union Open \union Settled]
    /\ attempt \in [Deliveries -> Nat]
    /\ claim \in [Deliveries -> Dispatchers \union {Nobody}]
    /\ lapsed \in [Deliveries -> BOOLEAN]
    /\ pc \in [Dispatchers -> {"idle", "publish", "claim", "post", "complete",
                               "fail"}]
    /\ inserted \in [Dispatchers -> SUBSET Deliveries]
    /\ batch \in [Dispatchers -> SUBSET Deliveries]
    /\ current \in [Dispatchers -> Deliveries \union {Nobody}]
    /\ posts \in [Deliveries -> Nat]
    /\ accepted \in [Deliveries -> Nat]
    /\ due \subseteq Deliveries
    /\ raced \subseteq emitted
    /\ faults \in 0..MaxFaults
    /\ \A p \in Dispatchers :
         pc[p] \in {"complete", "fail"} <=> current[p] # Nobody

Init ==
    /\ endpoint = [n \in Endpoints |-> "absent"]
    /\ emitted = {}
    /\ published = {}
    /\ status = [d \in Deliveries |-> "none"]
    /\ attempt = [d \in Deliveries |-> 0]
    /\ claim = [d \in Deliveries |-> Nobody]
    /\ lapsed = [d \in Deliveries |-> FALSE]
    /\ pc = [p \in Dispatchers |-> "idle"]
    /\ inserted = [p \in Dispatchers |-> {}]
    /\ batch = [p \in Dispatchers |-> {}]
    /\ current = [p \in Dispatchers |-> Nobody]
    /\ posts = [d \in Deliveries |-> 0]
    /\ accepted = [d \in Deliveries |-> 0]
    /\ due = {}
    /\ raced = {}
    /\ faults = 0

Goto(p, op) == pc' = [pc EXCEPT ![p] = op]
Fault       == faults < MaxFaults /\ faults' = faults + 1
NoFault     == UNCHANGED faults

\* createWebhookEndpoint
CreateEndpoint(n) ==
    /\ endpoint[n] = "absent"
    /\ endpoint' = [endpoint EXCEPT ![n] = "enabled"]
    /\ UNCHANGED <<emitted, published, status, attempt, claim, lapsed,
                   localVars, history, faults>>

\* disableWebhookEndpoint; nothing enables an endpoint again.
DisableEndpoint(n) ==
    /\ endpoint[n] # "absent"
    /\ endpoint' = [endpoint EXCEPT ![n] = "disabled"]
    /\ UNCHANGED <<emitted, published, status, attempt, claim, lapsed,
                   localVars, history, faults>>

\* The worker's completion transaction commits its outbox row.
Emit(e) ==
    /\ e \notin emitted
    /\ emitted' = emitted \union {e}
    /\ due' = due \union {d \in Deliveries :
                             d[2] = e /\ endpoint[d[1]] = "enabled"}
    /\ raced' = IF \E p \in Dispatchers : pc[p] = "publish"
                THEN raced \union {e} ELSE raced
    /\ UNCHANGED <<endpoint, published, status, attempt, claim, lapsed,
                   localVars, posts, accepted, faults>>
-----------------------------------------------------------------------------
(* materializeWebhookDeliveries                                            *)

\* The SELECT: unpublished events and the endpoints enabled for them.
Matching ==
    {d \in Deliveries :
        d[2] \in emitted \ published /\ endpoint[d[1]] = "enabled"}

\* Faulty variant: events are marked published first, and at once.
InsertDeliveriesAfterPublishing(p) ==
    /\ pc[p] = "idle"
    /\ \A q \in Dispatchers : inserted[q] \intersect Matching = {}
    /\ inserted' = [inserted EXCEPT
            ![p] = {d \in Matching : status[d] = "none"}]
    /\ published' = emitted
    /\ Goto(p, "publish")
    /\ UNCHANGED <<endpoint, emitted, status, attempt, claim, lapsed, batch,
                   current, history, faults>>

\* First statement.  ON CONFLICT DO NOTHING skips rows that exist, and waits
\* for a transaction that holds the same key uncommitted.
InsertDeliveries(p) ==
    /\ pc[p] = "idle"
    /\ \A q \in Dispatchers : inserted[q] \intersect Matching = {}
    /\ inserted' = [inserted EXCEPT
            ![p] = {d \in Matching : status[d] = "none"}]
    /\ Goto(p, "publish")
    /\ UNCHANGED <<rowVars, batch, current, history, faults>>

\* Second statement and commit: every event that is unpublished by now.
PublishEvents(p) ==
    /\ pc[p] = "publish"
    /\ status' = [d \in Deliveries |->
            IF d \in inserted[p] THEN "PENDING" ELSE status[d]]
    /\ published' = emitted
    /\ inserted' = [inserted EXCEPT ![p] = {}]
    /\ Goto(p, "claim")
    /\ UNCHANGED <<endpoint, emitted, attempt, claim, lapsed, batch, current,
                   history, faults>>
-----------------------------------------------------------------------------
(* claimWebhookDeliveries and deliver.                                     *)

\* Faulty variants: a claim is no protection; it never expires.
ClaimableAlways ==
    {d \in Deliveries : status[d] \in Open /\ endpoint[d[1]] = "enabled"}
ClaimableNever ==
    {d \in ClaimableAlways : claim[d] = Nobody}

Claimable ==
    {d \in Deliveries :
        /\ status[d] \in Open
        /\ endpoint[d[1]] = "enabled"
        /\ claim[d] = Nobody \/ lapsed[d]}

\* Rows not due yet or locked by another dispatcher are passed over, and one
\* poll takes at most 25; the attempt limit is not looked at.
ClaimDeliveries(p) ==
    /\ pc[p] = "claim"
    /\ \E found \in SUBSET Claimable :
         /\ found = {} => Claimable = {}
         /\ claim' = [d \in Deliveries |-> IF d \in found THEN p ELSE claim[d]]
         /\ lapsed' = [d \in Deliveries |-> lapsed[d] /\ d \notin found]
         /\ attempt' = [d \in Deliveries |->
                IF d \in found THEN attempt[d] + 1 ELSE attempt[d]]
         /\ batch' = [batch EXCEPT ![p] = found]
         /\ Goto(p, IF found = {} THEN "idle" ELSE "post")
    /\ UNCHANGED <<endpoint, emitted, published, status, inserted, current,
                   history, faults>>

\* One POST.  It is refused before it is sent (address check, decryption), it
\* gets an answer other than 2xx or none in time, or it is accepted.
Post(p) ==
    /\ pc[p] = "post"
    /\ \E d \in batch[p] :
         /\ current' = [current EXCEPT ![p] = d]
         /\ batch' = [batch EXCEPT ![p] = @ \ {d}]
         /\ \/ /\ UNCHANGED <<posts, accepted>>
               /\ Goto(p, "fail")
            \/ /\ posts' = [posts EXCEPT ![d] = @ + 1]
               /\ UNCHANGED accepted
               /\ Goto(p, "fail")
            \/ /\ posts' = [posts EXCEPT ![d] = @ + 1]
               /\ accepted' = [accepted EXCEPT ![d] = @ + 1]
               /\ Goto(p, "complete")
    /\ UNCHANGED <<rowVars, inserted, due, raced, faults>>

\* What follows one delivery of a batch.
NextDelivery(p) ==
    /\ current' = [current EXCEPT ![p] = Nobody]
    /\ Goto(p, IF batch[p] = {} THEN "idle" ELSE "post")

\* Faulty variant: the token is not part of the WHERE clause.
HoldsAnyClaim(p, d) == TRUE

\* WHERE id = ... AND claim_token = ...
HoldsClaim(p, d) == claim[d] = p

\* An UPDATE that ends the claim and gives the row a new status.
Record(p, d, newStatus) ==
    IF HoldsClaim(p, d)
    THEN /\ status' = [status EXCEPT ![d] = newStatus]
         /\ claim' = [claim EXCEPT ![d] = Nobody]
         /\ lapsed' = [lapsed EXCEPT ![d] = FALSE]
    ELSE UNCHANGED <<status, claim, lapsed>>

\* completeWebhookDelivery; an exception, committed or not, goes on to
\* failWebhookDelivery.
Complete(p) ==
    /\ pc[p] = "complete"
    /\ \/ Record(p, current[p], "DELIVERED") /\ NextDelivery(p) /\ NoFault
       \/ /\ \/ Record(p, current[p], "DELIVERED")
             \/ UNCHANGED <<status, claim, lapsed>>
          /\ Goto(p, "fail") /\ UNCHANGED current
          /\ Fault
    /\ UNCHANGED <<endpoint, emitted, published, attempt, inserted, batch,
                   history>>

\* Faulty variant: a delivery is retried for ever.
OutcomeAlwaysRetry(n) == "RETRY"

\* Faulty variant: given up one attempt early.
OutcomeEarly(n) == IF n + 1 >= MaxAttempts THEN "DEAD_LETTER" ELSE "RETRY"

\* The status after failed attempt n.
FailedStatus(n) == IF n >= MaxAttempts THEN "DEAD_LETTER" ELSE "RETRY"

\* failWebhookDelivery.  The attempt it is given is the one of its claim, and
\* as long as the claim holds the row still has that number.
Fail(p) ==
    /\ pc[p] = "fail"
    /\ Record(p, current[p], FailedStatus(attempt[current[p]]))
    /\ NextDelivery(p)
    /\ UNCHANGED <<endpoint, emitted, published, attempt, inserted, batch,
                   history, faults>>

\* The poll throws, or the API process restarts.  An open transaction rolls
\* back; claims stay.
AbortPoll(p) ==
    /\ pc[p] # "idle"
    /\ Fault
    /\ inserted' = [inserted EXCEPT ![p] = {}]
    /\ batch' = [batch EXCEPT ![p] = {}]
    /\ current' = [current EXCEPT ![p] = Nobody]
    /\ Goto(p, "idle")
    /\ UNCHANGED <<rowVars, history>>

AtWork(p, d) == d \in batch[p] \union {current[p]}

\* Two minutes pass.  While the claimant is still at work on the delivery this
\* takes slow endpoints earlier in its batch, and counts against the bound.
LeaseLapses(d) ==
    /\ claim[d] # Nobody /\ ~lapsed[d]
    /\ lapsed' = [lapsed EXCEPT ![d] = TRUE]
    /\ IF AtWork(claim[d], d) THEN Fault ELSE NoFault
    /\ UNCHANGED <<endpoint, emitted, published, status, attempt, claim,
                   localVars, history>>
-----------------------------------------------------------------------------
PollStep(p) ==
    \/ InsertDeliveries(p) \/ PublishEvents(p) \/ ClaimDeliveries(p)
    \/ Post(p) \/ Complete(p) \/ Fail(p)

Next ==
    \/ \E n \in Endpoints : CreateEndpoint(n) \/ DisableEndpoint(n)
    \/ \E e \in Events : Emit(e)
    \/ \E p \in Dispatchers : PollStep(p) \/ AbortPoll(p)
    \/ \E d \in Deliveries : LeaseLapses(d)

Spec == Init /\ [][Next]_vars

\* Every dispatcher polls on a timer, and leases run out.
FairSpec ==
    /\ Spec
    /\ \A p \in Dispatchers : WF_vars(PollStep(p))
    /\ \A d \in Deliveries : WF_vars(LeaseLapses(d) /\ ~AtWork(claim[d], d))
-----------------------------------------------------------------------------
(* Safety.                                                                 *)

\* A delivery is recorded as DELIVERED only if its endpoint accepted it, and
\* given up only after the configured number of attempts.
OutcomeIsEarned ==
    \A d \in Deliveries :
        /\ status[d] = "DELIVERED" => accepted[d] > 0
        /\ status[d] = "DEAD_LETTER" => attempt[d] >= MaxAttempts

\* The retry budget: one POST per claim, and more claims than MaxAttempts only
\* after an aborted poll or an overrun lease.
PostsWithinBudget ==
    \A d \in Deliveries :
        /\ posts[d] <= attempt[d]
        /\ attempt[d] <= MaxAttempts + faults

\* Without such a fault an endpoint that accepted an event does not get it a
\* second time, and the event is not given up.
AcceptedOnceWithoutFault ==
    faults = 0 =>
        \A d \in Deliveries :
            /\ accepted[d] <= 1
            /\ accepted[d] = 1 => status[d] # "DEAD_LETTER"

\* An endpoint that was enabled when the event was committed, and still is,
\* has a delivery row once the event counts as published; the only events
\* that can be passed over are those committed between the two statements.
OnlyRacedEventsSkipped ==
    \A d \in due :
        /\ d[2] \in published \ raced
        /\ endpoint[d[1]] = "enabled"
        => status[d] # "none"

\* A delivered or given-up row is never touched again, whoever is still at
\* work on it.
OutcomeIsFinal ==
    [][\A d \in Deliveries :
          status[d] \in Settled =>
              status'[d] = status[d] /\ attempt'[d] = attempt[d]]_vars

\* system.md: a signed webhook is delivered from an outbox.  Every event that
\* counts as published has a row for every endpoint that was and is enabled.
PublishedEventsHaveDeliveries ==
    \A d \in due :
        d[2] \in published /\ endpoint[d[1]] = "enabled" => status[d] # "none"

-----------------------------------------------------------------------------
(* Liveness.                                                               *)

\* A delivery whose endpoint stays enabled is delivered or given up.
DeliveriesSettle ==
    \A d \in Deliveries :
        (status[d] \in Open) ~>
            (status[d] \in Settled \/ endpoint[d[1]] = "disabled")
=============================================================================
