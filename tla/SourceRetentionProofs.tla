------------------------ MODULE SourceRetentionProofs ------------------------
(***************************************************************************)
(* Proofs about SourceRetention, for any originals, workers, batch size    *)
(* and number of faults: its types, the agreement of record and object     *)
(* store, the two properties of its steps, and the refinement of           *)
(* OriginalLifecycle.                                                      *)
(***************************************************************************)
EXTENDS SourceRetention, TLAPS

-----------------------------------------------------------------------------
(* Types.                                                                  *)

LEMMA TypeOKInit == Init => TypeOK
BY DEF Init, TypeOK

\* What a worker has in hand fits its next operation.
HandFits(w) ==
    IF pc[w] = "idle" THEN current[w] = {}
                      ELSE \E s \in Sources : current[w] = {s}

\* Closing a row leaves the worker without one.
LEMMA DoneType ==
    ASSUME TypeOK, NEW w \in Workers, Done(w)
    PROVE  /\ batch' \in [Workers -> SUBSET Sources]
           /\ current' \in [Workers -> SUBSET Sources]
           /\ pc' \in [Workers -> {"idle", "delete", "record", "retry"}]
           /\ readAttempt' \in [Workers -> [Sources -> Nat]]
           /\ \A v \in Workers : HandFits(v)'
BY DEF TypeOK, Done, HandFits

LEMMA TypeOKNext == TypeOK /\ [Next]_vars => TypeOK'
<1> SUFFICES ASSUME TypeOK, [Next]_vars PROVE TypeOK'
  OBVIOUS
<1> USE RetentionAssumption DEF TypeOK
<1>1. ASSUME NEW s \in Sources, Schedule(s) PROVE TypeOK'
  BY <1>1 DEF Schedule, localVars
<1>2. ASSUME NEW s \in Sources, BecomeDue(s) PROVE TypeOK'
  BY <1>2 DEF BecomeDue, localVars
<1>3. ASSUME NEW s \in Sources, ClaimLapses(s) PROVE TypeOK'
  BY <1>3 DEF ClaimLapses, localVars
<1>4. ASSUME NEW w \in Workers, ClaimBatch(w) PROVE TypeOK'
  <2>1. PICK claimed \in SUBSET {s \in Sources : Claimable(s)} :
            /\ batch' = [batch EXCEPT ![w] = claimed]
            /\ claimant' = [s \in Sources |-> IF s \in claimed THEN w ELSE claimant[s]]
            /\ lapsed' = [s \in Sources |-> lapsed[s] /\ s \notin claimed]
    BY <1>4 DEF ClaimBatch
  <2>2. lapsed' \in [Sources -> BOOLEAN]
    BY <2>1
  <2> QED BY <1>4, <2>1, <2>2 DEF ClaimBatch
<1>5. ASSUME NEW w \in Workers, NextRow(w) PROVE TypeOK'
  BY <1>5 DEF NextRow, rowVars
<1>6. ASSUME NEW w \in Workers, NEW s \in Sources, DeleteObject(w, s) PROVE TypeOK'
  BY <1>6 DEF DeleteObject, rowVars
<1>7. ASSUME NEW w \in Workers, NEW s \in Sources, Record(w, s) PROVE TypeOK'
  <2>1. Done(w)
    BY <1>7 DEF Record
  <2>2. /\ deleted' \in [Sources -> BOOLEAN]
        /\ attempt' \in [Sources -> Nat]
        /\ audits' \in [Sources -> Nat]
        /\ claimant' \in [Sources -> Workers \union {Nobody}]
    <3>1. CASE Owns(w, s)
      <4>1. deleted' \in [Sources -> BOOLEAN]
        BY <1>7, <3>1 DEF Record
      <4>2. attempt' \in [Sources -> Nat]
        BY <1>7, <3>1 DEF Record
      <4>3. audits' \in [Sources -> Nat]
        BY <1>7, <3>1 DEF Record
      <4>4. claimant' \in [Sources -> Workers \union {Nobody}]
        BY <1>7, <3>1 DEF Record
      <4> QED BY <4>1, <4>2, <4>3, <4>4
    <3>2. CASE ~Owns(w, s)
      BY <1>7, <3>2 DEF Record
    <3> QED BY <3>1, <3>2
  <2>3. UNCHANGED <<deleteAfter, lapsed, object, faults>>
    BY <1>7 DEF Record
  <2> QED BY <2>1, <2>2, <2>3, DoneType DEF HandFits
<1>8. ASSUME NEW w \in Workers, NEW s \in Sources, Retry(w, s) PROVE TypeOK'
  <2>1. Done(w)
    BY <1>8 DEF Retry
  <2>2. /\ deleteAfter' \in [Sources -> {"never", "later", "due"}]
        /\ attempt' \in [Sources -> Nat]
        /\ claimant' \in [Sources -> Workers \union {Nobody}]
    <3>1. CASE Owns(w, s)
      <4>1. deleteAfter' \in [Sources -> {"never", "later", "due"}]
        BY <1>8, <3>1 DEF Retry
      <4>2. attempt' \in [Sources -> Nat]
        BY <1>8, <3>1 DEF Retry
      <4>3. claimant' \in [Sources -> Workers \union {Nobody}]
        BY <1>8, <3>1 DEF Retry
      <4> QED BY <4>1, <4>2, <4>3
    <3>2. CASE ~Owns(w, s)
      BY <1>8, <3>2 DEF Retry
    <3> QED BY <3>1, <3>2
  <2>3. UNCHANGED <<deleted, lapsed, audits, object, faults>>
    BY <1>8 DEF Retry
  <2> QED BY <2>1, <2>2, <2>3, DoneType DEF HandFits
<1>9. ASSUME NEW w \in Workers, Crash(w) PROVE TypeOK'
  BY <1>9 DEF Crash, rowVars
<1>10. ASSUME NEW w \in Workers, NEW s \in Sources, SweepError(w, s) PROVE TypeOK'
  <2>1. object' \in [Sources -> BOOLEAN]
    BY <1>10 DEF SweepError
  <2>2. \A v \in Workers : HandFits(v)'
    BY <1>10 DEF SweepError, HandFits
  <2> QED BY <1>10, <2>1, <2>2 DEF SweepError, rowVars, HandFits
<1>11. ASSUME UNCHANGED vars PROVE TypeOK'
  BY <1>11 DEF vars, rowVars, localVars
<1> QED
  BY <1>1, <1>2, <1>3, <1>4, <1>5, <1>6, <1>7, <1>8, <1>9, <1>10, <1>11
     DEF Next, Sweep

\* Rows, claims and the workers' batches are well typed, and a worker has a row
\* in hand exactly while it is at work on it (_delete_due_originals).
THEOREM TypeCorrect == Spec => []TypeOK
BY TypeOKInit, TypeOKNext, PTL DEF Spec
-----------------------------------------------------------------------------
(* The inductive invariant.  A sweep that records a deletion has deleted   *)
(* the object, and a row that is still claimed by the worker that has it   *)
(* in hand has the attempt that worker read.                               *)

InHand(w, s) == s \in batch[w] \union current[w]

DeletedBeforeRecord ==
    \A w \in Workers, s \in Sources :
        pc[w] = "record" /\ current[w] = {s} => ~object[s]

ClaimedAttemptIsRead ==
    \A w \in Workers, s \in Sources :
        claimant[s] = w /\ InHand(w, s) => readAttempt[w][s] = attempt[s]

RetentionInv ==
    /\ TypeOK
    /\ RecordMatchesStore
    /\ DeletedBeforeRecord
    /\ ClaimedAttemptIsRead

LEMMA InvInit == Init => RetentionInv
BY TypeOKInit
   DEF Init, RetentionInv, RecordMatchesStore, DeletedBeforeRecord,
       ClaimedAttemptIsRead, InHand

LEMMA InvNext == RetentionInv /\ [Next]_vars => RetentionInv'
<1> SUFFICES ASSUME RetentionInv, [Next]_vars PROVE RetentionInv'
  OBVIOUS
<1>t. TypeOK'
  BY TypeOKNext DEF RetentionInv
<1> USE <1>t, RetentionAssumption
    DEF RetentionInv, TypeOK, RecordMatchesStore, DeletedBeforeRecord,
        ClaimedAttemptIsRead, InHand
<1>1. ASSUME NEW s \in Sources, Schedule(s) PROVE RetentionInv'
  BY <1>1 DEF Schedule, localVars
<1>2. ASSUME NEW s \in Sources, BecomeDue(s) PROVE RetentionInv'
  BY <1>2 DEF BecomeDue, localVars
<1>3. ASSUME NEW s \in Sources, ClaimLapses(s) PROVE RetentionInv'
  BY <1>3 DEF ClaimLapses, localVars
<1>4. ASSUME NEW w \in Workers, ClaimBatch(w) PROVE RetentionInv'
  <2>1. PICK claimed \in SUBSET {s \in Sources : Claimable(s)} :
            /\ batch' = [batch EXCEPT ![w] = claimed]
            /\ claimant' = [s \in Sources |-> IF s \in claimed THEN w ELSE claimant[s]]
    BY <1>4 DEF ClaimBatch
  <2>2. ClaimedAttemptIsRead'
    <3> SUFFICES ASSUME NEW v \in Workers, NEW s \in Sources,
                        claimant'[s] = v, s \in batch'[v] \union current'[v]
                 PROVE readAttempt'[v][s] = attempt'[s]
      OBVIOUS
    <3>1. CASE v = w
      BY <1>4, <3>1 DEF ClaimBatch
    <3>2. CASE v # w
      <4>1. claimant[s] = v /\ s \in batch[v] \union current[v]
        BY <1>4, <2>1, <3>2 DEF ClaimBatch
      <4> QED BY <1>4, <4>1, <3>2 DEF ClaimBatch
    <3> QED BY <3>1, <3>2
  <2> QED BY <1>4, <2>2 DEF ClaimBatch
<1>5. ASSUME NEW w \in Workers, NextRow(w) PROVE RetentionInv'
  <2>1. ClaimedAttemptIsRead'
    BY <1>5 DEF NextRow, rowVars
  <2>2. DeletedBeforeRecord'
    BY <1>5 DEF NextRow, rowVars
  <2> QED BY <1>5, <2>1, <2>2 DEF NextRow, rowVars
<1>6. ASSUME NEW w \in Workers, NEW s \in Sources, DeleteObject(w, s)
      PROVE RetentionInv'
  <2>1. DeletedBeforeRecord'
    <3> SUFFICES ASSUME NEW v \in Workers, NEW r \in Sources,
                        pc'[v] = "record", current'[v] = {r}
                 PROVE  ~object'[r]
      OBVIOUS
    <3>1. CASE v = w
      <4>1. current[w] = {s} /\ current[w] = {r}
        BY <1>6, <3>1 DEF DeleteObject
      <4>2. object' = [object EXCEPT ![s] = FALSE]
        BY <1>6 DEF DeleteObject
      <4> QED BY <4>1, <4>2
    <3>2. CASE v # w
      <4>1. pc[v] = "record" /\ current[v] = {r}
        BY <1>6, <3>2 DEF DeleteObject
      <4> QED BY <1>6, <4>1 DEF DeleteObject
    <3> QED BY <3>1, <3>2
  <2>2. RecordMatchesStore'
    BY <1>6 DEF DeleteObject, rowVars
  <2>3. ClaimedAttemptIsRead'
    BY <1>6 DEF DeleteObject, rowVars
  <2> QED BY <2>1, <2>2, <2>3
<1>7. ASSUME NEW w \in Workers, NEW s \in Sources, Record(w, s) PROVE RetentionInv'
  <2>1. DeletedBeforeRecord'
    BY <1>7 DEF Record, Done
  <2>2. RecordMatchesStore'
    BY <1>7 DEF Record, Done, Owns
  <2>3. ClaimedAttemptIsRead'
    <3> SUFFICES ASSUME NEW v \in Workers, NEW r \in Sources,
                        claimant'[r] = v, r \in batch'[v] \union current'[v]
                 PROVE  readAttempt'[v][r] = attempt'[r]
      OBVIOUS
    <3>1. claimant[r] = v /\ attempt'[r] = attempt[r]
      BY <1>7 DEF Record
    <3>2. r \in batch[v] \union current[v] /\ UNCHANGED readAttempt
      BY <1>7 DEF Record, Done
    <3> QED BY <3>1, <3>2
  <2> QED BY <2>1, <2>2, <2>3
<1>8. ASSUME NEW w \in Workers, NEW s \in Sources, Retry(w, s) PROVE RetentionInv'
  BY <1>8 DEF Retry, Done, Owns
<1>9. ASSUME NEW w \in Workers, Crash(w) PROVE RetentionInv'
  BY <1>9 DEF Crash, rowVars
<1>10. ASSUME NEW w \in Workers, NEW s \in Sources, SweepError(w, s)
       PROVE RetentionInv'
  BY <1>10 DEF SweepError, rowVars
<1>11. ASSUME UNCHANGED vars PROVE RetentionInv'
  BY <1>11 DEF vars, rowVars, localVars
<1> QED
  BY <1>1, <1>2, <1>3, <1>4, <1>5, <1>6, <1>7, <1>8, <1>9, <1>10, <1>11
     DEF Next, Sweep

\* Overrun leases, crashes and failed calls included, a deletion is on record
\* once and never before the object is gone.
THEOREM RecordMatchesStoreHolds == Spec => []RecordMatchesStore
<1>1. RetentionInv => RecordMatchesStore
  BY DEF RetentionInv
<1> QED BY <1>1, InvInit, InvNext, PTL DEF Spec
-----------------------------------------------------------------------------
(* The properties of the steps.                                            *)

LEMMA ClaimStep ==
    ASSUME RetentionInv, [Next]_vars, NEW s \in Sources,
           claimant[s] # Nobody, ~lapsed[s], claimant'[s] # claimant[s]
    PROVE  current[claimant[s]] = {s} /\ pc[claimant[s]] \in {"record", "retry"}
<1> USE DEF RetentionInv, TypeOK
<1>1. ASSUME NEW w \in Workers, ClaimBatch(w) PROVE FALSE
  BY <1>1 DEF ClaimBatch, Claimable
<1>2. ASSUME NEW w \in Workers, NEW r \in Sources, Record(w, r)
      PROVE current[claimant[s]] = {s} /\ pc[claimant[s]] \in {"record", "retry"}
  BY <1>2 DEF Record, Owns
<1>3. ASSUME NEW w \in Workers, NEW r \in Sources, Retry(w, r)
      PROVE current[claimant[s]] = {s} /\ pc[claimant[s]] \in {"record", "retry"}
  BY <1>3 DEF Retry, Owns
<1> QED
  BY <1>1, <1>2, <1>3
     DEF Next, Sweep, Schedule, BecomeDue, ClaimLapses, NextRow, DeleteObject,
         Crash, SweepError, vars, rowVars

\* A claim within its five minutes is ended only by its holder's own update.
THEOREM ClaimsEndByHolder == Spec => ClaimEndsByHolder
<1>1. RetentionInv /\ [Next]_vars
        => [\A s \in Sources :
                (claimant[s] # Nobody /\ ~lapsed[s] /\ claimant'[s] # claimant[s])
                    => /\ current[claimant[s]] = {s}
                       /\ pc[claimant[s]] \in {"record", "retry"}]_vars
  BY ClaimStep
<1> QED BY <1>1, InvInit, InvNext, PTL DEF Spec, ClaimEndsByHolder

LEMMA AttemptStep ==
    ASSUME RetentionInv, [Next]_vars, NEW s \in Sources
    PROVE  attempt'[s] \in {attempt[s], attempt[s] + 1}
<1> USE DEF RetentionInv, TypeOK
<1>1. ASSUME NEW w \in Workers, NEW r \in Sources, Record(w, r)
      PROVE attempt'[s] \in {attempt[s], attempt[s] + 1}
  BY <1>1 DEF Record
<1>2. ASSUME NEW w \in Workers, NEW r \in Sources, Retry(w, r)
      PROVE attempt'[s] \in {attempt[s], attempt[s] + 1}
  BY <1>2 DEF Retry, Owns, ClaimedAttemptIsRead, InHand
<1> QED
  BY <1>1, <1>2
     DEF Next, Sweep, Schedule, BecomeDue, ClaimLapses, ClaimBatch, NextRow,
         DeleteObject, Crash, SweepError, vars, rowVars

\* The counter behind the backoff counts one by one, although a retry writes
\* the value read when the row was claimed.
THEOREM AttemptsAlwaysCountUp == Spec => AttemptsCountUp
<1>1. RetentionInv /\ [Next]_vars
        => [\A s \in Sources : attempt'[s] \in {attempt[s], attempt[s] + 1}]_vars
  BY AttemptStep
<1> QED BY <1>1, InvInit, InvNext, PTL DEF Spec, AttemptsCountUp
-----------------------------------------------------------------------------
(* The sweep implements OriginalLifecycle.  A row that a worker has claimed *)
(* was due, and that is not forgotten when another sweep gives up and moves *)
(* delete_after ahead; nor is it of a row whose object is gone.            *)

WasDueInv ==
    \A s \in Sources :
        /\ ~object[s] => WasDue(s)
        /\ \A w \in Workers : InHand(w, s) => WasDue(s)

LEMMA WasDueStays ==
    ASSUME TypeOK, [Next]_vars, NEW s \in Sources, WasDue(s)
    PROVE  WasDue(s)'
<1> USE DEF TypeOK, WasDue
<1>1. ASSUME NEW w \in Workers, NEW r \in Sources, Record(w, r)
      PROVE  WasDue(s)'
  BY <1>1 DEF Record
<1>2. ASSUME NEW w \in Workers, NEW r \in Sources, Retry(w, r)
      PROVE  WasDue(s)'
  <2>1. CASE Owns(w, r) /\ r = s
    <3>1. attempt'[s] = readAttempt[w][s] + 1 /\ readAttempt[w][s] \in Nat
      BY <1>2, <2>1 DEF Retry
    <3>2. deleteAfter'[s] = "later"
      BY <1>2, <2>1 DEF Retry
    <3> QED BY <3>1, <3>2
  <2>2. CASE ~(Owns(w, r) /\ r = s)
    BY <1>2, <2>2 DEF Retry
  <2> QED BY <2>1, <2>2
<1>3. ASSUME NEW r \in Sources, Schedule(r) PROVE WasDue(s)'
  BY <1>3 DEF Schedule
<1>4. ASSUME NEW r \in Sources, BecomeDue(r) PROVE WasDue(s)'
  BY <1>4 DEF BecomeDue
<1>5. ASSUME UNCHANGED <<deleteAfter, attempt>> PROVE WasDue(s)'
  BY <1>5
<1> QED
  BY <1>1, <1>2, <1>3, <1>4, <1>5
     DEF Next, Sweep, ClaimLapses, ClaimBatch, NextRow, DeleteObject, Crash,
         SweepError, vars, rowVars

\* Rows come into a worker's hands by a claim, which asks for due ones.
LEMMA HandStep ==
    ASSUME TypeOK, [Next]_vars, NEW s \in Sources, NEW w \in Workers,
           InHand(w, s)', ~InHand(w, s)
    PROVE  WasDue(s)
<1> USE DEF TypeOK, InHand
<1>1. ASSUME NEW v \in Workers, ClaimBatch(v) PROVE WasDue(s)
  BY <1>1 DEF ClaimBatch, Claimable, WasDue
<1>2. ASSUME NEW v \in Workers, NextRow(v) PROVE FALSE
  BY <1>2 DEF NextRow
<1>3. ASSUME NEW v \in Workers, Crash(v) PROVE FALSE
  BY <1>3 DEF Crash
<1>4. ASSUME NEW v \in Workers, NEW r \in Sources, Record(v, r) \/ Retry(v, r)
      PROVE  FALSE
  BY <1>4 DEF Record, Retry, Done
<1> QED
  BY <1>1, <1>2, <1>3, <1>4
     DEF Next, Sweep, Schedule, BecomeDue, ClaimLapses, DeleteObject,
         SweepError, vars, localVars

\* An object is deleted by a worker that has its row in hand.
LEMMA ObjectStep ==
    ASSUME TypeOK, [Next]_vars, NEW s \in Sources, object[s], ~object'[s]
    PROVE  \E w \in Workers : InHand(w, s)
<1> USE DEF TypeOK, InHand
<1>1. ASSUME NEW w \in Workers, NEW r \in Sources,
             DeleteObject(w, r) \/ SweepError(w, r)
      PROVE  InHand(w, s)
  BY <1>1 DEF DeleteObject, SweepError
<1> QED
  BY <1>1 DEF Next, Sweep, Schedule, BecomeDue, ClaimLapses, ClaimBatch, NextRow,
              Record, Retry, Crash, vars

LEMMA WasDueStep ==
    ASSUME TypeOK, WasDueInv, [Next]_vars
    PROVE  WasDueInv'
<1>1. ASSUME NEW s \in Sources, NEW w \in Workers, InHand(w, s)'
      PROVE  WasDue(s)'
  BY <1>1, HandStep, WasDueStays DEF WasDueInv
<1>2. ASSUME NEW s \in Sources, ~object'[s] PROVE WasDue(s)'
  BY <1>2, ObjectStep, WasDueStays DEF WasDueInv
<1> QED BY <1>1, <1>2 DEF WasDueInv

\* A step that moves one original along its life is a step of the lifecycle.
LEMMA OneOriginal ==
    ASSUME NEW r \in Sources,
           \A s \in Sources : s # r => Original(s)' = Original(s),
           \/ Original(r)' = Original(r)
           \/ Original(r) = "kept" /\ Original(r)' \in {"waiting", "due"}
           \/ Original(r) = "waiting" /\ Original(r)' = "due"
           \/ Original(r) = "due" /\ Original(r)' = "deleted"
    PROVE  [Lifecycle!Next]_Originals
<1>1. Originals' = [Originals EXCEPT ![r] = Original(r)']
  BY DEF Originals
<1>2. CASE Original(r)' = Original(r)
  BY <1>2 DEF Originals
<1>3. CASE Original(r) = "kept" /\ Original(r)' \in {"waiting", "due"}
  BY <1>1, <1>3 DEF Originals, Lifecycle!Next, Lifecycle!Schedule
<1>4. CASE Original(r) = "waiting" /\ Original(r)' = "due"
  BY <1>1, <1>4 DEF Originals, Lifecycle!Next, Lifecycle!BecomeDue
<1>5. CASE Original(r) = "due" /\ Original(r)' = "deleted"
  BY <1>1, <1>5 DEF Originals, Lifecycle!Next, Lifecycle!Delete
<1> QED BY <1>2, <1>3, <1>4, <1>5

\* Every step of the sweep, of jobs and of time moves one original along its
\* life or none.
LEMMA StepIsLifecycle ==
    ASSUME RetentionInv, WasDueInv, [Next]_vars
    PROVE  [Lifecycle!Next]_Originals
<1> USE DEF RetentionInv, TypeOK
<1>1. ASSUME UNCHANGED <<object, deleteAfter, attempt>>
      PROVE  [Lifecycle!Next]_Originals
  BY <1>1 DEF Originals, Original, WasDue
<1>2. ASSUME NEW r \in Sources, Schedule(r) PROVE [Lifecycle!Next]_Originals
  <2>1. object[r] /\ ~WasDue(r) /\ deleteAfter[r] = "never"
    BY <1>2 DEF Schedule, WasDueInv, WasDue
  <2>2. \A s \in Sources : s # r => Original(s)' = Original(s)
    BY <1>2 DEF Schedule, Original, WasDue
  <2>3. Original(r) = "kept" /\ Original(r)' \in {"waiting", "due"}
    BY <1>2, <2>1 DEF Schedule, Original, WasDue
  <2> QED BY <2>2, <2>3, OneOriginal
<1>3. ASSUME NEW r \in Sources, BecomeDue(r) PROVE [Lifecycle!Next]_Originals
  <2>1. \A s \in Sources : s # r => Original(s)' = Original(s)
    BY <1>3 DEF BecomeDue, Original, WasDue
  <2>2. \/ Original(r)' = Original(r)
        \/ Original(r) = "waiting" /\ Original(r)' = "due"
    BY <1>3 DEF BecomeDue, Original, WasDue
  <2> QED BY <2>1, <2>2, OneOriginal
<1>4. ASSUME NEW w \in Workers, NEW r \in Sources,
             DeleteObject(w, r) \/ SweepError(w, r)
      PROVE  [Lifecycle!Next]_Originals
  <2>1. UNCHANGED <<deleteAfter, attempt>> /\ WasDue(r)
    BY <1>4 DEF DeleteObject, SweepError, rowVars, WasDueInv, InHand
  <2>2. object' \in {object, [object EXCEPT ![r] = FALSE]}
    BY <1>4 DEF DeleteObject, SweepError
  <2>3. \A s \in Sources : s # r => Original(s)' = Original(s)
    BY <2>1, <2>2 DEF Original, WasDue
  <2>4. \/ Original(r)' = Original(r)
        \/ Original(r) = "due" /\ Original(r)' = "deleted"
    BY <2>1, <2>2 DEF Original, WasDue
  <2> QED BY <2>3, <2>4, OneOriginal
<1>5. ASSUME NEW w \in Workers, NEW r \in Sources, Record(w, r)
      PROVE  [Lifecycle!Next]_Originals
  <2>1. ~object[r] /\ UNCHANGED <<object, deleteAfter>>
    BY <1>5 DEF Record, DeletedBeforeRecord
  <2>2. \A s \in Sources : s # r => attempt'[s] = attempt[s]
    BY <1>5 DEF Record
  <2> QED BY <2>1, <2>2, OneOriginal DEF Original, WasDue
<1>6. ASSUME NEW w \in Workers, NEW r \in Sources, Retry(w, r)
      PROVE  [Lifecycle!Next]_Originals
  <2>1. UNCHANGED object /\ WasDue(r)
    BY <1>6 DEF Retry, WasDueInv, InHand
  <2>2. WasDue(r)'
    BY <2>1, WasDueStays
  <2>3. \A s \in Sources : s # r => /\ attempt'[s] = attempt[s]
                                  /\ deleteAfter'[s] = deleteAfter[s]
    BY <1>6 DEF Retry
  <2>4. \A s \in Sources : s # r => Original(s)' = Original(s)
    BY <2>1, <2>3 DEF Original, WasDue
  <2>5. Original(r)' = Original(r)
    BY <2>1, <2>2 DEF Original
  <2> QED BY <2>4, <2>5, OneOriginal
<1> QED
  BY <1>1, <1>2, <1>3, <1>4, <1>5, <1>6
     DEF Next, Sweep, ClaimLapses, ClaimBatch, NextRow, Crash, vars, rowVars

\* Seen by a job and by its owner, an original is scheduled, becomes due and is
\* deleted, once and in this order, however sweeps overlap, fail and are tried
\* again (_delete_due_originals).
THEOREM SweepKeepsLifecycle == Spec => LifecycleKept
<1>1. Init => RetentionInv /\ WasDueInv
  BY InvInit DEF Init, WasDueInv, InHand
<1>2. Init => Lifecycle!Init
  BY DEF Init, Lifecycle!Init, Originals, Original, WasDue
<1>3. RetentionInv /\ WasDueInv /\ [Next]_vars => RetentionInv' /\ WasDueInv'
  BY InvNext, WasDueStep DEF RetentionInv
<1>4. RetentionInv /\ WasDueInv /\ [Next]_vars => [Lifecycle!Next]_Originals
  BY StepIsLifecycle
<1> QED BY <1>1, <1>2, <1>3, <1>4, PTL DEF Spec, LifecycleKept, Lifecycle!Spec
=============================================================================
