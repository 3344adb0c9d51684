--------------------------- MODULE SimpleJobProofs ---------------------------
(***************************************************************************)
(* Theorems about SimpleJob for every set of jobs, deliveries and workers, *)
(* every WORKER_MAX_ATTEMPTS and any number of faults.                     *)
(***************************************************************************)
EXTENDS SimpleJob, TLAPS

(***************************************************************************)
(* Type correctness.                                                       *)
(***************************************************************************)

Operations == Handling \union {"idle", "read", "fail", "ack"}

\* A worker that is not idle holds a delivery of some job.
LEMMA BusyHoldsJob ==
    ASSUME TypeOK, NEW w \in Workers, pc[w] # "idle"
    PROVE  msg[w] \in Messages /\ Job(w) \in Jobs
BY JobOfAssumption, SimpleJobAssumption DEF TypeOK, Job

LEMMA InitType == Init => TypeOK
<1> SUFFICES ASSUME Init PROVE TypeOK
  OBVIOUS
<1>1. StreamTypeOK
  BY DEF Init, StreamInit, StreamTypeOK
<1>2. "PENDING" \in Status /\ "none" \in Outputs
      /\ Unread \in [status : Status, attempt : Nat]
  BY DEF Status, Outputs, Unread
<1> QED BY <1>1, <1>2 DEF Init, TypeOK

\* The states and the operations that the handlers write.
LEMMA Names ==
    /\ {"PENDING", "WORKING", "VERIFYING", "FAILED_RETRYABLE", "COMPLETED",
        "FAILED_TERMINAL"} \subseteq Status
    /\ Terminal \subseteq Status
    /\ Handling \subseteq Operations \ {"idle"}
    /\ {"read", "fail", "ack", "recover", "claim", "load", "make", "verifying",
        "verify", "put", "complete"} \subseteq Operations \ {"idle"}
BY DEF Status, Terminal, Handling, Operations

\* The types of what a step says about its own worker.
HandTypeOK ==
    /\ pc \in [Workers -> Operations]
    /\ msg \in [Workers -> Messages \union {NoMessage}]
    /\ fresh \in [Workers -> BOOLEAN]
    /\ seen \in [Workers -> [status : Status, attempt : Nat]]
    /\ made \in [Workers -> Outputs]
    /\ \A w \in Workers : msg[w] = NoMessage <=> pc[w] = "idle"

LEMMA ReleaseType ==
    ASSUME TypeOK, NEW w \in Workers, Release(w)
    PROVE  HandTypeOK'
BY DEF TypeOK, HandTypeOK, Release, Goto, Operations, Status, Unread, Outputs

\* A worker that goes on with the delivery in its hand is not idle.
LEMMA GotoType ==
    ASSUME TypeOK, NEW w \in Workers, pc[w] # "idle",
           NEW op \in Operations \ {"idle"}, Goto(w, op), UNCHANGED <<msg, fresh>>,
           seen' \in [Workers -> [status : Status, attempt : Nat]],
           made' \in [Workers -> Outputs]
    PROVE  HandTypeOK'
BY DEF TypeOK, HandTypeOK, Goto, Operations

\* Taking, returning and dropping deliveries keeps the types.
LEMMA DeliveryType ==
    ASSUME TypeOK, NEW w \in Workers,
           Poll(w) \/ Acknowledge(w) \/ AcknowledgeError(w) \/ Crash(w)
    PROVE  TypeOK'
<1>1. ASSUME NEW m \in Messages, Take(w, m)
      PROVE  HandTypeOK' /\ overlapped' \in BOOLEAN /\ shared' \in BOOLEAN
  BY <1>1, SimpleJobAssumption
     DEF TypeOK, HandTypeOK, Take, Goto, Operations
<1>2. ASSUME NEW m \in Messages, ReadNew(w, m) PROVE TypeOK'
  BY <1>1, <1>2
     DEF TypeOK, HandTypeOK, StreamTypeOK, ReadNew, XReadGroup, Take, rowVars,
         Operations
<1>3. ASSUME NEW m \in Messages, Reclaim(w, m) PROVE TypeOK'
  BY <1>1, <1>3
     DEF TypeOK, HandTypeOK, StreamTypeOK, Reclaim, Take, rowVars, streamVars,
         Operations
<1>4. ASSUME AckAndDelete(msg[w]) \/ UNCHANGED streamVars
      PROVE  StreamTypeOK'
  BY <1>4 DEF TypeOK, StreamTypeOK, AckAndDelete, streamVars
<1>5. ASSUME Release(w), StreamTypeOK', UNCHANGED <<rowVars, output, claims,
             overlapped, shared>>, faults' \in Nat
      PROVE  TypeOK'
  BY <1>5, ReleaseType DEF TypeOK, HandTypeOK, Operations, rowVars
<1>6. CASE Acknowledge(w)
  <2>1. StreamTypeOK' /\ faults' \in Nat
    BY <1>4, <1>6 DEF Acknowledge, TypeOK
  <2> QED BY <1>5, <1>6, <2>1 DEF Acknowledge
<1>7. CASE AcknowledgeError(w)
  <2>1. StreamTypeOK' /\ faults' \in Nat
    BY <1>4, <1>7 DEF AcknowledgeError, TypeOK
  <2> QED BY <1>5, <1>7, <2>1 DEF AcknowledgeError
<1>8. CASE Crash(w)
  <2>1. StreamTypeOK' /\ faults' \in Nat
    BY <1>4, <1>8 DEF Crash, TypeOK
  <2> QED BY <1>5, <1>8, <2>1 DEF Crash
<1> QED BY <1>2, <1>3, <1>6, <1>7, <1>8 DEF Poll

\* Every operation of the handlers and of _fail_job keeps the types.
LEMMA HandleType ==
    ASSUME TypeOK, NEW w \in Workers, Handle(w)
    PROVE  TypeOK'
<1>1. pc[w] # "idle"
  BY DEF Handle, ReadRow, Recover, Claim, Load, Make, CapsuleEntersVerifying,
         DecompressionEntersVerifying, Verify, PutOutput, CompleteCapsule,
         CompleteDecompression, TerminalFailure, BeyondDecoding, Raise,
         Handling, FailJob
<1>2. Job(w) \in Jobs
  BY <1>1, BusyHoldsJob
<1>3. ASSUME HandTypeOK', UNCHANGED <<streamVars, kind, overlapped, shared, faults>>,
             status' \in [Jobs -> Status], attempt' \in [Jobs -> Nat],
             listed' \in [Jobs -> BOOLEAN], announced' \in [Jobs -> Nat],
             output' \in [Jobs -> Outputs], claims' \in [Jobs -> Nat]
      PROVE  TypeOK'
  BY <1>3 DEF TypeOK, HandTypeOK, StreamTypeOK, streamVars, Operations
<1>4. ASSUME NEW op \in Operations \ {"idle"}, Goto(w, op), UNCHANGED localVars
      PROVE  HandTypeOK'
  BY <1>1, <1>4, GotoType DEF TypeOK, localVars
<1>5. ASSUME NEW s \in Status, SetStatus(w, s)
      PROVE  status' \in [Jobs -> Status]
  BY <1>5 DEF TypeOK, SetStatus
<1>6. CASE ReadRow(w)
  <2>1. PICK op \in {"ack", "claim", "recover"} : Goto(w, op)
    BY <1>6 DEF ReadRow
  <2>2. seen' \in [Workers -> [status : Status, attempt : Nat]]
    BY <1>2, <1>6 DEF ReadRow, TypeOK
  <2>3. made' \in [Workers -> Outputs] /\ UNCHANGED <<msg, fresh>>
    BY <1>6 DEF ReadRow, TypeOK
  <2>4. HandTypeOK'
    BY <1>1, <2>1, <2>2, <2>3, GotoType, Names
  <2> QED BY <1>3, <1>6, <2>4 DEF ReadRow, rowVars, TypeOK
<1>7. CASE Recover(w)
  <2>1. NextAttempt(w) \in Nat
    BY DEF NextAttempt, TypeOK
  <2>2. attempt' \in [Jobs -> Nat]
    BY <1>7, <2>1 DEF Recover, TypeOK
  <2>3. /\ seen' \in [Workers -> [status : Status, attempt : Nat]]
        /\ made' \in [Workers -> Outputs]
    BY <1>7 DEF Recover, Unread, Status, TypeOK
  <2>4. HandTypeOK' /\ status' \in [Jobs -> Status]
    BY <1>1, <1>5, <1>7, <2>3, GotoType, Names DEF Recover
  <2> QED BY <1>3, <1>7, <2>2, <2>4 DEF Recover, TypeOK
<1>8. CASE Claim(w)
  <2>1. HandTypeOK'
    BY <1>4, <1>8, Names DEF Claim
  <2>2. status' \in [Jobs -> Status] /\ claims' \in [Jobs -> Nat]
    BY <1>5, <1>8, Names DEF Claim, TypeOK
  <2> QED BY <1>3, <1>8, <2>1, <2>2 DEF Claim, TypeOK
<1>9. CASE Load(w) \/ Verify(w)
  <2>1. HandTypeOK'
    BY <1>4, <1>9, Names DEF Load, Verify
  <2> QED BY <1>3, <1>9, <2>1 DEF Load, Verify, rowVars, TypeOK
<1>9a. CASE Raise(w)
  <2>1. /\ seen' \in [Workers -> [status : Status, attempt : Nat]]
        /\ made' \in [Workers -> Outputs]
    BY <1>9a DEF Raise, Unread, Status, Outputs, TypeOK
  <2>2. HandTypeOK'
    BY <1>1, <1>9a, <2>1, GotoType, Names DEF Raise
  <2> QED BY <1>3, <1>9a, <2>2 DEF Raise, rowVars, TypeOK
<1>10. CASE Make(w)
  <2>1. made' \in [Workers -> Outputs]
    BY <1>10 DEF Make, Outputs, TypeOK
  <2>2. HandTypeOK'
    BY <1>1, <1>10, <2>1, GotoType, Names DEF Make, TypeOK
  <2> QED BY <1>3, <1>10, <2>2 DEF Make, rowVars, TypeOK
<1>11. CASE CapsuleEntersVerifying(w) \/ DecompressionEntersVerifying(w)
  <2>1. HandTypeOK' /\ status' \in [Jobs -> Status]
    BY <1>4, <1>5, <1>11, Names
       DEF CapsuleEntersVerifying, DecompressionEntersVerifying, TypeOK
  <2> QED BY <1>3, <1>11, <2>1
          DEF CapsuleEntersVerifying, DecompressionEntersVerifying, TypeOK
<1>12. CASE PutOutput(w)
  <2>1. made' \in [Workers -> Outputs]
    BY <1>12 DEF PutOutput, Outputs, TypeOK
  <2>2. HandTypeOK'
    BY <1>1, <1>12, <2>1, GotoType, Names DEF PutOutput, TypeOK
  <2>3. output' \in [Jobs -> Outputs]
    BY <1>12 DEF PutOutput, TypeOK
  <2> QED BY <1>3, <1>12, <2>2, <2>3 DEF PutOutput, rowVars, TypeOK
<1>13. CASE CompleteCapsule(w) \/ CompleteDecompression(w)
  <2>1. HandTypeOK' /\ status' \in [Jobs -> Status]
    BY <1>4, <1>5, <1>13, Names DEF CompleteCapsule, CompleteDecompression, TypeOK
  <2>2. listed' \in [Jobs -> BOOLEAN]
    BY <1>13 DEF CompleteCapsule, CompleteDecompression, TypeOK
  <2>3. announced' = announced
        \/ announced' = [announced EXCEPT ![Job(w)] = announced[Job(w)] + 1]
    BY <1>13 DEF CompleteCapsule, CompleteDecompression
  <2>4. announced' \in [Jobs -> Nat]
    BY <1>2, <2>3 DEF TypeOK
  <2> QED BY <1>3, <1>13, <2>1, <2>2, <2>4
          DEF CompleteCapsule, CompleteDecompression, TypeOK
<1>14. CASE TerminalFailure(w)
  <2>1. HandTypeOK' /\ status' \in [Jobs -> Status]
    BY <1>4, <1>5, <1>14, Names DEF TerminalFailure
  <2> QED BY <1>3, <1>14, <2>1 DEF TerminalFailure, TypeOK
<1>15. CASE FailJob(w)
  <2>1. status[Job(w)] \in Status
    BY <1>2 DEF TypeOK
  <2>2. PICK s \in Status :
            SetStatus(w, s) /\ AfterFailure(w, s)
    BY <1>15, <2>1, Names DEF FailJob
  <2>3. HandTypeOK'
    BY <1>4, <2>2, ReleaseType, Names DEF AfterFailure
  <2>4. attempt' \in [Jobs -> Nat]
    BY <1>2, <1>15 DEF FailJob, TypeOK
  <2> QED BY <1>3, <1>5, <1>15, <2>2, <2>3, <2>4 DEF FailJob, TypeOK
<1> QED BY <1>6, <1>7, <1>8, <1>9, <1>9a, <1>10, <1>11, <1>12, <1>13, <1>14,
           <1>15
        DEF Handle

LEMMA PublishType ==
    ASSUME TypeOK, NEW m \in Messages, Publish(m)
    PROVE  TypeOK'
BY DEF TypeOK, StreamTypeOK, Publish, XAdd, rowVars, localVars

LEMMA TypeInvariant == TypeOK /\ [Next]_vars => TypeOK'
<1> SUFFICES ASSUME TypeOK, [Next]_vars PROVE TypeOK'
  OBVIOUS
<1>1. CASE UNCHANGED vars
  BY <1>1
     DEF vars, streamVars, rowVars, localVars, TypeOK, StreamTypeOK
<1> QED BY <1>1, DeliveryType, HandleType, PublishType DEF Next

\* Every reachable state of the capsule and decompression handlers is well
\* typed.
THEOREM TypeCorrect == Spec => []TypeOK
BY InitType, TypeInvariant, PTL DEF Spec

(***************************************************************************)
(* What holds however the handlers of one job overlap: the attempt counter *)
(* is bounded, only a verified output is stored, and the entries of a      *)
(* capsule pay for its one announcement.                                   *)
(***************************************************************************)

\* A worker about to recover has read an open row with an attempt to spare.
AttemptInv ==
    /\ \A j \in Jobs :
        /\ attempt[j] <= MaxAttempts
        /\ attempt[j] = MaxAttempts => status[j] = "FAILED_TERMINAL"
    /\ \A w \in Workers : pc[w] = "recover" =>
        /\ seen[w].attempt < MaxAttempts
        /\ seen[w].status \notin Terminal \union {"PENDING"}

\* What a worker is about to put is verified, and one that completes has put it.
OutputInv ==
    /\ CompletedOutputVerified
    /\ \A w \in Workers :
        /\ pc[w] = "put" => made[w] = "sound"
        /\ pc[w] = "complete" => output[Job(w)] = "sound"

\* A capsule without entries has not been announced.
ListedInv ==
    \A j \in Jobs : kind[j] = "capsule" =>
        /\ announced[j] <= 1
        /\ ~listed[j] => announced[j] = 0

BaseInv == AttemptInv /\ OutputInv /\ ListedInv

LEMMA InitBase == Init => BaseInv
BY SimpleJobAssumption
   DEF Init, BaseInv, AttemptInv, OutputInv, ListedInv, CompletedOutputVerified

\* A step that takes, returns or drops a delivery concerns no row and no other
\* worker.
LEMMA DeliveryShape ==
    ASSUME TypeOK, NEW w \in Workers,
           Poll(w) \/ Acknowledge(w) \/ AcknowledgeError(w) \/ Crash(w)
    PROVE  /\ UNCHANGED <<kind, status, attempt, listed, announced, output,
                         claims>>
           /\ pc'[w] \in {"read", "idle"}
           /\ \A v \in Workers \ {w} :
                /\ pc'[v] = pc[v] /\ msg'[v] = msg[v]
                /\ seen'[v] = seen[v] /\ made'[v] = made[v]
BY DEF TypeOK, Poll, ReadNew, Reclaim, Take, Acknowledge, AcknowledgeError,
       Crash, Release, Goto, rowVars

\* A step of a handler concerns the job in hand and no other worker.
LEMMA HandleShape ==
    ASSUME TypeOK, NEW w \in Workers, Handle(w)
    PROVE  /\ pc[w] # "idle"
           /\ UNCHANGED <<streamVars, kind, overlapped, shared>>
           /\ \A v \in Workers \ {w} :
                /\ pc'[v] = pc[v] /\ msg'[v] = msg[v]
                /\ seen'[v] = seen[v] /\ made'[v] = made[v]
           /\ \A j \in Jobs \ {Job(w)} :
                /\ status'[j] = status[j] /\ attempt'[j] = attempt[j]
                /\ listed'[j] = listed[j] /\ announced'[j] = announced[j]
                /\ output'[j] = output[j] /\ claims'[j] = claims[j]
<1>1. CASE ReadRow(w) \/ Load(w) \/ Make(w) \/ Verify(w) \/ PutOutput(w)
           \/ Raise(w)
  BY <1>1 DEF TypeOK, ReadRow, Load, Make, Verify, PutOutput, Raise, Goto,
              rowVars, localVars, Handling
<1>2. CASE Recover(w) \/ Claim(w) \/ CapsuleEntersVerifying(w)
           \/ DecompressionEntersVerifying(w) \/ TerminalFailure(w)
  BY <1>2 DEF TypeOK, Recover, Claim, CapsuleEntersVerifying,
              DecompressionEntersVerifying, TerminalFailure, BeyondDecoding,
              Goto, SetStatus, localVars
<1>3. CASE CompleteCapsule(w) \/ CompleteDecompression(w)
  BY <1>3 DEF TypeOK, CompleteCapsule, CompleteDecompression, Goto, SetStatus,
              localVars
<1>4. CASE FailJob(w)
  BY <1>4 DEF TypeOK, FailJob, AfterFailure, Release, Goto, SetStatus,
              localVars
<1> QED BY <1>1, <1>2, <1>3, <1>4 DEF Handle

LEMMA DeliveryBase ==
    ASSUME TypeOK, BaseInv, NEW w \in Workers,
           Poll(w) \/ Acknowledge(w) \/ AcknowledgeError(w) \/ Crash(w)
    PROVE  BaseInv'
<1>1. AttemptInv'
  BY DeliveryShape DEF BaseInv, AttemptInv
<1>2. OutputInv'
  <2>1. CompletedOutputVerified'
    BY DeliveryShape DEF BaseInv, OutputInv, CompletedOutputVerified
  <2> QED BY <2>1, DeliveryShape DEF BaseInv, OutputInv, Job
<1>3. ListedInv'
  BY DeliveryShape DEF BaseInv, ListedInv
<1> QED BY <1>1, <1>2, <1>3 DEF BaseInv

LEMMA HandleAttempts ==
    ASSUME TypeOK, AttemptInv, NEW w \in Workers, Handle(w)
    PROVE  AttemptInv'
<1>1. pc[w] # "idle" /\ Job(w) \in Jobs
  BY HandleShape, BusyHoldsJob
<1>2. ASSUME /\ attempt'[Job(w)] <= MaxAttempts
             /\ attempt'[Job(w)] = MaxAttempts
                    => status'[Job(w)] = "FAILED_TERMINAL",
             pc'[w] # "recover"
      PROVE  AttemptInv'
  BY <1>1, <1>2, HandleShape DEF AttemptInv
<1>3. attempt[Job(w)] \in Nat /\ MaxAttempts \in Nat
  BY <1>1, SimpleJobAssumption DEF TypeOK
<1>4. CASE ReadRow(w)
  <2>1. UNCHANGED <<status, attempt>>
    BY <1>4 DEF ReadRow, rowVars
  <2>2. pc'[w] = "recover" =>
          /\ seen'[w] = [status |-> status[Job(w)], attempt |-> attempt[Job(w)]]
          /\ status[Job(w)] \notin Terminal \union {"PENDING"}
    BY <1>4 DEF ReadRow, Goto, TypeOK
  <2>3. pc'[w] = "recover" => attempt[Job(w)] < MaxAttempts
    BY <1>1, <1>3, <2>2 DEF AttemptInv, Terminal
  <2> QED BY <1>1, <2>1, <2>2, <2>3, HandleShape DEF AttemptInv
<1>5. CASE Recover(w)
  <2>1. NextAttempt(w) \in Nat /\ NextAttempt(w) <= MaxAttempts
    BY <1>3, <1>5 DEF Recover, NextAttempt, AttemptInv, TypeOK
  <2>2. attempt'[Job(w)] = NextAttempt(w)
    BY <1>1, <1>5 DEF Recover, TypeOK
  <2>3. NextAttempt(w) >= MaxAttempts => status'[Job(w)] = "FAILED_TERMINAL"
    BY <1>1, <1>5 DEF Recover, SetStatus, TypeOK
  <2>4. pc'[w] # "recover"
    BY <1>5 DEF Recover, Goto, TypeOK
  <2> QED BY <1>2, <1>3, <2>1, <2>2, <2>3, <2>4
<1>6. CASE FailJob(w)
  <2>1. pc'[w] \in {"ack", "idle"}
    BY <1>6 DEF FailJob, AfterFailure, Release, Goto, TypeOK
  <2>2. CASE status[Job(w)] \in Terminal
    BY <1>1, <1>2, <1>6, <2>1, <2>2 DEF FailJob, SetStatus, AttemptInv, TypeOK
  <2>3. CASE status[Job(w)] \notin Terminal
    <3>1. attempt[Job(w)] < MaxAttempts
      BY <1>1, <1>3, <2>3 DEF AttemptInv, Terminal
    <3>2. attempt'[Job(w)] = attempt[Job(w)] + 1
      BY <1>1, <1>6, <2>3 DEF FailJob, TypeOK
    <3>3. attempt[Job(w)] + 1 >= MaxAttempts
             => status'[Job(w)] = "FAILED_TERMINAL"
      BY <1>1, <1>6, <2>3 DEF FailJob, SetStatus, TypeOK
    <3> QED BY <1>2, <1>3, <2>1, <3>1, <3>2, <3>3
  <2> QED BY <2>2, <2>3
<1>7. CASE Load(w) \/ Make(w) \/ Verify(w) \/ PutOutput(w) \/ Raise(w)
  <2>1. UNCHANGED <<status, attempt>> /\ pc'[w] # "recover"
    BY <1>7 DEF Load, Make, Verify, PutOutput, Raise, Goto, rowVars, TypeOK
  <2> QED BY <1>1, <1>2, <2>1 DEF AttemptInv
<1>8. CASE \/ Claim(w)
           \/ CapsuleEntersVerifying(w) \/ DecompressionEntersVerifying(w)
           \/ CompleteCapsule(w) \/ CompleteDecompression(w)
  <2>1. UNCHANGED attempt /\ pc'[w] # "recover"
    BY <1>8 DEF Claim, CapsuleEntersVerifying, DecompressionEntersVerifying,
                CompleteCapsule, CompleteDecompression, Goto, TypeOK
  <2>2. status'[Job(w)] = status[Job(w)]
        \/ status[Job(w)] \in {"PENDING", "WORKING", "VERIFYING"}
    BY <1>8 DEF Claim, CapsuleEntersVerifying, DecompressionEntersVerifying,
                CompleteCapsule, CapsuleCanComplete, CompleteDecompression
  <2> QED BY <1>1, <1>2, <2>1, <2>2 DEF AttemptInv
<1>9. CASE TerminalFailure(w)
  <2>1. UNCHANGED attempt /\ pc'[w] # "recover"
        /\ status'[Job(w)] = "FAILED_TERMINAL"
    BY <1>1, <1>9 DEF TerminalFailure, Goto, SetStatus, TypeOK
  <2> QED BY <1>1, <1>2, <2>1 DEF AttemptInv
<1> QED BY <1>4, <1>5, <1>6, <1>7, <1>8, <1>9 DEF Handle

LEMMA HandleOutput ==
    ASSUME TypeOK, OutputInv, NEW w \in Workers, Handle(w)
    PROVE  OutputInv'
<1>1. pc[w] # "idle" /\ Job(w) \in Jobs
  BY HandleShape, BusyHoldsJob
<1>2. ASSUME UNCHANGED output,
             status'[Job(w)] = "COMPLETED" => status[Job(w)] = "COMPLETED",
             pc'[w] \notin {"put", "complete"}
      PROVE  OutputInv'
  <2>1. CompletedOutputVerified'
    BY <1>1, <1>2, HandleShape DEF OutputInv, CompletedOutputVerified
  <2> QED BY <1>2, <2>1, HandleShape DEF OutputInv, Job
<1>3. CASE ReadRow(w) \/ Load(w) \/ Make(w) \/ Raise(w)
  BY <1>2, <1>3 DEF ReadRow, Load, Make, Raise, Goto, rowVars, TypeOK
<1>4. CASE \/ Recover(w) \/ Claim(w) \/ TerminalFailure(w)
           \/ CapsuleEntersVerifying(w) \/ DecompressionEntersVerifying(w)
  <2>1. UNCHANGED output /\ pc'[w] \notin {"put", "complete"}
    BY <1>4 DEF Recover, Claim, CapsuleEntersVerifying,
                DecompressionEntersVerifying, TerminalFailure, Goto, TypeOK
  <2>2. status'[Job(w)] = "COMPLETED" => status[Job(w)] = "COMPLETED"
    BY <1>1, <1>4
       DEF Recover, Claim, CapsuleEntersVerifying, DecompressionEntersVerifying,
           TerminalFailure, SetStatus, TypeOK
  <2> QED BY <1>2, <2>1, <2>2
<1>5. CASE FailJob(w)
  <2>1. UNCHANGED output /\ pc'[w] \notin {"put", "complete"}
    BY <1>5 DEF FailJob, AfterFailure, Release, Goto, TypeOK
  <2>2. status'[Job(w)] = "COMPLETED" => status[Job(w)] = "COMPLETED"
    BY <1>1, <1>5 DEF FailJob, SetStatus, TypeOK, Terminal
  <2> QED BY <1>2, <2>1, <2>2
<1>6. CASE Verify(w)
  <2>1. UNCHANGED <<output, status, msg, made>> /\ made[w] = "sound"
        /\ pc' = [pc EXCEPT ![w] = "put"]
    BY <1>6 DEF Verify, Goto, rowVars, localVars
  <2>2. CompletedOutputVerified'
    BY <2>1 DEF OutputInv, CompletedOutputVerified
  <2> QED BY <2>1, <2>2 DEF OutputInv, Job, TypeOK
<1>7. CASE PutOutput(w)
  <2>1. UNCHANGED <<status, msg>>
        /\ made' = [made EXCEPT ![w] = "none"]
        /\ pc' = [pc EXCEPT ![w] = "complete"]
        /\ output' = [output EXCEPT ![Job(w)] = "sound"]
    BY <1>7 DEF PutOutput, OutputInv, Goto, rowVars, localVars
  <2>2. CompletedOutputVerified'
    BY <2>1 DEF OutputInv, CompletedOutputVerified, TypeOK
  <2>3. ASSUME NEW v \in Workers, pc'[v] = "complete"
        PROVE  output'[Job(v)] = "sound"
    <3>1. pc[v] # "idle" /\ Job(v) \in Jobs
      BY <1>1, <2>1, <2>3, BusyHoldsJob DEF TypeOK
    <3>2. v = w \/ pc[v] = "complete"
      BY <2>1, <2>3 DEF TypeOK
    <3> QED BY <2>1, <3>1, <3>2 DEF OutputInv, TypeOK
  <2>4. \A v \in Workers : pc'[v] = "put" => made'[v] = "sound"
    BY <2>1 DEF OutputInv, TypeOK
  <2>5. \A v \in Workers : Job(v)' = Job(v)
    BY <2>1 DEF Job
  <2> QED BY <2>2, <2>3, <2>4, <2>5 DEF OutputInv
<1>8. CASE CompleteCapsule(w) \/ CompleteDecompression(w)
  <2>1. UNCHANGED <<output, msg, made>> /\ pc'[w] \notin {"put", "complete"}
    BY <1>8 DEF CompleteCapsule, CompleteDecompression, Goto, localVars, TypeOK
  <2>2. output[Job(w)] = "sound"
    BY <1>8 DEF CompleteCapsule, CompleteDecompression, OutputInv
  <2>3. CompletedOutputVerified'
    BY <1>1, <2>1, <2>2, HandleShape DEF OutputInv, CompletedOutputVerified
  <2> QED BY <2>1, <2>3, HandleShape DEF OutputInv, Job
<1> QED BY <1>3, <1>4, <1>5, <1>6, <1>7, <1>8 DEF Handle

LEMMA HandleListed ==
    ASSUME TypeOK, ListedInv, NEW w \in Workers, Handle(w)
    PROVE  ListedInv'
<1>1. pc[w] # "idle" /\ Job(w) \in Jobs
  BY HandleShape, BusyHoldsJob
<1>2. CASE CompleteCapsule(w)
  <2>1. CASE CapsuleCanComplete(w)
    <3>1. listed'[Job(w)] /\ announced'[Job(w)] = announced[Job(w)] + 1
      BY <1>1, <1>2, <2>1 DEF CompleteCapsule, TypeOK
    <3>2. announced[Job(w)] = 0
      BY <1>1, <1>2, <2>1
         DEF CompleteCapsule, CapsuleCanComplete, IsCapsule, ListedInv
    <3> QED BY <1>1, <3>1, <3>2, HandleShape DEF ListedInv
  <2>2. CASE ~CapsuleCanComplete(w)
    BY <1>2, <2>2 DEF CompleteCapsule, ListedInv
  <2> QED BY <2>1, <2>2
<1>3. CASE CompleteDecompression(w)
  <2>1. kind[Job(w)] # "capsule"
    BY <1>3 DEF CompleteDecompression, IsCapsule
  <2> QED BY <1>1, <2>1, HandleShape DEF ListedInv
<1>4. CASE UNCHANGED <<kind, listed, announced>>
  BY <1>4 DEF ListedInv
<1> QED
  BY <1>2, <1>3, <1>4
     DEF Handle, ReadRow, Recover, Claim, Load, Make, CapsuleEntersVerifying,
         DecompressionEntersVerifying, Verify, PutOutput, TerminalFailure,
         Raise, FailJob, rowVars

LEMMA BaseInvariant == TypeOK /\ BaseInv /\ [Next]_vars => BaseInv'
<1> SUFFICES ASSUME TypeOK, BaseInv, [Next]_vars PROVE BaseInv'
  OBVIOUS
<1>1. ASSUME NEW w \in Workers, Handle(w) PROVE BaseInv'
  BY <1>1, HandleAttempts, HandleOutput, HandleListed DEF BaseInv
<1>2. CASE UNCHANGED <<rowVars, output, pc, localVars>>
  BY <1>2 DEF BaseInv, AttemptInv, OutputInv, ListedInv,
              CompletedOutputVerified, Job, rowVars, localVars
<1>3. ASSUME NEW m \in Messages, Publish(m) PROVE BaseInv'
  BY <1>2, <1>3 DEF Publish
<1>4. CASE UNCHANGED vars
  BY <1>2, <1>4 DEF vars
<1> QED BY <1>1, <1>3, <1>4, DeliveryBase DEF Next

LEMMA BaseAlways == Spec => [](TypeOK /\ BaseInv)
<1>1. Init => TypeOK /\ BaseInv
  BY InitType, InitBase
<1>2. TypeOK /\ BaseInv /\ [Next]_vars => (TypeOK /\ BaseInv)'
  BY TypeInvariant, BaseInvariant
<1> QED BY <1>1, <1>2, PTL DEF Spec

\* The object stored for a COMPLETED capsule or decompression job was verified,
\* whichever of several overlapping runs put it there last.
THEOREM CompletedOutputVerifiedHolds == Spec => []CompletedOutputVerified
<1>1. BaseInv => CompletedOutputVerified
  BY DEF BaseInv, OutputInv
<1> QED BY <1>1, BaseAlways, PTL

(***************************************************************************)
(* What holds as long as no two handlers of one job overlap: each handler  *)
(* is alone with its row and finds it as it left it, although recovery,    *)
(* the terminal failure and half of the updates do not look.               *)
(***************************************************************************)

Alone ==
    \A v, w \in Workers :
        (msg[v] # NoMessage /\ msg[w] # NoMessage /\ Job(v) = Job(w)) => v = w

\* The row is what the handler's last step made or read of it.
RowAgrees(w) ==
    /\ pc[w] = "recover" => /\ status[Job(w)] = seen[w].status
                            /\ attempt[Job(w)] = seen[w].attempt
    /\ pc[w] = "claim" => status[Job(w)] = "PENDING"
    /\ pc[w] \in {"load", "make", "verifying"} => status[Job(w)] = "WORKING"
    /\ pc[w] \in {"verify", "put", "complete"} => status[Job(w)] = "VERIFYING"

\* A waiting job has paid an attempt for every claim, a running one owes one.
Ledger(j) ==
    /\ announced[j] = IF status[j] = "COMPLETED" THEN 1 ELSE 0
    /\ status[j] \in {"PENDING", "FAILED_RETRYABLE"} => claims[j] <= attempt[j]
    /\ status[j] \in {"WORKING", "VERIFYING"} => claims[j] <= attempt[j] + 1
    /\ claims[j] <= MaxAttempts

ExclusiveInv ==
    ~overlapped =>
        /\ Alone
        /\ \A w \in Workers : RowAgrees(w)
        /\ \A j \in Jobs : Ledger(j)

LEMMA InitExclusive == Init => ExclusiveInv
BY SimpleJobAssumption DEF Init, ExclusiveInv, Alone, RowAgrees, Ledger

LEMMA TakeAlone ==
    ASSUME TypeOK, Alone, NEW w \in Workers, NEW m \in Messages, Take(w, m),
           ~overlapped'
    PROVE  Alone'
<1>1. ASSUME NEW v \in Workers \ {w}, msg[v] # NoMessage
      PROVE  Job(v) # JobOf[m]
  BY <1>1 DEF Take, InProgress
<1>2. msg' = [msg EXCEPT ![w] = m]
  BY DEF Take
<1> QED BY <1>1, <1>2 DEF Alone, Job, TypeOK

LEMMA DeliveryExclusive ==
    ASSUME TypeOK, ExclusiveInv, NEW w \in Workers,
           Poll(w) \/ Acknowledge(w) \/ AcknowledgeError(w) \/ Crash(w)
    PROVE  ExclusiveInv'
<1> SUFFICES ASSUME ~overlapped'
             PROVE  /\ Alone'
                    /\ \A v \in Workers : RowAgrees(v)'
                    /\ \A j \in Jobs : Ledger(j)'
  BY DEF ExclusiveInv
<1>1. ~overlapped
  BY DEF Poll, ReadNew, Reclaim, Take, Acknowledge, AcknowledgeError, Crash
<1>2. Alone'
  <2>1. ASSUME NEW m \in Messages, Take(w, m) PROVE Alone'
    BY <1>1, <2>1, TakeAlone DEF ExclusiveInv
  <2>2. CASE Release(w)
    BY <1>1, <2>2, SimpleJobAssumption DEF Release, ExclusiveInv, Alone, Job, TypeOK
  <2> QED BY <2>1, <2>2
          DEF Poll, ReadNew, Reclaim, Acknowledge, AcknowledgeError, Crash
<1>3. ASSUME NEW v \in Workers PROVE RowAgrees(v)'
  BY <1>1, DeliveryShape DEF ExclusiveInv, RowAgrees, Job
<1>4. ASSUME NEW j \in Jobs PROVE Ledger(j)'
  BY <1>1, DeliveryShape DEF ExclusiveInv, Ledger
<1> QED BY <1>2, <1>3, <1>4

\* The step of the handler that is alone with its row.
LEMMA HandleExclusive ==
    ASSUME TypeOK, AttemptInv, ExclusiveInv, NEW w \in Workers, Handle(w)
    PROVE  ExclusiveInv'
<1> SUFFICES ASSUME ~overlapped'
             PROVE  /\ Alone'
                    /\ \A v \in Workers : RowAgrees(v)'
                    /\ \A j \in Jobs : Ledger(j)'
  BY DEF ExclusiveInv
<1>1. ~overlapped
  BY HandleShape
<1>2. /\ Alone /\ RowAgrees(w)
      /\ \A v \in Workers : RowAgrees(v)
      /\ \A j \in Jobs : Ledger(j)
  BY <1>1 DEF ExclusiveInv
<1>3. pc[w] # "idle" /\ Job(w) \in Jobs /\ msg[w] # NoMessage
  BY HandleShape, BusyHoldsJob, SimpleJobAssumption
<1>4. /\ msg'[w] \in {msg[w], NoMessage}
      /\ pc'[w] # "idle" => msg'[w] = msg[w]
  BY <1>3 DEF Handle, ReadRow, Recover, Claim, Load, Make, CapsuleEntersVerifying,
     DecompressionEntersVerifying, Verify, PutOutput, CompleteCapsule,
     CompleteDecompression, TerminalFailure, Raise, FailJob, AfterFailure,
     Release, Goto, localVars, TypeOK
<1>5. PICK j \in Jobs : j = Job(w)
  BY <1>3
<1>6. /\ attempt[j] \in Nat /\ claims[j] \in Nat /\ announced[j] \in Nat
      /\ status[j] \in Status /\ MaxAttempts \in Nat
  BY SimpleJobAssumption DEF TypeOK
<1>7. /\ attempt[j] <= MaxAttempts
      /\ status[j] \notin Terminal => attempt[j] < MaxAttempts
  BY <1>6 DEF AttemptInv, Terminal
<1>8. Alone'
  BY <1>2, <1>4, HandleShape DEF Alone, Job
<1>9. ASSUME NEW v \in Workers \ {w} PROVE RowAgrees(v)'
  <2>1. /\ pc'[v] = pc[v] /\ seen'[v] = seen[v] /\ Job(v)' = Job(v)
    BY HandleShape DEF Job
  <2>2. CASE pc[v] = "idle"
    BY <2>1, <2>2 DEF RowAgrees
  <2>3. CASE pc[v] # "idle"
    <3>1. Job(v) \in Jobs /\ msg[v] # NoMessage
      BY <2>3, BusyHoldsJob, SimpleJobAssumption
    <3>2. Job(v) # Job(w)
      BY <1>2, <1>3, <3>1 DEF Alone
    <3> QED BY <1>2, <2>1, <3>1, <3>2, HandleShape DEF RowAgrees
  <2> QED BY <2>2, <2>3
\* What is left to show of each operation: its own worker and its own row.
<1>10. ASSUME RowAgrees(w)', Ledger(j)'
       PROVE  /\ \A v \in Workers : RowAgrees(v)'
              /\ \A i \in Jobs : Ledger(i)'
  <2>1. ASSUME NEW i \in Jobs \ {j} PROVE Ledger(i)'
    BY <1>2, <1>5, HandleShape DEF Ledger
  <2> QED BY <1>9, <1>10, <2>1
<1>11. /\ RowAgrees(w) /\ Ledger(j)
       /\ pc'[w] # "idle" => Job(w)' = j
  BY <1>2, <1>4, <1>5 DEF Job
<1>12. ASSUME /\ status'[j] = status[j] /\ attempt'[j] = attempt[j]
              /\ announced'[j] = announced[j] /\ claims'[j] = claims[j]
       PROVE  Ledger(j)'
  BY <1>11, <1>12 DEF Ledger
<1>13. CASE ReadRow(w)
  <2>1. /\ UNCHANGED rowVars /\ UNCHANGED claims
        /\ pc'[w] \in {"ack", "claim", "recover"}
        /\ pc'[w] = "claim" => status[j] = "PENDING"
        /\ pc'[w] = "recover" =>
              seen'[w] = [status |-> status[j], attempt |-> attempt[j]]
    BY <1>5, <1>13 DEF ReadRow, Goto, TypeOK
  <2>2. RowAgrees(w)'
    BY <1>11, <2>1 DEF RowAgrees, rowVars
  <2> QED BY <1>8, <1>10, <1>12, <2>1, <2>2 DEF rowVars
<1>14. CASE Recover(w)
  <2>1. /\ status[j] = seen[w].status /\ attempt[j] = seen[w].attempt
        /\ seen[w].status \notin Terminal \union {"PENDING"}
    BY <1>5, <1>11, <1>14 DEF Recover, RowAgrees, AttemptInv
  <2>2. /\ attempt'[j] = NextAttempt(w)
        /\ announced'[j] = announced[j] /\ claims'[j] = claims[j]
    BY <1>5, <1>14 DEF Recover, TypeOK
  <2>3. \/ status'[j] = "FAILED_TERMINAL" /\ pc'[w] = "ack"
        \/ status'[j] = "PENDING" /\ pc'[w] = "claim"
    BY <1>5, <1>14 DEF Recover, Goto, SetStatus, TypeOK
  <2>4. claims[j] <= NextAttempt(w)
    BY <1>6, <1>11, <2>1 DEF NextAttempt, Ledger, Status, Terminal
  <2>5. Ledger(j)'
    BY <1>11, <2>1, <2>2, <2>3, <2>4 DEF Ledger, Terminal
  <2>6. RowAgrees(w)'
    BY <1>11, <2>3 DEF RowAgrees
  <2> QED BY <1>8, <1>10, <2>5, <2>6
<1>15. CASE Claim(w)
  <2>1. status[j] = "PENDING"
    BY <1>5, <1>11, <1>15 DEF Claim, RowAgrees
  <2>2. /\ status'[j] = "WORKING" /\ attempt'[j] = attempt[j]
        /\ announced'[j] = announced[j] /\ claims'[j] = claims[j] + 1
        /\ pc'[w] = "load"
    BY <1>5, <1>15, <2>1 DEF Claim, Goto, SetStatus, TypeOK
  <2>3. Ledger(j)'
    BY <1>6, <1>7, <1>11, <2>1, <2>2 DEF Ledger, Terminal
  <2>4. RowAgrees(w)'
    BY <1>11, <2>2 DEF RowAgrees
  <2> QED BY <1>8, <1>10, <2>3, <2>4
<1>16. CASE Load(w) \/ Make(w) \/ Verify(w) \/ PutOutput(w) \/ Raise(w)
  <2>1. UNCHANGED rowVars /\ UNCHANGED claims
    BY <1>16 DEF Load, Make, Verify, PutOutput, Raise
  <2>2. \/ pc[w] \in {"load", "make"} /\ pc'[w] \in {"make", "verifying"}
        \/ pc[w] \in {"verify", "put"} /\ pc'[w] \in {"put", "complete"}
        \/ pc'[w] = "fail"
    BY <1>16 DEF Load, Make, Verify, PutOutput, Raise, Goto, TypeOK
  <2>3. RowAgrees(w)'
    BY <1>5, <1>11, <2>1, <2>2 DEF RowAgrees, rowVars
  <2> QED BY <1>8, <1>10, <1>12, <2>1, <2>3 DEF rowVars
<1>17. CASE CapsuleEntersVerifying(w) \/ DecompressionEntersVerifying(w)
  <2>1. status[j] = "WORKING"
    BY <1>5, <1>11, <1>17
       DEF CapsuleEntersVerifying, DecompressionEntersVerifying, RowAgrees
  <2>2. /\ status'[j] = "VERIFYING" /\ attempt'[j] = attempt[j]
        /\ announced'[j] = announced[j] /\ claims'[j] = claims[j]
        /\ pc'[w] = "verify"
    BY <1>5, <1>17, <2>1
       DEF CapsuleEntersVerifying, DecompressionEntersVerifying, Goto,
           SetStatus, TypeOK
  <2>3. Ledger(j)'
    BY <1>11, <2>1, <2>2 DEF Ledger
  <2>4. RowAgrees(w)'
    BY <1>11, <2>2 DEF RowAgrees
  <2> QED BY <1>8, <1>10, <2>3, <2>4
<1>18. CASE CompleteCapsule(w) \/ CompleteDecompression(w)
  <2>1. status[j] = "VERIFYING"
    BY <1>5, <1>11, <1>18
       DEF CompleteCapsule, CompleteDecompression, RowAgrees
  <2>2. /\ attempt'[j] = attempt[j] /\ claims'[j] = claims[j]
        /\ pc'[w] \in {"ack", "fail"}
    BY <1>18 DEF CompleteCapsule, CompleteDecompression, Goto, TypeOK
  <2>3. \/ announced'[j] = announced[j] /\ status'[j] = status[j]
        \/ announced'[j] = announced[j] + 1 /\ status'[j] = "COMPLETED"
    BY <1>5, <1>18, <2>1
       DEF CompleteCapsule, CompleteDecompression, SetStatus, TypeOK
  <2>4. Ledger(j)'
    BY <1>11, <2>1, <2>2, <2>3 DEF Ledger
  <2>5. RowAgrees(w)'
    BY <2>2 DEF RowAgrees
  <2> QED BY <1>8, <1>10, <2>4, <2>5
<1>19. CASE TerminalFailure(w)
  <2>1. status[j] \in {"WORKING", "VERIFYING"}
    BY <1>5, <1>11, <1>19 DEF TerminalFailure, BeyondDecoding, RowAgrees
  <2>2. /\ status'[j] = "FAILED_TERMINAL" /\ attempt'[j] = attempt[j]
        /\ announced'[j] = announced[j] /\ claims'[j] = claims[j]
        /\ pc'[w] = "ack"
    BY <1>5, <1>19 DEF TerminalFailure, Goto, SetStatus, TypeOK
  <2>3. Ledger(j)'
    BY <1>11, <2>1, <2>2 DEF Ledger
  <2>4. RowAgrees(w)'
    BY <2>2 DEF RowAgrees
  <2> QED BY <1>8, <1>10, <2>3, <2>4
<1>20. CASE FailJob(w)
  <2>1. /\ announced'[j] = announced[j] /\ claims'[j] = claims[j]
    BY <1>20 DEF FailJob
  <2>2. pc'[w] \in {"ack", "idle"}
    BY <1>20 DEF FailJob, AfterFailure, Release, Goto, TypeOK
  <2>3. RowAgrees(w)'
    BY <2>2 DEF RowAgrees
  <2>4. CASE status[j] \in Terminal
    <3>1. status'[j] = status[j] /\ attempt'[j] = attempt[j]
      BY <1>5, <1>20, <2>4 DEF FailJob, SetStatus, TypeOK
    <3> QED BY <1>8, <1>10, <1>12, <2>1, <2>3, <3>1
  <2>5. CASE status[j] \notin Terminal
    <3>1. /\ attempt'[j] = attempt[j] + 1
          /\ status'[j] \in {"FAILED_RETRYABLE", "FAILED_TERMINAL"}
      BY <1>5, <1>20, <2>5 DEF FailJob, SetStatus, TypeOK
    <3>2. claims[j] <= attempt[j] + 1
      BY <1>6, <1>11, <2>5 DEF Ledger, Status, Terminal
    <3>3. Ledger(j)'
      BY <1>11, <2>1, <2>5, <3>1, <3>2 DEF Ledger, Terminal
    <3> QED BY <1>8, <1>10, <2>3, <3>3
  <2> QED BY <2>4, <2>5
<1> QED BY <1>13, <1>14, <1>15, <1>16, <1>17, <1>18, <1>19, <1>20 DEF Handle

LEMMA ExclusiveInvariant ==
    TypeOK /\ AttemptInv /\ ExclusiveInv /\ [Next]_vars => ExclusiveInv'
<1> SUFFICES ASSUME TypeOK, AttemptInv, ExclusiveInv, [Next]_vars
             PROVE  ExclusiveInv'
  OBVIOUS
<1>1. CASE UNCHANGED <<rowVars, output, pc, localVars, claims, overlapped>>
  BY <1>1 DEF ExclusiveInv, Alone, RowAgrees, Ledger, Job, rowVars, localVars
<1>2. ASSUME NEW m \in Messages, Publish(m) PROVE ExclusiveInv'
  BY <1>1, <1>2 DEF Publish
<1>3. CASE UNCHANGED vars
  BY <1>1, <1>3 DEF vars
<1> QED BY <1>2, <1>3, DeliveryExclusive, HandleExclusive DEF Next

ReachableInv == TypeOK /\ BaseInv /\ ExclusiveInv

LEMMA ReachableInitially == Init => ReachableInv
BY InitType, InitBase, InitExclusive DEF ReachableInv

LEMMA ReachableStep == ReachableInv /\ [Next]_vars => ReachableInv'
BY TypeInvariant, BaseInvariant, ExclusiveInvariant DEF ReachableInv, BaseInv

LEMMA ReachableAlways == Spec => []ReachableInv
BY ReachableInitially, ReachableStep, PTL DEF Spec

\* A completion is announced exactly when the job is COMPLETED unless two
\* handlers of it have overlapped, and the completion of a capsule is never
\* announced twice.
THEOREM CompletionAnnouncedOnceHolds == Spec => []CompletionAnnouncedOnce
<1>1. ReachableInv => CompletionAnnouncedOnce
  BY DEF ReachableInv, BaseInv, ListedInv, ExclusiveInv, Ledger,
         CompletionAnnouncedOnce
<1> QED BY <1>1, ReachableAlways, PTL

\* The attempt counter never passes WORKER_MAX_ATTEMPTS, an exhausted job is
\* FAILED_TERMINAL, and without overlap no job is started more often.
THEOREM AttemptsBoundedHolds == Spec => []AttemptsBounded
<1>1. ReachableInv => AttemptsBounded
  BY DEF ReachableInv, BaseInv, AttemptInv, ExclusiveInv, Ledger,
         AttemptsBounded
<1> QED BY <1>1, ReachableAlways, PTL

\* Once two handlers have overlapped, the history variable remembers it.
LEMMA OverlapRemembered == [Next]_vars /\ overlapped => overlapped'
<1> SUFFICES ASSUME [Next]_vars, overlapped PROVE overlapped'
  OBVIOUS
<1>1. ASSUME NEW w \in Workers, Handle(w) PROVE UNCHANGED overlapped
  BY <1>1 DEF Handle, ReadRow, Recover, Claim, Load, Make, CapsuleEntersVerifying,
     DecompressionEntersVerifying, Verify, PutOutput, CompleteCapsule,
     CompleteDecompression, TerminalFailure, Raise, FailJob
<1>2. CASE UNCHANGED vars
  BY <1>2 DEF vars
<1> QED BY <1>1, <1>2 DEF Next, Publish, Poll, ReadNew, Reclaim, Take,
                          Acknowledge, AcknowledgeError, Crash

VerdictKept ==
    \A j \in Jobs : (~overlapped' /\ status[j] \in Terminal)
        => status'[j] = status[j]

\* No operation of a handler that is alone with its row finds it finished.
LEMMA VerdictStep == ReachableInv /\ [Next]_vars => VerdictKept
<1> SUFFICES ASSUME ReachableInv, [Next]_vars, ~overlapped',
                    NEW j \in Jobs, status[j] \in Terminal
             PROVE  status'[j] = status[j]
  BY DEF VerdictKept
<1>1. TypeOK /\ AttemptInv /\ \A w \in Workers : RowAgrees(w)
  BY OverlapRemembered DEF ReachableInv, BaseInv, ExclusiveInv
<1>2. ASSUME NEW w \in Workers, Handle(w), j = Job(w)
      PROVE  status'[j] = status[j]
  <2>1. ASSUME \/ Recover(w) \/ Claim(w) \/ TerminalFailure(w)
               \/ CapsuleEntersVerifying(w) \/ DecompressionEntersVerifying(w)
               \/ CompleteCapsule(w) \/ CompleteDecompression(w)
        PROVE  FALSE
    <3>1. CASE Recover(w)
      BY <1>1, <1>2, <3>1 DEF Recover, RowAgrees, AttemptInv
    <3>2. CASE Claim(w)
      BY <1>1, <1>2, <3>2 DEF Claim, RowAgrees, Terminal
    <3>3. CASE TerminalFailure(w)
      BY <1>1, <1>2, <3>3 DEF TerminalFailure, BeyondDecoding, RowAgrees, Terminal
    <3>4. CASE CapsuleEntersVerifying(w) \/ DecompressionEntersVerifying(w)
      BY <1>1, <1>2, <3>4
         DEF CapsuleEntersVerifying, DecompressionEntersVerifying, RowAgrees,
             Terminal
    <3>5. CASE CompleteCapsule(w) \/ CompleteDecompression(w)
      BY <1>1, <1>2, <3>5
         DEF CompleteCapsule, CompleteDecompression, RowAgrees, Terminal
    <3> QED BY <2>1, <3>1, <3>2, <3>3, <3>4, <3>5
  <2>2. CASE FailJob(w)
    BY <1>1, <1>2, <2>2 DEF FailJob, SetStatus, TypeOK
  <2>3. CASE UNCHANGED status
    BY <2>3
  <2> QED BY <1>2, <2>1, <2>2, <2>3
          DEF Handle, ReadRow, Load, Make, Verify, PutOutput, Raise, rowVars
<1>3. CASE UNCHANGED status
  BY <1>3
<1>4. ASSUME NEW w \in Workers, Handle(w) PROVE status'[j] = status[j]
  BY <1>1, <1>2, <1>4, HandleShape
<1>5. ASSUME NEW m \in Messages, Publish(m) PROVE UNCHANGED status
  BY <1>5 DEF Publish, rowVars
<1>6. ASSUME UNCHANGED vars PROVE UNCHANGED status
  BY <1>6 DEF vars, rowVars
<1> QED BY <1>1, <1>3, <1>4, <1>5, <1>6, DeliveryShape DEF Next

\* A step of a handler that is not in the middle of its run: it reads the row,
\* raises or records a failure.
LEMMA OutsideRun ==
    ASSUME TypeOK, NEW w \in Workers, Handle(w), pc[w] \notin Handling,
           status[Job(w)] \in Terminal
    PROVE  UNCHANGED status /\ pc'[w] \in {"ack", "fail", "idle"}
<1>1. ReadRow(w) \/ Raise(w) \/ FailJob(w)
  BY DEF Handle, Handling, Recover, Claim, Load, Make, CapsuleEntersVerifying,
     DecompressionEntersVerifying, Verify, PutOutput, CompleteCapsule,
     CompleteDecompression, TerminalFailure, BeyondDecoding
<1>2. CASE ReadRow(w)
  BY <1>2 DEF ReadRow, Goto, Terminal, TypeOK, rowVars
<1>3. CASE Raise(w)
  BY <1>3 DEF Raise, Goto, TypeOK, rowVars
<1>4. CASE FailJob(w)
  <2>1. status' = [status EXCEPT ![Job(w)] = status[Job(w)]]
        /\ AfterFailure(w, status[Job(w)])
    BY <1>4 DEF FailJob, SetStatus
  <2> QED BY <2>1 DEF AfterFailure, Goto, TypeOK
<1> QED BY <1>1, <1>2, <1>3, <1>4

\* A handler that goes on does so with the delivery it has.
LEMMA HandleKeepsHand ==
    ASSUME TypeOK, NEW w \in Workers, Handle(w), pc'[w] \in Handling
    PROVE  UNCHANGED msg
<1>1. CASE FailJob(w)
  BY <1>1 DEF FailJob, AfterFailure, Release, Goto, TypeOK, Handling
<1>2. CASE ~FailJob(w)
  BY <1>2 DEF Handle, ReadRow, Recover, Claim, Load, Make,
     CapsuleEntersVerifying, DecompressionEntersVerifying, Verify, PutOutput,
     CompleteCapsule, CompleteDecompression, TerminalFailure, Raise, localVars
<1> QED BY <1>1, <1>2

StandingKept ==
    \A j \in Jobs : VerdictStands(j) => VerdictStands(j)' /\ status'[j] = status[j]

\* A handler can undo only a verdict that came after it had read the row.
LEMMA StandingStep == TypeOK /\ [Next]_vars => StandingKept
<1> SUFFICES ASSUME TypeOK, [Next]_vars, NEW j \in Jobs, VerdictStands(j)
             PROVE  VerdictStands(j)' /\ status'[j] = status[j]
  BY DEF StandingKept
<1>1. ASSUME UNCHANGED <<status, pc, msg>>
      PROVE  VerdictStands(j)' /\ status'[j] = status[j]
  BY <1>1 DEF VerdictStands, Job
<1>2. ASSUME NEW w \in Workers,
             Poll(w) \/ Acknowledge(w) \/ AcknowledgeError(w) \/ Crash(w)
      PROVE  VerdictStands(j)' /\ status'[j] = status[j]
  BY <1>2, DeliveryShape DEF VerdictStands, Job, Handling
<1>3. ASSUME NEW w \in Workers, Handle(w)
      PROVE  VerdictStands(j)' /\ status'[j] = status[j]
  <2>1. /\ pc[w] # "idle" /\ Job(w) \in Jobs
        /\ \A v \in Workers \ {w} : pc'[v] = pc[v] /\ Job(v)' = Job(v)
    BY <1>3, HandleShape, BusyHoldsJob DEF Job
  <2>2. CASE Job(w) = j
    BY <1>3, <2>1, <2>2, OutsideRun DEF VerdictStands, Handling
  <2>3. CASE Job(w) # j
    <3>1. pc'[w] \in Handling => Job(w)' = Job(w)
      BY <1>3, HandleKeepsHand DEF Job
    <3> QED BY <1>3, <2>1, <2>3, <3>1, HandleShape DEF VerdictStands
  <2> QED BY <2>2, <2>3
<1>4. ASSUME NEW m \in Messages, Publish(m) PROVE UNCHANGED <<status, pc, msg>>
  BY <1>4 DEF Publish, rowVars, localVars
<1>5. ASSUME UNCHANGED vars PROVE UNCHANGED <<status, pc, msg>>
  BY <1>5 DEF vars, rowVars, localVars
<1> QED BY <1>1, <1>2, <1>3, <1>4, <1>5 DEF Next

\* Without overlap COMPLETED and FAILED_TERMINAL are final, although neither
\* recovery nor a terminal failure looks at the status it replaces; with
\* overlap they are once no handler is left that read the row before.
THEOREM VerdictIsFinalHolds == Spec => VerdictIsFinal
<1>1. ReachableInv /\ [Next]_vars
        => [\A j \in Jobs :
              /\ (~overlapped' /\ status[j] \in Terminal) => status'[j] = status[j]
              /\ VerdictStands(j) => VerdictStands(j)' /\ status'[j] = status[j]]_vars
  BY VerdictStep, StandingStep DEF ReachableInv, VerdictKept, StandingKept
<1> QED BY <1>1, ReachableAlways, PTL DEF Spec, VerdictIsFinal

(***************************************************************************)
(* No acknowledgement loses a job, however the handlers of different       *)
(* deliveries overlap: an open job keeps an entry that nobody is about to  *)
(* acknowledge.  This fails once one delivery is in two hands.             *)
(***************************************************************************)

\* An entry in hand is pending, and in one hand only.
HandsInv ==
    /\ pending \subseteq entries /\ entries \subseteq sent
    /\ \A w \in Workers : pc[w] # "idle" => msg[w] \in pending
    /\ \A v, w \in Workers :
        (pc[v] # "idle" /\ pc[w] # "idle" /\ msg[v] = msg[w]) => v = w

\* Entry n stays in the stream whatever the next step is.
Stays(n) == n \in entries /\ \A w \in Workers : msg[w] = n => pc[w] # "ack"

CoveredInv ==
    \A m \in sent : status[JobOf[m]] \in Terminal
        \/ \E n \in Messages : JobOf[n] = JobOf[m] /\ Stays(n)

StreamInv == ~shared => HandsInv /\ CoveredInv

LEMMA InitStream == Init => StreamInv
BY DEF Init, StreamInit, StreamInv, HandsInv, CoveredInv

LEMMA TakeStream ==
    ASSUME TypeOK, StreamInv, NEW w \in Workers, NEW m \in Messages,
           ReadNew(w, m) \/ Reclaim(w, m)
    PROVE  StreamInv'
<1> SUFFICES ASSUME ~shared' PROVE HandsInv' /\ CoveredInv'
  BY DEF StreamInv
<1>0. /\ HandsInv /\ CoveredInv
      /\ \A v \in Workers \ {w} : msg[v] # m
  BY DEF ReadNew, Reclaim, Take, StreamInv
<1>1. /\ pc[w] = "idle" /\ msg[w] = NoMessage
      /\ msg' = [msg EXCEPT ![w] = m] /\ pc' = [pc EXCEPT ![w] = "read"]
      /\ UNCHANGED <<status, entries, sent>>
      /\ m \in entries /\ pending' = pending \union {m}
  BY <1>0 DEF ReadNew, XReadGroup, Undelivered, Reclaim, Take, Goto, TypeOK,
         streamVars, rowVars, HandsInv
<1>2. \A v \in Workers : pc[v] # "idle" => msg[v] # m
  BY <1>0, <1>1
<1>3. HandsInv'
  BY <1>0, <1>1, <1>2 DEF HandsInv, TypeOK
<1>4. ASSUME NEW n \in Messages, Stays(n) PROVE Stays(n)'
  BY <1>1, <1>4, SimpleJobAssumption DEF Stays, TypeOK
<1>5. CoveredInv'
  BY <1>0, <1>1, <1>4 DEF CoveredInv
<1> QED BY <1>3, <1>5

LEMMA PublishStream ==
    ASSUME TypeOK, StreamInv, NEW m \in Messages, Publish(m)
    PROVE  StreamInv'
<1> SUFFICES ASSUME ~shared' PROVE HandsInv' /\ CoveredInv'
  BY DEF StreamInv
<1>0. HandsInv /\ CoveredInv
  BY DEF Publish, StreamInv
<1>1. /\ UNCHANGED <<status, pc, msg, pending>> /\ m \notin sent
      /\ sent' = sent \union {m} /\ entries' = entries \union {m}
  BY DEF Publish, XAdd, rowVars, localVars
<1>2. HandsInv'
  BY <1>0, <1>1 DEF HandsInv
<1>3. ASSUME NEW n \in Messages, Stays(n) PROVE Stays(n)'
  BY <1>1, <1>3 DEF Stays
<1>4. Stays(m)'
  <2>1. \A w \in Workers : pc[w] # "idle" => msg[w] # m
    BY <1>0, <1>1 DEF HandsInv
  <2> QED BY <1>1, <2>1 DEF Stays
<1>5. CoveredInv'
  BY <1>0, <1>1, <1>3, <1>4 DEF CoveredInv
<1> QED BY <1>2, <1>5

\* A worker lets go of its delivery; the entry is removed only if the worker
\* was about to acknowledge it.
LEMMA LetGoStream ==
    ASSUME TypeOK, StreamInv, NEW w \in Workers,
           Acknowledge(w) \/ AcknowledgeError(w) \/ Crash(w)
    PROVE  StreamInv'
<1> SUFFICES ASSUME ~shared' PROVE HandsInv' /\ CoveredInv'
  BY DEF StreamInv
<1>0. HandsInv /\ CoveredInv
  BY DEF Acknowledge, AcknowledgeError, Crash, StreamInv
<1>1. /\ msg' = [msg EXCEPT ![w] = NoMessage]
      /\ pc' = [pc EXCEPT ![w] = "idle"]
      /\ UNCHANGED <<status, sent>> /\ pc[w] # "idle"
  BY DEF Acknowledge, AcknowledgeError, Crash, Release, Goto, rowVars,
         streamVars, AckAndDelete
<1>2. \/ UNCHANGED <<entries, pending>>
      \/ /\ pc[w] = "ack"
         /\ entries' = entries \ {msg[w]} /\ pending' = pending \ {msg[w]}
  BY DEF Acknowledge, AcknowledgeError, Crash, AckAndDelete, streamVars
<1>3. ASSUME NEW v \in Workers \ {w}, pc[v] # "idle" PROVE msg[v] # msg[w]
  BY <1>0, <1>1, <1>3 DEF HandsInv
<1>4. HandsInv'
  BY <1>0, <1>1, <1>2, <1>3 DEF HandsInv, TypeOK
<1>5. ASSUME NEW n \in Messages, Stays(n) PROVE Stays(n)'
  BY <1>1, <1>2, <1>5, SimpleJobAssumption DEF Stays, TypeOK
<1>6. CoveredInv'
  BY <1>0, <1>1, <1>5 DEF CoveredInv
<1> QED BY <1>4, <1>6

\* What a handler does to its row, and whether it keeps its delivery.  It
\* acknowledges a finished row only, starts or continues a run only on a row
\* that is not finished, and returns a delivery only with FAILED_RETRYABLE.
RowStep(w, s) ==
    /\ status' = [status EXCEPT ![Job(w)] = s]
    /\ Phase(s) = "active" => status[Job(w)] \notin Terminal
    /\ pc'[w] = "ack" => s \in Terminal
    /\ \/ pc'[w] # "idle" /\ UNCHANGED msg
       \/ /\ pc'[w] = "idle" /\ msg' = [msg EXCEPT ![w] = NoMessage]
          /\ s = "FAILED_RETRYABLE" /\ status[Job(w)] \notin Terminal

LEMMA Phases ==
    /\ \A s \in Status : /\ Phase(s) \in {"open", "active", "settled"}
                         /\ Phase(s) = "settled" <=> s \in Terminal
    /\ Phase("PENDING") = "open" /\ Phase("FAILED_RETRYABLE") = "open"
BY DEF Phase, Status, Terminal

LEMMA HandleRow ==
    ASSUME TypeOK, NEW w \in Workers, Handle(w)
    PROVE  \E s \in Status : RowStep(w, s)
<1> DEFINE j == Job(w)
<1>0. pc[w] # "idle" /\ j \in Jobs /\ status[j] \in Status
  BY HandleShape, BusyHoldsJob DEF TypeOK
<1>1. ASSUME UNCHANGED <<status, msg>>, pc'[w] # "idle",
             pc'[w] = "ack" => status[j] \in Terminal
      PROVE  \E s \in Status : RowStep(w, s)
  <2>1. status' = [status EXCEPT ![j] = status[j]]
    BY <1>0, <1>1 DEF TypeOK
  <2> QED BY <1>0, <1>1, <2>1, Phases DEF RowStep
<1>2. ASSUME NEW s \in Status, SetStatus(w, s), UNCHANGED msg, pc'[w] # "idle",
             s \in Terminal \/ (pc'[w] # "ack" /\ (s = "PENDING" \/ status[j] \notin Terminal))
      PROVE  \E t \in Status : RowStep(w, t)
  BY <1>2, Phases DEF RowStep, SetStatus
<1>3. CASE ReadRow(w) \/ Load(w) \/ Make(w) \/ Verify(w) \/ PutOutput(w) \/ Raise(w)
  <2>1. /\ UNCHANGED <<status, msg>> /\ pc'[w] # "idle"
        /\ pc'[w] = "ack" => status[j] \in Terminal
    BY <1>0, <1>3
       DEF ReadRow, Load, Make, Verify, PutOutput, Raise, Goto, rowVars,
           localVars, TypeOK
  <2> QED BY <1>1, <2>1
<1>4. CASE Recover(w)
  <2>1. /\ UNCHANGED msg
        /\ \/ SetStatus(w, "FAILED_TERMINAL") /\ pc'[w] = "ack"
           \/ SetStatus(w, "PENDING") /\ pc'[w] = "claim"
    BY <1>4 DEF Recover, Goto, TypeOK
  <2>2. "FAILED_TERMINAL" \in Terminal
    BY DEF Terminal
  <2> QED BY <1>2, <2>1, <2>2, Names
<1>5. CASE Claim(w) \/ CapsuleEntersVerifying(w) \/ DecompressionEntersVerifying(w)
  <2>1. /\ UNCHANGED msg /\ pc'[w] \in {"load", "verify", "fail"}
        /\ \/ UNCHANGED status
           \/ /\ status[j] \in {"PENDING", "WORKING"}
              /\ SetStatus(w, "WORKING") \/ SetStatus(w, "VERIFYING")
    BY <1>5 DEF Claim, CapsuleEntersVerifying, DecompressionEntersVerifying,
       Goto, localVars, TypeOK
  <2>2. "PENDING" \notin Terminal /\ "WORKING" \notin Terminal
    BY DEF Terminal
  <2> QED BY <1>1, <1>2, <2>1, <2>2, Names
<1>6. CASE CompleteCapsule(w) \/ CompleteDecompression(w) \/ TerminalFailure(w)
  <2>1. /\ UNCHANGED msg
        /\ \/ UNCHANGED status /\ pc'[w] = "fail"
           \/ SetStatus(w, "COMPLETED") /\ pc'[w] = "ack"
           \/ SetStatus(w, "FAILED_TERMINAL") /\ pc'[w] = "ack"
    BY <1>6 DEF CompleteCapsule, CompleteDecompression, TerminalFailure, Goto,
       localVars, TypeOK
  <2>2. "FAILED_TERMINAL" \in Terminal /\ "COMPLETED" \in Terminal
    BY DEF Terminal
  <2> QED BY <1>1, <1>2, <2>1, <2>2, Names
<1>7. CASE FailJob(w)
  <2>1. PICK s \in {status[j], "FAILED_TERMINAL", "FAILED_RETRYABLE"} :
          /\ SetStatus(w, s) /\ AfterFailure(w, s)
          /\ status[j] \in Terminal => s = status[j]
          /\ status[j] \notin Terminal => s \in {"FAILED_TERMINAL", "FAILED_RETRYABLE"}
    BY <1>7 DEF FailJob
  <2>2. CASE s \in Terminal
    <3>1. UNCHANGED msg /\ pc'[w] = "ack" /\ s \in Status
      BY <1>0, <2>1, <2>2, Names DEF AfterFailure, Goto, localVars, TypeOK
    <3> QED BY <1>2, <2>1, <2>2, <3>1
  <2>3. CASE s \notin Terminal
    <3>1. pc'[w] = "idle" /\ msg' = [msg EXCEPT ![w] = NoMessage]
      BY <2>1, <2>3 DEF AfterFailure, Release, Goto, TypeOK
    <3>2. s = "FAILED_RETRYABLE" /\ status[j] \notin Terminal
      BY <2>1, <2>3 DEF Terminal
    <3> QED BY <2>1, <3>1, <3>2, Names, Phases DEF RowStep, SetStatus
  <2> QED BY <2>2, <2>3
<1> QED BY <1>3, <1>4, <1>5, <1>6, <1>7 DEF Handle

LEMMA HandleEnd ==
    ASSUME TypeOK, NEW w \in Workers, Handle(w)
    PROVE  /\ pc'[w] = "ack" => status'[Job(w)] \in Terminal
           /\ \/ pc'[w] # "idle" /\ msg'[w] = msg[w]
              \/ pc'[w] = "idle" /\ msg'[w] = NoMessage
<1>1. Job(w) \in Jobs
  BY HandleShape, BusyHoldsJob
<1>2. PICK s \in Status : RowStep(w, s)
  BY HandleRow
<1> QED BY <1>1, <1>2 DEF RowStep, TypeOK

LEMMA HandleStream ==
    ASSUME TypeOK, StreamInv, NEW w \in Workers, Handle(w)
    PROVE  StreamInv'
<1> SUFFICES ASSUME ~shared' PROVE HandsInv' /\ CoveredInv'
  BY DEF StreamInv
<1>0. HandsInv /\ CoveredInv
  BY HandleShape DEF StreamInv
<1>1. /\ pc[w] # "idle" /\ Job(w) \in Jobs /\ msg[w] \in Messages
      /\ UNCHANGED <<sent, entries, pending>>
  BY HandleShape, BusyHoldsJob DEF streamVars
<1>2. /\ \A v \in Workers \ {w} : pc'[v] = pc[v] /\ msg'[v] = msg[v]
      /\ \A j \in Jobs \ {Job(w)} : status'[j] = status[j]
  BY HandleShape
<1>3. HandsInv'
  BY <1>0, <1>1, <1>2, HandleEnd DEF HandsInv
<1>4. ASSUME NEW m \in sent', status'[JobOf[m]] \notin Terminal
      PROVE  \E n \in Messages : JobOf[n] = JobOf[m] /\ Stays(n)'
  <2>1. m \in Messages /\ JobOf[m] \in Jobs
    BY <1>1, JobOfAssumption DEF TypeOK, StreamTypeOK
  <2>2. CASE JobOf[m] = Job(w)
    <3>1. PICK n \in Messages : n = msg[w]
      BY <1>1
    <3>2. pc'[w] # "ack"
      BY <1>4, <2>2, HandleEnd
    <3>3. ASSUME NEW v \in Workers \ {w}, msg'[v] = n PROVE pc'[v] # "ack"
      BY <1>0, <1>1, <1>2, <3>1, <3>3 DEF HandsInv
    <3>4. n \in entries'
      BY <1>0, <1>1, <3>1 DEF HandsInv
    <3>5. Stays(n)'
      BY <3>2, <3>3, <3>4 DEF Stays
    <3> QED BY <2>2, <3>1, <3>5 DEF Job
  <2>3. CASE JobOf[m] # Job(w)
    <3>1. status[JobOf[m]] \notin Terminal
      BY <1>2, <1>4, <2>1, <2>3
    <3>2. PICK n \in Messages : JobOf[n] = JobOf[m] /\ Stays(n)
      BY <1>0, <1>1, <3>1 DEF CoveredInv
    <3>3. n # msg[w]
      BY <2>3, <3>2 DEF Job
    <3>4. Stays(n)'
      BY <1>1, <1>2, <3>2, <3>3, HandleEnd, SimpleJobAssumption DEF Stays
    <3> QED BY <3>2, <3>4
  <2> QED BY <2>2, <2>3
<1> QED BY <1>3, <1>4 DEF CoveredInv

LEMMA StreamStep == TypeOK /\ StreamInv /\ [Next]_vars => StreamInv'
<1> SUFFICES ASSUME TypeOK, StreamInv, [Next]_vars PROVE StreamInv'
  OBVIOUS
<1>1. CASE UNCHANGED vars
  BY <1>1 DEF vars, streamVars, rowVars, localVars, StreamInv, HandsInv,
              CoveredInv, Stays
<1> QED BY <1>1, TakeStream, PublishStream, LetGoStream, HandleStream
        DEF Next, Poll

\* A delivery is acknowledged only when its job is finished or another entry
\* of the stream carries the job, whichever handlers overlap and whatever
\* crashes, as long as no delivery was ever in two hands.
THEOREM AckedOnlyWhenFinishedHolds == Spec => []AckedOnlyWhenFinished
<1>1. TypeOK /\ StreamInv => AckedOnlyWhenFinished
  BY DEF StreamInv, CoveredInv, Stays, AckedOnlyWhenFinished
<1>2. Init => TypeOK /\ StreamInv
  BY InitType, InitStream
<1>3. TypeOK /\ StreamInv /\ [Next]_vars => (TypeOK /\ StreamInv)'
  BY TypeInvariant, StreamStep
<1> QED BY <1>1, <1>2, <1>3, PTL DEF Spec

(***************************************************************************)
(* The delivery rules: every step of a handler, seen from the stream, is   *)
(* one that DeliveryHandling allows.                                       *)
(***************************************************************************)

\* The job rows as DeliveryHandling sees them.
PhaseView == [j \in Jobs |-> Phase(status[j])]

LEMMA PhaseOfStep ==
    ASSUME TypeOK, NEW j \in Jobs, NEW s, status' = [status EXCEPT ![j] = s]
    PROVE  PhaseView' = [PhaseView EXCEPT ![j] = Phase(s)]
BY DEF PhaseView, TypeOK

LEMMA HandEmptied ==
    ASSUME TypeOK, HandsInv, NEW w \in Workers, pc[w] # "idle",
           msg' = [msg EXCEPT ![w] = NoMessage]
    PROVE  InHand' = InHand \ {msg[w]}
<1>1. \A v \in Workers : msg'[v] = IF v = w THEN NoMessage ELSE msg[v]
  BY DEF TypeOK
<1>2. ASSUME NEW v \in Workers \ {w} PROVE msg[v] # msg[w]
  BY <1>2 DEF HandsInv, TypeOK
<1>3. ASSUME NEW m PROVE m \in InHand' <=> m \in InHand \ {msg[w]}
  BY <1>1, <1>2 DEF InHand
<1> QED BY <1>3

\* A handling step works on the row, gives the delivery back, or does nothing.
LEMMA HandleIsDelivery ==
    ASSUME TypeOK, HandsInv, NEW w \in Workers, Handle(w)
    PROVE  Delivery!Work(msg[w]) \/ Delivery!GiveBack(msg[w]) \/ UNCHANGED Delivery!vars
<1> DEFINE j == Job(w)
<1>1. /\ j \in Jobs /\ pc[w] # "idle" /\ msg[w] \in InHand /\ UNCHANGED streamVars
  BY HandleShape, BusyHoldsJob, SimpleJobAssumption DEF InHand
<1>2. PICK s \in Status : RowStep(w, s)
  BY HandleRow
<1> j = JobOf[msg[w]]
  BY DEF Job
<1> HIDE DEF j
<1>3. /\ PhaseView' = [PhaseView EXCEPT ![j] = Phase(s)]
      /\ status[j] \in Status /\ PhaseView[j] = Phase(status[j])
      /\ PhaseView \in [Jobs -> {"open", "active", "settled"}]
  BY <1>1, <1>2, PhaseOfStep, Phases DEF PhaseView, TypeOK, RowStep, j
<1>4. CASE UNCHANGED msg
  <2>1. UNCHANGED InHand
    BY <1>4 DEF InHand
  <2>2. CASE Phase(s) = PhaseView[j]
    <3>1. UNCHANGED PhaseView
      BY <1>1, <1>3, <2>2
    <3> QED BY <1>1, <2>1, <3>1
            DEF Delivery!vars, Delivery!streamVars, streamVars, PhaseView
  <2>3. CASE Phase(s) # PhaseView[j]
    <3>1. Phase(s) = "active" => Phase(status[j]) # "settled"
      BY <1>2, <1>3, Phases DEF RowStep, j
    <3>2. <<PhaseView[j], Phase(s)>> \in Delivery!RowSteps
          /\ Phase(s) \in {"open", "active", "settled"}
      BY <1>3, <2>3, <3>1, Phases DEF Delivery!RowSteps
    <3> QED BY <1>1, <1>3, <2>1, <3>2
            DEF Delivery!Work, Delivery!streamVars, streamVars, PhaseView
  <2> QED BY <2>2, <2>3
<1>5. CASE /\ msg' = [msg EXCEPT ![w] = NoMessage]
           /\ s = "FAILED_RETRYABLE" /\ status[j] \notin Terminal
  <2>1. InHand' = InHand \ {msg[w]}
    BY <1>1, <1>5, HandEmptied
  <2>2. Phase(s) = "open" /\ PhaseView[j] \in {"open", "active"}
    BY <1>3, <1>5, Phases
  <2>3. \/ UNCHANGED PhaseView
        \/ PhaseView[j] = "active" /\ PhaseView' = [PhaseView EXCEPT ![j] = "open"]
    BY <1>1, <1>3, <2>2
  <2> QED BY <1>1, <2>1, <2>3
          DEF Delivery!GiveBack, Delivery!streamVars, streamVars, PhaseView
<1> QED BY <1>2, <1>4, <1>5 DEF RowStep, j

\* Taking a delivery nobody else has.
LEMMA TakeIsDelivery ==
    ASSUME TypeOK, group, NEW w \in Workers, NEW m \in Messages,
           ReadNew(w, m) \/ Reclaim(w, m), ~shared'
    PROVE  Delivery!Deliver(m)
<1>1. /\ pc[w] = "idle" /\ msg' = [msg EXCEPT ![w] = m] /\ UNCHANGED status
      /\ \A v \in Workers \ {w} : msg[v] # m
      /\ XReadGroup(m) \/ (m \in pending /\ UNCHANGED streamVars)
  BY DEF ReadNew, Reclaim, Take, rowVars
<1>2. msg[w] = NoMessage /\ m # NoMessage
  BY <1>1, SimpleJobAssumption DEF TypeOK
<1>3. InHand' = InHand \union {m} /\ m \notin InHand
  BY <1>1, <1>2 DEF InHand, TypeOK
<1> QED BY <1>1, <1>3
        DEF Delivery!Deliver, Delivery!XReadGroup, Delivery!Undelivered, XReadGroup,
            Undelivered, Delivery!streamVars, streamVars

\* Letting go of one: acknowledged only if the job can do without it.
LEMMA LetGoIsDelivery ==
    ASSUME TypeOK, HandsInv, CoveredInv, NEW w \in Workers,
           Acknowledge(w) \/ AcknowledgeError(w) \/ Crash(w)
    PROVE  Delivery!GiveBack(msg[w]) \/ Delivery!Acknowledge(msg[w])
<1>1. /\ pc[w] # "idle" /\ msg' = [msg EXCEPT ![w] = NoMessage] /\ UNCHANGED status
      /\ UNCHANGED streamVars \/ (pc[w] = "ack" /\ AckAndDelete(msg[w]))
  BY DEF Acknowledge, AcknowledgeError, Crash, Release, rowVars
<1>2. /\ msg[w] \in InHand /\ InHand' = InHand \ {msg[w]}
      /\ msg[w] \in sent /\ JobOf[msg[w]] \in Jobs
  BY <1>1, HandEmptied, BusyHoldsJob, SimpleJobAssumption DEF InHand, HandsInv, Job
<1>3. CASE UNCHANGED streamVars
  BY <1>1, <1>2, <1>3 DEF Delivery!GiveBack, Delivery!streamVars, streamVars
<1>4. CASE pc[w] = "ack" /\ AckAndDelete(msg[w])
  <2>1. \/ status[JobOf[msg[w]]] \in Terminal
        \/ \E n \in entries \ {msg[w]} : JobOf[n] = JobOf[msg[w]]
    BY <1>2, <1>4 DEF CoveredInv, Stays
  <2>2. Delivery!MayAcknowledge(msg[w])
    BY <1>2, <2>1 DEF Delivery!MayAcknowledge, Phase, Terminal
  <2> QED BY <1>1, <1>2, <1>4, <2>2
          DEF Delivery!Acknowledge, Delivery!AckAndDelete, AckAndDelete
<1> QED BY <1>1, <1>3, <1>4

LEMMA StepIsDelivery ==
    ASSUME TypeOK, group, StreamInv, [Next]_vars, ~shared'
    PROVE  Delivery!Next \/ UNCHANGED Delivery!vars
<1>1. ~shared
  BY HandleShape DEF Next, Poll, ReadNew, Reclaim, Take, Publish, Acknowledge,
     AcknowledgeError, Crash, vars
<1>2. HandsInv /\ CoveredInv
  BY <1>1 DEF StreamInv
<1>3. ASSUME UNCHANGED <<status, msg, streamVars>> PROVE UNCHANGED Delivery!vars
  BY <1>3 DEF Delivery!vars, Delivery!streamVars, streamVars, InHand
<1>4. ASSUME NEW m \in Messages, Publish(m) PROVE Delivery!Publish(m)
  BY <1>4 DEF Publish, XAdd, Delivery!Publish, Delivery!XAdd, rowVars, localVars,
     InHand
<1>5. ASSUME NEW w \in Workers,
             Handle(w) \/ Acknowledge(w) \/ AcknowledgeError(w) \/ Crash(w)
      PROVE  Delivery!Next \/ UNCHANGED Delivery!vars
  <2>1. msg[w] \in Messages
    BY <1>5, HandleShape, BusyHoldsJob DEF Acknowledge, AcknowledgeError, Crash
  <2> QED BY <1>2, <1>5, <2>1, HandleIsDelivery, LetGoIsDelivery
          DEF Delivery!Next
<1> QED BY <1>3, <1>4, <1>5, TakeIsDelivery DEF Next, Poll, Delivery!Next, vars,
        rowVars, localVars

\* Seen from the stream, the capsule and decompression handlers only do what
\* DeliveryHandling allows, however the handlers of different deliveries
\* overlap and whatever crashes, as long as no delivery was in two hands.
THEOREM DeliveryRulesAreKept == Spec => DeliveryRulesKept
<1>1. Init => group /\ Delivery!Init
  <2> SUFFICES ASSUME Init PROVE group /\ Delivery!Init
    OBVIOUS
  <2>1. InHand = {} /\ PhaseView = [j \in Jobs |-> "open"]
    BY Phases DEF Init, InHand, PhaseView
  <2> QED BY <2>1 DEF Init, StreamInit, Delivery!Init, Delivery!StreamInit, PhaseView
<1>2. TypeOK /\ group /\ [Next]_vars => group'
  BY HandleShape DEF Next, Poll, ReadNew, XReadGroup, Reclaim, Publish, XAdd,
     Acknowledge, AcknowledgeError, AckAndDelete, Crash, vars, streamVars
<1>3. TypeOK /\ group /\ StreamInv /\ [Next]_vars
        => [~shared' => Delivery!Next]_(Delivery!vars)
  BY StepIsDelivery
<1> QED BY <1>1, <1>2, <1>3, InitType, InitStream, TypeInvariant, StreamStep, PTL
        DEF Spec, DeliveryRulesKept
=============================================================================
