----------------------------- MODULE CodecWorker -----------------------------
(***************************************************************************)
(* One worker at work with its codecs, on a compression job or on a        *)
(* decompression job, while an operator fetches models into the volume     *)
(* both kinds of job read.                                                 *)
(***************************************************************************)
EXTENDS CandidateSelection, ArtifactDecoding

vars == <<runtimeVars, selectionVars, decodingVars>>

\* The job at hand starts at its first stage; nothing happens in the other,
\* whose subject is arbitrary.
Init ==
    /\ RuntimesInit
    /\ \/ /\ SelectionInit("profile", Uploads)
          /\ DecodingInit("none", {CHOOSE a \in Artifacts : TRUE})
       \/ /\ SelectionInit("none", {CHOOSE u \in Uploads : TRUE})
          /\ DecodingInit("resolve", Artifacts)

Compress == SelectionStep /\ UNCHANGED decodingVars
Decompress == DecodingStep /\ UNCHANGED selectionVars
FetchModel == Fetch /\ UNCHANGED <<selectionVars, decodingVars>>

Next == Compress \/ Decompress \/ FetchModel

Spec == Init /\ [][Next]_vars
=============================================================================
