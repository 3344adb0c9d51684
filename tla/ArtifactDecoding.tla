--------------------------- MODULE ArtifactDecoding ---------------------------
(***************************************************************************)
(* How a decompression job turns a stored artifact back into media: the    *)
(* manifest of the artifact's version is looked up, the adapter is built   *)
(* with it, decode() checks the decoder runtime and the model files, the   *)
(* runtime decodes, and the result is compared with the digest recorded    *)
(* when the quality gate measured the candidate.  SimpleJob has the row    *)
(* and the failures of the handler these stages belong to.                 *)
(***************************************************************************)
EXTENDS CodecRuntimes

CONSTANT Artifacts   \* stored artifacts: codec and version

VARIABLES
    step,       \* the stage of the decoding
    artifact,   \* the artifact to decode
    foreign     \* history: has a decoder run that the bitstream does not name?

decodingVars == <<step, artifact, foreign>>

DecodingInit(stage, artifacts) ==
    /\ step = stage
    /\ artifact \in artifacts
    /\ foreign = FALSE

DecodingAdapter ==
    LET type == CASE artifact.codec \in {"text.brotli", "text.zstandard"} -> "TEXT"
                  [] artifact.codec \in {"image.avif", "image.jpeg-xl",
                                         "image.cod-lite", "image.coolchic"} -> "IMAGE"
                  [] artifact.codec \in {"audio.opus", "audio.snac",
                                         "audio.mimi", "audio.encodec"} -> "AUDIO"
                  [] OTHER -> "VIDEO"
        k == CHOOSE i \in DOMAIN AdaptersOf(type) :
                AdaptersOf(type)[i].id = artifact.codec
    IN  AdaptersOf(type)[k]

NeedsManifest == DecodingAdapter.kind \in {"checkpoint", "per_asset"}

\* ..._manifest_for_version of the artifact's version, if exactly one claims it.
PersistedManifest ==
    catalog[CHOOSE i \in ManifestsForVersion(artifact.codec, artifact.version) : TRUE]

\* The manifest the handler constructs the adapter with, and which the adapter
\* therefore takes for the worker's own.
HandedManifest == PersistedManifest

\* The runtime in the worker's image is that of the active manifests.
WorkersRuntime == ActiveManifest(ModelId(artifact.codec)).digest

GoTo(s) == step' = s /\ UNCHANGED <<artifact, foreign>>

\* No unique manifest: DECODER_UNAVAILABLE, which is terminal.
ResolveManifest ==
    /\ step = "resolve"
    /\ GoTo(IF NeedsManifest
                /\ Cardinality(ManifestsForVersion(artifact.codec, artifact.version)) # 1
            THEN "DECODER_UNAVAILABLE" ELSE "runtime")
    /\ UNCHANGED runtimeVars

\* decode() of the per-asset adapters starts with require_decoder_runtime.
CheckRuntime ==
    /\ step = "runtime"
    /\ GoTo(IF DecodingAdapter.kind = "per_asset"
                /\ ~DecoderRuntimeAccepted(PersistedManifest, HandedManifest)
            THEN "raised" ELSE "files")
    /\ UNCHANGED runtimeVars

\* decode() of the model adapters asks for the capability; a tool that is not
\* installed fails when it is started.
CheckFiles ==
    /\ step = "files"
    /\ GoTo(CASE DecodingAdapter.kind = "python" -> "run"
              [] DecodingAdapter.kind = "tool"   ->
                    IF artifact.codec \in tools THEN "run" ELSE "raised"
              [] OTHER ->
                    IF ModelEnabled(DecodingAdapter, HandedManifest)
                    THEN "run" ELSE "raised")
    /\ UNCHANGED runtimeVars

RunDecoder ==
    /\ step = "run"
    /\ step' = "verify"
    /\ foreign' = (foreign \/ (DecodingAdapter.kind = "per_asset"
                                /\ PersistedManifest.digest # WorkersRuntime))
    /\ loaded' = loaded \union
            (IF DecodingAdapter.kind = "checkpoint"
             THEN LoadedBy(DecodingAdapter, HandedManifest) ELSE {})
    /\ UNCHANGED <<artifact, catalog, tools, cache, fetch>>

\* The digest recorded at measurement decides.  CoD-Lite declares itself not
\* deterministic, and another release of a tool may decode differently, so
\* either answer is possible for any decoder.
VerifyDecoded ==
    /\ step = "verify"
    /\ \E s \in {"COMPLETED", "ROUND_TRIP_MISMATCH"} : GoTo(s)
    /\ UNCHANGED runtimeVars

DecodingRaises ==
    /\ step \in {"runtime", "files", "run"}
    /\ GoTo("raised")
    /\ UNCHANGED runtimeVars

DecodingStep ==
    \/ ResolveManifest \/ CheckRuntime \/ CheckFiles \/ RunDecoder
    \/ VerifyDecoded \/ DecodingRaises
-----------------------------------------------------------------------------
(* Properties.                                                             *)

\* The catalogue may keep historical manifests; a per-asset bitstream is only
\* decoded by the decoder runtime its own manifest names.
\* docs/operations/neural-codecs.md:151: "A worker fails closed when the
\* required digest differs from its active runtime."
DecoderRuntimeMatches == ~foreign
=============================================================================
