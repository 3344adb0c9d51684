-------------------------- MODULE CandidateSelection --------------------------
(***************************************************************************)
(* What one run of a compression job computes: the upload is validated and *)
(* held against the media limits, every enabled adapter of its type makes  *)
(* candidates, each of which is decoded and measured, dominated candidates *)
(* are pruned per codec, the project's quality policy is applied, and the  *)
(* smallest candidate within the target is selected.  The stages are those *)
(* of process_job between VALIDATING and PACKAGING (CompressionWorker has  *)
(* the row, the transitions and the failures of that handler).             *)
(*                                                                         *)
(* A metric is a whole number that grows with quality: SSIM and VMAF in    *)
(* percent, duration deltas in milliseconds and clipping ratios per mille, *)
(* both negated.                                                           *)
(***************************************************************************)
EXTENDS CodecRuntimes, Integers

CONSTANTS
    Uploads,     \* source objects with their declared type and media facts
    Limits,      \* MAX_IMAGE_PIXELS, MAX_AUDIO_SECONDS, ...
    Sizes,       \* payload sizes a codec may produce
    Marks,       \* values that each metric, and each setting for it, may take
    Targets,     \* values of target_bytes; Unlimited is NULL
    Unlimited,
    MaxLevels,   \* bound: levels tried per adapter
    NoCandidate

ASSUME SelectionAssumption ==
    /\ Sizes \subseteq Nat
    /\ DOMAIN Marks = {"ms_ssim", "psnr", "clipping", "vmaf", "ssim", "duration"}
    /\ \A m \in DOMAIN Marks : Marks[m] \subseteq Int
    /\ Marks["vmaf"] \subseteq Nat
    /\ Targets \subseteq Nat \union {Unlimited}
    /\ Unlimited \notin Nat
    /\ MaxLevels \in Nat \ {0}
    /\ Uploads # {}
    /\ \A u \in Uploads : u.type \in ContentTypes

VARIABLES
    phase,       \* the stage the run is in
    upload,      \* the source object and the type and profile of the job
    thresholds,  \* of the project's quality policy, which is drawn when used
    target,      \* target_bytes, drawn when used
    turn,        \* position of the adapter whose turn it is
    adapter,     \* "closed", "open" (enabled, input prepared and in contract),
                 \* "outside" (input not in contract), "ready" (checked)
    level,       \* how many of its levels are done
    measured,    \* history: every candidate that passed the platform's gate
    candidates,  \* the list the stages work on
    chosen,
    outcome      \* "none", "COMPLETED", an error code or what raised

selectionVars ==
    <<phase, upload, thresholds, target, turn, adapter, level, measured, candidates,
      chosen, outcome>>

-----------------------------------------------------------------------------
(* content_validation.py.  An upload's "signature" is what its first bytes *)
(* are; "utf8" is a valid UTF-8 text without NUL.                          *)

DetectedMime(type, signature) ==
    IF type = "TEXT"
    THEN IF signature = "utf8" THEN "text/plain" ELSE "application/octet-stream"
    ELSE CASE signature = "png"       -> "image/png"
           [] signature = "jpeg"      -> "image/jpeg"
           [] signature = "riff-wave" -> "audio/wav"
           [] signature = "ogg"       -> "audio/ogg"
           [] signature = "ebml"      -> "video/webm"
           [] signature = "ftyp-avif" -> "image/avif"
           [] signature = "ftyp"      -> "video/mp4"
           [] OTHER                   -> "application/octet-stream"

MimeContentType(mime) ==
    CASE mime = "text/plain"                                 -> "TEXT"
      [] mime \in {"image/avif", "image/jpeg", "image/png"}  -> "IMAGE"
      [] mime \in {"audio/ogg", "audio/wav"}                 -> "AUDIO"
      [] mime \in {"video/mp4", "video/webm"}                -> "VIDEO"
      [] OTHER                                               -> "none"

MimeExtensions(mime) ==
    CASE mime = "text/plain" -> {".csv", ".json", ".log", ".md", ".text", ".txt"}
      [] mime = "image/avif" -> {".avif"}
      [] mime = "image/jpeg" -> {".jpeg", ".jpg"}
      [] mime = "image/png"  -> {".png"}
      [] mime = "audio/ogg"  -> {".oga", ".ogg", ".opus"}
      [] mime = "audio/wav"  -> {".wav", ".wave"}
      [] mime = "video/mp4"  -> {".m4v", ".mov", ".mp4"}
      [] mime = "video/webm" -> {".webm"}
      [] OTHER               -> {}

\* The error of the first check that does not pass.
FirstError(checks) ==
    LET failing == {i \in DOMAIN checks : ~checks[i].passes}
    IN  IF failing = {} THEN "none"
        ELSE checks[CHOOSE i \in failing : \A k \in failing : i <= k].error

Check(passes, error) == [passes |-> passes, error |-> error]

ContentError(u) ==
    LET mime == DetectedMime(u.type, u.signature)
    IN  FirstError(<<
            Check(mime # "application/octet-stream", "UNSUPPORTED_CONTENT"),
            Check(u.mime = mime, "MIME_MISMATCH"),
            Check(MimeContentType(mime) = u.type, "CONTENT_TYPE_MISMATCH"),
            Check(u.suffix \in MimeExtensions(mime) \union {""},
                  "EXTENSION_MISMATCH") >>)
-----------------------------------------------------------------------------
(* _media_limit_error.  A number ffprobe does not report, or reports in a  *)
(* form the code rejects, is Unreported; only for a frame count does the   *)
(* code tell the two apart.  Seconds and frames per second are whole       *)
(* numbers.                                                                *)

Unreported == 0 - 1
Malformed == 0 - 2

HasPicture(type) == type \in {"IMAGE", "VIDEO"}
HasDuration(type) == type \in {"AUDIO", "VIDEO"}

FrameCount(u) ==
    CASE u.frames \in Nat                      -> u.frames
      [] u.frames = Unreported /\ u.rate > 0   -> u.seconds * u.rate
      [] OTHER                                 -> Unreported

MediaLimitError(u) ==
    LET pixels == u.width * u.height
        maxPixels == IF u.type = "IMAGE" THEN Limits.imagePixels
                                         ELSE Limits.videoPixels
        maxSeconds == IF u.type = "AUDIO" THEN Limits.audioSeconds
                                          ELSE Limits.videoSeconds
        isVideo == u.type = "VIDEO"
    IN  FirstError(<<
            Check(u.type = "TEXT" \/ u.stream, "MEDIA_PROBE_FAILED"),
            Check(HasPicture(u.type) => Unreported \notin {u.width, u.height},
                  "MEDIA_PROBE_FAILED"),
            Check(HasPicture(u.type) => pixels \in 1..maxPixels,
                  "PIXEL_LIMIT_EXCEEDED"),
            Check(HasDuration(u.type) => u.seconds # Unreported,
                  "MEDIA_PROBE_FAILED"),
            Check(HasDuration(u.type) => u.seconds <= maxSeconds,
                  "DURATION_LIMIT_EXCEEDED"),
            Check(isVideo => FrameCount(u) # Unreported, "MEDIA_PROBE_FAILED"),
            Check(isVideo => FrameCount(u) <= Limits.videoFrames,
                  "FRAME_LIMIT_EXCEEDED") >>)
-----------------------------------------------------------------------------
(* The input contracts of the adapters that have one (supports_prepared),  *)
(* on the prepared input.  A clip's frames are counted, so FrameCount is   *)
(* exact there.                                                            *)

SnacSupports(seconds)    == seconds \in 1..60
MimiSupports(seconds)    == seconds \in 1..30
EncodecSupports(seconds) == seconds \in 1..30

CoolChicImageSupports(u) == u.width \in 32..2048 /\ u.height \in 32..2048

CoolChicVideoSupports(u) ==
    /\ u.width \in 32..640 /\ u.width % 2 = 0
    /\ u.height \in 32..640 /\ u.height % 2 = 0
    /\ u.rate \in 1..60 /\ FrameCount(u) \in 1..32

HiNervSupports(u) ==
    /\ u.width \in 32..640 /\ u.width % 16 = 0
    /\ u.height \in 32..640 /\ u.height % 16 = 0
    /\ u.rate \in 1..60 /\ FrameCount(u) \in 1..32

LivePortraitSupports(u) ==
    /\ u.width = 512 /\ u.height = 512
    /\ u.rate \in 1..30 /\ FrameCount(u) \in 2..30
    /\ FrameCount(u) <= 30 * u.rate

\* The adapter's supports_prepared, "seconds" being those of a prepared audio.
Supports(a, u, seconds) ==
    CASE a.id = "audio.snac"         -> SnacSupports(seconds)
      [] a.id = "audio.mimi"         -> MimiSupports(seconds)
      [] a.id = "audio.encodec"      -> EncodecSupports(seconds)
      [] a.id = "image.coolchic"     -> CoolChicImageSupports(u)
      [] a.id = "video.coolchic"     -> CoolChicVideoSupports(u)
      [] a.id = "video.hinerv"       -> HiNervSupports(u)
      [] a.id = "video.liveportrait" -> LivePortraitSupports(u)
      [] OTHER                       -> TRUE

\* How long an audio can be once prepared: for ULTRA, silence is removed.
PreparedSeconds(u) ==
    IF u.type = "AUDIO" /\ u.profile = "ULTRA"
    THEN {s \in {0, 30, u.seconds} : s <= u.seconds} ELSE {u.seconds}
-----------------------------------------------------------------------------
(* Quality.                                                                *)

\* What an adapter's measure() reports, as far as it is compared later.  VMAF is
\* looked for in every measurement anew: FFmpeg may have no libvmaf, and its mean
\* may not be finite.
Reports(type) ==
    CASE type = "TEXT"  -> {<<>>}
      [] type = "IMAGE" -> [ms_ssim : Marks["ms_ssim"], psnr : Marks["psnr"]]
      [] type = "AUDIO" -> [duration : Marks["duration"], clipping : Marks["clipping"]]
      [] type = "VIDEO" -> [vmaf : Marks["vmaf"] \union {Unreported},
                            ssim : Marks["ssim"], duration : Marks["duration"]]

\* SSIM stands in for VMAF.
FallsBack(report) == "vmaf" \in DOMAIN report /\ report["vmaf"] = Unreported

\* The vector by which a generator prunes: VMAF and SSIM share a component.
Quality(report) ==
    [m \in DOMAIN report |->
        IF m = "vmaf" /\ FallsBack(report) THEN report["ssim"] ELSE report[m]]

\* The metrics the adapters' own gate and the project's policy look at, and the
\* one of VMAF and SSIM whose threshold a report is not held against.
GatedMetrics(type) ==
    CASE type = "TEXT"  -> {}
      [] type = "IMAGE" -> {"ms_ssim"}
      [] type = "AUDIO" -> {"duration", "clipping"}
      [] type = "VIDEO" -> {"vmaf", "ssim", "duration"}

Skipped(report) == IF FallsBack(report) THEN "vmaf" ELSE "ssim"

PlatformFloor(type, m) ==
    CASE m = "ms_ssim"  -> 90
      [] m = "vmaf"     -> 70
      [] m = "ssim"     -> 85
      [] m = "duration" -> IF type = "AUDIO" THEN 0 - 20 ELSE 0 - 50
      [] m = "clipping" -> 0 - 1

Passes(report, floor) ==
    \A m \in DOMAIN floor \ {Skipped(report)} : report[m] >= floor[m]

\* quality_gate_passed of an adapter's measure().
MeetsGate(type, report) ==
    Passes(report, [m \in GatedMetrics(type) |-> PlatformFloor(type, m)])

\* Faulty variant: equal candidates dominate each other.
DominatesWithoutTieBreak(left, right) ==
    LET better == Quality(left.report)
        worse  == Quality(right.report)
    IN  /\ left.codec = right.codec /\ left.level # right.level
        /\ left.size <= right.size
        /\ \A m \in DOMAIN better : better[m] >= worse[m]

\* dominates in pareto_frontier_per_codec.  The order of the repr of two
\* configurations is some strict total order; that of their levels stands for
\* it.
Dominates(left, right) ==
    LET better == Quality(left.report)
        worse  == Quality(right.report)
    IN  /\ left.codec = right.codec
        /\ left.size <= right.size
        /\ \A m \in DOMAIN better : better[m] >= worse[m]
        /\ \/ left.size < right.size
           \/ \E m \in DOMAIN better : better[m] > worse[m]
           \/ left.level < right.level

ParetoFrontier(C) == {c \in C : \A d \in C : ~Dominates(d, c)}

\* _number: without a setting, or with one that weakens the platform's floor or
\* lies beyond the best value, the threshold is the floor.
Thresholds(type, m) ==
    LET floor == PlatformFloor(type, m)
        best  == IF m \in {"duration", "clipping"} THEN 0 ELSE 100
    IN  {floor} \union (Marks[m] \intersect (floor..best))

\* What apply_quality_policy may make of a project's policy.
Policies(type) ==
    LET at(m) == Thresholds(type, m)
    IN  CASE type = "TEXT"  -> {<<>>}
          [] type = "IMAGE" -> [ms_ssim : at("ms_ssim")]
          [] type = "AUDIO" -> [duration : at("duration"), clipping : at("clipping")]
          [] type = "VIDEO" -> [vmaf : at("vmaf"), ssim : at("ssim"),
                                duration : at("duration")]

\* apply_quality_policy.
PassesPolicy(c, floor) == Passes(c.report, floor)
-----------------------------------------------------------------------------
(* The run.                                                                *)

CurrentAdapter == AdaptersOf(upload.type)[turn]
LevelsTried(a) == IF Len(a.levels) < MaxLevels THEN Len(a.levels) ELSE MaxLevels

SelectionInit(stage, uploads) ==
    /\ phase = stage
    /\ upload \in uploads
    /\ thresholds = <<>>
    /\ target = Unlimited
    /\ turn = 1 /\ adapter = "closed" /\ level = 0
    /\ measured = {} /\ candidates = {}
    /\ chosen = NoCandidate
    /\ outcome = "none"

Finish(result) == phase' = "done" /\ outcome' = result

GoOn(next) == phase' = next /\ UNCHANGED outcome

Stay == UNCHANGED <<upload, thresholds, target, turn, adapter, level, measured,
                    candidates, chosen>>

CheckProfile ==
    /\ phase = "profile"
    /\ IF upload.profile = "SEMANTIC" /\ ~AnyEnabled(upload.type, "SEMANTIC")
       THEN Finish("SEMANTIC_PROFILE_UNAVAILABLE")
       ELSE GoOn("validate")
    /\ Stay
    /\ UNCHANGED runtimeVars

ValidateContent ==
    /\ phase = "validate"
    /\ IF ContentError(upload) # "none" THEN Finish(ContentError(upload))
                                        ELSE GoOn("limits")
    /\ Stay
    /\ UNCHANGED runtimeVars

CheckLimits ==
    /\ phase = "limits"
    /\ IF MediaLimitError(upload) # "none" THEN Finish(MediaLimitError(upload))
                                           ELSE GoOn("generate")
    /\ Stay
    /\ UNCHANGED runtimeVars

\* Any tool, library or runtime may raise while the run depends on it.
RunRaises ==
    /\ phase \in {"limits", "generate"}
    /\ Finish("codec error")
    /\ Stay
    /\ UNCHANGED runtimeVars

NextAdapter ==
    /\ turn' = turn + 1
    /\ adapter' = "closed"
    /\ level' = 0

\* capabilities(), preprocess() and, where the generator asks, supports_prepared().
\* The text generator asks for neither capability nor profile.
Eligible(a) ==
    upload.type = "TEXT" \/ (Enabled(a) /\ upload.profile \in a.profiles)

\* The adapter is used on the prepared input; encode() will check its contract.
Use(a, seconds) ==
    /\ adapter' = IF Supports(a, upload, seconds) THEN "open" ELSE "outside"
    /\ UNCHANGED <<turn, level>>

\* Faulty variant: the generator leaves the contract to encode().
OpenWithoutAsking(seconds) ==
    LET a == CurrentAdapter IN IF Eligible(a) THEN Use(a, seconds) ELSE NextAdapter

Open(seconds) ==
    LET a == CurrentAdapter
    IN  IF Eligible(a) /\ (a.asks => Supports(a, upload, seconds))
        THEN Use(a, seconds) ELSE NextAdapter

OpenAdapter ==
    /\ phase = "generate" /\ adapter = "closed"
    /\ turn <= Len(AdaptersOf(upload.type))
    /\ \E seconds \in PreparedSeconds(upload) : Open(seconds)
    /\ UNCHANGED <<phase, outcome, upload, thresholds, target, measured, candidates,
                   chosen, runtimeVars>>

\* encode() asks for the capability again before it starts a runtime; where it
\* is gone it raises (RunRaises).
CheckAdapter ==
    /\ phase = "generate" /\ adapter = "open"
    /\ Enabled(CurrentAdapter)
    /\ adapter' = "ready"
    /\ UNCHANGED <<phase, outcome, upload, thresholds, target, turn, level,
                   measured, candidates, chosen, runtimeVars>>

\* The ValueError of encode() ends the run, candidates made so far included.
RefuseInput ==
    /\ phase = "generate" /\ adapter = "outside"
    /\ Finish("input contract")
    /\ Stay
    /\ UNCHANGED runtimeVars

\* Encode, decode and measure one level; a candidate that misses the platform's
\* gate is dropped, a text that does not come back exactly raises.
MakeCandidate ==
    /\ phase = "generate" /\ adapter = "ready"
    /\ LET a == CurrentAdapter
       IN  /\ \E size \in Sizes, report \in Reports(upload.type) :
                LET c == [codec |-> a.id, level |-> a.levels[level + 1],
                          size |-> size, report |-> report]
                IN  measured' = IF MeetsGate(upload.type, report)
                                THEN measured \union {c} ELSE measured
           /\ IF level + 1 = LevelsTried(a)
              THEN NextAdapter
              ELSE level' = level + 1 /\ adapter' = "open" /\ UNCHANGED turn
           /\ loaded' = loaded \union
                (IF a.kind = "checkpoint"
                 THEN LoadedBy(a, ActiveManifest(ModelId(a.id))) ELSE {})
    /\ UNCHANGED <<phase, outcome, upload, thresholds, target, candidates, chosen,
                   catalog, tools, cache, fetch>>

Prune ==
    /\ phase = "generate" /\ turn > Len(AdaptersOf(upload.type))
    /\ candidates' = ParetoFrontier(measured)
    /\ GoOn("policy")
    /\ UNCHANGED <<upload, thresholds, target, turn, adapter, level, measured, chosen,
                   runtimeVars>>

ApplyPolicy ==
    /\ phase = "policy"
    /\ \E floor \in Policies(upload.type) :
        LET passing == {c \in candidates : PassesPolicy(c, floor)}
        IN  /\ thresholds' = floor
            /\ candidates' = passing
            /\ IF passing = {} THEN Finish("NO_QUALITY_GATED_CANDIDATE")
                               ELSE GoOn("select")
    /\ UNCHANGED <<upload, target, turn, adapter, level, measured, chosen,
                   runtimeVars>>

Fitting(C, limit) == {c \in C : limit = Unlimited \/ c.size <= limit}

\* min by (bytes, id); ids are random.
ChooseSmallest(fitting, c) == c \in fitting /\ \A d \in fitting : c.size <= d.size

SelectCandidate ==
    /\ phase = "select"
    /\ \E limit \in Targets :
        LET fitting == Fitting(candidates, limit)
        IN  /\ target' = limit
            /\ \/ /\ fitting = {}
                  /\ Finish("TARGET_BYTES_UNSATISFIED") /\ UNCHANGED chosen
               \/ /\ \E c \in fitting : ChooseSmallest(fitting, c) /\ chosen' = c
                  /\ Finish("COMPLETED")
    /\ UNCHANGED <<upload, thresholds, turn, adapter, level, measured, candidates,
                   runtimeVars>>

SelectionStep ==
    \/ CheckProfile \/ ValidateContent \/ CheckLimits \/ RunRaises
    \/ OpenAdapter \/ CheckAdapter \/ RefuseInput \/ MakeCandidate
    \/ Prune \/ ApplyPolicy \/ SelectCandidate
-----------------------------------------------------------------------------
(* Properties.                                                             *)

\* Pruning compares VMAF with SSIM, which the policy holds against thresholds of
\* their own: a candidate may go because of one of its codec that was measured
\* the other way and then misses the policy.
Outranked(c) ==
    \E d \in measured :
        /\ Dominates(d, c)
        /\ FallsBack(d.report) # FallsBack(c.report)
        /\ ~PassesPolicy(d, thresholds)

\* Whole codecs' worth of candidates are pruned before the policy and the target
\* are looked at, and yet, but for candidates outranked as above, the verdict is
\* the best over everything that was measured: a completed job has the smallest
\* candidate that meets the policy and the target, and a job that fails for want
\* of a candidate has none.
SelectionIsBest ==
    LET good == {c \in measured : PassesPolicy(c, thresholds)}
        fit  == Fitting(good, target)
    IN  /\ outcome = "COMPLETED" =>
               chosen \in fit /\ \A c \in fit : chosen.size <= c.size \/ Outranked(c)
        /\ outcome = "NO_QUALITY_GATED_CANDIDATE" => \A c \in good : Outranked(c)
        /\ outcome = "TARGET_BYTES_UNSATISFIED" =>
               good # {} /\ \A c \in fit : Outranked(c)

\* An input outside the narrow contract of a codec leaves the job to the other
\* adapters; the one codec whose contract fails the whole job is Cool-Chic for
\* images, which its generator does not ask first.
OnlyCoolChicImagesFailTheJob ==
    outcome = "input contract" => CurrentAdapter.id = "image.coolchic"
=============================================================================
