---------------------------- MODULE MCCodecWorker ----------------------------
(***************************************************************************)
(* Small instances of CodecWorker for TLC: catalogs with and without       *)
(* historical manifests, volumes in several conditions, and uploads on     *)
(* both sides of the limits and contracts.                                 *)
(***************************************************************************)
EXTENDS CodecWorker, TLC

\* A complete entry of the catalog; "several" weights are LivePortrait's.
Checkpoint(codec, version) ==
    [id |-> ModelId(codec), codec |-> codec, version |-> version,
     origin |-> "external_checkpoint", enabled |-> TRUE,
     weights |-> IF codec = "video.liveportrait" THEN "artifacts" ELSE "single",
     config |-> TRUE, digest |-> version, evidence |-> TRUE,
     entrypoint |-> TRUE, licensed |-> TRUE, reason |-> FALSE]

PerAsset(codec, version) ==
    [Checkpoint(codec, version) EXCEPT
        !.origin = "per_asset", !.weights = "none", !.config = FALSE]

Disabled(m) == [m EXCEPT !.enabled = FALSE, !.reason = TRUE]

Published ==
    << PerAsset("image.coolchic", "v2"), Checkpoint("image.cod-lite", "v2"),
       Checkpoint("audio.snac", "v2"), Checkpoint("audio.mimi", "v2"),
       Checkpoint("audio.encodec", "v2"), PerAsset("video.coolchic", "v2"),
       PerAsset("video.hinerv", "v2"), Checkpoint("video.liveportrait", "v2") >>

History ==
    << PerAsset("image.coolchic", "v1"), Disabled(Checkpoint("audio.snac", "v1")) >>

MCCatalogs == {
    Published \o History,
    \* refused by the loader
    Published \o << Published[3] >>,
    [Published EXCEPT ![3].weights = "none"],
    [Published EXCEPT ![1].digest = "none"],
    [Published EXCEPT ![5].enabled = FALSE] }

MCToolSets == {
    {},
    {"image.avif", "audio.opus", "video.av1"},
    {"image.avif", "image.jpeg-xl"}, {"image.coolchic", "image.avif"},
    {"image.cod-lite"},
    {"audio.opus", "audio.snac"}, {"audio.encodec", "audio.mimi"},
    {"video.hinerv"}, {"video.coolchic", "video.liveportrait"} }

ModelSlots ==
    UNION { {FetchedFiles(Published[i])[k] : k \in DOMAIN FetchedFiles(Published[i])}
            : i \in {2, 3, 4, 5, 8} }

MCCaches == {
    [s \in {} |-> "absent"],
    [s \in ModelSlots |-> "pinned"],
    [s \in ModelSlots |-> IF s[3] = "config.yaml" THEN "pinned" ELSE "foreign"] }

MCLimits == [imagePixels |-> 2048 * 2049, videoPixels |-> 640 * 640,
             audioSeconds |-> 61, videoSeconds |-> 30, videoFrames |-> 33]

\* On both sides of the platform's floors and of stricter thresholds.
MCMarks ==
    [ms_ssim |-> {80, 90, 95}, psnr |-> {30, 40}, clipping |-> {0 - 2, 0 - 1, 0},
     vmaf |-> {60, 70, 90}, ssim |-> {80, 85, 95}, duration |-> {0 - 60, 0 - 20, 0}]

Text(profile, signature, mime, suffix) ==
    [type |-> "TEXT", profile |-> profile, signature |-> signature, mime |-> mime,
     suffix |-> suffix, stream |-> FALSE, width |-> Unreported,
     height |-> Unreported, seconds |-> Unreported, rate |-> Unreported,
     frames |-> Unreported]

Image(profile, width, height) ==
    [Text(profile, "png", "image/png", ".png") EXCEPT
        !.type = "IMAGE", !.stream = TRUE, !.width = width, !.height = height]

Audio(profile, seconds) ==
    [Text(profile, "riff-wave", "audio/wav", ".wav") EXCEPT
        !.type = "AUDIO", !.stream = TRUE, !.seconds = seconds]

Video(profile, width, height, seconds, rate, frames) ==
    [Text(profile, "ftyp", "video/mp4", "") EXCEPT
        !.type = "VIDEO", !.stream = TRUE, !.width = width, !.height = height,
        !.seconds = seconds, !.rate = rate, !.frames = frames]

Accepted == {
    Text("FAITHFUL", "utf8", "text/plain", ".md"),
    Image("FAITHFUL", 2048, 2048), Image("ULTRA", 2048, 32),
    Image("ULTRA", 2048, 2049), Image("SEMANTIC", 64, 64),
    Audio("FAITHFUL", 30), Audio("ULTRA", 61), Audio("SEMANTIC", 31),
    Video("FAITHFUL", 512, 512, 1, 30, 30), Video("ULTRA", 512, 512, 1, 30, Unreported),
    Video("ULTRA", 514, 512, 1, 33, 33) }

Refused == {
    Text("SEMANTIC", "utf8", "text/plain", ".txt"),
    Text("ULTRA", "binary", "text/plain", ".txt"),
    Text("ULTRA", "utf8", "text/html", ".txt"),
    Text("ULTRA", "utf8", "text/plain", ".wav"),
    [Image("ULTRA", 1, 1) EXCEPT !.signature = "ogg", !.mime = "audio/ogg"],
    [Image("ULTRA", 1, 1) EXCEPT !.stream = FALSE],
    Image("ULTRA", 2049, 2049), Image("ULTRA", 0, 9), Image("ULTRA", Unreported, 9),
    Audio("ULTRA", 62), Audio("ULTRA", Unreported),
    Video("ULTRA", 512, 512, 1, 34, Unreported), Video("ULTRA", 512, 512, 1, 30, Malformed),
    Video("ULTRA", 512, 512, 1, 0, Unreported) }

MCUploads == Accepted \union Refused

Stored(codec, version) == [codec |-> codec, version |-> version]

MCArtifacts == {
    Stored("text.brotli", "1"), Stored("image.avif", "1"),
    Stored("image.coolchic", "v1"), Stored("image.coolchic", "v2"),
    Stored("audio.snac", "v1"), Stored("audio.snac", "v2"),
    Stored("audio.encodec", "v0"), Stored("video.liveportrait", "v2") }
=============================================================================
