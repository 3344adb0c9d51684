---------------------------- MODULE CodecRuntimes ----------------------------
(***************************************************************************)
(* What a worker can run: the codec adapters, the catalog of neural model  *)
(* manifests in the worker's image, the volume that holds the model files, *)
(* and the explicit fetch that fills that volume while workers use it.     *)
(*                                                                         *)
(* A model file is "absent", "pinned" (its SHA-256 is the one its manifest *)
(* records) or "foreign" (put there by anything but fetch_weights).        *)
(***************************************************************************)
EXTENDS Naturals, Sequences, FiniteSets

CONSTANTS
    OfferedCatalogs,  \* catalogs a worker image may carry: sequences of manifests
    ToolSets,         \* sets of codec ids whose executables or sources it carries
    InitialCaches,    \* what the model volume may hold when the worker starts
    FetchIds          \* bound: ids of the models an operator fetches, which he
                      \* does with an image that has their runtime

VARIABLES
    catalog,   \* the worker's catalog.json; never changes
    tools,     \* codec ids whose executables or source tree are installed
    cache,     \* model volume: <<model id, version, file>> -> its content
    fetch,     \* the fetching process: its files, how many staged, installed
    loaded     \* history: contents that model runtimes have been given

runtimeVars == <<catalog, tools, cache, fetch, loaded>>

-----------------------------------------------------------------------------
(* The adapters.  "kind" tells which files the capability needs and how    *)
(* the decoder is resolved: "python" (a library), "tool" (executables),    *)
(* "checkpoint" (source and pinned files) or "per_asset" (source only, the *)
(* bitstream carries the weights and the decoder runtime is pinned).       *)
(* "asks" says that the generator skips the adapter for an input its       *)
(* supports_prepared turns down.                                           *)

Adapter(id, kind, profiles, levels, asks) ==
    [id |-> id, kind |-> kind, profiles |-> profiles, levels |-> levels,
     asks |-> asks]

Everyday == {"FAITHFUL", "ULTRA"}
Extreme  == {"ULTRA", "SEMANTIC"}

Brotli      == Adapter("text.brotli", "python", Everyday, <<5, 9, 11>>, FALSE)
Zstandard   == Adapter("text.zstandard", "python", Everyday, <<9, 19, 22>>, FALSE)
Avif        == Adapter("image.avif", "tool", Everyday, <<20, 32, 44>>, FALSE)
JpegXl      == Adapter("image.jpeg-xl", "tool", Everyday, <<5, 10, 20>>, FALSE)
CodLite     == Adapter("image.cod-lite", "checkpoint", Extreme, <<312>>, FALSE)
CoolChicImage ==
    Adapter("image.coolchic", "per_asset", {"ULTRA"}, <<1>>, FALSE)
Opus        == Adapter("audio.opus", "tool", Everyday, <<12, 20, 32>>, FALSE)
Snac        == Adapter("audio.snac", "checkpoint", Extreme, <<980>>, TRUE)
Mimi        == Adapter("audio.mimi", "checkpoint", Extreme, <<1100>>, TRUE)
Encodec     ==
    Adapter("audio.encodec", "checkpoint", Everyday, <<3000, 6000, 12000, 24000>>,
            TRUE)
Av1         == Adapter("video.av1", "tool", Everyday, <<28, 36, 44>>, FALSE)
CoolChicVideo ==
    Adapter("video.coolchic", "per_asset", {"ULTRA"}, <<1>>, TRUE)
HiNerv      == Adapter("video.hinerv", "per_asset", {"ULTRA"}, <<1>>, TRUE)
LivePortrait ==
    Adapter("video.liveportrait", "checkpoint", {"ULTRA"}, <<35>>, TRUE)

\* The adapters of a content type, in the order the generators try them.
AdaptersOf(type) ==
    CASE type = "TEXT"  -> <<Brotli, Zstandard>>
      [] type = "IMAGE" -> <<Avif, JpegXl, CodLite, CoolChicImage>>
      [] type = "AUDIO" -> <<Opus, Snac, Mimi, Encodec>>
      [] type = "VIDEO" -> <<Av1, CoolChicVideo, HiNerv, LivePortrait>>

ContentTypes == {"TEXT", "IMAGE", "AUDIO", "VIDEO"}

\* The id under which the catalog lists the model of a codec.
ModelId(codec) ==
    CASE codec = "image.cod-lite"     -> "cod-lite"
      [] codec = "image.coolchic"     -> "coolchic-image"
      [] codec = "audio.snac"         -> "snac"
      [] codec = "audio.mimi"         -> "mimi"
      [] codec = "audio.encodec"      -> "encodec"
      [] codec = "video.coolchic"     -> "coolchic-video"
      [] codec = "video.hinerv"       -> "hinerv-video"
      [] codec = "video.liveportrait" -> "liveportrait"
-----------------------------------------------------------------------------
(* Manifests.  URL and digest of a file are recorded together or not at    *)
(* all, so one flag stands for both.                                       *)

\* ModelManifest.validate_provenance.
ValidManifest(m) ==
    IF m.enabled
    THEN /\ m.evidence /\ m.entrypoint /\ m.licensed /\ ~m.reason
         /\ m.digest # "none"
         /\ m.origin = "external_checkpoint" => m.config /\ m.weights # "none"
         /\ m.origin = "per_asset" => ~m.config /\ m.weights # "single"
    ELSE m.reason

\* load_catalog: a worker does not start on anything else.
ValidCatalog(models) ==
    /\ \A i \in DOMAIN models : ValidManifest(models[i])
    /\ \A i, k \in DOMAIN models :
        (models[i].id = models[k].id /\ models[i].version = models[k].version)
            => i = k

\* next(model for model in ... if model.id == id): the first is the active one.
ActiveManifest(id) ==
    LET first == CHOOSE i \in DOMAIN catalog :
                    /\ catalog[i].id = id
                    /\ \A k \in 1..(i - 1) : catalog[k].id # id
    IN  catalog[first]

\* ..._manifest_for_version: the manifests that claim a persisted bitstream.
ManifestsForVersion(codec, version) ==
    {i \in DOMAIN catalog :
        catalog[i].codec = codec /\ catalog[i].version = version}

\* require_decoder_runtime: does it let the decoder run?
DecoderRuntimeAccepted(persisted, active) ==
    persisted.digest # "none" /\ persisted.digest = active.digest
-----------------------------------------------------------------------------
(* Capabilities.                                                           *)

Slot(m, file) == <<m.id, m.version, file>>

WeightFiles(m) ==
    CASE m.weights = "single"    -> <<"weights.bin">>
      [] m.weights = "artifacts" -> <<"motion.pth", "generator.pth">>
      [] m.weights = "none"      -> <<>>

\* What fetch_weights downloads and installs, in its order.
FetchedFiles(m) ==
    [i \in 1..(1 + Len(WeightFiles(m))) |->
        Slot(m, IF i = 1 THEN "config.yaml" ELSE WeightFiles(m)[i - 1])]

\* What the adapter of checkpoint model m opens.  LivePortrait also opens the
\* files of the active EnCodec model, for the audio of its bitstreams.
CheckpointFiles(m) == {Slot(m, "config.yaml"), Slot(m, "weights.bin")}
LivePortraitFiles(m) ==
    {FetchedFiles(m)[i] : i \in DOMAIN FetchedFiles(m)}
        \union CheckpointFiles(ActiveManifest("encodec"))

ModelFiles(a, m) ==
    CASE a.kind = "per_asset"            -> {}
      [] a.id = "video.liveportrait"     -> LivePortraitFiles(m)
      [] OTHER                           -> CheckpointFiles(m)

Content(slot) == IF slot \in DOMAIN cache THEN cache[slot] ELSE "absent"

\* Every file is there and has the pinned SHA-256.
FilesVerified(a, m) == \A f \in ModelFiles(a, m) : Content(f) = "pinned"

ModelEnabled(a, m) == m.enabled /\ a.id \in tools /\ FilesVerified(a, m)

\* capabilities().enabled of the adapter the generators construct.
Enabled(a) ==
    CASE a.kind = "python" -> TRUE
      [] a.kind = "tool"   -> a.id \in tools
      [] OTHER             -> ModelEnabled(a, ActiveManifest(ModelId(a.id)))

\* all_capabilities asks every manifest of the catalog, not only active ones.
AnyEnabled(type, profile) ==
    \E k \in DOMAIN AdaptersOf(type) :
        LET a == AdaptersOf(type)[k]
        IN  /\ profile \in a.profiles
            /\ \/ a.kind \in {"python", "tool"} /\ Enabled(a)
               \/ /\ a.kind \notin {"python", "tool"}
                  /\ \E i \in DOMAIN catalog :
                        catalog[i].codec = a.id /\ ModelEnabled(a, catalog[i])

\* A runtime process is started on the files of model m.
LoadedBy(a, m) == {Content(f) : f \in ModelFiles(a, m)}
-----------------------------------------------------------------------------
(* fetch_weights, run by an operator against the volume of the workers.    *)

NoFetch == [files |-> <<>>, staged |-> 0, installed |-> 0]

RuntimesInit ==
    /\ catalog \in {c \in OfferedCatalogs : ValidCatalog(c)}
    /\ tools \in ToolSets
    /\ cache \in InitialCaches
    /\ fetch = NoFetch
    /\ loaded = {}

\* The refusals at the top of fetch_weights.
Fetchable(m) ==
    m.origin = "external_checkpoint" /\ m.enabled /\ m.config /\ m.weights # "none"

FetchStart(i) ==
    /\ fetch = NoFetch
    /\ catalog[i].id \in FetchIds /\ catalog[i].codec \in tools
    /\ Fetchable(catalog[i])
    /\ fetch' = [NoFetch EXCEPT !.files = FetchedFiles(catalog[i])]
    /\ UNCHANGED <<catalog, tools, cache, loaded>>

\* Faulty variant: each file is moved into place as soon as it is opened.
FetchDownloadInPlace ==
    /\ fetch.staged < Len(fetch.files)
    /\ fetch' = [fetch EXCEPT !.staged = @ + 1]
    /\ cache' = [s \in DOMAIN cache |->
            IF s = fetch.files[fetch.staged + 1] THEN "foreign" ELSE cache[s]]
    /\ UNCHANGED <<catalog, tools, loaded>>

\* _download_verified: a private temporary file with the pinned digest.
FetchDownload ==
    /\ fetch.staged < Len(fetch.files)
    /\ fetch' = [fetch EXCEPT !.staged = @ + 1]
    /\ UNCHANGED <<catalog, tools, cache, loaded>>

\* chmod and os.replace of one file; nothing is moved before all are staged.
FetchInstall ==
    /\ fetch # NoFetch /\ fetch.staged = Len(fetch.files)
    /\ LET slot == fetch.files[fetch.installed + 1]
       IN  cache' = [s \in DOMAIN cache \union {slot} |->
                        IF s = slot THEN "pinned" ELSE cache[s]]
    /\ fetch' = IF fetch.installed + 1 = Len(fetch.files)
                THEN NoFetch ELSE [fetch EXCEPT !.installed = @ + 1]
    /\ UNCHANGED <<catalog, tools, loaded>>

\* A download fails and the staged files are unlinked, or the process dies,
\* between any two of its steps.
FetchStops ==
    /\ fetch # NoFetch
    /\ fetch' = NoFetch
    /\ UNCHANGED <<catalog, tools, cache, loaded>>

Fetch ==
    \/ \E i \in DOMAIN catalog : FetchStart(i)
    \/ FetchDownload \/ FetchInstall \/ FetchStops
-----------------------------------------------------------------------------
(* Properties.                                                             *)

\* A model runtime is only ever started on files with the pinned digests,
\* whatever the volume held and however far a fetch next to it has come.
OnlyPinnedFilesLoaded == loaded \subseteq {"pinned"}
=============================================================================
