-------------------------- MODULE CodecWorkerProofs --------------------------
(***************************************************************************)
(* Pruning per codec loses nothing the selection could have wanted, for    *)
(* candidates measured alike; and so the verdict of a run is the best over *)
(* everything that was measured, for any uploads, catalogs, sizes, marks   *)
(* and targets, but for what a candidate measured the other way outranks.  *)
(***************************************************************************)
EXTENDS CodecWorker, FiniteSetTheorems, WellFoundedInduction, TLAPS

\* A set of candidates whose reports are over the same metrics M.
WellFormed(C, M) ==
    /\ "vmaf" \in M => "ssim" \in M
    /\ \A c \in C : c.size \in Nat /\ c.level \in Nat /\ c.report \in [M -> Int]

LEMMA QualityType ==
    ASSUME NEW C, NEW M, WellFormed(C, M), NEW c \in C
    PROVE  Quality(c.report) \in [M -> Int]
BY DEF WellFormed, Quality, FallsBack

\* Domination, the relation of the code, is a strict partial order.
LEMMA DominatesTransitive ==
    ASSUME NEW C, NEW M, WellFormed(C, M),
           NEW a \in C, NEW b \in C, NEW c \in C,
           Dominates(a, b), Dominates(b, c)
    PROVE  Dominates(a, c)
<1> DEFINE p == Quality(a.report)
           q == Quality(b.report)
           s == Quality(c.report)
<1>1. /\ p \in [M -> Int] /\ q \in [M -> Int] /\ s \in [M -> Int]
      /\ a.size \in Nat /\ b.size \in Nat /\ c.size \in Nat
      /\ a.level \in Nat /\ b.level \in Nat /\ c.level \in Nat
    BY QualityType DEF WellFormed
<1>2. /\ a.codec = b.codec /\ a.size <= b.size /\ \A m \in DOMAIN p : p[m] >= q[m]
      /\ a.size < b.size \/ (\E m \in DOMAIN p : p[m] > q[m]) \/ a.level < b.level
    BY DEF Dominates
<1>3. /\ b.codec = c.codec /\ b.size <= c.size /\ \A m \in DOMAIN q : q[m] >= s[m]
      /\ b.size < c.size \/ (\E m \in DOMAIN q : q[m] > s[m]) \/ b.level < c.level
    BY DEF Dominates
<1>4. SUFFICES /\ a.codec = c.codec /\ a.size <= c.size
               /\ \A m \in DOMAIN p : p[m] >= s[m]
               /\ a.size < c.size \/ (\E m \in DOMAIN p : p[m] > s[m]) \/ a.level < c.level
    BY DEF Dominates
<1> HIDE DEF p, q, s
<1>5. a.codec = c.codec /\ a.size <= c.size
    BY <1>1, <1>2, <1>3
<1>6. \A m \in DOMAIN p : p[m] >= s[m]
    BY <1>1, <1>2, <1>3
<1>7. CASE \E m \in M : p[m] > q[m] \/ q[m] > s[m]
    <2>1. PICK m \in M : p[m] > q[m] \/ q[m] > s[m]
        BY <1>7
    <2>2. p[m] > s[m]
        BY <2>1, <1>1, <1>2, <1>3
    <2> QED BY <2>2, <1>1, <1>5, <1>6
<1>8. CASE ~ \E m \in M : p[m] > q[m] \/ q[m] > s[m]
    <2>1. /\ a.size < b.size \/ a.level < b.level
          /\ b.size < c.size \/ b.level < c.level
        BY <1>1, <1>2, <1>3, <1>8
    <2>2. a.size < c.size \/ a.level < c.level
        BY <1>1, <1>2, <1>3, <2>1
    <2> QED BY <2>2, <1>5, <1>6
<1> QED BY <1>7, <1>8

LEMMA DominatesIrreflexive ==
    ASSUME NEW C, NEW M, WellFormed(C, M), NEW c \in C
    PROVE  ~Dominates(c, c)
<1> DEFINE p == Quality(c.report)
<1>1. p \in [M -> Int] /\ c.size \in Nat /\ c.level \in Nat
    BY QualityType DEF WellFormed
<1>2. Dominates(c, c) =>
        c.size < c.size \/ (\E m \in DOMAIN p : p[m] > p[m]) \/ c.level < c.level
    BY DEF Dominates
<1> HIDE DEF p
<1> QED BY <1>1, <1>2

Dominators(C, c) == {d \in C : Dominates(d, c)}

\* Among the sizes of finite sets there is a least one.
LEMMA FewestDominators ==
    ASSUME NEW C, IsFiniteSet(C), NEW S, S \subseteq C, S # {}
    PROVE  \E f \in S : \A d \in S :
              ~(Cardinality(Dominators(C, d)) < Cardinality(Dominators(C, f)))
<1> DEFINE card(d) == Cardinality(Dominators(C, d))
           T == {card(d) : d \in S}
<1>1. \A d \in S : card(d) \in Nat
    <2> SUFFICES ASSUME NEW d \in S PROVE card(d) \in Nat
        OBVIOUS
    <2>1. Dominators(C, d) \in SUBSET C
        BY DEF Dominators
    <2>2. IsFiniteSet(Dominators(C, d))
        BY <2>1, FS_Subset
    <2> QED BY <2>2, FS_CardinalityType
<1>2. T \subseteq Nat /\ T # {}
    BY <1>1
<1>3. PICK n \in T : \A m \in T : ~(<<m, n>> \in OpToRel(<, Nat))
    BY <1>2, NatLessThanWellFounded, WFMin
<1>4. \A m \in T : ~(m < n)
    BY <1>2, <1>3 DEF OpToRel
<1>5. PICK f \in S : n = card(f)
    BY <1>3
<1>6. \A d \in S : ~(card(d) < card(f))
    BY <1>4, <1>5
<1> QED BY <1>6

\* Every candidate that pruning drops is dominated by one that it keeps.
THEOREM FrontierCovers ==
    ASSUME NEW C, NEW M, IsFiniteSet(C), WellFormed(C, M), NEW c \in C
    PROVE  \E f \in ParetoFrontier(C) : f = c \/ Dominates(f, c)
<1> DEFINE S == Dominators(C, c) \union {c}
<1>1. S \subseteq C /\ S # {}
    BY DEF Dominators
<1>2. PICK f \in S : \A d \in S :
          ~(Cardinality(Dominators(C, d)) < Cardinality(Dominators(C, f)))
    BY <1>1, FewestDominators, Zenon
<1>3. f = c \/ Dominates(f, c)
    BY DEF Dominators
<1>4. f \in ParetoFrontier(C)
    <2> SUFFICES ASSUME NEW e \in C, Dominates(e, f) PROVE FALSE
        BY <1>1 DEF ParetoFrontier
    <2>1. e \in S
        <3>1. CASE f = c
            BY <3>1 DEF Dominators
        <3>2. CASE f # c
            <4>1. Dominates(f, c) /\ f \in C
                BY <3>2 DEF Dominators
            <4>2. Dominates(e, c)
                BY <4>1, DominatesTransitive
            <4> QED BY <4>2 DEF Dominators
        <3> QED BY <3>1, <3>2
    <2>2. Dominators(C, e) \subseteq Dominators(C, f)
        <3> SUFFICES ASSUME NEW d \in C, Dominates(d, e) PROVE Dominates(d, f)
            BY DEF Dominators
        <3>1. f \in C
            BY <1>1
        <3> QED BY <3>1, DominatesTransitive
    <2>3. e \in Dominators(C, f) /\ e \notin Dominators(C, e)
        BY DominatesIrreflexive DEF Dominators
    <2>4. Dominators(C, f) \in SUBSET C /\ Dominators(C, e) \in SUBSET Dominators(C, f)
        BY <2>2 DEF Dominators
    <2>5. IsFiniteSet(Dominators(C, f))
        BY <2>4, FS_Subset
    <2>6. /\ Cardinality(Dominators(C, e)) <= Cardinality(Dominators(C, f))
          /\ Cardinality(Dominators(C, f)) = Cardinality(Dominators(C, e))
                => Dominators(C, f) = Dominators(C, e)
          /\ IsFiniteSet(Dominators(C, e))
        BY <2>4, <2>5, FS_Subset
    <2>7. Cardinality(Dominators(C, e)) # Cardinality(Dominators(C, f))
        BY <2>3, <2>6
    <2>8. Cardinality(Dominators(C, e)) \in Nat /\ Cardinality(Dominators(C, f)) \in Nat
        BY <2>5, <2>6, FS_CardinalityType
    <2>9. Cardinality(Dominators(C, e)) < Cardinality(Dominators(C, f))
        BY <2>6, <2>7, <2>8
    <2> QED BY <1>2, <2>1, <2>9
<1> QED BY <1>3, <1>4
-----------------------------------------------------------------------------
(* The selection.                                                          *)

\* The metrics a measurement reports.
Reported(type) ==
    CASE type = "TEXT"  -> {}
      [] type = "IMAGE" -> {"ms_ssim", "psnr"}
      [] type = "AUDIO" -> {"duration", "clipping"}
      [] type = "VIDEO" -> {"vmaf", "ssim", "duration"}

LEMMA GatedAreReported ==
    \A t \in ContentTypes : /\ GatedMetrics(t) \subseteq Reported(t)
                            /\ "vmaf" \in Reported(t) => "ssim" \in Reported(t)
BY DEF ContentTypes, GatedMetrics, Reported

LEMMA ReportType ==
    ASSUME NEW t \in ContentTypes, NEW report \in Reports(t)
    PROVE  report \in [Reported(t) -> Int]
<1>1. /\ Marks["vmaf"] \subseteq Int /\ Marks["ssim"] \subseteq Int
      /\ Marks["duration"] \subseteq Int /\ Marks["clipping"] \subseteq Int
      /\ Marks["ms_ssim"] \subseteq Int /\ Marks["psnr"] \subseteq Int
      /\ Unreported \in Int
    BY SelectionAssumption DEF Unreported
<1>2. CASE t = "TEXT"
    BY <1>2 DEF Reports, Reported
<1>3. CASE t = "IMAGE"
    BY <1>1, <1>3 DEF Reports, Reported
<1>4. CASE t = "AUDIO"
    BY <1>1, <1>4 DEF Reports, Reported
<1>5. CASE t = "VIDEO"
    BY <1>1, <1>5 DEF Reports, Reported
<1> QED BY <1>2, <1>3, <1>4, <1>5 DEF ContentTypes

LEMMA PolicyType ==
    ASSUME NEW t \in ContentTypes, NEW floor \in Policies(t)
    PROVE  floor \in [GatedMetrics(t) -> Int]
<1>1. \A m \in {"ms_ssim", "vmaf", "ssim", "duration", "clipping"} :
        Thresholds(t, m) \subseteq Int
    <2>1. \A m \in {"ms_ssim", "vmaf", "ssim", "duration", "clipping"} :
            Marks[m] \subseteq Int /\ PlatformFloor(t, m) \in Int
        BY SelectionAssumption DEF PlatformFloor
    <2> QED BY <2>1 DEF Thresholds
<1>2. CASE t = "TEXT"
    BY <1>2 DEF Policies, GatedMetrics
<1>3. CASE t = "IMAGE"
    BY <1>1, <1>3 DEF Policies, GatedMetrics
<1>4. CASE t = "AUDIO"
    BY <1>1, <1>4 DEF Policies, GatedMetrics
<1>5. CASE t = "VIDEO"
    BY <1>1, <1>5 DEF Policies, GatedMetrics
<1> QED BY <1>2, <1>3, <1>4, <1>5 DEF ContentTypes

\* What dominates a candidate within the policy, and was measured like it, is
\* within it too.
LEMMA DominatorPasses ==
    ASSUME NEW C, NEW M, WellFormed(C, M), NEW c \in C, NEW f \in C,
           Dominates(f, c), FallsBack(f.report) = FallsBack(c.report),
           NEW G \in SUBSET M, NEW floor \in [G -> Int], PassesPolicy(c, floor)
    PROVE  PassesPolicy(f, floor)
<1> SUFFICES ASSUME NEW m \in G \ {Skipped(f.report)} PROVE f.report[m] >= floor[m]
    BY DEF PassesPolicy, Passes
<1>1. /\ c.report \in [M -> Int] /\ f.report \in [M -> Int] /\ m \in M
      /\ floor[m] \in Int
    BY DEF WellFormed
<1>2. m # Skipped(c.report)
    BY DEF Skipped
<1>3. c.report[m] >= floor[m]
    BY <1>2 DEF PassesPolicy, Passes
<1>4. Quality(f.report)[m] = f.report[m] /\ Quality(c.report)[m] = c.report[m]
    BY <1>1 DEF Quality, Skipped
<1>5. m \in DOMAIN Quality(f.report)
    BY <1>1 DEF Quality
<1>6. f.report[m] >= c.report[m]
    BY <1>4, <1>5 DEF Dominates
<1>7. c.report[m] \in Int /\ f.report[m] \in Int
    BY <1>1
<1> QED BY <1>1, <1>3, <1>6, <1>7

\* The frontier of C within the policy: what ApplyPolicy leaves of it.
Kept(C, floor) == {c \in ParetoFrontier(C) : PassesPolicy(c, floor)}

\* c is outranked in C by a candidate that was measured the other way.
OutrankedIn(C, floor, c) ==
    \E d \in C : /\ Dominates(d, c) /\ FallsBack(d.report) # FallsBack(c.report)
                 /\ ~PassesPolicy(d, floor)

\* Every measured candidate within policy and limit that is not outranked has one
\* in the kept part that is within both and no larger.
LEMMA KeptCovers ==
    ASSUME NEW C, NEW M, IsFiniteSet(C), WellFormed(C, M),
           NEW G \in SUBSET M, NEW floor \in [G -> Int],
           NEW c \in C, PassesPolicy(c, floor), ~OutrankedIn(C, floor, c)
    PROVE  \E f \in Kept(C, floor) : f.size <= c.size
<1>1. PICK f \in ParetoFrontier(C) : f = c \/ Dominates(f, c)
    BY FrontierCovers
<1>2. f \in C /\ c.size \in Nat
    BY DEF ParetoFrontier, WellFormed
<1>3. CASE f = c
    BY <1>2, <1>3 DEF Kept
<1>4. CASE Dominates(f, c)
    <2>1. PassesPolicy(f, floor)
        <3>1. CASE FallsBack(f.report) = FallsBack(c.report)
            BY <1>2, <1>4, <3>1, DominatorPasses
        <3>2. CASE FallsBack(f.report) # FallsBack(c.report)
            BY <1>2, <1>4, <3>2 DEF OutrankedIn
        <3> QED BY <3>1, <3>2
    <2>2. f.size <= c.size
        BY <1>4 DEF Dominates
    <2> QED BY <2>1, <2>2 DEF Kept
<1> QED BY <1>1, <1>3, <1>4

\* The levels of every adapter are numbers, and there is at least one.
Levelled(a) == a.levels \in Seq(Nat) /\ Len(a.levels) \in Nat \ {0}

LEMMA AdapterLevels ==
    ASSUME NEW t \in ContentTypes, NEW k \in DOMAIN AdaptersOf(t)
    PROVE  Levelled(AdaptersOf(t)[k])
<1>1. CASE t = "TEXT"
    <2>1. AdaptersOf(t) = <<Brotli, Zstandard>>
        BY <1>1 DEF AdaptersOf
    <2>2. k = 1 \/ k = 2
        BY <2>1
    <2>3. Levelled(Brotli)
        BY DEF Brotli, Adapter, Levelled
    <2>4. Levelled(Zstandard)
        BY DEF Zstandard, Adapter, Levelled
    <2> QED BY <2>1, <2>2, <2>3, <2>4
<1>2. CASE t = "IMAGE"
    <2>1. AdaptersOf(t) = <<Avif, JpegXl, CodLite, CoolChicImage>>
        BY <1>2 DEF AdaptersOf
    <2>2. k = 1 \/ k = 2 \/ k = 3 \/ k = 4
        BY <2>1
    <2>3. Levelled(Avif)
        BY DEF Avif, Adapter, Levelled
    <2>4. Levelled(JpegXl)
        BY DEF JpegXl, Adapter, Levelled
    <2>5. Levelled(CodLite)
        BY DEF CodLite, Adapter, Levelled
    <2>6. Levelled(CoolChicImage)
        BY DEF CoolChicImage, Adapter, Levelled
    <2> QED BY <2>1, <2>2, <2>3, <2>4, <2>5, <2>6
<1>3. CASE t = "AUDIO"
    <2>1. AdaptersOf(t) = <<Opus, Snac, Mimi, Encodec>>
        BY <1>3 DEF AdaptersOf
    <2>2. k = 1 \/ k = 2 \/ k = 3 \/ k = 4
        BY <2>1
    <2>3. Levelled(Opus)
        BY DEF Opus, Adapter, Levelled
    <2>4. Levelled(Snac)
        BY DEF Snac, Adapter, Levelled
    <2>5. Levelled(Mimi)
        BY DEF Mimi, Adapter, Levelled
    <2>6. Levelled(Encodec)
        BY DEF Encodec, Adapter, Levelled
    <2> QED BY <2>1, <2>2, <2>3, <2>4, <2>5, <2>6
<1>4. CASE t = "VIDEO"
    <2>1. AdaptersOf(t) = <<Av1, CoolChicVideo, HiNerv, LivePortrait>>
        BY <1>4 DEF AdaptersOf
    <2>2. k = 1 \/ k = 2 \/ k = 3 \/ k = 4
        BY <2>1
    <2>3. Levelled(Av1)
        BY DEF Av1, Adapter, Levelled
    <2>4. Levelled(CoolChicVideo)
        BY DEF CoolChicVideo, Adapter, Levelled
    <2>5. Levelled(HiNerv)
        BY DEF HiNerv, Adapter, Levelled
    <2>6. Levelled(LivePortrait)
        BY DEF LivePortrait, Adapter, Levelled
    <2> QED BY <2>1, <2>2, <2>3, <2>4, <2>5, <2>6
<1> QED BY <1>1, <1>2, <1>3, <1>4 DEF ContentTypes

Metrics == Reported(upload.type)

AdapterInv ==
    /\ upload \in Uploads
    /\ turn \in Nat \ {0} /\ level \in Nat
    /\ adapter = "closed" => level = 0
    /\ adapter # "closed" =>
          turn \in DOMAIN AdaptersOf(upload.type) /\ level < LevelsTried(CurrentAdapter)

MeasuredInv == IsFiniteSet(measured) /\ WellFormed(measured, Metrics)

\* What each stage leaves to the next.
StageInv ==
    /\ phase # "done" => outcome = "none"
    /\ phase = "policy" => candidates = ParetoFrontier(measured)
    /\ phase = "select" =>
          /\ thresholds \in [GatedMetrics(upload.type) -> Int]
          /\ candidates = Kept(measured, thresholds)
          /\ candidates # {}

SelectionInv == AdapterInv /\ MeasuredInv /\ StageInv /\ SelectionIsBest

\* What is left when an adapter has been used up.
LEMMA LevelsPositive ==
    ASSUME NEW t \in ContentTypes, NEW k \in DOMAIN AdaptersOf(t)
    PROVE  LevelsTried(AdaptersOf(t)[k]) \in Nat \ {0}
           /\ LevelsTried(AdaptersOf(t)[k]) <= Len(AdaptersOf(t)[k].levels)
BY AdapterLevels, SelectionAssumption DEF LevelsTried, Levelled

LEMMA AdapterSequence == \A t \in ContentTypes : DOMAIN AdaptersOf(t) = 1..Len(AdaptersOf(t))
<1>1. AdaptersOf("TEXT") = <<Brotli, Zstandard>>
    BY DEF AdaptersOf
<1>2. AdaptersOf("IMAGE") = <<Avif, JpegXl, CodLite, CoolChicImage>>
    BY DEF AdaptersOf
<1>3. AdaptersOf("AUDIO") = <<Opus, Snac, Mimi, Encodec>>
    BY DEF AdaptersOf
<1>4. AdaptersOf("VIDEO") = <<Av1, CoolChicVideo, HiNerv, LivePortrait>>
    BY DEF AdaptersOf
<1> QED BY <1>1, <1>2, <1>3, <1>4 DEF ContentTypes

LEMMA SelectionInvInit == Init => SelectionInv
<1> SUFFICES ASSUME Init PROVE SelectionInv
    OBVIOUS
<1>1. upload \in Uploads /\ phase # "policy" /\ phase # "select" /\ outcome = "none"
      /\ turn = 1 /\ level = 0 /\ adapter = "closed" /\ measured = {}
    BY SelectionAssumption DEF Init, SelectionInit
<1>2. IsFiniteSet(measured)
    BY <1>1, FS_EmptySet
<1>3. "vmaf" \in Metrics => "ssim" \in Metrics
    BY <1>1, GatedAreReported, SelectionAssumption DEF Metrics
<1> QED BY <1>1, <1>2, <1>3 DEF SelectionInv, AdapterInv, MeasuredInv, WellFormed,
        StageInv, SelectionIsBest

\* The verdict of a list of checks is the error of one of them, if any.
LEMMA FirstErrorIsOne ==
    ASSUME NEW checks, DOMAIN checks \subseteq Nat
    PROVE  FirstError(checks) = "none"
           \/ \E i \in DOMAIN checks : FirstError(checks) = checks[i].error
<1> DEFINE failing == {i \in DOMAIN checks : ~checks[i].passes}
<1>1. CASE failing = {}
    BY <1>1 DEF FirstError
<1>2. CASE failing # {}
    <2>1. PICK n \in failing : \A m \in failing : ~(<<m, n>> \in OpToRel(<, Nat))
        BY <1>2, NatLessThanWellFounded, WFMin
    <2>2. \A m \in failing : m \in Nat /\ ~(m < n)
        BY <2>1 DEF OpToRel
    <2>3. \A m \in failing : n <= m
        BY <2>2
    <2>4. (CHOOSE i \in failing : \A k \in failing : i <= k) \in failing
        BY <2>3
    <2> QED BY <1>2, <2>4 DEF FirstError
<1> QED BY <1>1, <1>2

Verdicts == {"COMPLETED", "NO_QUALITY_GATED_CANDIDATE", "TARGET_BYTES_UNSATISFIED"}

\* What no check reports as its error.
Reserved == {"COMPLETED", "NO_QUALITY_GATED_CANDIDATE", "TARGET_BYTES_UNSATISFIED",
             "input contract", "none"}

LEMMA ContentErrorIsNoVerdict ==
    ContentError(upload) \notin Verdicts \union {"input contract"}
<1> DEFINE mime == DetectedMime(upload.type, upload.signature)
           checks == <<
            Check(mime # "application/octet-stream", "UNSUPPORTED_CONTENT"),
            Check(upload.mime = mime, "MIME_MISMATCH"),
            Check(MimeContentType(mime) = upload.type, "CONTENT_TYPE_MISMATCH"),
            Check(upload.suffix \in MimeExtensions(mime) \union {""},
                  "EXTENSION_MISMATCH") >>
<1>1. ContentError(upload) = FirstError(checks)
    BY DEF ContentError
<1>2. DOMAIN checks = 1..4
    OBVIOUS
<1>3. \A i \in 1..4 : checks[i].error \notin Reserved
    <2> HIDE DEF mime
    <2>1. /\ checks[1].error = "UNSUPPORTED_CONTENT"
          /\ checks[2].error = "MIME_MISMATCH"
          /\ checks[3].error = "CONTENT_TYPE_MISMATCH"
          /\ checks[4].error = "EXTENSION_MISMATCH"
        BY DEF Check
    <2> HIDE DEF checks
    <2>2. \A i \in 1..4 : checks[i].error \in
            {"UNSUPPORTED_CONTENT", "MIME_MISMATCH", "CONTENT_TYPE_MISMATCH",
             "EXTENSION_MISMATCH"}
        BY <2>1
    <2> QED BY <2>2 DEF Reserved
<1> HIDE DEF checks
<1>4. FirstError(checks) = "none" \/ \E i \in 1..4 : FirstError(checks) = checks[i].error
    BY <1>2, FirstErrorIsOne
<1> QED BY <1>1, <1>3, <1>4 DEF Verdicts, Reserved

LEMMA MediaLimitErrorIsNoVerdict ==
    MediaLimitError(upload) \notin Verdicts \union {"input contract"}
<1> DEFINE u == upload
           pixels == u.width * u.height
           maxPixels == IF u.type = "IMAGE" THEN Limits.imagePixels
                                            ELSE Limits.videoPixels
           maxSeconds == IF u.type = "AUDIO" THEN Limits.audioSeconds
                                             ELSE Limits.videoSeconds
           isVideo == u.type = "VIDEO"
           checks == <<
            Check(u.type = "TEXT" \/ u.stream, "MEDIA_PROBE_FAILED"),
            Check(HasPicture(u.type) => Unreported \notin {u.width, u.height},
                  "MEDIA_PROBE_FAILED"),
            Check(HasPicture(u.type) => pixels \in 1..maxPixels,
                  "PIXEL_LIMIT_EXCEEDED"),
            Check(HasDuration(u.type) => u.seconds # Unreported,
                  "MEDIA_PROBE_FAILED"),
            Check(HasDuration(u.type) => u.seconds <= maxSeconds,
                  "DURATION_LIMIT_EXCEEDED"),
            Check(isVideo => FrameCount(u) # Unreported, "MEDIA_PROBE_FAILED"),
            Check(isVideo => FrameCount(u) <= Limits.videoFrames,
                  "FRAME_LIMIT_EXCEEDED") >>
<1>1. MediaLimitError(upload) = FirstError(checks)
    BY DEF MediaLimitError
<1>2. DOMAIN checks = 1..7
    OBVIOUS
<1>3. \A i \in 1..7 : checks[i].error \notin Reserved
    <2>1. /\ checks[1].error = "MEDIA_PROBE_FAILED"
          /\ checks[2].error = "MEDIA_PROBE_FAILED"
          /\ checks[3].error = "PIXEL_LIMIT_EXCEEDED"
          /\ checks[4].error = "MEDIA_PROBE_FAILED"
          /\ checks[5].error = "DURATION_LIMIT_EXCEEDED"
          /\ checks[6].error = "MEDIA_PROBE_FAILED"
          /\ checks[7].error = "FRAME_LIMIT_EXCEEDED"
        BY DEF Check
    <2> HIDE DEF checks
    <2>2. \A i \in 1..7 : checks[i].error \in
            {"MEDIA_PROBE_FAILED", "PIXEL_LIMIT_EXCEEDED", "DURATION_LIMIT_EXCEEDED",
             "FRAME_LIMIT_EXCEEDED"}
        BY <2>1
    <2> QED BY <2>2 DEF Reserved
<1> HIDE DEF checks
<1>4. FirstError(checks) = "none" \/ \E i \in 1..7 : FirstError(checks) = checks[i].error
    BY <1>2, FirstErrorIsOne
<1> QED BY <1>1, <1>3, <1>4 DEF Verdicts, Reserved

\* Nothing this module compares is touched.
LEMMA SelectionInvStutter ==
    ASSUME SelectionInv, UNCHANGED selectionVars
    PROVE  SelectionInv'
<1>1. UNCHANGED <<phase, upload, thresholds, target, turn, adapter, level, measured,
                  candidates, chosen, outcome>>
    BY DEF selectionVars
<1>2. AdapterInv' /\ MeasuredInv'
    BY <1>1 DEF SelectionInv, AdapterInv, MeasuredInv, CurrentAdapter, LevelsTried,
       Metrics, WellFormed
<1>3. StageInv'
    BY <1>1 DEF SelectionInv, StageInv, Kept, ParetoFrontier, PassesPolicy
<1>4. SelectionIsBest'
    BY <1>1 DEF SelectionInv, SelectionIsBest, Outranked, PassesPolicy, Fitting
<1> QED BY <1>2, <1>3, <1>4 DEF SelectionInv

\* A stage that only ends the run with a verdict of its own, or goes on to a
\* stage for which StageInv asks nothing.
LEMMA StagePreserves ==
    ASSUME SelectionInv, Stay,
           \/ outcome' \notin Verdicts /\ phase' = "done"
           \/ outcome' = outcome /\ phase # "done"
                /\ phase' \in {"validate", "limits", "generate"}
    PROVE  SelectionInv'
<1>1. AdapterInv' /\ MeasuredInv'
    BY DEF SelectionInv, AdapterInv, MeasuredInv, Stay, CurrentAdapter, LevelsTried,
           Metrics, WellFormed
<1>2. StageInv'
    BY DEF SelectionInv, StageInv
<1>3. outcome' \notin Verdicts
    BY DEF SelectionInv, StageInv, Verdicts
<1>4. SelectionIsBest'
    BY <1>3 DEF SelectionIsBest, Verdicts
<1> QED BY <1>1, <1>2, <1>4 DEF SelectionInv

\* Steps inside the generation: the candidates are not looked at yet.
LEMMA GenerationPreserves ==
    ASSUME SelectionInv, phase = "generate", UNCHANGED <<phase, outcome>>,
           AdapterInv', MeasuredInv'
    PROVE  SelectionInv'
BY DEF SelectionInv, StageInv, SelectionIsBest

LEMMA NextAdapterInv ==
    ASSUME AdapterInv, NextAdapter, upload' = upload
    PROVE  AdapterInv'
BY DEF AdapterInv, NextAdapter

LEMMA OpenAdapterPreserves ==
    ASSUME SelectionInv, OpenAdapter
    PROVE  SelectionInv'
<1> USE DEF OpenAdapter
<1>1. PICK seconds \in PreparedSeconds(upload) : Open(seconds)
    OBVIOUS
<1>2. AdapterInv'
    <2>1. CASE NextAdapter
        BY <2>1, NextAdapterInv DEF SelectionInv
    <2>2. CASE Use(CurrentAdapter, seconds)
        <3>1. upload.type \in ContentTypes
            BY SelectionAssumption DEF SelectionInv, AdapterInv
        <3>2. turn \in DOMAIN AdaptersOf(upload.type)
            BY <3>1, AdapterSequence DEF SelectionInv, AdapterInv
        <3>3. level < LevelsTried(CurrentAdapter)
            BY <3>1, <3>2, LevelsPositive DEF SelectionInv, AdapterInv, CurrentAdapter
        <3> QED BY <2>2, <3>2, <3>3
                DEF Use, SelectionInv, AdapterInv, CurrentAdapter, LevelsTried
    <2> QED BY <1>1, <2>1, <2>2 DEF Open
<1>3. MeasuredInv'
    BY DEF SelectionInv, MeasuredInv, Metrics, WellFormed
<1> QED BY <1>2, <1>3, GenerationPreserves

LEMMA CheckAdapterPreserves ==
    ASSUME SelectionInv, CheckAdapter
    PROVE  SelectionInv'
<1>1. AdapterInv' /\ MeasuredInv'
    BY DEF CheckAdapter, SelectionInv, AdapterInv, MeasuredInv, CurrentAdapter,
           LevelsTried, Metrics, WellFormed
<1> QED BY <1>1, GenerationPreserves DEF CheckAdapter

LEMMA MakeCandidatePreserves ==
    ASSUME SelectionInv, MakeCandidate
    PROVE  SelectionInv'
<1> DEFINE a == CurrentAdapter
           M == Reported(upload.type)
<1>1. /\ upload.type \in ContentTypes /\ turn \in DOMAIN AdaptersOf(upload.type)
      /\ level \in Nat /\ level < LevelsTried(a)
    BY SelectionAssumption DEF MakeCandidate, SelectionInv, AdapterInv
<1>2. LevelsTried(a) \in Nat /\ LevelsTried(a) <= Len(a.levels) /\ a.levels \in Seq(Nat)
    BY <1>1, LevelsPositive, AdapterLevels DEF CurrentAdapter, Levelled
<1>3. AdapterInv'
    <2>1. CASE level + 1 = LevelsTried(a)
        BY <2>1, NextAdapterInv DEF MakeCandidate, SelectionInv
    <2>2. CASE level + 1 # LevelsTried(a)
        <3>1. level' = level + 1 /\ adapter' = "open" /\ turn' = turn /\ upload' = upload
            BY <2>2 DEF MakeCandidate
        <3>2. level + 1 < LevelsTried(a)
            BY <1>1, <1>2, <2>2
        <3>3. CurrentAdapter' = CurrentAdapter
            BY <3>1 DEF CurrentAdapter
        <3>4. LevelsTried(CurrentAdapter)' = LevelsTried(CurrentAdapter)
            BY <3>3 DEF LevelsTried
        <3> QED BY <1>1, <3>1, <3>2, <3>4 DEF SelectionInv, AdapterInv
    <2> QED BY <2>1, <2>2
<1>4. MeasuredInv'
    <2>1. PICK size \in Sizes, report \in Reports(upload.type) :
            measured' \in {measured, measured \union
                {[codec |-> a.id, level |-> a.levels[level + 1],
                  size |-> size, report |-> report]}}
        BY Zenon DEF MakeCandidate
    <2> DEFINE c == [codec |-> a.id, level |-> a.levels[level + 1],
                     size |-> size, report |-> report]
    <2>2. level + 1 \in 1..Len(a.levels)
        BY <1>1, <1>2
    <2>3. c.level \in Nat
        BY <1>2, <2>2
    <2>4. c.size \in Nat /\ c.report \in [M -> Int]
        BY <1>1, SelectionAssumption, ReportType
    <2> HIDE DEF c
    <2>5. IsFiniteSet(measured) /\ WellFormed(measured, M)
        BY DEF SelectionInv, MeasuredInv, Metrics
    <2>6. IsFiniteSet(measured \union {c})
        BY <2>5, FS_AddElement
    <2>7. IsFiniteSet(measured') /\ WellFormed(measured', M)
        BY <2>1, <2>3, <2>4, <2>5, <2>6 DEF WellFormed, c
    <2>8. upload' = upload
        BY DEF MakeCandidate
    <2> QED BY <2>7, <2>8 DEF MeasuredInv, Metrics
<1> QED BY <1>3, <1>4, GenerationPreserves DEF MakeCandidate

LEMMA PrunePreserves ==
    ASSUME SelectionInv, Prune
    PROVE  SelectionInv'
<1>1. AdapterInv' /\ MeasuredInv'
    BY DEF Prune, SelectionInv, AdapterInv, MeasuredInv, CurrentAdapter,
           LevelsTried, Metrics, WellFormed
<1>2. StageInv'
    BY DEF Prune, GoOn, SelectionInv, StageInv, ParetoFrontier, Dominates
<1>3. SelectionIsBest'
    BY DEF Prune, GoOn, SelectionInv, StageInv, SelectionIsBest
<1> QED BY <1>1, <1>2, <1>3 DEF SelectionInv

LEMMA ApplyPolicyPreserves ==
    ASSUME SelectionInv, ApplyPolicy
    PROVE  SelectionInv'
<1> DEFINE G == GatedMetrics(upload.type)
           M == Reported(upload.type)
<1>1. AdapterInv' /\ MeasuredInv'
    BY DEF ApplyPolicy, SelectionInv, AdapterInv, MeasuredInv, CurrentAdapter,
           LevelsTried, Metrics, WellFormed
<1>2. PICK floor \in Policies(upload.type) :
        LET passing == {c \in candidates : PassesPolicy(c, floor)}
        IN  /\ thresholds' = floor
            /\ candidates' = passing
            /\ IF passing = {} THEN Finish("NO_QUALITY_GATED_CANDIDATE")
                               ELSE GoOn("select")
    BY DEF ApplyPolicy
<1>3. floor \in [G -> Int]
    BY PolicyType, SelectionAssumption DEF SelectionInv, AdapterInv
<1>4. candidates = ParetoFrontier(measured)
    BY DEF ApplyPolicy, SelectionInv, StageInv
<1>5. candidates' = Kept(measured, floor) /\ thresholds' = floor
    BY <1>2, <1>4 DEF Kept
<1>6. measured' = measured /\ upload' = upload
    BY DEF ApplyPolicy
<1>7. Kept(measured', thresholds') = Kept(measured, floor)
    BY <1>5, <1>6
<1>8. CASE candidates' = {}
    <2>1. phase' = "done" /\ outcome' = "NO_QUALITY_GATED_CANDIDATE"
        BY <1>2, <1>8 DEF Finish
    <2>2. \A c \in measured : PassesPolicy(c, floor) => OutrankedIn(measured, floor, c)
        <3> SUFFICES ASSUME NEW c \in measured, PassesPolicy(c, floor),
                            ~OutrankedIn(measured, floor, c)
                     PROVE  FALSE
            OBVIOUS
        <3>1. G \in SUBSET M
            BY GatedAreReported, SelectionAssumption DEF SelectionInv, AdapterInv
        <3>2. IsFiniteSet(measured) /\ WellFormed(measured, M)
            BY DEF SelectionInv, MeasuredInv, Metrics
        <3>3. \E f \in Kept(measured, floor) : f.size <= c.size
            BY <1>3, <3>1, <3>2, KeptCovers
        <3> QED BY <3>3, <1>5, <1>8
    <2>3. StageInv'
        BY <2>1 DEF StageInv
    <2>4. SelectionIsBest'
        BY <2>1, <2>2, <1>5, <1>6 DEF SelectionIsBest, Outranked, OutrankedIn
    <2> QED BY <1>1, <2>3, <2>4 DEF SelectionInv
<1>9. CASE candidates' # {}
    <2>1. phase' = "select" /\ outcome' = "none"
        BY <1>2, <1>9 DEF GoOn, ApplyPolicy, SelectionInv, StageInv
    <2>2. StageInv'
        BY <2>1, <1>3, <1>5, <1>6, <1>7, <1>9 DEF StageInv
    <2>3. SelectionIsBest'
        BY <2>1 DEF SelectionIsBest
    <2> QED BY <1>1, <2>2, <2>3 DEF SelectionInv
<1> QED BY <1>8, <1>9

LEMMA SelectCandidatePreserves ==
    ASSUME SelectionInv, SelectCandidate
    PROVE  SelectionInv'
<1> DEFINE G == GatedMetrics(upload.type)
           M == Reported(upload.type)
           Good == {c \in measured : PassesPolicy(c, thresholds)}
           Lost(c) == OutrankedIn(measured, thresholds, c)
<1>1. AdapterInv' /\ MeasuredInv'
    BY DEF SelectCandidate, SelectionInv, AdapterInv, MeasuredInv, CurrentAdapter,
           LevelsTried, Metrics, WellFormed
<1>2. PICK limit \in Targets :
        LET fitting == Fitting(candidates, limit)
        IN  /\ target' = limit
            /\ \/ /\ fitting = {}
                  /\ Finish("TARGET_BYTES_UNSATISFIED") /\ UNCHANGED chosen
               \/ /\ \E c \in fitting : ChooseSmallest(fitting, c) /\ chosen' = c
                  /\ Finish("COMPLETED")
    BY DEF SelectCandidate
<1>3. /\ candidates = Kept(measured, thresholds) /\ candidates # {}
      /\ thresholds \in [G -> Int]
      /\ IsFiniteSet(measured) /\ WellFormed(measured, M)
      /\ G \in SUBSET M
    BY GatedAreReported, SelectionAssumption
       DEF SelectCandidate, SelectionInv, StageInv, MeasuredInv, Metrics, AdapterInv
<1>4. /\ measured' = measured /\ thresholds' = thresholds /\ target' = limit
      /\ phase' = "done"
    BY <1>2 DEF SelectCandidate, Finish
<1>5. limit = Unlimited \/ limit \in Nat
    BY SelectionAssumption
<1>6. candidates \subseteq Good
    BY <1>3 DEF Kept, ParetoFrontier
<1>7. \A c \in Good : c.size \in Nat /\ (Lost(c) \/ \E f \in candidates : f.size <= c.size)
    BY <1>3, KeptCovers DEF WellFormed
<1>8. \A c \in Fitting(Good, limit) :
        Lost(c) \/ \E f \in Fitting(candidates, limit) : f.size <= c.size
    <2> SUFFICES ASSUME NEW c \in Good, limit = Unlimited \/ c.size <= limit, ~Lost(c)
                 PROVE  \E f \in Fitting(candidates, limit) : f.size <= c.size
        BY DEF Fitting
    <2>1. PICK f \in candidates : f.size <= c.size
        BY <1>7
    <2>2. f.size \in Nat /\ c.size \in Nat
        BY <1>6, <1>7
    <2>3. f \in Fitting(candidates, limit)
        BY <1>5, <2>1, <2>2 DEF Fitting
    <2> QED BY <2>1, <2>3
<1>9. Fitting(candidates, limit) \subseteq Fitting(Good, limit)
    BY <1>6 DEF Fitting
<1>10. StageInv'
    BY <1>4 DEF StageInv
<1>11. SelectionIsBest'
    <2>1. CASE Fitting(candidates, limit) = {}
        <3>1. outcome' = "TARGET_BYTES_UNSATISFIED"
            BY <1>2, <2>1 DEF Finish
        <3>2. Good # {} /\ \A c \in Fitting(Good, limit) : Lost(c)
            BY <1>3, <1>6, <1>8, <2>1
        <3> QED BY <1>4, <3>1, <3>2 DEF SelectionIsBest, Outranked, OutrankedIn
    <2>2. CASE Fitting(candidates, limit) # {}
        <3>1. /\ outcome' = "COMPLETED"
              /\ chosen' \in Fitting(candidates, limit)
              /\ \A d \in Fitting(candidates, limit) : chosen'.size <= d.size
            BY <1>2, <2>2 DEF Finish, ChooseSmallest
        <3>2. chosen' \in Fitting(Good, limit)
            BY <1>9, <3>1
        <3>3. \A c \in Fitting(Good, limit) : chosen'.size <= c.size \/ Lost(c)
            <4> SUFFICES ASSUME NEW c \in Fitting(Good, limit), ~Lost(c)
                         PROVE  chosen'.size <= c.size
                OBVIOUS
            <4>1. PICK f \in Fitting(candidates, limit) : f.size <= c.size
                BY <1>8
            <4>2. c \in Good /\ f \in Good /\ chosen' \in Good
                BY <1>9, <3>2 DEF Fitting
            <4>3. c.size \in Nat /\ f.size \in Nat /\ chosen'.size \in Nat
                BY <1>7, <4>2
            <4>4. chosen'.size <= f.size
                BY <3>1
            <4> QED BY <4>1, <4>3, <4>4
        <3> QED BY <1>4, <3>1, <3>2, <3>3 DEF SelectionIsBest, Outranked, OutrankedIn
    <2> QED BY <2>1, <2>2
<1> QED BY <1>1, <1>10, <1>11 DEF SelectionInv

LEMMA SelectionInvNext ==
    ASSUME SelectionInv, [Next]_vars
    PROVE  SelectionInv'
<1>1. CASE CheckProfile
    <2>1. \/ outcome' \notin Verdicts /\ phase' = "done"
          \/ outcome' = outcome /\ phase # "done" /\ phase' = "validate"
        BY <1>1 DEF CheckProfile, Finish, GoOn, Verdicts
    <2> QED BY <1>1, <2>1, StagePreserves DEF CheckProfile
<1>2. CASE ValidateContent
    <2>1. \/ outcome' \notin Verdicts /\ phase' = "done"
          \/ outcome' = outcome /\ phase # "done" /\ phase' = "limits"
        BY <1>2, ContentErrorIsNoVerdict DEF ValidateContent, Finish, GoOn
    <2> QED BY <1>2, <2>1, StagePreserves DEF ValidateContent
<1>3. CASE CheckLimits
    <2>1. \/ outcome' \notin Verdicts /\ phase' = "done"
          \/ outcome' = outcome /\ phase # "done" /\ phase' = "generate"
        BY <1>3, MediaLimitErrorIsNoVerdict DEF CheckLimits, Finish, GoOn
    <2> QED BY <1>3, <2>1, StagePreserves DEF CheckLimits
<1>4. CASE RunRaises \/ RefuseInput
    <2>1. outcome' \notin Verdicts /\ phase' = "done" /\ Stay
        BY <1>4 DEF RunRaises, RefuseInput, Finish, Verdicts
    <2> QED BY <2>1, StagePreserves
<1>5. CASE OpenAdapter
    BY <1>5, OpenAdapterPreserves
<1>6. CASE CheckAdapter
    BY <1>6, CheckAdapterPreserves
<1>7. CASE MakeCandidate
    BY <1>7, MakeCandidatePreserves
<1>8. CASE Prune
    BY <1>8, PrunePreserves
<1>9. CASE ApplyPolicy
    BY <1>9, ApplyPolicyPreserves
<1>10. CASE SelectCandidate
    BY <1>10, SelectCandidatePreserves
<1>11. CASE Decompress \/ FetchModel \/ UNCHANGED vars
    BY <1>11, SelectionInvStutter DEF Decompress, FetchModel, vars
<1> QED BY <1>1, <1>2, <1>3, <1>4, <1>5, <1>6, <1>7, <1>8, <1>9, <1>10, <1>11
        DEF Next, Compress, SelectionStep

LEMMA SelectionInvHolds == Spec => []SelectionInv
BY SelectionInvInit, SelectionInvNext, PTL DEF Spec

\* A completed job has the smallest candidate that meets its policy and its
\* target among all that were measured, and a job that fails for want of a
\* candidate had none, candidates apart that were pruned by one of their codec
\* with SSIM for VMAF, or the other way round, which then missed the policy: for
\* any adapters' sizes and measurements, any policy and any target.
THEOREM SelectionIsBestHolds == Spec => []SelectionIsBest
BY SelectionInvHolds, PTL DEF SelectionInv
-----------------------------------------------------------------------------
(* Input contracts.                                                        *)

\* Where an adapter may be used on an input outside its contract.
Guarded(a) ==
    \/ a.asks \/ a.id = "image.coolchic"
    \/ \A u, seconds : Supports(a, u, seconds)

LEMMA AdaptersGuarded ==
    ASSUME NEW t \in ContentTypes, NEW k \in DOMAIN AdaptersOf(t)
    PROVE  Guarded(AdaptersOf(t)[k])
<1>1. CASE t = "TEXT"
    <2>1. AdaptersOf(t) = <<Brotli, Zstandard>>
        BY <1>1 DEF AdaptersOf
    <2>2. k = 1 \/ k = 2
        BY <2>1
    <2>3. Guarded(Brotli)
        BY DEF Brotli, Adapter, Guarded, Supports
    <2>4. Guarded(Zstandard)
        BY DEF Zstandard, Adapter, Guarded, Supports
    <2> QED BY <2>1, <2>2, <2>3, <2>4
<1>2. CASE t = "IMAGE"
    <2>1. AdaptersOf(t) = <<Avif, JpegXl, CodLite, CoolChicImage>>
        BY <1>2 DEF AdaptersOf
    <2>2. k = 1 \/ k = 2 \/ k = 3 \/ k = 4
        BY <2>1
    <2>3. Guarded(Avif)
        BY DEF Avif, Adapter, Guarded, Supports
    <2>4. Guarded(JpegXl)
        BY DEF JpegXl, Adapter, Guarded, Supports
    <2>5. Guarded(CodLite)
        BY DEF CodLite, Adapter, Guarded, Supports
    <2>6. Guarded(CoolChicImage)
        BY DEF CoolChicImage, Adapter, Guarded, Supports
    <2> QED BY <2>1, <2>2, <2>3, <2>4, <2>5, <2>6
<1>3. CASE t = "AUDIO"
    <2>1. AdaptersOf(t) = <<Opus, Snac, Mimi, Encodec>>
        BY <1>3 DEF AdaptersOf
    <2>2. k = 1 \/ k = 2 \/ k = 3 \/ k = 4
        BY <2>1
    <2>3. Guarded(Opus)
        BY DEF Opus, Adapter, Guarded, Supports
    <2>4. Guarded(Snac)
        BY DEF Snac, Adapter, Guarded, Supports
    <2>5. Guarded(Mimi)
        BY DEF Mimi, Adapter, Guarded, Supports
    <2>6. Guarded(Encodec)
        BY DEF Encodec, Adapter, Guarded, Supports
    <2> QED BY <2>1, <2>2, <2>3, <2>4, <2>5, <2>6
<1>4. CASE t = "VIDEO"
    <2>1. AdaptersOf(t) = <<Av1, CoolChicVideo, HiNerv, LivePortrait>>
        BY <1>4 DEF AdaptersOf
    <2>2. k = 1 \/ k = 2 \/ k = 3 \/ k = 4
        BY <2>1
    <2>3. Guarded(Av1)
        BY DEF Av1, Adapter, Guarded, Supports
    <2>4. Guarded(CoolChicVideo)
        BY DEF CoolChicVideo, Adapter, Guarded, Supports
    <2>5. Guarded(HiNerv)
        BY DEF HiNerv, Adapter, Guarded, Supports
    <2>6. Guarded(LivePortrait)
        BY DEF LivePortrait, Adapter, Guarded, Supports
    <2> QED BY <2>1, <2>2, <2>3, <2>4, <2>5, <2>6
<1> QED BY <1>1, <1>2, <1>3, <1>4 DEF ContentTypes

ContractInv ==
    /\ outcome = "input contract" => phase = "done"
    /\ adapter = "outside" => CurrentAdapter.id = "image.coolchic"
    /\ OnlyCoolChicImagesFailTheJob

LEMMA ContractInvNext ==
    ASSUME SelectionInv, ContractInv, [Next]_vars
    PROVE  ContractInv'
<1>1. CASE UNCHANGED selectionVars
    BY <1>1 DEF ContractInv, OnlyCoolChicImagesFailTheJob, CurrentAdapter, selectionVars
<1>2. CASE CheckProfile \/ ValidateContent \/ CheckLimits \/ RunRaises
    <2>1. outcome' # "input contract"
        BY <1>2, ContentErrorIsNoVerdict, MediaLimitErrorIsNoVerdict
           DEF CheckProfile, ValidateContent, CheckLimits, RunRaises, Finish, GoOn,
               SelectionInv, StageInv
    <2>2. UNCHANGED <<adapter, upload, turn>>
        BY <1>2 DEF CheckProfile, ValidateContent, CheckLimits, RunRaises, Stay
    <2> QED BY <2>1, <2>2
            DEF ContractInv, OnlyCoolChicImagesFailTheJob, CurrentAdapter
<1>3. CASE OpenAdapter
    <2>1. PICK seconds \in PreparedSeconds(upload) : Open(seconds)
        BY <1>3 DEF OpenAdapter
    <2>2. outcome' = "none"
        BY <1>3 DEF OpenAdapter, SelectionInv, StageInv
    <2>3. CASE NextAdapter
        BY <2>2, <2>3 DEF NextAdapter, ContractInv, OnlyCoolChicImagesFailTheJob
    <2>4. CASE Use(CurrentAdapter, seconds)
                /\ (CurrentAdapter.asks => Supports(CurrentAdapter, upload, seconds))
        <3>1. upload.type \in ContentTypes
            BY SelectionAssumption DEF SelectionInv, AdapterInv
        <3>2. turn \in DOMAIN AdaptersOf(upload.type)
            BY <1>3, <3>1, AdapterSequence DEF OpenAdapter, SelectionInv, AdapterInv
        <3>3. Guarded(CurrentAdapter)
            BY <3>1, <3>2, AdaptersGuarded DEF CurrentAdapter
        <3>4. Supports(CurrentAdapter, upload, seconds) \/ CurrentAdapter.id = "image.coolchic"
            BY <2>4, <3>3 DEF Guarded
        <3>5. CurrentAdapter' = CurrentAdapter
            BY <1>3, <2>4 DEF OpenAdapter, Use, CurrentAdapter
        <3>6. adapter' = "outside" => CurrentAdapter.id = "image.coolchic"
            BY <2>4, <3>4 DEF Use
        <3> QED BY <2>2, <3>5, <3>6 DEF ContractInv, OnlyCoolChicImagesFailTheJob
    <2> QED BY <2>1, <2>3, <2>4 DEF Open
<1>4. CASE CheckAdapter
    BY <1>4 DEF CheckAdapter, SelectionInv, StageInv, ContractInv,
        OnlyCoolChicImagesFailTheJob
<1>5. CASE RefuseInput
    BY <1>5 DEF RefuseInput, Finish, Stay, ContractInv, OnlyCoolChicImagesFailTheJob,
        CurrentAdapter
<1>6. CASE MakeCandidate
    <2>1. adapter' # "outside"
        BY <1>6 DEF MakeCandidate, NextAdapter
    <2> QED BY <1>6, <2>1 DEF MakeCandidate, SelectionInv, StageInv, ContractInv,
            OnlyCoolChicImagesFailTheJob
<1>7. CASE Prune \/ ApplyPolicy \/ SelectCandidate
    <2>1. outcome' # "input contract" /\ UNCHANGED <<adapter, upload, turn>>
        BY <1>7 DEF Prune, ApplyPolicy, SelectCandidate, Finish, GoOn, SelectionInv,
            StageInv
    <2> QED BY <2>1 DEF ContractInv, OnlyCoolChicImagesFailTheJob, CurrentAdapter
<1> QED BY <1>1, <1>2, <1>3, <1>4, <1>5, <1>6, <1>7
        DEF Next, Compress, SelectionStep, Decompress, FetchModel, vars

\* Only the image generator hands an adapter an input that its contract turns
\* down, and only Cool-Chic has such a contract there.
THEOREM OnlyCoolChicImagesFailTheJobHolds == Spec => []OnlyCoolChicImagesFailTheJob
<1>1. Init => ContractInv
    BY DEF Init, SelectionInit, ContractInv, OnlyCoolChicImagesFailTheJob
<1>2. ContractInv => OnlyCoolChicImagesFailTheJob
    BY DEF ContractInv
<1> QED BY <1>1, <1>2, ContractInvNext, SelectionInvHolds, PTL DEF Spec
-----------------------------------------------------------------------------
(* Model files.                                                            *)

SelectedModel == ActiveManifest(ModelId(CurrentAdapter.id))

\* A runtime about to be started has been checked, and stays so: a fetch only
\* ever puts pinned files in place.
PinnedInv ==
    /\ (adapter = "ready" /\ CurrentAdapter.kind = "checkpoint") =>
            FilesVerified(CurrentAdapter, SelectedModel)
    /\ (step = "run" /\ DecodingAdapter.kind = "checkpoint") =>
            FilesVerified(DecodingAdapter, HandedManifest)
    /\ OnlyPinnedFilesLoaded

LEMMA VerifiedAreLoaded ==
    ASSUME NEW a, NEW m, FilesVerified(a, m)
    PROVE  LoadedBy(a, m) \subseteq {"pinned"}
BY DEF FilesVerified, LoadedBy

LEMMA EnabledIsVerified ==
    ASSUME NEW a, a.kind = "checkpoint", Enabled(a)
    PROVE  FilesVerified(a, ActiveManifest(ModelId(a.id)))
BY DEF Enabled, ModelEnabled

\* What each definition reads: catalog, cache and the job's own variables.
LEMMA VerifiedStays ==
    ASSUME UNCHANGED catalog, \A f : Content(f) = "pinned" => Content(f)' = "pinned"
    PROVE  /\ (UNCHANGED <<upload, turn>> /\ FilesVerified(CurrentAdapter, SelectedModel))
                => FilesVerified(CurrentAdapter, SelectedModel)'
           /\ (UNCHANGED artifact /\ FilesVerified(DecodingAdapter, HandedManifest))
                => FilesVerified(DecodingAdapter, HandedManifest)'
<1>1. \A id : ActiveManifest(id)' = ActiveManifest(id)
    BY DEF ActiveManifest
<1>2. \A c, v : ManifestsForVersion(c, v)' = ManifestsForVersion(c, v)
    BY DEF ManifestsForVersion
<1>3. \A a, m : ModelFiles(a, m)' = ModelFiles(a, m)
    BY <1>1 DEF ModelFiles, LivePortraitFiles
<1>4. \A a, m : FilesVerified(a, m) => FilesVerified(a, m)'
    BY <1>3 DEF FilesVerified
<1>5. UNCHANGED <<upload, turn>> =>
        CurrentAdapter' = CurrentAdapter /\ SelectedModel' = SelectedModel
    BY <1>1 DEF CurrentAdapter, SelectedModel
<1>6. UNCHANGED artifact =>
        DecodingAdapter' = DecodingAdapter /\ HandedManifest' = HandedManifest
    BY <1>2 DEF DecodingAdapter, HandedManifest, PersistedManifest
<1> QED BY <1>4, <1>5, <1>6

LEMMA PinnedInvNext ==
    ASSUME PinnedInv, [Next]_vars
    PROVE  PinnedInv'
<1> USE DEF OnlyPinnedFilesLoaded
<1>1. CASE UNCHANGED <<catalog, cache, loaded>>
            /\ (adapter' = "ready" => adapter = "ready" /\ UNCHANGED <<upload, turn>>)
            /\ (step' = "run" => step = "run" /\ UNCHANGED artifact)
    <2>1. \A f : Content(f)' = Content(f)
        BY <1>1 DEF Content
    <2>3. adapter' = "ready" => CurrentAdapter' = CurrentAdapter
        BY <1>1 DEF CurrentAdapter
    <2>4. step' = "run" => DecodingAdapter' = DecodingAdapter
        BY <1>1 DEF DecodingAdapter
    <2> QED BY <1>1, <2>1, <2>3, <2>4, VerifiedStays DEF PinnedInv
<1>2. CASE CheckAdapter /\ UNCHANGED decodingVars
    <2>1. CurrentAdapter.kind = "checkpoint" => FilesVerified(CurrentAdapter, SelectedModel)
        BY <1>2, EnabledIsVerified DEF CheckAdapter, SelectedModel
    <2>2. \A f : Content(f)' = Content(f)
        BY <1>2 DEF CheckAdapter, runtimeVars, Content
    <2>3. CurrentAdapter' = CurrentAdapter /\ DecodingAdapter' = DecodingAdapter
        BY <1>2 DEF CheckAdapter, CurrentAdapter, DecodingAdapter, decodingVars
    <2> QED BY <1>2, <2>1, <2>2, <2>3, VerifiedStays
            DEF CheckAdapter, PinnedInv, runtimeVars, decodingVars
<1>3. CASE MakeCandidate /\ UNCHANGED decodingVars
    <2>1. loaded' \subseteq {"pinned"}
        BY <1>3, VerifiedAreLoaded DEF MakeCandidate, PinnedInv, SelectedModel
    <2>2. adapter' # "ready"
        BY <1>3 DEF MakeCandidate, NextAdapter
    <2>3. \A f : Content(f)' = Content(f)
        BY <1>3 DEF MakeCandidate, Content
    <2>4. DecodingAdapter' = DecodingAdapter
        BY <1>3 DEF DecodingAdapter, decodingVars
    <2> QED BY <1>3, <2>1, <2>2, <2>3, <2>4, VerifiedStays
            DEF MakeCandidate, PinnedInv, decodingVars
<1>4. CASE CheckFiles /\ UNCHANGED selectionVars
    <2>1. (step' = "run" /\ DecodingAdapter.kind = "checkpoint") =>
                FilesVerified(DecodingAdapter, HandedManifest)
        BY <1>4 DEF CheckFiles, GoTo, ModelEnabled
    <2>2. \A f : Content(f)' = Content(f)
        <3>1. UNCHANGED cache
            BY <1>4 DEF CheckFiles, runtimeVars
        <3> QED BY <3>1 DEF Content
    <2>3. CurrentAdapter' = CurrentAdapter /\ DecodingAdapter' = DecodingAdapter
        BY <1>4 DEF CheckFiles, GoTo, CurrentAdapter, DecodingAdapter, selectionVars
    <2> QED BY <1>4, <2>1, <2>2, <2>3, VerifiedStays
            DEF CheckFiles, GoTo, PinnedInv, runtimeVars, selectionVars
<1>5. CASE RunDecoder /\ UNCHANGED selectionVars
    <2>1. loaded' \subseteq {"pinned"}
        BY <1>5, VerifiedAreLoaded DEF RunDecoder, PinnedInv
    <2>2. step' # "run"
        BY <1>5 DEF RunDecoder
    <2>3. \A f : Content(f)' = Content(f)
        BY <1>5 DEF RunDecoder, Content
    <2>4. CurrentAdapter' = CurrentAdapter
        BY <1>5 DEF CurrentAdapter, selectionVars
    <2> QED BY <1>5, <2>1, <2>2, <2>3, <2>4, VerifiedStays
            DEF RunDecoder, PinnedInv, selectionVars
<1>6. CASE FetchInstall /\ UNCHANGED <<selectionVars, decodingVars>>
    <2>1. \A f : Content(f) = "pinned" => Content(f)' = "pinned"
        BY <1>6 DEF FetchInstall, Content
    <2>2. CurrentAdapter' = CurrentAdapter /\ DecodingAdapter' = DecodingAdapter
        BY <1>6 DEF CurrentAdapter, DecodingAdapter, selectionVars, decodingVars
    <2> QED BY <1>6, <2>1, <2>2, VerifiedStays
            DEF FetchInstall, PinnedInv, selectionVars, decodingVars
<1>7. CASE /\ \/ CheckProfile \/ ValidateContent \/ CheckLimits \/ RunRaises
              \/ RefuseInput \/ Prune \/ ApplyPolicy \/ SelectCandidate
           /\ UNCHANGED decodingVars
    BY <1>1, <1>7 DEF CheckProfile, ValidateContent, CheckLimits, RunRaises, RefuseInput,
        Prune, ApplyPolicy, SelectCandidate, Stay, runtimeVars, decodingVars
<1>8. CASE OpenAdapter /\ UNCHANGED decodingVars
    <2>1. adapter' # "ready"
        BY <1>8 DEF OpenAdapter, Open, Use, NextAdapter
    <2> QED BY <1>1, <1>8, <2>1 DEF OpenAdapter, runtimeVars, decodingVars
<1>9. CASE /\ ResolveManifest \/ CheckRuntime \/ VerifyDecoded \/ DecodingRaises
           /\ UNCHANGED selectionVars
    <2>1. step' # "run" /\ artifact' = artifact
        BY <1>9 DEF ResolveManifest, CheckRuntime, VerifyDecoded, DecodingRaises, GoTo
    <2> QED BY <1>1, <1>9, <2>1 DEF ResolveManifest, CheckRuntime, VerifyDecoded,
            DecodingRaises, runtimeVars, selectionVars
<1>10. CASE /\ (\E i \in DOMAIN catalog : FetchStart(i)) \/ FetchDownload \/ FetchStops
            /\ UNCHANGED <<selectionVars, decodingVars>>
    BY <1>1, <1>10 DEF FetchStart, FetchDownload, FetchStops, selectionVars, decodingVars
<1>11. CASE UNCHANGED vars
    BY <1>1, <1>11 DEF vars, runtimeVars, selectionVars, decodingVars
<1> QED BY <1>2, <1>3, <1>4, <1>5, <1>6, <1>7, <1>8, <1>9, <1>10, <1>11
        DEF Next, Compress, SelectionStep, Decompress, DecodingStep, FetchModel, Fetch

\* No model runtime is ever started on a file without the pinned digest, for
\* any catalog, volume and adapters, with a fetch at any point next to it.
THEOREM OnlyPinnedFilesLoadedHolds == Spec => []OnlyPinnedFilesLoaded
<1>1. Init => PinnedInv
    BY DEF Init, RuntimesInit, SelectionInit, DecodingInit, PinnedInv,
           OnlyPinnedFilesLoaded
<1>2. PinnedInv => OnlyPinnedFilesLoaded
    BY DEF PinnedInv
<1> QED BY <1>1, <1>2, PinnedInvNext, PTL DEF Spec
=============================================================================
