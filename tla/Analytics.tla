----------------------------- MODULE Analytics -----------------------------
(***************************************************************************)
(* crates/analytics over the events of Signal.tla: the scores of a bucket, *)
(* their composition over a window, and the three summaries the desktop    *)
(* draws from loaded buckets (halos, movers, divergence).  Scores are in   *)
(* percent.  A logarithm is taken to a whole power of two and a decay to a *)
(* whole half-life: the curves keep their ends, their clamps and their     *)
(* direction.                                                              *)
(***************************************************************************)
EXTENDS Signal, FiniteSetsExt

CONSTANT WindowDays,      \* BASELINE_WINDOW_DAYS
         MinBaselineDays, \* MIN_BASELINE_DAYS
         HighSignal,      \* HIGH_SIGNAL_THEMES
         HaloThreshold,   \* SPIKE_HALO_THRESHOLD, in percent
         HaloMaxCells,    \* SPIKE_HALO_MAX_CELLS
         MoversLimit      \* TOP_MOVERS_LIMIT

Tables == INSTANCE Scoring WITH Id <- {}, Source <- {}, Cell <- {}, Record <- {}

BucketHours == 6
BucketStart(ts) == BucketHours * (ts \div BucketHours)

Clamp(n, lo, hi) == IF n < lo THEN lo ELSE IF n > hi THEN hi ELSE n
Log2(n) == CHOOSE k \in 0 .. n : 2 ^ k <= n /\ n < 2 ^ (k + 1)
Mean(of) ==
  IF DOMAIN of = {} THEN 0
  ELSE MapThenSumSet(LAMBDA x : of[x], DOMAIN of) \div Cardinality(DOMAIN of)
Largest(S) == IF S = {} THEN 0 ELSE Max(S)

-----------------------------------------------------------------------------
\* scoring.rs

\* recency_weight: half for every day of age, never more than the whole.
RecencyWeight(age) == 100 \div (2 ^ (Clamp(age, 0, 144) \div 24))

\* saturating_log: nothing at 0, everything from `saturation` on.
SaturatingLog(v, saturation) ==
  IF v >= saturation THEN 100 ELSE (100 * Log2(1 + v)) \div Log2(1 + saturation)

SourceDiversityWeight(outlets) == SaturatingLog(outlets, 8)
ThemeWeight(themes) == IF themes \cap HighSignal # {} THEN 100 ELSE 60

KindWeight(kind) ==
  CASE kind = "conflict" -> 100 [] kind = "protest" -> 70
    [] kind = "disruption" -> 50 [] kind = "other" -> 30 [] OTHER -> 0

AttentionScore(articles, age, outlets, themeWeight, conf) ==
  IF articles = 0 THEN 0
  ELSE (((((((SaturatingLog(articles, 100) * RecencyWeight(age)) \div 100)
      * SourceDiversityWeight(outlets)) \div 100) * themeWeight) \div 100)
      * Clamp(conf, 0, 100)) \div 100

UnrestScore(n, kindWeight, age, severity, pointShare) ==
  IF n = 0 THEN 0
  ELSE (30 * SaturatingLog(n, 10) + 25 * Clamp(kindWeight, 0, 100) + 10 * RecencyWeight(age)
        + 20 * Clamp(severity, 0, 100) + 15 * Clamp(pointShare, 0, 100)) \div 100

\* spike_score: doublings above or below the baseline, three either way.
\* `twice` is twice the baseline, a median of counts.
SpikeScore(current, twice) ==
  LET up == 2 * current + 1
      down == twice + 1
      doublings == IF up >= down THEN Log2(up \div down) ELSE -Log2(down \div up)
  IN  50 + (50 * Clamp(doublings, -3, 3)) \div 3

CombinedSignal(attention, unrest, spike) == (40 * attention + 45 * unrest + 15 * spike) \div 100

-----------------------------------------------------------------------------
\* score_buckets

\* baseline::median, doubled so that it stays whole: of an even number of
\* samples the middle two are averaged.
MedianTwice(sample) ==
  LET days == DOMAIN sample
      n == Cardinality(days)
      sorted == Ordered(days, LAMBDA c, d : sample[c] < sample[d]
                                             \/ (sample[c] = sample[d] /\ c < d))
  IN  IF n = 0 THEN 0
      ELSE IF n % 2 = 1 THEN 2 * sample[sorted[n \div 2 + 1]]
      ELSE sample[sorted[n \div 2]] + sample[sorted[n \div 2 + 1]]

\* RegionBucket: counts and volume of one cell and bucket, the two scores
\* each from its own families, and the spike of the generic ones.
RegionBucket(E, cell, bucket) ==
  LET own == Tables!InBucket(E, cell, bucket)
      att == {e \in own : EntersAttention(e.family)}
      evt == {e \in own : EntersUnrest(e.family)}
      age(E1) == [e \in E1 |-> bucket + BucketHours - e.ts]
      outlets == UNION {e.outlets : e \in att}
      articles == MapThenSumSet(LAMBDA e : e.volume, att)
      sample == Tables!RegionRow(E, cell, bucket).baseline
      cold == Cardinality(DOMAIN sample) < MinBaselineDays
      spike == IF cold THEN 50
               ELSE SpikeScore(Cardinality(Tables!Generic(own)), MedianTwice(sample))
      attention == AttentionScore(articles, Mean(age(att)), Cardinality(outlets),
                     Largest({ThemeWeight(e.themes) : e \in att}),
                     Mean([e \in att |-> e.conf]))
      unrest == UnrestScore(Cardinality(evt), Largest({KindWeight(e.kind) : e \in evt}),
                  Mean(age(evt)), Mean([e \in evt |-> IF e.sev < 0 THEN 0 ELSE e.sev]),
                  Mean([e \in evt |-> IF RendersAsPoint(e.prec) THEN 100 ELSE 0]))
  IN  [cell |-> cell, bucket |-> bucket,
       events |-> Cardinality(evt), attentionCount |-> Cardinality(att),
       articles |-> articles,
       sources |-> MapThenSumSet(LAMBDA e : Cardinality(e.outlets), att),
       outlets |-> Cardinality(outlets),
       attention |-> attention, unrest |-> unrest, spike |-> spike,
       combined |-> CombinedSignal(attention, unrest, spike),
       baseline |-> MedianTwice(sample), cold |-> cold]

ScoreBuckets(E) == {RegionBucket(E, e.cell, BucketStart(e.ts)) : e \in E}

Records(b) == b.events + b.attentionCount

-----------------------------------------------------------------------------
\* compose_window: silence counts as zero for attention and unrest, but has
\* no spike.  The slots begin where the first bucket does.
WindowSlots(window) ==
  {s \in BucketStart(window.start) .. window.end - 1 : s % BucketHours = 0}

Weighted(window, of) ==
  MapThenSumSet(LAMBDA b : RecencyWeight(window.end - (b.bucket + BucketHours)) * of[b], DOMAIN of)

ComposeWindow(B, window) ==
  IF B = {} \/ window.end <= window.start THEN {}
  ELSE LET slots == MapThenSumSet(LAMBDA s : RecencyWeight(window.end - (s + BucketHours)),
                                  WindowSlots(window))
           weights == Weighted(window, [b \in B |-> 1])
           over(n, d) == IF d = 0 THEN n ELSE n \div d
           attention == over(Weighted(window, [b \in B |-> b.attention]), slots)
           unrest == over(Weighted(window, [b \in B |-> b.unrest]), slots)
           spike == IF weights > 0 THEN Weighted(window, [b \in B |-> b.spike]) \div weights
                    ELSE 50
       IN  {[attention |-> attention, unrest |-> unrest, spike |-> spike,
             combined |-> CombinedSignal(attention, unrest, spike),
             cold |-> \E b \in B : b.cold]}

-----------------------------------------------------------------------------
\* A bucket with no baseline behind it has no anomaly to claim.
Warm(B) == {b \in B : ~ b.cold}
PeakSpike(B, cell) == Max({b.spike : b \in {x \in Warm(B) : x.cell = cell}})
WarmCells(B) == {b.cell : b \in Warm(B)}

\* spike_halo_cells: strongest first, at most HaloMaxCells.
SpikeHaloCells(B) ==
  Take(Ordered({[cell |-> c, spike |-> PeakSpike(B, c)] :
                  c \in {w \in WarmCells(B) : PeakSpike(B, w) >= HaloThreshold}},
               LAMBDA x, y : x.spike > y.spike \/ (x.spike = y.spike /\ x.cell < y.cell)),
       HaloMaxCells)

\* top_movers: the first of a cell's strongest buckets, with the records and
\* the baseline it was scored from (buckets come by cell and start).
TopMovers(B) ==
  LET peaks(c) == {b \in Warm(B) : b.cell = c /\ b.spike = PeakSpike(B, c)}
      first(c) == CHOOSE b \in peaks(c) : \A x \in peaks(c) : b.bucket <= x.bucket
      mover(c) == [cell |-> c, spike |-> first(c).spike, bucket |-> first(c).bucket,
                   records |-> Records(first(c)), baseline |-> first(c).baseline]
  IN  Take(Ordered({mover(c) : c \in WarmCells(B)},
                   LAMBDA x, y : x.spike > y.spike \/ (x.spike = y.spike /\ x.cell < y.cell)),
           MoversLimit)

\* cell_series: one slot for every bucket the window touches.
\* Mutant: the slot a window ends in forgotten.
SeriesSlotsShort(window) == (window.end - BucketStart(window.start)) \div BucketHours
SeriesSlots(window) == (window.end - BucketStart(window.start)) \div BucketHours + 1
CellSeries(B, cell, window) ==
  IF window.end <= window.start THEN <<>>
  ELSE [i \in 1 .. SeriesSlots(window) |->
          MapThenSumSet(Records,
            {b \in B : b.cell = cell
                       /\ b.bucket = BucketStart(window.start) + (i - 1) * BucketHours})]

-----------------------------------------------------------------------------
\* CellComponents: the peak of each channel and whether it has records, per
\* display cell (the caller's key of each cell); absorb folds a bucket in.
CellComponents(B, key) ==
  {LET of == {b \in B : key[b.cell] = c}
   IN  [cell |-> c, attention |-> Max({b.attention : b \in of}),
        unrest |-> Max({b.unrest : b \in of}),
        hasAttention |-> \E b \in of : b.attentionCount > 0,
        hasEvents |-> \E b \in of : b.events > 0] : c \in {key[b.cell] : b \in B}}

Comparable(c) == c.hasAttention /\ c.hasEvents

\* normalized_ranks, of the one of these values that is c's: ties share their
\* average rank; a lone value is in the middle.
NormalizedRank(value, c) ==
  LET n == Cardinality(DOMAIN value)
      below == Cardinality({x \in DOMAIN value : value[x] < value[c]})
      tied == Cardinality({x \in DOMAIN value : value[x] = value[c]})
  IN  IF n <= 1 THEN 50 ELSE (100 * (2 * below + tied - 1)) \div (2 * (n - 1))

\* divergence_ranks: ranks among the comparable cells only; the others have
\* no divergence (an empty set).
DivergenceRanks(C) ==
  LET among == {c \in C : Comparable(c)}
  IN  {[cell |-> c.cell,
        rank |-> IF ~ Comparable(c) THEN {}
                 ELSE {NormalizedRank([x \in among |-> x.attention], c)
                       - NormalizedRank([x \in among |-> x.unrest], c)}] : c \in C}
=============================================================================
