------------------------------- MODULE Plate -------------------------------
(***************************************************************************)
(* How the dashboard draws the scan of the module Scoring: layoutPeaks     *)
(* (src/lib/plate/layout.ts) sets the pools out by risk and puts the line  *)
(* of the risk cap between them, declutter (src/lib/plate/declutter.ts)    *)
(* hangs their labels, and PlateApp picks the route again by decide's rule.*)
(*                                                                         *)
(* Across, positions are fractions of the plate: a peak's place is a       *)
(* number of hundredths of its width, times Den.  Pixels are whole.  Where *)
(* the crags of the ridge put the top of a summit is any of Crags: so many *)
(* columns off, at such a height, wherever topOf looks.                    *)
(***************************************************************************)
EXTENDS Scoring

CONSTANTS
  PlateWidth,        \* g.W in pixels
  Crags,             \* tops a ridge may have: [drift, y], pixels off the summit's
                     \* column, and the height at which the leader meets it
  LabelWidth,        \* offsetWidth of a label, and of that of the route, which
  RouteLabelWidth,   \* carries a tag
  LabelHeight        \* offsetHeight of every label

ASSUME PlateConstantsOK ==
  /\ {PlateWidth, LabelWidth, RouteLabelWidth, LabelHeight} \subseteq Nat \ {0}
  /\ \A c \in Crags : c.drift \in Int /\ c.y \in Nat
  /\ \E c \in Crags : c.drift = 0
-----------------------------------------------------------------------------
(* layout.ts *)
\* By risk, then APY, then id; ids compare as Sources lists them.
Listed(a, b) == \E m, n \in DOMAIN Sources : m < n /\ Sources[m] = a /\ Sources[n] = b
Before(y, z) ==
  \/ RiskScore(y) < RiskScore(z)
  \/ RiskScore(y) = RiskScore(z) /\ (y.apy < z.apy \/ (y.apy = z.apy /\ Listed(y.pool, z.pool)))

\* Array.sort: the numbers up to n in the order of R, each in the place that the
\* number of those before it gives.
InOrder(n, R) ==
  LET places == {<<k, Cardinality({j \in 1..n : <<j, k>> \in R}) + 1>> : k \in 1..n}
  IN CHOOSE p \in [1..n -> 1..n] : \A i \in 1..n : <<p[i], i>> \in places
Pairs(s) == (DOMAIN s) \X (DOMAIN s)
Sorted(s) ==
  LET order == InOrder(Len(s), {x \in Pairs(s) : Before(s[x[1]], s[x[2]])})
  IN [i \in DOMAIN s |-> s[order[i]]]

\* Four fifths of the way across by rank, one fifth by score.
RiskFrom(p, i) == RiskScore(p[i]) - RiskScore(p[1])
Span(p) == Max({1, RiskFrom(p, Len(p))})
Den(p) == IF Len(p) = 1 THEN 2 ELSE 5 * (Len(p) - 1) * Span(p)
Across(p, i) ==
  IF Len(p) = 1 THEN 1 ELSE 4 * (i - 1) * Span(p) + RiskFrom(p, i) * (Len(p) - 1)
PlaceOf(p, i) == 10 * Den(p) + 80 * Across(p, i)

AtOrOver(p, cap) == {i \in DOMAIN p : RiskScore(p[i]) >= cap}   \* mutant: >= for >
Over(p, cap) == {i \in DOMAIN p : RiskScore(p[i]) > cap}

\* Halfway between the last pool under the cap and the first over it; left of
\* all when all are over.
NoCap == -1
CapX(p, cap) ==
  LET first == Min(Over(p, cap))
  IN CASE Over(p, cap) = {} -> NoCap
       [] 1 \in Over(p, cap) -> Max({4 * Den(p), PlaceOf(p, 1) - 5 * Den(p)})
       [] OTHER -> (PlaceOf(p, first - 1) + PlaceOf(p, first)) \div 2

\* The column at a peak, or so many eighths of a hundredth of the plate off it.
Column(p, i, off) ==
  LET den == Den(p) IN HalfUp((8 * PlaceOf(p, i) + off * den) * PlateWidth, 800 * den)

\* topOf starts from the column of the peak, and takes the highest of the ridge
\* within 0.35 of its width, which is 0.0532 of the plate at most: 15 eighths of
\* a hundredth of it (14.896, rounded up) either way.
TopX(p, i) ==
  LET x == Column(p, i, 0) IN IF x < PlateWidth THEN x ELSE PlateWidth - 1
Slope == 15
Searched(p, i, m) ==
  /\ m \in 0..(PlateWidth - 1)
  /\ m = TopX(p, i) \/ (Column(p, i, -Slope) <= m /\ m < Column(p, i, Slope))

\* Where a top is found, and the ridges by the tops they have.
TopOf(p, i, crag) == TopX(p, i) + crag.drift
Ridges(p) ==
  LET found == {x \in {<<i, crag>> : i \in DOMAIN p, crag \in Crags} :
                  Searched(p, x[1], TopOf(p, x[1], x[2]))}
  IN {crags \in [DOMAIN p -> Crags] : \A i \in DOMAIN p : <<i, crags[i]>> \in found}
-----------------------------------------------------------------------------
(* declutter.ts; the labels are [x, y, w], each a sequence of numbers, one   *)
(* per label; y is the anchor (larger is lower).                             *)
Base == 14
Step == 6
MaxSteps == 60
LabelBox(labels, i, lead) ==
  LET x == labels.x[i]
      half == labels.w[i] \div 2
      b == labels.y[i] - lead - 7
  IN [l |-> x - half - 6, r |-> x + half + 6, b |-> b, t |-> b - LabelHeight]

Beside(me, o) == me.l >= o.r \/ me.r <= o.l
Collides(me, o) == ~Beside(me, o) /\ me.t < o.b + 4 /\ me.b > o.t - 4

ClearOfLast(me, placed) ==                        \* mutant: only the last one placed
  placed = <<>> \/ ~Collides(me, Last(placed).box)
Clear(me, placed) == \A k \in DOMAIN placed : ~Collides(me, placed[k].box)

\* The leader grows until its label is clear, at most MaxSteps times.
Lead(labels, i, placed) ==
  LET clear(n) == Clear(LabelBox(labels, i, Base + Step * n), placed)
      steps == CHOOSE n \in 0..MaxSteps : /\ n = MaxSteps \/ clear(n)
                                          /\ \A k \in 0..(n - 1) : ~clear(k)
  IN Base + Step * steps

Place(labels, i, placed) ==
  Append(placed, [of |-> i, box |-> LabelBox(labels, i, Lead(labels, i, placed))])

\* Lower summits are placed first.
Lower(y) == {x \in Pairs(y) : y[x[1]] > y[x[2]] \/ (y[x[1]] = y[x[2]] /\ x[1] < x[2])}
Declutter(labels) ==
  LET order == InOrder(Len(labels.y), Lower(labels.y))
      placed[n \in 0..Len(labels.y)] ==
        IF n = 0 THEN <<>> ELSE Place(labels, order[n], placed[n - 1])
  IN placed[Len(labels.y)]
-----------------------------------------------------------------------------
(* Plate.tsx and PlateApp.tsx *)
\* The route is chosen again from what GET /api/scan sent.
Route == BestPool(scanned, tolerance)
Peaks == Sorted(scanned)
RiskCap == MaxRisk(tolerance)

\* The tag of the route widens its label.
WidthOf(y, route) == IF y.pool = route THEN RouteLabelWidth ELSE LabelWidth
Labels(p, route, crags) ==
  [x |-> [i \in DOMAIN p |-> TopOf(p, i, crags[i])],
   y |-> [i \in DOMAIN p |-> crags[i].y],
   w |-> [i \in DOMAIN p |-> WidthOf(p[i], route)]]
-----------------------------------------------------------------------------
(***************************************************************************)
(* Properties.                                                             *)
(***************************************************************************)
\* The line marked RISK CAP has exactly the pools within the cap of the
\* tolerance on its left, and so the route; no line is drawn only when no pool
\* is over the cap.  This is of where things stand on the plate, however close
\* two scores are and at whichever end of it the first pool over the cap is.
CapDividesPlate ==
  LET p == Peaks c == CapX(p, RiskCap) IN
  scanned # <<>> =>
    \A i \in DOMAIN p :
      IF c = NoCap THEN RiskScore(p[i]) <= RiskCap
      ELSE /\ (RiskScore(p[i]) <= RiskCap) <=> PlaceOf(p, i) < c
           /\ PlaceOf(p, i) # c
           /\ p[i].pool = Route => PlaceOf(p, i) < c

\* The leaders are long enough for as many labels as there are sources: one label
\* stands in the way of so many lengths of the leader of another at most.
RoomForLabels == (Len(Sources) - 1) * ((2 * LabelHeight + 7) \div Step + 1) <= MaxSteps

\* "The later one's leader grows until it clears": when the scan is over, every
\* label of it is hung, and no two come nearer than their breathing room,
\* whatever the ridge does to the summits.
LabelsClear ==
  at = Len(Sources) =>
    LET p == Peaks route == Route IN
    \A labels \in {Labels(p, route, crags) : crags \in Ridges(p)} :
      LET hung == Declutter(labels) IN
      /\ {hung[k].of : k \in DOMAIN hung} = DOMAIN scanned
      /\ \A k, m \in DOMAIN hung : k # m => ~Collides(hung[k].box, hung[m].box)

=============================================================================
