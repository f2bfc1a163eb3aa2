--------------------------- MODULE Scoring_proofs ---------------------------
(***************************************************************************)
(* The risk model and the plate, for all pools and readings.  A bolder     *)
(* tolerance sees every pool a more cautious one sees, a pool never        *)
(* becomes safer by being used more or holding less, and the pool chosen   *)
(* is the first of the best.  On the plate, the line of the cap divides    *)
(* the peaks as their scores do, and no label stands on another.           *)
(***************************************************************************)
EXTENDS Plate, SequenceTheorems, FiniteSetTheorems, TLAPS

\* The part of the assumption that is about numbers.
LEMMA NumbersOK == Apys \subseteq Nat /\ Tvls \subseteq Nat /\ FallbackTvl \in Nat
                   /\ Utils \subseteq Shares
<1>1. Apys \subseteq Nat
  BY ScoringConstantsOK
<1>2. Tvls \subseteq Nat
  BY ScoringConstantsOK
<1>3. FallbackTvl \in Nat
  BY ScoringConstantsOK
<1>4. Utils \subseteq Shares
  BY ScoringConstantsOK DEF Shares
<1> QED BY <1>1, <1>2, <1>3, <1>4

\* The numbers of a yield are numbers.
LEMMA YieldFields ==
  ASSUME NEW y \in Yields
  PROVE  y.util \in Shares /\ y.util \in Nat /\ y.util <= 10000 /\ y.tvl \in Nat
<1>1. y.util \in Shares /\ y.tvl \in Nat
  BY DEF Yields
<1>2. \A s \in Shares : s \in Nat /\ s <= 10000
  BY DEF Shares
<1> QED BY <1>1, <1>2

\* The part of the risk that comes from the utilization grows with it, ...
LEMMA UtilRiskMonotone ==
  ASSUME NEW y \in Yields, NEW z \in Yields, y.util <= z.util
  PROVE  /\ UtilRisk(y) \in 0..70
         /\ UtilRisk(y) <= UtilRisk(z)
<1> DEFINE u == y.util  v == z.util
<1>1. u \in Nat /\ v \in Nat /\ u <= 10000 /\ v <= 10000
  BY YieldFields
<1>2. u <= v
  OBVIOUS
<1> HIDE DEF u, v
<1>3. (2 * (u * 70) + 10000) \div (2 * 10000) \in 0..70
  BY <1>1, SMT
<1>4. (2 * (u * 70) + 10000) \div (2 * 10000) <= (2 * (v * 70) + 10000) \div (2 * 10000)
  BY <1>1, <1>2, SMT
<1> QED BY <1>3, <1>4 DEF UtilRisk, HalfUp, u, v

\* ... and the part that comes from the total supply falls with it.
LEMMA TvlRiskMonotone ==
  ASSUME NEW y \in Yields, NEW z \in Yields, y.tvl >= z.tvl
  PROVE  /\ TvlRisk(y) \in 0..30
         /\ TvlRisk(y) <= TvlRisk(z)
<1> DEFINE u == y.tvl  v == z.tvl
           R(n) == IF n >= 100000 THEN 0
                   ELSE (2 * ((100000 - n) * 30) + 100000) \div (2 * 100000)
<1>1. u \in Nat /\ v \in Nat /\ u >= v
  BY YieldFields
<1> HIDE DEF u, v
<1>2. R(u) \in 0..30 /\ R(v) \in 0..30
  BY <1>1, SMT
<1>3. R(u) <= R(v)
  BY <1>1, SMT
<1> QED BY <1>2, <1>3 DEF TvlRisk, HalfUp, TvlRef, u, v


\* So the score lies within 0..100 and falls neither with use nor with loss.
LEMMA RiskScoreMonotone ==
  ASSUME NEW y \in Yields, NEW z \in Yields, y.util <= z.util, y.tvl >= z.tvl
  PROVE  /\ RiskScore(y) \in 0..100
         /\ RiskScore(y) <= RiskScore(z)
<1>1. /\ UtilRisk(y) \in 0..70 /\ UtilRisk(y) <= UtilRisk(z)
      /\ TvlRisk(y) \in 0..30 /\ TvlRisk(y) <= TvlRisk(z)
  BY UtilRiskMonotone, TvlRiskMonotone
<1>2. z.util <= z.util /\ z.tvl >= z.tvl
  BY YieldFields
<1>3. UtilRisk(z) \in 0..70 /\ TvlRisk(z) \in 0..30
  BY <1>2, UtilRiskMonotone, TvlRiskMonotone
<1> HIDE DEF UtilRisk, TvlRisk
<1>4. ASSUME NEW a \in 0..70, NEW b \in 0..30, NEW p \in 0..70, NEW q \in 0..30,
             a <= p, b <= q
      PROVE  LET Sum(x, w) == IF x + w > 100 THEN 100 ELSE x + w
             IN Sum(a, b) \in 0..100 /\ Sum(a, b) <= Sum(p, q)
  BY <1>4, SMT
<1> QED BY <1>1, <1>3, <1>4 DEF RiskScore

-----------------------------------------------------------------------------
\* Every step of the scan keeps the types: only well-formed yields are added.
THEOREM TypeCorrect == Spec => []TypeOK
<1>1. Init => TypeOK
  BY DEF Init, TypeOK, Yields
<1>2. TypeOK /\ [Next]_vars => TypeOK'
  <2> SUFFICES ASSUME TypeOK, [Next]_vars PROVE TypeOK'
    OBVIOUS
  <2>1. CASE ReadPool
    <3>1. Sources \in Seq(STRING)
      BY ScoringConstantsOK, ConcatProperties DEF Sources
    <3>2. at + 1 \in 1..Len(Sources)
      BY <2>1, <3>1, LenProperties DEF ReadPool, TypeOK
    <3>3. Sources[at + 1] \in STRING
      BY <3>1, <3>2, ElementOfSeq
    <3>4. PICK a \in Apys, v \in TvlsOf(at + 1), u \in Utils, g \in Ages \cup {NoPrice} :
            scanned' = Append(scanned, [pool |-> Sources[at + 1], apy |-> a, tvl |-> v,
                                        util |-> u, healthy |-> Healthy(g)])
      BY <2>1 DEF ReadPool
    <3>5. a \in Nat /\ v \in Nat /\ u \in Shares
      <4>1. a \in Nat /\ u \in Shares
        BY NumbersOK
      <4>2. v \in Nat
        BY NumbersOK DEF TvlsOf
      <4> QED BY <4>1, <4>2
    <3>6. Healthy(g) \in BOOLEAN
      BY DEF Healthy
    <3>7. [pool |-> Sources[at + 1], apy |-> a, tvl |-> v,
           util |-> u, healthy |-> Healthy(g)] \in Yields
      BY <3>3, <3>5, <3>6 DEF Yields
    <3>8. scanned' \in Seq(Yields)
      BY <3>4, <3>7, AppendProperties DEF TypeOK
    <3>9. at' \in Nat
      BY <3>2, <2>1 DEF ReadPool, TypeOK
    <3> QED BY <2>1, <3>8, <3>9 DEF ReadPool, TypeOK
  <2>2. CASE SkipPool
    BY <2>2 DEF SkipPool, TypeOK
  <2>3. CASE UNCHANGED vars
    BY <2>3 DEF vars, TypeOK
  <2> QED BY <2>1, <2>2, <2>3 DEF Next
<1> QED BY <1>1, <1>2, PTL DEF Spec

\* What is accepted with a cautious tolerance is accepted with a bolder one,
\* whatever the pools look like: going bolder never hides a pool.
THEOREM BolderSeesMoreAlways == Spec => []BolderSeesMore
<1>1. ASSUME TypeOK PROVE BolderSeesMore
  <2> SUFFICES ASSUME NEW n \in DOMAIN scanned
               PROVE  /\ Eligible(scanned[n], "conservative") => Eligible(scanned[n], "balanced")
                      /\ Eligible(scanned[n], "balanced") => Eligible(scanned[n], "aggressive")
    BY DEF BolderSeesMore
  <2> DEFINE y == scanned[n]
  <2>1. y \in Yields
    BY <1>1, ElementOfSeq, LenProperties DEF TypeOK
  <2>2. y.tvl \in Nat /\ y.util <= y.util /\ y.tvl >= y.tvl
    BY <2>1, YieldFields
  <2>3. RiskScore(y) \in 0..100
    BY <2>1, <2>2, RiskScoreMonotone
  <2> QED BY <2>2, <2>3 DEF Eligible, MinTvl, MaxRisk
<1> QED BY <1>1, TypeCorrect, PTL

\* A pool that is used more and holds less is never scored as the safer one,
\* and is never eligible alone of the two if the other's oracle is healthy.
THEOREM RiskOrderedAlways == Spec => []RiskOrdered
<1>1. ASSUME TypeOK PROVE RiskOrdered
  <2> SUFFICES ASSUME NEW n \in DOMAIN scanned, NEW m \in DOMAIN scanned,
                      scanned[n].util <= scanned[m].util, scanned[n].tvl >= scanned[m].tvl
               PROVE  /\ RiskScore(scanned[n]) <= RiskScore(scanned[m])
                      /\ Eligible(scanned[m], tolerance) /\ scanned[n].healthy
                           => Eligible(scanned[n], tolerance)
    BY DEF RiskOrdered
  <2> DEFINE y == scanned[n]  z == scanned[m]
  <2>1. y \in Yields /\ z \in Yields
    BY <1>1, ElementOfSeq, LenProperties DEF TypeOK
  <2>2. RiskScore(y) \in 0..100 /\ RiskScore(y) <= RiskScore(z)
    BY <2>1, RiskScoreMonotone
  <2>3. z.util <= z.util /\ z.tvl >= z.tvl /\ y.tvl \in Nat /\ z.tvl \in Nat
    BY <2>1, YieldFields
  <2>4. RiskScore(z) \in 0..100
    BY <2>1, <2>3, RiskScoreMonotone
  <2>5. tolerance \in Tolerances
    BY <1>1 DEF TypeOK
  <2>6. MaxRisk(tolerance) \in Nat /\ MinTvl(tolerance) \in Nat
    BY <2>5 DEF Tolerances, MaxRisk, MinTvl
  <2>7. ASSUME Eligible(z, tolerance), y.healthy PROVE Eligible(y, tolerance)
    BY <2>7, <2>2, <2>3, <2>4, <2>6 DEF Eligible
  <2> QED BY <2>2, <2>7
<1> QED BY <1>1, TypeCorrect, PTL

-----------------------------------------------------------------------------
(***************************************************************************)
(* The best pool.                                                          *)
(***************************************************************************)
\* Min is the least element of a set of numbers.
LEMMA LeastNumber ==
  ASSUME NEW T, T \subseteq Nat, T # {}
  PROVE  /\ Min(T) \in T
         /\ \A y \in T : Min(T) <= y
<1>1. PICK x \in T : \A y \in T : ~ (<<y, x>> \in OpToRel(<, Nat))
  BY NatLessThanWellFounded, WFMin
<1>2. \A y \in T : ~ (y < x)
  BY <1>1 DEF OpToRel
<1>3. \A y \in T : x <= y
  BY <1>2
<1>4. \E z \in T : \A y \in T : z <= y
  BY <1>3, Zenon
<1>. QED BY <1>4, Zenon DEF Min

\* A function on 0..n goes from b by F.
HasSteps(S, n, b, F) ==
  \E f \in [0..n -> S] : f[0] = b /\ \A k \in 1..n : f[k] = F[<<k, f[k - 1]>>]

\* What starts from b and goes on by the function F has a value after every step.
LEMMA StepsExist ==
  ASSUME NEW S, NEW n \in Nat, NEW b \in S, NEW F \in [(1..n) \X S -> S]
  PROVE  HasSteps(S, n, b, F)
<1>. DEFINE Q(m) == \E f \in [0..m -> S] : f[0] = b /\ \A k \in 1..m : f[k] = F[<<k, f[k - 1]>>]
            Bad0 == {m \in Nat : m <= n /\ ~Q(m)}
<1>1. ASSUME Bad0 # {} PROVE FALSE
  <2>1. PICK m \in Bad0 : \A y \in Bad0 : m <= y
    <3>. HIDE DEF Q
    <3>. QED BY <1>1, LeastNumber
  <2>2. m \in Nat /\ m <= n /\ ~Q(m)
    BY <2>1
  <2>3. m # 0
    <3>. SUFFICES Q(0)
      BY <2>2
    <3>. DEFINE f == [k \in 0..0 |-> b]
    <3>1. f \in [0..0 -> S] /\ f[0] = b /\ \A k \in 1..0 : f[k] = F[<<k, f[k - 1]>>]
      OBVIOUS
    <3>. QED BY <3>1
  <2>4. m - 1 \in Nat /\ m - 1 <= n /\ ~(m <= m - 1)
    BY <2>2, <2>3
  <2>5. Q(m - 1)
    <3>. HIDE DEF Q
    <3>. QED BY <2>1, <2>4
  <2>6. PICK f \in [0..(m - 1) -> S] : f[0] = b /\ \A k \in 1..(m - 1) : f[k] = F[<<k, f[k - 1]>>]
    BY <2>5
  <2>. DEFINE g == [k \in 0..m |-> IF k = m THEN F[<<m, f[m - 1]>>] ELSE f[k]]
  <2>7. m \in 1..n /\ m - 1 \in 0..(m - 1) /\ f[m - 1] \in S
    BY <2>2, <2>3, <2>4, <2>6
  <2>8. F[<<m, f[m - 1]>>] \in S
    BY <2>7
  <2>9. g \in [0..m -> S] /\ g[0] = b
    BY <2>2, <2>3, <2>6, <2>8
  <2>10. ASSUME NEW k \in 1..m PROVE g[k] = F[<<k, g[k - 1]>>]
    <3>1. k - 1 \in 0..m /\ k - 1 # m /\ g[k - 1] = f[k - 1] /\ k \in 0..m
      BY <2>2
    <3>2. CASE k = m
      BY <3>1, <3>2
    <3>3. CASE k # m
      <4>1. k \in 1..(m - 1)
        BY <2>2, <3>3
      <4>. QED BY <2>6, <3>1, <3>3, <4>1
    <3>. QED BY <3>2, <3>3
  <2>. QED BY <2>2, <2>9, <2>10
<1>2. n \notin Bad0
  BY <1>1
<1>. QED BY <1>2 DEF HasSteps

\* The pass of BestPool over the yields.
LEMMA BestSteps ==
  ASSUME NEW s \in Seq(Yields), NEW t
  PROVE  \E f : /\ f[0] = NoYield
                /\ \A k \in 1..Len(s) :
                     f[k] = IF Eligible(s[k], t) THEN Better(f[k - 1], s[k]) ELSE f[k - 1]
                /\ BestPool(s, t) = f[Len(s)].pool
<1>. DEFINE S == Yields \cup {NoYield}
            F == [x \in (1..Len(s)) \X S |->
                    IF Eligible(s[x[1]], t) THEN Better(x[2], s[x[1]]) ELSE x[2]]
            Rec(f) == [k \in 0..Len(s) |->
                         IF k = 0 THEN NoYield
                         ELSE IF Eligible(s[k], t) THEN Better(f[k - 1], s[k])
                         ELSE f[k - 1]]
            best == CHOOSE f : f = Rec(f)
<1>1. \A k \in 1..Len(s) : s[k] \in S
  OBVIOUS
<1>2. F \in [(1..Len(s)) \X S -> S]
  <2>. SUFFICES ASSUME NEW x \in (1..Len(s)) \X S
                PROVE  (IF Eligible(s[x[1]], t) THEN Better(x[2], s[x[1]]) ELSE x[2]) \in S
    OBVIOUS
  <2>1. x[1] \in 1..Len(s) /\ x[2] \in S
    OBVIOUS
  <2>. HIDE DEF S
  <2>. QED BY <1>1, <2>1 DEF Better
<1>3. Len(s) \in Nat /\ NoYield \in S
  OBVIOUS
<1>4. PICK f \in [0..Len(s) -> S] :
        f[0] = NoYield /\ \A k \in 1..Len(s) : f[k] = F[<<k, f[k - 1]>>]
  <2>. HIDE DEF F, S
  <2>1. HasSteps(S, Len(s), NoYield, F)
    BY <1>2, <1>3, StepsExist
  <2>. QED BY <2>1 DEF HasSteps
<1>5. ASSUME NEW k \in 1..Len(s)
      PROVE  f[k] = IF Eligible(s[k], t) THEN Better(f[k - 1], s[k]) ELSE f[k - 1]
  <2>1. k - 1 \in 0..Len(s) /\ f[k - 1] \in S
    BY <1>3, <1>4
  <2>2. <<k, f[k - 1]>> \in (1..Len(s)) \X S
    BY <2>1
  <2>3. \A x \in (1..Len(s)) \X S :
          F[x] = IF Eligible(s[x[1]], t) THEN Better(x[2], s[x[1]]) ELSE x[2]
    OBVIOUS
  <2>. HIDE DEF F, S
  <2>. QED BY <1>4, <2>2, <2>3
<1>6. f = Rec(f)
  <2>1. \A k \in 0..Len(s) : f[k] = Rec(f)[k]
    <3>. SUFFICES ASSUME NEW k \in 0..Len(s) PROVE f[k] = Rec(f)[k]
      OBVIOUS
    <3>1. CASE k = 0
      BY <1>4, <3>1
    <3>2. CASE k # 0
      <4>1. k \in 1..Len(s)
        BY <1>3, <3>2
      <4>. QED BY <1>5, <3>2, <4>1
    <3>. QED BY <3>1, <3>2
  <2>2. f = [k \in 0..Len(s) |-> f[k]] /\ Rec(f) = [k \in 0..Len(s) |-> Rec(f)[k]]
    BY <1>4
  <2>. QED BY <2>1, <2>2
<1>7. best = Rec(best)
  <2>. HIDE DEF Rec
  <2>. QED BY <1>6
<1>8. BestPool(s, t) = best[Len(s)].pool
  BY DEF BestPool
<1>9. best[0] = NoYield /\ \A k \in 1..Len(s) :
         best[k] = IF Eligible(s[k], t) THEN Better(best[k - 1], s[k]) ELSE best[k - 1]
  <2>. HIDE DEF best
  <2>1. \A k \in 0..Len(s) : best[k] = IF k = 0 THEN NoYield
                                       ELSE IF Eligible(s[k], t) THEN Better(best[k - 1], s[k])
                                       ELSE best[k - 1]
    BY <1>7
  <2>. QED BY <1>3, <2>1
<1>. QED BY <1>8, <1>9

\* The best of the yields is an eligible one, no eligible one pays more and none
\* before it pays as much.
LEMMA BestFound ==
  ASSUME NEW s \in Seq(Yields), NEW t
  PROVE  LET Able == {i \in DOMAIN s : Eligible(s[i], t)} IN
         \/ Able = {} /\ BestPool(s, t) = NoPool
         \/ \E i \in Able : /\ BestPool(s, t) = s[i].pool
                            /\ \A m \in Able : s[m].apy < s[i].apy \/ (s[m].apy = s[i].apy /\ i <= m)
<1>. DEFINE Able(k) == {i \in 1..k : Eligible(s[i], t)}
            First(i, k) == /\ i \in Able(k)
                           /\ \A m \in Able(k) : s[m].apy < s[i].apy \/ (s[m].apy = s[i].apy /\ i <= m)
            Found(v, k) == \/ Able(k) = {} /\ v = NoYield
                           \/ \E i \in 1..k : First(i, k) /\ v = s[i]
<1>1. PICK f : /\ f[0] = NoYield
               /\ \A k \in 1..Len(s) :
                    f[k] = IF Eligible(s[k], t) THEN Better(f[k - 1], s[k]) ELSE f[k - 1]
               /\ BestPool(s, t) = f[Len(s)].pool
  BY BestSteps
<1>2. Len(s) \in Nat /\ DOMAIN s = 1..Len(s)
  OBVIOUS
<1>3. \A i \in 1..Len(s) : s[i].apy \in Nat
  <2>1. \A i \in 1..Len(s) : s[i] \in Yields
    OBVIOUS
  <2>. QED BY <2>1 DEF Yields
<1>. DEFINE Wrong == {k \in Nat : k <= Len(s) /\ ~Found(f[k], k)}
<1>4. ASSUME Wrong # {} PROVE FALSE
  <2>1. PICK k \in Wrong : \A y \in Wrong : k <= y
    <3>. HIDE DEF Found
    <3>. QED BY <1>4, LeastNumber
  <2>2. k \in Nat /\ k <= Len(s) /\ ~Found(f[k], k)
    BY <2>1
  <2>3. k # 0
    <3>. SUFFICES ASSUME k = 0 PROVE Found(f[k], k)
      BY <2>2
    <3>1. Able(0) = {}
      OBVIOUS
    <3>. QED BY <1>1, <3>1
  <2>4. k \in 1..Len(s) /\ k - 1 \in Nat /\ k - 1 <= Len(s) /\ ~(k <= k - 1)
    BY <1>2, <2>2, <2>3
  <2>5. Found(f[k - 1], k - 1)
    <3>. HIDE DEF Found
    <3>. QED BY <2>1, <2>4
  <2>6. \A i : i \in 1..k <=> i \in 1..(k - 1) \/ i = k
    BY <2>4
  <2>7. CASE ~Eligible(s[k], t)
    <3>1. f[k] = f[k - 1]
      BY <1>1, <2>4, <2>7
    <3>2. Able(k) = Able(k - 1)
      BY <2>6, <2>7
    <3>3. Found(f[k], k)
      BY <2>5, <2>6, <3>1, <3>2
    <3>. QED BY <2>2, <3>3
  <2>8. CASE Eligible(s[k], t)
    <3>1. f[k] = Better(f[k - 1], s[k])
      BY <1>1, <2>4, <2>8
    <3>2. Able(k) = Able(k - 1) \cup {k}
      BY <2>6, <2>8
    <3>3. s[k].apy \in Nat
      BY <1>3, <2>4
    <3>4. CASE Able(k - 1) = {} /\ f[k - 1] = NoYield
      <4>1. f[k] = s[k]
        BY <3>1, <3>3, <3>4 DEF Better, NoYield
      <4>2. Able(k) = {k}
        BY <3>2, <3>4
      <4>3. First(k, k)
        BY <2>4, <4>2
      <4>. QED BY <2>2, <2>4, <4>1, <4>3
    <3>5. ASSUME NEW i \in 1..(k - 1), First(i, k - 1), f[k - 1] = s[i] PROVE FALSE
      <4>0. i \in 1..Len(s) /\ s[i].apy \in Nat /\ i <= k /\ i \in 1..k /\ k \in 1..k
        BY <1>3, <2>4, <3>5
      <4>00. \A m \in Able(k - 1) : s[m].apy \in Nat /\ m <= k /\ m \in Nat
        BY <1>2, <1>3, <2>4
      <4>1. CASE s[k].apy > s[i].apy
        <5>1. f[k] = s[k]
          BY <3>1, <3>5, <4>1 DEF Better
        <5>2. \A m \in Able(k - 1) : s[m].apy < s[k].apy
          BY <3>3, <3>5, <4>0, <4>00, <4>1
        <5>3. First(k, k)
          BY <2>4, <3>2, <5>2
        <5>. QED BY <2>2, <4>0, <5>1, <5>3
      <4>2. CASE ~(s[k].apy > s[i].apy)
        <5>1. f[k] = s[i]
          BY <3>1, <3>5, <4>2 DEF Better
        <5>2. s[k].apy < s[i].apy \/ (s[k].apy = s[i].apy /\ i <= k)
          BY <3>3, <4>0, <4>2
        <5>3. First(i, k)
          BY <3>2, <3>5, <5>2
        <5>. QED BY <2>2, <4>0, <5>1, <5>3
      <4>. QED BY <4>1, <4>2
    <3>. QED BY <2>5, <3>4, <3>5
  <2>. QED BY <2>7, <2>8
<1>5. Found(f[Len(s)], Len(s))
  <2>. HIDE DEF Found
  <2>. QED BY <1>2, <1>4
<1>6. NoYield.pool = NoPool
  BY DEF NoYield
<1>. QED BY <1>1, <1>2, <1>5, <1>6

\* The pool the agent is told to go to is eligible, pays most and was read first
\* of those that pay as much, after every step of every scan.
THEOREM BestAlways == Spec => []BestIsFirstHighest
<1>1. TypeOK => BestIsFirstHighest
  BY BestFound DEF TypeOK, BestIsFirstHighest
<1>. QED BY <1>1, TypeCorrect, PTL

-----------------------------------------------------------------------------
(***************************************************************************)
(* The peaks: what Array.sort does with an order, and that of the peaks.   *)
(***************************************************************************)
\* R orders S strictly and totally.
Orders(R, S) ==
  /\ \A a \in S : <<a, a>> \notin R
  /\ \A a, b, c \in S : <<a, b>> \in R /\ <<b, c>> \in R => <<a, c>> \in R
  /\ \A a, b \in S : a # b => <<a, b>> \in R \/ <<b, a>> \in R

\* Every member of S is one of the values of p on S.
Covers(p, S) == \A a \in S : \E i \in S : p[i] = a

\* Sorting the numbers up to n by a strict and total order puts each of them in
\* one place, and any two of them as the order says.
LEMMA InOrderSorts ==
  ASSUME NEW n \in Nat, NEW R, Orders(R, 1..n)
  PROVE  /\ InOrder(n, R) \in [1..n -> 1..n]
         /\ \A i, k \in 1..n : i < k => <<InOrder(n, R)[i], InOrder(n, R)[k]>> \in R
         /\ Covers(InOrder(n, R), 1..n)
<1>. DEFINE D == 1..n
            B(k) == {j \in D : <<j, k>> \in R}
            r == [k \in D |-> Cardinality(B(k)) + 1]
            places == {<<k, Cardinality({j \in 1..n : <<j, k>> \in R}) + 1>> : k \in 1..n}
            Fits(p) == \A i \in 1..n : <<p[i], i>> \in places
<1>1. IsFiniteSet(D) /\ Cardinality(D) = n
  <2>1. 1 \in Int /\ n \in Int
    OBVIOUS
  <2>2. IsFiniteSet(1..n) /\ Cardinality(1..n) = IF 1 > n THEN 0 ELSE n - 1 + 1
    BY <2>1, FS_Interval
  <2>. QED BY <2>2
<1>. HIDE DEF D
<1>2. ASSUME NEW k \in D PROVE IsFiniteSet(B(k)) /\ Cardinality(B(k)) \in Nat /\ r[k] = Cardinality(B(k)) + 1
  BY <1>1, FS_Subset, FS_CardinalityType
<1>3. ASSUME NEW a \in D, NEW b \in D, <<a, b>> \in R PROVE r[a] < r[b]
  <2>1. a \notin B(a) /\ B(a) \cup {a} \subseteq B(b)
    BY <1>3 DEF Orders, D
  <2>. HIDE DEF B, r
  <2>2. IsFiniteSet(B(a) \cup {a}) /\ Cardinality(B(a) \cup {a}) = Cardinality(B(a)) + 1
    BY <1>2, <2>1, FS_AddElement
  <2>3. Cardinality(B(a) \cup {a}) <= Cardinality(B(b))
    BY <1>2, <2>1, FS_Subset
  <2>. QED BY <1>2, <2>2, <2>3
<1>4. ASSUME NEW k \in D PROVE r[k] \in D
  <2>1. B(k) \subseteq D \ {k}
    BY DEF Orders, D
  <2>. HIDE DEF B, r
  <2>2. IsFiniteSet(D \ {k}) /\ Cardinality(D \ {k}) = n - 1
    BY <1>1, FS_RemoveElement
  <2>3. Cardinality(B(k)) <= n - 1
    BY <2>1, <2>2, FS_Subset
  <2>. QED BY <1>2, <2>3 DEF D
<1>5. \A a, b \in D : r[a] \in Nat /\ (r[a] = r[b] => a = b)
  <2>1. \A a \in D : r[a] \in Nat
    BY <1>4 DEF D
  <2>2. \A a, b \in D : a # b => r[a] < r[b] \/ r[b] < r[a]
    <3>. HIDE DEF r
    <3>. QED BY <1>3 DEF Orders, D
  <2>. HIDE DEF r
  <2>. QED BY <2>1, <2>2
<1>6. \A i \in D : \E k \in D : r[k] = i
  <2>1. r \in [D -> D]
    BY <1>4
  <2>. HIDE DEF r
  <2>2. r \in Injection(D, D)
    BY <1>5, <2>1 DEF Injection, IsInjective
  <2>3. r \in Surjection(D, D)
    BY <1>1, <2>2, FS_Injection
  <2>. QED BY <2>3 DEF Surjection
<1>7. \A p, i : i \in D => (<<p[i], i>> \in places <=> p[i] \in D /\ r[p[i]] = i)
  BY DEF D
<1>8. \E p \in [D -> D] : Fits(p)
  <2>. DEFINE p == [i \in D |-> CHOOSE k \in D : r[k] = i]
  <2>. HIDE DEF r, places
  <2>1. \A i \in D : p[i] \in D /\ r[p[i]] = i
    BY <1>6
  <2>2. p \in [D -> D]
    BY <2>1
  <2>. HIDE DEF p
  <2>3. \A i \in D : <<p[i], i>> \in places
    BY <1>7, <2>1
  <2>. QED BY <2>2, <2>3 DEF D
<1>. DEFINE p == InOrder(n, R)
<1>9. p \in [D -> D] /\ Fits(p)
  <2>1. p = CHOOSE q \in [1..n -> 1..n] : Fits(q)
    BY DEF InOrder
  <2>. HIDE DEF Fits, p
  <2>. QED BY <1>8, <2>1 DEF D
<1>10. \A i \in D : p[i] \in D /\ r[p[i]] = i
  <2>. HIDE DEF p, r, places
  <2>. QED BY <1>7, <1>9 DEF D
<1>11. ASSUME NEW i \in D, NEW k \in D, i < k PROVE <<p[i], p[k]>> \in R
  <2>. HIDE DEF p, r
  <2>1. r[p[i]] < r[p[k]] /\ i \in Nat /\ k \in Nat
    BY <1>10, <1>11 DEF D
  <2>2. ~(r[p[k]] < r[p[i]]) /\ p[i] # p[k]
    BY <1>10, <1>11, <2>1
  <2>. QED BY <1>3, <1>10, <2>2 DEF Orders, D
<1>12. ASSUME NEW a \in D PROVE \E i \in D : p[i] = a
  <2>. HIDE DEF p, r
  <2>1. r[a] \in D /\ p[r[a]] \in D /\ r[p[r[a]]] = r[a]
    BY <1>4, <1>10
  <2>. QED BY <1>5, <2>1
<1>13. Covers(p, D)
  <2>. HIDE DEF p, D
  <2>. QED BY <1>12 DEF Covers
<1>. QED BY <1>9, <1>11, <1>13 DEF D

\* Every yield is of a source that was tried, and no two are of the same.
ScanInv ==
  /\ at <= Len(Sources) /\ Len(scanned) <= at
  /\ \A i \in DOMAIN scanned : \E k \in 1..at : scanned[i].pool = Sources[k]
  /\ \A i, k \in DOMAIN scanned : scanned[i].pool = scanned[k].pool => i = k

\* The ids are different from one another and from NoPool.
LEMMA SourcesOK ==
  /\ Sources \in Seq(STRING) /\ Len(Sources) \in Nat /\ DOMAIN Sources = 1..Len(Sources)
  /\ \A k, m \in DOMAIN Sources : Sources[k] = Sources[m] => k = m
  /\ \A k \in DOMAIN Sources : Sources[k] # NoPool
<1>1. Sources \in Seq(STRING)
  BY ScoringConstantsOK, ConcatProperties DEF Sources
<1>2. \A k, m \in DOMAIN Sources : Sources[k] = Sources[m] => k = m
  <2>1. IsInjective(Sources)
    BY ScoringConstantsOK DEF Sources
  <2>. QED BY <2>1 DEF IsInjective
<1>3. \A k \in DOMAIN Sources : Sources[k] # NoPool
  <2>1. NoPool \notin Range(Sources)
    BY ScoringConstantsOK DEF Sources
  <2>. QED BY <2>1 DEF Range
<1>. QED BY <1>1, <1>2, <1>3

\* The ids are read one by one, each once.
LEMMA ScanNext == ASSUME TypeOK, ScanInv, [Next]_vars PROVE ScanInv'
<1>0. Len(scanned) \in Nat /\ DOMAIN scanned = 1..Len(scanned) /\ at \in Nat /\ Len(Sources) \in Nat
  BY SourcesOK DEF TypeOK
<1>1. CASE SkipPool
  <2>1. at' = at + 1 /\ scanned' = scanned /\ at < Len(Sources)
    BY <1>1 DEF SkipPool
  <2>2. at' <= Len(Sources) /\ Len(scanned) <= at' /\ \A k \in 1..at : k \in 1..at'
    BY <1>0, <2>1 DEF ScanInv
  <2>. QED BY <2>1, <2>2 DEF ScanInv
<1>2. CASE ReadPool
  <2>1. PICK y : scanned' = Append(scanned, y) /\ y.pool = Sources[at + 1]
    BY <1>2 DEF ReadPool
  <2>2. at' = at + 1 /\ at < Len(Sources)
    BY <1>2 DEF ReadPool
  <2>3. Len(scanned') = Len(scanned) + 1 /\ DOMAIN scanned' = 1..(Len(scanned) + 1)
        /\ scanned'[Len(scanned) + 1] = y /\ \A i \in 1..Len(scanned) : scanned'[i] = scanned[i]
    BY <2>1 DEF TypeOK
  <2>4. at' <= Len(Sources) /\ Len(scanned') <= at' /\ at + 1 \in 1..at' /\ \A k \in 1..at : k \in 1..at'
    BY <1>0, <2>2, <2>3 DEF ScanInv
  <2>5. \A i \in DOMAIN scanned' : i \in DOMAIN scanned \/ i = Len(scanned) + 1
    BY <1>0, <2>3
  <2>6. \A i \in DOMAIN scanned' : \E k \in 1..at' : scanned'[i].pool = Sources[k]
    BY <1>0, <2>1, <2>3, <2>4, <2>5 DEF ScanInv
  <2>7. \A i \in DOMAIN scanned : scanned[i].pool # y.pool
    <3>1. \A k \in 1..at : Sources[k] # Sources[at + 1]
      <4>1. \A k \in 1..at : k \in DOMAIN Sources /\ at + 1 \in DOMAIN Sources /\ k # at + 1
        BY <1>0, <2>2, SourcesOK
      <4>. QED BY <4>1, SourcesOK
    <3>. QED BY <2>1, <3>1 DEF ScanInv
  <2>8. \A i, k \in DOMAIN scanned' : scanned'[i].pool = scanned'[k].pool => i = k
    BY <1>0, <2>3, <2>5, <2>7 DEF ScanInv
  <2>. QED BY <2>4, <2>6, <2>8 DEF ScanInv
<1>3. CASE UNCHANGED vars
  BY <1>3 DEF vars, ScanInv
<1>. QED BY <1>1, <1>2, <1>3 DEF Next

\* The invariant holds of every scan.
LEMMA ScannedOnce == Spec => [](TypeOK /\ ScanInv)
<1>1. Init => ScanInv
  BY SourcesOK DEF Init, ScanInv
<1>2. TypeOK /\ ScanInv /\ [Next]_vars => ScanInv'
  BY ScanNext
<1>. QED BY <1>1, <1>2, TypeCorrect, PTL DEF Spec

\* A score and an APY are natural numbers.
LEMMA RiskNat == ASSUME NEW y \in Yields PROVE RiskScore(y) \in Nat /\ y.apy \in Nat
<1>1. y.util <= y.util /\ y.tvl >= y.tvl
  BY YieldFields
<1>2. RiskScore(y) \in 0..100
  BY <1>1, RiskScoreMonotone
<1>. QED BY <1>2 DEF Yields

\* The places of a scan of which one comes before the other among the peaks.
BeforePairs == {x \in Pairs(scanned) : Before(scanned[x[1]], scanned[x[2]])}

\* No two yields of a scan are alike to that order: their ids at least differ.
LEMMA BeforeOrders == ASSUME TypeOK, ScanInv PROVE Orders(BeforePairs, 1..Len(scanned))
<1>. DEFINE D == 1..Len(scanned)
            risk == [i \in D |-> RiskScore(scanned[i])]
            apy == [i \in D |-> scanned[i].apy]
            src == [i \in D |-> CHOOSE k \in 1..Len(Sources) : Sources[k] = scanned[i].pool]
            Less(a, b) == \/ risk[a] < risk[b]
                          \/ risk[a] = risk[b] /\ (apy[a] < apy[b] \/ (apy[a] = apy[b] /\ src[a] < src[b]))
<1>1. DOMAIN scanned = D /\ \A i \in D : scanned[i] \in Yields
  BY DEF TypeOK
<1>2. \A i \in D : risk[i] \in Nat /\ apy[i] \in Nat
  BY <1>1, RiskNat
<1>3. \A i \in D : src[i] \in 1..Len(Sources) /\ Sources[src[i]] = scanned[i].pool
  <2>1. \A i \in D : \E k \in 1..Len(Sources) : Sources[k] = scanned[i].pool
    <3>1. \A k \in 1..at : k \in 1..Len(Sources)
      BY SourcesOK DEF ScanInv, TypeOK
    <3>. QED BY <1>1, <3>1 DEF ScanInv
  <2>. QED BY <2>1
<1>4. \A i \in D : src[i] \in Nat
  <2>. HIDE DEF src
  <2>. QED BY <1>3
<1>5. \A i, k \in D : src[i] = src[k] => i = k
  <2>. HIDE DEF src
  <2>. QED BY <1>1, <1>3 DEF ScanInv
<1>6. ASSUME NEW i \in D, NEW k \in D
      PROVE  Listed(scanned[i].pool, scanned[k].pool) <=> src[i] < src[k]
  <2>. HIDE DEF src, D
  <2>. QED BY <1>3, SourcesOK DEF Listed
<1>7. \A i, k \in D : <<i, k>> \in BeforePairs <=> Less(i, k)
  <2>. SUFFICES ASSUME NEW i \in D, NEW k \in D
                PROVE  Before(scanned[i], scanned[k]) <=> Less(i, k)
    BY <1>1 DEF BeforePairs, Pairs
  <2>1. risk[i] = RiskScore(scanned[i]) /\ risk[k] = RiskScore(scanned[k])
        /\ apy[i] = scanned[i].apy /\ apy[k] = scanned[k].apy
    OBVIOUS
  <2>. HIDE DEF risk, apy, src
  <2>. QED BY <1>6, <2>1 DEF Before
<1>. HIDE DEF risk, apy, src, D
<1>8. \A a \in D : ~Less(a, a)
  BY <1>2, <1>4
<1>9. \A a, b, c \in D : Less(a, b) /\ Less(b, c) => Less(a, c)
  BY <1>2, <1>4
<1>10. \A a, b \in D : a # b => Less(a, b) \/ Less(b, a)
  BY <1>2, <1>4, <1>5
<1>11. Orders(BeforePairs, D)
  <2>. HIDE DEF Less
  <2>. QED BY <1>7, <1>8, <1>9, <1>10 DEF Orders
<1>. QED BY <1>11 DEF D

\* The peaks are the yields scanned, from the safest to the riskiest.
LEMMA PeaksSorted ==
  ASSUME TypeOK, ScanInv
  PROVE  /\ Peaks \in Seq(Yields) /\ Len(Peaks) = Len(scanned)
         /\ \A i \in 1..Len(scanned) : \E m \in 1..Len(scanned) : Peaks[i] = scanned[m]
         /\ \A i, k \in 1..Len(scanned) : i <= k => RiskScore(Peaks[i]) <= RiskScore(Peaks[k])
<1>. DEFINE order == InOrder(Len(scanned), BeforePairs)
<1>1. Len(scanned) \in Nat /\ DOMAIN scanned = 1..Len(scanned)
      /\ \A i \in 1..Len(scanned) : scanned[i] \in Yields
  BY DEF TypeOK
<1>2. /\ \A i \in 1..Len(scanned) : order[i] \in 1..Len(scanned)
      /\ \A i, k \in 1..Len(scanned) : i < k => <<order[i], order[k]>> \in BeforePairs
  <2>1. /\ InOrder(Len(scanned), BeforePairs) \in [1..Len(scanned) -> 1..Len(scanned)]
        /\ \A i, k \in 1..Len(scanned) : i < k =>
             <<InOrder(Len(scanned), BeforePairs)[i], InOrder(Len(scanned), BeforePairs)[k]>> \in BeforePairs
    <3>1. PICK n : n = Len(scanned)
      OBVIOUS
    <3>2. n \in Nat /\ Orders(BeforePairs, 1..n)
      BY <1>1, <3>1, BeforeOrders
    <3>. QED BY <3>1, <3>2, InOrderSorts
  <2>. HIDE DEF order
  <2>2. order = InOrder(Len(scanned), BeforePairs)
    BY DEF order
  <2>. QED BY <2>1, <2>2
<1>3. Peaks = [i \in 1..Len(scanned) |-> scanned[order[i]]]
  BY <1>1 DEF Peaks, Sorted, BeforePairs
<1>. HIDE DEF order
<1>4. \A i \in 1..Len(scanned) : Peaks[i] = scanned[order[i]] /\ Peaks[i] \in Yields
  BY <1>1, <1>2, <1>3
<1>5. Peaks \in Seq(Yields) /\ Len(Peaks) = Len(scanned)
  BY <1>1, <1>3, <1>4
<1>6. ASSUME NEW i \in 1..Len(scanned), NEW k \in 1..Len(scanned), i <= k
      PROVE  RiskScore(Peaks[i]) <= RiskScore(Peaks[k])
  <2>1. RiskScore(Peaks[i]) \in Nat /\ RiskScore(Peaks[k]) \in Nat
    BY <1>4, RiskNat
  <2>2. CASE i = k
    BY <2>1, <2>2
  <2>3. CASE i # k
    <3>1. i < k
      BY <1>6, <2>3
    <3>2. Before(Peaks[i], Peaks[k])
      BY <1>2, <1>4, <3>1 DEF BeforePairs
    <3>. QED BY <2>1, <3>2 DEF Before
  <2>. QED BY <2>2, <2>3
<1>. QED BY <1>2, <1>4, <1>5, <1>6

-----------------------------------------------------------------------------
(***************************************************************************)
(* The line of the cap.                                                    *)
(***************************************************************************)
\* The greater of two numbers.
LEMMA MaxOfTwo == ASSUME NEW a \in Int, NEW b \in Int PROVE Max({a, b}) = IF a >= b THEN a ELSE b
<1>1. \E x \in {a, b} : \A y \in {a, b} : x >= y
  OBVIOUS
<1>2. Max({a, b}) \in {a, b} /\ \A y \in {a, b} : Max({a, b}) >= y
  BY <1>1, Zenon DEF Max
<1>. QED BY <1>2

\* The width is divided by a positive number, and of two peaks the one further
\* on stands well to the right.
LEMMA PlacesGrow ==
  ASSUME NEW p \in Seq(Yields), NEW n \in Nat \ {0}, Len(p) = n,
         \A i, k \in 1..n : i <= k => RiskScore(p[i]) <= RiskScore(p[k])
  PROVE  /\ Den(p) \in Nat /\ Den(p) >= 1
         /\ \A i \in 1..n : PlaceOf(p, i) \in Nat /\ PlaceOf(p, i) >= 10 * Den(p)
         /\ \A i, k \in 1..n : i < k => PlaceOf(p, i) + 320 <= PlaceOf(p, k)
<1>. DEFINE from(i) == RiskFrom(p, i)
            s == Span(p)
<1>1. \A i \in 1..n : RiskScore(p[i]) \in Nat
  <2>1. \A i \in 1..n : p[i] \in Yields
    OBVIOUS
  <2>. QED BY <2>1, RiskNat
<1>2. 1 \in 1..n /\ n \in 1..n
  OBVIOUS
<1>3. \A i \in 1..n : from(i) \in Nat /\ \A k \in 1..n : i <= k => from(i) <= from(k)
  BY <1>1, <1>2 DEF RiskFrom
<1>. HIDE DEF from
<1>4. s \in Nat /\ s >= 1
  BY <1>2, <1>3, MaxOfTwo DEF Span, from
<1>. HIDE DEF s
<1>5. CASE n = 1
  <2>1. Den(p) = 2 /\ \A i \in 1..n : PlaceOf(p, i) = 10 * 2 + 80 * 1
    BY <1>5 DEF Den, PlaceOf, Across
  <2>. QED BY <1>5, <2>1
<1>6. CASE n > 1
  <2>1. n - 1 \in Nat /\ n - 1 >= 1
    BY <1>6
  <2>2. Den(p) = 5 * (n - 1) * s
    BY <1>6 DEF Den, s
  <2>3. (n - 1) * s \in Nat /\ (n - 1) * s >= 1
    BY <1>4, <2>1
  <2>4. Den(p) \in Nat /\ Den(p) >= 1
    BY <1>4, <2>1, <2>2, <2>3
  <2>. DEFINE u(i) == (i - 1) * s
              v(i) == from(i) * (n - 1)
  <2>5. ASSUME NEW i \in 1..n PROVE u(i) \in Nat /\ v(i) \in Nat /\ Across(p, i) = 4 * u(i) + v(i)
    <3>1. Across(p, i) = 4 * (i - 1) * s + from(i) * (n - 1)
      BY <1>6 DEF Across, s, from
    <3>2. (i - 1) * s \in Nat /\ 4 * (i - 1) * s = 4 * ((i - 1) * s)
      BY <1>4
    <3>3. from(i) * (n - 1) \in Nat
      BY <1>3, <2>1
    <3>. QED BY <3>1, <3>2, <3>3
  <2>6. ASSUME NEW i \in 1..n, NEW k \in 1..n, i < k PROVE u(i) + 1 <= u(k) /\ v(i) <= v(k)
    <3>1. k - i \in Nat /\ k - i >= 1
      BY <2>6
    <3>2. (k - i) * s >= 1 /\ (k - i) * s \in Nat
      BY <1>4, <3>1
    <3>3. (k - 1) * s = (i - 1) * s + (k - i) * s
      BY <1>4
    <3>4. from(i) \in Nat /\ from(k) \in Nat /\ from(i) <= from(k)
      BY <1>3, <2>6
    <3>5. from(k) - from(i) \in Nat /\ (from(k) - from(i)) * (n - 1) \in Nat
      BY <2>1, <3>4
    <3>6. from(k) * (n - 1) = from(i) * (n - 1) + (from(k) - from(i)) * (n - 1)
      BY <2>1, <3>4
    <3>7. u(i) + 1 <= u(k)
      <4>1. PICK w \in Nat : w = (k - i) * s
        BY <3>2
      <4>2. u(k) = u(i) + w /\ w >= 1 /\ u(i) \in Nat
        BY <2>5, <3>2, <3>3, <4>1
      <4>. HIDE DEF u
      <4>. QED BY <4>2
    <3>8. v(i) <= v(k)
      BY <2>5, <3>5, <3>6
    <3>. QED BY <3>7, <3>8
  <2>. HIDE DEF u, v
  <2>7. \A i \in 1..n : Across(p, i) \in Nat
    BY <2>5
  <2>8. ASSUME NEW i \in 1..n, NEW k \in 1..n, i < k PROVE Across(p, i) + 4 <= Across(p, k)
    <3>1. u(i) + 1 <= u(k) /\ v(i) <= v(k)
      BY <2>6, <2>8
    <3>2. /\ u(i) \in Nat /\ v(i) \in Nat /\ u(k) \in Nat /\ v(k) \in Nat
          /\ Across(p, i) = 4 * u(i) + v(i) /\ Across(p, k) = 4 * u(k) + v(k)
      BY <2>5
    <3>. QED BY <3>1, <3>2
  <2>9. \A i \in 1..n : PlaceOf(p, i) = 10 * Den(p) + 80 * Across(p, i)
    BY DEF PlaceOf
  <2>10. \A i \in 1..n : PlaceOf(p, i) \in Nat /\ PlaceOf(p, i) >= 10 * Den(p)
    BY <2>4, <2>7, <2>9
  <2>11. ASSUME NEW i \in 1..n, NEW k \in 1..n, i < k PROVE PlaceOf(p, i) + 320 <= PlaceOf(p, k)
    <3>1. Across(p, i) + 4 <= Across(p, k)
      BY <2>8, <2>11
    <3>2. Across(p, i) \in Nat /\ Across(p, k) \in Nat
      BY <2>7
    <3>3. PlaceOf(p, i) = 10 * Den(p) + 80 * Across(p, i) /\ PlaceOf(p, k) = 10 * Den(p) + 80 * Across(p, k)
      BY <2>9
    <3>. QED BY <2>4, <3>1, <3>2, <3>3
  <2>. QED BY <2>4, <2>10, <2>11
<1>. QED BY <1>5, <1>6

\* The route is one of the peaks within the cap, if it is one at all.
LEMMA RouteWithinCap ==
  ASSUME TypeOK, ScanInv, NEW i \in 1..Len(scanned), Peaks[i].pool = Route
  PROVE  RiskScore(Peaks[i]) <= RiskCap
<1>1. PICK m \in 1..Len(scanned) : Peaks[i] = scanned[m]
  BY PeaksSorted
<1>2. scanned \in Seq(Yields) /\ DOMAIN scanned = 1..Len(scanned)
  BY DEF TypeOK
<1>3. scanned[m].pool # NoPool
  <2>1. \A k \in 1..at : k \in DOMAIN Sources
    BY SourcesOK DEF ScanInv, TypeOK
  <2>. QED BY <1>2, <2>1, SourcesOK DEF ScanInv
<1>4. PICK a \in DOMAIN scanned : Eligible(scanned[a], tolerance) /\ Route = scanned[a].pool
  BY <1>1, <1>2, <1>3, BestFound DEF Route
<1>5. a = m
  BY <1>1, <1>2, <1>4 DEF ScanInv
<1>. QED BY <1>1, <1>4, <1>5 DEF Eligible, RiskCap

\* The line of the cap stands between what is within the cap and what is over it.
LEMMA CapBetween == ASSUME TypeOK, ScanInv PROVE CapDividesPlate
<1>. SUFFICES ASSUME scanned # <<>> PROVE CapDividesPlate
  BY DEF CapDividesPlate
<1>. DEFINE p == Peaks
            n == Len(scanned)
            c == CapX(p, RiskCap)
            over == Over(p, RiskCap)
<1>1. n \in Nat \ {0} /\ p \in Seq(Yields) /\ Len(p) = n /\ DOMAIN p = 1..n
  BY PeaksSorted DEF TypeOK
<1>2. \A i, k \in 1..n : i <= k => RiskScore(p[i]) <= RiskScore(p[k])
  BY PeaksSorted
<1>3. \A i \in 1..n : p[i].pool = Route => RiskScore(p[i]) <= RiskCap
  BY RouteWithinCap
<1>4. /\ Den(p) \in Nat /\ Den(p) >= 1
      /\ \A i \in 1..n : PlaceOf(p, i) \in Nat /\ PlaceOf(p, i) >= 10 * Den(p)
      /\ \A i, k \in 1..n : i < k => PlaceOf(p, i) + 320 <= PlaceOf(p, k)
  BY <1>1, <1>2, PlacesGrow
<1>5. \A i \in 1..n : RiskScore(p[i]) \in Nat
  <2>1. \A i \in 1..n : p[i] \in Yields
    BY <1>1
  <2>. QED BY <2>1, RiskNat
<1>6. RiskCap \in Nat
  BY DEF RiskCap, MaxRisk, TypeOK, Tolerances
<1>. SUFFICES ASSUME NEW i \in 1..n
              PROVE  IF c = NoCap THEN RiskScore(p[i]) <= RiskCap
                     ELSE /\ (RiskScore(p[i]) <= RiskCap) <=> PlaceOf(p, i) < c
                          /\ PlaceOf(p, i) # c
                          /\ p[i].pool = Route => PlaceOf(p, i) < c
  BY <1>1 DEF CapDividesPlate
<1>7. over \subseteq 1..n /\ \A k \in 1..n : k \in over <=> RiskScore(p[k]) > RiskCap
  BY <1>1 DEF Over
<1>8. \A k \in 1..n : k \in over <=> ~(RiskScore(p[k]) <= RiskCap)
  BY <1>5, <1>6, <1>7
<1>. HIDE DEF p, n, over
<1>9. CASE over = {}
  <2>1. c = NoCap
    BY <1>9 DEF CapX, over
  <2>. QED BY <1>8, <1>9, <2>1
<1>10. CASE 1 \in over
  <2>1. c = Max({4 * Den(p), PlaceOf(p, 1) - 5 * Den(p)})
    BY <1>10 DEF CapX, over
  <2>2. 1 \in 1..n /\ i >= 1 /\ PlaceOf(p, 1) \in Nat /\ PlaceOf(p, 1) >= 10 * Den(p)
    BY <1>1, <1>4
  <2>3. c \in Nat /\ c < PlaceOf(p, 1)
    BY <1>4, <2>1, <2>2, MaxOfTwo
  <2>4. PlaceOf(p, 1) <= PlaceOf(p, i) /\ PlaceOf(p, i) \in Nat
    BY <1>4, <2>2
  <2>5. ~(PlaceOf(p, i) < c) /\ PlaceOf(p, i) # c /\ c # NoCap
    BY <2>2, <2>3, <2>4 DEF NoCap
  <2>6. ~(RiskScore(p[i]) <= RiskCap)
    <3>1. RiskScore(p[1]) <= RiskScore(p[i]) /\ ~(RiskScore(p[1]) <= RiskCap)
      BY <1>2, <1>8, <1>10, <2>2
    <3>. QED BY <1>5, <1>6, <2>2, <3>1
  <2>. QED BY <1>3, <2>5, <2>6
<1>11. CASE over # {} /\ 1 \notin over
  <2>. DEFINE first == Min(over)
  <2>1. c = (PlaceOf(p, first - 1) + PlaceOf(p, first)) \div 2
    BY <1>11 DEF CapX, over
  <2>2. first \in over /\ \A k \in over : first <= k
    <3>1. over \subseteq Nat
      BY <1>1, <1>7
    <3>. QED BY <1>11, <3>1, LeastNumber
  <2>. HIDE DEF first, c
  <2>3. first \in 1..n /\ first - 1 \in 1..n /\ first \in Nat
    BY <1>1, <1>7, <1>11, <2>2
  <2>4. PlaceOf(p, first - 1) \in Nat /\ PlaceOf(p, first) \in Nat
        /\ PlaceOf(p, first - 1) + 320 <= PlaceOf(p, first)
    BY <1>4, <2>3
  <2>5. c \in Nat /\ PlaceOf(p, first - 1) < c /\ c < PlaceOf(p, first)
    BY <2>1, <2>4
  <2>6. CASE i < first
    <3>1. i \notin over
      BY <2>2, <2>3, <2>6
    <3>2. i = first - 1 \/ i < first - 1
      BY <2>3, <2>6
    <3>3. PlaceOf(p, i) <= PlaceOf(p, first - 1) /\ PlaceOf(p, i) \in Nat
      BY <1>4, <2>3, <2>4, <3>2
    <3>4. PlaceOf(p, i) < c /\ c # NoCap
      BY <2>4, <2>5, <3>3 DEF NoCap
    <3>5. PlaceOf(p, i) # c
      BY <2>5, <3>3, <3>4
    <3>. QED BY <1>8, <3>1, <3>4, <3>5
  <2>7. CASE ~(i < first)
    <3>1. first <= i
      BY <2>3, <2>7
    <3>2. i \in over
      <4>1. RiskScore(p[first]) <= RiskScore(p[i]) /\ ~(RiskScore(p[first]) <= RiskCap)
        BY <1>2, <1>8, <2>2, <2>3, <3>1
      <4>2. ~(RiskScore(p[i]) <= RiskCap)
        BY <1>5, <1>6, <2>3, <4>1
      <4>. QED BY <1>8, <4>2
    <3>3. PlaceOf(p, first) <= PlaceOf(p, i) /\ PlaceOf(p, i) \in Nat
      <4>1. i = first \/ first < i
        BY <2>3, <3>1
      <4>. QED BY <1>4, <2>3, <2>4, <4>1
    <3>4. ~(PlaceOf(p, i) < c) /\ c # NoCap
      BY <2>4, <2>5, <3>3 DEF NoCap
    <3>5. PlaceOf(p, i) # c
      BY <2>4, <2>5, <3>3
    <3>. QED BY <1>3, <1>8, <3>2, <3>4, <3>5
  <2>. QED BY <2>6, <2>7
<1>. QED BY <1>9, <1>10, <1>11

\* Whatever was scanned, the cap line has the pools within the cap on its left,
\* the route among them, and the others on its right.
THEOREM CapAlwaysDivides == Spec => []CapDividesPlate
BY ScannedOnce, CapBetween, PTL

-----------------------------------------------------------------------------
(***************************************************************************)
(* The labels.                                                             *)
(***************************************************************************)
\* Boxes of labels, the labels in place, and what can be placed.
Boxes == {o \in [l : Int, r : Int, b : Int, t : Int] : o.t = o.b - LabelHeight}
Hung == [of : Nat, box : Boxes]
LabelsOK(labels, n) ==
  \A i \in 1..n : labels.x[i] \in Int /\ labels.y[i] \in Int /\ labels.w[i] \in Nat

\* How many lengths of a leader one label can stand in the way of, less one.
Reach == (2 * LabelHeight + 7) \div Step

\* A label has a height, and Reach is what its definition says.
LEMMA HeightOK == LabelHeight \in Nat /\ LabelHeight > 0 /\ Reach \in Nat
                  /\ 6 * Reach <= 2 * LabelHeight + 7 /\ 2 * LabelHeight + 7 < 6 * (Reach + 1)
<1>1. LabelHeight \in Nat /\ LabelHeight > 0
  BY PlateConstantsOK
<1>. QED BY <1>1 DEF Reach, Step

\* The box of a label hangs by the length of its leader above the anchor.
LEMMA BoxType ==
  ASSUME NEW labels, NEW n \in Nat, LabelsOK(labels, n), NEW i \in 1..n, NEW lead \in Int
  PROVE  /\ LabelBox(labels, i, lead) \in Boxes
         /\ LabelBox(labels, i, lead).b = labels.y[i] - lead - 7
<1>1. labels.x[i] \in Int /\ labels.y[i] \in Int /\ labels.w[i] \in Nat /\ LabelHeight \in Nat
  BY HeightOK DEF LabelsOK
<1>2. labels.w[i] \div 2 \in Int
  BY <1>1
<1>. DEFINE half == labels.w[i] \div 2
            x == labels.x[i]
            b == labels.y[i] - lead - 7
<1>3. LabelBox(labels, i, lead) = [l |-> x - half - 6, r |-> x + half + 6, b |-> b, t |-> b - LabelHeight]
  BY DEF LabelBox
<1>4. x - half - 6 \in Int /\ x + half + 6 \in Int /\ b \in Int /\ b - LabelHeight \in Int
  BY <1>1, <1>2
<1>. HIDE DEF half, x, b
<1>5. LabelBox(labels, i, lead) \in Boxes /\ LabelBox(labels, i, lead).b = b
  BY <1>3, <1>4 DEF Boxes
<1>. QED BY <1>5 DEF b

\* Two labels collide or not, whichever of them is asked.
LEMMA CollidesBoth ==
  ASSUME NEW me \in Boxes, NEW o \in Boxes
  PROVE  Collides(me, o) <=> Collides(o, me)
<1>1. /\ me.l \in Int /\ me.r \in Int /\ me.b \in Int /\ me.t \in Int
      /\ o.l \in Int /\ o.r \in Int /\ o.b \in Int /\ o.t \in Int
      /\ me.t = me.b - LabelHeight /\ o.t = o.b - LabelHeight /\ LabelHeight \in Nat
  BY HeightOK DEF Boxes
<1>2. Beside(me, o) <=> Beside(o, me)
  BY <1>1 DEF Beside
<1>3. me.t < o.b + 4 /\ me.b > o.t - 4 <=> o.t < me.b + 4 /\ o.b > me.t - 4
  BY <1>1
<1>. QED BY <1>2, <1>3 DEF Collides

\* One label is in the way of lengths that are all close to one another.
LEMMA BlocksFew ==
  ASSUME NEW labels, NEW n \in Nat, LabelsOK(labels, n), NEW i \in 1..n, NEW o \in Boxes,
         NEW k \in Nat, NEW m \in Nat, k <= m,
         Collides(LabelBox(labels, i, Base + Step * k), o),
         Collides(LabelBox(labels, i, Base + Step * m), o)
  PROVE  m - k \in 0..Reach
<1>. DEFINE p == LabelBox(labels, i, Base + Step * k)
            q == LabelBox(labels, i, Base + Step * m)
            y == labels.y[i]
<1>1. p \in Boxes /\ q \in Boxes /\ p.b = y - (14 + 6 * k) - 7 /\ q.b = y - (14 + 6 * m) - 7
  BY BoxType DEF Base, Step
<1>2. y \in Int
  BY DEF LabelsOK
<1>3. p.t < o.b + 4 /\ q.b > o.t - 4
  BY DEF Collides
<1>. HIDE DEF p, q, y
<1>4. p.t = p.b - LabelHeight /\ o.t = o.b - LabelHeight /\ o.b \in Int
  BY <1>1 DEF Boxes
<1>5. 6 * (m - k) <= 2 * LabelHeight + 7
  BY <1>1, <1>2, <1>3, <1>4, HeightOK
<1>. QED BY <1>5, HeightOK

\* With m steps more the leader is long enough.
ClearAt(labels, i, placed, m) == Clear(LabelBox(labels, i, Base + Step * m), placed)

\* The first length that is clear is taken, or else the last of all.
LEMMA LeadFound ==
  ASSUME NEW labels, NEW i, NEW placed
  PROVE  \E m \in 0..MaxSteps :
           /\ Lead(labels, i, placed) = Base + Step * m
           /\ (\E k \in 0..MaxSteps : ClearAt(labels, i, placed, k)) => ClearAt(labels, i, placed, m)
<1>. DEFINE clear(m) == ClearAt(labels, i, placed, m)
            Fits(m) == (m = MaxSteps \/ clear(m)) /\ \A k \in 0..(m - 1) : ~clear(k)
            steps == CHOOSE m \in 0..MaxSteps : Fits(m)
<1>1. Lead(labels, i, placed) = Base + Step * steps
  BY DEF Lead, ClearAt
<1>2. MaxSteps \in Nat /\ MaxSteps \in 0..MaxSteps
  BY DEF MaxSteps
<1>. HIDE DEF clear
<1>3. \E m \in 0..MaxSteps : Fits(m)
  <2>. DEFINE T == {k \in 0..MaxSteps : clear(k)}
  <2>1. CASE T = {}
    <3>1. \A k \in 0..(MaxSteps - 1) : ~clear(k)
      <4>1. \A k \in 0..(MaxSteps - 1) : k \in 0..MaxSteps
        BY <1>2
      <4>. QED BY <2>1, <4>1
    <3>2. Fits(MaxSteps)
      BY <3>1
    <3>. QED BY <1>2, <3>2
  <2>2. CASE T # {}
    <3>1. PICK m \in T : \A k \in T : m <= k
      <4>. HIDE DEF T
      <4>1. T \subseteq Nat
        BY DEF T
      <4>. QED BY <2>2, <4>1, LeastNumber
    <3>2. \A k \in 0..(m - 1) : k \in 0..MaxSteps /\ ~(m <= k)
      BY <1>2
    <3>3. Fits(m)
      BY <3>1, <3>2
    <3>. QED BY <3>3
  <2>. QED BY <2>1, <2>2
<1>4. steps \in 0..MaxSteps /\ Fits(steps)
  <2>. HIDE DEF Fits
  <2>. QED BY <1>3
<1>. HIDE DEF steps
<1>5. ASSUME NEW k \in 0..MaxSteps, clear(k) PROVE clear(steps)
  <2>1. k \notin 0..(steps - 1)
    BY <1>4, <1>5
  <2>2. steps = MaxSteps => k = steps \/ k \in 0..(steps - 1)
    BY <1>2
  <2>. QED BY <1>4, <1>5, <2>1, <2>2
<1>6. (\E k \in 0..MaxSteps : ClearAt(labels, i, placed, k)) => ClearAt(labels, i, placed, steps)
  BY <1>5 DEF clear
<1>. QED BY <1>1, <1>4, <1>6

\* With few enough labels in place, some length of the leader of the next is clear.
LEMMA SomeLengthClear ==
  ASSUME NEW labels, NEW n \in Nat, LabelsOK(labels, n), NEW i \in 1..n,
         NEW K \in Nat, NEW placed, DOMAIN placed = 1..K, \A k \in 1..K : placed[k].box \in Boxes,
         K * (Reach + 1) <= MaxSteps
  PROVE  \E m \in 0..MaxSteps : ClearAt(labels, i, placed, m)
<1>. SUFFICES ASSUME \A m \in 0..MaxSteps : ~ClearAt(labels, i, placed, m) PROVE FALSE
  OBVIOUS
<1>. DEFINE M == 0..MaxSteps
            Hits(m, k) == Collides(LabelBox(labels, i, Base + Step * m), placed[k].box)
            by == [m \in M |-> CHOOSE k \in 1..K : Hits(m, k)]
            Of(k) == {m \in M : by[m] = k}
            f == [m \in M |-> <<by[m], m - Min(Of(by[m]))>>]
            T == (1..K) \X (0..Reach)
<1>1. \A m \in M : by[m] \in 1..K /\ Hits(m, by[m])
  <2>1. \A m \in M : \E k \in 1..K : Hits(m, k)
    BY DEF ClearAt, Clear
  <2>. HIDE DEF Hits
  <2>. QED BY <2>1
<1>2. M \subseteq Nat /\ IsFiniteSet(M) /\ Cardinality(M) = MaxSteps + 1
  <2>1. 0 \in Int /\ MaxSteps \in Int /\ ~(0 > MaxSteps) /\ MaxSteps - 0 + 1 = MaxSteps + 1
    BY DEF MaxSteps
  <2>2. IsFiniteSet(0..MaxSteps) /\ Cardinality(0..MaxSteps) = IF 0 > MaxSteps THEN 0 ELSE MaxSteps - 0 + 1
    BY <2>1, FS_Interval
  <2>3. M \subseteq Nat
    OBVIOUS
  <2>. QED BY <2>1, <2>2, <2>3
<1>3. IsFiniteSet(T) /\ Cardinality(T) = K * (Reach + 1)
  <2>1. 0 \in Int /\ 1 \in Int /\ K \in Int /\ Reach \in Int
    BY HeightOK
  <2>2. IsFiniteSet(1..K) /\ Cardinality(1..K) = IF 1 > K THEN 0 ELSE K - 1 + 1
    BY <2>1, FS_Interval
  <2>3. IsFiniteSet(0..Reach) /\ Cardinality(0..Reach) = IF 0 > Reach THEN 0 ELSE Reach - 0 + 1
    BY <2>1, FS_Interval
  <2>4. Cardinality(1..K) = K
    BY <2>2
  <2>5. Cardinality(0..Reach) = Reach + 1
    BY <2>3, HeightOK
  <2>6. IsFiniteSet(T) /\ Cardinality(T) = Cardinality(1..K) * Cardinality(0..Reach)
    BY <2>2, <2>3, FS_Product
  <2>. QED BY <2>4, <2>5, <2>6
<1>. HIDE DEF M, by, T
<1>4. ASSUME NEW m \in M PROVE /\ Min(Of(by[m])) \in M /\ by[Min(Of(by[m]))] = by[m]
                               /\ Min(Of(by[m])) <= m /\ m - Min(Of(by[m])) \in 0..Reach
  <2>1. Of(by[m]) \subseteq Nat /\ m \in Of(by[m])
    BY <1>2
  <2>2. PICK x : x = Min(Of(by[m]))
    OBVIOUS
  <2>3. x \in Of(by[m]) /\ x <= m
    <3>. HIDE DEF Of
    <3>. QED BY <2>1, <2>2, LeastNumber
  <2>4. x \in M /\ by[x] = by[m]
    BY <2>3
  <2>5. Hits(x, by[m]) /\ Hits(m, by[m])
    BY <1>1, <2>4
  <2>6. m - x \in 0..Reach
    <3>1. x \in Nat /\ m \in Nat /\ placed[by[m]].box \in Boxes
      BY <1>1, <1>2, <2>4
    <3>. QED BY <2>3, <2>5, <3>1, BlocksFew
  <2>. QED BY <2>2, <2>3, <2>4, <2>6
<1>5. f \in [M -> T]
  <2>1. \A m \in M : <<by[m], m - Min(Of(by[m]))>> \in T
    <3>. HIDE DEF Of
    <3>. QED BY <1>1, <1>4 DEF T
  <2>. QED BY <2>1
<1>6. ASSUME NEW x \in M, NEW y \in M, f[x] = f[y] PROVE x = y
  <2>. HIDE DEF Of
  <2>1. by[x] = by[y] /\ x - Min(Of(by[x])) = y - Min(Of(by[y]))
    BY <1>6
  <2>2. x \in Nat /\ y \in Nat /\ Min(Of(by[x])) \in Nat
    BY <1>2, <1>4
  <2>3. x - Min(Of(by[x])) = y - Min(Of(by[x]))
    BY <2>1
  <2>. QED BY <2>2, <2>3
<1>. HIDE DEF f
<1>7. Cardinality(T) < Cardinality(M)
  <2>1. K * (Reach + 1) \in Int
    BY HeightOK
  <2>2. MaxSteps \in Int
    BY DEF MaxSteps
  <2>3. \A a, b \in Int : a <= b => a < b + 1
    OBVIOUS
  <2>. QED BY <1>2, <1>3, <2>1, <2>2, <2>3
<1>8. IsFiniteSet(M) /\ IsFiniteSet(T)
  BY <1>2, <1>3
<1>9. \E x, y \in M : x # y /\ f[x] = f[y]
  BY <1>5, <1>7, <1>8, FS_PigeonHole
<1>. QED BY <1>6, <1>9

\* Of two heights the lower one comes first; of two equal ones, the first.
LEMMA LowerOrders ==
  ASSUME NEW y, NEW n \in Nat, DOMAIN y = 1..n, \A i \in 1..n : y[i] \in Int
  PROVE  Orders(Lower(y), 1..n)
<1>1. \A i, k \in 1..n : <<i, k>> \in Lower(y) <=> y[i] > y[k] \/ (y[i] = y[k] /\ i < k)
  BY DEF Lower, Pairs
<1>2. \A a \in 1..n : <<a, a>> \notin Lower(y)
  BY <1>1
<1>3. \A a, b, c \in 1..n : <<a, b>> \in Lower(y) /\ <<b, c>> \in Lower(y) => <<a, c>> \in Lower(y)
  BY <1>1
<1>4. \A a, b \in 1..n : a # b => <<a, b>> \in Lower(y) \/ <<b, a>> \in Lower(y)
  BY <1>1
<1>. QED BY <1>2, <1>3, <1>4 DEF Orders

\* The pass of Declutter over the labels.
LEMMA HangSteps ==
  ASSUME NEW labels, NEW n \in Nat, LabelsOK(labels, n), DOMAIN labels.y = 1..n, Len(labels.y) = n
  PROVE  LET order == InOrder(n, Lower(labels.y)) IN
         \E f : /\ f[0] = <<>>
                /\ \A k \in 1..n : f[k] = Place(labels, order[k], f[k - 1])
                /\ Declutter(labels) = f[n]
<1>. DEFINE order == InOrder(n, Lower(labels.y))
            S == Seq(Hung)
            F == [x \in (1..n) \X S |-> Place(labels, order[x[1]], x[2])]
            Rec(f) == [k \in 0..n |-> IF k = 0 THEN <<>> ELSE Place(labels, order[k], f[k - 1])]
            placed == CHOOSE f : f = Rec(f)
<1>0. \A k \in 1..n : order[k] \in 1..n
  <2>1. Orders(Lower(labels.y), 1..n)
    <3>1. \A i \in 1..n : labels.y[i] \in Int
      BY DEF LabelsOK
    <3>. QED BY <3>1, LowerOrders
  <2>. QED BY <2>1, InOrderSorts
<1>1. ASSUME NEW k \in 1..n, NEW s \in S PROVE Place(labels, order[k], s) \in S
  <2>1. PICK m \in 0..MaxSteps : Lead(labels, order[k], s) = Base + Step * m
    BY LeadFound
  <2>2. Lead(labels, order[k], s) \in Int
    BY <2>1 DEF Base, Step
  <2>3. LabelBox(labels, order[k], Lead(labels, order[k], s)) \in Boxes
    BY <1>0, <2>2, BoxType
  <2>. HIDE DEF order
  <2>. QED BY <1>0, <2>3 DEF Place, Hung
<1>2. F \in [(1..n) \X S -> S] /\ <<>> \in S
  <2>1. \A x \in (1..n) \X S : Place(labels, order[x[1]], x[2]) \in S
    <3>. HIDE DEF S, order
    <3>. QED BY <1>1
  <2>. QED BY <2>1
<1>3. PICK f \in [0..n -> S] : f[0] = <<>> /\ \A k \in 1..n : f[k] = F[<<k, f[k - 1]>>]
  <2>. HIDE DEF F, S
  <2>1. HasSteps(S, n, <<>>, F)
    BY <1>2, StepsExist
  <2>. QED BY <2>1 DEF HasSteps
<1>4. ASSUME NEW k \in 1..n PROVE f[k] = Place(labels, order[k], f[k - 1])
  <2>1. k - 1 \in 0..n /\ f[k - 1] \in S
    BY <1>3
  <2>2. <<k, f[k - 1]>> \in (1..n) \X S
    BY <2>1
  <2>3. \A x \in (1..n) \X S : F[x] = Place(labels, order[x[1]], x[2])
    OBVIOUS
  <2>. HIDE DEF F, S, order
  <2>. QED BY <1>3, <2>2, <2>3
<1>5. f = Rec(f)
  <2>. HIDE DEF order
  <2>1. ASSUME NEW k \in 0..n PROVE f[k] = Rec(f)[k]
    <3>1. CASE k = 0
      BY <1>3, <3>1
    <3>2. CASE k # 0
      <4>1. k \in 1..n
        BY <3>2
      <4>. QED BY <1>4, <3>2, <4>1
    <3>. QED BY <3>1, <3>2
  <2>2. f = [k \in 0..n |-> f[k]] /\ Rec(f) = [k \in 0..n |-> Rec(f)[k]]
    BY <1>3
  <2>. QED BY <2>1, <2>2
<1>6. placed = Rec(placed)
  <2>. HIDE DEF Rec
  <2>. QED BY <1>5
<1>7. Declutter(labels) = placed[n]
  BY DEF Declutter
<1>8. placed[0] = <<>> /\ \A k \in 1..n : placed[k] = Place(labels, order[k], placed[k - 1])
  <2>. HIDE DEF placed, order
  <2>1. \A k \in 0..n : placed[k] = IF k = 0 THEN <<>> ELSE Place(labels, order[k], placed[k - 1])
    BY <1>6
  <2>. QED BY <2>1
<1>. QED BY <1>7, <1>8

\* Every label is hung, each clear of those hung before it and so of all.
LEMMA HungClear ==
  ASSUME RoomForLabels, NEW labels, NEW n \in Nat, n <= Len(Sources), LabelsOK(labels, n),
         DOMAIN labels.y = 1..n, Len(labels.y) = n
  PROVE  LET hung == Declutter(labels) IN
         /\ {hung[k].of : k \in DOMAIN hung} = 1..n
         /\ \A k, m \in DOMAIN hung : k # m => ~Collides(hung[k].box, hung[m].box)
<1>. DEFINE order == InOrder(n, Lower(labels.y))
            Fine(s, k) == /\ s \in Seq(Hung) /\ Len(s) = k
                          /\ \A j \in 1..k : s[j].of = order[j]
                          /\ \A j, m \in 1..k : j # m => ~Collides(s[j].box, s[m].box)
<1>1. /\ \A k \in 1..n : order[k] \in 1..n
      /\ \A a \in 1..n : \E k \in 1..n : order[k] = a
  <2>1. Orders(Lower(labels.y), 1..n)
    <3>1. \A i \in 1..n : labels.y[i] \in Int
      BY DEF LabelsOK
    <3>. QED BY <3>1, LowerOrders
  <2>2. InOrder(n, Lower(labels.y)) \in [1..n -> 1..n] /\ Covers(InOrder(n, Lower(labels.y)), 1..n)
    <3>1. PICK R : R = Lower(labels.y)
      OBVIOUS
    <3>2. Orders(R, 1..n)
      BY <2>1, <3>1
    <3>3. InOrder(n, R) \in [1..n -> 1..n] /\ Covers(InOrder(n, R), 1..n)
      BY <3>2, InOrderSorts
    <3>. QED BY <3>1, <3>3
  <2>. HIDE DEF order
  <2>3. order = InOrder(n, Lower(labels.y))
    BY DEF order
  <2>. QED BY <2>2, <2>3 DEF Covers
<1>2. PICK f : /\ f[0] = <<>>
               /\ \A k \in 1..n : f[k] = Place(labels, order[k], f[k - 1])
               /\ Declutter(labels) = f[n]
  BY HangSteps
<1>. HIDE DEF order
<1>3. ASSUME NEW k \in 1..n, NEW s, Fine(s, k - 1) PROVE Fine(Place(labels, order[k], s), k)
  <2>1. k - 1 \in Nat /\ k \in Nat /\ DOMAIN s = 1..(k - 1) /\ Len(s) = k - 1
        /\ \A j \in 1..(k - 1) : s[j].box \in Boxes
    <3>1. \A j \in 1..(k - 1) : s[j] \in Hung
      BY <1>3
    <3>. QED BY <1>3, <3>1 DEF Hung
  <2>2. (k - 1) * (Reach + 1) <= MaxSteps
    <3>1. (Len(Sources) - 1) * (Reach + 1) <= MaxSteps
      BY DEF RoomForLabels, Reach
    <3>2. k - 1 <= Len(Sources) - 1 /\ Len(Sources) \in Nat
      BY <2>1, SourcesOK
    <3>3. \A a, b \in Int, c \in Nat : a <= b => a * c <= b * c
      OBVIOUS
    <3>4. (k - 1) * (Reach + 1) <= (Len(Sources) - 1) * (Reach + 1)
      <4>1. Reach + 1 \in Nat /\ k - 1 \in Int /\ Len(Sources) - 1 \in Int
        BY <2>1, <3>2, HeightOK
      <4>. QED BY <3>2, <3>3, <4>1
    <3>5. (k - 1) * (Reach + 1) \in Int /\ (Len(Sources) - 1) * (Reach + 1) \in Int /\ MaxSteps \in Int
      BY <2>1, <3>2, HeightOK DEF MaxSteps
    <3>. QED BY <3>1, <3>4, <3>5
  <2>3. \E m \in 0..MaxSteps : ClearAt(labels, order[k], s, m)
    BY <1>1, <2>1, <2>2, SomeLengthClear
  <2>4. PICK m \in 0..MaxSteps : /\ Lead(labels, order[k], s) = Base + Step * m
                                 /\ ClearAt(labels, order[k], s, m)
    BY <2>3, LeadFound
  <2>. DEFINE box == LabelBox(labels, order[k], Lead(labels, order[k], s))
              h == [of |-> order[k], box |-> box]
              t == Place(labels, order[k], s)
  <2>5. box \in Boxes
    <3>1. Lead(labels, order[k], s) \in Int
      BY <2>4 DEF Base, Step
    <3>. QED BY <1>1, <3>1, BoxType
  <2>6. \A j \in 1..(k - 1) : ~Collides(box, s[j].box)
    BY <2>1, <2>4 DEF ClearAt, Clear
  <2>7. t = Append(s, h)
    BY DEF Place
  <2>. HIDE DEF box, t
  <2>8. h \in Hung /\ h.of = order[k] /\ h.box = box
    BY <1>1, <2>5 DEF Hung
  <2>. HIDE DEF h
  <2>9. /\ t \in Seq(Hung) /\ Len(t) = k /\ t[k] = h
        /\ \A j \in 1..(k - 1) : t[j] = s[j]
    BY <1>3, <2>1, <2>7, <2>8, AppendProperties
  <2>10. \A j \in 1..k : j \in 1..(k - 1) \/ j = k
    BY <2>1
  <2>11. \A j \in 1..k : t[j].of = order[j]
    BY <1>3, <2>8, <2>9, <2>10
  <2>12. \A j \in 1..(k - 1) : ~Collides(s[j].box, box)
    BY <2>1, <2>5, <2>6, CollidesBoth
  <2>13. \A j, i \in 1..k : j # i => ~Collides(t[j].box, t[i].box)
    BY <1>3, <2>6, <2>8, <2>9, <2>10, <2>12
  <2>. QED BY <2>9, <2>11, <2>13 DEF t
<1>. DEFINE Wrong == {k \in Nat : k <= n /\ ~Fine(f[k], k)}
<1>4. ASSUME Wrong # {} PROVE FALSE
  <2>1. PICK k \in Wrong : \A y \in Wrong : k <= y
    <3>. HIDE DEF Fine
    <3>. QED BY <1>4, LeastNumber
  <2>2. CASE k = 0
    <3>1. <<>> \in Seq(Hung) /\ Len(<<>>) = 0 /\ \A j \in 1..0 : FALSE
      OBVIOUS
    <3>2. Fine(<<>>, 0)
      BY <3>1
    <3>. HIDE DEF Fine
    <3>. QED BY <1>2, <2>1, <2>2, <3>2
  <2>3. CASE k # 0
    <3>. HIDE DEF Fine
    <3>1. k \in 1..n /\ k - 1 \in Nat /\ k - 1 <= n /\ ~(k <= k - 1)
      BY <2>1, <2>3
    <3>2. Fine(f[k - 1], k - 1)
      BY <2>1, <3>1
    <3>. QED BY <1>2, <1>3, <2>1, <3>1, <3>2
  <2>. QED BY <2>2, <2>3
<1>5. Fine(f[n], n)
  <2>. HIDE DEF Fine
  <2>. QED BY <1>4
<1>6. PICK hung : hung = f[n]
  OBVIOUS
<1>7. /\ DOMAIN hung = 1..n
      /\ \A j \in 1..n : hung[j].of = order[j]
      /\ \A j, m \in 1..n : j # m => ~Collides(hung[j].box, hung[m].box)
  BY <1>5, <1>6
<1>8. {hung[k].of : k \in 1..n} = 1..n
  <2>1. \A a \in {hung[k].of : k \in 1..n} : a \in 1..n
    BY <1>1, <1>7
  <2>2. \A a \in 1..n : a \in {hung[k].of : k \in 1..n}
    BY <1>1, <1>7
  <2>. QED BY <2>1, <2>2
<1>9. Declutter(labels) = hung
  BY <1>2, <1>6
<1>. QED BY <1>7, <1>8, <1>9

\* What Labels makes of the peaks are labels.
LEMMA LabelsMade ==
  ASSUME TypeOK, ScanInv, NEW route, NEW crags \in [1..Len(scanned) -> Crags]
  PROVE  LET labels == Labels(Peaks, route, crags) IN
         /\ LabelsOK(labels, Len(scanned))
         /\ DOMAIN labels.y = 1..Len(scanned) /\ Len(labels.y) = Len(scanned)
<1>. DEFINE p == Peaks
            n == Len(scanned)
            labels == Labels(p, route, crags)
<1>1. n \in Nat /\ p \in Seq(Yields) /\ Len(p) = n /\ DOMAIN p = 1..n
  BY PeaksSorted DEF TypeOK
<1>2. DOMAIN labels.y = 1..n /\ Len(labels.y) = n
  <2>1. labels.y = [i \in 1..n |-> crags[i].y]
    BY <1>1 DEF Labels
  <2>. QED BY <1>1, <2>1
<1>3. ASSUME NEW i \in 1..n PROVE labels.x[i] \in Int /\ labels.y[i] \in Int /\ labels.w[i] \in Nat
  <2>1. /\ labels.x[i] = TopX(p, i) + crags[i].drift /\ labels.y[i] = crags[i].y
        /\ labels.w[i] = WidthOf(p[i], route)
    BY <1>1 DEF Labels, TopOf
  <2>2. WidthOf(p[i], route) \in Nat /\ PlateWidth \in Nat
    <3>1. LabelWidth \in Nat /\ RouteLabelWidth \in Nat /\ PlateWidth \in Nat
      BY PlateConstantsOK
    <3>. QED BY <3>1 DEF WidthOf
  <2>3. crags[i].drift \in Int /\ crags[i].y \in Int
    <3>1. crags[i] \in Crags
      BY <1>3
    <3>. QED BY <3>1, PlateConstantsOK
  <2>4. Den(p) \in Nat /\ Den(p) >= 1 /\ PlaceOf(p, i) \in Nat
    <3>1. n \in Nat \ {0} /\ \A j, k \in 1..n : j <= k => RiskScore(p[j]) <= RiskScore(p[k])
      BY <1>1, PeaksSorted
    <3>. QED BY <1>1, <3>1, PlacesGrow
  <2>5. TopX(p, i) \in Int
    <3>1. PICK v \in Int : v = (8 * PlaceOf(p, i) + 0 * Den(p)) * PlateWidth
      BY <2>2, <2>4
    <3>2. PICK d \in Nat : d = 800 * Den(p) /\ d > 0
      BY <2>4
    <3>3. (2 * v + d) \div (2 * d) \in Int
      BY <3>2
    <3>4. Column(p, i, 0) \in Int
      BY <3>1, <3>2, <3>3 DEF Column, HalfUp
    <3>. QED BY <2>2, <3>4 DEF TopX
  <2>. QED BY <2>1, <2>2, <2>3, <2>5
<1>4. LabelsOK(labels, n)
  BY <1>3 DEF LabelsOK
<1>. QED BY <1>2, <1>4

\* Where the leaders are long enough for the number of sources, the labels of
\* every scan are all hung and clear of one another, wherever the tops are.
THEOREM LabelsAlwaysClear == ASSUME RoomForLabels PROVE Spec => []LabelsClear
<1>1. ASSUME TypeOK, ScanInv PROVE LabelsClear
  <2>1. Len(scanned) \in Nat /\ Len(scanned) <= Len(Sources) /\ DOMAIN scanned = 1..Len(scanned)
        /\ DOMAIN Peaks = 1..Len(scanned)
    BY <1>1, PeaksSorted, SourcesOK DEF ScanInv, TypeOK
  <2>2. ASSUME NEW labels \in {Labels(Peaks, Route, crags) : crags \in Ridges(Peaks)}
        PROVE  LET hung == Declutter(labels) IN
               /\ {hung[k].of : k \in DOMAIN hung} = DOMAIN scanned
               /\ \A k, m \in DOMAIN hung : k # m => ~Collides(hung[k].box, hung[m].box)
    <3>1. PICK crags \in [DOMAIN Peaks -> Crags] : labels = Labels(Peaks, Route, crags)
      BY <2>2 DEF Ridges
    <3>2. PICK n : n = Len(scanned)
      OBVIOUS
    <3>3. LabelsOK(labels, n) /\ DOMAIN labels.y = 1..n /\ Len(labels.y) = n
      BY <1>1, <2>1, <3>1, <3>2, LabelsMade
    <3>4. n \in Nat /\ n <= Len(Sources)
      BY <2>1, <3>2
    <3>. QED BY <2>1, <3>2, <3>3, <3>4, HungClear
  <2>. QED BY <2>2 DEF LabelsClear
<1>. QED BY <1>1, ScannedOnce, PTL
=============================================================================
