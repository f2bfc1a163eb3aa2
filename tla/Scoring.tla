------------------------------ MODULE Scoring ------------------------------
(***************************************************************************)
(* What the agent makes of one scan: scanSource (src/lib/scanner.ts) reads *)
(* the Blend pools and then the DeFindex strategies one after the other,   *)
(* leaving out those it cannot read; scorePools (src/lib/risk.ts) scores   *)
(* them for the configured tolerance; bestPool picks the one decide        *)
(* (src/lib/agent.ts) compares with the position.                          *)
(*                                                                         *)
(* Money is in whole USDC, APY and utilization are in basis points as the  *)
(* adapters round them.  The scores are floats in the code; here they are  *)
(* the exact fractions, rounded half up as Math.round does.                *)
(***************************************************************************)
EXTENDS Integers, Sequences, SequencesExt

CONSTANTS
  BlendPools,    \* rt.poolIds, in the order they are read
  Strategies,    \* cfg.scanDefindexStrategies, read after them
  FallbackTvl,   \* fallbackTvlUsdc of a strategy
  Apys, Tvls,    \* what a reserve may show: supply APY, total supply,
  Utils, Ages    \* utilization, and the age of its oracle price in seconds

NoPool == "none"      \* null; an id is the address of a contract

ASSUME ScoringConstantsOK ==
  /\ BlendPools \in Seq(STRING) /\ Strategies \in Seq(STRING)
  /\ IsInjective(BlendPools \o Strategies)
  /\ NoPool \notin Range(BlendPools \o Strategies)
  /\ FallbackTvl \in Nat
  /\ Apys \subseteq Nat /\ Tvls \subseteq Nat /\ Ages \subseteq Nat
  /\ Utils \subseteq 0..10000

VARIABLES
  tolerance,   \* cfg.tolerance of this deployment
  scanned,     \* the yields read so far, in order
  at           \* how many ids the scan has tried

vars == <<tolerance, scanned, at>>

Tolerances == {"conservative", "balanced", "aggressive"}
Sources == BlendPools \o Strategies
IsStrategy(n) == n > Len(BlendPools)

NoPrice == -1                    \* the oracle, or its price of the asset, is missing
Shares == 0..10000               \* a utilization, in bps
Yields == [pool : STRING, apy : Nat, tvl : Nat, util : Shares, healthy : BOOLEAN]

-----------------------------------------------------------------------------
(* risk.ts *)
HalfUp(n, d) == (2 * n + d) \div (2 * d)          \* Math.round(n / d)

MinTvl(t) == IF t = "conservative" THEN 50000 ELSE 0
CapsSwapped(t) ==                                 \* mutant: two rows of the table swapped
  CASE t = "conservative" -> 65 [] t = "balanced" -> 35 [] t = "aggressive" -> 100
MaxRisk(t) ==
  CASE t = "conservative" -> 35 [] t = "balanced" -> 65 [] t = "aggressive" -> 100

TvlRef == 100000
UtilRisk(y) == HalfUp(y.util * 70, 10000)
TvlRewarded(y) ==                                 \* mutant: the ratio itself is the risk
  IF y.tvl >= TvlRef THEN 30 ELSE HalfUp(y.tvl * 30, TvlRef)
TvlRisk(y) == IF y.tvl >= TvlRef THEN 0 ELSE HalfUp((TvlRef - y.tvl) * 30, TvlRef)

RiskScore(y) == LET r == UtilRisk(y) + TvlRisk(y) IN IF r > 100 THEN 100 ELSE r

Eligible(y, t) ==
  /\ y.healthy
  /\ y.tvl >= MinTvl(t)
  /\ RiskScore(y) <= MaxRisk(t)

\* eligible.reduce((a, b) => (b.apyBps > a.apyBps ? b : a)), or null.
NoYield == [pool |-> NoPool, apy |-> -1]
LaterWins(a, b) == IF b.apy >= a.apy THEN b ELSE a  \* mutant: >= for >
Better(a, b) == IF b.apy > a.apy THEN b ELSE a
BestPool(s, t) ==
  LET best[n \in 0..Len(s)] ==                     \* of the first n
        IF n = 0 THEN NoYield
        ELSE IF Eligible(s[n], t) THEN Better(best[n - 1], s[n])
        ELSE best[n - 1]
  IN best[Len(s)].pool

-----------------------------------------------------------------------------
TypeOK ==
  /\ tolerance \in Tolerances
  /\ scanned \in Seq(Yields)
  /\ at \in Nat

Init ==
  /\ tolerance \in Tolerances
  /\ scanned = <<>>
  /\ at = 0

\* A price more than an hour old, or none, marks the reserve.
Healthy(age) == age # NoPrice /\ age <= 3600

\* A strategy reports the funds it manages, or its configured value when the
\* read of that fails; a pool its total supply.
NullTaken(n) ==                                   \* mutant: an unread total is taken as -1
  IF IsStrategy(n) THEN Tvls \cup {-1} ELSE Tvls
TvlsOf(n) == IF IsStrategy(n) THEN Tvls \cup {FallbackTvl} ELSE Tvls

\* The next id is read: its reserve, the oracle and, for a strategy, its funds.
ReadPool ==
  /\ at < Len(Sources)
  /\ \E a \in Apys, v \in TvlsOf(at + 1), u \in Utils, g \in Ages \cup {NoPrice} :
       scanned' = Append(scanned, [pool |-> Sources[at + 1], apy |-> a, tvl |-> v,
                                   util |-> u, healthy |-> Healthy(g)])
  /\ at' = at + 1
  /\ UNCHANGED tolerance

\* readPool throws: the pool does not load or has no USDC reserve.
SkipPool ==
  /\ at < Len(Sources)
  /\ at' = at + 1
  /\ UNCHANGED <<tolerance, scanned>>

Next == ReadPool \/ SkipPool
Spec == Init /\ [][Next]_vars
-----------------------------------------------------------------------------
(***************************************************************************)
(* Properties.                                                             *)
(***************************************************************************)
\* The pool chosen is eligible, no eligible pool pays more, and none read
\* before it pays as much; none is chosen only if none is eligible.
BestIsFirstHighest ==
  LET Able == {n \in DOMAIN scanned : Eligible(scanned[n], tolerance)}
      b == BestPool(scanned, tolerance)
  IN IF Able = {} THEN b = NoPool
     ELSE \E n \in Able :
            /\ b = scanned[n].pool
            /\ \A m \in Able : scanned[m].apy < scanned[n].apy
                               \/ (scanned[m].apy = scanned[n].apy /\ n <= m)

\* A pool a cautious tolerance accepts is accepted by every bolder one.
BolderSeesMore ==
  \A n \in DOMAIN scanned :
    /\ Eligible(scanned[n], "conservative") => Eligible(scanned[n], "balanced")
    /\ Eligible(scanned[n], "balanced") => Eligible(scanned[n], "aggressive")

\* "Higher utilization and lower TVL increase risk score" (risk.test.ts:26):
\* of two pools the one used more and holding less never scores as safer, and
\* when it is eligible so is the other, unless that one's oracle is flagged.
RiskOrdered ==
  \A n, m \in DOMAIN scanned :
    LET y == scanned[n] z == scanned[m] IN
    y.util <= z.util /\ y.tvl >= z.tvl =>
      /\ RiskScore(y) <= RiskScore(z)
      /\ Eligible(z, tolerance) /\ y.healthy => Eligible(y, tolerance)

=============================================================================
