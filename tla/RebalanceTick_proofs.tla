------------------------ MODULE RebalanceTick_proofs ------------------------
(***************************************************************************)
(* Theorems about RebalanceTick, for every set of calls, number of pools,  *)
(* caps, margin, cooldown and times, in both wallet modes and for every    *)
(* choice of Events.  Type correctness needs no more; the guards hold on   *)
(* one instance.                                                           *)
(***************************************************************************)
EXTENDS RebalanceTick, WellFoundedInduction, TLAPS

\* The service runs as one process: what rt.running and rt.lastRebalanceAt are
\* shared by.
OneInstance == \A i, j \in Instances : i = j

-----------------------------------------------------------------------------
(***************************************************************************)
(* The inductive invariant.                                                *)
(***************************************************************************)
\* A tick holds the guard of its instance, alone, and has read the clock.
TickInv ==
  /\ Start <= clock
  /\ \A c \in Calls : Active(c) =>
       /\ host[c] \in Instances /\ running[host[c]]
       /\ Start <= now[c] /\ now[c] <= clock
  /\ \A c, d \in Calls : Active(c) /\ Active(d) /\ host[c] = host[d] => c = d

BaseInv == TypeOK /\ TickInv

\* From the decision to the commit.
Decided == {"capCheck", "execute", "record", "commit"}

\* What was decided is still right when it is committed: meanwhile the position
\* can only be cleared.  The mirror writes into an idle position.
ChoiceInv ==
  /\ \A c \in Calls : pc[c] \in Decided =>
       /\ target[c] \in Eligible(scored[c])
       /\ position.pool # NoPool => PaysEnough(scored[c], position.pool, target[c])
  /\ \A c \in Calls : pc[c] = "mirrorWrite" => position.pool = NoPool

\* Nothing is recorded for a time to come, and a tick that passed the check
\* leaves room in all that was recorded since a day before it.
CapInv ==
  /\ \A t, u \in Times : t <= u => rebalances[u] <= rebalances[t]
  /\ \A t \in Times : clock < t => rebalances[t] = 0
  /\ \A c \in Calls : pc[c] \in {"execute", "record"} => WithinDailyCap(c)
  /\ DailyCapHolds

\* The stamp the cooldown is counted from is that of the last committed move,
\* unless the tick that made it is about to set it.
StampInv ==
  /\ lastActed <= clock
  /\ \A c \in Calls : Active(c) => lastActed <= now[c]
  /\ \A c \in Calls : pc[c] = "acted" => lastActed = now[c]
  /\ \/ \E c \in Calls : pc[c] = "acted"
     \/ \A i \in Instances : lastActed <= lastRebalanceAt[i]
  /\ \A c \in Calls : pc[c] \in Decided => ~CoolingDown(c)

\* In keypair mode a tick that only refreshes finds no amount to move.
RefreshesMoveNothing ==
  \/ SmartAccount
  \/ scanned /\ \A c \in Calls : pc[c] # "checked" /\ (Active(c) => doExecute[c])
  \/ position.amount = 0 /\ \A c \in Calls : amount[c] = 0

\* Only in smart-account mode the loop over the users follows the decision.
Mirroring == {"perUser", "mirrorRead", "mirrorWrite"}

\* What is recorded, and what is about to be, was supplied.
MovedInv ==
  /\ RefreshesMoveNothing
  /\ ~SmartAccount => \A c \in Calls : pc[c] \notin Mirroring
  /\ ~SmartAccount => /\ rebalances[0] <= execBalance
                      /\ \A c \in Calls : pc[c] = "record" =>
                           rebalances[0] + amount[c] <= execBalance

-----------------------------------------------------------------------------
(***************************************************************************)
(* The best pool.                                                          *)
(***************************************************************************)
\* A set of numbers that is not empty has a least element.
LEMMA LeastNumber ==
  ASSUME NEW T, T \subseteq Nat, T # {}
  PROVE  \E x \in T : \A y \in T : x <= y
<1>1. PICK x \in T : \A y \in T : ~ (<<y, x>> \in OpToRel(<, Nat))
  BY NatLessThanWellFounded, WFMin
<1>2. \A y \in T : ~ (y < x)
  BY <1>1 DEF OpToRel
<1>. QED BY <1>2

\* Pool p is the best of those up to n.
BestUpTo(s, n, p) ==
  /\ p \in Eligible(s) /\ p <= n
  /\ \A q \in Eligible(s) : q <= n =>
       s[p].apy > s[q].apy \/ (s[p].apy = s[q].apy /\ p <= q)

\* Pools and what they pay are numbers.
LEMMA PoolNumbers ==
  ASSUME RebalanceConstantsOK, NEW s \in [Pools -> Quotes], NEW p \in Eligible(s)
  PROVE  p \in Nat /\ 1 <= p /\ p <= NumPools /\ s[p].apy \in Nat
<1>1. p \in Pools /\ NumPools \in Nat
  BY DEF Eligible, RebalanceConstantsOK
<1>2. s[p].apy \in Apys \cup {0}
  BY <1>1 DEF Quotes
<1>3. s[p].apy \in Nat
  <2>1. Apys \subseteq Nat
    BY DEF RebalanceConstantsOK
  <2>2. Apys \cup {0} \subseteq Nat
    BY <2>1
  <2>. QED BY <1>2, <2>2, Zenon
<1>. QED BY <1>1, <1>3 DEF Pools

\* There is a best pool if there is an eligible one: else some first pool would
\* have none up to it, though there is one up to the pool before.
LEMMA BestExists ==
  ASSUME RebalanceConstantsOK, NEW s \in [Pools -> Quotes], Eligible(s) # {}
  PROVE  \E p \in Eligible(s) : BestUpTo(s, NumPools, p)
<1>. DEFINE Bad == {n \in Nat : /\ \E q \in Eligible(s) : q <= n
                                /\ ~ \E p \in Eligible(s) : BestUpTo(s, n, p)}
<1>1. \A p \in Eligible(s) : p \in Nat /\ 1 <= p /\ p <= NumPools /\ s[p].apy \in Nat
  BY PoolNumbers
<1>2. SUFFICES ASSUME Bad # {} PROVE FALSE
  <2>1. NumPools \notin Bad
    BY <1>2
  <2>2. NumPools \in Nat
    BY DEF RebalanceConstantsOK
  <2>3. \E q \in Eligible(s) : q <= NumPools
    BY <1>1
  <2>. QED BY <2>1, <2>2, <2>3
<1>3. PICK m \in Bad : \A n \in Bad : m <= n
  <2>. HIDE DEF Bad
  <2>1. Bad \subseteq Nat
    BY DEF Bad
  <2>. QED BY <1>2, <2>1, LeastNumber
<1>4. m \in Nat /\ ~ \E p \in Eligible(s) : BestUpTo(s, m, p)
  OBVIOUS
<1>5. PICK q \in Eligible(s) : q <= m
  OBVIOUS
<1>6. m # 0
  BY <1>1, <1>5
<1>7. m - 1 \in Nat /\ m - 1 \notin Bad
  <2>1. m - 1 \in Nat /\ ~ (m <= m - 1)
    BY <1>4, <1>6
  <2>. HIDE DEF Bad
  <2>. QED BY <1>3, <2>1
<1>8. CASE \E p \in Eligible(s) : BestUpTo(s, m - 1, p)
  <2>. PICK p \in Eligible(s) : BestUpTo(s, m - 1, p)
    BY <1>8
  <2>1. \A r \in Eligible(s) : r <= m => r <= m - 1 \/ r = m
    BY <1>1, <1>4
  <2>2. CASE m \in Eligible(s) /\ s[m].apy > s[p].apy
    <3>1. \A r \in Eligible(s) : r <= m - 1 => s[m].apy > s[r].apy
      BY <1>1, <2>2 DEF BestUpTo
    <3>2. BestUpTo(s, m, m)
      BY <1>1, <2>1, <2>2, <3>1 DEF BestUpTo
    <3>. QED BY <1>4, <2>2, <3>2
  <2>3. CASE ~ (m \in Eligible(s) /\ s[m].apy > s[p].apy)
    <3>1. p \in Nat /\ p <= m - 1 /\ p <= m
      BY <1>1, <1>4 DEF BestUpTo
    <3>2. m \in Eligible(s) => s[p].apy > s[m].apy \/ (s[p].apy = s[m].apy /\ p <= m)
      BY <1>1, <2>3, <3>1
    <3>3. BestUpTo(s, m, p)
      BY <2>1, <3>1, <3>2 DEF BestUpTo
    <3>. QED BY <1>4, <3>3
  <2>. QED BY <2>2, <2>3
<1>9. CASE ~ \E p \in Eligible(s) : BestUpTo(s, m - 1, p)
  <2>1. \A r \in Eligible(s) : ~ (r <= m - 1)
    BY <1>7, <1>9
  <2>2. \A r \in Eligible(s) : r <= m => r = m
    BY <1>1, <1>4, <2>1
  <2>3. m \in Eligible(s)
    BY <1>5, <2>2
  <2>4. BestUpTo(s, m, m)
    BY <1>1, <2>2, <2>3 DEF BestUpTo
  <2>. QED BY <1>4, <2>3, <2>4
<1>. QED BY <1>8, <1>9

\* bestPool answers an eligible pool, or none if there is none.
LEMMA BestEligible ==
  ASSUME RebalanceConstantsOK, NEW s \in [Pools -> Quotes]
  PROVE  /\ Best(s) = NoPool \/ Best(s) \in Eligible(s)
         /\ Best(s) \in 0..NumPools
<1>1. CASE Eligible(s) = {}
  BY <1>1 DEF Best, NoPool, RebalanceConstantsOK
<1>2. CASE Eligible(s) # {}
  <2>1. \E p \in Eligible(s) : \A q \in Eligible(s) :
          s[p].apy > s[q].apy \/ (s[p].apy = s[q].apy /\ p <= q)
    <3>1. \A q \in Eligible(s) : q <= NumPools
      BY DEF Eligible, Pools, RebalanceConstantsOK
    <3>. QED BY <1>2, <3>1, BestExists DEF BestUpTo
  <2>2. Best(s) \in Eligible(s)
    BY <1>2, <2>1 DEF Best
  <2>. QED BY <2>2 DEF Eligible, Pools, RebalanceConstantsOK
<1>. QED BY <1>1, <1>2

-----------------------------------------------------------------------------
(***************************************************************************)
(* Type correctness.                                                       *)
(***************************************************************************)
LEMMA BaseInit == ASSUME RebalanceConstantsOK, Init PROVE BaseInv
<1>1. TypeOK
  <2>1. MaxTotal \in Nat /\ NumPools \in Nat /\ Start \in Times /\ 0 \in Times
    BY DEF RebalanceConstantsOK, Times
  <2>2. position \in Positions
    BY <2>1 DEF Init, Positions, Idle, NoPool, Pools, ExecPool
  <2>3. NoScan \in [Pools -> Quotes]
    BY DEF NoScan, Quotes
  <2>4. scanned \in BOOLEAN
    BY DEF Init
  <2>. QED BY <2>1, <2>2, <2>3, <2>4 DEF Init, TypeOK, NoPool, InTick
<1>2. TickInv
  BY DEF RebalanceConstantsOK, Init, TickInv, Active, InTick
<1>. QED BY <1>1, <1>2 DEF BaseInv

\* The parts of the type invariant: what a deployment shares, what a call has.
SharedTypes ==
  /\ walletMode \in Modes
  /\ position \in Positions
  /\ rebalances \in [Times -> Nat]
  /\ scanned \in BOOLEAN
  /\ clock \in Times
  /\ execBalance \in Nat
  /\ lastRebalanceAt \in [Instances -> Times]
  /\ lastActed \in Times
CallTypes ==
  /\ running \in [Instances -> BOOLEAN]
  /\ pc \in [Calls -> InTick \cup {"out", "checked"}]
  /\ host \in [Calls -> Instances \cup {NoInstance}]
  /\ doExecute \in [Calls -> BOOLEAN]
  /\ now \in [Calls -> Times]
  /\ scored \in [Calls -> [Pools -> Quotes]]
  /\ target \in [Calls -> 0..NumPools]
  /\ amount \in [Calls -> Nat]
  /\ total \in [Calls -> Nat]

LEMMA TypesSplit == TypeOK <=> SharedTypes /\ CallTypes
BY DEF TypeOK, SharedTypes, CallTypes

\* Calls that return are as at the start; the others are left alone.
LEMMA ForgetEffect ==
  ASSUME RebalanceConstantsOK, CallTypes, NEW S, Forget(S), running' \in [Instances -> BOOLEAN]
  PROVE  /\ CallTypes'
         /\ \A d \in Calls : d \in S => pc'[d] = "out" /\ amount'[d] = 0
         /\ \A d \in Calls : d \notin S =>
              /\ pc'[d] = pc[d] /\ host'[d] = host[d] /\ doExecute'[d] = doExecute[d]
              /\ now'[d] = now[d] /\ scored'[d] = scored[d] /\ target'[d] = target[d]
              /\ amount'[d] = amount[d] /\ total'[d] = total[d]
<1>1. 0 \in Times /\ 0 \in 0..NumPools /\ NoScan \in [Pools -> Quotes]
  BY DEF RebalanceConstantsOK, Times, NoScan, Quotes
<1>2. /\ pc' = [d \in Calls |-> IF d \in S THEN "out" ELSE pc[d]]
      /\ host' = [d \in Calls |-> IF d \in S THEN NoInstance ELSE host[d]]
      /\ doExecute' = [d \in Calls |-> IF d \in S THEN FALSE ELSE doExecute[d]]
      /\ now' = [d \in Calls |-> IF d \in S THEN 0 ELSE now[d]]
  BY DEF Forget
<1>3. /\ scored' = [d \in Calls |-> IF d \in S THEN NoScan ELSE scored[d]]
      /\ target' = [d \in Calls |-> IF d \in S THEN 0 ELSE target[d]]
      /\ amount' = [d \in Calls |-> IF d \in S THEN 0 ELSE amount[d]]
      /\ total' = [d \in Calls |-> IF d \in S THEN 0 ELSE total[d]]
  BY DEF Forget, NoPool
<1>4. /\ pc' \in [Calls -> InTick \cup {"out", "checked"}]
      /\ host' \in [Calls -> Instances \cup {NoInstance}]
      /\ doExecute' \in [Calls -> BOOLEAN]
      /\ now' \in [Calls -> Times]
  BY <1>1, <1>2 DEF CallTypes
<1>5. /\ scored' \in [Calls -> [Pools -> Quotes]]
      /\ target' \in [Calls -> 0..NumPools]
      /\ amount' \in [Calls -> Nat]
      /\ total' \in [Calls -> Nat]
  BY <1>1, <1>3 DEF CallTypes
<1>. QED BY <1>2, <1>3, <1>4, <1>5 DEF CallTypes

\* How a step of a call may change the calls: it gets in, it is turned away, it
\* goes on in its tick, or it leaves.
Enters(c) ==
  /\ pc[c] \in {"out", "checked"}
  /\ \E i \in Instances, b \in BOOLEAN : Enter(c, i, b)
StaysOut(c) ==
  /\ pc[c] \in {"out", "checked"}
  /\ \E l \in {"out", "checked"} : Goto(c, l)
  /\ UNCHANGED <<stored, clock, execBalance, runtime, host, doExecute, now, scored,
                 target, amount, total, lastActed>>
GoesOn(c) ==
  /\ Active(c)
  /\ \E l \in InTick : Goto(c, l)
  /\ UNCHANGED <<running, host, doExecute, now>>
  /\ \A d \in Calls \ {c} : /\ scored'[d] = scored[d] /\ target'[d] = target[d]
                            /\ amount'[d] = amount[d] /\ total'[d] = total[d]
  /\ scored' \in [Calls -> [Pools -> Quotes]] /\ target' \in [Calls -> 0..NumPools]
  /\ amount' \in [Calls -> Nat] /\ total' \in [Calls -> Nat]
Leaves(c) == Active(c) /\ Leave(c)

\* The end of the decision keeps the call's locals but the pool chosen.
LEMMA ReturnKind ==
  ASSUME TypeOK, NEW c \in Calls, Active(c), NEW t \in 0..NumPools, Return(c, t)
  PROVE  GoesOn(c) \/ Leaves(c)
BY DEF Return, GoesOn, Leaves, Goto, InTick, TypeOK

LEMMA StepKind ==
  ASSUME RebalanceConstantsOK, TypeOK, NEW c \in Calls, Step(c)
  PROVE  Enters(c) \/ StaysOut(c) \/ GoesOn(c) \/ Leaves(c)
<1>1. CASE RunAgentTick(c)
  BY <1>1 DEF RunAgentTick, Enters
<1>2. CASE EnsureScanPopulated(c)
  BY <1>2 DEF EnsureScanPopulated, StaysOut
<1>3. CASE RunScanRefresh(c)
  BY <1>3 DEF RunScanRefresh, Enters, StaysOut
<1>4. CASE Scan(c)
  <2>1. PICK s \in [Pools -> Quotes] : scored' = [scored EXCEPT ![c] = s]
    BY <1>4 DEF Scan
  <2>. QED BY <1>4, <2>1 DEF Scan, GoesOn, Active, InTick, TypeOK, runtime
<1>5. CASE Decide(c)
  <2>. DEFINE t == IF Best(scored[c]) = position.pool THEN NoPool ELSE Best(scored[c])
  <2>1. t \in 0..NumPools
    BY BestEligible DEF TypeOK, NoPool, RebalanceConstantsOK
  <2>2. Active(c)
    BY <1>5 DEF Decide, Active, InTick
  <2>3. CASE Return(c, t)
    BY <2>1, <2>2, <2>3, ReturnKind
  <2>4. CASE /\ target' = [target EXCEPT ![c] = t]
             /\ amount' = [amount EXCEPT ![c] = ClampToCap(position.amount)]
             /\ Goto(c, "capCheck")
             /\ UNCHANGED <<running, host, doExecute, now, scored, total>>
    <3>1. ClampToCap(position.amount) \in Nat
      <4>1. position.amount \in Nat /\ PerTxCap \in Nat
        BY DEF RebalanceConstantsOK, TypeOK, Positions
      <4>. QED BY <4>1 DEF ClampToCap
    <3>. QED BY <2>1, <2>2, <2>4, <3>1 DEF GoesOn, InTick, TypeOK
  <2>. QED BY <1>5, <2>3, <2>4 DEF Decide
<1>6. CASE CapCheck(c)
  <2>1. Active(c) /\ target[c] \in 0..NumPools
    BY <1>6 DEF CapCheck, Active, InTick, TypeOK
  <2>2. CASE Return(c, target[c])
    BY <2>1, <2>2, ReturnKind
  <2>3. CASE Goto(c, "execute") /\ UNCHANGED <<running, host, doExecute, now, scored, target, amount, total>>
    BY <2>1, <2>3 DEF GoesOn, InTick, TypeOK
  <2>. QED BY <1>6, <2>2, <2>3 DEF CapCheck
<1>7. CASE ExecutorDoes(c)
  BY <1>7 DEF ExecutorDoes, OnSuccess, GoesOn, Active, InTick, TypeOK
<1>8. CASE ExecutorFails(c)
  <2>1. Active(c) /\ target[c] \in 0..NumPools
    BY <1>8 DEF ExecutorFails, Active, InTick, TypeOK
  <2>. QED BY <1>8, <2>1, ReturnKind DEF ExecutorFails, OnFailure
<1>9. CASE RecordRebalance(c)
  BY <1>9 DEF RecordRebalance, GoesOn, Active, InTick, TypeOK, runtime
<1>10. CASE CommitPosition(c)
  BY <1>10 DEF CommitPosition, GoesOn, Active, InTick, TypeOK, runtime
<1>11. CASE Acted(c)
  <2>1. Active(c) /\ target[c] \in 0..NumPools
    BY <1>11 DEF Acted, Active, InTick, TypeOK
  <2>. QED BY <1>11, <2>1, ReturnKind DEF Acted
<1>12. CASE PerUser(c)
  <2>1. Active(c)
    BY <1>12 DEF PerUser, Active, InTick
  <2>2. PICK n \in 0..MaxTotal :
          IF n > 0
          THEN /\ total' = [total EXCEPT ![c] = n]
               /\ Goto(c, "mirrorRead")
               /\ UNCHANGED <<running, host, doExecute, now, scored, target, amount>>
          ELSE Leave(c)
    BY <1>12 DEF PerUser
  <2>3. n \in Nat
    BY DEF RebalanceConstantsOK
  <2>. QED BY <2>1, <2>2, <2>3 DEF GoesOn, Leaves, InTick, TypeOK
<1>13. CASE MirrorRead(c)
  BY <1>13 DEF MirrorRead, GoesOn, Leaves, Active, InTick, TypeOK
<1>14. CASE MirrorWrite(c)
  BY <1>14 DEF MirrorWrite, Leaves, Active, InTick
<1>15. CASE Throws(c)
  BY <1>15 DEF Throws, Leaves, Active
<1>. QED BY <1>1, <1>2, <1>3, <1>4, <1>5, <1>6, <1>7, <1>8, <1>9, <1>10, <1>11, <1>12, <1>13,
            <1>14, <1>15 DEF Step

\* Every step of a call keeps the types of its locals.
LEMMA CallsType ==
  ASSUME RebalanceConstantsOK, TypeOK, NEW c \in Calls, Step(c)
  PROVE  CallTypes'
<1>1. CASE Enters(c)
  <2>. PICK i \in Instances, b \in BOOLEAN : Enter(c, i, b)
    BY <1>1 DEF Enters
  <2>. QED BY DEF Enter, Goto, InTick, TypeOK, CallTypes
<1>2. CASE StaysOut(c)
  BY <1>2 DEF StaysOut, Goto, TypeOK, CallTypes, runtime
<1>3. CASE GoesOn(c)
  <2>1. pc' \in [Calls -> InTick \cup {"out", "checked"}]
    BY <1>3 DEF GoesOn, Goto, TypeOK
  <2>. QED BY <1>3, <2>1 DEF GoesOn, TypeOK, CallTypes
<1>4. CASE Leaves(c)
  <2>1. running' \in [Instances -> BOOLEAN]
    BY <1>4 DEF Leaves, Leave, TypeOK
  <2>. QED BY <1>4, <2>1, TypesSplit, ForgetEffect DEF Leaves, Leave
<1>. QED BY <1>1, <1>2, <1>3, <1>4, StepKind

\* The executor adds what it moved, RecordRebalance what was moved.
LEMMA SharedType ==
  ASSUME RebalanceConstantsOK, TypeOK, NEW c \in Calls, Step(c), walletMode' = walletMode
  PROVE  SharedTypes'
<1>. USE DEF TypeOK, SharedTypes, stored, runtime
<1>1. CASE RunAgentTick(c) \/ EnsureScanPopulated(c) \/ RunScanRefresh(c)
  BY <1>1 DEF RunAgentTick, EnsureScanPopulated, RunScanRefresh, Enter
<1>2. CASE Scan(c) \/ Decide(c) \/ CapCheck(c) \/ MirrorRead(c)
  BY <1>2 DEF Scan, Decide, CapCheck, MirrorRead
<1>3. CASE ExecutorDoes(c) \/ ExecutorFails(c)
  <2>1. execBalance' \in Nat
    BY <1>3 DEF ExecutorDoes, ExecutorFails
  <2>. QED BY <1>3, <2>1 DEF ExecutorDoes, ExecutorFails
<1>4. CASE RecordRebalance(c)
  <2>1. rebalances' \in [Times -> Nat]
    BY <1>4 DEF RecordRebalance
  <2>. QED BY <1>4, <2>1 DEF RecordRebalance
<1>5. CASE CommitPosition(c)
  <2>1. target[c] \in 0..ExecPool
    BY DEF ExecPool, RebalanceConstantsOK
  <2>2. position' \in Positions
    BY <1>5, <2>1 DEF CommitPosition, Positions
  <2>. QED BY <1>5, <2>2 DEF CommitPosition
<1>6. CASE Acted(c) \/ PerUser(c)
  BY <1>6 DEF Acted, PerUser, StampActed
<1>7. CASE MirrorWrite(c)
  <2>1. Best(scored[c]) \in 0..NumPools /\ target[c] \in 0..NumPools /\ NumPools \in Nat
    BY BestEligible DEF RebalanceConstantsOK
  <2>2. MirrorPool(c) \in 0..ExecPool
    BY <2>1 DEF MirrorPool, ExecPool
  <2>3. position' \in Positions
    BY <1>7, <2>2 DEF MirrorWrite, Positions
  <2>. QED BY <1>7, <2>3 DEF MirrorWrite
<1>8. CASE Throws(c)
  BY <1>8 DEF Throws, RebalanceConstantsOK, Times
<1>. QED BY <1>1, <1>2, <1>3, <1>4, <1>5, <1>6, <1>7, <1>8 DEF Step

\* Kills, disconnects and the clock.
LEMMA EnvironmentType ==
  ASSUME RebalanceConstantsOK, TypeOK, walletMode' = walletMode,
         (\E i \in Instances : Crash(i)) \/ ClearPosition \/ Advance
  PROVE  TypeOK'
<1>1. ASSUME NEW i \in Instances, Crash(i) PROVE TypeOK'
  <2>1. 0 \in Times
    BY DEF RebalanceConstantsOK, Times
  <2>2. running' \in [Instances -> BOOLEAN] /\ lastRebalanceAt' \in [Instances -> Times]
    BY <1>1, <2>1 DEF Crash, TypeOK
  <2>3. CallTypes'
    BY <1>1, <2>2, TypesSplit, ForgetEffect DEF Crash
  <2>. QED BY <1>1, <2>1, <2>2, <2>3 DEF Crash, TypeOK, CallTypes, stored
<1>2. CASE ClearPosition
  <2>1. Idle \in Positions
    BY DEF Idle, Positions, NoPool, ExecPool, RebalanceConstantsOK
  <2>. QED BY <1>2, <2>1 DEF ClearPosition, TypeOK, runtime, locals
<1>3. CASE Advance
  <2>1. clock' \in Times
    BY <1>3 DEF Advance, TypeOK, Times, RebalanceConstantsOK
  <2>. QED BY <1>3, <2>1 DEF Advance, TypeOK, stored, runtime, locals
<1>. QED BY <1>1, <1>2, <1>3

LEMMA TypeNext == ASSUME RebalanceConstantsOK, TypeOK, [Next]_vars PROVE TypeOK'
<1>1. CASE UNCHANGED vars
  BY <1>1 DEF vars, TypeOK
<1>2. CASE Next
  <2>1. ASSUME NEW c \in Calls, Step(c) PROVE TypeOK'
    <3>1. SharedTypes' /\ CallTypes'
      BY <1>2, <2>1, CallsType, SharedType DEF Next
    <3>. QED BY <3>1 DEF TypeOK, SharedTypes, CallTypes
  <2>. QED BY <1>2, <2>1, EnvironmentType DEF Next
<1>. QED BY <1>1, <1>2

-----------------------------------------------------------------------------
(***************************************************************************)
(* One tick per instance.                                                  *)
(***************************************************************************)
LEMMA TickStep ==
  ASSUME RebalanceConstantsOK, BaseInv, NEW c \in Calls, Step(c)
  PROVE  TickInv'
<1>. USE DEF BaseInv
<1>1. clock' = clock
  BY DEF Step, RunAgentTick, EnsureScanPopulated, RunScanRefresh, Enter, Scan, Decide, CapCheck,
     ExecutorDoes, ExecutorFails, RecordRebalance, CommitPosition, Acted, PerUser, MirrorRead,
     MirrorWrite, Throws
<1>2. CASE Enters(c)
  <2>. PICK i \in Instances, b \in BOOLEAN : Enter(c, i, b)
    BY <1>2 DEF Enters
  <2>1. /\ ~running[i] /\ running' = [running EXCEPT ![i] = TRUE]
        /\ host'[c] = i /\ now'[c] = clock /\ pc'[c] \in InTick
        /\ \A d \in Calls \ {c} : pc'[d] = pc[d] /\ host'[d] = host[d] /\ now'[d] = now[d]
    BY DEF Enter, Goto, InTick, TypeOK
  <2>2. \A d \in Calls : Active(d) => host[d] # i
    BY <2>1 DEF TickInv
  <2>3. Start <= clock /\ clock <= clock
    BY DEF TickInv, TypeOK, Times
  <2>. QED BY <1>1, <2>1, <2>2, <2>3 DEF TickInv, Active, TypeOK
<1>3. CASE StaysOut(c)
  <2>1. \A d \in Calls : Active(d)' => Active(d)
    BY <1>3 DEF StaysOut, Goto, Active, InTick, TypeOK
  <2>. QED BY <1>1, <1>3, <2>1 DEF StaysOut, TickInv, runtime
<1>4. CASE GoesOn(c)
  <2>1. \A d \in Calls : Active(d)' => Active(d)
    BY <1>4 DEF GoesOn, Goto, Active, TypeOK
  <2>. QED BY <1>1, <1>4, <2>1 DEF GoesOn, TickInv
<1>5. CASE Leaves(c)
  <2>1. running' = [running EXCEPT ![host[c]] = FALSE] /\ Forget({c})
    BY <1>5 DEF Leaves, Leave
  <2>2. running' \in [Instances -> BOOLEAN]
    BY <2>1 DEF TypeOK
  <2>3. \A d \in Calls : Active(d)' => /\ d # c /\ Active(d)
                                       /\ host'[d] = host[d] /\ now'[d] = now[d]
    BY <2>1, <2>2, ForgetEffect, TypesSplit DEF Active, InTick
  <2>4. \A d \in Calls \ {c} : Active(d) => host[d] # host[c]
    BY <1>5 DEF Leaves, TickInv
  <2>. QED BY <1>1, <2>1, <2>3, <2>4 DEF TickInv, TypeOK
<1>. QED BY <1>2, <1>3, <1>4, <1>5, StepKind

LEMMA TickNext ==
  ASSUME RebalanceConstantsOK, BaseInv, [Next]_vars
  PROVE  TickInv'
<1>1. ASSUME NEW i \in Instances, Crash(i) PROVE TickInv'
  <2>. DEFINE S == {d \in Calls : Active(d) /\ host[d] = i}
  <2>1. running' = [running EXCEPT ![i] = FALSE] /\ Forget(S) /\ clock' = clock
    BY <1>1 DEF Crash
  <2>2. running' \in [Instances -> BOOLEAN]
    BY <2>1 DEF BaseInv, TypeOK
  <2>3. \A d \in Calls : Active(d)' => /\ Active(d) /\ host[d] # i
                                       /\ host'[d] = host[d] /\ now'[d] = now[d]
    BY <2>1, <2>2, ForgetEffect, TypesSplit DEF BaseInv, Active, InTick
  <2>. QED BY <2>1, <2>3 DEF BaseInv, TickInv, TypeOK
<1>2. CASE Advance
  BY <1>2 DEF Advance, BaseInv, TickInv, TypeOK, Times, Active, runtime, locals
<1>3. CASE ClearPosition \/ UNCHANGED vars
  BY <1>3 DEF ClearPosition, BaseInv, TickInv, Active, runtime, locals, vars
<1>. QED BY <1>1, <1>2, <1>3, TickStep DEF Next

LEMMA BaseNext == ASSUME RebalanceConstantsOK, BaseInv, [Next]_vars PROVE BaseInv'
BY TypeNext, TickNext DEF BaseInv

\* Every variable keeps its type, a pool that is chosen is a pool, and a tick is
\* alone on its instance with a time it has read.
THEOREM TypeCorrect == Spec => []BaseInv
<1>1. Init => BaseInv
  BY BaseInit, RebalanceConstantsOK
<1>2. BaseInv /\ [Next]_vars => BaseInv'
  BY BaseNext, RebalanceConstantsOK
<1>. QED BY <1>1, <1>2, PTL DEF Spec

\* The type invariant of the run.
THEOREM TypesKept == Spec => []TypeOK
<1>1. BaseInv => TypeOK
  BY DEF BaseInv
<1>. QED BY <1>1, TypeCorrect, PTL

-----------------------------------------------------------------------------
(***************************************************************************)
(* One instance: nothing of a tick is overtaken by another.                *)
(***************************************************************************)
LEMMA Alone ==
  ASSUME OneInstance, BaseInv, NEW c \in Calls, NEW d \in Calls, Active(c), Active(d)
  PROVE  c = d
BY DEF OneInstance, BaseInv, TickInv

\* A call that leaves, or whose tick returns, is past its decision.
LEMMA LeaveEnds ==
  ASSUME RebalanceConstantsOK, BaseInv, NEW c \in Calls, Leave(c)
  PROVE  /\ pc'[c] = "out"
         /\ \A d \in Calls \ {c} :
              /\ pc'[d] = pc[d] /\ host'[d] = host[d] /\ doExecute'[d] = doExecute[d]
              /\ now'[d] = now[d] /\ scored'[d] = scored[d] /\ target'[d] = target[d]
              /\ amount'[d] = amount[d] /\ total'[d] = total[d]
         /\ amount'[c] = 0
<1>1. running' \in [Instances -> BOOLEAN] /\ Forget({c})
  BY DEF Leave, BaseInv, TypeOK
<1>. QED BY <1>1, ForgetEffect, TypesSplit DEF BaseInv

LEMMA ReturnEnds ==
  ASSUME RebalanceConstantsOK, BaseInv, NEW c \in Calls, NEW t, Return(c, t)
  PROVE  pc'[c] \in {"perUser", "out"} /\ (amount' = amount \/ Leave(c))
BY LeaveEnds DEF Return, Goto, BaseInv, TypeOK

\* The other calls are not in a tick while one steps.
LEMMA OthersOut ==
  ASSUME RebalanceConstantsOK, OneInstance, BaseInv, BaseInv', NEW c \in Calls, Step(c)
  PROVE  StaysOut(c) \/ \A d \in Calls \ {c} : ~Active(d)'
<1>1. CASE Enters(c)
  <2>1. Active(c)'
    BY <1>1 DEF Enters, Enter, Goto, Active, InTick, BaseInv, TypeOK
  <2>2. \A d \in Calls : Active(d)' => host'[d] = host'[c]
    BY <2>1 DEF OneInstance, BaseInv, TickInv
  <2>. QED BY <2>1, <2>2 DEF BaseInv, TickInv
<1>2. CASE GoesOn(c)
  <2>1. \A d \in Calls \ {c} : Active(d)' => Active(d)
    BY <1>2 DEF GoesOn, Goto, Active, BaseInv, TypeOK
  <2>. QED BY <1>2, <2>1, Alone DEF GoesOn
<1>3. CASE Leaves(c)
  <2>1. \A d \in Calls \ {c} : Active(d)' => Active(d)
    BY <1>3, LeaveEnds DEF Leaves, Active
  <2>. QED BY <1>3, <2>1, Alone DEF Leaves
<1>. QED BY <1>1, <1>2, <1>3, StepKind DEF BaseInv

\* After the decision, and up to the commit, the tick changes none of what the
\* decision was made from.
LEMMA DecidedKept ==
  ASSUME RebalanceConstantsOK, BaseInv, NEW c \in Calls, Step(c), ~Decide(c), pc'[c] \in Decided
  PROVE  /\ pc[c] \in Decided \ {"commit"} /\ Active(c)
         /\ UNCHANGED <<scored, target, amount, position, host, doExecute, now,
                        lastRebalanceAt, lastActed, clock>>
         /\ pc[c] = "capCheck" => pc'[c] = "execute" /\ CapCheck(c) /\ WithinDailyCap(c)
         /\ pc[c] = "execute" => pc'[c] = "record" /\ ExecutorDoes(c)
         /\ pc[c] = "record" => pc'[c] = "commit"
         /\ pc[c] # "record" => rebalances' = rebalances
<1>. USE DEF Decided, Goto, BaseInv
<1>1. ~Enters(c) /\ ~StaysOut(c) /\ ~Leaves(c)
  BY LeaveEnds DEF Enters, Enter, StaysOut, Leaves, TypeOK
<1>2. Active(c) /\ ~Throws(c) /\ ~MirrorWrite(c)
  BY <1>1, StepKind DEF GoesOn, Throws, MirrorWrite, Leaves, Active, InTick
<1>3. ~RunAgentTick(c) /\ ~EnsureScanPopulated(c) /\ ~RunScanRefresh(c)
  BY <1>2 DEF RunAgentTick, EnsureScanPopulated, RunScanRefresh, Active, InTick
<1>4. ~Scan(c) /\ ~CommitPosition(c) /\ ~PerUser(c) /\ ~MirrorRead(c)
  <2>1. ASSUME Scan(c) \/ CommitPosition(c) PROVE FALSE
    BY <2>1 DEF Scan, CommitPosition, TypeOK
  <2>2. ASSUME PerUser(c) \/ MirrorRead(c) PROVE FALSE
    BY <2>2, LeaveEnds DEF PerUser, MirrorRead, TypeOK
  <2>. QED BY <2>1, <2>2
<1>5. ~Acted(c) /\ ~ExecutorFails(c)
  BY ReturnEnds DEF Acted, ExecutorFails, OnFailure
<1>6. CASE CapCheck(c)
  BY <1>2, <1>6, ReturnEnds DEF CapCheck, stored, TypeOK
<1>7. CASE ExecutorDoes(c)
  BY <1>2, <1>7 DEF ExecutorDoes, OnSuccess, stored, TypeOK
<1>8. CASE RecordRebalance(c)
  BY <1>2, <1>8 DEF RecordRebalance, runtime, TypeOK
<1>. QED BY <1>2, <1>3, <1>4, <1>5, <1>6, <1>7, <1>8 DEF Step

\* Kills, disconnects and the clock leave a call as it is, or end it.
LEMMA EnvironmentCalls ==
  ASSUME RebalanceConstantsOK, BaseInv,
         (\E i \in Instances : Crash(i)) \/ ClearPosition \/ Advance \/ UNCHANGED vars
  PROVE  \A d \in Calls :
           \/ pc'[d] = "out" /\ amount'[d] = 0
           \/ /\ pc'[d] = pc[d] /\ host'[d] = host[d] /\ doExecute'[d] = doExecute[d]
              /\ now'[d] = now[d] /\ scored'[d] = scored[d] /\ target'[d] = target[d]
              /\ amount'[d] = amount[d] /\ total'[d] = total[d]
<1>1. ASSUME NEW i \in Instances, Crash(i), NEW d \in Calls
      PROVE  \/ pc'[d] = "out" /\ amount'[d] = 0
             \/ /\ pc'[d] = pc[d] /\ host'[d] = host[d] /\ doExecute'[d] = doExecute[d]
                /\ now'[d] = now[d] /\ scored'[d] = scored[d] /\ target'[d] = target[d]
                /\ amount'[d] = amount[d] /\ total'[d] = total[d]
  <2>. DEFINE S == {e \in Calls : Active(e) /\ host[e] = i}
  <2>1. Forget(S) /\ running' \in [Instances -> BOOLEAN]
    BY <1>1 DEF Crash, BaseInv, TypeOK
  <2>. HIDE DEF S
  <2>. QED BY <2>1, ForgetEffect, TypesSplit DEF BaseInv
<1>. QED BY <1>1 DEF ClearPosition, Advance, locals, vars

-----------------------------------------------------------------------------
(***************************************************************************)
(* The margin.                                                             *)
(***************************************************************************)
\* The decision is for the best pool, and for one that pays enough more.
LEMMA DecideEffect ==
  ASSUME RebalanceConstantsOK, BaseInv, NEW c \in Calls, Decide(c), pc'[c] \in Decided
  PROVE  /\ pc'[c] = "capCheck" /\ ~CoolingDown(c)
         /\ target'[c] \in Eligible(scored[c])
         /\ PaysEnough(scored[c], position.pool, target'[c])
         /\ amount'[c] = ClampToCap(position.amount)
         /\ UNCHANGED <<position, scored, host, now, doExecute, running>>
<1>. DEFINE t == IF Best(scored[c]) = position.pool THEN NoPool ELSE Best(scored[c])
<1>1. ~Return(c, t)
  BY ReturnEnds DEF Decided
<1>2. /\ t # NoPool /\ ~CoolingDown(c) /\ PaysEnough(scored[c], position.pool, t)
      /\ target' = [target EXCEPT ![c] = t]
      /\ amount' = [amount EXCEPT ![c] = ClampToCap(position.amount)]
      /\ Goto(c, "capCheck")
      /\ UNCHANGED <<running, host, doExecute, now, scored>>
      /\ UNCHANGED stored
  BY <1>1 DEF Decide
<1>3. t \in Eligible(scored[c])
  BY <1>2, BestEligible DEF BaseInv, TypeOK
<1>. HIDE DEF t
<1>4. target'[c] = t /\ pc'[c] = "capCheck" /\ amount'[c] = ClampToCap(position.amount)
  BY <1>2 DEF BaseInv, TypeOK, Goto
<1>. QED BY <1>2, <1>3, <1>4 DEF stored

LEMMA MirrorReadEffect ==
  ASSUME RebalanceConstantsOK, BaseInv, NEW c \in Calls, Step(c), pc'[c] = "mirrorWrite"
  PROVE  position' = position /\ position.pool = NoPool
<1>. USE DEF Goto, BaseInv
<1>1. ~Enters(c) /\ ~StaysOut(c) /\ ~Leaves(c)
  BY LeaveEnds DEF Enters, Enter, StaysOut, Leaves, TypeOK
<1>2. Active(c) /\ ~Throws(c) /\ ~MirrorWrite(c)
  BY <1>1, StepKind DEF GoesOn, Throws, MirrorWrite, Leaves, Active, InTick
<1>3. ~RunAgentTick(c) /\ ~EnsureScanPopulated(c) /\ ~RunScanRefresh(c)
  BY <1>2 DEF RunAgentTick, EnsureScanPopulated, RunScanRefresh, Active, InTick
<1>4. ~Scan(c) /\ ~CommitPosition(c) /\ ~ExecutorDoes(c) /\ ~RecordRebalance(c)
  BY DEF Scan, CommitPosition, ExecutorDoes, OnSuccess, RecordRebalance, TypeOK
<1>5. ~Acted(c) /\ ~ExecutorFails(c) /\ ~CapCheck(c) /\ ~Decide(c)
  <2>1. ASSUME Acted(c) \/ ExecutorFails(c) PROVE FALSE
    BY <2>1, ReturnEnds DEF Acted, ExecutorFails, OnFailure
  <2>2. ASSUME CapCheck(c) PROVE FALSE
    BY <2>2, ReturnEnds DEF CapCheck, TypeOK
  <2>3. ASSUME Decide(c) PROVE FALSE
    BY <2>3, ReturnEnds DEF Decide, TypeOK
  <2>. QED BY <2>1, <2>2, <2>3
<1>6. ~PerUser(c)
  BY LeaveEnds DEF PerUser, TypeOK
<1>7. MirrorRead(c)
  BY <1>2, <1>3, <1>4, <1>5, <1>6 DEF Step
<1>. QED BY <1>7, LeaveEnds DEF MirrorRead, MayMirror, stored, TypeOK

LEMMA ChoiceNext ==
  ASSUME RebalanceConstantsOK, OneInstance, BaseInv, BaseInv', ChoiceInv, [Next]_vars
  PROVE  ChoiceInv'
<1>1. ASSUME NEW c \in Calls, Step(c) PROVE ChoiceInv'
  <2>1. CASE StaysOut(c)
    <3>1. \A d \in Calls : pc'[d] \in Decided \cup {"mirrorWrite"} => pc'[d] = pc[d]
      BY <2>1 DEF StaysOut, Goto, Decided, BaseInv, TypeOK
    <3>. QED BY <2>1, <3>1 DEF StaysOut, ChoiceInv, stored
  <2>2. CASE ~StaysOut(c)
    <3>1. \A d \in Calls \ {c} : pc'[d] \notin Decided \cup {"mirrorWrite"}
      BY <1>1, <2>2, OthersOut DEF Active, InTick, Decided
    <3>2. ASSUME pc'[c] \in Decided, Decide(c)
          PROVE  target'[c] \in Eligible(scored'[c]) /\ PaysEnough(scored'[c], position'.pool, target'[c])
      BY <3>2, DecideEffect
    <3>3. ASSUME pc'[c] \in Decided, ~Decide(c)
          PROVE  /\ target'[c] \in Eligible(scored'[c])
                 /\ position'.pool # NoPool => PaysEnough(scored'[c], position'.pool, target'[c])
      BY <1>1, <3>3, DecidedKept DEF ChoiceInv
    <3>4. pc'[c] = "mirrorWrite" => position'.pool = NoPool
      BY <1>1, MirrorReadEffect
    <3>. QED BY <3>1, <3>2, <3>3, <3>4 DEF ChoiceInv
  <2>. QED BY <2>1, <2>2
<1>2. CASE (\E i \in Instances : Crash(i)) \/ ClearPosition \/ Advance \/ UNCHANGED vars
  <2>1. position' \in {position, Idle} /\ Idle.pool = NoPool
    BY <1>2 DEF Crash, ClearPosition, Advance, vars, stored, Idle
  <2>2. \A d \in Calls : pc'[d] # "out" =>
          pc'[d] = pc[d] /\ scored'[d] = scored[d] /\ target'[d] = target[d]
    BY <1>2, EnvironmentCalls
  <2>. QED BY <2>1, <2>2 DEF ChoiceInv, Decided
<1>. QED BY <1>1, <1>2 DEF Next

LEMMA ChoiceInvariant == ASSUME OneInstance PROVE Spec => [](BaseInv /\ ChoiceInv)
<1>1. Init => BaseInv /\ ChoiceInv
  BY BaseInit, RebalanceConstantsOK DEF Init, ChoiceInv, Decided
<1>2. BaseInv /\ ChoiceInv /\ [Next]_vars => (BaseInv /\ ChoiceInv)'
  BY BaseNext, ChoiceNext, RebalanceConstantsOK, OneInstance
<1>. QED BY <1>1, <1>2, PTL DEF Spec

\* An allocated position only goes to a pool that is eligible and pays the margin
\* more by the tick's own scan, whatever happened since the decision.
THEOREM MarginHolds == ASSUME OneInstance PROVE Spec => MovesPay
<1>. DEFINE Pays == position'.pool \notin {NoPool, position.pool} /\ position.pool # NoPool =>
                     \E c \in Calls :
                       /\ position'.pool \in Eligible(scored[c])
                       /\ Apy(scored[c], position'.pool) >= Apy(scored[c], position.pool) + MinDelta
<1>1. BaseInv /\ ChoiceInv /\ [Next]_vars => [Pays]_position
  <2>. SUFFICES ASSUME BaseInv, ChoiceInv, [Next]_vars, position' # position PROVE Pays
    BY DEF Pays
  <2>1. ASSUME NEW c \in Calls, CommitPosition(c) PROVE Pays
    <3>1. position'.pool = target[c] /\ pc[c] \in Decided
      BY <2>1 DEF CommitPosition, Decided
    <3>. QED BY <3>1 DEF ChoiceInv, PaysEnough
  <2>2. ASSUME NEW c \in Calls, MirrorWrite(c) PROVE Pays
    BY <2>2 DEF MirrorWrite, ChoiceInv
  <2>3. CASE ClearPosition
    BY <2>3 DEF ClearPosition, Idle
  <2>4. ASSUME NEW c \in Calls, Step(c), ~CommitPosition(c), ~MirrorWrite(c) PROVE FALSE
    BY <2>4 DEF Step, RunAgentTick, EnsureScanPopulated, RunScanRefresh, Enter, Scan, Decide,
       CapCheck, ExecutorDoes, ExecutorFails, RecordRebalance, Acted, PerUser, MirrorRead,
       Throws, stored
  <2>. QED BY <2>1, <2>2, <2>3, <2>4 DEF Next, Crash, Advance, stored, vars
<1>. QED BY <1>1, ChoiceInvariant, PTL DEF Spec, MovesPay

-----------------------------------------------------------------------------
(***************************************************************************)
(* The daily cap.                                                          *)
(***************************************************************************)
\* A day before a tick is a time, and the record of the tick comes after it.
LEMMA DayBefore ==
  ASSUME RebalanceConstantsOK, BaseInv, NEW c \in Calls, Active(c)
  PROVE  now[c] - Day \in Times /\ now[c] - Day <= clock /\ now[c] <= clock /\ Day \in Nat
                /\ Day <= now[c] /\ now[c] \in Nat
<1>1. now[c] \in Nat /\ now[c] <= MaxTime /\ Start <= now[c] /\ now[c] <= clock /\ clock \in Nat
  BY DEF BaseInv, TypeOK, TickInv, Times
<1>2. Day \in Nat /\ Day <= Start /\ Start \in Nat /\ MaxTime \in Nat
  BY DEF RebalanceConstantsOK
<1>. QED BY <1>1, <1>2 DEF Times

\* A window that reaches the new record begins within the day before the tick;
\* one that does not, or begins after it, keeps its sum.
LEMMA RecordCap ==
  ASSUME RebalanceConstantsOK, BaseInv, CapInv, NEW c \in Calls, RecordRebalance(c)
  PROVE  DailyCapHolds'
<1>. DEFINE d == now[c] - Day
            a == amount[c]
<1>1. Active(c) /\ pc[c] = "record"
  BY DEF RecordRebalance, Active, InTick
<1>2. /\ d \in Times /\ d <= clock /\ Day \in Nat /\ now[c] <= clock
      /\ now[c] \in Nat /\ Day <= now[c]
  BY <1>1, DayBefore
<1>3. a \in Nat /\ clock \in Nat /\ DailyCap \in Nat /\ MaxTime \in Nat
  BY DEF BaseInv, TypeOK, Times, RebalanceConstantsOK
<1>4. rebalances[d] + a <= DailyCap
  BY <1>1, <1>2 DEF CapInv, WithinDailyCap, RecordedSince
<1>5. \A t \in Times : rebalances[t] \in Nat /\ t \in Nat
  BY DEF BaseInv, TypeOK, Times
<1>6. \A t \in Times : rebalances'[t] = rebalances[t] + (IF t <= clock THEN a ELSE 0)
  BY DEF RecordRebalance
<1>. SUFFICES ASSUME NEW t \in Times, NEW e \in Nat, e = t + Day + 1
              PROVE  RecordedSince(t)' <= RecordedSince(e)' + DailyCap
  BY <1>2, <1>5 DEF DailyCapHolds
<1>7. RecordedSince(t)' = rebalances[t] + (IF t <= clock THEN a ELSE 0)
  BY <1>6 DEF RecordedSince
<1>8. RecordedSince(e)' \in Nat /\ RecordedSince(e)' >= RecordedSince(e) /\ RecordedSince(e) \in Nat
  BY <1>3, <1>5, <1>6 DEF RecordedSince
<1>9. rebalances[t] <= RecordedSince(e) + DailyCap
  BY DEF CapInv, DailyCapHolds, RecordedSince
<1>10. CASE clock < t
  <2>1. ~ (t <= clock)
    BY <1>3, <1>5, <1>10
  <2>2. RecordedSince(t)' = rebalances[t]
    BY <1>5, <1>7, <2>1
  <2>. QED BY <1>3, <1>5, <1>8, <1>9, <2>2
<1>11. CASE t <= clock /\ e <= clock
  <2>1. e \in Times
    BY <1>2, <1>3, <1>5, <1>11 DEF Times, BaseInv, TypeOK
  <2>2. RecordedSince(e)' = RecordedSince(e) + a
    BY <1>6, <1>11, <2>1 DEF RecordedSince
  <2>. QED BY <1>3, <1>5, <1>7, <1>8, <1>9, <1>11, <2>2
<1>12. CASE t <= clock /\ ~ (e <= clock)
  <2>1. d <= t
    BY <1>2, <1>3, <1>5, <1>12
  <2>2. rebalances[t] <= rebalances[d]
    BY <1>2, <2>1 DEF CapInv
  <2>3. rebalances[t] + a <= DailyCap
    BY <1>2, <1>3, <1>4, <1>5, <2>2
  <2>. QED BY <1>3, <1>5, <1>7, <1>8, <1>12, <2>3
<1>13. t \in Nat
  BY <1>5
<1>. QED BY <1>3, <1>10, <1>11, <1>12, <1>13

\* Only recordRebalance adds to the collection.
LEMMA RecordsKept ==
  ASSUME NEW c \in Calls, Step(c), ~RecordRebalance(c)
  PROVE  UNCHANGED <<rebalances, clock>>
BY DEF Step, RunAgentTick, EnsureScanPopulated, RunScanRefresh, Enter, Scan, Decide, CapCheck,
   ExecutorDoes, ExecutorFails, CommitPosition, Acted, PerUser, MirrorRead, MirrorWrite,
   Throws, stored

LEMMA CapStep ==
  ASSUME RebalanceConstantsOK, OneInstance, BaseInv, BaseInv', CapInv, NEW c \in Calls, Step(c)
  PROVE  CapInv'
<1>1. clock' = clock
  BY RecordsKept DEF RecordRebalance
<1>2. CASE RecordRebalance(c)
  <2>. DEFINE a == amount[c]
  <2>1. a \in Nat /\ clock \in Nat /\ \A t \in Times : rebalances[t] \in Nat /\ t \in Nat
    <3>1. a \in Nat /\ clock \in Times /\ \A t \in Times : rebalances[t] \in Nat
      BY DEF BaseInv, TypeOK
    <3>2. \A t \in Times : t \in Nat
      BY DEF Times
    <3>. QED BY <3>1, <3>2
  <2>2. \A t \in Times : rebalances'[t] = rebalances[t] + (IF t <= clock THEN a ELSE 0)
    BY <1>2 DEF RecordRebalance
  <2>3. \A t, u \in Times : t <= u => rebalances'[u] <= rebalances'[t]
    <3>. SUFFICES ASSUME NEW t \in Times, NEW u \in Times, t <= u
                  PROVE  rebalances'[u] <= rebalances'[t]
      OBVIOUS
    <3>1. rebalances[u] <= rebalances[t]
      BY DEF CapInv
    <3>2. u <= clock => t <= clock
      BY <2>1
    <3>. HIDE DEF a
    <3>. QED BY <2>1, <2>2, <3>1, <3>2
  <2>4. \A t \in Times : clock < t => rebalances'[t] = 0
    BY <2>1, <2>2 DEF CapInv
  <2>5. ~StaysOut(c) /\ pc'[c] = "commit"
    BY <1>2 DEF RecordRebalance, StaysOut, Goto, BaseInv, TypeOK
  <2>6. \A d \in Calls : pc'[d] \notin {"execute", "record"}
    BY <2>5, OthersOut DEF Active, InTick
  <2>. QED BY <1>1, <1>2, <2>3, <2>4, <2>6, RecordCap DEF CapInv
<1>3. CASE ~RecordRebalance(c)
  <2>1. rebalances' = rebalances
    BY <1>3, RecordsKept
  <2>2. DailyCapHolds'
    BY <2>1 DEF CapInv, DailyCapHolds, RecordedSince
  <2>3. \A d \in Calls : pc'[d] \in {"execute", "record"} => WithinDailyCap(d)'
    <3>1. CASE StaysOut(c)
      <4>1. \A d \in Calls : pc'[d] \in {"execute", "record"} => pc'[d] = pc[d]
        BY <3>1 DEF StaysOut, Goto, BaseInv, TypeOK
      <4>2. amount' = amount /\ now' = now
        BY <3>1 DEF StaysOut
      <4>. QED BY <2>1, <4>1, <4>2 DEF CapInv, WithinDailyCap, RecordedSince
    <3>2. CASE ~StaysOut(c)
      <4>1. \A d \in Calls \ {c} : pc'[d] \notin {"execute", "record"}
        BY <3>2, OthersOut DEF Active, InTick
      <4>2. ASSUME pc'[c] \in {"execute", "record"} PROVE WithinDailyCap(c)'
        <5>1. pc'[c] \in Decided /\ ~Decide(c)
          BY <4>2, DecideEffect DEF Decided
        <5>2. WithinDailyCap(c) /\ UNCHANGED <<amount, now>>
          <6>1. /\ pc[c] = "capCheck" \/ pc[c] = "execute"
                /\ pc[c] = "capCheck" => WithinDailyCap(c)
                /\ UNCHANGED <<amount, now>>
            BY <4>2, <5>1, DecidedKept DEF Decided
          <6>2. pc[c] = "execute" => WithinDailyCap(c)
            BY DEF CapInv
          <6>. QED BY <6>1, <6>2
        <5>. QED BY <2>1, <5>2 DEF WithinDailyCap, RecordedSince
      <4>. QED BY <4>1, <4>2
    <3>. QED BY <3>1, <3>2
  <2>. QED BY <1>1, <2>1, <2>2, <2>3 DEF CapInv
<1>. QED BY <1>2, <1>3

LEMMA CapNext ==
  ASSUME RebalanceConstantsOK, OneInstance, BaseInv, BaseInv', CapInv, [Next]_vars
  PROVE  CapInv'
<1>1. CASE (\E i \in Instances : Crash(i)) \/ ClearPosition \/ Advance \/ UNCHANGED vars
  <2>1. rebalances' = rebalances /\ clock' \in {clock, clock + 1}
    BY <1>1 DEF Crash, ClearPosition, Advance, vars, stored
  <2>2. \A t \in Times : clock' < t => clock < t
    BY <2>1 DEF BaseInv, TypeOK, Times
  <2>3. \A d \in Calls : pc'[d] # "out" =>
          pc'[d] = pc[d] /\ now'[d] = now[d] /\ amount'[d] = amount[d]
    BY <1>1, EnvironmentCalls
  <2>. QED BY <2>1, <2>2, <2>3 DEF CapInv, DailyCapHolds, WithinDailyCap, RecordedSince
<1>. QED BY <1>1, CapStep DEF Next

LEMMA CapInit == ASSUME RebalanceConstantsOK, Init PROVE CapInv
<1>1. DailyCap \in Nat /\ \A t \in Times : rebalances[t] = 0
  BY DEF Init, RebalanceConstantsOK
<1>2. \A t : RecordedSince(t) = 0
  BY <1>1 DEF RecordedSince
<1>. QED BY <1>1, <1>2 DEF Init, CapInv, DailyCapHolds

\* What is recorded in any Day + 1 seconds is within the daily cap, though the
\* check uses the time the tick began and the record the time it is written.
THEOREM DailyCapAlwaysHolds == ASSUME OneInstance PROVE Spec => []DailyCapHolds
<1>1. Init => BaseInv /\ CapInv
  BY BaseInit, CapInit, RebalanceConstantsOK
<1>2. BaseInv /\ CapInv /\ [Next]_vars => (BaseInv /\ CapInv)'
  BY BaseNext, CapNext, RebalanceConstantsOK, OneInstance
<1>3. CapInv => DailyCapHolds
  BY DEF CapInv
<1>. QED BY <1>1, <1>2, <1>3, PTL DEF Spec

-----------------------------------------------------------------------------
(***************************************************************************)
(* The cooldown.                                                           *)
(***************************************************************************)
\* Only the commit leads to the stamp, and only the stamp or a throw from there.
LEMMA ActedSteps ==
  ASSUME RebalanceConstantsOK, BaseInv, NEW c \in Calls, Step(c)
  PROVE  /\ pc'[c] = "acted" => CommitPosition(c)
         /\ pc[c] = "acted" => Acted(c) \/ Throws(c)
<1>1. ASSUME Decide(c) \/ CapCheck(c) \/ ExecutorFails(c) \/ Acted(c) PROVE pc'[c] # "acted"
  BY <1>1, ReturnEnds DEF Decide, CapCheck, ExecutorFails, OnFailure, Acted, Goto, BaseInv, TypeOK
<1>2. ASSUME PerUser(c) \/ MirrorRead(c) \/ MirrorWrite(c) \/ Throws(c) PROVE pc'[c] # "acted"
  BY <1>2, LeaveEnds DEF PerUser, MirrorRead, MirrorWrite, Throws, Goto, BaseInv, TypeOK
<1>3. ASSUME RunAgentTick(c) \/ EnsureScanPopulated(c) \/ RunScanRefresh(c) PROVE pc'[c] # "acted"
  BY <1>3 DEF RunAgentTick, EnsureScanPopulated, RunScanRefresh, Enter, Goto, BaseInv, TypeOK
<1>4. ASSUME Scan(c) \/ ExecutorDoes(c) \/ RecordRebalance(c) PROVE pc'[c] # "acted"
  BY <1>4 DEF Scan, ExecutorDoes, OnSuccess, RecordRebalance, Goto, BaseInv, TypeOK
<1>5. pc[c] = "acted" => Acted(c) \/ Throws(c)
  BY DEF Step, RunAgentTick, EnsureScanPopulated, RunScanRefresh, Scan, Decide, CapCheck,
     ExecutorDoes, ExecutorFails, RecordRebalance, CommitPosition, PerUser, MirrorRead, MirrorWrite
<1>. QED BY <1>1, <1>2, <1>3, <1>4, <1>5 DEF Step

\* The steps that touch the stamp, or what it is compared with.
LEMMA StampsKept ==
  ASSUME NEW c \in Calls, Step(c)
  PROVE  /\ clock' = clock
         /\ Acted(c) \/ PerUser(c) \/ lastRebalanceAt' = lastRebalanceAt
         /\ CommitPosition(c) \/ lastActed' = lastActed \/ (Throws(c) /\ lastActed' = 0)
BY DEF Step, RunAgentTick, EnsureScanPopulated, RunScanRefresh, Enter, Scan, Decide, CapCheck,
   ExecutorDoes, ExecutorFails, RecordRebalance, CommitPosition, Acted, PerUser, MirrorRead,
   MirrorWrite, Throws, runtime

\* Times are numbers.
LEMMA TimeNumbers ==
  ASSUME BaseInv
  PROVE  /\ clock \in Nat /\ lastActed \in Nat
         /\ \A c \in Calls : now[c] \in Nat
         /\ \A i \in Instances : lastRebalanceAt[i] \in Nat
<1>1. Times \subseteq Nat
  BY DEF Times
<1>2. /\ clock \in Times /\ lastActed \in Times /\ \A c \in Calls : now[c] \in Times
      /\ \A i \in Instances : lastRebalanceAt[i] \in Times
  BY DEF BaseInv, TypeOK
<1>. QED BY <1>1, <1>2

\* Nothing was committed after what the stamp says.
StampIsLast == \A i \in Instances : lastActed <= lastRebalanceAt[i]

\* After any step of a tick the stamp is that of the last committed move, or the
\* tick has just committed.
LEMMA StampKept ==
  ASSUME RebalanceConstantsOK, OneInstance, BaseInv, StampInv, NEW c \in Calls, Step(c), Active(c)
  PROVE  /\ lastActed' <= clock
         /\ lastActed' <= now[c]
         /\ IF CommitPosition(c) THEN lastActed' = now[c] ELSE StampIsLast'
<1>. DEFINE l == lastRebalanceAt
<1>1. /\ clock \in Nat /\ lastActed \in Nat /\ now[c] \in Nat /\ lastActed <= clock
      /\ lastActed <= now[c] /\ now[c] <= clock /\ \A i \in Instances : l[i] \in Nat
  BY TimeNumbers DEF BaseInv, TickInv, StampInv
<1>2. pc[c] # "acted" => StampIsLast
  <2>1. \A d \in Calls : pc[d] = "acted" => d = c
    BY Alone DEF Active, InTick
  <2>. QED BY <2>1 DEF StampInv, StampIsLast
<1>3. CASE CommitPosition(c)
  BY <1>1, <1>3 DEF CommitPosition
<1>4. CASE Acted(c)
  <2>1. lastActed' = lastActed /\ lastActed = now[c] /\ l' = [l EXCEPT ![host[c]] = now[c]]
    BY <1>4 DEF Acted, StampActed, StampInv
  <2>2. \A i \in Instances : l'[i] = now[c]
    BY <2>1 DEF OneInstance, BaseInv, TypeOK, TickInv
  <2>3. ~CommitPosition(c)
    BY <1>4 DEF Acted, CommitPosition
  <2>. QED BY <1>1, <2>1, <2>2, <2>3 DEF StampIsLast
<1>5. CASE PerUser(c)
  <2>1. StampIsLast /\ lastActed' = lastActed /\ ~CommitPosition(c)
    BY <1>2, <1>5 DEF PerUser, CommitPosition
  <2>2. l' = l \/ l' = [l EXCEPT ![host[c]] = now[c]]
    BY <1>5 DEF PerUser, StampActed
  <2>3. \A i \in Instances : l'[i] = l[i] \/ l'[i] = now[c]
    BY <2>2 DEF BaseInv, TypeOK
  <2>. QED BY <1>1, <2>1, <2>3 DEF StampIsLast
<1>6. CASE ~CommitPosition(c) /\ ~Acted(c) /\ ~PerUser(c)
  <2>1. l' = l /\ (lastActed' = 0 \/ (lastActed' = lastActed /\ ~(Throws(c) /\ pc[c] = "acted")))
    BY <1>6, StampsKept DEF Throws
  <2>2. CASE lastActed' = 0
    BY <1>1, <1>6, <2>1, <2>2 DEF StampIsLast
  <2>3. CASE lastActed' = lastActed /\ ~(Throws(c) /\ pc[c] = "acted")
    <3>1. StampIsLast
      BY <1>2, <1>6, <2>3, ActedSteps
    <3>. QED BY <1>1, <1>6, <2>1, <2>3, <3>1 DEF StampIsLast
  <2>. QED BY <2>1, <2>2, <2>3
<1>. QED BY <1>3, <1>4, <1>5, <1>6

LEMMA StampStep ==
  ASSUME RebalanceConstantsOK, OneInstance, BaseInv, BaseInv', StampInv, NEW c \in Calls, Step(c)
  PROVE  StampInv'
<1>1. clock' = clock /\ clock \in Nat /\ lastActed \in Nat
  BY StampsKept, TimeNumbers
<1>2. CASE StaysOut(c)
  <2>1. UNCHANGED <<lastActed, lastRebalanceAt, now, host>>
    BY <1>2 DEF StaysOut, runtime
  <2>2. \A d \in Calls : pc'[d] = pc[d] \/ {pc[d], pc'[d]} \subseteq {"out", "checked"}
    BY <1>2 DEF StaysOut, Goto, BaseInv, TypeOK
  <2>3. \A d \in Calls : pc[d] = "acted" => pc'[d] = "acted"
    BY <2>2
  <2>4. \A d \in Calls : pc'[d] \in InTick => pc'[d] = pc[d]
    BY <2>2 DEF InTick
  <2>5. Decided \subseteq InTick /\ "acted" \in InTick
    BY DEF Decided, InTick
  <2>. QED BY <1>1, <2>1, <2>3, <2>4, <2>5 DEF StampInv, Active, CoolingDown
<1>3. CASE ~StaysOut(c) /\ ~Active(c)
  <2>1. Enters(c)
    BY <1>3, StepKind DEF GoesOn, Leaves, BaseInv
  <2>2. PICK i \in Instances, b \in BOOLEAN : Enter(c, i, b)
    BY <2>1 DEF Enters
  <2>3. UNCHANGED <<lastActed, lastRebalanceAt>> /\ now'[c] = clock /\ pc'[c] = "scan"
    BY <2>2 DEF Enter, Goto, BaseInv, TypeOK
  <2>4. \A d \in Calls \ {c} : ~Active(d)'
    BY <1>3, OthersOut
  <2>5. \A d \in Calls : ~Active(d)
    BY <1>3, <2>2, <2>4 DEF Enter, Goto, Active, BaseInv, TypeOK
  <2>6. StampIsLast /\ lastActed <= clock
    BY <2>5 DEF StampInv, StampIsLast, Active, InTick
  <2>. QED BY <1>1, <2>3, <2>4, <2>6 DEF StampInv, StampIsLast, Active, InTick, Decided
<1>4. CASE ~StaysOut(c) /\ Active(c)
  <2>1. \A d \in Calls \ {c} : pc'[d] \notin InTick
    BY <1>4, OthersOut DEF Active
  <2>2. pc'[c] \in InTick => now'[c] = now[c] /\ host'[c] = host[c]
    <3>1. CASE Leaves(c)
      BY <3>1, LeaveEnds DEF Leaves, InTick
    <3>2. CASE GoesOn(c)
      BY <3>2 DEF GoesOn
    <3>. QED BY <1>4, <3>1, <3>2, StepKind DEF BaseInv, Enters, Active, InTick
  <2>3. /\ lastActed' <= clock /\ lastActed' <= now[c]
        /\ IF CommitPosition(c) THEN lastActed' = now[c] ELSE StampIsLast'
    BY <1>4, StampKept
  <2>4. pc'[c] = "acted" <=> CommitPosition(c)
    BY ActedSteps DEF CommitPosition, Goto, BaseInv, TypeOK
  <2>5. pc'[c] \in Decided => ~CoolingDown(c)'
    <3>1. CASE Decide(c)
      BY <3>1, DecideEffect DEF Decide, CoolingDown
    <3>2. CASE ~Decide(c)
      BY <3>2, DecidedKept DEF StampInv, CoolingDown
    <3>. QED BY <3>1, <3>2
  <2>6. Decided \subseteq InTick /\ "acted" \in InTick
    BY DEF Decided, InTick
  <2>. QED BY <1>1, <2>1, <2>2, <2>3, <2>4, <2>5, <2>6 DEF StampInv, StampIsLast, Active
<1>. QED BY <1>2, <1>3, <1>4

LEMMA StampNextStep ==
  ASSUME RebalanceConstantsOK, OneInstance, BaseInv, BaseInv', StampInv, [Next]_vars
  PROVE  StampInv'
<1>1. ASSUME NEW i \in Instances, Crash(i) PROVE StampInv'
  <2>. DEFINE S == {d \in Calls : Active(d) /\ host[d] = i}
  <2>1. Forget(S) /\ running' \in [Instances -> BOOLEAN] /\ clock' = clock /\ lastActed' = 0
    BY <1>1 DEF Crash, BaseInv, TypeOK
  <2>2. \A d \in Calls : pc'[d] \notin InTick
    <3>1. \A d \in Calls : Active(d) => d \in S
      BY DEF OneInstance, BaseInv, TickInv
    <3>. HIDE DEF S
    <3>. QED BY <2>1, <3>1, ForgetEffect, TypesSplit DEF BaseInv, Active, InTick
  <2>3. clock' \in Nat /\ \A j \in Instances : lastRebalanceAt'[j] \in Nat
    <3>1. clock' \in Times /\ \A j \in Instances : lastRebalanceAt'[j] \in Times
      BY DEF BaseInv, TypeOK
    <3>2. Times \subseteq Nat
      BY DEF Times
    <3>. QED BY <3>1, <3>2
  <2>. QED BY <2>1, <2>2, <2>3 DEF StampInv, Active, Decided, InTick
<1>2. CASE ClearPosition \/ Advance \/ UNCHANGED vars
  <2>1. clock' \in {clock, clock + 1} /\ UNCHANGED <<pc, host, now, lastRebalanceAt, lastActed>>
    BY <1>2 DEF ClearPosition, Advance, vars, runtime, locals
  <2>2. lastActed <= clock'
    BY <2>1, TimeNumbers DEF StampInv
  <2>. QED BY <2>1, <2>2 DEF StampInv, Active, CoolingDown
<1>. QED BY <1>1, <1>2, StampStep DEF Next

LEMMA StampInit == ASSUME RebalanceConstantsOK, Init PROVE StampInv
BY DEF Init, StampInv, Active, InTick, Decided, RebalanceConstantsOK

\* Two committed moves are Cooldown apart, counted from the starts of their ticks,
\* whatever fails, executes or refreshes in between.
THEOREM CooldownAlwaysHolds == ASSUME OneInstance PROVE Spec => CooldownHolds
<1>. DEFINE Apart == \A c \in Calls : pc[c] = "commit" /\ pc'[c] = "acted" /\ lastActed # 0 =>
                       now[c] >= lastActed + Cooldown
<1>1. Init => BaseInv /\ StampInv
  BY BaseInit, StampInit, RebalanceConstantsOK
<1>2. BaseInv /\ StampInv /\ [Next]_vars => (BaseInv /\ StampInv)'
  BY BaseNext, StampNextStep, RebalanceConstantsOK, OneInstance
<1>3. BaseInv /\ StampInv => Apart
  <2>. SUFFICES ASSUME BaseInv, StampInv, NEW c \in Calls, pc[c] = "commit"
                PROVE  now[c] >= lastActed + Cooldown
    BY DEF Apart
  <2>1. Active(c) /\ ~CoolingDown(c)
    BY DEF Active, InTick, StampInv, Decided
  <2>2. \A d \in Calls : pc[d] # "acted"
    BY <2>1, OneInstance, Alone DEF Active, InTick
  <2>3. host[c] \in Instances /\ lastActed <= lastRebalanceAt[host[c]]
    BY <2>1, <2>2 DEF StampInv, BaseInv, TickInv
  <2>4. Cooldown \in Nat /\ lastActed \in Nat /\ now[c] \in Nat /\ lastRebalanceAt[host[c]] \in Nat
    BY <2>3, TimeNumbers, RebalanceConstantsOK DEF RebalanceConstantsOK
  <2>. QED BY <2>1, <2>3, <2>4 DEF CoolingDown
<1>4. BaseInv /\ StampInv /\ [Next]_vars => [Apart]_vars
  BY <1>3
<1>. QED BY <1>1, <1>2, <1>4, PTL DEF Spec, CooldownHolds

-----------------------------------------------------------------------------
(***************************************************************************)
(* What was recorded was moved.                                            *)
(***************************************************************************)
\* In keypair mode a tick that decided ends.
LEMMA KeypairSteps ==
  ASSUME RebalanceConstantsOK, BaseInv, ~SmartAccount, NEW c \in Calls, Step(c),
         pc[c] \notin Mirroring
  PROVE  /\ pc'[c] \notin Mirroring
         /\ ~PerUser(c) /\ ~MirrorRead(c) /\ ~MirrorWrite(c)
<1>. USE DEF Mirroring, Goto, BaseInv
<1>1. ~PerUser(c) /\ ~MirrorRead(c) /\ ~MirrorWrite(c)
  BY DEF PerUser, MirrorRead, MirrorWrite
<1>2. \A t : Return(c, t) => pc'[c] = "out"
  BY LeaveEnds DEF Return
<1>3. ASSUME Decide(c) \/ CapCheck(c) \/ ExecutorFails(c) \/ Acted(c) PROVE pc'[c] \notin Mirroring
  BY <1>2, <1>3 DEF Decide, CapCheck, ExecutorFails, OnFailure, Acted, TypeOK
<1>4. ASSUME RunAgentTick(c) \/ EnsureScanPopulated(c) \/ RunScanRefresh(c)
      PROVE  pc'[c] \notin Mirroring
  BY <1>4 DEF RunAgentTick, EnsureScanPopulated, RunScanRefresh, Enter, TypeOK
<1>5. ASSUME Scan(c) \/ ExecutorDoes(c) \/ RecordRebalance(c) \/ CommitPosition(c)
      PROVE  pc'[c] \notin Mirroring
  BY <1>5 DEF Scan, ExecutorDoes, OnSuccess, RecordRebalance, CommitPosition, TypeOK
<1>6. ASSUME Throws(c) PROVE pc'[c] \notin Mirroring
  BY <1>6, LeaveEnds DEF Throws
<1>. QED BY <1>1, <1>3, <1>4, <1>5, <1>6 DEF Step

\* Where an amount comes from, and where it goes.
LEMMA AmountSteps ==
  ASSUME RebalanceConstantsOK, BaseInv, NEW c \in Calls, Step(c)
  PROVE  /\ \A d \in Calls \ {c} : amount'[d] = amount[d]
         /\ amount'[c] \in {0, amount[c], ClampToCap(position.amount)}
         /\ MirrorWrite(c) \/ position'.amount \in {position.amount, amount[c]}
<1>1. \A d \in Calls \ {c} : amount'[d] = amount[d]
  <2>1. CASE Enters(c) \/ StaysOut(c)
    BY <2>1 DEF Enters, Enter, StaysOut
  <2>2. CASE Leaves(c)
    BY <2>2, LeaveEnds DEF Leaves
  <2>. QED BY <2>1, <2>2, StepKind DEF BaseInv, GoesOn
<1>2. amount'[c] \in {0, amount[c], ClampToCap(position.amount)}
  <2>1. CASE Enters(c) \/ StaysOut(c)
    BY <2>1 DEF Enters, Enter, StaysOut
  <2>2. CASE Leave(c)
    BY <2>2, LeaveEnds
  <2>3. CASE Decide(c)
    BY <2>3, ReturnEnds, LeaveEnds DEF Decide, BaseInv, TypeOK
  <2>4. CASE CapCheck(c) \/ ExecutorFails(c) \/ Acted(c)
    BY <2>4, ReturnEnds, LeaveEnds DEF CapCheck, ExecutorFails, OnFailure, Acted
  <2>5. CASE Scan(c) \/ ExecutorDoes(c) \/ RecordRebalance(c) \/ CommitPosition(c)
    BY <2>5 DEF Scan, ExecutorDoes, OnSuccess, RecordRebalance, CommitPosition
  <2>6. CASE PerUser(c) \/ MirrorRead(c) \/ MirrorWrite(c) \/ Throws(c)
    BY <2>2, <2>6 DEF PerUser, MirrorRead, MirrorWrite, Throws
  <2>7. CASE RunAgentTick(c) \/ EnsureScanPopulated(c) \/ RunScanRefresh(c)
    BY <2>7 DEF RunAgentTick, EnsureScanPopulated, RunScanRefresh, Enter
  <2>. QED BY <2>3, <2>4, <2>5, <2>6, <2>7 DEF Step
<1>3. CommitPosition(c) \/ MirrorWrite(c) \/ position' = position
  BY DEF Step, RunAgentTick, EnsureScanPopulated, RunScanRefresh, Enter, Scan, Decide, CapCheck,
     ExecutorDoes, ExecutorFails, RecordRebalance, Acted, PerUser, MirrorRead, Throws, stored
<1>. QED BY <1>1, <1>2, <1>3 DEF CommitPosition

\* Once a scan is stored only executing ticks begin.
LEMMA ScannedSteps ==
  ASSUME RebalanceConstantsOK, BaseInv, NEW c \in Calls, Step(c), scanned,
         \A d \in Calls : pc[d] # "checked" /\ (Active(d) => doExecute[d])
  PROVE  scanned' /\ \A d \in Calls : pc'[d] # "checked" /\ (Active(d)' => doExecute'[d])
<1>1. scanned'
  BY DEF Step, RunAgentTick, EnsureScanPopulated, RunScanRefresh, Enter, Scan, Decide, CapCheck,
     ExecutorDoes, ExecutorFails, RecordRebalance, CommitPosition, Acted, PerUser, MirrorRead,
     MirrorWrite, Throws, stored
<1>2. CASE RunAgentTick(c)
  <2>1. pc'[c] = "scan" /\ doExecute'[c] = TRUE
    BY <1>2 DEF RunAgentTick, Enter, Goto, BaseInv, TypeOK
  <2>2. \A d \in Calls \ {c} : pc'[d] = pc[d] /\ doExecute'[d] = doExecute[d]
    BY <1>2 DEF RunAgentTick, Enter, Goto, BaseInv, TypeOK
  <2>. QED BY <1>1, <2>1, <2>2 DEF Active
<1>3. ~EnsureScanPopulated(c) /\ ~RunScanRefresh(c)
  BY DEF EnsureScanPopulated, RunScanRefresh
<1>4. CASE ~RunAgentTick(c)
  <2>1. pc[c] \in InTick
    BY <1>3, <1>4 DEF Step, Scan, Decide, CapCheck, ExecutorDoes, ExecutorFails, RecordRebalance,
       CommitPosition, Acted, PerUser, MirrorRead, MirrorWrite, Throws, InTick
  <2>2. GoesOn(c) \/ Leaves(c)
    BY <2>1, StepKind DEF BaseInv, Enters, StaysOut, InTick
  <2>3. CASE GoesOn(c)
    <3>1. doExecute' = doExecute /\ pc'[c] \in InTick /\ Active(c)
          /\ \A d \in Calls \ {c} : pc'[d] = pc[d]
      BY <2>3 DEF GoesOn, Goto, BaseInv, TypeOK
    <3>. QED BY <1>1, <3>1 DEF Active, InTick
  <2>4. CASE Leaves(c)
    <3>1. pc'[c] = "out" /\ \A d \in Calls \ {c} : pc'[d] = pc[d] /\ doExecute'[d] = doExecute[d]
      BY <2>4, LeaveEnds DEF Leaves
    <3>. QED BY <1>1, <3>1 DEF Active, InTick
  <2>. QED BY <2>2, <2>3, <2>4
<1>. QED BY <1>2, <1>4

LEMMA RefreshStep ==
  ASSUME RebalanceConstantsOK, BaseInv, MovedInv, ~SmartAccount, NEW c \in Calls, Step(c)
  PROVE  RefreshesMoveNothing'
<1>1. CASE scanned /\ \A d \in Calls : pc[d] # "checked" /\ (Active(d) => doExecute[d])
  BY <1>1, ScannedSteps DEF RefreshesMoveNothing
<1>2. CASE position.amount = 0 /\ \A d \in Calls : amount[d] = 0
  <2>1. ~MirrorWrite(c)
    BY KeypairSteps DEF MovedInv
  <2>2. ClampToCap(position.amount) = 0
    BY <1>2 DEF ClampToCap, RebalanceConstantsOK
  <2>3. position'.amount = 0 /\ \A d \in Calls : amount'[d] = 0
    BY <1>2, <2>1, <2>2, AmountSteps
  <2>. QED BY <2>3 DEF RefreshesMoveNothing
<1>. QED BY <1>1, <1>2 DEF MovedInv, RefreshesMoveNothing

LEMMA MovedStep ==
  ASSUME RebalanceConstantsOK, OneInstance, BaseInv, BaseInv', MovedInv,
         NEW c \in Calls, Step(c), walletMode' = walletMode
  PROVE  MovedInv'
<1>. SUFFICES ASSUME ~SmartAccount PROVE MovedInv'
  BY DEF MovedInv, RefreshesMoveNothing, SmartAccount
<1>. DEFINE r == rebalances[0]
<1>0. 0 \in Times /\ 0 <= clock
  BY DEF Times, RebalanceConstantsOK, BaseInv, TypeOK
<1>1. r \in Nat /\ execBalance \in Nat /\ \A d \in Calls : amount[d] \in Nat
  BY <1>0 DEF BaseInv, TypeOK
<1>2. r <= execBalance /\ \A d \in Calls : pc[d] = "record" => r + amount[d] <= execBalance
  BY DEF MovedInv
<1>3. \A d \in Calls : pc'[d] \notin Mirroring
  <2>1. pc'[c] \notin Mirroring
    BY KeypairSteps DEF MovedInv
  <2>2. CASE StaysOut(c)
    BY <2>1, <2>2 DEF StaysOut, Goto, MovedInv, BaseInv, TypeOK
  <2>3. CASE ~StaysOut(c)
    BY <2>1, <2>3, OthersOut DEF Active, InTick, Mirroring
  <2>. QED BY <2>2, <2>3
<1>4. /\ execBalance' \in Nat /\ execBalance <= execBalance'
      /\ ExecutorDoes(c) \/ ExecutorFails(c) \/ execBalance' = execBalance
  <2>1. CASE ExecutorDoes(c) \/ ExecutorFails(c)
    BY <1>1, <2>1 DEF ExecutorDoes, ExecutorFails
  <2>2. CASE ~ (ExecutorDoes(c) \/ ExecutorFails(c))
    BY <1>1, <2>2 DEF Step, RunAgentTick, EnsureScanPopulated, RunScanRefresh, Enter, Scan, Decide,
       CapCheck, RecordRebalance, CommitPosition, Acted, PerUser, MirrorRead, MirrorWrite, Throws
  <2>. QED BY <2>1, <2>2
<1>5. CASE RecordRebalance(c)
  <2>1. rebalances'[0] = r + amount[c]
    BY <1>0, <1>5 DEF RecordRebalance
  <2>2. pc[c] = "record" /\ pc'[c] = "commit" /\ ~StaysOut(c)
    BY <1>5 DEF RecordRebalance, StaysOut, Goto, BaseInv, TypeOK
  <2>3. \A d \in Calls : pc'[d] # "record"
    BY <2>2, OthersOut DEF Active, InTick
  <2>. QED BY <1>1, <1>2, <1>3, <1>4, <2>1, <2>2, <2>3, RefreshStep DEF MovedInv
<1>6. CASE ~RecordRebalance(c)
  <2>1. rebalances'[0] = r
    BY <1>6, RecordsKept
  <2>2. ASSUME NEW d \in Calls, pc'[d] = "record"
        PROVE  r + amount'[d] <= execBalance'
    <3>1. CASE StaysOut(c)
      <4>1. pc[d] = "record" /\ amount' = amount
        BY <2>2, <3>1 DEF StaysOut, Goto, BaseInv, TypeOK
      <4>. QED BY <1>1, <1>2, <1>4, <4>1
    <3>2. CASE ~StaysOut(c)
      <4>1. d = c
        BY <2>2, <3>2, OthersOut DEF Active, InTick
      <4>2. ~Decide(c)
        BY <2>2, <4>1, DecideEffect DEF Decided
      <4>3. ExecutorDoes(c) /\ amount' = amount /\ Active(c)
        BY <1>6, <2>2, <4>1, <4>2, DecidedKept DEF Decided
      <4>4. doExecute[c] \/ amount[c] = 0
        BY <4>3 DEF MovedInv, RefreshesMoveNothing
      <4>5. execBalance' = execBalance + amount[c] \/ amount[c] = 0
        BY <4>3, <4>4 DEF ExecutorDoes, IsNoop
      <4>. QED BY <1>1, <1>2, <1>4, <4>1, <4>3, <4>5
    <3>. QED BY <3>1, <3>2
  <2>3. r <= execBalance'
    BY <1>1, <1>2, <1>4
  <2>. QED BY <1>3, <2>1, <2>2, <2>3, RefreshStep DEF MovedInv
<1>. QED BY <1>5, <1>6

LEMMA MovedNext ==
  ASSUME RebalanceConstantsOK, OneInstance, BaseInv, BaseInv', MovedInv, [Next]_vars
  PROVE  MovedInv'
<1>1. CASE (\E i \in Instances : Crash(i)) \/ ClearPosition \/ Advance \/ UNCHANGED vars
  <2>1. rebalances' = rebalances /\ execBalance' = execBalance /\ scanned' = scanned
        /\ walletMode' = walletMode /\ position' \in {position, Idle}
    BY <1>1 DEF Next, Crash, ClearPosition, Advance, vars, stored
  <2>2. \A d \in Calls : pc'[d] # "out" =>
          pc'[d] = pc[d] /\ amount'[d] = amount[d] /\ doExecute'[d] = doExecute[d]
    BY <1>1, EnvironmentCalls
  <2>3. \A d \in Calls : amount[d] = 0 => amount'[d] = 0
    BY <1>1, EnvironmentCalls
  <2>4. position.amount = 0 => position'.amount = 0
    BY <2>1 DEF Idle
  <2>5. RefreshesMoveNothing'
    BY <2>1, <2>2, <2>3, <2>4 DEF MovedInv, RefreshesMoveNothing, SmartAccount, Active, InTick
  <2>. QED BY <2>1, <2>2, <2>5 DEF MovedInv, SmartAccount, Mirroring
<1>2. ASSUME NEW c \in Calls, Step(c), walletMode' = walletMode PROVE MovedInv'
  BY <1>2, MovedStep
<1>. QED BY <1>1, <1>2 DEF Next

LEMMA MovedInit == ASSUME RebalanceConstantsOK, Init PROVE MovedInv
<1>1. rebalances[0] = 0 /\ execBalance = 0
  BY DEF Init, Times, RebalanceConstantsOK
<1>2. RefreshesMoveNothing
  <2>1. CASE position = Idle
    BY <2>1 DEF Init, Idle, RefreshesMoveNothing
  <2>2. CASE position # Idle
    <3>1. scanned = TRUE /\ \A c \in Calls : pc[c] = "out"
      BY <2>2 DEF Init
    <3>. QED BY <3>1 DEF RefreshesMoveNothing, Active, InTick
  <2>. QED BY <2>1, <2>2
<1>. QED BY <1>1, <1>2 DEF Init, MovedInv, Mirroring

\* In keypair mode every amount recorded against the daily cap was supplied on
\* chain first: a refresh, which moves nothing, finds nothing to move.
THEOREM RecordedAlwaysMoved == ASSUME OneInstance PROVE Spec => []RecordedWasMoved
<1>1. Init => BaseInv /\ MovedInv
  BY BaseInit, MovedInit, RebalanceConstantsOK
<1>2. BaseInv /\ MovedInv /\ [Next]_vars => (BaseInv /\ MovedInv)'
  BY BaseNext, MovedNext, RebalanceConstantsOK, OneInstance
<1>3. MovedInv => RecordedWasMoved
  <2>1. 0 \in Times
    BY RebalanceConstantsOK DEF Times, RebalanceConstantsOK
  <2>. QED BY <2>1 DEF MovedInv, RecordedWasMoved, RecordedSince
<1>. QED BY <1>1, <1>2, <1>3, PTL DEF Spec
=============================================================================
