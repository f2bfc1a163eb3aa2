---------------------------- MODULE RebalanceTick ----------------------------
(***************************************************************************)
(* The deciding half of the agent tick: runTick (src/lib/orchestrator.ts)  *)
(* with the decision of agent.ts, as tick (src/lib/runtime.ts) wires it:   *)
(* scan, decide, guards, execute, record the amount for the daily cap,     *)
(* commit the singleton position, and at the end mirror the per-user       *)
(* supplies into it.  The per-user loop itself is the module PerUserTick;  *)
(* here it is one step with any total.                                     *)
(*                                                                         *)
(* A call is one invocation of tick on one instance, executing (the cron,  *)
(* runAgentTick) or not (a dashboard load with an empty cache,             *)
(* runScanRefresh).  One action per await.                                 *)
(***************************************************************************)
EXTENDS Naturals

CONSTANTS
  Instances, Calls, NoInstance,
  NumPools,      \* pools are 1..NumPools, in the order they are scanned
  Apys,          \* supply APYs a scan may find, in bps
  MinDelta,      \* cfg.minYieldDeltaBps
  PerTxCap,      \* cfg.perTxCapStroops, in units
  DailyCap,      \* cfg.dailyCapStroops, in units
  Cooldown,      \* cfg.rebalanceCooldownSec
  Day,           \* 86400
  Modes,         \* which cfg.walletMode a deployment may have
  Events,        \* which of EventKinds the environment may produce
  Start,         \* the time the service starts
  MaxTime,       \* bound: no time after this
  MaxTotal,      \* bound: no tick supplies more than this for all users
  MaxExec        \* bound: the keypair wallet never supplied more than this

EventKinds == {"db",          \* a MongoDB call throws
               "exec",        \* the executor fails, or its tx lands late
               "crash",       \* the platform kills an instance
               "refresh",     \* the dashboard is loaded
               "unregister"}  \* an owner disconnects

ASSUME RebalanceConstantsOK ==
  /\ NoInstance \notin Instances
  /\ NumPools \in Nat
  /\ Apys \subseteq Nat
  /\ {MinDelta, PerTxCap, DailyCap, Cooldown, Day, MaxTotal, MaxExec}
       \subseteq Nat
  /\ Start \in Nat /\ MaxTime \in Nat /\ Start <= MaxTime
  /\ Start >= Cooldown /\ Start >= Day   \* epoch seconds are far from 0
  /\ Modes \subseteq {"smart-account", "keypair"}
  /\ Events \subseteq EventKinds

VARIABLES
  walletMode,     \* of this deployment, never changed
  position,       \* the singleton of collection "position"
  rebalances,     \* collection "rebalances": the sum of the amounts recorded at
                  \* or after each second, all that rebalancedSince asks for
  scanned,        \* collection "kv" has a lastScanAt
  clock,
  execBalance,    \* ledger: what the keypair wallet supplied into the exec pool
  running, lastRebalanceAt,       \* Runtime, per instance
  pc, host, doExecute, now,       \* locals, per call; the tick it makes has
  scored, target, amount, total,  \* a scan, the pool chosen, an amount to move
                                  \* and a total of supplies
  lastActed       \* history: the `now` of the last committed move, 0 once the
                  \* process that made it has lost it

runtime == <<running, lastRebalanceAt>>
locals  == <<pc, host, doExecute, now, scored, target, amount, total>>
stored  == <<position, rebalances, scanned>>
vars == <<walletMode, position, rebalances, scanned, clock, execBalance, running, lastRebalanceAt,
          pc, host, doExecute, now, scored, target, amount, total,
          lastActed>>

SmartAccount == walletMode = "smart-account"

Pools    == 1..NumPools
NoPool   == 0                 \* poolId null
ExecPool == NumPools + 1      \* cfg.execPoolId: never one of the scanned pools
Positions == [pool : 0..ExecPool, amount : Nat]
Idle == [pool |-> NoPool, amount |-> 0]
Times == 0..MaxTime

\* What risk.ts made of one scanned pool.  A pool the scan could not read is
\* not in the list; an ineligible one at 0 bps decides the same everywhere.
Quotes == [apy : Apys \cup {0}, eligible : BOOLEAN]
NoScan == [p \in Pools |-> [apy |-> 0, eligible |-> FALSE]]

\* "checked" is still outside tick: a refresh is due.
InTick == {"scan", "decide", "capCheck", "execute", "record", "commit", "acted",
           "perUser", "mirrorRead", "mirrorWrite"}
Active(c) == pc[c] \in InTick

TypeOK ==
  /\ walletMode \in Modes
  /\ position \in Positions
  /\ rebalances \in [Times -> Nat]
  /\ scanned \in BOOLEAN
  /\ clock \in Times
  /\ execBalance \in Nat
  /\ running \in [Instances -> BOOLEAN]
  /\ lastRebalanceAt \in [Instances -> Times]
  /\ pc \in [Calls -> InTick \cup {"out", "checked"}]
  /\ host \in [Calls -> Instances \cup {NoInstance}]
  /\ doExecute \in [Calls -> BOOLEAN]
  /\ now \in [Calls -> Times]
  /\ scored \in [Calls -> [Pools -> Quotes]]
  /\ target \in [Calls -> 0..NumPools]
  /\ amount \in [Calls -> Nat]
  /\ total \in [Calls -> Nat]
  /\ lastActed \in Times

\* A fresh service, or one that finds what an earlier deployment left; whoever
\* wrote a position had stored a scan before.
Init ==
  /\ walletMode \in Modes
  /\ position \in {Idle} \cup [pool : Pools, amount : 0..MaxTotal]
  /\ scanned \in {TRUE, position # Idle}
  /\ rebalances = [t \in Times |-> 0]
  /\ clock = Start
  /\ execBalance = 0
  /\ running = [i \in Instances |-> FALSE]
  /\ lastRebalanceAt = [i \in Instances |-> 0]
  /\ pc = [c \in Calls |-> "out"]
  /\ host = [c \in Calls |-> NoInstance]
  /\ doExecute = [c \in Calls |-> FALSE]
  /\ now = [c \in Calls |-> 0]
  /\ scored = [c \in Calls |-> NoScan]
  /\ target = [c \in Calls |-> NoPool]
  /\ amount = [c \in Calls |-> 0]
  /\ total = [c \in Calls |-> 0]
  /\ lastActed = 0

-----------------------------------------------------------------------------
Goto(c, l) == pc' = [pc EXCEPT ![c] = l]

\* tick(rt, b) gets past `if (rt.running) return` and takes the time.
Enter(c, i, b) ==
  /\ ~running[i]
  /\ running' = [running EXCEPT ![i] = TRUE]
  /\ host' = [host EXCEPT ![c] = i]
  /\ doExecute' = [doExecute EXCEPT ![c] = b]
  /\ now' = [now EXCEPT ![c] = clock]
  /\ Goto(c, "scan")
  /\ UNCHANGED <<stored, clock, execBalance, lastRebalanceAt,
                 scored, target, amount, total, lastActed>>

\* runAgentTick: the cron, or a manual trigger.
RunAgentTick(c) == pc[c] = "out" /\ \E i \in Instances : Enter(c, i, TRUE)

\* ensureScanPopulated: a dashboard load finds no lastScanAt, ...
EnsureScanPopulated(c) ==
  /\ "refresh" \in Events
  /\ pc[c] = "out"
  /\ ~scanned
  /\ Goto(c, "checked")
  /\ UNCHANGED <<stored, clock, execBalance, runtime, host, doExecute, now, scored,
                 target, amount, total, lastActed>>

\* ... and awaits the pool ids before it calls tick, which may turn it away.
RunScanRefresh(c) ==
  /\ pc[c] = "checked"
  /\ \E i \in Instances :
       \/ Enter(c, i, FALSE)
       \/ /\ running[i]
          /\ Goto(c, "out")
          /\ UNCHANGED <<stored, clock, execBalance, runtime, host, doExecute, now,
                         scored, target, amount, total, lastActed>>

\* The locals of a call that has returned are dead.
Forget(S) ==
  LET Cleared(f, v) == [c \in Calls |-> IF c \in S THEN v ELSE f[c]] IN
  /\ pc' = Cleared(pc, "out")
  /\ host' = Cleared(host, NoInstance)
  /\ doExecute' = Cleared(doExecute, FALSE)
  /\ now' = Cleared(now, 0)
  /\ scored' = Cleared(scored, NoScan)
  /\ target' = Cleared(target, NoPool)
  /\ amount' = Cleared(amount, 0)
  /\ total' = Cleared(total, 0)

\* The finally block of tick.
Leave(c) ==
  /\ running' = [running EXCEPT ![host[c]] = FALSE]
  /\ Forget({c})

\* A MongoDB call throws; the catch of tick swallows it and nothing that
\* follows the throw in this tick happens.  The executor itself never throws.
Throws(c) ==
  /\ "db" \in Events
  /\ pc[c] \in InTick \ {"execute"}
  /\ lastActed' = IF pc[c] = "acted" THEN 0 ELSE lastActed
  /\ Leave(c)
  /\ UNCHANGED <<stored, clock, execBalance, lastRebalanceAt>>

\* The next Runtime object on this instance starts from nothing.
Crash(i) ==
  /\ "crash" \in Events
  /\ running[i]
  /\ running' = [running EXCEPT ![i] = FALSE]
  /\ lastRebalanceAt' = [lastRebalanceAt EXCEPT ![i] = 0]
  /\ lastActed' = 0
  /\ Forget({c \in Calls : Active(c) /\ host[c] = i})
  /\ UNCHANGED <<stored, clock, execBalance>>

-----------------------------------------------------------------------------
\* bestPool: the first of the eligible pools with the highest APY, or none.
Eligible(s) == {p \in Pools : s[p].eligible}
Best(s) ==
  IF Eligible(s) = {} THEN NoPool
  ELSE CHOOSE p \in Eligible(s) : \A q \in Eligible(s) :
         s[p].apy > s[q].apy \/ (s[p].apy = s[q].apy /\ p <= q)

\* What the tick's own scan says a pool pays; a pool it did not see pays 0.
Apy(s, p) == IF p \in Pools THEN s[p].apy ELSE 0

\* Scan and score.  The result is cached in the database and as rt.lastScan,
\* and the decision below as rt.lastDecision; only the tick that runs on the
\* instance writes these two, each before it reads it, so here they are its own.
Scan(c) ==
  /\ pc[c] = "scan"
  /\ \E s \in [Pools -> Quotes] : scored' = [scored EXCEPT ![c] = s]
  /\ scanned' = TRUE
  /\ Goto(c, "decide")
  /\ UNCHANGED <<position, rebalances, clock, execBalance, runtime, host, doExecute,
                 now, target, amount, total, lastActed>>

NeverCooling(c) == FALSE                          \* mutant: no cooldown
CoolingDown(c) == now[c] < lastRebalanceAt[host[c]] + Cooldown

\* The target must beat what the position earns by the configured margin.
PaysAnything(s, p, q) == Apy(s, q) >= MinDelta    \* mutant: delta against nothing
PaysEnough(s, p, q) == Apy(s, q) >= Apy(s, p) + MinDelta

\* runTick returned, having chosen pool t: in smart-account mode the per-user
\* loop follows, else the end of the tick.
Return(c, t) ==
  IF SmartAccount /\ doExecute[c]
  THEN /\ target' = [target EXCEPT ![c] = t]
       /\ Goto(c, "perUser")
       /\ UNCHANGED <<running, host, doExecute, now, scored, amount, total>>
  ELSE Leave(c)

ClampToCap(n) == IF n > PerTxCap THEN PerTxCap ELSE n

\* getPosition, decide and the guards that follow it without an await on
\* shared state.  The re-checks "target not eligible" and "not the best" can
\* not fail: decide and the guard take bestPool of the same scored list.
Decide(c) ==
  LET t == IF Best(scored[c]) = position.pool THEN NoPool ELSE Best(scored[c]) IN
  /\ pc[c] = "decide"
  /\ IF t # NoPool /\ ~CoolingDown(c) /\ PaysEnough(scored[c], position.pool, t)
     THEN /\ target' = [target EXCEPT ![c] = t]
          /\ amount' = [amount EXCEPT ![c] = ClampToCap(position.amount)]
          /\ Goto(c, "capCheck")
          /\ UNCHANGED <<running, host, doExecute, now, scored, total>>
     ELSE Return(c, t)
  /\ UNCHANGED <<stored, clock, execBalance, lastRebalanceAt, lastActed>>

\* rebalancedSince.
RecordedSince(t) == IF t \in Times THEN rebalances[t] ELSE 0
WithinCapBefore(c) == RecordedSince(now[c] - Day) <= DailyCap  \* mutant: amount left out
WithinDailyCap(c) == RecordedSince(now[c] - Day) + amount[c] <= DailyCap

CapCheck(c) ==
  /\ pc[c] = "capCheck"
  /\ IF WithinDailyCap(c)
     THEN /\ Goto(c, "execute")
          /\ UNCHANGED <<running, host, doExecute, now, scored, target, amount, total>>
     ELSE Return(c, target[c])
  /\ UNCHANGED <<stored, clock, execBalance, lastRebalanceAt, lastActed>>

\* rebalance and deposit are both wired to one deposit into the exec pool, or to
\* a no-op that reports success.
IsNoop(c) == SmartAccount \/ ~doExecute[c]

\* What the code makes of the executor's answer.
OnSuccess(c) == Goto(c, "record") /\ UNCHANGED <<running, host, doExecute, now, scored,
                                                target, amount, total>>
FailureIgnored(c) == OnSuccess(c)                 \* mutant: res.success not checked
OnFailure(c) == Return(c, target[c])

ExecutorDoes(c) ==
  /\ pc[c] = "execute"
  /\ execBalance' = IF IsNoop(c) THEN execBalance ELSE execBalance + amount[c]
  /\ execBalance' <= MaxExec
  /\ OnSuccess(c)
  /\ UNCHANGED <<stored, clock, lastRebalanceAt, lastActed>>

\* It failed, or its polling ended before the tx landed.
ExecutorFails(c) ==
  /\ pc[c] = "execute"
  /\ "exec" \in Events /\ ~IsNoop(c)
  /\ execBalance' \in {execBalance, execBalance + amount[c]} \cap 0..MaxExec
  /\ OnFailure(c)
  /\ UNCHANGED <<stored, clock, lastRebalanceAt, lastActed>>

\* recordRebalance stamps the time of the insert, not the tick's `now`.
RecordRebalance(c) ==
  /\ pc[c] = "record"
  /\ rebalances' = [t \in Times |-> rebalances[t] + (IF t <= clock THEN amount[c] ELSE 0)]
  /\ Goto(c, "commit")
  /\ UNCHANGED <<position, scanned, clock, execBalance, runtime, host, doExecute, now, scored,
                 target, amount, total, lastActed>>

CommitPosition(c) ==
  /\ pc[c] = "commit"
  /\ position' = [pool |-> target[c], amount |-> amount[c]]
  /\ lastActed' = now[c]
  /\ Goto(c, "acted")
  /\ UNCHANGED <<rebalances, scanned, clock, execBalance, runtime, host, doExecute, now, scored,
                 target, amount, total>>

\* `if (r.acted) rt.lastRebalanceAt = now`, after the last log of runTick.
StampNext(c) ==                                   \* mutant: stamps when to act again
  lastRebalanceAt' = [lastRebalanceAt EXCEPT ![host[c]] = now[c] + Cooldown]
StampActed(c) == lastRebalanceAt' = [lastRebalanceAt EXCEPT ![host[c]] = now[c]]

Acted(c) ==
  /\ pc[c] = "acted"
  /\ StampActed(c)
  /\ Return(c, target[c])
  /\ UNCHANGED <<stored, clock, execBalance, lastActed>>

\* The per-user loop supplied n in all (PerUserTick).
PerUser(c) ==
  /\ pc[c] = "perUser"
  /\ \E n \in 0..MaxTotal :
       IF n > 0
       THEN /\ total' = [total EXCEPT ![c] = n]
            /\ StampActed(c)
            /\ Goto(c, "mirrorRead")
            /\ UNCHANGED <<running, host, doExecute, now, scored, target, amount>>
       ELSE Leave(c) /\ UNCHANGED lastRebalanceAt
  /\ UNCHANGED <<stored, clock, execBalance, lastActed>>

\* `if (!prev.poolId)`: mirror only into an idle position.
MirrorAlways == TRUE                              \* mutant: guard dropped
MayMirror == position.pool = NoPool

MirrorRead(c) ==
  /\ pc[c] = "mirrorRead"
  /\ IF MayMirror
     THEN Goto(c, "mirrorWrite") /\ UNCHANGED <<running, host, doExecute, now, scored,
                                                target, amount, total>>
     ELSE Leave(c)
  /\ UNCHANGED <<stored, clock, execBalance, lastRebalanceAt, lastActed>>

\* The chosen pool, else the best of the last scan, else the exec pool.
MirrorPool(c) ==
  IF target[c] # NoPool THEN target[c]
  ELSE IF Best(scored[c]) # NoPool THEN Best(scored[c])
  ELSE ExecPool

MirrorWrite(c) ==
  /\ pc[c] = "mirrorWrite"
  /\ position' = [pool |-> MirrorPool(c), amount |-> total[c]]
  /\ Leave(c)
  /\ UNCHANGED <<rebalances, scanned, clock, execBalance, lastRebalanceAt, lastActed>>

-----------------------------------------------------------------------------
\* unregisterUser clears the singleton position, whoever was removed.
ClearPosition ==
  /\ "unregister" \in Events
  /\ position' = Idle
  /\ UNCHANGED <<rebalances, scanned, clock, execBalance, runtime, locals, lastActed>>

Advance ==
  /\ clock < MaxTime
  /\ clock' = clock + 1
  /\ UNCHANGED <<stored, execBalance, runtime, locals, lastActed>>

Step(c) ==
  \/ RunAgentTick(c) \/ EnsureScanPopulated(c) \/ RunScanRefresh(c)
  \/ Scan(c) \/ Decide(c) \/ CapCheck(c)
  \/ ExecutorDoes(c) \/ ExecutorFails(c)
  \/ RecordRebalance(c) \/ CommitPosition(c) \/ Acted(c)
  \/ PerUser(c) \/ MirrorRead(c) \/ MirrorWrite(c)
  \/ Throws(c)

Next == /\ \/ \E c \in Calls : Step(c)
           \/ \E i \in Instances : Crash(i)
           \/ ClearPosition
           \/ Advance
        /\ UNCHANGED walletMode

Spec == Init /\ [][Next]_vars
-----------------------------------------------------------------------------
(***************************************************************************)
(* Properties.                                                             *)
(***************************************************************************)
\* The daily cap: what is recorded in any window of Day + 1 seconds (the query
\* is inclusive) is within the cap, though the check uses the time the tick
\* started and the record the time it was written.
DailyCapHolds ==
  \A t \in Times : RecordedSince(t) <= RecordedSince(t + Day + 1) + DailyCap

\* Two committed moves of one process are Cooldown apart, counted from the
\* starts of their ticks, whichever ticks fail, execute or only refresh in
\* between: the guard reads a stamp that is set after the commit.  A log that
\* throws between the two, or a restart, does lose the stamp (see the README).
CooldownHolds ==
  [][\A c \in Calls : pc[c] = "commit" /\ pc'[c] = "acted" /\ lastActed # 0 =>
        now[c] >= lastActed + Cooldown]_vars

\* An allocated position goes to another pool only if, by the scan of a
\* tick under way, that pool is eligible and pays MinDelta more, even though
\* the position may change between the decision and the commit.
MovesPay ==
  [][position'.pool \notin {NoPool, position.pool} /\ position.pool # NoPool =>
        \E c \in Calls :
          /\ position'.pool \in Eligible(scored[c])
          /\ Apy(scored[c], position'.pool) >= Apy(scored[c], position.pool) + MinDelta]_position

\* Every amount recorded against the daily cap in keypair mode was supplied on
\* chain first, whatever fails.
RecordedWasMoved ==
  ~SmartAccount => RecordedSince(0) <= execBalance

=============================================================================
