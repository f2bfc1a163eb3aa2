------------------------------ MODULE Scanning ------------------------------
(***************************************************************************)
(* What the dashboard shows of the agent's scans and where it comes from:  *)
(* ensurePoolIds, the scanning half of tick, ensureScanPopulated and       *)
(* getLastScan of src/lib/runtime.ts, with the pool discovery of           *)
(* src/lib/discovery.ts and the "kv" collection of MongoDB.                *)
(*                                                                         *)
(* A call is a cron run (runAgentTick; a tick of the local loop is one     *)
(* that finds its pool ids in memory) or a dashboard load (GET /api/scan). *)
(* One action per await.  Scans are numbered by the time they end, so a    *)
(* number stands for a snapshot and for its timestamp; what a scan reads   *)
(* and how it is scored is the module Scoring.                             *)
(***************************************************************************)
EXTENDS Naturals, FiniteSets

CONSTANTS
  Instances, Calls, NoInstance,
  Pools,       \* pool ids that may exist on chain
  Fallback,    \* cfg.scanBlendPoolIds
  MaxScans,    \* bound: no scan after this many
  MaxFaults    \* bound: calls that throw, fail or are killed

ASSUME ScanningConstantsOK ==
  /\ NoInstance \notin Instances
  /\ Fallback # {}
  /\ MaxScans \in Nat /\ MaxFaults \in Nat

VARIABLES
  zone, factory,                 \* chain: the reward zone, and deploys still
                                 \* in the event window
  discoveredPools, discoveredAt, \* kv: ids ({}: no document), a time is there
  lastScan, lastScanAt,          \* kv: the number of the scan (0: no document)
  lastDecision,                  \* kv: the number of the scan it was made from
  poolIds, memScan, running,     \* Runtime, per instance: rt.poolIds ({}: not
                                 \* set), rt.lastScan, rt.running
  call,                          \* the call each slot serves, and its locals
  clock,                         \* scans made so far
  faults,
  answer, newest                 \* history: the last answer of GET /api/scan,
                                 \* and the newest scan read from the store

kv      == <<discoveredPools, discoveredAt, lastScan, lastScanAt, lastDecision>>
chain   == <<zone, factory>>
runtime == <<poolIds, memScan, running>>
shown   == <<answer, newest>>
vars == <<zone, factory, discoveredPools, discoveredAt, lastScan, lastScanAt, lastDecision,
          poolIds, memScan, running, call, clock, faults, answer, newest>>

Scans == 0..MaxScans
Resolving == {"ids", "idsAt", "logCached", "discover", "events", "cachePools", "cacheAt",
              "logFound", "logFailed"}
InTick  == {"scan", "putScan", "putAt", "decide", "putDecision", "rest"}
Reading == {"readScan", "readAt"}
Labels == {"out", "check", "enter"} \cup Resolving \cup InTick \cup Reading

\* ids: what readDiscoveryCache read first, then what discovery has found.  n: the
\* scan the call has made, or later the one it has read.  since: history, the
\* newest answer when the call arrived.
CallRecords == [pc : Labels, kind : {"cron", "load"}, host : Instances \cup {NoInstance},
                ids : SUBSET (Pools \cup Fallback), n : Scans, since : Scans]
Free == [pc |-> "out", kind |-> "cron", host |-> NoInstance, ids |-> {}, n |-> 0,
         since |-> 0]

Host(c) == call[c].host

TypeOK ==
  /\ zone \subseteq Pools /\ factory \subseteq Pools
  /\ discoveredPools \subseteq Pools \cup Fallback
  /\ discoveredAt \in BOOLEAN
  /\ {lastScan, lastScanAt, lastDecision, newest} \subseteq Scans
  /\ poolIds \in [Instances -> SUBSET (Pools \cup Fallback)]
  /\ memScan \in [Instances -> Scans]
  /\ running \in [Instances -> BOOLEAN]
  /\ call \in [Calls -> CallRecords]
  /\ clock \in Scans
  /\ faults \in 0..MaxFaults
  /\ answer \in [scan : Scans, at : Scans]
  /\ \A c \in Calls : call[c].pc \in InTick => running[Host(c)]

Init ==
  /\ zone = {} /\ factory = {}
  /\ discoveredPools = {} /\ discoveredAt = FALSE
  /\ lastScan = 0 /\ lastScanAt = 0 /\ lastDecision = 0
  /\ poolIds = [i \in Instances |-> {}]
  /\ memScan = [i \in Instances |-> 0]
  /\ running = [i \in Instances |-> FALSE]
  /\ call = [c \in Calls |-> Free]
  /\ clock = 0 /\ faults = 0
  /\ answer = [scan |-> 0, at |-> 0] /\ newest = 0

-----------------------------------------------------------------------------
At(c, l) == call[c].pc = l
Goto(c, l) == call' = [call EXCEPT ![c].pc = l]
Done(c) == call' = [call EXCEPT ![c] = Free]
Fault == faults < MaxFaults /\ faults' = faults + 1

\* Where a call goes on when its tick is over, or was turned away.
AfterTick(c) == IF call[c].kind = "load" THEN "readScan" ELSE "out"
GoOn(c) == IF AfterTick(c) = "out" THEN Done(c)
           ELSE call' = [call EXCEPT ![c] = [@ EXCEPT !.pc = "readScan", !.n = 0, !.ids = {}]]

\* ensurePoolIds returns at once if the instance has its ids.
FirstOf(i) == IF poolIds[i] # {} THEN "enter" ELSE "ids"

\* POST /api/tick.
RunAgentTick(c) ==
  /\ At(c, "out")
  /\ \E i \in Instances :
       call' = [call EXCEPT ![c] = [Free EXCEPT !.pc = FirstOf(i), !.host = i]]
  /\ UNCHANGED <<chain, kv, runtime, clock, faults, shown>>

\* GET /api/scan: ensureScanPopulated first looks for a time in the cache.
Load(c) ==
  /\ At(c, "out")
  /\ \E i \in Instances :
       call' = [call EXCEPT ![c] = [Free EXCEPT !.pc = "check", !.kind = "load", !.host = i,
                                                !.since = newest]]
  /\ UNCHANGED <<chain, kv, runtime, clock, faults, shown>>

EnsureScanPopulated(c) ==
  /\ At(c, "check")
  /\ Goto(c, IF lastScanAt # 0 THEN "readScan" ELSE FirstOf(Host(c)))
  /\ UNCHANGED <<chain, kv, runtime, clock, faults, shown>>

-----------------------------------------------------------------------------
\* readDiscoveryCache makes two reads; both must find something.
ReadDiscoveryCache(c) ==
  \/ /\ At(c, "ids")
     /\ call' = [call EXCEPT ![c].pc = "idsAt", ![c].ids = discoveredPools]
     /\ UNCHANGED <<chain, kv, runtime, clock, faults, shown>>
  \/ /\ At(c, "idsAt")
     /\ IF call[c].ids # {} /\ discoveredAt
        THEN /\ poolIds' = [poolIds EXCEPT ![Host(c)] = call[c].ids]
             /\ Goto(c, "logCached")
        ELSE Goto(c, "discover") /\ UNCHANGED poolIds
     /\ UNCHANGED <<chain, kv, memScan, running, clock, faults, shown>>

\* Nothing listed stands for the curated list.
Listed(S) == IF S = {} THEN Fallback ELSE S

Discovered(c, S) ==
  /\ poolIds' = [poolIds EXCEPT ![Host(c)] = S]
  /\ call' = [call EXCEPT ![c].pc = "cachePools", ![c].ids = S]

\* listPools reads the reward zone, and then the factory's deploys page by page.
RewardZone(c) ==
  /\ At(c, "discover")
  /\ call' = [call EXCEPT ![c].pc = "events", ![c].ids = zone]
  /\ UNCHANGED <<chain, kv, runtime, clock, faults, shown>>

\* A page shows some deploys of the event window; a full one has another after
\* it, the last ends the listing.
FactoryEvents(c) ==
  /\ At(c, "events")
  /\ \E S \in SUBSET factory :
       \/ call' = [call EXCEPT ![c].ids = call[c].ids \cup S] /\ UNCHANGED poolIds
       \/ Discovered(c, Listed(call[c].ids \cup S))
  /\ UNCHANGED <<chain, kv, memScan, running, clock, faults, shown>>

\* The backstop cannot be read: the curated list, cached like any other result.
DiscoveryFails(c) ==
  /\ At(c, "discover")
  /\ Fault
  /\ Discovered(c, Fallback)
  /\ UNCHANGED <<chain, kv, memScan, running, clock, shown>>

\* The first page fails, and so does its second try, or a later page does: what
\* was listed before stands.
EventsFail(c) ==
  /\ At(c, "events")
  /\ Fault
  /\ Discovered(c, Listed(call[c].ids))
  /\ UNCHANGED <<chain, kv, memScan, running, clock, shown>>

\* cacheDiscovery makes two writes; rt.poolIds may be another call's meanwhile.
CacheDiscovery(c) ==
  \/ /\ At(c, "cachePools")
     /\ discoveredPools' = call[c].ids
     /\ Goto(c, "cacheAt")
     /\ UNCHANGED <<chain, discoveredAt, lastScan, lastScanAt, lastDecision, runtime, clock,
                    faults, shown>>
  \/ /\ At(c, "cacheAt")
     /\ discoveredAt' = TRUE
     /\ Goto(c, "logFound")
     /\ UNCHANGED <<chain, discoveredPools, lastScan, lastScanAt, lastDecision, runtime, clock,
                    faults, shown>>

\* A database call that throws while a discovery is cached or logged makes the
\* fallback of it; one that throws elsewhere in ensurePoolIds leaves the call.
FallsBack(c) ==
  /\ call[c].pc \in {"cachePools", "cacheAt", "logFound"}
  /\ Fault
  /\ poolIds' = [poolIds EXCEPT ![Host(c)] = Fallback]
  /\ Goto(c, "logFailed")
  /\ UNCHANGED <<chain, kv, memScan, running, clock, shown>>

\* The last log of ensurePoolIds.
PoolIdsReady(c) ==
  /\ call[c].pc \in {"logCached", "logFound", "logFailed"}
  /\ Goto(c, "enter")
  /\ UNCHANGED <<chain, kv, runtime, clock, faults, shown>>

-----------------------------------------------------------------------------
\* The locals of ensurePoolIds are dead.
Begin(c) ==
  /\ running' = [running EXCEPT ![Host(c)] = TRUE]
  /\ call' = [call EXCEPT ![c] = [@ EXCEPT !.pc = "scan", !.ids = {}]]
EnterAlways(c) == Begin(c)                        \* mutant: ticks may overlap
Enter(c) == IF running[Host(c)] THEN GoOn(c) /\ UNCHANGED running ELSE Begin(c)

Tick(c) ==
  /\ At(c, "enter")
  /\ Enter(c)
  /\ UNCHANGED <<chain, kv, poolIds, memScan, clock, faults, shown>>

\* Scan and score into rt.lastScan, then store the snapshot, then its time.
Scan(c) ==
  /\ At(c, "scan")
  /\ clock < MaxScans
  /\ clock' = clock + 1
  /\ memScan' = [memScan EXCEPT ![Host(c)] = clock + 1]
  /\ call' = [call EXCEPT ![c].pc = "putScan", ![c].n = clock + 1]
  /\ UNCHANGED <<chain, kv, poolIds, running, faults, shown>>

TimeFirst(c) ==                                   \* mutant: the time before the snapshot
  \/ /\ At(c, "putScan")
     /\ lastScanAt' = call[c].n
     /\ Goto(c, "putAt")
     /\ UNCHANGED lastScan
  \/ /\ At(c, "putAt")
     /\ lastScan' = call[c].n
     /\ Goto(c, "decide")
     /\ UNCHANGED lastScanAt
Persist(c) ==
  \/ /\ At(c, "putScan")
     /\ lastScan' = call[c].n
     /\ Goto(c, "putAt")
     /\ UNCHANGED lastScanAt
  \/ /\ At(c, "putAt")
     /\ lastScanAt' = call[c].n
     /\ Goto(c, "decide")
     /\ UNCHANGED lastScan

PersistScan(c) ==
  /\ Persist(c)
  /\ UNCHANGED <<chain, discoveredPools, discoveredAt, lastDecision, runtime, clock, faults,
                 shown>>

\* getPosition, and the decision made from this scan.
Decide(c) ==
  /\ At(c, "decide")
  /\ Goto(c, "putDecision")
  /\ UNCHANGED <<chain, kv, runtime, clock, faults, shown>>

PersistDecision(c) ==
  /\ At(c, "putDecision")
  /\ lastDecision' = call[c].n
  /\ call' = [call EXCEPT ![c].pc = "rest", ![c].n = 0]
  /\ UNCHANGED <<chain, discoveredPools, discoveredAt, lastScan, lastScanAt, runtime, clock,
                 faults, shown>>

\* The guards, the executor and the per-user loop (RebalanceTick, PerUserTick)
\* are over; `finally` lets the next tick in.
EndTick(c) ==
  /\ At(c, "rest")
  /\ running' = [running EXCEPT ![Host(c)] = FALSE]
  /\ GoOn(c)
  /\ UNCHANGED <<chain, kv, poolIds, memScan, clock, faults, shown>>

\* A database call throws in the tick: its catch and `finally`.
StaysRunning(c) == UNCHANGED running              \* mutant: reset only on success
Released(c) == running' = [running EXCEPT ![Host(c)] = FALSE]

TickThrows(c) ==
  /\ call[c].pc \in InTick
  /\ Fault
  /\ Released(c)
  /\ GoOn(c)
  /\ UNCHANGED <<chain, kv, poolIds, memScan, clock, shown>>

\* One throws before the tick: a cron run ends with a 500, ensureScanPopulated
\* swallows it and the load goes on.
ResolvingThrows(c) ==
  /\ call[c].pc \in {"check", "ids", "idsAt", "logCached", "logFailed"}
  /\ Fault
  /\ GoOn(c)
  /\ UNCHANGED <<chain, kv, runtime, clock, shown>>

-----------------------------------------------------------------------------
\* getLastScan: the snapshot, then its time; the instance's own snapshot if
\* the database had none.
ReadSnapshot(c) ==
  /\ At(c, "readScan")
  /\ call' = [call EXCEPT ![c].pc = "readAt", ![c].n = lastScan]
  /\ UNCHANGED <<chain, kv, runtime, clock, faults, shown>>

Shown(c) == IF call[c].n # 0 THEN call[c].n ELSE memScan[Host(c)]

GetLastScan(c) ==
  /\ At(c, "readAt")
  /\ answer' = [scan |-> Shown(c), at |-> lastScanAt]
  /\ newest' = IF newest < call[c].n THEN call[c].n ELSE newest
  /\ Done(c)
  /\ UNCHANGED <<chain, kv, runtime, clock, faults>>

\* A read throws: the route answers with an error.
ReadThrows(c) ==
  /\ call[c].pc \in Reading
  /\ Fault
  /\ Done(c)
  /\ UNCHANGED <<chain, kv, runtime, clock, shown>>

-----------------------------------------------------------------------------
\* The platform kills or recycles an instance.
Crash(i) ==
  /\ Fault
  /\ \/ running[i]
     \/ poolIds[i] # {}
     \/ \E c \in Calls : Host(c) = i
  /\ poolIds' = [poolIds EXCEPT ![i] = {}]
  /\ memScan' = [memScan EXCEPT ![i] = 0]
  /\ running' = [running EXCEPT ![i] = FALSE]
  /\ call' = [c \in Calls |-> IF Host(c) = i THEN Free ELSE call[c]]
  /\ UNCHANGED <<chain, kv, clock, shown>>

\* A pool is deployed, and later added to the reward zone.
ChainGrows ==
  /\ \E p \in Pools \ zone :
       \/ p \notin factory /\ factory' = factory \cup {p} /\ UNCHANGED zone
       \/ p \in factory /\ zone' = zone \cup {p} /\ UNCHANGED factory
  /\ UNCHANGED <<kv, runtime, call, clock, faults, shown>>

Progress(c) ==
  \/ EnsureScanPopulated(c) \/ ReadDiscoveryCache(c) \/ RewardZone(c)
  \/ FactoryEvents(c) \/ CacheDiscovery(c) \/ PoolIdsReady(c)
  \/ Tick(c) \/ Scan(c) \/ PersistScan(c) \/ Decide(c) \/ PersistDecision(c) \/ EndTick(c)
  \/ ReadSnapshot(c) \/ GetLastScan(c)

Failure(c) ==
  \/ DiscoveryFails(c) \/ EventsFail(c) \/ FallsBack(c)
  \/ TickThrows(c) \/ ResolvingThrows(c) \/ ReadThrows(c)

Next ==
  \/ \E c \in Calls : RunAgentTick(c) \/ Load(c) \/ Progress(c) \/ Failure(c)
  \/ \E i \in Instances : Crash(i)
  \/ ChainGrows

Spec == Init /\ [][Next]_vars

\* Calls that have begun go on, and the dashboard keeps being loaded.
FairSpec == Spec /\ \A c \in Calls : WF_vars(Progress(c)) /\ WF_vars(Load(c))
-----------------------------------------------------------------------------
(***************************************************************************)
(* Properties.                                                             *)
(***************************************************************************)
\* On one instance the store never claims more than it has: the stored time
\* is not that of a newer scan than the stored snapshot, nor is the stored
\* decision made from a scan newer than either, whatever throws in between.
StoreOrdered == lastDecision <= lastScanAt /\ lastScanAt <= lastScan

\* On one instance a dashboard that is loaded after an answer from the store
\* was given is never answered with an older scan, though ticks write to the
\* store meanwhile and loads may take the scan in memory instead.
AnswersMonotone ==
  [][\A c \in Calls :
        At(c, "readAt") /\ call'[c].pc = "out" /\ answer' # answer
          => answer'.scan >= call[c].since]_vars

\* "If no scan has ever been cached, run one": as long as the dashboard is
\* loaded, a scan is cached at last, however the first few calls fail.
Populated == <>(lastScanAt # 0)

=============================================================================
