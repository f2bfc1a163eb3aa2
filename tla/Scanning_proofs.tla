--------------------------- MODULE Scanning_proofs ---------------------------
(***************************************************************************)
(* Theorems about Scanning, for any pools, calls and bounds: the types for *)
(* any number of instances, and for one instance what the store claims and *)
(* what the dashboard is answered.                                         *)
(***************************************************************************)
EXTENDS Scanning, TLAPS

\* The store and the answers are in order only as long as one instance runs:
\* rt.running keeps the ticks of an instance apart, and no others.
OneInstance == \A i, j \in Instances : i = j

-----------------------------------------------------------------------------
(***************************************************************************)
(* Type correctness.  A tick that goes on has taken rt.running for itself. *)
(***************************************************************************)
Working(c) == call[c].pc \in InTick

TickInv ==
  /\ \A c \in Calls : call[c].pc # "out" => Host(c) \in Instances
  /\ \A c, d \in Calls : Working(c) /\ Working(d) /\ Host(c) = Host(d) => c = d

BaseInv == TypeOK /\ TickInv

CallTypes == call \in [Calls -> CallRecords] /\ running \in [Instances -> BOOLEAN]

RestTypes ==
  /\ zone \subseteq Pools /\ factory \subseteq Pools
  /\ discoveredPools \subseteq Pools \cup Fallback
  /\ discoveredAt \in BOOLEAN
  /\ lastScan \in Scans /\ lastScanAt \in Scans /\ lastDecision \in Scans /\ newest \in Scans
  /\ poolIds \in [Instances -> SUBSET (Pools \cup Fallback)]
  /\ memScan \in [Instances -> Scans]
  /\ clock \in Scans
  /\ faults \in 0..MaxFaults
  /\ answer \in [scan : Scans, at : Scans]

HeldInv == \A c \in Calls : call[c].pc \in InTick => running[Host(c)]

LEMMA TypesSplit == TypeOK <=> RestTypes /\ CallTypes /\ HeldInv
BY DEF TypeOK, RestTypes, CallTypes, HeldInv

LEMMA ScanNumbers ==
  ASSUME ScanningConstantsOK
  PROVE  /\ MaxScans \in Nat /\ MaxFaults \in Nat /\ 0 \in Scans
         /\ \A n \in Scans : n \in Nat /\ n <= MaxScans
BY DEF ScanningConstantsOK, Scans

LEMMA FreeRecord == ASSUME ScanningConstantsOK
                    PROVE  Free \in CallRecords /\ Free.pc = "out" /\ Free.n = 0 /\ Free.since = 0
BY ScanNumbers DEF Free, CallRecords, Labels

\* A call goes on, or ends, and does not enter a tick.
LEMMA CallGoes ==
  ASSUME BaseInv, NEW c \in Calls, NEW x \in CallRecords, call' = [call EXCEPT ![c] = x],
         x.pc # "out" => x.host \in Instances,
         x.pc \in InTick => Working(c) /\ x.host = Host(c),
         \/ UNCHANGED running
         \/ Working(c) /\ x.pc \notin InTick /\ running' = [running EXCEPT ![Host(c)] = FALSE],
         RestTypes'
  PROVE  BaseInv'
<1>1. CallTypes
  BY TypesSplit DEF BaseInv
<1>2. CallTypes'
  BY <1>1 DEF CallTypes
<1>3. call'[c] = x /\ \A d \in Calls : d # c => call'[d] = call[d]
  BY <1>1 DEF CallTypes
<1>4. TickInv'
  <2>1. \A d \in Calls : call'[d].pc # "out" => call'[d].host \in Instances
    BY <1>3 DEF BaseInv, TickInv, Host
  <2>2. \A d \in Calls : call'[d].pc \in InTick => Working(d) /\ call'[d].host = call[d].host
    BY <1>3 DEF Working, Host
  <2>3. \A d, e \in Calls : /\ call'[d].pc \in InTick /\ call'[e].pc \in InTick
                            /\ call'[d].host = call'[e].host
                            => d = e
    BY <2>2 DEF BaseInv, TickInv, Host
  <2>. QED BY <2>1, <2>3 DEF TickInv, Working, Host
<1>5. HeldInv'
  <2>1. ASSUME NEW d \in Calls, call'[d].pc \in InTick PROVE running'[call'[d].host]
    <3>1. Working(d) /\ call'[d].host = Host(d) /\ running[Host(d)]
      BY <1>3, <2>1, TypesSplit DEF Working, Host, BaseInv, HeldInv
    <3>2. CASE UNCHANGED running
      BY <3>1, <3>2
    <3>3. CASE Working(c) /\ x.pc \notin InTick /\ running' = [running EXCEPT ![Host(c)] = FALSE]
      <4>1. d # c
        BY <1>3, <2>1, <3>3
      <4>2. Host(d) # Host(c) /\ Host(d) \in Instances
        BY <3>1, <3>3, <4>1 DEF BaseInv, TickInv, Working, InTick
      <4>. QED BY <1>1, <3>1, <3>3, <4>2 DEF CallTypes
    <3>. QED BY <3>2, <3>3
  <2>. QED BY <2>1 DEF HeldInv, Host
<1>. QED BY <1>2, <1>4, <1>5, TypesSplit DEF BaseInv, RestTypes, CallTypes, HeldInv, TypeOK, Host

\* A call enters a tick.
LEMMA CallEnters ==
  ASSUME BaseInv, NEW c \in Calls, NEW x \in CallRecords, call' = [call EXCEPT ![c] = x],
         x.pc \in InTick, x.host = Host(c), Host(c) \in Instances, ~running[Host(c)],
         running' = [running EXCEPT ![Host(c)] = TRUE],
         RestTypes'
  PROVE  BaseInv'
<1>1. CallTypes
  BY TypesSplit DEF BaseInv
<1>2. CallTypes'
  BY <1>1 DEF CallTypes
<1>3. call'[c] = x /\ \A d \in Calls : d # c => call'[d] = call[d]
  BY <1>1 DEF CallTypes
<1>4. \A d \in Calls : Working(d) => Host(d) # Host(c)
  BY TypesSplit DEF Working, BaseInv, HeldInv
<1>5. TickInv'
  <2>1. \A d \in Calls : call'[d].pc # "out" => call'[d].host \in Instances
    BY <1>3 DEF BaseInv, TickInv, Host
  <2>2. \A d \in Calls : d # c /\ call'[d].pc \in InTick =>
                           Working(d) /\ call'[d].host = Host(d)
    BY <1>3 DEF Working, Host
  <2>3. \A d, e \in Calls : /\ call'[d].pc \in InTick /\ call'[e].pc \in InTick
                            /\ call'[d].host = call'[e].host
                            => d = e
    BY <1>3, <1>4, <2>2 DEF BaseInv, TickInv
  <2>. QED BY <2>1, <2>3 DEF TickInv, Working, Host
<1>6. HeldInv'
  <2>1. ASSUME NEW d \in Calls, call'[d].pc \in InTick PROVE running'[call'[d].host]
    <3>1. CASE d = c
      BY <1>1, <1>3, <3>1 DEF CallTypes
    <3>2. CASE d # c
      <4>1. Working(d) /\ call'[d].host = Host(d) /\ running[Host(d)] /\ Host(d) \in Instances
        BY <1>3, <2>1, <3>2, TypesSplit DEF Working, Host, BaseInv, HeldInv, TickInv, InTick
      <4>2. Host(d) # Host(c)
        BY <1>4, <4>1
      <4>. QED BY <1>1, <4>1, <4>2 DEF CallTypes
    <3>. QED BY <3>1, <3>2
  <2>. QED BY <2>1 DEF HeldInv, Host
<1>. QED BY <1>2, <1>5, <1>6, TypesSplit DEF BaseInv, RestTypes, CallTypes, HeldInv, TypeOK, Host

\* What a call is after its tick: free, or about to read the store.
LEMMA GoOnEffect ==
  ASSUME ScanningConstantsOK, BaseInv, NEW c \in Calls, GoOn(c)
  PROVE  \E x \in CallRecords :
           /\ call' = [call EXCEPT ![c] = x]
           /\ x.pc \in {"out", "readScan"}
           /\ x.since = 0 \/ x.since = call[c].since
           /\ x.pc # "out" => x.host = Host(c)
<1>1. call[c] \in CallRecords
  BY DEF BaseInv, TypeOK
<1>2. CASE AfterTick(c) = "out"
  BY <1>2, FreeRecord DEF GoOn, Done
<1>3. CASE AfterTick(c) # "out"
  <2>. DEFINE x == [call[c] EXCEPT !.pc = "readScan", !.n = 0, !.ids = {}]
  <2>1. x \in CallRecords /\ x.pc = "readScan" /\ x.since = call[c].since /\ x.host = Host(c)
    BY <1>1, ScanNumbers DEF CallRecords, Labels, Reading, Host
  <2>2. call' = [call EXCEPT ![c] = x]
    BY <1>3 DEF GoOn
  <2>. HIDE DEF x
  <2>. QED BY <2>1, <2>2
<1>. QED BY <1>2, <1>3

\* The calls before a tick and after it.
LEMMA OutsideOK ==
  ASSUME ScanningConstantsOK, BaseInv, NEW c \in Calls,
         \/ RunAgentTick(c) \/ Load(c) \/ EnsureScanPopulated(c) \/ ReadDiscoveryCache(c)
         \/ RewardZone(c) \/ FactoryEvents(c) \/ DiscoveryFails(c) \/ EventsFail(c)
         \/ CacheDiscovery(c) \/ FallsBack(c)
         \/ PoolIdsReady(c) \/ ResolvingThrows(c) \/ ReadSnapshot(c) \/ GetLastScan(c)
         \/ ReadThrows(c)
  PROVE  BaseInv'
<1>0. /\ RestTypes /\ CallTypes /\ call[c] \in CallRecords /\ Fallback \subseteq Pools \cup Fallback
      /\ call[c].ids \subseteq Pools \cup Fallback
  BY TypesSplit DEF BaseInv, CallTypes, CallRecords
<1>1. call[c].pc # "out" => Host(c) \in Instances
  BY DEF BaseInv, TickInv
<1>. DEFINE Goes(x) == x \in CallRecords /\ call' = [call EXCEPT ![c] = x]
<1>2. ASSUME NEW x, Goes(x), x.pc # "out" => x.host \in Instances, x.pc \notin InTick,
             UNCHANGED running, RestTypes'
      PROVE  BaseInv'
  BY <1>2, CallGoes
<1>3. UNCHANGED running
  BY DEF RunAgentTick, Load, EnsureScanPopulated, ReadDiscoveryCache, RewardZone, FactoryEvents,
     DiscoveryFails, EventsFail, CacheDiscovery, FallsBack, PoolIdsReady, ResolvingThrows, ReadSnapshot,
     GetLastScan, ReadThrows, runtime
<1>4. UNCHANGED <<chain, kv, poolIds, memScan, clock, shown>> /\ faults' \in 0..MaxFaults => RestTypes'
  BY <1>0 DEF RestTypes, chain, kv, shown
<1>5. ASSUME NEW l \in Labels \ (InTick \cup {"out"}), Goto(c, l), call[c].pc # "out", RestTypes'
      PROVE  BaseInv'
  <2>. DEFINE x == [call[c] EXCEPT !.pc = l]
  <2>1. x \in CallRecords /\ x.pc = l /\ x.host = Host(c) /\ call' = [call EXCEPT ![c] = x]
    BY <1>0, <1>5 DEF CallRecords, Host, Goto
  <2>. HIDE DEF x
  <2>. QED BY <1>1, <1>2, <1>3, <1>5, <2>1
<1>6. \A i : FirstOf(i) \in Labels \ (InTick \cup {"out"})
  BY DEF FirstOf, Labels, Resolving, InTick
<1>7. ASSUME Fault PROVE faults' \in 0..MaxFaults
  BY <1>0, <1>7, ScanNumbers DEF Fault, RestTypes
<1>8. CASE RunAgentTick(c) \/ Load(c)
  <2>1. PICK x \in CallRecords : /\ call' = [call EXCEPT ![c] = x]
                                 /\ x.pc \in Labels \ (InTick \cup {"out"}) /\ x.host \in Instances
    <3>1. CASE RunAgentTick(c)
      <4>1. PICK i \in Instances : call' = [call EXCEPT ![c] = [Free EXCEPT !.pc = FirstOf(i), !.host = i]]
        BY <3>1 DEF RunAgentTick
      <4>. DEFINE l == FirstOf(i)  x == [Free EXCEPT !.pc = l, !.host = i]
      <4>2. l \in Labels \ (InTick \cup {"out"})
        BY <1>6
      <4>. HIDE DEF l
      <4>3. x \in CallRecords /\ x.pc = l /\ x.host = i
        BY <4>2, ScanNumbers DEF Free, CallRecords
      <4>4. call' = [call EXCEPT ![c] = x]
        BY <4>1 DEF l
      <4>. HIDE DEF x
      <4>. QED BY <4>2, <4>3, <4>4
    <3>2. CASE Load(c)
      <4>1. PICK i \in Instances :
              call' = [call EXCEPT ![c] = [Free EXCEPT !.pc = "check", !.kind = "load", !.host = i,
                                                       !.since = newest]]
        BY <3>2 DEF Load
      <4>. DEFINE x == [Free EXCEPT !.pc = "check", !.kind = "load", !.host = i, !.since = newest]
      <4>2. x \in CallRecords /\ x.pc = "check" /\ x.host = i
        BY <1>0, ScanNumbers DEF Free, CallRecords, Labels, RestTypes
      <4>3. call' = [call EXCEPT ![c] = x] /\ "check" \in Labels \ (InTick \cup {"out"})
        BY <4>1 DEF Labels, InTick
      <4>. HIDE DEF x
      <4>. QED BY <4>2, <4>3
    <3>. QED BY <1>8, <3>1, <3>2
  <2>2. RestTypes'
    <3>1. faults' \in 0..MaxFaults /\ UNCHANGED <<chain, kv, poolIds, memScan, clock, shown>>
      BY <1>0, <1>8 DEF RunAgentTick, Load, runtime, RestTypes
    <3>. QED BY <1>4, <3>1
  <2>. QED BY <1>2, <1>3, <2>1, <2>2
<1>9. CASE EnsureScanPopulated(c)
  <2>1. RestTypes'
    <3>1. faults' \in 0..MaxFaults /\ UNCHANGED <<chain, kv, poolIds, memScan, clock, shown>>
      BY <1>0, <1>9 DEF EnsureScanPopulated, runtime, RestTypes
    <3>. QED BY <1>4, <3>1
  <2>2. PICK l \in Labels \ (InTick \cup {"out"}) : Goto(c, l)
    <3>1. "readScan" \in Labels \ (InTick \cup {"out"})
      BY DEF Labels, Reading, InTick
    <3>. QED BY <1>6, <1>9, <3>1 DEF EnsureScanPopulated
  <2>. QED BY <1>5, <1>9, <2>1, <2>2 DEF EnsureScanPopulated, At
<1>10. CASE ReadDiscoveryCache(c)
  <2>1. CASE At(c, "ids")
    <3>. DEFINE x == [call[c] EXCEPT !.pc = "idsAt", !.ids = discoveredPools]
    <3>1. call' = [call EXCEPT ![c] = x] /\ UNCHANGED <<chain, kv, runtime, clock, faults, shown>>
      BY <1>10, <2>1 DEF ReadDiscoveryCache, At
    <3>2. x \in CallRecords /\ x.pc = "idsAt" /\ x.host = Host(c)
      BY <1>0 DEF CallRecords, Labels, Resolving, RestTypes, Host
    <3>3. RestTypes'
      BY <1>0, <1>4, <3>1 DEF runtime, RestTypes
    <3>4. x.pc # "out" /\ x.pc \notin InTick /\ Host(c) \in Instances
      BY <1>1, <2>1, <3>2 DEF InTick, At
    <3>. HIDE DEF x
    <3>. QED BY <1>2, <1>3, <3>1, <3>2, <3>3, <3>4
  <2>2. CASE At(c, "idsAt")
    <3>1. /\ Goto(c, "logCached") \/ Goto(c, "discover")
          /\ poolIds' = poolIds \/ poolIds' = [poolIds EXCEPT ![Host(c)] = call[c].ids]
          /\ UNCHANGED <<chain, kv, memScan, running, clock, faults, shown>>
      BY <1>10, <2>2 DEF ReadDiscoveryCache, At
    <3>2. RestTypes'
      BY <1>0, <3>1 DEF RestTypes, chain, kv, shown
    <3>3. {"logCached", "discover"} \subseteq Labels \ (InTick \cup {"out"})
      BY DEF Labels, Resolving, InTick
    <3>. QED BY <1>5, <2>2, <3>1, <3>2, <3>3 DEF At
  <2>. QED BY <1>10, <2>1, <2>2 DEF ReadDiscoveryCache
<1>11. CASE RewardZone(c) \/ FactoryEvents(c) \/ DiscoveryFails(c) \/ EventsFail(c)
  <2>0. Host(c) \in Instances
    BY <1>1, <1>11 DEF RewardZone, FactoryEvents, DiscoveryFails, EventsFail, At
  <2>1. PICK S \in SUBSET (Pools \cup Fallback), l \in {"events", "cachePools"} :
          /\ call' = [call EXCEPT ![c].pc = l, ![c].ids = S]
          /\ poolIds' \in {poolIds, [poolIds EXCEPT ![Host(c)] = S]}
    <3>1. zone \in SUBSET (Pools \cup Fallback)
      BY <1>0 DEF RestTypes
    <3>2. \A T \in SUBSET factory : call[c].ids \cup T \in SUBSET (Pools \cup Fallback)
      BY <1>0 DEF RestTypes
    <3>3. \A T \in SUBSET (Pools \cup Fallback) : Listed(T) \in SUBSET (Pools \cup Fallback)
      BY DEF Listed
    <3>4. CASE RewardZone(c)
      BY <3>1, <3>4 DEF RewardZone, runtime
    <3>5. CASE FactoryEvents(c)
      <4>1. PICK T \in SUBSET factory :
              \/ call' = [call EXCEPT ![c].ids = call[c].ids \cup T] /\ UNCHANGED poolIds
              \/ Discovered(c, Listed(call[c].ids \cup T))
        BY <3>5 DEF FactoryEvents
      <4>2. CASE call' = [call EXCEPT ![c].ids = call[c].ids \cup T] /\ UNCHANGED poolIds
        <5>1. call' = [call EXCEPT ![c].pc = "events", ![c].ids = call[c].ids \cup T]
          BY <1>0, <3>5, <4>2 DEF FactoryEvents, At, CallTypes, CallRecords
        <5>. QED BY <3>2, <4>2, <5>1
      <4>3. CASE Discovered(c, Listed(call[c].ids \cup T))
        BY <3>2, <3>3, <4>3 DEF Discovered
      <4>. QED BY <4>1, <4>2, <4>3
    <3>6. CASE DiscoveryFails(c)
      BY <1>0, <3>6 DEF DiscoveryFails, Discovered
    <3>7. CASE EventsFail(c)
      BY <1>0, <3>3, <3>7 DEF EventsFail, Discovered
    <3>. QED BY <1>11, <3>4, <3>5, <3>6, <3>7
  <2>. DEFINE x == [call[c] EXCEPT !.pc = l, !.ids = S]
  <2>2. call' = [call EXCEPT ![c] = x]
    BY <2>1
  <2>3. x \in CallRecords /\ x.pc = l /\ x.host = Host(c)
    BY <1>0 DEF CallRecords, Labels, Resolving, Host
  <2>4. faults' \in 0..MaxFaults /\ UNCHANGED <<chain, kv, memScan, clock, shown>>
    BY <1>0, <1>7, <1>11 DEF RewardZone, FactoryEvents, DiscoveryFails, EventsFail, RestTypes, runtime
  <2>5. RestTypes'
    BY <1>0, <2>1, <2>4 DEF RestTypes, chain, kv, shown
  <2>6. x.pc # "out" /\ x.pc \notin InTick
    BY <2>3 DEF InTick
  <2>. HIDE DEF x
  <2>. QED BY <1>2, <1>3, <2>0, <2>2, <2>3, <2>5, <2>6
<1>12. CASE CacheDiscovery(c)
  <2>1. /\ Goto(c, "cacheAt") \/ Goto(c, "logFound")
        /\ discoveredPools' \in {discoveredPools, call[c].ids} /\ discoveredAt' \in {discoveredAt, TRUE}
        /\ UNCHANGED <<chain, lastScan, lastScanAt, lastDecision, poolIds, memScan, clock, faults, shown>>
        /\ call[c].pc # "out"
    BY <1>12 DEF CacheDiscovery, At, runtime
  <2>2. RestTypes'
    BY <1>0, <2>1 DEF RestTypes, chain, shown
  <2>3. {"cacheAt", "logFound"} \subseteq Labels \ (InTick \cup {"out"})
    BY DEF Labels, Resolving, InTick
  <2>. QED BY <1>5, <2>1, <2>2, <2>3
<1>13. CASE FallsBack(c)
  <2>1. /\ Goto(c, "logFailed") /\ poolIds' = [poolIds EXCEPT ![Host(c)] = Fallback]
        /\ UNCHANGED <<chain, kv, memScan, clock, shown>> /\ call[c].pc # "out"
        /\ faults' \in 0..MaxFaults
    BY <1>7, <1>13 DEF FallsBack
  <2>2. RestTypes'
    BY <1>0, <2>1 DEF RestTypes, chain, kv, shown
  <2>3. "logFailed" \in Labels \ (InTick \cup {"out"})
    BY DEF Labels, Resolving, InTick
  <2>. QED BY <1>5, <2>1, <2>2, <2>3
<1>14. CASE PoolIdsReady(c)
  <2>1. Goto(c, "enter") /\ call[c].pc # "out" /\ UNCHANGED <<chain, kv, runtime, clock, faults, shown>>
    BY <1>14 DEF PoolIdsReady
  <2>2. RestTypes'
    BY <1>0, <1>4, <2>1 DEF runtime, RestTypes
  <2>3. "enter" \in Labels \ (InTick \cup {"out"})
    BY DEF Labels, InTick
  <2>. QED BY <1>5, <2>1, <2>2, <2>3
<1>15. CASE ResolvingThrows(c)
  <2>1. GoOn(c) /\ call[c].pc # "out" /\ UNCHANGED <<chain, kv, runtime, clock, shown>>
        /\ faults' \in 0..MaxFaults
    BY <1>7, <1>15 DEF ResolvingThrows
  <2>2. PICK x \in CallRecords : /\ call' = [call EXCEPT ![c] = x]
                                 /\ x.pc \in {"out", "readScan"} /\ (x.pc # "out" => x.host = Host(c))
    BY <2>1, GoOnEffect
  <2>3. RestTypes'
    BY <1>4, <2>1 DEF runtime
  <2>4. x.pc \notin InTick /\ (x.pc # "out" => x.host \in Instances)
    BY <1>1, <2>1, <2>2 DEF InTick
  <2>. QED BY <1>2, <1>3, <2>2, <2>3, <2>4
<1>16. CASE ReadSnapshot(c)
  <2>. DEFINE x == [call[c] EXCEPT !.pc = "readAt", !.n = lastScan]
  <2>1. call' = [call EXCEPT ![c] = x] /\ UNCHANGED <<chain, kv, runtime, clock, faults, shown>>
        /\ call[c].pc # "out"
    BY <1>16 DEF ReadSnapshot, At
  <2>2. x \in CallRecords /\ x.pc = "readAt" /\ x.host = Host(c)
    BY <1>0 DEF CallRecords, Labels, Reading, RestTypes, Host
  <2>3. RestTypes'
    BY <1>0, <1>4, <2>1 DEF runtime, RestTypes
  <2>4. x.pc # "out" /\ x.pc \notin InTick /\ Host(c) \in Instances
    BY <1>1, <2>1, <2>2 DEF InTick
  <2>. HIDE DEF x
  <2>. QED BY <1>2, <1>3, <2>1, <2>2, <2>3, <2>4
<1>17. CASE GetLastScan(c) \/ ReadThrows(c)
  <2>1. Done(c)
    BY <1>17 DEF GetLastScan, ReadThrows
  <2>2. RestTypes'
    <3>1. CASE GetLastScan(c)
      <4>1. Shown(c) \in Scans /\ newest' \in Scans
        BY <1>0, <1>1, <3>1 DEF GetLastScan, At, Shown, RestTypes, CallRecords
      <4>. QED BY <1>0, <3>1, <4>1 DEF GetLastScan, RestTypes, chain, kv, runtime
    <3>2. CASE ReadThrows(c)
      BY <1>4, <1>7, <3>2 DEF ReadThrows, runtime
    <3>. QED BY <1>17, <3>1, <3>2
  <2>. QED BY <1>2, <1>3, <2>1, <2>2, FreeRecord DEF Done, InTick
<1>. QED BY <1>8, <1>9, <1>10, <1>11, <1>12, <1>13, <1>14, <1>15, <1>16, <1>17

LEMMA TickOK ==
  ASSUME ScanningConstantsOK, BaseInv, NEW c \in Calls,
         \/ Tick(c) \/ Scan(c) \/ PersistScan(c) \/ Decide(c) \/ PersistDecision(c) \/ EndTick(c)
         \/ TickThrows(c)
  PROVE  BaseInv'
<1>0. /\ RestTypes /\ CallTypes /\ call[c] \in CallRecords /\ call[c].n \in Scans
      /\ Host(c) \in Instances
  <2>1. call[c].pc # "out"
    BY DEF Tick, Scan, PersistScan, Persist, Decide, PersistDecision, EndTick, TickThrows, At, InTick
  <2>. QED BY <2>1, TypesSplit DEF BaseInv, TickInv, CallTypes, CallRecords
<1>1. InTick \subseteq Labels
  BY DEF Labels
\* A tick goes on: from one label of it to another.
<1>2. ASSUME NEW x \in CallRecords, call' = [call EXCEPT ![c] = x], x.pc \in InTick, Working(c),
             x.host = Host(c), UNCHANGED running, RestTypes'
      PROVE  BaseInv'
  BY <1>0, <1>2, CallGoes
<1>3. ASSUME NEW l \in InTick, Goto(c, l), Working(c), UNCHANGED running, RestTypes'
      PROVE  BaseInv'
  <2>. DEFINE x == [call[c] EXCEPT !.pc = l]
  <2>1. x \in CallRecords /\ x.pc = l /\ x.host = Host(c) /\ call' = [call EXCEPT ![c] = x]
    BY <1>0, <1>1, <1>3 DEF CallRecords, Host, Goto
  <2>. HIDE DEF x
  <2>. QED BY <1>2, <1>3, <2>1
\* A tick is over, or was never entered.
<1>4. ASSUME GoOn(c), RestTypes',
             UNCHANGED running \/ (Working(c) /\ running' = [running EXCEPT ![Host(c)] = FALSE])
      PROVE  BaseInv'
  <2>1. PICK x \in CallRecords : /\ call' = [call EXCEPT ![c] = x]
                                 /\ x.pc \in {"out", "readScan"} /\ (x.pc # "out" => x.host = Host(c))
    BY <1>4, GoOnEffect
  <2>2. x.pc \notin InTick /\ (x.pc # "out" => x.host \in Instances)
    BY <1>0, <2>1 DEF InTick
  <2>. QED BY <1>4, <2>1, <2>2, CallGoes
<1>5. CASE Tick(c)
  <2>1. RestTypes'
    BY <1>0, <1>5 DEF Tick, RestTypes, chain, kv, shown
  <2>2. CASE running[Host(c)]
    BY <1>4, <1>5, <2>1, <2>2 DEF Tick, Enter
  <2>3. CASE ~running[Host(c)]
    <3>. DEFINE x == [call[c] EXCEPT !.pc = "scan", !.ids = {}]
    <3>1. call' = [call EXCEPT ![c] = x] /\ running' = [running EXCEPT ![Host(c)] = TRUE]
      BY <1>5, <2>3 DEF Tick, Enter, Begin
    <3>2. x \in CallRecords /\ x.pc \in InTick /\ x.host = Host(c)
      BY <1>0 DEF CallRecords, Labels, InTick, Host
    <3>. HIDE DEF x
    <3>. QED BY <1>0, <2>1, <2>3, <3>1, <3>2, CallEnters
  <2>. QED BY <2>2, <2>3
<1>6. CASE Scan(c)
  <2>. DEFINE x == [call[c] EXCEPT !.pc = "putScan", !.n = clock + 1]
  <2>1. /\ call' = [call EXCEPT ![c] = x] /\ UNCHANGED running /\ Working(c) /\ clock < MaxScans
        /\ clock' = clock + 1 /\ memScan' = [memScan EXCEPT ![Host(c)] = clock + 1]
        /\ UNCHANGED <<chain, kv, poolIds, faults, shown>>
    BY <1>6 DEF Scan, At, Working, InTick
  <2>2. clock + 1 \in Scans
    BY <1>0, <2>1, ScanNumbers DEF RestTypes, Scans
  <2>3. x \in CallRecords /\ x.pc \in InTick /\ x.host = Host(c)
    BY <1>0, <2>2 DEF CallRecords, Labels, InTick, Host
  <2>4. RestTypes'
    BY <1>0, <2>1, <2>2 DEF RestTypes, chain, kv, shown
  <2>. HIDE DEF x
  <2>. QED BY <1>2, <2>1, <2>3, <2>4
<1>7. CASE PersistScan(c)
  <2>1. /\ Goto(c, "putAt") \/ Goto(c, "decide")
        /\ Working(c) /\ UNCHANGED <<running, poolIds, memScan>>
        /\ lastScan' \in {lastScan, call[c].n} /\ lastScanAt' \in {lastScanAt, call[c].n}
        /\ UNCHANGED <<chain, discoveredPools, discoveredAt, lastDecision, clock, faults, shown>>
    BY <1>7 DEF PersistScan, Persist, At, Working, InTick, runtime
  <2>2. RestTypes'
    BY <1>0, <2>1 DEF RestTypes, chain, shown
  <2>3. "putAt" \in InTick /\ "decide" \in InTick
    BY DEF InTick
  <2>. QED BY <1>3, <2>1, <2>2, <2>3
<1>8. CASE Decide(c)
  <2>1. /\ Goto(c, "putDecision") /\ Working(c) /\ "putDecision" \in InTick
        /\ UNCHANGED <<chain, kv, runtime, clock, faults, shown>>
    BY <1>8 DEF Decide, At, Working, InTick
  <2>2. RestTypes'
    BY <1>0, <2>1 DEF RestTypes, chain, kv, runtime, shown
  <2>. QED BY <1>3, <2>1, <2>2 DEF runtime
<1>9. CASE PersistDecision(c)
  <2>. DEFINE x == [call[c] EXCEPT !.pc = "rest", !.n = 0]
  <2>1. /\ call' = [call EXCEPT ![c] = x] /\ Working(c) /\ lastDecision' = call[c].n
        /\ UNCHANGED <<chain, discoveredPools, discoveredAt, lastScan, lastScanAt, runtime, clock,
                       faults, shown>>
    BY <1>9 DEF PersistDecision, At, Working, InTick
  <2>2. x \in CallRecords /\ x.pc \in InTick /\ x.host = Host(c)
    BY <1>0, ScanNumbers DEF CallRecords, Labels, InTick, Host
  <2>3. RestTypes'
    BY <1>0, <2>1 DEF RestTypes, chain, runtime, shown
  <2>. HIDE DEF x
  <2>. QED BY <1>2, <2>1, <2>2, <2>3 DEF runtime
<1>10. CASE EndTick(c)
  <2>1. /\ GoOn(c) /\ Working(c) /\ running' = [running EXCEPT ![Host(c)] = FALSE]
        /\ UNCHANGED <<chain, kv, poolIds, memScan, clock, faults, shown>>
    BY <1>10 DEF EndTick, At, Working, InTick
  <2>2. RestTypes'
    BY <1>0, <2>1 DEF RestTypes, chain, kv, shown
  <2>. QED BY <1>4, <2>1, <2>2
<1>11. CASE TickThrows(c)
  <2>1. /\ GoOn(c) /\ Working(c) /\ running' = [running EXCEPT ![Host(c)] = FALSE]
        /\ UNCHANGED <<chain, kv, poolIds, memScan, clock, shown>> /\ Fault
    BY <1>11 DEF TickThrows, Working, Released
  <2>2. RestTypes'
    <3>1. faults' \in 0..MaxFaults
      BY <1>0, <2>1, ScanNumbers DEF Fault, RestTypes
    <3>. QED BY <1>0, <2>1, <3>1 DEF RestTypes, chain, kv, shown
  <2>. QED BY <1>4, <2>1, <2>2
<1>. QED BY <1>5, <1>6, <1>7, <1>8, <1>9, <1>10, <1>11

LEMMA CrashOK ==
  ASSUME ScanningConstantsOK, BaseInv, NEW i \in Instances, Crash(i)
  PROVE  BaseInv'
<1>0. RestTypes /\ CallTypes /\ HeldInv
  BY TypesSplit DEF BaseInv
<1>1. RestTypes'
  <2>1. faults' \in 0..MaxFaults
    BY <1>0, ScanNumbers DEF Crash, Fault, RestTypes
  <2>. QED BY <1>0, <2>1, ScanNumbers DEF Crash, RestTypes, chain, kv, shown
<1>2. CallTypes'
  BY <1>0, FreeRecord DEF Crash, CallTypes
<1>3. \A c \in Calls : call'[c] = IF Host(c) = i THEN Free ELSE call[c]
  BY DEF Crash
<1>4. \A c \in Calls : call'[c].pc # "out" => call'[c] = call[c] /\ Host(c) # i
  BY <1>3, FreeRecord
<1>5. TickInv'
  <2>1. \A c \in Calls : call'[c].pc # "out" => call'[c].host \in Instances
    BY <1>4 DEF BaseInv, TickInv, Host
  <2>2. \A c \in Calls : call'[c].pc \in InTick => Working(c) /\ call'[c].host = Host(c)
    BY <1>4 DEF Working, InTick, Host
  <2>3. \A d, e \in Calls : /\ call'[d].pc \in InTick /\ call'[e].pc \in InTick
                            /\ call'[d].host = call'[e].host
                            => d = e
    BY <2>2 DEF BaseInv, TickInv
  <2>. QED BY <2>1, <2>3 DEF TickInv, Working, Host
<1>6. HeldInv'
  <2>1. ASSUME NEW c \in Calls, call'[c].pc \in InTick PROVE running'[call'[c].host]
    <3>1. call'[c] = call[c] /\ Host(c) # i /\ Host(c) \in Instances /\ running[Host(c)]
      BY <1>0, <1>4, <2>1 DEF InTick, BaseInv, TickInv, HeldInv, Host
    <3>. QED BY <1>0, <3>1 DEF Crash, CallTypes, Host
  <2>. QED BY <2>1 DEF HeldInv, Host
<1>. QED BY <1>1, <1>2, <1>5, <1>6, TypesSplit DEF BaseInv, RestTypes, CallTypes, HeldInv, TypeOK, Host

LEMMA BaseNext == ASSUME ScanningConstantsOK, BaseInv, [Next]_vars PROVE BaseInv'
<1>1. CASE ChainGrows \/ UNCHANGED vars
  <2>1. UNCHANGED <<kv, runtime, call, clock, faults, shown>> /\ zone' \subseteq Pools /\ factory' \subseteq Pools
    BY <1>1 DEF ChainGrows, vars, kv, runtime, shown, BaseInv, TypeOK
  <2>. QED BY <2>1 DEF BaseInv, TypeOK, TickInv, Working, Host, kv, runtime, shown
<1>. QED BY <1>1, OutsideOK, TickOK, CrashOK DEF Next, Progress, Failure

LEMMA BaseInit == ASSUME ScanningConstantsOK, Init PROVE BaseInv
<1>1. CallTypes
  BY FreeRecord DEF Init, CallTypes
<1>2. RestTypes
  <2>1. /\ zone = {} /\ factory = {} /\ discoveredPools = {} /\ discoveredAt = FALSE
        /\ lastScan = 0 /\ lastScanAt = 0 /\ lastDecision = 0 /\ newest = 0
        /\ clock = 0 /\ faults = 0 /\ answer = [scan |-> 0, at |-> 0]
    BY DEF Init
  <2>2. poolIds \in [Instances -> SUBSET (Pools \cup Fallback)] /\ memScan \in [Instances -> Scans]
    BY ScanNumbers DEF Init
  <2>3. answer \in [scan : Scans, at : Scans] /\ faults \in 0..MaxFaults
    BY <2>1, ScanNumbers
  <2>. QED BY <2>1, <2>2, <2>3, ScanNumbers DEF RestTypes
<1>3. \A c \in Calls : call[c].pc = "out"
  BY FreeRecord DEF Init
<1>. QED BY <1>1, <1>2, <1>3, TypesSplit DEF BaseInv, HeldInv, TickInv, Working, InTick

\* Every variable keeps its type, and a tick that goes on holds rt.running alone.
THEOREM TypeCorrect == Spec => []BaseInv
<1>1. Init => BaseInv
  BY BaseInit, ScanningConstantsOK
<1>2. BaseInv /\ [Next]_vars => BaseInv'
  BY BaseNext, ScanningConstantsOK
<1>. QED BY <1>1, <1>2, PTL DEF Spec

\* The type invariant of the run.
THEOREM TypesKept == Spec => []TypeOK
<1>1. BaseInv => TypeOK
  BY DEF BaseInv
<1>. QED BY <1>1, TypeCorrect, PTL

-----------------------------------------------------------------------------
(***************************************************************************)
(* The order of the scans: the tick under way writes one no older than     *)
(* what the store has, and what a dashboard load has seen, or will be      *)
(* answered, is no newer.                                                  *)
(***************************************************************************)
TickOrder(c) ==
  /\ At(c, "putScan") => lastScan <= call[c].n /\ call[c].n <= clock
  /\ At(c, "putAt") => call[c].n = lastScan
  /\ call[c].pc \in {"decide", "putDecision"} => call[c].n <= lastScanAt

LoadOrder(c) ==
  /\ call[c].since <= newest
  /\ At(c, "readAt") => call[c].since <= call[c].n /\ call[c].n <= lastScan

StoreInv ==
  /\ lastDecision <= lastScanAt /\ lastScanAt <= lastScan /\ lastScan <= clock
  /\ newest <= lastScan
  /\ \A c \in Calls : TickOrder(c) /\ LoadOrder(c)

LEMMA Numbers ==
  ASSUME ScanningConstantsOK, BaseInv
  PROVE  /\ lastScan \in Nat /\ lastScanAt \in Nat /\ lastDecision \in Nat /\ newest \in Nat
         /\ clock \in Nat
         /\ \A c \in Calls : call[c].n \in Nat /\ call[c].since \in Nat
         /\ \A i \in Instances : memScan[i] \in Nat
<1>1. RestTypes /\ CallTypes
  BY TypesSplit DEF BaseInv
<1>2. ASSUME NEW c \in Calls PROVE call[c].n \in Nat /\ call[c].since \in Nat
  <2>1. call[c] \in CallRecords
    BY <1>1 DEF CallTypes
  <2>. QED BY <2>1, ScanNumbers DEF CallRecords
<1>. QED BY <1>1, <1>2, ScanNumbers DEF RestTypes

\* No scan is written, and no call reads one.
LEMMA StoreKept ==
  ASSUME StoreInv, UNCHANGED <<lastScan, lastScanAt, lastDecision, newest, clock>>,
         \A d \in Calls :
           \/ call'[d] = call[d]
           \/ /\ call'[d].pc \notin {"putScan", "putAt", "decide", "putDecision", "readAt"}
              /\ call'[d].since <= newest
  PROVE  StoreInv'
<1>1. ASSUME NEW d \in Calls PROVE TickOrder(d)' /\ LoadOrder(d)'
  <2>1. TickOrder(d) /\ LoadOrder(d)
    BY DEF StoreInv
  <2>2. CASE call'[d] = call[d]
    BY <2>1, <2>2 DEF TickOrder, LoadOrder, At
  <2>3. CASE /\ call'[d].pc \notin {"putScan", "putAt", "decide", "putDecision", "readAt"}
             /\ call'[d].since <= newest
    BY <2>3 DEF TickOrder, LoadOrder, At
  <2>. QED BY <2>2, <2>3
<1>. QED BY <1>1 DEF StoreInv

\* The only tick there is goes on.
LEMMA StoreMoves ==
  ASSUME ScanningConstantsOK, OneInstance, BaseInv, BaseInv', StoreInv, NEW c \in Calls, Working(c),
         \A d \in Calls : d # c => call'[d] = call[d],
         call'[c].pc \in InTick, call'[c].since = call[c].since, newest' = newest,
         lastScan <= lastScan', lastScan' <= clock',
         lastDecision' <= lastScanAt', lastScanAt' <= lastScan', TickOrder(c)'
  PROVE  StoreInv'
<1>1. /\ lastScan \in Nat /\ newest \in Nat /\ lastScan' \in Nat
      /\ \A d \in Calls : call[d].n \in Nat
  <2>1. RestTypes'
    BY TypesSplit DEF BaseInv, RestTypes, TypeOK
  <2>. QED BY <2>1, ScanNumbers, Numbers DEF RestTypes
<1>2. \A d \in Calls : d # c => ~Working(d)
  BY DEF OneInstance, BaseInv, TickInv, Working, InTick
<1>3. ASSUME NEW d \in Calls PROVE TickOrder(d)' /\ LoadOrder(d)'
  <2>1. LoadOrder(d)
    BY DEF StoreInv
  <2>2. CASE d = c
    BY <2>1, <2>2 DEF LoadOrder, At, InTick
  <2>3. CASE d # c
    <3>1. call'[d] = call[d] /\ call[d].pc \notin InTick
      BY <1>2, <2>3 DEF Working
    <3>2. TickOrder(d)'
      BY <3>1 DEF TickOrder, At, InTick
    <3>3. LoadOrder(d)'
      BY <1>1, <2>1, <3>1 DEF LoadOrder, At
    <3>. QED BY <3>2, <3>3
  <2>. QED BY <2>2, <2>3
<1>4. newest' <= lastScan'
  BY <1>1 DEF StoreInv
<1>. QED BY <1>3, <1>4 DEF StoreInv

LEMMA StoreTick ==
  ASSUME ScanningConstantsOK, OneInstance, BaseInv, BaseInv', StoreInv, NEW c \in Calls,
         Scan(c) \/ PersistScan(c) \/ Decide(c) \/ PersistDecision(c)
  PROVE  StoreInv'
<1>0. /\ call \in [Calls -> CallRecords] /\ call[c] \in CallRecords
      /\ lastScan \in Nat /\ lastScanAt \in Nat /\ lastDecision \in Nat /\ newest \in Nat
      /\ clock \in Nat /\ call[c].n \in Nat
  BY Numbers DEF BaseInv, TypeOK
<1>1. ASSUME NEW x, call' = [call EXCEPT ![c] = x]
      PROVE  call'[c] = x /\ \A d \in Calls : d # c => call'[d] = call[d]
  BY <1>0, <1>1
<1>2. /\ TickOrder(c)
      /\ lastDecision <= lastScanAt /\ lastScanAt <= lastScan /\ lastScan <= clock
  BY DEF StoreInv
<1>3. CASE Scan(c)
  <2>. DEFINE x == [call[c] EXCEPT !.pc = "putScan", !.n = clock + 1]
  <2>1. /\ call' = [call EXCEPT ![c] = x] /\ clock' = clock + 1 /\ Working(c)
        /\ UNCHANGED <<lastScan, lastScanAt, lastDecision, newest>>
    BY <1>3 DEF Scan, At, Working, InTick, kv, shown
  <2>2. x.pc = "putScan" /\ x.n = clock + 1 /\ x.since = call[c].since
    BY <1>0 DEF CallRecords
  <2>. HIDE DEF x
  <2>3. call'[c] = x /\ \A d \in Calls : d # c => call'[d] = call[d]
    BY <1>1, <2>1
  <2>4. TickOrder(c)'
    BY <1>0, <1>2, <2>1, <2>2, <2>3 DEF TickOrder, At
  <2>5. call'[c].pc \in InTick /\ lastScan <= lastScan' /\ lastScan' <= clock'
    BY <1>0, <1>2, <2>1, <2>2, <2>3 DEF InTick
  <2>. QED BY <1>2, <2>1, <2>2, <2>3, <2>4, <2>5, StoreMoves
<1>4. ASSUME NEW l \in InTick, Goto(c, l), Working(c), UNCHANGED <<clock, newest, lastDecision>>,
             lastScan <= lastScan', lastScan' <= clock, lastDecision <= lastScanAt',
             lastScanAt' <= lastScan',
             \* what is then still ahead
             l = "putAt" => call[c].n = lastScan',
             l \in {"decide", "putDecision"} => call[c].n <= lastScanAt',
             l # "putScan"
      PROVE  StoreInv'
  <2>. DEFINE x == [call[c] EXCEPT !.pc = l]
  <2>1. x.pc = l /\ x.n = call[c].n /\ x.since = call[c].since /\ call' = [call EXCEPT ![c] = x]
    BY <1>0, <1>4 DEF CallRecords, Goto
  <2>. HIDE DEF x
  <2>2. call'[c] = x /\ \A d \in Calls : d # c => call'[d] = call[d]
    BY <1>1, <2>1
  <2>3. TickOrder(c)'
    BY <1>4, <2>1, <2>2 DEF TickOrder, At
  <2>. QED BY <1>4, <2>1, <2>2, <2>3, StoreMoves
<1>5. CASE PersistScan(c)
  <2>1. UNCHANGED <<clock, newest, lastDecision>>
    BY <1>5 DEF PersistScan, shown
  <2>2. CASE At(c, "putScan")
    <3>1. /\ lastScan' = call[c].n /\ Goto(c, "putAt") /\ UNCHANGED lastScanAt
          /\ Working(c) /\ "putAt" \in InTick
      BY <1>5, <2>2 DEF PersistScan, Persist, At, Working, InTick
    <3>2. lastScan <= call[c].n /\ call[c].n <= clock
      BY <1>2, <2>2 DEF TickOrder
    <3>. QED BY <1>0, <1>2, <1>4, <2>1, <3>1, <3>2
  <2>3. CASE At(c, "putAt")
    <3>1. /\ lastScanAt' = call[c].n /\ Goto(c, "decide") /\ UNCHANGED lastScan
          /\ Working(c) /\ "decide" \in InTick
      BY <1>5, <2>3 DEF PersistScan, Persist, At, Working, InTick
    <3>2. call[c].n = lastScan
      BY <1>2, <2>3 DEF TickOrder
    <3>. QED BY <1>0, <1>2, <1>4, <2>1, <3>1, <3>2
  <2>. QED BY <1>5, <2>2, <2>3 DEF PersistScan, Persist
<1>6. CASE Decide(c)
  <2>1. /\ Goto(c, "putDecision") /\ Working(c) /\ "putDecision" \in InTick /\ At(c, "decide")
        /\ UNCHANGED <<lastScan, lastScanAt, lastDecision, clock, newest>>
    BY <1>6 DEF Decide, At, Working, InTick, kv, shown
  <2>2. call[c].n <= lastScanAt
    BY <1>2, <2>1 DEF TickOrder, At
  <2>. QED BY <1>0, <1>2, <1>4, <2>1, <2>2
<1>7. CASE PersistDecision(c)
  <2>. DEFINE x == [call[c] EXCEPT !.pc = "rest", !.n = 0]
  <2>1. /\ call' = [call EXCEPT ![c] = x] /\ Working(c) /\ lastDecision' = call[c].n
        /\ UNCHANGED <<lastScan, lastScanAt, clock, newest>> /\ At(c, "putDecision")
    BY <1>7 DEF PersistDecision, At, Working, InTick, shown
  <2>2. x.pc = "rest" /\ x.since = call[c].since
    BY <1>0 DEF CallRecords
  <2>. HIDE DEF x
  <2>3. call'[c] = x /\ \A d \in Calls : d # c => call'[d] = call[d]
    BY <1>1, <2>1
  <2>4. call[c].n <= lastScanAt /\ TickOrder(c)' /\ call'[c].pc \in InTick
    BY <1>2, <2>1, <2>2, <2>3 DEF TickOrder, At, InTick
  <2>. QED BY <1>0, <1>2, <2>1, <2>2, <2>3, <2>4, StoreMoves
<1>. QED BY <1>3, <1>5, <1>6, <1>7

\* Calls that neither write a scan nor read one: since stays, or is newest.
LEMMA StoreQuiet ==
  ASSUME ScanningConstantsOK, BaseInv, StoreInv, NEW c \in Calls,
         \/ RunAgentTick(c) \/ Load(c) \/ EnsureScanPopulated(c) \/ ReadDiscoveryCache(c)
         \/ RewardZone(c) \/ FactoryEvents(c) \/ DiscoveryFails(c) \/ EventsFail(c)
         \/ CacheDiscovery(c) \/ FallsBack(c)
         \/ PoolIdsReady(c) \/ ResolvingThrows(c) \/ ReadThrows(c)
         \/ Tick(c) \/ EndTick(c) \/ TickThrows(c)
  PROVE  StoreInv'
<1>0. call \in [Calls -> CallRecords] /\ call[c] \in CallRecords /\ newest \in Nat
      /\ call[c].since <= newest
  BY Numbers DEF BaseInv, TypeOK, StoreInv, LoadOrder
<1>1. UNCHANGED <<lastScan, lastScanAt, lastDecision, newest, clock>>
  BY DEF RunAgentTick, Load, EnsureScanPopulated, ReadDiscoveryCache, RewardZone, FactoryEvents,
     DiscoveryFails, EventsFail, CacheDiscovery, FallsBack, PoolIdsReady, ResolvingThrows, ReadThrows,
     Tick, EndTick, TickThrows, kv, shown
<1>. DEFINE Quiet == Labels \ {"putScan", "putAt", "decide", "putDecision", "readAt"}
<1>2. ASSUME NEW x, call' = [call EXCEPT ![c] = x], x.pc \in Quiet,
             x.since = 0 \/ x.since = newest \/ x.since = call[c].since
      PROVE  StoreInv'
  <2>1. call'[c] = x /\ \A d \in Calls : d # c => call'[d] = call[d]
    BY <1>0, <1>2
  <2>2. x.since <= newest
    BY <1>0, <1>2
  <2>3. \A d \in Calls :
          \/ call'[d] = call[d]
          \/ /\ call'[d].pc \notin {"putScan", "putAt", "decide", "putDecision", "readAt"}
             /\ call'[d].since <= newest
    BY <1>2, <2>1, <2>2
  <2>. QED BY <1>1, <2>3, StoreKept
<1>3. /\ {"out", "check", "enter", "ids", "idsAt", "logCached", "discover", "events", "cachePools",
          "cacheAt", "logFound", "logFailed", "readScan", "scan"} \subseteq Quiet
      /\ \A i : FirstOf(i) \in Quiet
  BY DEF Labels, Resolving, Reading, InTick, FirstOf
<1>. HIDE DEF Quiet
<1>4. ASSUME NEW l \in Quiet, Goto(c, l) PROVE StoreInv'
  <2>. DEFINE x == [call[c] EXCEPT !.pc = l]
  <2>1. x.pc = l /\ x.since = call[c].since /\ call' = [call EXCEPT ![c] = x]
    BY <1>0, <1>4 DEF CallRecords, Goto
  <2>. HIDE DEF x
  <2>. QED BY <1>2, <2>1
<1>5. ASSUME NEW l \in Quiet, NEW S, call' = [call EXCEPT ![c].pc = l, ![c].ids = S] PROVE StoreInv'
  <2>. DEFINE x == [call[c] EXCEPT !.pc = l, !.ids = S]
  <2>1. x.pc = l /\ x.since = call[c].since
    BY <1>0 DEF CallRecords
  <2>2. call' = [call EXCEPT ![c] = x]
    BY <1>5
  <2>. HIDE DEF x
  <2>. QED BY <1>2, <2>1, <2>2
<1>6. CASE RunAgentTick(c)
  <2>1. PICK i \in Instances : call' = [call EXCEPT ![c] = [Free EXCEPT !.pc = FirstOf(i), !.host = i]]
    BY <1>6 DEF RunAgentTick
  <2>. DEFINE l == FirstOf(i)  x == [Free EXCEPT !.pc = l, !.host = i]
  <2>2. l \in Quiet
    BY <1>3
  <2>. HIDE DEF l
  <2>3. x.pc = l /\ x.since = 0
    BY DEF Free
  <2>4. call' = [call EXCEPT ![c] = x]
    BY <2>1 DEF l
  <2>. HIDE DEF x
  <2>. QED BY <1>2, <2>2, <2>3, <2>4
<1>7. CASE Load(c)
  <2>1. PICK i \in Instances :
          call' = [call EXCEPT ![c] = [Free EXCEPT !.pc = "check", !.kind = "load", !.host = i,
                                                   !.since = newest]]
    BY <1>7 DEF Load
  <2>. DEFINE x == [Free EXCEPT !.pc = "check", !.kind = "load", !.host = i, !.since = newest]
  <2>2. x.pc = "check" /\ x.since = newest /\ call' = [call EXCEPT ![c] = x] /\ "check" \in Quiet
    BY <1>3, <2>1 DEF Free
  <2>. HIDE DEF x
  <2>. QED BY <1>2, <2>2
<1>8. CASE EnsureScanPopulated(c) \/ CacheDiscovery(c) \/ FallsBack(c) \/ PoolIdsReady(c)
  <2>1. \E l \in Quiet : Goto(c, l)
    BY <1>3, <1>8 DEF EnsureScanPopulated, CacheDiscovery, FallsBack, PoolIdsReady
  <2>. QED BY <1>4, <2>1
<1>9. CASE ReadDiscoveryCache(c)
  <2>1. \/ call' = [call EXCEPT ![c].pc = "idsAt", ![c].ids = discoveredPools]
        \/ \E l \in Quiet : Goto(c, l)
    BY <1>3, <1>9 DEF ReadDiscoveryCache
  <2>. QED BY <1>3, <1>4, <1>5, <2>1
<1>10. CASE RewardZone(c) \/ FactoryEvents(c) \/ DiscoveryFails(c) \/ EventsFail(c)
  <2>1. CASE RewardZone(c)
    BY <1>3, <1>5, <2>1 DEF RewardZone
  <2>2. ASSUME NEW S, Discovered(c, S) PROVE StoreInv'
    BY <1>3, <1>5, <2>2 DEF Discovered
  <2>3. CASE FactoryEvents(c)
    <3>1. ASSUME NEW S, call' = [call EXCEPT ![c].ids = S] PROVE StoreInv'
      <4>1. call' = [call EXCEPT ![c].pc = "events", ![c].ids = S]
        BY <1>0, <2>3, <3>1 DEF FactoryEvents, At, CallRecords
      <4>. QED BY <1>3, <1>5, <4>1
    <3>. QED BY <2>2, <2>3, <3>1 DEF FactoryEvents
  <2>. QED BY <1>10, <2>1, <2>2, <2>3 DEF DiscoveryFails, EventsFail
<1>11. ASSUME GoOn(c) PROVE StoreInv'
  <2>1. PICK x \in CallRecords : /\ call' = [call EXCEPT ![c] = x]
                                 /\ x.pc \in {"out", "readScan"}
                                 /\ x.since = 0 \/ x.since = call[c].since
    BY <1>11, GoOnEffect
  <2>. QED BY <1>2, <1>3, <2>1
<1>12. CASE ResolvingThrows(c) \/ EndTick(c) \/ TickThrows(c)
  BY <1>11, <1>12 DEF ResolvingThrows, EndTick, TickThrows
<1>13. CASE Tick(c)
  <2>1. GoOn(c) \/ call' = [call EXCEPT ![c] = [call[c] EXCEPT !.pc = "scan", !.ids = {}]]
    BY <1>13 DEF Tick, Enter, Begin
  <2>2. CASE call' = [call EXCEPT ![c] = [call[c] EXCEPT !.pc = "scan", !.ids = {}]]
    BY <1>3, <1>5, <2>2
  <2>. QED BY <1>11, <2>1, <2>2
<1>14. CASE ReadThrows(c)
  BY <1>2, <1>3, <1>14, FreeRecord DEF ReadThrows, Done
<1>. QED BY <1>6, <1>7, <1>8, <1>9, <1>10, <1>12, <1>13, <1>14

LEMMA StoreRead ==
  ASSUME ScanningConstantsOK, BaseInv, StoreInv, NEW c \in Calls, ReadSnapshot(c) \/ GetLastScan(c)
  PROVE  StoreInv'
<1>0. /\ call \in [Calls -> CallRecords] /\ call[c] \in CallRecords
      /\ lastScan \in Nat /\ newest \in Nat
      /\ \A d \in Calls : call[d].n \in Nat /\ call[d].since \in Nat
  BY Numbers DEF BaseInv, TypeOK
<1>1. UNCHANGED <<lastScan, lastScanAt, lastDecision, clock>>
  BY DEF ReadSnapshot, GetLastScan, kv
<1>3. /\ newest <= newest' /\ newest' <= lastScan /\ newest' \in Nat
      /\ call'[c].pc \in {"out", "readAt"} /\ call'[c].since <= newest
      /\ call'[c].pc = "readAt" => call'[c].since <= call'[c].n /\ call'[c].n <= lastScan
      /\ \A d \in Calls : d # c => call'[d] = call[d]
  <2>1. TickOrder(c) /\ LoadOrder(c) /\ newest <= lastScan
    BY DEF StoreInv
  <2>2. CASE ReadSnapshot(c)
    <3>. DEFINE y == [call[c] EXCEPT !.pc = "readAt", !.n = lastScan]
    <3>1. call' = [call EXCEPT ![c] = y] /\ newest' = newest
      BY <2>2 DEF ReadSnapshot, shown
    <3>2. y.pc = "readAt" /\ y.n = lastScan /\ y.since = call[c].since
      BY <1>0 DEF CallRecords
    <3>. HIDE DEF y
    <3>3. call'[c] = y /\ \A d \in Calls : d # c => call'[d] = call[d]
      BY <1>0, <3>1
    <3>. QED BY <1>0, <2>1, <3>1, <3>2, <3>3 DEF LoadOrder
  <2>3. CASE GetLastScan(c)
    <3>1. /\ call'[c] = Free /\ \A d \in Calls : d # c => call'[d] = call[d]
          /\ newest' = IF newest < call[c].n THEN call[c].n ELSE newest
          /\ call[c].n <= lastScan
      BY <1>0, <2>1, <2>3 DEF GetLastScan, Done, LoadOrder, At
    <3>. QED BY <1>0, <2>1, <3>1, FreeRecord
  <2>. QED BY <2>2, <2>3
<1>4. ASSUME NEW d \in Calls PROVE TickOrder(d)' /\ LoadOrder(d)'
  <2>1. TickOrder(d) /\ LoadOrder(d)
    BY DEF StoreInv
  <2>2. CASE d = c
    <3>1. call'[c].since <= newest'
      <4>1. call'[c].since \in {0, call[c].since}
        BY <1>0, FreeRecord DEF ReadSnapshot, GetLastScan, Done, CallRecords
      <4>. QED BY <1>0, <1>3, <4>1
    <3>. QED BY <1>1, <1>3, <2>2, <3>1 DEF TickOrder, LoadOrder, At
  <2>3. CASE d # c
    BY <1>0, <1>1, <1>3, <2>1, <2>3 DEF TickOrder, LoadOrder, At
  <2>. QED BY <2>2, <2>3
<1>. QED BY <1>1, <1>3, <1>4 DEF StoreInv

LEMMA StoreNext ==
  ASSUME ScanningConstantsOK, OneInstance, BaseInv, BaseInv', StoreInv, [Next]_vars
  PROVE  StoreInv'
<1>1. CASE ChainGrows \/ UNCHANGED vars
  BY <1>1, StoreKept DEF ChainGrows, vars, kv, shown
<1>2. CASE \E i \in Instances : Crash(i)
  <2>1. PICK i \in Instances : Crash(i)
    BY <1>2
  <2>2. \A d \in Calls : call'[d] = call[d] \/ call'[d] = Free
    BY <2>1 DEF Crash
  <2>3. Free.pc = "out" /\ Free.since <= newest
    BY FreeRecord, Numbers
  <2>. QED BY <2>1, <2>2, <2>3, StoreKept DEF Crash, kv, shown
<1>. QED BY <1>1, <1>2, StoreTick, StoreQuiet, StoreRead DEF Next, Progress, Failure

LEMMA StoreInvariant == ASSUME OneInstance PROVE Spec => [](BaseInv /\ StoreInv)
<1>1. Init => BaseInv /\ StoreInv
  <2>1. ASSUME Init PROVE StoreInv
    <3>1. \A c \in Calls : call[c].pc = "out" /\ call[c].since = 0
      BY <2>1, FreeRecord, ScanningConstantsOK DEF Init
    <3>. QED BY <2>1, <3>1 DEF Init, StoreInv, TickOrder, LoadOrder, At
  <2>. QED BY <2>1, BaseInit, ScanningConstantsOK
<1>2. BaseInv /\ StoreInv /\ [Next]_vars => (BaseInv /\ StoreInv)'
  BY BaseNext, StoreNext, ScanningConstantsOK, OneInstance
<1>. QED BY <1>1, <1>2, PTL DEF Spec

\* The store never claims more than it has.
THEOREM StoreAlwaysOrdered == ASSUME OneInstance PROVE Spec => []StoreOrdered
<1>1. StoreInv => StoreOrdered
  BY DEF StoreInv, StoreOrdered
<1>. QED BY <1>1, StoreInvariant, OneInstance, PTL

\* No dashboard is answered with an older scan than one before it was.
THEOREM AnswersNeverGoBack == ASSUME OneInstance PROVE Spec => AnswersMonotone
<1>1. ASSUME BaseInv, StoreInv, [Next]_vars, NEW c \in Calls, At(c, "readAt"), call'[c].pc = "out",
             answer' # answer
      PROVE  answer'.scan >= call[c].since
  <2>1. PICK d \in Calls : GetLastScan(d)
    BY <1>1 DEF Next, Progress, Failure, RunAgentTick, Load, EnsureScanPopulated,
       ReadDiscoveryCache, RewardZone, FactoryEvents, EventsFail, CacheDiscovery, PoolIdsReady, Tick, Scan, PersistScan,
       Decide, PersistDecision, EndTick, ReadSnapshot, DiscoveryFails, FallsBack, TickThrows,
       ResolvingThrows, ReadThrows, Crash, ChainGrows, vars, shown
  <2>2. d = c
    <3>1. d # c => call'[c] = call[c]
      BY <1>1, <2>1 DEF GetLastScan, Done, BaseInv, TypeOK
    <3>. QED BY <1>1, <3>1 DEF At
  <2>3. answer'.scan = Shown(c)
    BY <2>1, <2>2 DEF GetLastScan
  <2>4. call[c].since <= call[c].n /\ Host(c) \in Instances
    BY <1>1 DEF StoreInv, LoadOrder, At, BaseInv, TickInv
  <2>5. call[c].n \in Nat /\ call[c].since \in Nat /\ memScan[Host(c)] \in Nat
    BY <1>1, <2>4, Numbers, ScanningConstantsOK
  <2>. QED BY <2>3, <2>4, <2>5 DEF Shown
<1>2. BaseInv /\ StoreInv /\ [Next]_vars
      => [\A c \in Calls : At(c, "readAt") /\ call'[c].pc = "out" /\ answer' # answer
                             => answer'.scan >= call[c].since]_vars
  BY <1>1
<1>. QED BY <1>2, StoreInvariant, OneInstance, PTL DEF Spec, AnswersMonotone
=============================================================================
