# Verification of YieldSeeker in TLA+

YieldSeeker (the repository calls the product YieldPilot) is an agent on the
Stellar network that supplies its users' idle USDC to a lending pool.  It is a
Next.js application on a serverless platform with its state in MongoDB, plus a
load-test driver that walks simulated users through the real service.  This
directory holds TLA+ models of the parts where order, overlap and failure
matter, the TLC runs that check them, and TLAPS proofs of their safety
properties for every size of the system.  `PROJECT.json` lists components, runs,
mutants, the source lines of every definition, hazards, findings and theorems.

    tlc -config PerUserSafety.cfg MCPerUserTick      # one run
    tlapm PerUserTick_proofs.tla                     # the proofs of a module

## 1. Inventory

Paths are relative to the repository.  "Instance" is one process of the
platform: it holds one `Runtime` object (`src/lib/runtime.ts`) and may be killed
after 60 s (`src/app/api/tick/route.ts:7`).

| Component | State it keeps | Operations | What is hard | Correct if |
|---|---|---|---|---|
| Per-user execution (`orchestrator.ts` `runPerUserExecution`, `runtime.ts` `tick`, `wallet.ts` `submitOp`) | locals of a tick in flight; `rt.running` | read idle balance, build, send and poll a supply, read and write the position | ticks of several instances overlap; fifteen polls may end before a transaction does; kills between supply and record | positions never overstate, no supply counts twice, ticks end, idle USDC ends up supplied |
| Registry (`registry.ts`, routes `register`, `reset`) | collections `users`, `positions` | register, remove, clear, list, get/set position | each operation is several calls; ticks work from a snapshot | a position belongs to a registered wallet |
| Decision and guards (`orchestrator.ts` `runTick`, `agent.ts`) | `position` singleton, `rebalances`, `rt.lastRebalanceAt` | scan, decide, cooldown, margin, daily cap, execute, record, commit, mirror | three separate writes; state read long before it is used; refreshing ticks share the path | caps hold; moves pay and are a cooldown apart |
| Entry points (`runtime.ts`, `api/tick`, `instrumentation.ts`) | `kv` documents | `runAgentTick`, `runScanRefresh`, `ensureScanPopulated`, local loop | overlap, restart | one tick per process |
| State store (`db.ts`, `mongo.ts`) | MongoDB | single-document reads and writes, activity log | no transactions | each caller keeps its own order |
| Transactions (`wallet.ts`, `executor.ts`, `smartAccount.ts`) | agent account's sequence number | simulate, sign, send, poll | collisions, late landing | a result is reported once |
| Authorization and onboarding (`api/authorize`, `api/onboard/*`, `api/agent`) | context rules of the smart account on chain, agent keys | deploy, add rules, set limits | rule ids derived from a count read afterwards; a failing second rule | the recorded id is the rule that was added |
| Faucet (`faucet.ts`, `api/faucet`) | none | mint test USDC | polling ends early, the mint lands all the same | at most one mint per request |
| Scanner, sources and scores (`scanner.ts`, `defindex.ts`, `risk.ts`) | none | scan pools one after the other, score, choose the best | partial failures; thresholds and rounding | the first of the best eligible pools is chosen; the scores order pools and tolerances |
| Discovery and snapshot (`discovery.ts`, `runtime.ts` `ensurePoolIds`, `getLastScan`, `api/scan`) | kv documents, `rt.poolIds`, `rt.lastScan` | resolve the pool ids, refresh lazily, answer with the last scan | every pair of documents is written and read in two calls; loads, ticks and kills overlap; a cache that is never refreshed | an answer's time has a scan, answers do not go back, a scan is cached at last |
| Dashboard (`useOnboarding.ts`, `useFreighter.ts`, `PlateApp.tsx`, the views) | React state: address, row shown, steps, flags | connect, look up the status, set up an account, reset the demo | nothing is cancelled: answers come out of order, the owner changes under a set-up, a set-up and a reset overtake each other | what is registered is the owner's own; what shows as at work is; the page settles on what the server has |
| Plate (`plate/layout.ts`, `plate/declutter.ts`, `Plate.tsx`) | none | sort, place, draw the cap line, hang labels | ties, rounding, all or none over the cap, crowded labels | the line divides the pools by the cap; labels do not overlap |
| Other read routes (`api/users`, `api/position`, ...) | none | read documents | none: single documents | - |
| Load-test driver (`scripts/loadtest/{run,driver,steps,manifest}.ts`) | run directory: `driver.lock`, `run.json`, `events.jsonl` | open, lock, resume, walk events, retry, checkpoint | kills at any point, half lines, stale locks, lost answers | resumes exactly, one driver, nothing lost |
| Load-test report (`report.ts`) | none: reads run directory and activity log | add up events and mints | two incomplete sources that overlap | every mint and every finished event is counted once |
| Load-test plan, export, preflight | files | draw a plan, export, probe | none: sequential | deterministic |
| Pool deployment (`scripts/deploy-blend-pool.ts`, `deploy-lib.ts`) | `blend-pool.env`, a line per stage; the chain | deploy seven contracts that name each other, set up the reserve, fund, activate | a crash between a transaction and its line, late transactions, reruns | recorded contracts belong together; rerunning completes |
| Drawing, wording, configuration, other scripts | none | - | none | not modelled |

The components meet in three places: the database (ticks, handlers and
dashboard loads of all instances read and write the same documents), the ledger
(ticks of all instances use one agent account) and the HTTP routes (dashboard
and load-test driver call them and may not learn the outcome).  The plate draws
what the scanner read, and the report reads what the driver wrote.

## 2. Modules

| Module | Models | Used by |
|---|---|---|
| `PerUserTick` | the per-user half of a tick, the registry and the ledger below it | `MCPerUserTick`, `PerUserTick_proofs` |
| `SupplyLedger` | what recorded positions promise (abstract) | refined by `PerUserTick` |
| `PerUserTick_proofs` | theorems about `PerUserTick` | - |
| `RebalanceTick` | the deciding half of a tick | `MCRebalanceTick`, `RebalanceTick_proofs` |
| `RebalanceTick_proofs` | theorems about `RebalanceTick` | - |
| `Scoring` | a scan, the risk model and the best pool | `Plate`, `Scoring_proofs` |
| `Scoring_proofs` | theorems about `Scoring` and `Plate` | - |
| `Plate` | where the dashboard draws a scan's pools, cap and labels; extends `Scoring` | `MCScoring`, `Scoring_proofs` |
| `Scanning` | pool ids, the cached scan and what the dashboard is answered | run directly, `Scanning_proofs` |
| `Scanning_proofs` | theorems about `Scanning` | - |
| `Authorize` | onboarding: deploying, authorizing and registering a smart account | `MCAuthorize`, `Authorize_proofs` |
| `Authorize_proofs` | theorems about `Authorize` | - |
| `Dashboard` | one page: wallet, lookups, set-up wizard, reset | `MCDashboard`, `Dashboard_proofs` |
| `Dashboard_proofs` | theorems about `Dashboard` | - |
| `LoadDriver` | the load-test driver and its run directory | `LoadReport` |
| `LoadDriver_proofs` | theorems about `LoadDriver` and `LoadReport` | - |
| `LoadReport` | the report of a run directory; extends `LoadDriver` | `MCLoadDriver`, `LoadDriver_proofs` |
| `PoolDeployment` | the deployment script, its file and the chain | run directly, `PoolDeployment_proofs` |
| `PoolDeployment_proofs` | theorems about `PoolDeployment` | - |

Every module has one action per await (or per file call in the driver):
between two of them anything else may happen, within one nothing.  What a call
keeps in local variables is a function of the call; what an instance keeps is a
function of the instance; the database and the ledger are shared.  History
variables are marked and guard nothing.

**PerUserTick.** `TickEnter` is `runAgentTick` past `if (rt.running) return`;
`ListUsers` takes the snapshot of registrations; `NextUser` reads the balance of
the next one and clamps it to the per-transaction cap, or passes over it;
`BuildSupply`/`BuildFails` are `submitOp` up to the signed envelope with the
sequence number in it; `Send`, `SendRefused`, `SendThrows` the sending;
`Confirmed`, `NotFound`, `PollFails` the polling; `GetPosition` and `SetPosition`
the two calls of `orchestrator.ts:137-139`; `RecordThrows` and `Drop` the catch
of one user; `TickDone`, `TickThrows` the end; `Crash` the platform.  Handlers:
`Register`, `UnregisterFind/User/Position`, `ResetUsers/Positions`, `RequestDies`.
Ledger (external): `Land`, `LandFails`, `Expire`, in the order of sequence
numbers.  `Fund` is the faucet.  An amount is the set of supplies (their hashes)
it adds up, each of the capped size, so that lost and double counting differ; a
transaction carries the sequence number it was built for.  The iteration order
of users is any order.

**SupplyLedger.** Two variables, what landed and what is recorded, per wallet;
supplies land, and one landed supply at a time is added to the record, or never.

**RebalanceTick.** `RunAgentTick` and `RunScanRefresh` both enter `tick`;
`Scan` may find any quotes, `Decide` is `getPosition`, `decide` and the guards
without an await on shared state, `CapCheck` the daily-cap query, `ExecutorDoes`
and `ExecutorFails` the executor (a no-op that answers success in smart-account
or refreshing ticks), `RecordRebalance`, `CommitPosition`, `Acted` the three
writes, `PerUser` the loop with any total, `MirrorRead`/`MirrorWrite` the mirror.
`Throws` is a database error at any await, caught by `tick`.  `ClearPosition` is
`unregisterUser` on the singleton.  The table of rebalances is kept as what
`rebalancedSince` answers for each time.  How a score comes about is abstracted to
eligible or not; that is `Scoring`.  The wallet mode is chosen once, in `Init`.

**Scoring.** `ReadPool` and `SkipPool` are one turn of the loop in `scanSource`,
for a Blend pool or a strategy; `RiskScore` and `Eligible` are `scorePools`,
`BestPool` the `filter` and `reduce` of `bestPool` in one pass, which starts
from the `null` of no eligible pool.  Money is in whole USDC, and the rounded
floats are exact fractions rounded half up.

**Plate.** Operators on the scan so far, evaluated in every state of `Scoring`:
`Sorted`, `PlaceOf` and `CapX` are `layoutPeaks`, `Declutter` with `Place`,
`Lead` and `LabelBox` is `declutter`, `Route` the choice that `PlateApp` makes
again.  What `Array.sort` does is `InOrder`: each element goes to the place that
the number of those before it gives.  (Filters, folds and sorts are written out
like this, as recursive functions and by counting, because the provers do not
look into the library's.) Places across are exact fractions; ids compare in the
order of `Sources`.  A label hangs from the top that `topOf` finds, the highest
column of the ridge within 0.35 of the width of its summit: `TopX` is the column
it starts from, `Searched` those it looks at (with the widest summit the layout
draws, `Slope`), and `Ridges` the ridges told apart by the tops found, each so
many columns off and at such a height as one of `Crags` says, whatever the noise
of the crags is.

**Scanning.** A call is `RunAgentTick` or `Load`; `EnsureScanPopulated` looks for
`lastScanAt`; `ReadDiscoveryCache`, `RewardZone`, `FactoryEvents`,
`CacheDiscovery`, `FallsBack` and `PoolIdsReady` are `ensurePoolIds` with the
listing below it: the reward zone first, which must be readable
(`DiscoveryFails`), then the factory's events page by page, each page any part of
them, until a page is the last or fails (`EventsFail`: what was listed before
stands).  `Tick` is the guard of `tick`, `Scan`, `PersistScan`, `Decide`,
`PersistDecision` and `EndTick` its body (what follows the decision is the two
tick modules); `ReadSnapshot` and `GetLastScan` are the two reads of
`getLastScan`.  A snapshot and its timestamp are both the number of the scan.

**Authorize.** The client is `Prepare`, `Submit`, `Ask`, `TakeAnswer`/`TakeError`
and `Register`, that is `start` of `useOnboarding.ts` or `onboard` of the
load-test driver; after an error the wizard starts over with a new account
(`StartOver`), the driver asks again for the same one (`AskAgain`); `GiveUp` is
a client that goes away while its request works on.  A request is `ReadBefore`,
then twice `Build`, `Send`, `PollSuccess` and `Capture`, then `Log`; any await
may throw.  The rules of an account are a sequence whose length is
`get_context_rules_count`; what protects the ids is that all transactions use
the agent account's sequence number, so a late rule and its repetition exclude
each other.

**Dashboard.** `Connect`/`Connected`, `RestoreAddress` and `Disconnect` are
`useFreighter.ts`, and each change of the address runs the effect of
`useOnboarding.ts` in the same step (`OwnerBecomes`).  A lookup is `FetchStatus`,
`ReadStatus` (at the server), `ShowStatus` or `StatusFails`; it carries the owner
it was asked for and is never cancelled.  A set-up is `Start`, `LoadAgent`,
`Prepare`, `Serve` and `Answer` per request, `MintUsdc`, and `Fail` for the catch
at any of them, which marks the first step shown as active (`MarkError`); a reset
is `ResetDemo`, `Erase`, `Erased`. `Refresh` is the lookup that the polled feed
causes.  `Serve` writes what the route writes; how a deployment or an
authorization comes about is `Authorize`.

**LoadDriver.** `Open`/`Trim` is `openRunDir`, `CheckLock`/`WriteLock`
`acquireLock`, `Mode` `initMode` and the writing of `run.json`, `ProbeFails` the
probes of server and database, the comparison of the wallets and the reading of
the asset, each of which may end `main`, `ReadPlan` and `Walk` the loop of
`runPlan`, `Begin` `dispatch`, `Send`/`Answer`/`Refused`/`Lost`/`Retry` a call
under `withRetry`, `Checkpoint` and `Conclude` the appended records, `Kill` a
death without the exit handler. A file call is not atomic under a kill: an append
may leave half a line (`torn`), the writing of `driver.lock` an empty file
(`EmptyLock`, which `acquireLock` reads as process 0 and takes for alive), that
of `run.json` half a file (`BadMeta` throws on it).  `Trim` rewrites the whole of
`events.jsonl`, which truncates it first, so `KillInTrim` leaves any prefix of
the lines, the next one perhaps in half; the work of the lost records then counts
as work whose outcome is unknown. Friendbot and the trustline are asked for only
when they are not there (`AlreadyThere`).  The plan is a constant, with one
onboarding per wallet, as `buildPlan` draws it (`schedule.ts:63-131`); the steps
an event still has to do are a set of places in its script.  `DoJob` and `Finish`
are the server: a request whose client has gone may still be done, or not.

**LoadReport.** `Summarize` over the log and the server's mints.  A transaction
is a job and how often it was done, so that a hash recorded twice is one mint
and a mint done twice is two.

**PoolDeployment.** `Launch` starts the script and skips the stages with a line
(`GoOn`); `Call` is a transaction that lands while it is polled for, `Rejected`
one that the chain refuses, `CallFails` an error without effect, `GiveUp` a poll
that ends early, after which `LateLands` decides; `Throws` is what the stage
does with an error (the tolerated ones, the retries of `setReserve`, the
`addReward` that gives up its line); `Record` is `recordArtifact`; `Kill` may
leave a transaction on its way.  A contract is the salt it was made with.

## 3. Runs

| Run | Question | Result |
|---|---|---|
| `per_user_safety` | two instances, two ticks, every failure: is a position ever overstated, a supply counted twice, or are two ticks in one process? | holds |
| `per_user_one_instance` | with one instance, whatever fails, do the records implement `SupplyLedger`? | holds |
| `per_user_liveness` | do ticks end and is all idle USDC supplied, though two instances compete for a sequence number? | holds |
| `per_user_overlap` | is every landed supply in the record once nothing is under way? | violated: two instances interleave read and write of one position |
| `rebalance_one_instance` | daily cap, margin, cooldown and the keypair wallet's books, in either wallet mode, with failures, kills, disconnects and refreshing ticks | holds |
| `driver` | all kinds of events under errors, lost answers, kills, also inside a file call, and wrong flags: is the log true, is a record lost only to a kill inside the rewriting of the log, is a job repeated only where nobody could know, does the report count each mint once, and does the plan complete? | holds, but for files a kill left unreadable (`Jammed`) |
| `authorize_safety` | do registered rule ids name the account's rules, over errors, kills, late transactions and repeated requests? | holds |
| `authorize_overlap` | and if a request is repeated while the first goes on? | violated: a rule of the first lands before the second counts |
| `scoring` | is the best pool the first of the best, do the scores order pools and tolerances, and does the plate show it so? | holds |
| `scanning_safety` | one instance, loads and cron runs, a throw or a kill: are the stored documents in order, is an answer never older than before, is a scan cached at last? | holds |
| `dashboard` | two owners, two set-ups, a reset, lookups that fail or come late: is an account registered for its own owner and only when all is done, does the page stop looking busy, does it settle on the truth? | holds |
| `deployment` | three faults anywhere, reruns: do the recorded contracts belong together, and does the pool become active? | holds, but for two named states |

The violated ones are findings: a comment or a test of the repository says
otherwise, and `PROJECT.json` quotes it.  Every property of a passing run has a
mutant, a plausible bug written beside the definition it replaces, under which
TLC finds the property violated.

**Bounds.** `PerUserTick`: `Wallets`, `Owners`, `Hashes`, `Calls` and
`Instances` of one or two (up to four hashes); `MaxIdle` bounds balances and
`Hashes` the supplies ever built.  Two ticks with two supplies give every
interleaving of one read-modify-write with another; a second wallet or owner
adds the snapshot's order and registration over another wallet.
`RebalanceTick`: `MaxTime` bounds the clock, with a cooldown and a day of two
ticks of it, so that both expire within a run; two pools, three APYs around the
margin; `MaxTotal` and `MaxExec` bound amounts.  `LoadDriver`: two processes,
two attempts, `MaxFaults` of two, failed probes and wrong flags included (a kill
of the resumed driver after a lost answer is among them, and so is one inside the
rewriting of a log that the first left with half a line); the plan `AllKinds` has
each kind of event once, those of the wallet after its onboarding.  `Authorize`:
one client and two accounts (a request left for the first goes on beside one for
the second), three requests, so that a repeated request is itself repeated; `MaxSeq` bounds
the sequence numbers ticks use up.  `Scoring`: two pools and a strategy, readings
just on either side of each threshold.  `Plate`: a plate of 320 pixels, on which
the wider label of the route reaches its neighbours' and pools of close risk
stand over each other, with tops found at the column of the summit or six pixels to the
left (as far as a search may go on it), at one of two heights a step of the leader
apart; `RoomForLabels` (section 4) holds there.  `Scanning`: two calls at a time,
three scans (`MaxScans`), one fault (`MaxFaults`) and one pool to appear beside
the curated list, enough for a load that reads while a tick writes, another tick
writes after it, and one of them fails anywhere.  `Dashboard`: two owners, so
that the owner changes and changes back; two slots for set-ups (more than the
code admits at once), two accounts (`MaxAccounts`), two lookups in flight
(`MaxLookups`), the least that can overtake one another.  `PoolDeployment`: the
four tries of the code for `setReserve`, and three faults (`MaxFaults`): enough
for a transaction given up in one run, another in the next and a kill in the
third; there is nothing else to choose.  Symmetry is used in safety
runs only.  That no state
is a dead end is checked too, but not for `Scoring` and `Authorize`, which end: a
scan is over, a client has what it wanted or no requests left.

**Fairness.** `PerUserTick!FairSpec`: every await of a tick settles, the
network includes or drops what it accepted, and the cron calls again; nothing is
assumed of owners, handlers or failures.  The code justifies the first by
bounded polling (`wallet.ts:126-130`), the second by the transaction's time
bounds, the third by `vercel.json`.  The liveness run has no failures: with
kills for ever nothing is promised.  `LoadDriver!FairSpec`: a running driver
continues and the operator starts one when there is none; faults are bounded,
since a plan under endless kills cannot end.  `Scanning!FairSpec`: a call that
has begun goes on (the platform's own timeout is a kill), and the dashboard
keeps being loaded (`useLivingData.ts` polls); cron runs need not come.
`PoolDeployment!Spec`: a run goes on (`deploy-lib.ts` polls for 30 s and then
throws), a transaction lands or expires with its time bounds, and the operator
starts the script again, as its header asks; its faults are bounded too.

## 4. Proofs

Each theorem holds for every value of the constants that the named assumption of
the module admits (`ConstantsOK`, `RebalanceConstantsOK`, `PlanOK`, ...): any
number of owners, wallets, instances, calls, requests, drivers, pools, hashes,
amounts, times and tries, any plan, any choice of failures.  Some need a hypothesis
more, which the theorem states:

| Module | Theorem | Property | Hypothesis |
|---|---|---|---|
| `PerUserTick_proofs` | `TypesKept`, `OneTick` | `TypeOK`, `OneTickPerInstance` | - |
| | `NeverOverstated`, `NeverCreditedTwice` | `RecordedIsBacked`, `NoDoubleCredit` | - |
| | `LedgerImplemented` | `ImplementsSupplyLedger` | `OneProcess`, `NobodyLeaves` |
| `RebalanceTick_proofs` | `TypesKept` | `TypeOK` | - |
| | `MarginHolds`, `DailyCapAlwaysHolds` | `MovesPay`, `DailyCapHolds` | `OneInstance` |
| | `CooldownAlwaysHolds`, `RecordedAlwaysMoved` | `CooldownHolds`, `RecordedWasMoved` | `OneInstance` |
| `Scoring_proofs` | `TypeCorrect` | `TypeOK` | - |
| | `BolderSeesMoreAlways`, `RiskOrderedAlways` | `BolderSeesMore`, `RiskOrdered` | - |
| | `BestAlways`, `CapAlwaysDivides` | `BestIsFirstHighest`, `CapDividesPlate` | - |
| | `LabelsAlwaysClear` | `LabelsClear` | `RoomForLabels` |
| `Scanning_proofs` | `TypesKept` | `TypeOK` | - |
| | `StoreAlwaysOrdered`, `AnswersNeverGoBack` | `StoreOrdered`, `AnswersMonotone` | `OneInstance` |
| `Authorize_proofs` | `TypesKept` | `TypeOK` | - |
| | `RegisteredIdsAreRight`, `AnswersNameOwnRules` | `RegisteredIdsNameRules`, `AnswersAreOwn` | `NoOverlap` |
| `Dashboard_proofs` | `TypesKept`, `RegisteredOnesAreOwn` | `TypeOK`, `RegisteredIsOwn` | - |
| | `WorkAlwaysDone`, `ShownAlwaysTrue` | `WorkShownIsDone`, `ShownIsTrue` | - |
| `LoadDriver_proofs` | `TypesKept`, `OneDriverWorks` | `TypeOK`, `OneDriver` | - |
| | `RecordsStay`, `RecordedWork` | `RecordsSurvive`, `RecordedWasDone` | - |
| | `NothingTwice`, `OneAccountAlways` | `DuplicatesExplained`, `OneAccountPerWallet` | - |
| | `SummaryAlwaysBalances` | `SummaryBalances` | - |
| `PoolDeployment_proofs` | `TypesKept` | `TypeOK` | - |
| | `RecordedAlwaysFit` | `RecordedFitTogether` | - |

**The hypotheses.** `OneProcess` and `OneInstance` say that one process serves
every call, as when the server runs by itself with the loop of
`instrumentation.ts`: the guards `rt.running` and `rt.lastRebalanceAt` are fields
of one `Runtime`.  Where several run, the properties fail (`per_user_overlap`,
section 5); what the proofs take from the hypothesis is that one tick goes on at
a time.
`NobodyLeaves` is that no handler removes a registration: the refinement is of
positions that only grow, and a position that is removed does not.  `NoOverlap`
is that no client repeats a request that is still being worked on; without it
`authorize_overlap` is the counterexample.  The runs of these properties choose
the same: one instance, or no "overlap".
`RoomForLabels` is that the sixty steps of a leader suffice for the number of
sources, a label of which stands in the way of `(2 * LabelHeight + 7) \div Step + 1`
lengths of the leader of another at most.  For labels of 16 pixels, which
`Plate.tsx` takes where it cannot measure them, this allows nine sources; beyond
it labels may overlap (section 5).  `MCScoring` assumes it of its instance.

**Types.** `TypeOK` alone is seldom inductive.  The invariant that is,
`TypeInv` of `PerUserTick_proofs` and `BaseInv` elsewhere (theorems
`TypeCorrect`), adds what each control point may count on: a call past the poll
holds a hash, a tick has the guard of its instance to itself, a request under way
has an account with a rule, a driver has a place in the plan and a script left,
whatever is under way on the page has an owner.

**PerUserTick.** `RecordedIsBacked` speaks of documents only, and a write of one
call depends on what another call read long before; so `CreditInv` also
constrains the copies in flight.  `PositionsBacked` and `ReadsBacked` say that
documents and the copies calls hold of them add up landed supplies of their
wallet; `HeldIsOwn` that the supply a call waits for is one it sent and, past the
poll, one that landed; `HeldOnce` that no two calls hold the same supply;
`HeldNotCredited` that a supply in hand is in no document and no copy.  The last
two give `NoDoubleCredit` although nothing serialises the calls.  For the
refinement of `SupplyLedger`, `PromiseInv` adds that the copy a call holds is
still what is recorded; then every action is a step of the ledger or a stutter,
and only `Land` and `SetPosition` are steps.

**RebalanceTick.** A tick decides, passes the guards, and acts many awaits
later.  `ChoiceInv` says that what was decided is still right at the commit,
because meanwhile the position can only be cleared; `CapInv` that a tick which
passed the check leaves room in what was recorded since a day before it, that
this sum only falls for later times and that nothing is recorded for a time to
come (all three are needed: the window of the property begins anywhere);
`StampInv` that the stamp of the instance is that of the last committed move or
about to be set; `MovedInv` that a tick which only refreshes has no amount to
move in keypair mode, and that what is about to be recorded was supplied.

**Scanning.** `StoreInv` orders snapshot, time and decision with the scan that
the tick under way holds (`TickOrder`), and what a load has read with the newest
answer given before it began (`LoadOrder`).

**Authorize.** The ids are read from a count, so the invariant ties the count to
sequence numbers: no number is ahead of the ledger's next (`SeqNumbers`); nothing
else that could still land for the account carries a later number than the
transaction a request waits for (`NoneBehind`); so from its landing to the
reading, the newest rule is the one it added (`NewestIsOwn`), and an id once read
names a rule of its request alone (`CapturedNames`, `CapturedApart`).
`OneAtWork` is where `NoOverlap` enters.

**Dashboard.** `AccountInv` says of every set-up that its account is its owner's
and has the jobs before the present one, `WorkInv` that one set-up is at work,
who waits for which lookup, and which step belongs to which await.  `ShowInv` is
about the queue of lookups: one that will show something out of date has one
behind it that will not; between a change at the server and the lookup the
handler then sends, nothing is promised; what overtakes is excused.

**LoadDriver.** `LockInv` is the lock, with the gap between the look at it and
its writing (no two processes are in that gap, as `Start` assumes), `LogInv` the
half line, which no driver past the opening ever meets.  `RecordsStay` has one
exception in its statement, a kill inside the rewriting of the log; what it loses
is added to the outcomes that are unknown (`KillInTrim`), so the invariants below
hold of a shorter log too.  On these rest: `DoneInv`
(each line is true, and so is the checkpoint about to be written), `FreshInv` (a
step that a driver has still to do is not in the log), `CountInv` (a job not in
the log was done or is in flight at most as often as an outcome was lost, one in
the log once more), and `AccountInv` (the deployment in the log is the account of
every later line, request and local).

**LoadReport.** The report adds up two sources that overlap, so what is proved is
that they are one to one with what they count.  `OnceInv`: of an event and a step
there is one record at most; for a final record this takes `WalkInv`, that a
driver on its way has passed or knows of every event that has one.  `MintInv`:
the hash in a record, or about to be, is one of a mint that the server made, and
so already in its log.  Then the hashes collected are exactly the mints, and the
final records are exactly the finished events.

**PoolDeployment.** Contracts name each other, and are made in runs of which each
may die; so `DeploymentInv` says what a line and a call are worth.  `LinesInv`:
lines are written in the order of the stages, so that what a contract is told of
has its line already and never gets another.  `NameInv`: the salt a stage drew is
in no line yet, so that making or initializing its contract cannot touch a
recorded one; the pool factory and the backstop have the salt of their line.
`FitInv`: what the lines say, and that the stage's calls so far were made, is
true of the chain and of the one that a transaction given up, or left behind by a
kill, may still lead to.  `RecordedFitTogether` follows from the first and the last.

**Scoring.** They rest on the lemmas that the rounded share of utilization grows
and that of the supply falls (`UtilRiskMonotone`, `TvlRiskMonotone`), with ranges
that make the cut at 100 harmless (`RiskScoreMonotone`).  `BestFound` follows
the pass of `BestPool`: after each pool, what is held is the first of the best so
far.

**Plate.** `ScanInv` says that no two yields of a scan are of the same source; so
the order of the peaks is total (`BeforeOrders`), and sorting by a total order
puts each element in a place of its own (`InOrderSorts`).  For the cap line
(`CapBetween`) each peak stands well to the right of the one before
(`PlacesGrow`), so that halving a distance, rounded, stays between them.  For the
labels, wherever the ridge puts the tops: the lengths that one label blocks are close together (`BlocksFew`), so by
counting some length is free of all (`SomeLengthClear`), the first such is the
one taken (`LeadFound`), and each label is clear of those hung before it
(`HungClear`).

The provers have no induction over data, so where a pass over a sequence is
followed, the proof looks at the first step at which what is claimed would be
wrong (`LeastNumber`) and shows that there is none; `StepsExist` gives in the same
way that a recursive function on `0..n` has its values.

`Min` and `Max` of the community modules are defined by a choice; that the choice
exists for any set of numbers (for `Max`, any bounded one) comes from the
well-foundedness of `<` (`LeastNumber`, `GreatestNumber`).  Every inductive
invariant was checked by TLC on the instances of the runs before it was proved.

**Only model-checked.** Liveness (`TickEnds`, `EventuallySupplied`, `Populated`,
`PlanCompletes`, `CompletesOrStranded`): fairness and `ENABLED` are outside the
provers.  Every invariant and every safety property of a step that a run finds to
hold has a theorem.

## 5. Observations

Seen while modelling and not turned into runs:

- `submitOp` says it polls "to a final status" (`wallet.ts:60-61`), but gives up
  after fifteen polls on a transaction valid for 120 s.  A late supply is never
  credited; the books stay below the chain and never above (`RecordedIsBacked`).
- The loop acts on a snapshot: a wallet whose owner left meanwhile is still
  supplied for, and `setUserPosition`, an upsert, writes back the position that
  `removeUser` deleted.  Registering again with another wallet leaves the old
  wallet's position too.  Nobody reads these leftovers.
- The daily cap is check-then-act and the flag against overlap is per process:
  two instances can pass it together.  `DailyCapHolds` is therefore checked with
  one instance.
- The cooldown stamp is set after `runTick` returned (`runtime.ts:295`); a log
  insert that throws after the commit, or a restart, loses it.  `CooldownHolds`
  forgets the move in these two cases.
- In keypair mode a rebalance deposits again and withdraws nothing
  (`runtime.ts:280-281`).
- After a client timeout the driver retries while the server may still work on
  the first request (`http.ts:57-61`), so two transactions can be in flight.
- The log is cut so that no valid record is lost (`manifest.ts:58-59`), but by
  rewriting it in place: a kill between the truncation and the end of the write
  loses complete records, in the worst case all, and with them every checkpoint
  that `steps.ts:3-5` relies on.  `RecordsSurvive` says that nothing else does.
- A lock whose process is gone "is taken over" (`manifest.ts:94-95`), but not one
  that a kill left empty: `Number("")` is 0, and a signal to process 0 succeeds.
  A `run.json` that a kill left in half makes every later start throw.  In both
  cases the operator has to remove the file (`Jammed`).
- A tick is called without a client timeout (`api.ts:111`).  `LoadDriver` lets
  every request be answered or given up at last.
- `openRunDir` trims the log before it takes the lock: a second start on a log
  with half a line races with a driver that has begun to append; and
  `acquireLock` looks at the lock and writes it in two calls.  `Start` therefore
  assumes that the operator does not start two at once.
- A repeated authorization adds the pool rule a second time when the first
  request got as far as that; the ids registered are those of the last request.
- A refresh is called side-effect-free (`runtime.ts:418-419`), but its no-op
  executor reports success (`runtime.ts:281`), so on an idle deployment it commits
  the chosen pool, with amount zero, as the position.
- `steps.ts:3-5` promises "never a second deploy, authorize or mint": a kill
  between the server's work and the checkpoint repeats the step all the same.
  `DuplicatesExplained` says that nothing else does.
- With two instances a slow refresh may store its scan over a newer one, and an
  answer may pair an old snapshot with a new time or, from an instance without a
  scan, a time with no pools.  The properties of `Scanning` are therefore checked
  with one instance; even there `getLastScan` reads the snapshot first and the
  time second, so the time shown may be newer than the pools.
- `runtime.ts:368-369` says the daily cron re-discovers, but `ensurePoolIds`
  returns whatever ids are cached (`runtime.ts:375`), and `isDiscoveryCacheFresh`
  (`discovery.ts:18`) has no caller: no action of `Scanning` discovers again.
- A database error while a discovery is cached is caught with the failures of
  the discovery itself: the ids just found are dropped for the curated list.
- `tvlReader` of `createDefindexSource` is never given (`runtime.ts:115`): in
  production a strategy always shows its configured funds.
- The deployment script is "Safe to re-run after a crash"
  (`deploy-blend-pool.ts:6`), with two exceptions, `Stranded` of
  `PoolDeployment`: a crash between the pool factory or the backstop and its line
  leaves a contract whose recorded salt cannot be used again, and deposits whose
  line is missing use up the comet shares.  An edit of `blend-pool.env` helps.  A
  kill inside the append of a line is not modelled.
- A mint that lands after `faucet.ts` stopped polling (`faucet.ts:242-258`) has
  no activity row, so the report's `unrecordedMints` misses it.  `LoadReport`
  takes the log to have a row for each mint.
- A status answer for a former owner is shown all the same
  (`useOnboarding.ts:217`), and a lookup that fails shows "not registered";
  `ShownIsTrue` says that nothing else makes the page settle on a wrong row.
  After such an answer the account view may even show with nobody connected.
- The effect of the mount may override a connect or a disconnect that came while
  it waited for the extension (`useFreighter.ts:50-70`).
- A row read before a supply is recorded stays until the next one shows in the
  log; an initial load of the feed can set `lastLogTs` back, and one that fails
  makes `PlateApp.tsx:102-103` replay the history as new.
- `declutter` lifts a label at most sixty steps of six pixels; a plate with more
  labels over one another than that lets them overlap.

## 6. Not modelled, and the plan

Not modelled at all: drawing and animation (`plate/engine.ts`, the ridge),
wording, configuration parsing, `fund-usdc.ts` and `verify-peruser.ts` (no
interaction); signatures, XDR and RPC encoding (external libraries); what the
contracts do beyond what a caller can tell.  The in-memory variants of the
registry and the store serve tests only.  The polled feed of `useLivingData.ts`
appears only as the lookup it causes: each answer replaces all that is shown, so
a late one is corrected by the next poll.  A request of the wizard that failed
for the page and is served later all the same is left to `Authorize`; only a
late mint and a late registration are in `Dashboard`.  The parsing of a faucet
request, the drawing of a plan, the export and the preflight checks are
sequential.

Planned, in this order:

1. A time budget per tick: are late users starved by kills at 60 s?
2. `RebalanceTick` taking its quotes from `Scoring`.
