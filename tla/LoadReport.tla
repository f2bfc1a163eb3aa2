------------------------------ MODULE LoadReport ------------------------------
(***************************************************************************)
(* What summarize (scripts/loadtest/report.ts) makes of a run directory    *)
(* and of the server's activity log, at any time of a run.                 *)
(*                                                                         *)
(* A transaction is <<job, n>>: the n-th time the server did the job.  The *)
(* activity log is taken to have a row for every mint.  Amounts (one per   *)
(* step), lag, durations and the supplies of the agent are left out.       *)
(***************************************************************************)
EXTENDS LoadDriver

MintSteps == {"fund", "mint-sa", "mint-g"}

\* The mints the server logged.
ActivityMints ==
  UNION {{<<j, n>> : n \in 1..effects[j]} : j \in {j \in Jobs : j[2] \in MintSteps}}

\* collectHashes: the hashes of all records.  An event that ends well repeats
\* those of its steps; one that fails has none of its own.
HashOf(i) == <<<<log[i].ev, log[i].step>>, log[i].tx>>
EventHashes ==                                   \* mutant: those of the event records
  {HashOf(i) : i \in {i \in DOMAIN log : /\ log[i].step \in Steps
                                         /\ \E k \in DOMAIN log : /\ log[k].ev = log[i].ev
                                                                  /\ log[k].step = "final"
                                                                  /\ log[k].status = "ok"}}
CollectHashes == {HashOf(i) : i \in {i \in DOMAIN log : log[i].step \in Steps}}

\* minted adds up the step records.
Minted == {i \in DOMAIN log : log[i].step \in MintSteps}
Finals(statuses) == {i \in DOMAIN log : log[i].step = "final" /\ log[i].status \in statuses}
Onboards == {i \in DOMAIN log : Plan[log[i].ev].kind = "onboard"}
Summarize ==
  [ok            |-> Cardinality(Finals({"ok"})),
   failed        |-> Cardinality(Finals({"failed"})),
   skipped       |-> Cardinality(Finals({"skipped"})),
   onboarded     |-> Cardinality(Onboards \cap Finals({"ok"})),
   onboardFailed |-> Cardinality(Onboards \cap Finals({"failed", "skipped"})),
   minted        |-> Cardinality(Minted),
   unrecorded    |-> Cardinality(ActivityMints \ CollectHashes)]

\* "Faucet mints the server logged but the driver never recorded": the summary
\* accounts for every mint once, as minted or as unrecorded, however often the
\* driver was killed, its requests repeated and its answers lost; and for every
\* event that came to its end.
SummaryBalances ==
  LET s == Summarize IN
  Readable =>
    /\ s.minted + s.unrecorded = Cardinality(ActivityMints)
    /\ s.ok + s.failed + s.skipped = Cardinality(Finished)

===============================================================================
