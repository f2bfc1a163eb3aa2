------------------------------ MODULE LoadDriver ------------------------------
(***************************************************************************)
(* The load-test driver (scripts/loadtest: run.ts, driver.ts, steps.ts,    *)
(* manifest.ts): driver processes that walk a plan, one event at a time,   *)
(* against a run directory they share, and that are killed and started     *)
(* again.                                                                  *)
(*                                                                         *)
(* The run directory holds driver.lock, run.json and events.jsonl, the log *)
(* of step records (checkpoints) and final records from which a resumed    *)
(* driver derives what is left to do.  File calls are synchronous: a       *)
(* process is interleaved with other processes between two of them, but a  *)
(* kill may come in the middle of one (Kill, KillInTrim).                  *)
(*                                                                         *)
(* An event is its position in the plan.  Times, hashes and amounts are    *)
(* left out; a refused connection (the server is down) is waited out and   *)
(* changes nothing.                                                        *)
(***************************************************************************)
EXTENDS SequencesExt

CONSTANTS
  Plan,      \* sequence of [kind |-> a kind of Kinds, wallet |-> a wallet]
  Drivers,   \* process ids
  NoDriver,  \* no driver.lock
  EmptyLock, \* driver.lock is there and empty
  Attempts,  \* ctx.retry.attempts
  MaxFaults, \* bound: errors, lost answers and kills together
  Hazards    \* which of HazardKinds may happen

HazardKinds == {"error",  \* a call fails without effect, for now or for good
                "lost",   \* a reset or a timeout: the server may still do it
                "kill",   \* a driver is killed
                "torn",   \* a kill comes in the middle of a file call
                "flags"}  \* the operator passes --new when not meant, or not

\* The sub-steps of each kind of event.
Script == [onboard    |-> <<"friendbot", "deploy", "authorize", "fund", "register">>,
           faucet     |-> <<"mint-sa">>,
           transfer   |-> <<"trustline", "mint-g", "transfer">>,
           unregister |-> <<"unregister">>,
           tick       |-> <<"tick">>,
           snapshot   |-> <<>>]
Kinds  == DOMAIN Script
Steps  == UNION {Range(Script[k]) : k \in Kinds}
Events == DOMAIN Plan
ScriptOf(e) == Script[Plan[e].kind]
Jobs   == {j \in Events \X Steps : j[2] \in Range(ScriptOf(j[1]))}

\* Steps without a checkpoint of their own: the final record is theirs.
Unmarked == {"unregister", "tick"}

\* Steps whose checkpoint holds the hash of a transaction.
Hashed == Steps \ (Unmarked \cup {"friendbot", "register"})

\* buildPlan gives every wallet one onboard event.
ASSUME PlanOK ==
  /\ Plan \in Seq([kind : Kinds, wallet : Nat])
  /\ \A e, x \in Events :
       Plan[e].kind = "onboard" /\ Plan[e] = Plan[x] => e = x
  /\ NoDriver \notin Drivers /\ EmptyLock \notin Drivers /\ EmptyLock # NoDriver
  /\ Attempts \in Nat \ {0}
  /\ MaxFaults \in Nat
  /\ Hazards \subseteq HazardKinds

VARIABLES
  lock,      \* driver.lock
  meta,      \* run.json: "none", "half" of it or "whole"
  log,       \* events.jsonl, the complete lines
  torn,      \* events.jsonl ends with half a line
  pc, seen, finished, pos, rest, acct, tx, failures,  \* locals of each driver
  orphans,   \* requests in the server that no driver waits for, per job
  effects,   \* how often the server did each job; each time is a transaction
  accounts,  \* smart accounts deployed so far; an account is its number
  asked,     \* history: <<job, account>> of the requests sent (for a wallet: since
             \* the record of its deploy was last lost)
  unknown,   \* history: per job, the requests whose outcome no driver recorded and
             \* the losses of its record
  faults     \* history: how many of the faults below happened

files == <<lock, meta, log, torn>>
locals == <<pc, seen, finished, pos, rest, acct, tx, failures>>
server == <<orphans, effects, accounts>>
history == <<asked, unknown, faults>>
vars == <<lock, meta, log, torn, pc, seen, finished, pos, rest, acct, tx, failures,
          orphans, effects, accounts, asked, unknown, faults>>

\* A line that is not JSON: two lines glued together.
Bad == [ev |-> 0, step |-> "bad", status |-> "bad", acct |-> 0, tx |-> 0]
Statuses == {"ok", "failed", "skipped"}
StepRecords  == [ev : Events, step : Steps, status : {"ok"}, acct : Nat, tx : Nat]
EventRecords == [ev : Events, step : {"final"}, status : Statuses, acct : Nat, tx : {0}]
Lines == StepRecords \cup EventRecords \cup {Bad}

Opening == {"open", "trim", "checkLock", "writeLock"}
Running == {"mode", "plan", "walk", "begin", "send", "call", "checkpoint", "ok", "failed", "skipped"}
Alive(d) == pc[d] # "out"

TypeOK ==
  /\ lock \in Drivers \cup {NoDriver, EmptyLock}
  /\ meta \in {"none", "half", "whole"} /\ torn \in BOOLEAN
  /\ log \in Seq(Lines)
  /\ pc \in [Drivers -> Opening \cup Running \cup {"out"}]
  /\ seen \in [Drivers -> Seq(Lines)]
  /\ finished \in [Drivers -> SUBSET Events]
  /\ pos \in [Drivers -> Events \cup {0}]
  /\ rest \in [Drivers -> SUBSET (1..5)]
  /\ acct \in [Drivers -> 0..accounts] /\ tx \in [Drivers -> Nat]
  /\ failures \in [Drivers -> 0..Attempts - 1]
  /\ orphans \in [Jobs -> Nat] /\ effects \in [Jobs -> Nat] /\ unknown \in [Jobs -> Nat]
  /\ accounts \in Nat
  /\ asked \subseteq Jobs \X Nat
  /\ faults \in 0..MaxFaults

Init ==
  /\ lock = NoDriver /\ meta = "none" /\ log = <<>> /\ torn = FALSE
  /\ pc = [d \in Drivers |-> "out"]
  /\ seen = [d \in Drivers |-> <<>>]
  /\ finished = [d \in Drivers |-> {}]
  /\ pos = [d \in Drivers |-> 0]
  /\ rest = [d \in Drivers |-> {}]
  /\ acct = [d \in Drivers |-> 0] /\ tx = [d \in Drivers |-> 0]
  /\ failures = [d \in Drivers |-> 0]
  /\ orphans = [j \in Jobs |-> 0]
  /\ effects = [j \in Jobs |-> 0]
  /\ accounts = 0
  /\ asked = {} /\ unknown = [j \in Jobs |-> 0] /\ faults = 0

-----------------------------------------------------------------------------
(***************************************************************************)
(* What a driver reads out of the log.  files.read throws on a line that   *)
(* is not JSON.                                                            *)
(***************************************************************************)
Readable == ~torn /\ \A i \in DOMAIN log : log[i] # Bad

\* finishedEventIds: any final record, whatever its status.
Finished == {log[i].ev : i \in {i \in DOMAIN log : log[i].step = "final"}}

\* stepsFor: the last record of each step of event e.
RecordsOf(e) == {i \in DOMAIN log : log[i].ev = e /\ log[i].step # "final"}
Recorded(e)  == {log[i].step : i \in RecordsOf(e)}
NewestAccount(e) == accounts                     \* mutant: not the recorded account
DeployOf(e)  == LET I == {i \in RecordsOf(e) : log[i].step = "deploy"} IN
                IF I = {} THEN 0 ELSE log[Max(I)].acct

\* walletStates: the account of an onboarded wallet (0: never onboarded), and
\* whether its owner has a trustline.
AccountOf(w) ==
  LET I == {i \in DOMAIN log : /\ log[i].step = "final" /\ log[i].status = "ok"
                               /\ Plan[log[i].ev] = [kind |-> "onboard", wallet |-> w]}
  IN IF I = {} THEN 0 ELSE log[Max(I)].acct
HasTrustline(w) ==
  \E i \in DOMAIN log : log[i].step = "trustline" /\ Plan[log[i].ev].wallet = w

\* The steps an event still has to make, by their place in its script: those
\* without a checkpoint.
Forgotten(e) == {}                               \* mutant: no checkpoint is honoured
Done(e) == Recorded(e) \cup (IF HasTrustline(Plan[e].wallet) THEN {"trustline"} ELSE {})
StepsLeft(e) == {i \in DOMAIN ScriptOf(e) : ScriptOf(e)[i] \notin Done(e)}

-----------------------------------------------------------------------------
(***************************************************************************)
(* Starting: openRunDir, acquireLock, initMode, the finished events.       *)
(***************************************************************************)
Goto(d, l) == pc' = [pc EXCEPT ![d] = l]

Forget(d) ==
  /\ Goto(d, "out")
  /\ seen' = [seen EXCEPT ![d] = <<>>]
  /\ finished' = [finished EXCEPT ![d] = {}]
  /\ pos' = [pos EXCEPT ![d] = 0]
  /\ rest' = [rest EXCEPT ![d] = {}]
  /\ acct' = [acct EXCEPT ![d] = 0]
  /\ tx' = [tx EXCEPT ![d] = 0]
  /\ failures' = [failures EXCEPT ![d] = 0]

\* The process ends by itself; its exit handler drops a lock that is its own.
Exit(d) ==
  /\ lock' = IF lock = d THEN NoDriver ELSE lock
  /\ Forget(d)
  /\ UNCHANGED <<meta, log, torn>>

\* Assumed of the operator: not two at once, for acquireLock looks at the lock
\* and writes it in two calls.
Start(d) ==
  /\ pc[d] = "out"
  /\ \A x \in Drivers : pc[x] \notin Opening
  /\ Goto(d, "open")
  /\ UNCHANGED <<files, seen, finished, pos, rest, acct, tx, failures, server, history>>

\* openRunDir reads events.jsonl; half a line at its end has to go.
Open(d) ==
  /\ pc[d] = "open"
  /\ seen' = [seen EXCEPT ![d] = IF torn THEN log ELSE <<>>]
  /\ Goto(d, IF torn THEN "trim" ELSE "checkLock")
  /\ UNCHANGED <<files, finished, pos, rest, acct, tx, failures, server, history>>

\* What it writes back: the text up to and with the last newline.
CutOneMore(text) ==                              \* mutant: up to the newline before
  SubSeq(text, 1, Max({Len(text), 1}) - 1)
Cut(text) == text

Trim(d) ==
  /\ pc[d] = "trim"
  /\ log' = Cut(seen[d])
  /\ torn' = FALSE
  /\ seen' = [seen EXCEPT ![d] = <<>>]
  /\ Goto(d, "checkLock")
  /\ UNCHANGED <<lock, meta, finished, pos, rest, acct, tx, failures, server, history>>

\* acquireLock: free, or its holder is dead.  An empty file is read as process 0,
\* which a signal always finds alive.
AnyLock(d) == TRUE                               \* mutant: the holder is not looked at
NoTakeover(d) == lock \in {NoDriver, d}          \* mutant: a stale lock stays
MayLock(d) == lock \in {NoDriver, d} \/ (lock \in Drivers /\ ~Alive(lock))

CheckLock(d) ==
  /\ pc[d] = "checkLock"
  /\ IF MayLock(d)
     THEN /\ Goto(d, "writeLock")
          /\ UNCHANGED <<seen, finished, pos, rest, acct, tx, failures>>
     ELSE Forget(d)     \* throws before the exit handler is installed
  /\ UNCHANGED <<files, server, history>>

WriteLock(d) ==
  /\ pc[d] = "writeLock"
  /\ lock' = d
  /\ Goto(d, "mode")
  /\ UNCHANGED <<meta, log, torn, seen, finished, pos, rest, acct, tx, failures, server, history>>

\* One more thing goes wrong (bounded for the checks).
Fault == faults < MaxFaults /\ faults' = faults + 1

\* initMode: --new exactly when there is no run.json, which is then written
\* last of the three files.
HasMeta == meta = "whole"
Mode(d) ==
  /\ pc[d] = "mode" /\ meta # "half"
  /\ \E new \in BOOLEAN :
       /\ \/ new = ~HasMeta /\ UNCHANGED faults
          \/ new = HasMeta /\ "flags" \in Hazards /\ Fault
       /\ IF new = HasMeta
          THEN Exit(d)
          ELSE /\ meta' = "whole"
               /\ Goto(d, "plan")
               /\ UNCHANGED <<lock, log, torn, seen, finished, pos, rest, acct, tx, failures>>
  /\ UNCHANGED <<server, asked, unknown>>

\* Half a run.json is not JSON: reading it throws.
BadMeta(d) ==
  /\ pc[d] = "mode" /\ meta = "half"
  /\ Exit(d)
  /\ UNCHANGED <<server, history>>

\* In between main asks the server for its agent and writes a row the server
\* must show: no answer, another agent, another database or registered users
\* in a new run end it.  After it the wallets must be those of the seed, and the
\* network must name the asset.
ProbeFails(d) ==
  /\ pc[d] \in {"mode", "plan"}
  /\ "error" \in Hazards /\ Fault
  /\ Exit(d)
  /\ UNCHANGED <<server, asked, unknown>>

ReadPlan(d) ==
  /\ pc[d] = "plan"
  /\ IF Readable
     THEN /\ finished' = [finished EXCEPT ![d] = Finished]
          /\ Goto(d, "walk")
          /\ UNCHANGED <<files, seen, pos, rest, acct, tx, failures>>
     ELSE Exit(d)
  /\ UNCHANGED <<server, history>>

-----------------------------------------------------------------------------
(***************************************************************************)
(* The walk: runPlan and runEvent.                                         *)
(***************************************************************************)
\* The next event that is not finished; after the last the driver exits.
Ahead(d) == {e \in Events : e > pos[d]} \ finished[d]

Walk(d) ==
  /\ pc[d] = "walk"
  /\ IF Ahead(d) = {}
     THEN Exit(d)
     ELSE /\ pos' = [pos EXCEPT ![d] = Min(Ahead(d))]
          /\ Goto(d, "begin")
          /\ UNCHANGED <<files, seen, finished, rest, acct, tx, failures>>
  /\ UNCHANGED <<server, history>>

\* dispatch: what is done already, and for which account.  An event on a wallet
\* that never onboarded is skipped; a log that cannot be read fails it.
Begin(d) ==
  LET e == pos[d]  w == Plan[e].wallet IN
  /\ pc[d] = "begin"
  /\ CASE Plan[e].kind = "tick" ->
            /\ rest' = [rest EXCEPT ![d] = DOMAIN ScriptOf(e)]
            /\ Goto(d, "send") /\ UNCHANGED acct
       [] Plan[e].kind = "snapshot" -> Goto(d, "ok") /\ UNCHANGED <<rest, acct>>
       [] OTHER ->
            LET a == IF Plan[e].kind = "onboard" THEN DeployOf(e) ELSE AccountOf(w) IN
            IF ~Readable THEN Goto(d, "failed") /\ UNCHANGED <<rest, acct>>
            ELSE IF Plan[e].kind # "onboard" /\ a = 0
            THEN Goto(d, "skipped") /\ UNCHANGED <<rest, acct>>
            ELSE /\ acct' = [acct EXCEPT ![d] = a]
                 /\ rest' = [rest EXCEPT ![d] = StepsLeft(e)]
                 /\ Goto(d, IF StepsLeft(e) = {} THEN "ok" ELSE "send")
  /\ UNCHANGED <<files, seen, finished, pos, tx, failures, server, history>>

\* The step under way is the first of those left.
Job(d) == <<pos[d], ScriptOf(pos[d])[Min(rest[d])]>>

\* One attempt of withRetry: the request reaches the server, ...
Send(d) ==
  /\ pc[d] = "send"
  /\ asked' = asked \cup {<<Job(d), acct[d]>>}
  /\ Goto(d, "call")
  /\ UNCHANGED <<files, seen, finished, pos, rest, acct, tx, failures, server, unknown, faults>>

\* friendbot and trustline are between the driver and the network, and are
\* asked for only if the account, or its trustline, is not there.
SameWallet(e) == {x \in Events : Plan[x].wallet = Plan[e].wallet}
Funded(e) == \E x \in SameWallet(e) :
               <<x, "friendbot">> \in Jobs /\ effects[<<x, "friendbot">>] > 0
Trusts(e) == \E x \in SameWallet(e) :
               <<x, "trustline">> \in Jobs /\ effects[<<x, "trustline">>] > 0
AlreadyThere(j) == \/ j[2] = "friendbot" /\ Funded(j[1])
                   \/ j[2] = "trustline" /\ Trusts(j[1])

\* The server (external) does job j; every deploy makes another account.
DoJob(j) ==
  /\ effects' = [effects EXCEPT ![j] = @ + 1]
  /\ accounts' = IF j[2] = "deploy" THEN accounts + 1 ELSE accounts

NextStep(d) ==
  /\ rest' = [rest EXCEPT ![d] = @ \ {Min(@)}]
  /\ Goto(d, IF rest[d] = {Min(rest[d])} THEN "ok" ELSE "send")

\* ... it does the job and the answer arrives, ...
Answer(d) ==
  /\ pc[d] = "call"
  /\ IF AlreadyThere(Job(d)) THEN UNCHANGED <<effects, accounts>> ELSE DoJob(Job(d))
  /\ acct' = [acct EXCEPT ![d] = IF Job(d)[2] = "deploy" THEN accounts' ELSE @]
  /\ tx' = [tx EXCEPT ![d] = IF Job(d)[2] \in Hashed /\ ~AlreadyThere(Job(d))
                             THEN effects'[Job(d)] ELSE 0]
  /\ failures' = [failures EXCEPT ![d] = 0]
  /\ IF Job(d)[2] \in Unmarked THEN NextStep(d) ELSE Goto(d, "checkpoint") /\ UNCHANGED rest
  /\ UNCHANGED <<files, seen, finished, pos, orphans, history>>

\* The attempt counts as a failure, and is the last one or not.
OneMoreTry(d) ==                                 \* mutant: off by one
  IF failures[d] < Attempts
  THEN /\ failures' = [failures EXCEPT ![d] = @ + 1]
       /\ Goto(d, "send")
  ELSE /\ failures' = [failures EXCEPT ![d] = 0]
       /\ Goto(d, "failed")
Swallow(d) ==                                    \* mutant: the last error is ignored
  IF failures[d] + 1 < Attempts
  THEN /\ failures' = [failures EXCEPT ![d] = @ + 1]
       /\ Goto(d, "send")
  ELSE /\ failures' = [failures EXCEPT ![d] = 0]
       /\ Goto(d, IF Job(d)[2] \in Unmarked THEN "ok" ELSE "checkpoint")
Retry(d) ==
  IF failures[d] + 1 < Attempts
  THEN /\ failures' = [failures EXCEPT ![d] = @ + 1]
       /\ Goto(d, "send")
  ELSE /\ failures' = [failures EXCEPT ![d] = 0]
       /\ Goto(d, "failed")

\* ... or it refuses the job, for now (5xx) ...
Refused(d) ==
  /\ pc[d] = "call"
  /\ "error" \in Hazards /\ Fault
  /\ Retry(d)
  /\ UNCHANGED <<files, seen, finished, pos, rest, acct, tx, server, asked, unknown>>

\* ... or for good (4xx), ...
RefusedForGood(d) ==
  /\ pc[d] = "call"
  /\ "error" \in Hazards /\ Fault
  /\ failures' = [failures EXCEPT ![d] = 0]
  /\ Goto(d, "failed")
  /\ UNCHANGED <<files, seen, finished, pos, rest, acct, tx, server, asked, unknown>>

\* ... or the answer never arrives: a reset, a timeout, an error answered after
\* the work was done.  The server may still be at it.
Abandon(j) ==
  /\ orphans' = [orphans EXCEPT ![j] = @ + 1]
  /\ unknown' = [unknown EXCEPT ![j] = @ + 1]

Lost(d) ==
  /\ pc[d] = "call"
  /\ "lost" \in Hazards /\ Fault
  /\ Abandon(Job(d))
  /\ Retry(d)
  /\ UNCHANGED <<files, seen, finished, pos, rest, acct, tx, effects, accounts, asked>>

Finish(j) ==
  /\ orphans[j] > 0
  /\ orphans' = [orphans EXCEPT ![j] = @ - 1]
  /\ \/ ~(j[2] = "friendbot" /\ AlreadyThere(j)) /\ DoJob(j)
     \/ UNCHANGED <<effects, accounts>>
  /\ UNCHANGED <<files, locals, history>>

\* files.append: half a line before it spoils both.
AppendLine(rec) ==
  /\ log' = Append(log, IF torn THEN Bad ELSE rec)
  /\ torn' = FALSE

Checkpoint(d) ==
  /\ pc[d] = "checkpoint"
  /\ AppendLine([ev |-> pos[d], step |-> Job(d)[2], status |-> "ok",
                 acct |-> acct[d], tx |-> tx[d]])
  /\ tx' = [tx EXCEPT ![d] = 0]
  /\ NextStep(d)
  /\ UNCHANGED <<lock, meta, seen, finished, pos, acct, failures, server, history>>

\* The final record of the event, with the status it came to.
Conclude(d) ==
  /\ pc[d] \in Statuses
  /\ AppendLine([ev |-> pos[d], step |-> "final", status |-> pc[d],
                 acct |-> acct[d], tx |-> 0])
  /\ rest' = [rest EXCEPT ![d] = {}]
  /\ acct' = [acct EXCEPT ![d] = 0]
  /\ Goto(d, "walk")
  /\ UNCHANGED <<lock, meta, seen, finished, pos, tx, failures, server, history>>

(***************************************************************************)
(* kill -9, or a signal that runs no exit handler: the lock stays.  A kill *)
(* in the middle of a file call leaves what was written so far, and a file *)
(* that is written anew is emptied first: half a line of events.jsonl, an  *)
(* empty driver.lock, half a run.json.                                     *)
(***************************************************************************)
Midway(d, places) == "torn" \in Hazards /\ pc[d] \in places

Kill(d) ==
  /\ "kill" \in Hazards /\ Fault
  /\ Alive(d)
  /\ Forget(d)
  /\ torn' \in {torn, torn \/ Midway(d, Statuses \cup {"checkpoint"})}
  /\ lock' \in {lock, IF Midway(d, {"writeLock"}) THEN EmptyLock ELSE lock}
  /\ meta' \in {meta, IF Midway(d, {"mode"}) /\ meta = "none" THEN "half" ELSE meta}
  /\ IF pc[d] = "call" THEN Abandon(Job(d))
     ELSE /\ UNCHANGED orphans
          /\ unknown' = IF pc[d] = "checkpoint" THEN [unknown EXCEPT ![Job(d)] = @ + 1] ELSE unknown
  /\ UNCHANGED <<log, effects, accounts, asked>>

\* The same while events.jsonl is written back without its half line: the lines
\* written so far are left of it, and maybe half of the next one.
LostLines(n)   == {log[i] : i \in n + 1..Len(log)}
LostJobs(n)    == {<<l.ev, l.step>> : l \in LostLines(n)}
LostWallets(n) == {Plan[l.ev].wallet : l \in {l \in LostLines(n) : l.step = "deploy"}}

KillInTrim(d) ==
  /\ "kill" \in Hazards /\ Midway(d, {"trim"}) /\ Fault
  /\ Forget(d)
  /\ torn' \in BOOLEAN
  /\ \E n \in 0..Len(Cut(seen[d])) :
       /\ log' = SubSeq(Cut(seen[d]), 1, n)
       /\ unknown' = [j \in Jobs |-> IF j \in LostJobs(n) THEN unknown[j] + 1 ELSE unknown[j]]
       /\ asked' = {x \in asked : Plan[x[1][1]].wallet \notin LostWallets(n)}
  /\ UNCHANGED <<lock, meta, server>>

-----------------------------------------------------------------------------
DriverStep(d) ==
  \/ Open(d) \/ Trim(d) \/ CheckLock(d) \/ WriteLock(d)
  \/ Mode(d) \/ BadMeta(d) \/ ProbeFails(d) \/ ReadPlan(d)
  \/ Walk(d) \/ Begin(d) \/ Send(d)
  \/ Answer(d) \/ Refused(d) \/ RefusedForGood(d) \/ Lost(d)
  \/ Checkpoint(d) \/ Conclude(d)

Next == \/ \E d \in Drivers : Start(d) \/ DriverStep(d) \/ Kill(d) \/ KillInTrim(d)
        \/ \E j \in Jobs : Finish(j)

Spec == Init /\ [][Next]_vars

(***************************************************************************)
(* Fairness: a running driver goes on (the server comes back, its requests *)
(* are answered or time out) and the operator restarts the driver.         *)
(***************************************************************************)
Fairness == /\ \A d \in Drivers : WF_vars(DriverStep(d))
            /\ WF_vars(\E d \in Drivers : Start(d))
FairSpec == Spec /\ Fairness

-----------------------------------------------------------------------------
(***************************************************************************)
(* Properties.                                                             *)
(***************************************************************************)
\* The jobs that must not be done twice: each makes a new account, new rules or
\* new money, or sends a transaction for nothing (register writes the same row).
Once == {j \in Jobs : j[2] \notin {"register"} \cup Unmarked}

\* "One driver per run dir": kills, stale locks and restarts do not put two
\* drivers to work.
OneDriver ==
  \A d, x \in Drivers : pc[d] \in Running /\ pc[x] \in Running => d = x

\* "Each sub-step is checkpointed the moment it succeeds": what the log says was
\* done was done, whatever failed, was lost or was killed.
RecordedWasDone ==
  \A i \in DOMAIN log : log[i].step \in Steps =>
    LET j == <<log[i].ev, log[i].step>> IN effects[j] > 0 \/ AlreadyThere(j)

\* A job is done again only after a request whose outcome the driver did not
\* live to record, or after its record was lost (RecordsSurvive says when): every
\* restart and every retry skips the rest.
DuplicatesExplained ==
  \A j \in Once : effects[j] <= 1 + unknown[j]

\* All requests made for a wallet once it has an account name the same account,
\* across restarts and however many accounts lost deploys left behind, as long
\* as the record of its deploy is not lost.
OneAccountPerWallet ==
  LET Named == {x \in asked : x[1][2] \notin {"friendbot", "deploy", "tick"}} IN
  /\ \A x \in Named : x[2] > 0
  /\ \A x, y \in Named : Plan[x[1][1]].wallet = Plan[y[1][1]].wallet => x[2] = y[2]

\* Every record a driver appends and lives on from is in the log ("cut it now, or
\* the next append would glue a valid record onto it and lose both"), and no
\* complete record is ever lost from it but in one way: a driver is killed while
\* it writes the log back without its half line.  Then the newest may go, and
\* what stays is still a prefix.
RecordsSurvive ==
  [][/\ \/ IsPrefix(log, log')
        \/ \E d \in Drivers : pc[d] = "trim" /\ pc'[d] = "out" /\ IsPrefix(log', log)
     /\ \A d \in Drivers :
          pc[d] \in Statuses \cup {"checkpoint"} /\ pc'[d] \notin {pc[d], "out"} =>
            Len(log') > Len(log) /\ Last(log') # Bad]_vars

\* No driver gets past the files until the operator removes one: a kill left
\* driver.lock empty or run.json half written.
Jammed == lock = EmptyLock \/ meta = "half"

\* Kills, restarts, errors and lost answers only delay the plan: every event
\* gets its final record, unless a kill in the middle of writing driver.lock or
\* run.json left a file no driver gets past.
PlanCompletes == <>(Finished = Events \/ Jammed)

=============================================================================
