---------------------------- MODULE PoolDeployment ----------------------------
(***************************************************************************)
(* The script that deploys the pool of the agent                           *)
(* (scripts/deploy-blend-pool.ts on scripts/deploy-lib.ts): stages of a    *)
(* few transactions each, and after each stage a line of blend-pool.env.   *)
(* A run that throws or is killed is started again and skips the stages    *)
(* that have their line.                                                   *)
(*                                                                         *)
(* A contract is known by the salt it is made with, a number; salts are    *)
(* drawn at random, so each is a new one.  One signer sends everything,    *)
(* one run at a time, and the network holds one transaction of a signer.   *)
(*                                                                         *)
(* The seven wasm files are taken as one, and so are the two currencies of *)
(* the comet pool.  A line is written whole.                               *)
(***************************************************************************)
EXTENDS Naturals, Sequences, FiniteSetsExt, Functions

CONSTANTS
  SetReserveTries,  \* how often setReserve is tried
  MaxFaults         \* bound: calls that fail or are given up, and kills

ASSUME DeploymentConstantsOK == SetReserveTries \in Nat \ {0} /\ MaxFaults \in Nat

\* The stages of main in order; each but two has its line.
Script == <<"BLND_SAC", "WASM", "ORACLE", "prices", "COMET_FACTORY", "balances", "COMET",
            "FACTORY_SALT", "BACKSTOP_SALT", "EMITTER", "POOL_FACTORY", "BACKSTOP", "POOL",
            "RESERVE_USDC_SET", "BACKSTOP_FUNDED", "REWARD_ZONE", "POOL_ACTIVE">>
Stages == Range(Script)
Keys   == Stages \ {"prices", "balances"}

\* The calls of each stage.
Deployed == {"ORACLE", "COMET_FACTORY", "COMET", "EMITTER", "POOL_FACTORY", "BACKSTOP", "POOL"}
Salts    == {"FACTORY_SALT", "BACKSTOP_SALT"}
Calls ==
  [s \in Stages |->
     CASE s \in {"COMET_FACTORY", "EMITTER"} -> <<"create", "bump", "init">>
       [] s \in Deployed \ {"COMET_FACTORY", "EMITTER"} -> <<"create", "bump">>
       [] s \in Salts            -> <<>>
       [] s = "BLND_SAC"         -> <<"createAsset">>
       [] s = "WASM"             -> <<"install">>
       [] s = "prices"           -> <<"set_data", "set_price_stable">>
       [] s = "balances"         -> <<"mint">>
       [] s = "RESERVE_USDC_SET" -> <<"queueSetReserve", "setReserve">>
       [] s = "BACKSTOP_FUNDED"  -> <<"deposit">>
       [] s = "REWARD_ZONE"      -> <<"addReward">>
       [] s = "POOL_ACTIVE"      -> <<"setStatus">>]

\* What the constructor or the initializer of each contract is told.
Told(s) == CASE s = "COMET_FACTORY" -> {"WASM"}
             [] s = "COMET"         -> {"COMET_FACTORY"}
             [] s = "EMITTER"       -> {"BACKSTOP", "COMET"}
             [] s = "POOL_FACTORY"  -> {"BACKSTOP"}
             [] s = "BACKSTOP"      -> {"COMET", "EMITTER", "POOL_FACTORY"}
             [] s = "POOL"          -> {"POOL_FACTORY", "ORACLE"}
             [] OTHER               -> {}

VARIABLES
  file,    \* blend-pool.env: the value of each key, 0 without a line
  stage,   \* the run: its stage, 0 when there is no run,
  call,    \*   the call of the stage that is next (past the last: the line),
  id,      \*   the contract, or the salt, of the stage,
  tries,   \*   and the setReserve calls that failed
  chain,   \* what is on chain
  late,    \* the transaction nobody waits for, if any, as the chain it leads to
  drawn,   \* salts drawn so far
  faults   \* history: how many of the faults below happened

run  == <<stage, call, id, tries>>
vars == <<file, stage, call, id, tries, chain, late, drawn, faults>>

\* refs: what a contract was told.  lp: shares of a comet pool the owner holds.
Facts     == {"queued", "reserve", "funded", "rewarded", "active"}
InitLp    == 100
DepositLp == 99
Contracts == [refs : SUBSET (Keys \X (Nat \ {0})), facts : SUBSET Facts, lp : 0..InitLp]

\* Chains: is the BLND asset there, pools the owner's money pays for, contracts.
IsChain(c) == /\ DOMAIN c = {"asset", "money", "at"}
              /\ c.asset \in BOOLEAN /\ c.money \in Nat
              /\ DOMAIN c.at \subseteq 1..drawn
              /\ \A x \in DOMAIN c.at : c.at[x] \in Contracts

TypeOK ==
  /\ file \in [Keys -> 0..drawn + 1]
  /\ stage \in 0..Len(Script) /\ call \in 1..4
  /\ id \in 0..drawn
  /\ tries \in 0..SetReserveTries - 1
  /\ IsChain(chain)
  /\ \A c \in late : IsChain(c) /\ late = {c}
  /\ drawn \in Nat /\ faults \in 0..MaxFaults

Init ==
  /\ file = [k \in Keys |-> 0]
  /\ stage = 0 /\ call = 1 /\ id = 0 /\ tries = 0
  /\ chain = [asset |-> FALSE, money |-> 0, at |-> <<>>]
  /\ late = {}
  /\ drawn = 0 /\ faults = 0

-----------------------------------------------------------------------------
(***************************************************************************)
(* What the calls do on chain (the contracts are external).                *)
(***************************************************************************)
Now   == Script[stage]
Doing == Calls[Now][call]

\* The pool factory and the backstop are made with the salts of the file, so
\* that each can be named before it is there.
IdOf(k) == CASE k = "POOL_FACTORY" -> file["FACTORY_SALT"]
             [] k = "BACKSTOP"     -> file["BACKSTOP_SALT"]
             [] OTHER              -> file[k]
RefsOf(s) == {<<k, IdOf(k)>> : k \in Told(s)}

With(c, x, contract) ==
  [c EXCEPT !.at = [y \in DOMAIN @ \cup {x} |-> IF y = x THEN contract ELSE @[y]]]
Adding(c, x, fact)   == With(c, x, [c.at[x] EXCEPT !.facts = @ \cup {fact}])

\* No second contract with a salt; a comet pool is paid for, and gives shares.
Create ==
  IF id \in DOMAIN chain.at \/ (Now = "COMET" /\ chain.money = 0) THEN {}
  ELSE LET new == [refs  |-> IF Now \in {"COMET_FACTORY", "EMITTER"} THEN {} ELSE RefsOf(Now),
                   facts |-> {},
                   lp    |-> IF Now = "COMET" THEN InitLp ELSE 0]
       IN {With([chain EXCEPT !.money = IF Now = "COMET" THEN @ - 1 ELSE @], id, new)}

\* What the comet pool costs is minted if the balance does not reach.
Mint == {[chain EXCEPT !.money = IF @ > 0 THEN @ ELSE 2]}

\* The same wasm again changes nothing, nor does a longer life or a price.
Install == {chain}

SetReserve(p) == [chain.at[p] EXCEPT !.facts = (@ \ {"queued"}) \cup {"reserve"}]
\* deposit: of what the owner holds, up to DepositLp.
Spend(x) == With(chain, x, [chain.at[x] EXCEPT !.lp = @ - Min({@, DepositLp})])

\* The chains the next call may lead to; none if its simulation fails.
Outcomes ==
  LET p == file["POOL"]
      facts == chain.at[p].facts IN
  CASE Doing = "createAsset" -> IF chain.asset THEN {} ELSE {[chain EXCEPT !.asset = TRUE]}
    [] Doing = "mint"        -> Mint
    [] Doing = "create"      -> Create
    [] Doing = "init"        -> {With(chain, id, [chain.at[id] EXCEPT !.refs = RefsOf(Now)])}
    [] Doing = "queueSetReserve" -> {Adding(chain, p, "queued")}
    [] Doing = "setReserve"  -> IF "queued" \in facts THEN {With(chain, p, SetReserve(p))} ELSE {}
    [] Doing = "deposit"     -> IF chain.at[file["COMET"]].lp = 0 THEN {}
                                ELSE {Adding(Spend(file["COMET"]), p, "funded")}
    [] Doing = "addReward"   -> IF "rewarded" \in facts THEN {} ELSE {Adding(chain, p, "rewarded")}
    [] Doing = "setStatus"   -> IF "funded" \in facts THEN {Adding(chain, p, "active")} ELSE {}
    [] OTHER                 -> Install

-----------------------------------------------------------------------------
(***************************************************************************)
(* A run.                                                                  *)
(***************************************************************************)
\* Throwing, being killed and the end of main: the locals are gone.
Stop == stage' = 0 /\ call' = 1 /\ id' = 0 /\ tries' = 0 /\ UNCHANGED drawn

NewSalts(s) == s \in Keys \ Salts /\ file[s] # 0  \* mutant: the salts are drawn again
Recorded(s) == s \in Keys /\ file[s] # 0
NewId == drawn + 1
Draws(s) == s \in (Deployed \cup Salts) \ {"POOL_FACTORY", "BACKSTOP"}

\* On to the first stage from the n-th on that has no line; main is over after
\* the last.
GoOn(n) ==
  LET todo == {m \in n..Len(Script) : ~Recorded(Script[m])}
      m == Min(todo)  s == Script[m] IN
  IF todo = {} THEN Stop
  ELSE /\ stage' = m /\ call' = 1 /\ tries' = 0
       /\ drawn' = IF Draws(s) THEN NewId ELSE drawn
       /\ id' = IF Draws(s) THEN drawn' ELSE IF s \in Deployed THEN IdOf(s) ELSE 0

Launch ==
  /\ stage = 0
  /\ GoOn(1)
  /\ UNCHANGED <<file, chain, late, faults>>

\* recordArtifact, at the end of a stage.
Line == IF id = 0 THEN 1 ELSE id

Record ==
  /\ stage # 0 /\ call > Len(Calls[Now])
  /\ file' = IF Now \in Keys THEN [file EXCEPT ![Now] = Line] ELSE file
  /\ GoOn(stage + 1)
  /\ UNCHANGED <<chain, late, faults>>

\* invoke and bumpInstance: simulate, sign, send, poll until it landed.
Calling == stage # 0 /\ call <= Len(Calls[Now])
Advance == call' = call + 1 /\ UNCHANGED <<stage, id, tries, drawn>>

Call ==
  /\ Calling /\ late = {}
  /\ chain' \in Outcomes
  /\ Advance
  /\ UNCHANGED <<file, late, faults>>

\* A call throws: queueSetReserve may, addReward may and then has no line,
\* setReserve is tried again, and an asset that is there will do.  Any other
\* error ends the run.
OneTooMany == tries < SetReserveTries             \* mutant: off by one
TryAgain == tries + 1 < SetReserveTries

StrictlyTolerated(rejected) == Doing = "queueSetReserve"  \* mutant: the asset must be new
Tolerated(rejected) == Doing = "queueSetReserve" \/ (Doing = "createAsset" /\ rejected)

Throws(rejected) ==
  IF Tolerated(rejected) THEN Advance
  ELSE IF Doing = "addReward" THEN GoOn(stage + 1)
  ELSE IF Doing = "setReserve" /\ TryAgain
  THEN tries' = tries + 1 /\ UNCHANGED <<stage, call, id, drawn>>
  ELSE Stop

Rejected ==
  /\ Calling /\ late = {}
  /\ Outcomes = {}
  /\ Throws(TRUE)
  /\ UNCHANGED <<file, chain, late, faults>>

Fault == faults < MaxFaults /\ faults' = faults + 1

\* An error of the RPC, or a transaction that fails: nothing is done.
CallFails ==
  /\ Calling /\ Fault
  /\ Throws(FALSE)
  /\ UNCHANGED <<file, chain, late>>

\* The polling gives up after 30 s; the transaction may land for two minutes.
GiveUp ==
  /\ Calling /\ late = {} /\ Fault
  /\ \E c \in Outcomes \ {chain} : late' = {c}
  /\ Throws(FALSE)
  /\ UNCHANGED <<file, chain>>

LateLands ==
  /\ late # {}
  /\ chain' \in late \cup {chain}
  /\ late' = {}
  /\ UNCHANGED <<file, run, drawn, faults>>

Kill ==
  /\ stage # 0 /\ Fault
  /\ \/ UNCHANGED late
     \/ Calling /\ late = {} /\ \E c \in Outcomes \ {chain} : late' = {c}
  /\ Stop
  /\ UNCHANGED <<file, chain>>

RunStep == Record \/ Call \/ Rejected
Next == Launch \/ RunStep \/ CallFails \/ GiveUp \/ LateLands \/ Kill

(***************************************************************************)
(* Fairness: a run goes on, a transaction lands or expires, and the        *)
(* operator runs the script again.                                         *)
(***************************************************************************)
Fairness == WF_vars(Launch) /\ WF_vars(RunStep) /\ WF_vars(LateLands)
Spec == Init /\ [][Next]_vars /\ Fairness

-----------------------------------------------------------------------------
(***************************************************************************)
(* Properties.                                                             *)
(***************************************************************************)
\* Whatever was thrown, killed or landed late between two lines, the contracts
\* in the file are deployed and were told of each other, not of those earlier
\* runs left behind, and what it says was done was done to the pool it names
\* ("deterministic ids must be fixed before either constructor runs").
LineFact == [RESERVE_USDC_SET |-> "reserve", BACKSTOP_FUNDED |-> "funded",
             REWARD_ZONE |-> "rewarded", POOL_ACTIVE |-> "active"]

RecordedFitTogether ==
  /\ \A k \in Deployed : file[k] # 0 =>
       /\ file[k] = IdOf(k) /\ file[k] \in DOMAIN chain.at
       /\ chain.at[file[k]].refs = RefsOf(k)
  /\ \A k \in DOMAIN LineFact : file[k] # 0 =>
       /\ file["POOL"] # 0
       /\ LineFact[k] \in chain.at[file["POOL"]].facts

\* Where running it again does not help: the factory or the backstop is there
\* without its line, and no second one can have its salt; or deposits without
\* a line took all the shares.
Stranded ==
  \/ \E k \in {"POOL_FACTORY", "BACKSTOP"} : file[k] = 0 /\ IdOf(k) \in DOMAIN chain.at
  \/ file["COMET"] # 0 /\ file["BACKSTOP_FUNDED"] = 0 /\ chain.at[file["COMET"]].lp = 0

\* "Idempotent + resumable": apart from that, running the script until it does
\* not throw gets the pool active, wherever earlier runs stopped.
CompletesOrStranded == <>(file["POOL_ACTIVE"] # 0) \/ <>[]Stranded

=============================================================================
