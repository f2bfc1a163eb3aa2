------------------------------ MODULE Dashboard ------------------------------
(***************************************************************************)
(* The page of one browser (src/app/_components): the wallet connection    *)
(* (useFreighter.ts), the status lookups, the set-up wizard and the demo   *)
(* reset (useOnboarding.ts), the views of PlateApp.tsx, SetupView.tsx and  *)
(* AccountView.tsx that offer them, and what the routes behind them write. *)
(*                                                                         *)
(* One action per await: what runs between two awaits, and the effects of  *)
(* the state it sets, run before any other handler.  Nothing a handler     *)
(* waits for is cancelled when the owner changes, and a handler goes on    *)
(* for the owner it was called for.                                        *)
(*                                                                         *)
(* Accounts are numbered as they are prepared.  Texts, amounts, the keys   *)
(* of the agent and the network of the wallet are left out.                *)
(***************************************************************************)
EXTENDS Naturals, Sequences

CONSTANTS
  Owners, NoOwner,
  Unknown, NotRegistered,  \* null and false of `registered`
  Runs,          \* slots for the calls of start under way
  MaxAccounts,   \* bound: accounts prepared
  MaxLookups     \* bound: lookups in flight

ASSUME DashboardConstantsOK ==
  /\ NoOwner \notin Owners
  /\ Unknown # NotRegistered
  /\ Runs \cap {"effect", "reset"} = {}
  /\ MaxAccounts \in Nat /\ MaxLookups \in Nat \ {0}

VARIABLES
  address, connecting,  \* useFreighter: the connected owner; connect waits
  restoring,            \* useFreighter: the effect of the mount asks for the address
  registered,           \* the row shown, NotRegistered or Unknown
  smartWallet, steps, running, resetting,     \* useOnboarding
  run,                  \* locals of each call of start
  erasing,              \* locals of resetDemo
  lookups,              \* calls of fetchStatus in flight, in the order sent
  users,                \* server: collection "users", an account per owner
  accounts,             \* server and chain: what was done for each account
  excused               \* history: a status answer was lost or overtaken

wallet == <<address, connecting, restoring>>
shown  == <<registered, smartWallet, steps>>
server == <<users, accounts>>
vars == <<address, connecting, restoring, registered, smartWallet, steps, running,
          resetting, run, erasing, lookups, users, accounts, excused>>

NoAccount == 0
Accounts == 1..MaxAccounts
Jobs  == {"deploy", "authorize", "fund", "register"}     \* the keys of the steps
Rows  == [owner : Owners, account : Accounts]
Shows == Rows \cup {Unknown, NotRegistered}
InitialSteps == [k \in Jobs |-> "idle"]

NoRun == [pc |-> "out", owner |-> NoOwner, account |-> NoAccount, served |-> FALSE]
NotErasing == [pc |-> "out", owner |-> NoOwner]
\* by: the handler that waits for it.  saw: what the server read for it.  late:
\* history, something newer was asked, or shown, since.
LookupRecords == [owner : Owners, by : {"effect", "reset"} \cup Runs, saw : Shows, late : BOOLEAN]

TypeOK ==
  /\ address \in Owners \cup {NoOwner}
  /\ connecting \in BOOLEAN
  /\ restoring \in BOOLEAN
  /\ registered \in Shows
  /\ smartWallet \in Accounts \cup {NoAccount}
  /\ steps \in [Jobs -> {"idle", "active", "done", "error"}]
  /\ running \in BOOLEAN /\ resetting \in BOOLEAN
  /\ run \in [Runs -> [pc : Jobs \cup {"out", "agent", "prepare", "status"},
                       owner : Owners \cup {NoOwner}, account : Accounts \cup {NoAccount},
                       served : BOOLEAN]]
  /\ erasing \in [pc : {"out", "delete", "deleted", "status"}, owner : Owners \cup {NoOwner}]
  /\ lookups \in Seq(LookupRecords) /\ Len(lookups) <= MaxLookups
  /\ users \in [Owners -> Accounts \cup {NoAccount}]
  /\ accounts \in Seq([owner : Owners, jobs : SUBSET Jobs]) /\ Len(accounts) <= MaxAccounts
  /\ excused \in BOOLEAN

\* The mount has found an extension and no earlier disconnect, or not.
Init ==
  /\ address = NoOwner /\ connecting = FALSE /\ restoring \in BOOLEAN
  /\ registered = Unknown /\ smartWallet = NoAccount /\ steps = InitialSteps
  /\ running = FALSE /\ resetting = FALSE
  /\ run = [r \in Runs |-> NoRun]
  /\ erasing = NotErasing
  /\ lookups = <<>>
  /\ users = [o \in Owners |-> NoAccount]
  /\ accounts = <<>>
  /\ excused = FALSE

-----------------------------------------------------------------------------
(***************************************************************************)
(* fetchStatus: GET /api/users?owner=...                                   *)
(***************************************************************************)
StatusOf(o) == IF users[o] = NoAccount THEN NotRegistered ELSE [owner |-> o, account |-> users[o]]

\* Lookups under way at i or before are late once something newer is known.
LateUpTo(i) == [k \in DOMAIN lookups |-> [lookups[k] EXCEPT !.late = @ \/ k <= i]]
Sent(flight, o, by, late) ==
  Append(flight, [owner |-> o, by |-> by, saw |-> Unknown, late |-> late])

\* A handler asks for the status of the owner it was called for.
FetchStatus(o, by) ==
  /\ Len(lookups) < MaxLookups
  /\ lookups' = Sent(lookups, o, by, o # address)

ReadStatus(i) ==
  /\ lookups[i].saw = Unknown
  /\ lookups' = [lookups EXCEPT ![i].saw = StatusOf(lookups[i].owner)]
  /\ UNCHANGED <<wallet, shown, running, resetting, run, erasing, server, excused>>

\* The handler that waited goes on: the run and the reset are over.
Resume(by) ==
  /\ run' = [r \in Runs |-> IF r = by THEN NoRun ELSE run[r]]
  /\ running' = (running /\ by \notin Runs)
  /\ erasing' = IF by = "reset" THEN NotErasing ELSE erasing
  /\ resetting' = (resetting /\ by # "reset")

OwnerShown(status) ==                             \* mutant: the wrong field of the row
  IF status \in Rows THEN status.owner ELSE smartWallet
AccountShown(status) == IF status \in Rows THEN status.account ELSE smartWallet

Arrived(i, status) ==
  /\ registered' = status
  /\ smartWallet' = AccountShown(status)
  /\ lookups' = LET s == LateUpTo(i) IN SubSeq(s, 1, i - 1) \o SubSeq(s, i + 1, Len(s))
  /\ Resume(lookups[i].by)
  /\ UNCHANGED <<wallet, steps, server>>

ShowStatus(i) ==
  /\ lookups[i].saw # Unknown
  /\ Arrived(i, lookups[i].saw)
  /\ excused' = (excused \/ lookups[i].late)

\* An error, or no answer: taken for "not registered".
StatusFails(i) ==
  /\ Arrived(i, NotRegistered)
  /\ excused' = TRUE

\* The connected owner becomes o, and the effect on it runs.
KeepShown(o) == UNCHANGED shown                   \* mutant: a disconnect clears nothing
ClearShown(o) ==
  IF o = NoOwner
  THEN registered' = Unknown /\ smartWallet' = NoAccount /\ steps' = InitialSteps
  ELSE UNCHANGED shown

OwnerBecomes(o) ==
  /\ address' = o
  /\ UNCHANGED running
  /\ IF o = address THEN UNCHANGED <<shown, lookups>>
     ELSE /\ ClearShown(o)
          /\ IF o = NoOwner THEN lookups' = LateUpTo(Len(lookups))
             ELSE /\ Len(lookups) < MaxLookups
                  /\ lookups' = Sent(LateUpTo(Len(lookups)), o, "effect", FALSE)

\* A supply of this account shows up in the log: PlateApp asks again.
Refresh ==
  /\ registered \in Rows /\ address # NoOwner
  /\ FetchStatus(address, "effect")
  /\ UNCHANGED <<wallet, shown, running, resetting, run, erasing, server, excused>>

-----------------------------------------------------------------------------
(***************************************************************************)
(* useFreighter.  The extension (external) names any owner, or none if it  *)
(* never let the page in.  A disconnect is remembered for the next mount.  *)
(***************************************************************************)
\* The effect of the mount shows what the extension says, whoever connected since.
RestoreAddress ==
  /\ restoring
  /\ restoring' = FALSE
  /\ \E o \in Owners \cup {NoOwner} : OwnerBecomes(o)
  /\ UNCHANGED <<connecting, resetting, run, erasing, server, excused>>

\* connect is offered while nobody is connected; the user grants or denies.
Connect ==
  /\ address = NoOwner /\ ~connecting
  /\ connecting' = TRUE
  /\ UNCHANGED <<address, restoring, shown, running, resetting, run, erasing, lookups,
                 server, excused>>

Connected ==
  /\ connecting
  /\ connecting' = FALSE
  /\ \/ \E o \in Owners : OwnerBecomes(o)
     \/ UNCHANGED <<address, shown, running, lookups>>
  /\ UNCHANGED <<restoring, resetting, run, erasing, server, excused>>

\* The account view, which a row opens, offers the disconnect and the reset.
InAccount == registered \in Rows

Disconnect ==
  /\ InAccount
  /\ OwnerBecomes(NoOwner)
  /\ UNCHANGED <<connecting, restoring, resetting, run, erasing, server, excused>>

-----------------------------------------------------------------------------
(***************************************************************************)
(* start: the wizard of SetupView.                                         *)
(***************************************************************************)
InSetup == address # NoOwner /\ registered = NotRegistered

\* Its button, with an amount and a network that will do.
MayStart == InSetup /\ ~running

Start(r) ==
  /\ MayStart
  /\ run[r].pc = "out"
  /\ run' = [run EXCEPT ![r] = [NoRun EXCEPT !.pc = "agent", !.owner = address]]
  /\ running' = TRUE
  /\ steps' = InitialSteps
  /\ UNCHANGED <<wallet, registered, smartWallet, resetting, erasing, lookups, server, excused>>

\* GET /api/agent answered.
LoadAgent(r) ==
  /\ run[r].pc = "agent"
  /\ run' = [run EXCEPT ![r].pc = "prepare"]
  /\ steps' = [steps EXCEPT !["deploy"] = "active"]
  /\ UNCHANGED <<wallet, registered, smartWallet, running, resetting, erasing, lookups, server,
                 excused>>

\* prepare draws a salt, so the account is a new one; the owner signs for it.
Prepare(r) ==
  /\ run[r].pc = "prepare"
  /\ Len(accounts) < MaxAccounts
  /\ accounts' = Append(accounts, [owner |-> run[r].owner, jobs |-> {}])
  /\ run' = [run EXCEPT ![r].pc = "deploy", ![r].account = Len(accounts')]
  /\ UNCHANGED <<wallet, shown, running, resetting, erasing, lookups, users, excused>>

\* A call throws, and start catches: the first step shown as active is marked,
\* if there is one, and the run is over.
Place == [deploy |-> 1, authorize |-> 2, fund |-> 3, register |-> 4]
FirstActive(k) ==
  steps[k] = "active" /\ \A j \in Jobs : steps[j] = "active" => Place[k] <= Place[j]
StaysActive == UNCHANGED steps                    \* mutant: the catch marks nothing
MarkError == steps' = [k \in Jobs |-> IF FirstActive(k) THEN "error" ELSE steps[k]]

Catch(r) ==
  /\ MarkError
  /\ run' = [run EXCEPT ![r] = NoRun]
  /\ running' = FALSE

\* The server does what the run waits for.
ForShown(r) == smartWallet                        \* mutant: the state, not the local
For(r) == run[r].account

Does(r, job) ==
  LET a == For(r) IN
  /\ run[r].pc = job /\ ~run[r].served
  /\ accounts' = IF a = NoAccount THEN accounts ELSE [accounts EXCEPT ![a].jobs = @ \cup {job}]

Serve(r) ==
  /\ \E job \in Jobs \ {"fund"} :
       /\ Does(r, job)
       /\ users' = IF job = "register" THEN [users EXCEPT ![run[r].owner] = For(r)] ELSE users
  /\ run' = [run EXCEPT ![r].served = TRUE]
  /\ UNCHANGED <<wallet, shown, running, resetting, erasing, lookups, excused>>

\* The faucet's transaction lands; the polls saw it, or were used up before
\* (one that never lands is a call that fails).
MintUsdc(r) ==
  /\ Does(r, "fund")
  /\ \/ run' = [run EXCEPT ![r].served = TRUE] /\ UNCHANGED <<steps, running>>
     \/ Catch(r)
  /\ UNCHANGED <<wallet, registered, smartWallet, resetting, erasing, lookups, users, excused>>

After(job) == CASE job = "deploy" -> "authorize" [] job = "authorize" -> "fund"
                [] job = "fund" -> "register" [] job = "register" -> "status"

\* The answer: the step is done and the next one starts; after the last the
\* run asks for the status (and has a tick start, which it does not wait for).
AskStatus(r) ==
  /\ run' = [run EXCEPT ![r].pc = "status", ![r].served = FALSE]
  /\ FetchStatus(run[r].owner, r)
  /\ UNCHANGED running

Answer(r) ==
  LET job == run[r].pc  next == After(job) IN
  /\ job \in Jobs /\ run[r].served
  /\ smartWallet' = IF job = "deploy" THEN run[r].account ELSE smartWallet
  /\ IF job = "register"
     THEN /\ steps' = [steps EXCEPT ![job] = "done"]
          /\ AskStatus(r)
     ELSE /\ steps' = [steps EXCEPT ![job] = "done", ![next] = "active"]
          /\ run' = [run EXCEPT ![r].pc = next, ![r].served = FALSE]
          /\ UNCHANGED <<running, lookups>>
  /\ UNCHANGED <<wallet, registered, resetting, erasing, server, excused>>

\* Any call may fail: a refusal of the owner, an error, no answer (postJson
\* makes the last two one).
Fail(r) ==
  /\ run[r].pc \in Jobs \cup {"agent", "prepare"}
  /\ Catch(r)
  /\ excused' = (excused \/ (run[r].pc = "register" /\ run[r].served))
  /\ UNCHANGED <<wallet, registered, smartWallet, resetting, erasing, lookups, server>>

-----------------------------------------------------------------------------
(***************************************************************************)
(* resetDemo, from the account view.  Its answer is not looked at.         *)
(***************************************************************************)
ResetDemo ==
  /\ InAccount /\ address # NoOwner /\ ~resetting
  /\ resetting' = TRUE
  /\ erasing' = [pc |-> "delete", owner |-> address]
  /\ UNCHANGED <<wallet, shown, running, run, lookups, server, excused>>

Erase ==
  /\ erasing.pc = "delete"
  /\ erasing' = [erasing EXCEPT !.pc = "deleted"]
  /\ users' = [users EXCEPT ![erasing.owner] = NoAccount]
  /\ UNCHANGED <<wallet, shown, running, resetting, run, lookups, accounts, excused>>

\* deleteJson returns in any case: after the deletion, or without an answer.
DeleteReturns == erasing.pc \in {"delete", "deleted"}

Erased ==
  /\ DeleteReturns
  /\ erasing' = [erasing EXCEPT !.pc = "status"]
  /\ steps' = InitialSteps
  /\ smartWallet' = NoAccount
  /\ FetchStatus(erasing.owner, "reset")
  /\ UNCHANGED <<wallet, registered, running, resetting, run, server, excused>>

-----------------------------------------------------------------------------
LookupStep == \E i \in 1..Len(lookups) : ReadStatus(i) \/ ShowStatus(i) \/ StatusFails(i)
RunStep(r) == LoadAgent(r) \/ Prepare(r) \/ Serve(r) \/ MintUsdc(r) \/ Answer(r) \/ Fail(r)
ResetStep == Erase \/ Erased
WalletStep == RestoreAddress \/ Connected

Next ==
  \/ LookupStep \/ ResetStep \/ WalletStep
  \/ \E r \in Runs : Start(r) \/ RunStep(r)
  \/ Connect \/ Disconnect \/ Refresh \/ ResetDemo

Spec == Init /\ [][Next]_vars

-----------------------------------------------------------------------------
(***************************************************************************)
(* Properties.                                                             *)
(***************************************************************************)
\* However often the owner changes under way, the account registered for an
\* owner is one that owner prepared and signed for, and it was deployed,
\* authorized and funded before (start keeps its owner and its account in
\* locals; useOnboarding.ts:291-330).
RegisteredIsOwn ==
  \A o \in Owners : users[o] # NoAccount =>
    accounts[users[o]] = [owner |-> o, jobs |-> Jobs]

\* What shows as at work is being worked on, and the other way round: a set-up
\* that ended, however it did, leaves no step active and no button disabled,
\* nor does a demo reset; and while a set-up goes on no second one can start,
\* though either may be overtaken by the other, by a disconnect or a new owner.
WorkShownIsDone ==
  /\ running <=> \E r \in Runs : run[r].pc # "out"
  /\ resetting => erasing.pc # "out"
  /\ \A k \in Jobs : steps[k] = "active" =>
       \E r \in Runs : run[r].pc = (IF k = "deploy" /\ run[r].account = NoAccount
                                    THEN "prepare" ELSE k)

\* With nothing under way the page shows what the server has of the connected
\* owner, and nothing if there is none, unless an answer was lost or came
\* after newer ones (fetchStatus cancels nothing, useOnboarding.ts:217).
ShownIsTrue ==
  (/\ ~excused /\ lookups = <<>> /\ erasing.pc = "out"
   /\ \A r \in Runs : run[r].pc = "out")
  => registered = (IF address = NoOwner THEN Unknown ELSE StatusOf(address))

=============================================================================
