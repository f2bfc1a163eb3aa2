----------------------------- MODULE PerUserTick -----------------------------
(***************************************************************************)
(* The money-moving half of the agent tick in smart-account mode:          *)
(* runPerUserExecution (src/lib/orchestrator.ts) as runtime.ts drives it,  *)
(* against the MongoDB registry (src/lib/registry.ts), the policy-signer   *)
(* wallet (src/lib/wallet.ts) and the Stellar ledger.                      *)
(*                                                                         *)
(* A call is one invocation of tick(rt, true).  The cron, the request the  *)
(* onboarding page sends and a manual trigger all make one, and each is    *)
(* served by some instance; an instance is one Node process with its own   *)
(* Runtime object.  There is one action per await: between two of them any *)
(* other call, registry handler or ledger close may run.                   *)
(*                                                                         *)
(* The amount of a position is abstracted to the set of supply             *)
(* transactions it adds up: setUserPosition stores the amount it read plus *)
(* the amount just supplied, so the stored number is the sum over that set *)
(* as long as no supply enters it twice (NoDoubleCredit).                  *)
(***************************************************************************)
EXTENDS Naturals, FiniteSets

CONSTANTS
  Owners,      \* classic accounts that register
  Wallets,     \* smart wallets (contract ids)
  NoOwner,
  NoWallet,    \* not a wallet: no registration, no wallet in hand
  Instances,   \* server processes, each with its own Runtime singleton
  Calls,       \* invocations of tick; NoInstance outside one
  NoInstance,
  Requests,    \* invocations of DELETE /api/register and POST /api/reset
  Hashes,      \* transaction hashes; bounds the number of supplies sent
  NoHash,
  OldSupply,   \* the supplies an earlier deployment recorded, as one item
  PerTxCap,    \* cfg.perTxCapStroops, in units
  MaxIdle,     \* bound: the faucet leaves no wallet with more than this
  Events       \* which of EventKinds the environment may produce

EventKinds == {"rpc",        \* an RPC call throws, the ledger refuses a valid tx
               "late",       \* a tx outlives the polling of its submitter
               "db",         \* a MongoDB call throws
               "crash",      \* the platform kills an instance
               "mint",       \* the faucet mints while ticks run
               "unregister", \* owners disconnect
               "reset"}      \* somebody resets the demo

ASSUME ConstantsOK ==
  /\ PerTxCap \in Nat \ {0}
  /\ MaxIdle \in Nat
  /\ NoWallet \notin Wallets
  /\ NoInstance \notin Instances
  /\ NoHash \notin Hashes
  /\ OldSupply \notin Hashes
  /\ Events \subseteq EventKinds

VARIABLES
  users,      \* collection "users": the wallet of each registered owner
  positions,  \* collection "positions", keyed by wallet
  idle,       \* ledger: USDC balance of each wallet, in units
  txs,        \* ledger: every supply transaction the network accepted
  agentSeq,   \* ledger: sequence number of the agent account
  running,    \* Runtime.running of each instance
  pc, host, todo, cur, amt, seqno, hash, prev,  \* locals of each call
  rpc, rowner, rwallet                          \* locals of each request

store  == <<users, positions>>
ledger == <<idle, txs, agentSeq>>
tick   == <<running, pc, host, todo, cur, amt, seqno, hash, prev>>
req    == <<rpc, rowner, rwallet>>
vars   == <<users, positions, idle, txs, agentSeq, running, pc, host, todo,
            cur, amt, seqno, hash, prev, rpc, rowner, rwallet>>

(***************************************************************************)
(* Values.  ExecPool is cfg.execPoolId; OldPool stands for a pool that an  *)
(* earlier configuration of the service supplied into.                     *)
(***************************************************************************)
ExecPool == "execPool"
OldPool  == "oldPool"
NoPool   == "idle"

NoDoc        == [pool |-> "none", credited |-> {}]
Items        == Hashes \cup {OldSupply}
PositionDocs == [pool : {ExecPool, OldPool}, credited : SUBSET Items] \cup {NoDoc}
Positions    == [pool : {ExecPool, OldPool, NoPool}, credited : SUBSET Items]
OldDoc       == [pool |-> OldPool, credited |-> {OldSupply}]
IdlePosition == [pool |-> NoPool, credited |-> {}]

NoTx == [status |-> "unsent", wallet |-> NoWallet, amount |-> 0, seq |-> 0]
TxRecords == [status : {"pending", "success", "failed", "expired"},
              wallet : Wallets, amount : Nat, seq : Nat] \cup {NoTx}

InTick  == {"list", "next", "build", "send", "poll", "getPosition", "setPosition"}
InReq   == {"deleteUser", "deletePosition", "deletePositions"}

Active(c) == pc[c] \in InTick

TypeOK ==
  /\ users \in [Owners -> Wallets \cup {NoWallet}]
  /\ positions \in [Wallets -> PositionDocs]
  /\ idle \in [Wallets -> Nat]
  /\ txs \in [Hashes -> TxRecords]
  /\ agentSeq \in Nat
  /\ running \in [Instances -> BOOLEAN]
  /\ pc \in [Calls -> InTick \cup {"out"}]
  /\ host \in [Calls -> Instances \cup {NoInstance}]
  /\ todo \in [Calls -> SUBSET (Owners \X Wallets)]
  /\ cur \in [Calls -> Wallets \cup {NoWallet}]
  /\ amt \in [Calls -> Nat]
  /\ seqno \in [Calls -> Nat]
  /\ hash \in [Calls -> Hashes \cup {NoHash}]
  /\ prev \in [Calls -> Positions]
  /\ rpc \in [Requests -> InReq \cup {"out"}]
  /\ rowner \in [Requests -> Owners \cup {NoOwner}]
  /\ rwallet \in [Requests -> Wallets \cup {NoWallet}]

(***************************************************************************)
(* The registry is empty, or left by an earlier deployment that supplied   *)
(* into OldPool; the wallets hold what the faucet minted so far.           *)
(***************************************************************************)
Init ==
  /\ users = [o \in Owners |-> NoWallet]
  /\ positions \in [Wallets -> {NoDoc, OldDoc}]
  /\ idle \in [Wallets -> 0..MaxIdle]
  /\ txs = [h \in Hashes |-> NoTx]
  /\ agentSeq = 0
  /\ running = [i \in Instances |-> FALSE]
  /\ pc = [c \in Calls |-> "out"]
  /\ host = [c \in Calls |-> NoInstance]
  /\ todo = [c \in Calls |-> {}]
  /\ cur = [c \in Calls |-> NoWallet]
  /\ amt = [c \in Calls |-> 0]
  /\ seqno = [c \in Calls |-> 0]
  /\ hash = [c \in Calls |-> NoHash]
  /\ prev = [c \in Calls |-> IdlePosition]
  /\ rpc = [r \in Requests |-> "out"]
  /\ rowner = [r \in Requests |-> NoOwner]
  /\ rwallet = [r \in Requests |-> NoWallet]

-----------------------------------------------------------------------------
(***************************************************************************)
(* Entering and leaving a tick.                                            *)
(***************************************************************************)

\* `if (rt.running) return` : the guard of tick, per process.
MayEnterUnguarded(i) == i \in Instances          \* mutant: guard dropped
MayEnter(i) == ~running[i]

\* tick(rt, true) is called on instance i and gets past the guard.  A call
\* that finds the flag set returns at once and changes nothing.  runTick, which
\* runs next and decides once for everybody, is the module RebalanceTick.
TickEnter(c, i) ==
  /\ pc[c] = "out"
  /\ MayEnter(i)
  /\ running' = [running EXCEPT ![i] = TRUE]
  /\ host' = [host EXCEPT ![c] = i]
  /\ pc' = [pc EXCEPT ![c] = "list"]
  /\ UNCHANGED <<store, ledger, req, todo, cur, amt, seqno, hash, prev>>

\* The locals of a call that has returned are dead.
Reset(f, S, v) == [c \in Calls |-> IF c \in S THEN v ELSE f[c]]

\* The finally block: the flag is cleared whichever way the tick ends.
NotReleased(i) == running                        \* mutant: no finally
Released(i) == [running EXCEPT ![i] = FALSE]

Leave(c) ==
  /\ running' = Released(host[c])
  /\ pc' = [pc EXCEPT ![c] = "out"]
  /\ host' = [host EXCEPT ![c] = NoInstance]
  /\ todo' = [todo EXCEPT ![c] = {}]
  /\ UNCHANGED <<store, ledger, req, cur, amt, seqno, hash, prev>>

\* The loop is over (the mirror into the singleton position is RebalanceTick's).
TickDone(c) == pc[c] = "next" /\ todo[c] = {} /\ Leave(c)

\* runTick or listUsers threw, or a log call inside the loop's catch did: the
\* catch of tick logs and swallows it.
TickThrows(c) == pc[c] \in {"list", "next"} /\ "db" \in Events /\ Leave(c)

\* The platform ends instance i (maxDuration, redeploy): every call it serves
\* is gone and the next Runtime object starts with running = false.
Crash(i) ==
  LET lost == {c \in Calls : Active(c) /\ host[c] = i} IN
  /\ "crash" \in Events
  /\ lost # {}
  /\ running' = [running EXCEPT ![i] = FALSE]
  /\ pc' = Reset(pc, lost, "out")
  /\ host' = Reset(host, lost, NoInstance)
  /\ todo' = Reset(todo, lost, {})
  /\ cur' = Reset(cur, lost, NoWallet)
  /\ amt' = Reset(amt, lost, 0)
  /\ seqno' = Reset(seqno, lost, 0)
  /\ hash' = Reset(hash, lost, NoHash)
  /\ prev' = Reset(prev, lost, IdlePosition)
  /\ UNCHANGED <<store, ledger, req>>

-----------------------------------------------------------------------------
(***************************************************************************)
(* The per-user loop.  The order in which listUsers sorts is abstracted:   *)
(* the loop takes the registrations of its snapshot in any order.          *)
(***************************************************************************)
Registered == {<<o, users[o]>> : o \in {x \in Owners : users[x] # NoWallet}}

ListUsers(c) ==
  /\ pc[c] = "list"
  /\ todo' = [todo EXCEPT ![c] = Registered]
  /\ pc' = [pc EXCEPT ![c] = "next"]
  /\ UNCHANGED <<store, ledger, req, running, host, cur, amt, seqno, hash, prev>>

\* The amount of one supply: min(idle, perTxCap).
ClampToCap(n) == IF n > PerTxCap THEN PerTxCap ELSE n

\* What readUsdcBalance may answer: the balance, or 0n for any error.
ReadableBalances(w) == {idle[w]} \cup (IF "rpc" \in Events THEN {0} ELSE {})

\* Take the next registration and read its idle balance; nothing to supply
\* means the loop continues with the next one.
NextUser(c) ==
  /\ pc[c] = "next"
  /\ \E u \in todo[c] : \E n \in ReadableBalances(u[2]) :
       /\ todo' = [todo EXCEPT ![c] = @ \ {u}]
       /\ IF n = 0
          THEN UNCHANGED <<pc, cur, amt>>
          ELSE /\ pc' = [pc EXCEPT ![c] = "build"]
               /\ cur' = [cur EXCEPT ![c] = u[2]]
               /\ amt' = [amt EXCEPT ![c] = ClampToCap(n)]
  /\ UNCHANGED <<store, ledger, req, running, host, seqno, hash, prev>>

\* The supply in hand is over: the locals go dead, the loop continues.
Drop(c) ==
  /\ pc' = [pc EXCEPT ![c] = "next"]
  /\ cur' = [cur EXCEPT ![c] = NoWallet]
  /\ amt' = [amt EXCEPT ![c] = 0]
  /\ seqno' = [seqno EXCEPT ![c] = 0]
  /\ hash' = [hash EXCEPT ![c] = NoHash]
  /\ prev' = [prev EXCEPT ![c] = IdlePosition]
  /\ UNCHANGED <<running, host, todo>>

\* buildAgentAuth: both simulations pass on the current ledger and the tx is
\* assembled with the agent account's next sequence number.
BuildSupply(c) ==
  /\ pc[c] = "build"
  /\ idle[cur[c]] >= amt[c]
  /\ seqno' = [seqno EXCEPT ![c] = agentSeq + 1]
  /\ pc' = [pc EXCEPT ![c] = "send"]
  /\ UNCHANGED <<store, ledger, req, running, host, todo, cur, amt, hash, prev>>

\* A simulation fails (the balance is gone, a rule refuses, the RPC is down):
\* submitOp answers success false, the user is skipped.
BuildFails(c) ==
  /\ pc[c] = "build"
  /\ idle[cur[c]] < amt[c] \/ "rpc" \in Events
  /\ Drop(c)
  /\ UNCHANGED <<store, ledger, req>>

\* The network takes the transaction of call c under hash h.
Accept(c, h) ==
  /\ txs[h] = NoTx
  /\ txs' = [txs EXCEPT ![h] = [status |-> "pending", wallet |-> cur[c],
                                amount |-> amt[c], seq |-> seqno[c]]]

Send(c) ==
  /\ pc[c] = "send"
  /\ \E h \in Hashes : Accept(c, h) /\ hash' = [hash EXCEPT ![c] = h]
  /\ pc' = [pc EXCEPT ![c] = "poll"]
  /\ UNCHANGED <<store, idle, agentSeq, req, running, host, todo, cur, amt, seqno, prev>>

\* sendTransaction answers ERROR: a stale sequence number, or anything else.
\* TRY_AGAIN_LATER (one tx per account in the queue) is polled in vain until the
\* same verdict.
PendingTxs == {h \in Hashes : txs[h].status = "pending"}
SendRefused(c) ==
  /\ pc[c] = "send"
  /\ seqno[c] <= agentSeq \/ PendingTxs # {} \/ "rpc" \in Events
  /\ Drop(c)
  /\ UNCHANGED <<store, ledger, req>>

\* The answer to sendTransaction is lost after the network took the tx; the
\* catch of submitOp reports a failure.
SendThrows(c) ==
  /\ pc[c] = "send"
  /\ "rpc" \in Events
  /\ \E h \in Hashes : Accept(c, h)
  /\ Drop(c)
  /\ UNCHANGED <<store, idle, agentSeq, req>>

\* The final status the poll loop takes for a landed supply.
NotFailed(h) == txs[h].status # "failed"         \* mutant: NOT_FOUND taken for SUCCESS
Confirmed(h) == txs[h].status = "success"

PollSuccess(c) ==
  /\ pc[c] = "poll"
  /\ Confirmed(hash[c])
  /\ pc' = [pc EXCEPT ![c] = "getPosition"]
  /\ UNCHANGED <<store, ledger, req, running, host, todo, cur, amt, seqno, hash, prev>>

\* Still NOT_FOUND at the last poll: the tx will never be found, or not yet.
NeverNotFound(h) == FALSE                        \* mutant: polls until found
NotFound(h) ==
  \/ txs[h].status = "expired"
  \/ txs[h].status = "pending" /\ "late" \in Events

\* FAILED or NOT_FOUND, or getTransaction throws: success false, next user.
PollFails(c) ==
  /\ pc[c] = "poll"
  /\ txs[hash[c]].status = "failed" \/ NotFound(hash[c]) \/ "rpc" \in Events
  /\ Drop(c)
  /\ UNCHANGED <<store, ledger, req>>

\* What getUserPosition answers: the document, or idle when there is none.
DocOf(w) == positions[w]                         \* mutant: no default for null
PositionOf(w) == IF positions[w] = NoDoc THEN IdlePosition ELSE positions[w]

GetPosition(c) ==
  /\ pc[c] = "getPosition"
  /\ prev' = [prev EXCEPT ![c] = PositionOf(cur[c])]
  /\ pc' = [pc EXCEPT ![c] = "setPosition"]
  /\ UNCHANGED <<store, ledger, req, running, host, todo, cur, amt, seqno, hash>>

\* Once the position is written the loop goes to the next user.
RecordAgain(c) ==                                \* mutant: the write is retried
  /\ pc' = [pc EXCEPT ![c] = "getPosition"]
  /\ UNCHANGED <<running, host, todo, cur, amt, seqno, hash, prev>>
AfterRecord(c) == Drop(c)

\* newAmount: the amount read, if it was in the pool supplied into, plus this
\* supply.
NewAmountAnyPool(p, h) == p.credited \cup {h}    \* mutant: the pool is not compared
NewAmountOverwrite(p, h) == {h}                  \* mutant: the old amount is dropped
NewAmount(p, h) == (IF p.pool = ExecPool THEN p.credited ELSE {}) \cup {h}

SetPosition(c) ==
  /\ pc[c] = "setPosition"
  /\ positions' = [positions EXCEPT ![cur[c]] =
                     [pool |-> ExecPool, credited |-> NewAmount(prev[c], hash[c])]]
  /\ AfterRecord(c)
  /\ UNCHANGED <<users, ledger, req>>

\* getUserPosition or setUserPosition throws after the supply landed: the
\* catch of the loop logs it and the loop continues.
RecordThrows(c) ==
  /\ pc[c] \in {"getPosition", "setPosition"}
  /\ "db" \in Events
  /\ Drop(c)
  /\ UNCHANGED <<store, ledger, req>>

-----------------------------------------------------------------------------
(***************************************************************************)
(* The registry handlers that run beside the ticks.                        *)
(***************************************************************************)
EndRequest(r) ==
  /\ rpc' = [rpc EXCEPT ![r] = "out"]
  /\ rowner' = [rowner EXCEPT ![r] = NoOwner]
  /\ rwallet' = [rwallet EXCEPT ![r] = NoWallet]

\* POST /api/register: one upsert by owner; re-registering replaces the wallet
\* and leaves the old wallet's position.  (The read of getUser before it only
\* keeps createdAt.)
Register(o, w) ==
  /\ users' = [users EXCEPT ![o] = w]
  /\ UNCHANGED <<positions, ledger, tick, req>>

\* DELETE /api/register: removeUser finds the row, ...
UnregisterFind(r, o) ==
  /\ "unregister" \in Events
  /\ rpc[r] = "out"
  /\ users[o] # NoWallet
  /\ rowner' = [rowner EXCEPT ![r] = o]
  /\ rwallet' = [rwallet EXCEPT ![r] = users[o]]
  /\ rpc' = [rpc EXCEPT ![r] = "deleteUser"]
  /\ UNCHANGED <<store, ledger, tick>>

\* ... deletes the row of the owner, ...
UnregisterUser(r) ==
  /\ rpc[r] = "deleteUser"
  /\ users' = [users EXCEPT ![rowner[r]] = NoWallet]
  /\ rpc' = [rpc EXCEPT ![r] = "deletePosition"]
  /\ UNCHANGED <<positions, ledger, tick, rowner, rwallet>>

\* ... and then the position of the wallet it found.
UnregisterPosition(r) ==
  /\ rpc[r] = "deletePosition"
  /\ positions' = [positions EXCEPT ![rwallet[r]] = NoDoc]
  /\ EndRequest(r)
  /\ UNCHANGED <<users, ledger, tick>>

\* POST /api/reset: clearRegistry empties one collection, then the other.
ResetUsers(r) ==
  /\ "reset" \in Events
  /\ rpc[r] = "out"
  /\ users' = [o \in Owners |-> NoWallet]
  /\ rpc' = [rpc EXCEPT ![r] = "deletePositions"]
  /\ UNCHANGED <<positions, ledger, tick, rowner, rwallet>>

ResetPositions(r) ==
  /\ rpc[r] = "deletePositions"
  /\ positions' = [w \in Wallets |-> NoDoc]
  /\ EndRequest(r)
  /\ UNCHANGED <<users, ledger, tick>>

\* A MongoDB call of the handler throws, or its instance is killed: what it
\* deleted stays deleted.
RequestDies(r) ==
  /\ rpc[r] \in InReq
  /\ Events \cap {"db", "crash"} # {}
  /\ EndRequest(r)
  /\ UNCHANGED <<store, ledger, tick>>

-----------------------------------------------------------------------------
(***************************************************************************)
(* The ledger and the faucet (external).                                   *)
(***************************************************************************)
Final(h, s) == txs' = [txs EXCEPT ![h].status = s]

\* Only the tx with the next sequence number of the agent can be included.
IsNext(h) == txs[h].status = "pending" /\ txs[h].seq = agentSeq + 1

Land(h) ==
  /\ IsNext(h)
  /\ txs[h].amount <= idle[txs[h].wallet]
  /\ Final(h, "success")
  /\ idle' = [idle EXCEPT ![txs[h].wallet] = @ - txs[h].amount]
  /\ agentSeq' = agentSeq + 1
  /\ UNCHANGED <<store, tick, req>>

\* Included and failed: the balance is gone, or a rule or the pool refuses.
LandFails(h) ==
  /\ IsNext(h)
  /\ txs[h].amount > idle[txs[h].wallet] \/ "rpc" \in Events
  /\ Final(h, "failed")
  /\ agentSeq' = agentSeq + 1
  /\ UNCHANGED <<store, idle, tick, req>>

\* Its sequence number is used up, or its time bound (120 s) passes.
Expire(h) ==
  /\ txs[h].status = "pending"
  /\ txs[h].seq <= agentSeq \/ "late" \in Events
  /\ Final(h, "expired")
  /\ UNCHANGED <<store, idle, agentSeq, tick, req>>

\* POST /api/faucet, or a transfer by the owner.
Fund(w) ==
  /\ "mint" \in Events
  /\ \E n \in 1..MaxIdle : idle[w] + n <= MaxIdle /\ idle' = [idle EXCEPT ![w] = @ + n]
  /\ UNCHANGED <<store, txs, agentSeq, tick, req>>

-----------------------------------------------------------------------------
CallStep(c) ==
  \/ TickDone(c) \/ ListUsers(c) \/ NextUser(c)
  \/ BuildSupply(c) \/ BuildFails(c)
  \/ Send(c) \/ SendRefused(c)
  \/ PollSuccess(c) \/ PollFails(c)
  \/ GetPosition(c) \/ SetPosition(c)

CallFault(c) == TickThrows(c) \/ SendThrows(c) \/ RecordThrows(c)

RequestStep(r) ==
  \/ \E o \in Owners : UnregisterFind(r, o)
  \/ UnregisterUser(r) \/ UnregisterPosition(r)
  \/ ResetUsers(r) \/ ResetPositions(r)
  \/ RequestDies(r)

LedgerStep(h) == Land(h) \/ LandFails(h) \/ Expire(h)

Next ==
  \/ \E c \in Calls : \/ \E i \in Instances : TickEnter(c, i)
                      \/ CallStep(c)
                      \/ CallFault(c)
  \/ \E i \in Instances : Crash(i)
  \/ \E o \in Owners, w \in Wallets : Register(o, w)
  \/ \E r \in Requests : RequestStep(r)
  \/ \E h \in Hashes : LedgerStep(h)
  \/ \E w \in Wallets : Fund(w)

Spec == Init /\ [][Next]_vars

(***************************************************************************)
(* Fairness: a promise the code awaits settles (every await of a tick has  *)
(* a next step), the network includes or drops what it accepted, and the   *)
(* cron keeps calling /api/tick.  Nothing is assumed of owners, of the     *)
(* handlers or of failures.                                                *)
(***************************************************************************)
Fairness ==
  /\ \A c \in Calls : WF_vars(CallStep(c))
  /\ \A c \in Calls : WF_vars(\E i \in Instances : TickEnter(c, i))
  /\ \A h \in Hashes : WF_vars(LedgerStep(h))

FairSpec == Spec /\ Fairness

-----------------------------------------------------------------------------
(***************************************************************************)
(* Properties.                                                             *)
(***************************************************************************)
Credited(w) == IF positions[w].pool = ExecPool THEN positions[w].credited ELSE {}
Landed(w)   == {h \in Hashes : txs[h].status = "success" /\ txs[h].wallet = w}

\* One process never runs two ticks at a time, and its flag is set exactly
\* while it runs one, whatever throws or is killed: `if (rt.running) return`
\* and the finally block of tick.
OneTickPerInstance ==
  /\ \A c, d \in Calls : Active(c) /\ Active(d) /\ host[c] = host[d] => c = d
  /\ \A i \in Instances : running[i] <=> \E c \in Calls : Active(c) /\ host[c] = i

\* A recorded position never exceeds what the wallet holds in the exec pool:
\* every supply it adds up landed, for this wallet, whatever ticks overlap,
\* throw, time out or die (runPerUserExecution records after the supply).
RecordedIsBacked ==
  \A w \in Wallets : Credited(w) \subseteq Landed(w)

\* The amount written adds a supply to an amount that does not contain it yet:
\* no supply is counted twice, however reads and writes of ticks interleave.
NoDoubleCredit ==
  \A c \in Calls : pc[c] = "setPosition" => hash[c] \notin prev[c].credited

\* No tick is in the loop and nothing is pending: what is recorded then stays.
Quiet == (\A c \in Calls : ~Active(c)) /\ PendingTxs = {}

\* "each smart wallet's current position": when nothing is under way, every
\* supply that landed in the exec pool is in the recorded position.
RecordIsComplete ==
  Quiet => \A w \in Wallets : Landed(w) \subseteq Credited(w)

\* What the recorded positions promise while one process serves every tick and
\* nobody leaves: they change by one landed supply at a time, added to what is
\* there (SupplyLedger).
Promise == INSTANCE SupplyLedger WITH
  landed   <- [w \in Wallets |-> Landed(w)],
  recorded <- [w \in Wallets |-> Credited(w)]
ImplementsSupplyLedger == Promise!Spec

\* Every tick that gets past the guard ends, and so the flag does not stay set.
TickEnds == \A c \in Calls : Active(c) ~> ~Active(c)

\* A registered wallet's idle USDC is eventually all supplied (or the owner
\* leaves), even when ticks of two instances compete for the agent account's
\* sequence number.
EventuallySupplied ==
  \A o \in Owners, w \in Wallets : users[o] = w ~> (idle[w] = 0 \/ users[o] # w)

-----------------------------------------------------------------------------
(***************************************************************************)
(* The inductive invariants of the proofs (PerUserTick_proofs).            *)
(***************************************************************************)
InSupply == {"build", "send", "poll", "getPosition", "setPosition"}
Sent     == {"poll", "getPosition", "setPosition"}

\* What the locals of a call hold where it uses them.
Holding ==
  \A c \in Calls :
    /\ Active(c) => host[c] \in Instances
    /\ pc[c] \in InSupply => cur[c] \in Wallets
    /\ pc[c] \in Sent => hash[c] \in Hashes

TypeInv == TypeOK /\ Holding

\* A position document, or a copy of it, adds up supplies that landed.
Backed(p, w) ==
  /\ p.credited \cap Hashes \subseteq Landed(w)
  /\ p.pool = ExecPool => p.credited \subseteq Hashes

PositionsBacked == \A w \in Wallets : Backed(positions[w], w)
ReadsBacked == \A c \in Calls : pc[c] = "setPosition" => Backed(prev[c], cur[c])

\* A call that waits for a supply, or is about to record it, is the only one
\* to do so, and no document and no copy contains that supply yet.
HeldIsOwn ==
  \A c \in Calls : pc[c] \in Sent =>
    /\ txs[hash[c]].wallet = cur[c]
    /\ txs[hash[c]].status # "unsent"
    /\ pc[c] # "poll" => txs[hash[c]].status = "success"
HeldOnce ==
  \A c, d \in Calls : pc[c] \in Sent /\ pc[d] \in Sent /\ hash[c] = hash[d] => c = d
HeldNotCredited ==
  \A c \in Calls : pc[c] \in Sent =>
    /\ \A w \in Wallets : hash[c] \notin positions[w].credited
    /\ \A d \in Calls : pc[d] = "setPosition" => hash[c] \notin prev[d].credited

CreditInv == /\ PositionsBacked /\ ReadsBacked
             /\ HeldIsOwn /\ HeldOnce /\ HeldNotCredited

\* For the refinement of SupplyLedger.  One process serves every tick, nobody
\* leaves, and so the copy a call holds of a position is still what is recorded.
OneProcess == \A i, j \in Instances : i = j
NobodyLeaves == {"unregister", "reset"} \cap Events = {}

CreditedIn(p) == IF p.pool = ExecPool THEN p.credited ELSE {}
NoRequestUnderWay == \A r \in Requests : rpc[r] = "out"
ReadIsCurrent ==
  \A c \in Calls : pc[c] = "setPosition" => CreditedIn(prev[c]) = Credited(cur[c])

PromiseInv == NoRequestUnderWay /\ ReadIsCurrent
=============================================================================
