------------------------------ MODULE Authorize ------------------------------
(***************************************************************************)
(* Onboarding: an owner deploys a smart account (api/onboard/prepare and   *)
(* submit), has the backend add the two agent rules to it (api/authorize)  *)
(* and registers account and rule ids (api/register).  The client is the   *)
(* wizard of useOnboarding.ts, which starts over after an error, or        *)
(* onboard of scripts/loadtest/steps.ts, which asks again for the same     *)
(* account.  Funding comes before the registration and touches none of     *)
(* this; it is left out.                                                   *)
(*                                                                         *)
(* A request is one POST /api/authorize, with one action per await.  Its   *)
(* transactions have the agent account as their source, whose sequence     *)
(* number they share with all requests and with the ticks (PerUserTick).   *)
(* The rules of an account are a sequence: the rule with id i is the       *)
(* (i + 1)th, and get_context_rules_count is its length.                   *)
(***************************************************************************)
EXTENDS Naturals, Sequences

CONSTANTS
  Owners, Wallets, NoWallet,
  Requests, NoRequest,
  Events,    \* which of EventKinds the environment may produce
  MaxSeq     \* bound: ticks send nothing once the agent account is here

EventKinds == {"rpc",      \* an RPC call throws or answers ERROR
               "late",     \* polling ends while a tx may still land
               "db",       \* a MongoDB call throws
               "crash",    \* the platform kills a request
               "overlap"}  \* a client repeats a request that still goes on

ASSUME AuthorizeConstantsOK ==
  /\ NoWallet \notin Wallets
  /\ NoRequest \notin Requests
  /\ Events \subseteq EventKinds
  /\ MaxSeq \in Nat

VARIABLES
  rules, agentSeq, txs,            \* ledger; a tx per request and rule kind
  users,                           \* collection "users"
  step, wallet, asked, answer,     \* the client of each owner
  pc, target, adding, seqno, ids   \* the locals of each request

chain   == <<rules, agentSeq, txs>>
client  == <<step, wallet, asked, answer>>
handler == <<pc, target, adding, seqno, ids>>
vars == <<rules, agentSeq, txs, users, step, wallet, asked, answer,
          pc, target, adding, seqno, ids>>

RuleKinds == {"pool", "usdc"}
Txs == Requests \X RuleKinds
NoTx == [status |-> "unsent", seq |-> 0]
NoIds == [k \in RuleKinds |-> 0]
Registrations == [wallet : Wallets, ids : [RuleKinds -> Nat]]
NotRegistered == [wallet |-> NoWallet, ids |-> NoIds]

AtWork == {"before", "build", "send", "poll", "capture", "log"}
Working(r) == pc[r] \in AtWork

\* Types, and which locals the client has at each step.
TypeOK ==
  /\ rules \in [Wallets -> Seq(RuleKinds \cup {"owner"})]
  /\ agentSeq \in Nat
  /\ txs \in [Txs -> [status : {"unsent", "pending", "success", "failed", "expired"}, seq : Nat]]
  /\ users \in [Owners -> Registrations \cup {NotRegistered}]
  /\ step \in [Owners -> {"out", "submit", "authorize", "waiting", "register"}]
  /\ wallet \in [Owners -> Wallets \cup {NoWallet}]
  /\ asked \in [Owners -> Requests \cup {NoRequest}]
  /\ answer \in [Owners -> [RuleKinds -> Nat]]
  /\ pc \in [Requests -> AtWork \cup {"out", "ok", "error"}]
  /\ target \in [Requests -> Wallets \cup {NoWallet}]
  /\ adding \in [Requests -> RuleKinds]
  /\ seqno \in [Requests -> Nat]
  /\ ids \in [Requests -> [RuleKinds -> Nat]]
  /\ \A o \in Owners : /\ wallet[o] = NoWallet <=> step[o] = "out"
                       /\ asked[o] = NoRequest <=> step[o] \notin {"waiting", "register"}

Init ==
  /\ rules = [w \in Wallets |-> <<>>]
  /\ agentSeq = 0
  /\ txs = [t \in Txs |-> NoTx]
  /\ users = [o \in Owners |-> NotRegistered]
  /\ step = [o \in Owners |-> "out"]
  /\ wallet = [o \in Owners |-> NoWallet]
  /\ asked = [o \in Owners |-> NoRequest]
  /\ answer = [o \in Owners |-> NoIds]
  /\ pc = [r \in Requests |-> "out"]
  /\ target = [r \in Requests |-> NoWallet]
  /\ adding = [r \in Requests |-> "pool"]
  /\ seqno = [r \in Requests |-> 0]
  /\ ids = [r \in Requests |-> NoIds]

-----------------------------------------------------------------------------
(***************************************************************************)
(* The client.                                                             *)
(***************************************************************************)
\* The salt is random: no account is prepared twice.
Fresh(w) == rules[w] = <<>> /\ \A o \in Owners : wallet[o] # w

\* prepare answers the unsigned deploy tx and the id the account will have.
Prepare(o) ==
  /\ step[o] = "out"
  /\ \E w \in Wallets : Fresh(w) /\ wallet' = [wallet EXCEPT ![o] = w]
  /\ step' = [step EXCEPT ![o] = "submit"]
  /\ UNCHANGED <<chain, users, asked, answer, handler>>

Deploy(w) == rules' = [rules EXCEPT ![w] = <<"owner">>]

KeepAccount(o) ==                 \* mutant: reset of the steps alone
  /\ step' = [step EXCEPT ![o] = "out"]
  /\ UNCHANGED <<wallet, asked, answer>>
\* Starting over: nothing is remembered of the account.
StartOver(o) ==
  /\ step' = [step EXCEPT ![o] = "out"]
  /\ wallet' = [wallet EXCEPT ![o] = NoWallet]
  /\ asked' = [asked EXCEPT ![o] = NoRequest]
  /\ answer' = [answer EXCEPT ![o] = NoIds]

Submit(o) ==
  /\ step[o] = "submit"
  /\ Deploy(wallet[o])
  /\ step' = [step EXCEPT ![o] = "authorize"]
  /\ UNCHANGED <<agentSeq, txs, users, wallet, asked, answer, handler>>

\* The owner does not sign, the network refuses, or the polling ends early: the
\* account may come to exist all the same.
SubmitFails(o) ==
  /\ step[o] = "submit"
  /\ Deploy(wallet[o]) \/ UNCHANGED rules
  /\ StartOver(o)
  /\ UNCHANGED <<agentSeq, txs, users, handler>>

Ask(o) ==
  /\ step[o] = "authorize"
  /\ \E r \in Requests :
       /\ pc[r] = "out"
       /\ pc' = [pc EXCEPT ![r] = "before"]
       /\ target' = [target EXCEPT ![r] = wallet[o]]
       /\ asked' = [asked EXCEPT ![o] = r]
  /\ step' = [step EXCEPT ![o] = "waiting"]
  /\ UNCHANGED <<chain, users, wallet, answer, adding, seqno, ids>>

TakeAnswer(o) ==
  /\ step[o] = "waiting" /\ pc[asked[o]] = "ok"
  /\ answer' = [answer EXCEPT ![o] = ids[asked[o]]]
  /\ step' = [step EXCEPT ![o] = "register"]
  /\ UNCHANGED <<chain, users, wallet, asked, handler>>

AskAgain(o) ==
  /\ step' = [step EXCEPT ![o] = "authorize"]
  /\ asked' = [asked EXCEPT ![o] = NoRequest]
  /\ UNCHANGED <<wallet, answer>>

\* withRetry asks again for the account; the wizard leaves it.
TakeError(o) ==
  /\ step[o] = "waiting" /\ pc[asked[o]] = "error"
  /\ AskAgain(o) \/ StartOver(o)
  /\ UNCHANGED <<chain, users, handler>>

\* The page is closed or the connection is reset; the request goes on in the
\* server.  After a reset withRetry asks again at once.
GiveUp(o) ==
  /\ step[o] = "waiting" /\ Working(asked[o])
  /\ StartOver(o) \/ ("overlap" \in Events /\ AskAgain(o))
  /\ UNCHANGED <<chain, users, handler>>

\* registerUser upserts by owner; the wizard may be started again afterwards.
Register(o) ==
  /\ step[o] = "register"
  /\ users' = [users EXCEPT ![o] = [wallet |-> wallet[o], ids |-> answer[o]]]
  /\ StartOver(o)
  /\ UNCHANGED <<chain, handler>>

\* The call fails, before or after the document is written.
RegisterFails(o) ==
  /\ "db" \in Events
  /\ step[o] = "register"
  /\ StartOver(o)
  /\ UNCHANGED <<chain, users, handler>>

-----------------------------------------------------------------------------
(***************************************************************************)
(* POST /api/authorize.                                                    *)
(***************************************************************************)
Goto(r, l) == pc' = [pc EXCEPT ![r] = l]

\* The sanity read of the rule count; it throws for what is not an account.
ReadBefore(r) ==
  /\ pc[r] = "before"
  /\ rules[target[r]] # <<>>
  /\ Goto(r, "build")
  /\ UNCHANGED <<chain, users, client, target, adding, seqno, ids>>

\* Any await throws: the catch answers 500.
Throws(r) ==
  /\ \/ "rpc" \in Events /\ pc[r] \in AtWork \ {"log"}
     \/ "db" \in Events /\ pc[r] = "log"
     \/ "crash" \in Events /\ Working(r)
  /\ Goto(r, "error")
  /\ UNCHANGED <<chain, users, client, target, adding, seqno, ids>>

\* submitOwnerRule: buildAgentAuth takes the next sequence number, ...
Build(r) ==
  /\ pc[r] = "build"
  /\ seqno' = [seqno EXCEPT ![r] = agentSeq + 1]
  /\ Goto(r, "send")
  /\ UNCHANGED <<chain, users, client, target, adding, ids>>

Tx(r) == <<r, adding[r]>>
Accept(r) == txs' = [txs EXCEPT ![Tx(r)] = [status |-> "pending", seq |-> seqno[r]]]

\* ... the network takes the signed tx, ...
Send(r) ==
  /\ pc[r] = "send"
  /\ Accept(r)
  /\ Goto(r, "poll")
  /\ UNCHANGED <<rules, agentSeq, users, client, target, adding, seqno, ids>>

\* ... or takes it but the answer is lost, ...
SendThrows(r) ==
  /\ "rpc" \in Events
  /\ pc[r] = "send"
  /\ Accept(r)
  /\ Goto(r, "error")
  /\ UNCHANGED <<rules, agentSeq, users, client, target, adding, seqno, ids>>

\* ... or answers ERROR or TRY_AGAIN_LATER: the number is used up, or another
\* tx of the account is queued.
Pending == {t \in Txs : txs[t].status = "pending"}
SendRefused(r) ==
  /\ pc[r] = "send"
  /\ seqno[r] <= agentSeq \/ Pending # {}
  /\ Goto(r, "error")
  /\ UNCHANGED <<chain, users, client, target, adding, seqno, ids>>

\* The final status after polling.
Found(t) == txs[t].status \in {"success", "expired"}  \* mutant: NOT_FOUND passes
Confirmed(t) == txs[t].status = "success"

PollSuccess(r) ==
  /\ pc[r] = "poll"
  /\ Confirmed(Tx(r))
  /\ Goto(r, "capture")
  /\ UNCHANGED <<chain, users, client, target, adding, seqno, ids>>

PollFails(r) ==
  /\ pc[r] = "poll"
  /\ \/ txs[Tx(r)].status \in {"failed", "expired"}
     \/ txs[Tx(r)].status = "pending" /\ "late" \in Events
  /\ Goto(r, "error")
  /\ UNCHANGED <<chain, users, client, target, adding, seqno, ids>>

\* readContextRulesCount after the rule landed: the newest has id count - 1.
PairIds(r) ==                                     \* mutant: count - 2 for the first
  IF adding[r] = "pool" THEN Len(rules[target[r]]) - 2 ELSE Len(rules[target[r]]) - 1
NewestId(r) == Len(rules[target[r]]) - 1

Capture(r) ==
  /\ pc[r] = "capture"
  /\ ids' = [ids EXCEPT ![r][adding[r]] = NewestId(r)]
  /\ adding' = [adding EXCEPT ![r] = "usdc"]
  /\ Goto(r, IF adding[r] = "pool" THEN "build" ELSE "log")
  /\ UNCHANGED <<chain, users, client, target, seqno>>

Log(r) ==
  /\ pc[r] = "log"
  /\ Goto(r, "ok")
  /\ UNCHANGED <<chain, users, client, target, adding, seqno, ids>>

-----------------------------------------------------------------------------
(***************************************************************************)
(* The ledger (external).                                                  *)
(***************************************************************************)
Final(t, s) == txs' = [txs EXCEPT ![t].status = s]
IsNext(t) == txs[t].status = "pending" /\ txs[t].seq = agentSeq + 1

\* add_context_rule appends.
Land(t) ==
  /\ IsNext(t)
  /\ Final(t, "success")
  /\ rules' = [rules EXCEPT ![target[t[1]]] = Append(@, t[2])]
  /\ agentSeq' = agentSeq + 1
  /\ UNCHANGED <<users, client, handler>>

LandFails(t) ==
  /\ "rpc" \in Events
  /\ IsNext(t)
  /\ Final(t, "failed")
  /\ agentSeq' = agentSeq + 1
  /\ UNCHANGED <<rules, users, client, handler>>

Expire(t) ==
  /\ txs[t].status = "pending"
  /\ txs[t].seq <= agentSeq \/ "late" \in Events
  /\ Final(t, "expired")
  /\ UNCHANGED <<rules, agentSeq, users, client, handler>>

\* A tick supplies for some user.
OtherTx ==
  /\ agentSeq < MaxSeq
  /\ agentSeq' = agentSeq + 1
  /\ UNCHANGED <<rules, txs, users, client, handler>>

-----------------------------------------------------------------------------
ClientStep(o) ==
  \/ Prepare(o) \/ Submit(o) \/ SubmitFails(o)
  \/ Ask(o) \/ TakeAnswer(o) \/ TakeError(o) \/ GiveUp(o)
  \/ Register(o) \/ RegisterFails(o)
RequestStep(r) ==
  \/ ReadBefore(r) \/ Throws(r)
  \/ Build(r) \/ Send(r) \/ SendThrows(r) \/ SendRefused(r)
  \/ PollSuccess(r) \/ PollFails(r) \/ Capture(r) \/ Log(r)
LedgerStep(t) == Land(t) \/ LandFails(t) \/ Expire(t)

Next == \/ \E o \in Owners : ClientStep(o)
        \/ \E r \in Requests : RequestStep(r)
        \/ \E t \in Txs : LedgerStep(t)
        \/ OtherTx

Spec == Init /\ [][Next]_vars

-----------------------------------------------------------------------------
(***************************************************************************)
(* Properties.                                                             *)
(***************************************************************************)
Names(w, i, k) == i + 1 \in DOMAIN rules[w] /\ rules[w][i + 1] = k

\* What the agent will sign with: the ids registered for an account name its
\* pool rule and its USDC rule, whatever earlier requests for it failed, were
\* killed or had their transactions land late ("newest rule = count - 1").
RegisteredIdsNameRules ==
  \A o \in Owners : users[o] # NotRegistered =>
    \A k \in RuleKinds : Names(users[o].wallet, users[o].ids[k], k)

\* No two requests that answered success name the same rule, and the one that
\* answered has both of its own rules on chain.
AnswersAreOwn ==
  \A r \in Requests : pc[r] = "ok" =>
    /\ \A k \in RuleKinds : txs[<<r, k>>].status = "success"
    /\ \A q \in Requests : pc[q] = "ok" /\ target[q] = target[r] /\ q # r =>
         \A k, l \in RuleKinds : ids[q][k] # ids[r][l]
=============================================================================
