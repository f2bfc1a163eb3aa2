-------------------------- MODULE Authorize_proofs --------------------------
(***************************************************************************)
(* Theorems about Authorize, for every set of owners, accounts and         *)
(* requests and every choice of Events without "overlap".                  *)
(***************************************************************************)
EXTENDS Authorize, TLAPS

-----------------------------------------------------------------------------
(***************************************************************************)
(* The inductive invariant.                                                *)
(***************************************************************************)
\* An account has one client at a time; it is deployed once, before the client
\* asks for its rules, and has a rule ever since.
AccountsApart ==
  /\ \A o, p \in Owners : wallet[o] = wallet[p] /\ wallet[o] # NoWallet => o = p
  /\ \A o \in Owners :
       /\ step[o] = "submit" => rules[wallet[o]] = <<>>
       /\ step[o] \in {"authorize", "waiting", "register"} => rules[wallet[o]] # <<>>

\* A request adds rules to an account that exists, the pool rule first.
RequestsHaveAccount ==
  \A r \in Requests :
    /\ pc[r] # "out" => target[r] \in Wallets /\ rules[target[r]] # <<>>
    /\ pc[r] \in {"out", "before"} => adding[r] = "pool"
    /\ pc[r] = "out" => \A k \in RuleKinds : txs[<<r, k>>] = NoTx
    /\ pc[r] \in {"log", "ok"} => adding[r] = "usdc"

\* The client waits for a request for its own account and registers what that
\* request answered.
AnswersFit ==
  \A o \in Owners :
    /\ step[o] \in {"waiting", "register"} =>
         pc[asked[o]] # "out" /\ target[asked[o]] = wallet[o]
    /\ step[o] = "register" => pc[asked[o]] = "ok" /\ answer[o] = ids[asked[o]]

\* At most one request goes on for an account; while a client has the account,
\* it is the one the client waits for.
OneAtWork ==
  /\ \A q, r \in Requests :
       Working(q) /\ Working(r) /\ target[q] = target[r] => q = r
  /\ \A o \in Owners : \A r \in Requests :
       Working(r) /\ target[r] = wallet[o] => step[o] = "waiting" /\ asked[o] = r

BaseInv == TypeOK /\ AccountsApart /\ RequestsHaveAccount

\* No sequence number is ahead of the ledger's next, and what succeeded has
\* used its number up.
SeqNumbers ==
  /\ \A r \in Requests : seqno[r] <= agentSeq + 1
  /\ \A t \in Txs : /\ txs[t].seq <= agentSeq + 1
                    /\ txs[t].status = "success" => txs[t].seq <= agentSeq

\* No transaction for the account, sent before or by another request, can land
\* once the tx a request has built or sent has landed.
NoneBehind ==
  \A r \in Requests :
    /\ pc[r] \in {"send", "poll", "capture"} =>
         \A q \in Requests, k \in RuleKinds :
           target[q] = target[r] => txs[<<q, k>>].seq <= seqno[r]
    /\ pc[r] \in {"poll", "capture"} => txs[Tx(r)].seq = seqno[r]
    /\ pc[r] = "capture" => Confirmed(Tx(r))

\* The rules whose ids a request has read.
Captured(r) == {k \in RuleKinds : \/ k = "pool" /\ adding[r] = "usdc"
                                  \/ k = "usdc" /\ pc[r] \in {"log", "ok"}}

\* From the landing of a request's tx to the reading of the id, the newest rule
\* of the account is the one that tx added, and no request has its id.
NewestIsOwn ==
  \A r \in Requests : pc[r] \in {"poll", "capture"} /\ Confirmed(Tx(r)) =>
    /\ rules[target[r]][Len(rules[target[r]])] = adding[r]
    /\ \A q \in Requests : target[q] = target[r] =>
         \A k \in Captured(q) : ids[q][k] # NewestId(r)

\* An id that was read names the rule the request added, ...
CapturedNames ==
  \A r \in Requests : \A k \in Captured(r) :
    Confirmed(<<r, k>>) /\ Names(target[r], ids[r][k], k)

\* ... which no other request has added.
CapturedApart ==
  \A q, r \in Requests : q # r /\ target[q] = target[r] =>
    \A k \in Captured(q), l \in Captured(r) : ids[q][k] # ids[r][l]

LedgerInv ==
  SeqNumbers /\ NoneBehind /\ NewestIsOwn /\ CapturedNames /\ CapturedApart

AuthorizeInv ==
  BaseInv /\ AnswersFit /\ OneAtWork /\ LedgerInv /\ RegisteredIdsNameRules

\* A step of the ledger.
LedgerStepTaken == (\E t \in Txs : LedgerStep(t)) \/ OtherTx

\* No client asks for an account a request still works on: the wizard starts
\* over with a new account, and withRetry waits for the answer.
NoOverlap == "overlap" \notin Events

-----------------------------------------------------------------------------
(***************************************************************************)
(* Type correctness.                                                       *)
(***************************************************************************)
LEMMA TypeInit == ASSUME AuthorizeConstantsOK, Init PROVE TypeOK
BY DEF AuthorizeConstantsOK, Init, TypeOK, Txs, RuleKinds, NoTx, NoIds, NotRegistered, AtWork

ClientTypes ==
  /\ step \in [Owners -> {"out", "submit", "authorize", "waiting", "register"}]
  /\ wallet \in [Owners -> Wallets \cup {NoWallet}]
  /\ asked \in [Owners -> Requests \cup {NoRequest}]
  /\ answer \in [Owners -> [RuleKinds -> Nat]]
  /\ \A o \in Owners : /\ wallet[o] = NoWallet <=> step[o] = "out"
                       /\ asked[o] = NoRequest <=> step[o] \notin {"waiting", "register"}

\* Starting over and asking again leave the client with the locals of its step.
LEMMA StartOverType ==
  ASSUME TypeOK, NEW o \in Owners, step[o] # "out",
         StartOver(o) \/ (step[o] = "waiting" /\ AskAgain(o))
  PROVE  ClientTypes'
<1>1. NoIds \in [RuleKinds -> Nat]
  BY DEF NoIds
<1>2. CASE StartOver(o)
  BY <1>1, <1>2 DEF StartOver, TypeOK, ClientTypes
<1>3. CASE step[o] = "waiting" /\ AskAgain(o)
  <2>1. /\ step' = [step EXCEPT ![o] = "authorize"]
        /\ asked' = [asked EXCEPT ![o] = NoRequest]
        /\ wallet' = wallet /\ answer' = answer
    BY <1>3 DEF AskAgain
  <2>2. \A p \in Owners : /\ wallet'[p] = NoWallet <=> step'[p] = "out"
                          /\ asked'[p] = NoRequest <=> step'[p] \notin {"waiting", "register"}
    BY <1>3, <2>1 DEF TypeOK
  <2>3. step' \in [Owners -> {"out", "submit", "authorize", "waiting", "register"}]
    BY <1>3, <2>1 DEF TypeOK
  <2>4. asked' \in [Owners -> Requests \cup {NoRequest}]
    BY <1>3, <2>1 DEF TypeOK
  <2>. QED BY <2>1, <2>2, <2>3, <2>4 DEF TypeOK, ClientTypes
<1>. QED BY <1>2, <1>3

\* The deploy transaction leaves the owner's rule.
LEMMA DeployType ==
  ASSUME TypeOK, NEW w, Deploy(w)
  PROVE  rules' \in [Wallets -> Seq(RuleKinds \cup {"owner"})]
<1>1. <<"owner">> \in Seq(RuleKinds \cup {"owner"})
  OBVIOUS
<1>. QED BY <1>1 DEF Deploy, TypeOK

\* Every step of a client keeps the types.
LEMMA ClientType ==
  ASSUME AuthorizeConstantsOK, TypeOK, NEW o \in Owners, ClientStep(o)
  PROVE  TypeOK'
<1>. USE DEF chain, handler
<1>1. CASE Prepare(o)
  BY <1>1 DEF Prepare, AuthorizeConstantsOK, TypeOK
<1>2. CASE Submit(o)
  BY <1>2, DeployType DEF Submit, TypeOK
<1>3. CASE SubmitFails(o)
  <2>1. ClientTypes'
    BY <1>3, StartOverType DEF SubmitFails
  <2>. QED BY <1>3, <2>1, DeployType DEF SubmitFails, TypeOK, ClientTypes
<1>4. CASE Ask(o)
  BY <1>4 DEF Ask, AtWork, AuthorizeConstantsOK, TypeOK
<1>5. CASE TakeAnswer(o)
  <2>1. ids[asked[o]] \in [RuleKinds -> Nat] /\ asked[o] \in Requests
    BY <1>5 DEF TakeAnswer, TypeOK
  <2>. QED BY <1>5, <2>1 DEF TakeAnswer, TypeOK
<1>6. CASE TakeError(o) \/ GiveUp(o)
  <2>1. ClientTypes' /\ UNCHANGED <<chain, users, handler>>
    BY <1>6, StartOverType DEF TakeError, GiveUp
  <2>. QED BY <2>1 DEF TypeOK, ClientTypes
<1>7. CASE Register(o)
  <2>1. ClientTypes' /\ UNCHANGED <<chain, handler>>
    BY <1>7, StartOverType DEF Register
  <2>2. wallet[o] \in Wallets
    BY <1>7 DEF Register, TypeOK, ClientTypes
  <2>3. users' \in [Owners -> Registrations \cup {NotRegistered}]
    BY <1>7, <2>2 DEF Register, TypeOK, Registrations
  <2>. QED BY <2>1, <2>3 DEF TypeOK, ClientTypes
<1>8. CASE RegisterFails(o)
  <2>1. ClientTypes' /\ UNCHANGED <<chain, users, handler>>
    BY <1>8, StartOverType DEF RegisterFails
  <2>. QED BY <2>1 DEF TypeOK, ClientTypes
<1>. QED BY <1>1, <1>2, <1>3, <1>4, <1>5, <1>6, <1>7, <1>8 DEF ClientStep

\* What `txs` may hold.
TxRecords == [status : {"unsent", "pending", "success", "failed", "expired"}, seq : Nat]

\* Every step of a request but the reading of an id keeps the types.
LEMMA RequestType ==
  ASSUME TypeOK, NEW r \in Requests, RequestStep(r), ~ Capture(r)
  PROVE  TypeOK'
<1>. USE DEF chain, client, Goto, AtWork
<1>1. CASE ReadBefore(r) \/ Throws(r) \/ SendRefused(r) \/ PollSuccess(r) \/ PollFails(r) \/ Log(r)
  <2>1. /\ pc' \in [Requests -> AtWork \cup {"out", "ok", "error"}]
        /\ UNCHANGED <<chain, users, client, target, adding, seqno, ids>>
    BY <1>1 DEF TypeOK, ReadBefore, Throws, SendRefused, PollSuccess, PollFails, Log
  <2>. QED BY <2>1 DEF TypeOK
<1>2. CASE Build(r)
  BY <1>2 DEF Build, TypeOK
<1>3. CASE Send(r) \/ SendThrows(r)
  <2>1. txs' \in [Txs -> TxRecords]
    <3>1. seqno[r] \in Nat /\ txs \in [Txs -> TxRecords]
      BY DEF TypeOK, TxRecords
    <3>2. [status |-> "pending", seq |-> seqno[r]] \in TxRecords
      BY <3>1 DEF TxRecords
    <3>. QED BY <1>3, <3>1, <3>2 DEF Send, SendThrows, Accept
  <2>. QED BY <1>3, <2>1 DEF Send, SendThrows, TypeOK, TxRecords
<1>. QED BY <1>1, <1>2, <1>3 DEF RequestStep

\* The next transaction of the agent account becomes final.
LEMMA FinalType ==
  ASSUME TypeOK, NEW t \in Txs, NEW s \in {"success", "failed", "expired"}, Final(t, s)
  PROVE  txs' \in [Txs -> TxRecords]
BY DEF TypeOK, Final, TxRecords

\* Appending a rule keeps the rules there are.
LEMMA AppendRule ==
  ASSUME NEW S, NEW s \in Seq(S), NEW x \in S
  PROVE  /\ Append(s, x) \in Seq(S)
         /\ Append(s, x) # <<>>
         /\ Len(Append(s, x)) = Len(s) + 1
         /\ Append(s, x)[Len(s) + 1] = x
         /\ \A i \in DOMAIN s : i \in DOMAIN Append(s, x) /\ Append(s, x)[i] = s[i]
OBVIOUS

\* What becomes final was sent by a request.
LEMMA LandPending ==
  ASSUME BaseInv, NEW t \in Txs, txs[t].status = "pending"
  PROVE  /\ t[1] \in Requests /\ t[2] \in RuleKinds /\ t = <<t[1], t[2]>>
         /\ pc[t[1]] # "out"
<1>1. t[1] \in Requests /\ t[2] \in RuleKinds /\ t = <<t[1], t[2]>>
  BY DEF Txs
<1>. QED BY <1>1 DEF NoTx, BaseInv, RequestsHaveAccount

\* A rule that lands is added to the account of its request.
LEMMA LandRules ==
  ASSUME BaseInv, NEW t \in Txs, Land(t)
  PROVE  /\ target[t[1]] \in Wallets /\ t[1] \in Requests /\ t[2] \in RuleKinds
         /\ rules'[target[t[1]]] = Append(rules[target[t[1]]], t[2])
         /\ \A w \in Wallets \ {target[t[1]]} : rules'[w] = rules[w]
         /\ rules' \in [Wallets -> Seq(RuleKinds \cup {"owner"})]
<1>1. t[1] \in Requests /\ t[2] \in RuleKinds
  BY LandPending DEF Land, IsNext
<1>2. pc[t[1]] # "out"
  BY LandPending DEF Land, IsNext
<1>3. target[t[1]] \in Wallets
  BY <1>1, <1>2 DEF BaseInv, RequestsHaveAccount
<1>4. rules \in [Wallets -> Seq(RuleKinds \cup {"owner"})]
  BY DEF BaseInv, TypeOK
<1>5. Append(rules[target[t[1]]], t[2]) \in Seq(RuleKinds \cup {"owner"})
  BY <1>1, <1>3, <1>4, AppendRule
<1>6. rules' = [rules EXCEPT ![target[t[1]]] = Append(rules[target[t[1]]], t[2])]
  BY DEF Land
<1>. QED BY <1>1, <1>3, <1>4, <1>5, <1>6

\* The id a request reads is a number: its account has a rule.
LEMMA CaptureType ==
  ASSUME BaseInv, NEW r \in Requests, Capture(r)
  PROVE  /\ TypeOK'
         /\ NewestId(r) \in Nat
         /\ adding[r] \in RuleKinds
<1>1. target[r] \in Wallets /\ rules[target[r]] # <<>> /\ adding[r] \in RuleKinds
  BY DEF BaseInv, RequestsHaveAccount, Capture, TypeOK
<1>2. rules[target[r]] \in Seq(RuleKinds \cup {"owner"})
  BY <1>1 DEF BaseInv, TypeOK
<1>3. NewestId(r) \in Nat
  <2>1. Len(rules[target[r]]) \in Nat /\ Len(rules[target[r]]) # 0
    BY <1>1, <1>2
  <2>. QED BY <2>1 DEF NewestId
<1>4. ids' \in [Requests -> [RuleKinds -> Nat]]
  BY <1>3 DEF BaseInv, TypeOK, Capture
<1>5. /\ pc' \in [Requests -> AtWork \cup {"out", "ok", "error"}]
      /\ adding' \in [Requests -> RuleKinds]
      /\ UNCHANGED <<chain, users, client, target, seqno>>
  BY DEF BaseInv, TypeOK, Capture, Goto, AtWork, RuleKinds
<1>. QED BY <1>1, <1>3, <1>4, <1>5 DEF BaseInv, TypeOK, chain, client

LEMMA LedgerType ==
  ASSUME BaseInv, LedgerStepTaken
  PROVE  TypeOK'
<1>. USE DEF client, handler
<1>1. ASSUME NEW t \in Txs, Land(t) PROVE TypeOK'
  <2>1. rules' \in [Wallets -> Seq(RuleKinds \cup {"owner"})]
    BY <1>1, LandRules
  <2>2. txs' \in [Txs -> TxRecords]
    BY <1>1, FinalType DEF Land, BaseInv
  <2>. QED BY <1>1, <2>1, <2>2 DEF Land, BaseInv, TypeOK, TxRecords
<1>2. ASSUME NEW t \in Txs, LandFails(t) \/ Expire(t) PROVE TypeOK'
  <2>1. txs' \in [Txs -> TxRecords]
    BY <1>2, FinalType DEF LandFails, Expire, BaseInv
  <2>2. agentSeq' \in Nat /\ UNCHANGED <<rules, users, client, handler>>
    BY <1>2 DEF LandFails, Expire, BaseInv, TypeOK
  <2>. QED BY <2>1, <2>2 DEF BaseInv, TypeOK, TxRecords
<1>3. CASE OtherTx
  BY <1>3 DEF OtherTx, BaseInv, TypeOK
<1>. QED BY <1>1, <1>2, <1>3 DEF LedgerStepTaken, LedgerStep

LEMMA StutterType == ASSUME TypeOK, UNCHANGED vars PROVE TypeOK'
BY DEF TypeOK, vars

LEMMA TypeNext == ASSUME AuthorizeConstantsOK, BaseInv, [Next]_vars PROVE TypeOK'
BY ClientType, RequestType, CaptureType, LedgerType, StutterType
DEF Next, BaseInv, LedgerStepTaken

-----------------------------------------------------------------------------
(***************************************************************************)
(* Accounts: deployed once, and before anyone works on them.               *)
(***************************************************************************)
\* What may happen to an account that has rules: it keeps them.
RulesGrow ==
  \A w \in Wallets : rules[w] # <<>> =>
    /\ rules'[w] # <<>>
    /\ \A i \in DOMAIN rules[w] : i \in DOMAIN rules'[w] /\ rules'[w][i] = rules[w][i]

\* Only an account without rules is deployed.
LEMMA DeployGrows ==
  ASSUME BaseInv, NEW o \in Owners, step[o] = "submit", Deploy(wallet[o]) \/ UNCHANGED rules
  PROVE  RulesGrow
<1>1. wallet[o] \in Wallets /\ rules[wallet[o]] = <<>>
  BY DEF BaseInv, TypeOK, AccountsApart
<1>. QED BY <1>1 DEF Deploy, RulesGrow, BaseInv, TypeOK

LEMMA RulesNext == ASSUME BaseInv, [Next]_vars PROVE RulesGrow
<1>1. ASSUME NEW t \in Txs, Land(t) PROVE RulesGrow
  <2>. DEFINE x == target[t[1]]
  <2>1. rules[x] \in Seq(RuleKinds \cup {"owner"}) /\ t[2] \in RuleKinds \cup {"owner"}
    BY <1>1, LandRules DEF BaseInv, TypeOK
  <2>2. /\ rules'[x] # <<>>
        /\ \A i \in DOMAIN rules[x] : i \in DOMAIN rules'[x] /\ rules'[x][i] = rules[x][i]
    BY <1>1, <2>1, LandRules, AppendRule
  <2>. QED BY <1>1, <2>2, LandRules DEF RulesGrow
<1>2. ASSUME NEW o \in Owners, Submit(o) \/ SubmitFails(o) PROVE RulesGrow
  BY <1>2, DeployGrows DEF Submit, SubmitFails
<1>3. CASE UNCHANGED rules
  BY <1>3 DEF RulesGrow
<1>4. ASSUME NEW r \in Requests, RequestStep(r) PROVE UNCHANGED rules
  BY <1>4 DEF RequestStep, ReadBefore, Throws, Build, Send, SendThrows, SendRefused,
     PollSuccess, PollFails, Capture, Log, chain
<1>5. ASSUME NEW o \in Owners, ClientStep(o), ~ Submit(o), ~ SubmitFails(o) PROVE UNCHANGED rules
  BY <1>5 DEF ClientStep, Prepare, Ask, TakeAnswer, TakeError, GiveUp, Register,
     RegisterFails, chain
<1>6. ASSUME NEW t \in Txs, LedgerStep(t), ~ Land(t) PROVE UNCHANGED rules
  BY <1>6 DEF LedgerStep, LandFails, Expire
<1>. QED
  BY <1>1, <1>2, <1>3, <1>4, <1>5, <1>6 DEF Next, OtherTx, vars

LEMMA ClientBase ==
  ASSUME AuthorizeConstantsOK, BaseInv, NEW o \in Owners, ClientStep(o)
  PROVE  AccountsApart' /\ RequestsHaveAccount'
<1>1. RulesGrow
  BY RulesNext DEF Next
<1>. USE DEF BaseInv, chain, handler
<1>2. CASE Prepare(o)
  <2>1. AccountsApart'
    BY <1>2 DEF Prepare, Fresh, AccountsApart, TypeOK, AuthorizeConstantsOK
  <2>. QED BY <1>2, <2>1 DEF Prepare, RequestsHaveAccount
<1>3. CASE Submit(o)
  <2>1. AccountsApart'
    BY <1>1, <1>3 DEF Submit, Deploy, AccountsApart, TypeOK
  <2>. QED BY <1>1, <1>3, <2>1 DEF Submit, RequestsHaveAccount, RulesGrow
<1>4. CASE SubmitFails(o)
  <2>1. AccountsApart'
    BY <1>1, <1>4 DEF SubmitFails, Deploy, StartOver, AccountsApart, TypeOK, RulesGrow
  <2>. QED BY <1>1, <1>4, <2>1 DEF SubmitFails, RequestsHaveAccount, RulesGrow
<1>5. CASE Ask(o)
  <2>1. AccountsApart'
    BY <1>5 DEF Ask, AccountsApart, TypeOK
  <2>2. RequestsHaveAccount'
    BY <1>5 DEF Ask, RequestsHaveAccount, AccountsApart, TypeOK
  <2>. QED BY <2>1, <2>2
<1>6. CASE TakeAnswer(o)
  BY <1>6 DEF TakeAnswer, AccountsApart, RequestsHaveAccount, TypeOK
<1>7. CASE TakeError(o) \/ GiveUp(o) \/ Register(o) \/ RegisterFails(o)
  <2>1. StartOver(o) \/ (step[o] = "waiting" /\ AskAgain(o))
    BY <1>7 DEF TakeError, GiveUp, Register, RegisterFails
  <2>2. UNCHANGED <<chain, handler>>
    BY <1>7 DEF TakeError, GiveUp, Register, RegisterFails
  <2>3. \A p \in Owners : wallet'[p] \in {wallet[p], NoWallet}
    BY <2>1 DEF StartOver, AskAgain, TypeOK
  <2>4. \A p \in Owners : /\ step'[p] # "submit" \/ (step[p] = "submit" /\ wallet'[p] = wallet[p])
                          /\ step'[p] \in {"authorize", "waiting", "register"} =>
                               /\ step[p] \in {"authorize", "waiting", "register"}
                               /\ wallet'[p] = wallet[p]
    BY <2>1 DEF StartOver, AskAgain, TypeOK
  <2>5. AccountsApart'
    BY <2>2, <2>3, <2>4 DEF AccountsApart
  <2>. QED BY <2>2, <2>5 DEF RequestsHaveAccount
<1>. QED BY <1>2, <1>3, <1>4, <1>5, <1>6, <1>7 DEF ClientStep

LEMMA RequestBase ==
  ASSUME BaseInv, NEW r \in Requests, RequestStep(r)
  PROVE  AccountsApart' /\ RequestsHaveAccount'
<1>. USE DEF BaseInv, chain, client, Goto
<1>1. UNCHANGED <<rules, step, wallet, target>>
  BY DEF RequestStep, ReadBefore, Throws, Build, Send, SendThrows, SendRefused, PollSuccess,
     PollFails, Capture, Log
<1>2. AccountsApart'
  BY <1>1 DEF AccountsApart
<1>3. CASE Capture(r)
  <2>1. /\ pc[r] = "capture" /\ pc'[r] \in {"build", "log"} /\ adding'[r] = "usdc"
        /\ \A q \in Requests \ {r} : pc'[q] = pc[q] /\ adding'[q] = adding[q]
        /\ txs' = txs
    BY <1>3 DEF Capture, TypeOK
  <2>. QED BY <1>1, <1>2, <2>1 DEF RequestsHaveAccount
<1>4. CASE Send(r) \/ SendThrows(r)
  <2>1. \A q \in Requests \ {r} : \A k \in RuleKinds : txs'[<<q, k>>] = txs[<<q, k>>]
    BY <1>4 DEF Send, SendThrows, Accept, Tx, TypeOK, Txs
  <2>2. /\ pc[r] = "send" /\ pc'[r] \in {"poll", "error"}
        /\ \A q \in Requests \ {r} : pc'[q] = pc[q]
        /\ adding' = adding
    BY <1>4 DEF Send, SendThrows, TypeOK
  <2>. QED BY <1>1, <1>2, <2>1, <2>2 DEF RequestsHaveAccount
<1>5. CASE ReadBefore(r) \/ Throws(r) \/ Build(r) \/ SendRefused(r) \/ PollSuccess(r)
           \/ PollFails(r) \/ Log(r)
  <2>1. /\ pc[r] \in AtWork /\ pc'[r] # "out" /\ pc'[r] # "before"
        /\ pc'[r] = "log" => pc[r] = "log"
        /\ pc'[r] = "ok" => pc[r] = "log"
        /\ \A q \in Requests \ {r} : pc'[q] = pc[q]
        /\ adding' = adding /\ txs' = txs
    BY <1>5 DEF ReadBefore, Throws, Build, SendRefused, PollSuccess, PollFails, Log,
       TypeOK, AtWork, Working
  <2>2. pc[r] # "out"
    BY <2>1 DEF AtWork
  <2>. QED BY <1>1, <1>2, <2>1, <2>2 DEF RequestsHaveAccount
<1>. QED BY <1>2, <1>3, <1>4, <1>5 DEF RequestStep

LEMMA LedgerBase ==
  ASSUME BaseInv, LedgerStepTaken
  PROVE  AccountsApart' /\ RequestsHaveAccount'
<1>. USE DEF BaseInv, client, handler
<1>1. RulesGrow
  BY RulesNext DEF LedgerStepTaken, Next
<1>2. UNCHANGED <<step, wallet, target, pc, adding>>
  BY DEF LedgerStepTaken, LedgerStep, Land, LandFails, Expire, OtherTx
<1>3. \A r \in Requests : pc[r] = "out" => \A k \in RuleKinds : txs'[<<r, k>>] = NoTx
  BY DEF LedgerStepTaken, LedgerStep, Land, LandFails, Expire, OtherTx, IsNext, Final, NoTx,
     RequestsHaveAccount, TypeOK, Txs
<1>4. RequestsHaveAccount'
  BY <1>1, <1>2, <1>3 DEF RequestsHaveAccount, RulesGrow
<1>5. AccountsApart'
  <2>1. ASSUME NEW t \in Txs, Land(t) PROVE AccountsApart'
    <3>1. rules[target[t[1]]] # <<>>
      BY <2>1, LandPending DEF RequestsHaveAccount, Land, IsNext
    <3>2. \A w \in Wallets : rules[w] = <<>> => rules'[w] = <<>>
      BY <2>1, <3>1, LandRules
    <3>3. \A o \in Owners : step[o] # "out" => wallet[o] \in Wallets
      BY DEF TypeOK
    <3>. QED BY <1>1, <1>2, <3>2, <3>3 DEF AccountsApart, RulesGrow
  <2>2. CASE UNCHANGED rules
    BY <1>2, <2>2 DEF AccountsApart
  <2>. QED BY <2>1, <2>2 DEF LedgerStepTaken, LedgerStep, LandFails, Expire, OtherTx
<1>. QED BY <1>4, <1>5

LEMMA StutterBase == ASSUME BaseInv, UNCHANGED vars PROVE AccountsApart' /\ RequestsHaveAccount'
BY DEF BaseInv, AccountsApart, RequestsHaveAccount, vars

LEMMA BaseInit == ASSUME AuthorizeConstantsOK, Init PROVE BaseInv
BY TypeInit DEF Init, BaseInv, AccountsApart, RequestsHaveAccount, Txs, RuleKinds

LEMMA BaseNext == ASSUME AuthorizeConstantsOK, BaseInv, [Next]_vars PROVE BaseInv'
BY TypeNext, ClientBase, RequestBase, LedgerBase, StutterBase
DEF Next, LedgerStepTaken, BaseInv

\* Every variable keeps its type and the client has the locals of its step;
\* with it, an account is deployed once, before a request works on it, and
\* two owners never have the same one (the salt of prepare is random).
THEOREM TypeCorrect == Spec => []BaseInv
<1>1. Init => BaseInv
  BY BaseInit, AuthorizeConstantsOK
<1>2. BaseInv /\ [Next]_vars => BaseInv'
  BY BaseNext, AuthorizeConstantsOK
<1>. QED BY <1>1, <1>2, PTL DEF Spec

\* The type invariant of the runs.
THEOREM TypesKept == Spec => []TypeOK
<1>1. BaseInv => TypeOK
  BY DEF BaseInv
<1>. QED BY <1>1, TypeCorrect, PTL

-----------------------------------------------------------------------------
(***************************************************************************)
(* One request at work for an account.                                     *)
(***************************************************************************)
WorkInv == AnswersFit /\ OneAtWork

LEMMA WorkClient ==
  ASSUME AuthorizeConstantsOK, NoOverlap, BaseInv, WorkInv, NEW o \in Owners, ClientStep(o)
  PROVE  WorkInv'
<1>. USE DEF BaseInv, WorkInv, handler
<1>1. \A r \in Requests : Working(r) => pc[r] # "out" /\ target[r] \in Wallets
  BY DEF Working, AtWork, RequestsHaveAccount
<1>2. CASE Prepare(o)
  <2>. PICK w \in Wallets : Fresh(w) /\ wallet' = [wallet EXCEPT ![o] = w]
    BY <1>2 DEF Prepare
  <2>1. \A r \in Requests : Working(r) => target[r] # w
    BY <1>1 DEF Fresh, RequestsHaveAccount
  <2>2. AnswersFit'
    BY <1>2 DEF Prepare, AnswersFit, TypeOK
  <2>3. OneAtWork'
    BY <1>2, <2>1 DEF Prepare, OneAtWork, TypeOK, Working
  <2>. QED BY <2>2, <2>3
<1>3. CASE Submit(o)
  BY <1>3 DEF Submit, AnswersFit, OneAtWork, TypeOK, Working
<1>4. CASE Ask(o)
  <2>. PICK r \in Requests :
         /\ pc[r] = "out"
         /\ pc' = [pc EXCEPT ![r] = "before"]
         /\ target' = [target EXCEPT ![r] = wallet[o]]
         /\ asked' = [asked EXCEPT ![o] = r]
    BY <1>4 DEF Ask
  <2>1. step[o] = "authorize" /\ step' = [step EXCEPT ![o] = "waiting"]
        /\ UNCHANGED <<wallet, answer, ids>>
    BY <1>4 DEF Ask
  <2>2. AnswersFit'
    BY <2>1 DEF AnswersFit, TypeOK
  <2>3. /\ Working(r)' /\ ~ Working(r) /\ target'[r] = wallet[o]
        /\ \A q \in Requests \ {r} : Working(q)' = Working(q) /\ target'[q] = target[q]
    BY DEF Working, AtWork, TypeOK
  <2>4. \A q \in Requests : Working(q) => target[q] # wallet[o]
    BY <2>1 DEF OneAtWork
  <2>5. wallet[o] # NoWallet
    BY <2>1 DEF TypeOK
  <2>6. \A p \in Owners : wallet[p] = wallet[o] => p = o
    BY <2>5 DEF AccountsApart
  <2>7. \A p, q \in Requests :
          Working(p)' /\ Working(q)' /\ target'[p] = target'[q] => p = q
    BY <2>3, <2>4 DEF OneAtWork
  <2>8. \A p \in Owners : \A q \in Requests :
          Working(q)' /\ target'[q] = wallet[p] => step'[p] = "waiting" /\ asked'[p] = q
    <3>. SUFFICES ASSUME NEW p \in Owners, NEW q \in Requests,
                         Working(q)', target'[q] = wallet[p]
                  PROVE  step'[p] = "waiting" /\ asked'[p] = q
      OBVIOUS
    <3>1. CASE q = r
      BY <2>1, <2>3, <2>6, <3>1 DEF TypeOK
    <3>2. CASE q # r
      BY <2>1, <2>3, <2>4, <3>2 DEF OneAtWork, TypeOK
    <3>. QED BY <3>1, <3>2
  <2>. QED BY <2>1, <2>2, <2>7, <2>8 DEF OneAtWork
<1>5. CASE TakeAnswer(o)
  <2>1. ~ Working(asked[o])
    BY <1>5 DEF TakeAnswer, Working, AtWork
  <2>2. AnswersFit'
    BY <1>5 DEF TakeAnswer, AnswersFit, TypeOK
  <2>3. OneAtWork'
    BY <1>5, <2>1 DEF TakeAnswer, OneAtWork, TypeOK, Working
  <2>. QED BY <2>2, <2>3
<1>6. CASE SubmitFails(o) \/ TakeError(o) \/ GiveUp(o) \/ Register(o) \/ RegisterFails(o)
  <2>1. StartOver(o) \/ (step[o] = "waiting" /\ pc[asked[o]] = "error" /\ AskAgain(o))
    BY <1>6 DEF SubmitFails, TakeError, GiveUp, Register, RegisterFails, NoOverlap
  <2>2. UNCHANGED handler
    BY <1>6 DEF SubmitFails, TakeError, GiveUp, Register, RegisterFails
  <2>3. AnswersFit'
    <3>1. \A p \in Owners : step'[p] \in {"waiting", "register"} =>
            /\ step[p] = step'[p] /\ asked'[p] = asked[p]
            /\ wallet'[p] = wallet[p] /\ answer'[p] = answer[p]
      BY <2>1 DEF StartOver, AskAgain, TypeOK
    <3>. QED BY <2>2, <3>1 DEF AnswersFit
  <2>4. \A r \in Requests : Working(r)' = Working(r)
    BY <2>2 DEF Working
  <2>5. \A r \in Requests : Working(r) => target[r] # NoWallet
    BY <1>1 DEF AuthorizeConstantsOK
  <2>6. CASE StartOver(o)
    <3>1. /\ wallet'[o] = NoWallet
          /\ \A p \in Owners \ {o} : /\ wallet'[p] = wallet[p]
                                     /\ step'[p] = step[p] /\ asked'[p] = asked[p]
      BY <2>6 DEF StartOver, TypeOK
    <3>. QED BY <2>2, <2>3, <2>4, <2>5, <3>1 DEF OneAtWork
  <2>7. CASE step[o] = "waiting" /\ pc[asked[o]] = "error" /\ AskAgain(o)
    <3>1. ~ Working(asked[o])
      BY <2>7 DEF Working, AtWork
    <3>2. \A r \in Requests : Working(r) => target[r] # wallet[o]
      BY <3>1 DEF OneAtWork
    <3>3. /\ wallet' = wallet
          /\ \A p \in Owners \ {o} : step'[p] = step[p] /\ asked'[p] = asked[p]
      BY <2>7 DEF AskAgain, TypeOK
    <3>. QED BY <2>2, <2>3, <2>4, <3>2, <3>3 DEF OneAtWork
  <2>. QED BY <2>1, <2>6, <2>7
<1>. QED BY <1>2, <1>3, <1>4, <1>5, <1>6 DEF ClientStep

\* A step of a request goes on or ends the work; ids and answers of requests
\* that ended are left alone.
LEMMA RequestFrame ==
  ASSUME BaseInv, NEW r \in Requests, RequestStep(r)
  PROVE  /\ Working(r)
         /\ pc'[r] # "out"
         /\ \A q \in Requests \ {r} : pc'[q] = pc[q] /\ ids'[q] = ids[q]
         /\ UNCHANGED <<client, users, target, rules, agentSeq>>
<1>. USE DEF chain, Goto, Working, AtWork, BaseInv, TypeOK
<1>1. CASE Capture(r)
  BY <1>1 DEF Capture
<1>2. CASE Send(r) \/ SendThrows(r)
  BY <1>2 DEF Send, SendThrows
<1>3. CASE Build(r)
  BY <1>3 DEF Build
<1>4. CASE ReadBefore(r) \/ Throws(r) \/ SendRefused(r) \/ PollSuccess(r) \/ PollFails(r) \/ Log(r)
  BY <1>4 DEF ReadBefore, Throws, SendRefused, PollSuccess, PollFails, Log
<1>. QED BY <1>1, <1>2, <1>3, <1>4 DEF RequestStep

LEMMA WorkRequest ==
  ASSUME BaseInv, WorkInv, NEW r \in Requests, RequestStep(r)
  PROVE  WorkInv'
<1>1. /\ Working(r) /\ pc'[r] # "out"
      /\ \A q \in Requests \ {r} : pc'[q] = pc[q] /\ ids'[q] = ids[q]
      /\ UNCHANGED <<step, wallet, asked, answer, target>>
  BY RequestFrame DEF client
<1>2. \A q \in Requests : Working(q)' => Working(q)
  BY <1>1 DEF Working
<1>3. OneAtWork'
  BY <1>1, <1>2 DEF WorkInv, OneAtWork
<1>4. pc[r] # "ok" /\ pc[r] # "out"
  BY <1>1 DEF Working, AtWork
<1>5. \A o \in Owners : step[o] \in {"waiting", "register"} => asked[o] \in Requests
  BY DEF BaseInv, TypeOK
<1>6. AnswersFit'
  BY <1>1, <1>4, <1>5 DEF WorkInv, AnswersFit
<1>. QED BY <1>3, <1>6 DEF WorkInv

LEMMA WorkFrame == ASSUME WorkInv, UNCHANGED <<client, handler>> PROVE WorkInv'
BY DEF WorkInv, AnswersFit, OneAtWork, Working, client, handler

LEMMA WorkNext ==
  ASSUME AuthorizeConstantsOK, NoOverlap, BaseInv, WorkInv, [Next]_vars
  PROVE  WorkInv'
<1>1. CASE LedgerStepTaken \/ UNCHANGED vars
  <2>1. UNCHANGED <<client, handler>>
    BY <1>1 DEF LedgerStepTaken, LedgerStep, Land, LandFails, Expire, OtherTx, vars,
       client, handler
  <2>. QED BY <2>1, WorkFrame
<1>. QED BY <1>1, WorkClient, WorkRequest DEF Next, LedgerStepTaken

-----------------------------------------------------------------------------
(***************************************************************************)
(* An id that is read is the id of the rule just added.                    *)
(***************************************************************************)
\* A request that is not asked for has read nothing.
LEMMA NothingCaptured ==
  ASSUME BaseInv, NEW r \in Requests, pc[r] = "out"
  PROVE  Captured(r) = {} /\ adding[r] = "pool"
BY DEF BaseInv, RequestsHaveAccount, Captured

\* Steps that read no id and leave the transactions and the account of what was
\* read alone.
LEMMA CapturedFrame ==
  ASSUME CapturedNames, ids' = ids,
         \A q \in Requests : \A k \in Captured(q)' :
           /\ k \in Captured(q) /\ txs'[<<q, k>>] = txs[<<q, k>>]
           /\ target'[q] = target[q] /\ rules'[target[q]] = rules[target[q]]
  PROVE  CapturedNames'
<1>. SUFFICES ASSUME NEW q \in Requests, NEW k \in Captured(q)'
              PROVE  Confirmed(<<q, k>>)' /\ Names(target[q], ids[q][k], k)'
  BY DEF CapturedNames
<1>1. Confirmed(<<q, k>>) /\ Names(target[q], ids[q][k], k)
  BY DEF CapturedNames
<1>2. Confirmed(<<q, k>>)'
  BY <1>1 DEF Confirmed
<1>3. Names(target[q], ids[q][k], k)'
  <2>1. target'[q] = target[q] /\ rules'[target'[q]] = rules[target[q]] /\ ids'[q][k] = ids[q][k]
    OBVIOUS
  <2>. QED BY <1>1, <2>1 DEF Names
<1>. QED BY <1>2, <1>3

\* Clients neither change what is on the ledger for a request nor what it read.
LEMMA LedgerClient ==
  ASSUME BaseInv, LedgerInv, NEW o \in Owners, ClientStep(o)
  PROVE  LedgerInv'
<1>1. UNCHANGED <<txs, agentSeq, adding, seqno, ids>>
  BY DEF ClientStep, Prepare, Submit, SubmitFails, Ask, TakeAnswer, TakeError, GiveUp,
     Register, RegisterFails, chain, handler
<1>2. \A q \in Requests :
        /\ pc[q] # "out" => pc'[q] = pc[q] /\ target'[q] = target[q]
        /\ pc[q] = "out" => pc'[q] \in {"out", "before"}
  <2>1. CASE Ask(o)
    BY <2>1 DEF Ask, BaseInv, TypeOK
  <2>2. CASE ~ Ask(o)
    BY <2>2 DEF ClientStep, Prepare, Submit, SubmitFails, TakeAnswer, TakeError, GiveUp,
       Register, RegisterFails, handler
  <2>. QED BY <2>1, <2>2
<1>3. \A q \in Requests : pc[q] # "out" => rules'[target[q]] = rules[target[q]]
  <2>1. ASSUME step[o] = "submit", Deploy(wallet[o])
        PROVE  \A q \in Requests : pc[q] # "out" => rules'[target[q]] = rules[target[q]]
    BY <2>1 DEF Deploy, BaseInv, TypeOK, AccountsApart, RequestsHaveAccount
  <2>. QED
    BY <2>1 DEF ClientStep, Prepare, Submit, SubmitFails, Ask, TakeAnswer, TakeError, GiveUp,
       Register, RegisterFails, chain
<1>4. \A q \in Requests : Captured(q)' = Captured(q)
  BY <1>1, <1>2, NothingCaptured DEF Captured
<1>5. SeqNumbers'
  BY <1>1 DEF LedgerInv, SeqNumbers
<1>6. NoneBehind'
  <2>. SUFFICES ASSUME NEW r \in Requests, pc'[r] \in {"send", "poll", "capture"}
                PROVE  /\ \A q \in Requests, k \in RuleKinds :
                            target'[q] = target'[r] => txs[<<q, k>>].seq <= seqno[r]
                       /\ pc[r] = pc'[r]
    BY <1>1 DEF LedgerInv, NoneBehind, Tx, Confirmed
  <2>1. pc[r] = pc'[r] /\ target'[r] = target[r]
    BY <1>2
  <2>2. ASSUME NEW q \in Requests, NEW k \in RuleKinds, target'[q] = target'[r]
        PROVE  txs[<<q, k>>].seq <= seqno[r]
    <3>1. CASE pc[q] = "out"
      <4>1. txs[<<q, k>>].seq = 0 /\ seqno[r] \in Nat
        BY <3>1 DEF BaseInv, RequestsHaveAccount, TypeOK, NoTx
      <4>. QED BY <4>1
    <3>2. CASE pc[q] # "out"
      BY <1>2, <2>1, <2>2, <3>2 DEF LedgerInv, NoneBehind
    <3>. QED BY <3>1, <3>2
  <2>. QED BY <2>1, <2>2
<1>7. NewestIsOwn'
  <2>. SUFFICES ASSUME NEW r \in Requests, pc'[r] \in {"poll", "capture"}, Confirmed(Tx(r))'
                PROVE  /\ rules'[target'[r]][Len(rules'[target'[r]])] = adding'[r]
                       /\ \A q \in Requests : target'[q] = target'[r] =>
                            \A k \in Captured(q)' : ids'[q][k] # NewestId(r)'
    BY DEF NewestIsOwn
  <2>1. pc[r] = pc'[r] /\ target'[r] = target[r] /\ rules'[target[r]] = rules[target[r]]
    BY <1>2, <1>3
  <2>2. Confirmed(Tx(r)) /\ NewestId(r)' = NewestId(r)
    BY <1>1, <2>1 DEF Confirmed, Tx, NewestId
  <2>3. \A q \in Requests : Captured(q)' # {} => target'[q] = target[q]
    BY <1>2, <1>4, NothingCaptured
  <2>. QED BY <1>1, <1>4, <2>1, <2>2, <2>3 DEF LedgerInv, NewestIsOwn
<1>8. \A q \in Requests : Captured(q)' # {} =>
        target'[q] = target[q] /\ rules'[target[q]] = rules[target[q]]
  BY <1>2, <1>3, <1>4, NothingCaptured
<1>9. CapturedNames'
  BY <1>1, <1>4, <1>8, CapturedFrame DEF LedgerInv
<1>10. CapturedApart'
  BY <1>1, <1>4, <1>8 DEF LedgerInv, CapturedApart
<1>. QED BY <1>5, <1>6, <1>7, <1>9, <1>10 DEF LedgerInv

\* The steps of a request that move no transaction and read no id.
LEMMA LedgerQuiet ==
  ASSUME BaseInv, LedgerInv, NEW r \in Requests,
         pc[r] \in AtWork, pc' = [pc EXCEPT ![r] = pc'[r]],
         pc'[r] \in {"build", "error", "ok", "capture"},
         pc'[r] = "ok" => pc[r] = "log",
         pc'[r] = "capture" => pc[r] = "poll" /\ Confirmed(Tx(r)),
         UNCHANGED <<rules, agentSeq, txs, target, adding, seqno, ids>>
  PROVE  LedgerInv'
<1>1. \A q \in Requests \ {r} : pc'[q] = pc[q]
  BY DEF BaseInv, TypeOK
<1>2. \A q \in Requests : Captured(q)' \subseteq Captured(q)
  BY <1>1 DEF Captured
<1>3. SeqNumbers'
  BY DEF LedgerInv, SeqNumbers
<1>4. NoneBehind'
  BY <1>1 DEF LedgerInv, NoneBehind, Tx, Confirmed
<1>5. NewestIsOwn'
  BY <1>1, <1>2 DEF LedgerInv, NewestIsOwn, Tx, Confirmed, NewestId
<1>6. CapturedNames'
  BY <1>2, CapturedFrame DEF LedgerInv
<1>7. CapturedApart'
  BY <1>2 DEF LedgerInv, CapturedApart
<1>. QED BY <1>3, <1>4, <1>5, <1>6, <1>7 DEF LedgerInv

\* The next sequence number is above all that were sent.
LEMMA LedgerBuild ==
  ASSUME BaseInv, LedgerInv, NEW r \in Requests, Build(r)
  PROVE  LedgerInv'
<1>1. /\ pc[r] = "build" /\ pc'[r] = "send" /\ seqno'[r] = agentSeq + 1
      /\ \A q \in Requests \ {r} : pc'[q] = pc[q] /\ seqno'[q] = seqno[q]
      /\ UNCHANGED <<rules, agentSeq, txs, target, adding, ids>>
  BY DEF Build, Goto, chain, BaseInv, TypeOK
<1>2. \A q \in Requests : Captured(q)' = Captured(q)
  BY <1>1 DEF Captured
<1>3. SeqNumbers'
  <2>1. agentSeq \in Nat
    BY DEF BaseInv, TypeOK
  <2>. QED BY <1>1, <2>1 DEF LedgerInv, SeqNumbers
<1>4. NoneBehind'
  BY <1>1 DEF LedgerInv, NoneBehind, SeqNumbers, Tx, Confirmed, Txs
<1>5. NewestIsOwn'
  BY <1>1, <1>2 DEF LedgerInv, NewestIsOwn, Tx, Confirmed, NewestId
<1>6. CapturedNames'
  BY <1>1, <1>2, CapturedFrame DEF LedgerInv
<1>7. CapturedApart'
  BY <1>1, <1>2 DEF LedgerInv, CapturedApart
<1>. QED BY <1>3, <1>4, <1>5, <1>6, <1>7 DEF LedgerInv

\* No other request waits for a transaction for the same account.
LEMMA LedgerSend ==
  ASSUME BaseInv, WorkInv, LedgerInv, NEW r \in Requests, Send(r) \/ SendThrows(r)
  PROVE  LedgerInv'
<1>1. /\ pc[r] = "send" /\ pc'[r] \in {"poll", "error"}
      /\ \A q \in Requests \ {r} : pc'[q] = pc[q]
      /\ UNCHANGED <<rules, agentSeq, target, adding, seqno, ids>>
  BY DEF Send, SendThrows, Goto, BaseInv, TypeOK
<1>2. Tx(r) \in Txs /\ adding[r] \in RuleKinds
  BY DEF Tx, Txs, BaseInv, TypeOK
<1>3. /\ txs'[Tx(r)].status = "pending" /\ txs'[Tx(r)].seq = seqno[r]
      /\ \A t \in Txs \ {Tx(r)} : txs'[t] = txs[t]
  BY <1>2 DEF Send, SendThrows, Accept, BaseInv, TypeOK
<1>4. \A q \in Requests : Captured(q)' = Captured(q)
  BY <1>1 DEF Captured
<1>5. \A q \in Requests, k \in RuleKinds : q # r \/ k # adding[r] =>
        <<q, k>> \in Txs /\ <<q, k>> # Tx(r)
  BY DEF Tx, Txs
<1>6. \A q \in Requests \ {r} : pc[q] \in {"send", "poll", "capture"} =>
        target[q] # target[r]
  BY <1>1 DEF WorkInv, OneAtWork, Working, AtWork
<1>7. SeqNumbers'
  BY <1>1, <1>3 DEF LedgerInv, SeqNumbers
<1>8. NoneBehind'
  <2>1. ASSUME NEW q \in Requests, pc'[q] \in {"send", "poll", "capture"},
               NEW p \in Requests, NEW k \in RuleKinds, target[p] = target[q]
        PROVE  txs'[<<p, k>>].seq <= seqno[q]
    <3>1. pc[q] \in {"send", "poll", "capture"}
      BY <1>1, <2>1
    <3>2. CASE <<p, k>> = Tx(r)
      <4>1. p = r
        BY <3>2 DEF Tx
      <4>2. q = r
        BY <1>6, <2>1, <3>1, <4>1
      <4>3. seqno[r] \in Nat
        BY DEF BaseInv, TypeOK
      <4>. QED BY <1>3, <3>2, <4>2, <4>3
    <3>3. CASE <<p, k>> # Tx(r)
      BY <1>3, <2>1, <3>1, <3>3 DEF LedgerInv, NoneBehind, Txs
    <3>. QED BY <3>2, <3>3
  <2>2. ASSUME NEW q \in Requests, pc'[q] \in {"poll", "capture"}
        PROVE  txs'[Tx(q)].seq = seqno[q] /\ (pc'[q] = "capture" => txs'[Tx(q)].status = "success")
    <3>1. CASE q = r
      BY <1>1, <1>3, <2>2, <3>1
    <3>2. CASE q # r
      <4>1. Tx(q) \in Txs \ {Tx(r)}
        BY <3>2 DEF Tx, Txs, BaseInv, TypeOK
      <4>2. txs'[Tx(q)] = txs[Tx(q)]
        BY <1>3, <4>1
      <4>. QED BY <1>1, <2>2, <3>2, <4>2 DEF LedgerInv, NoneBehind, Confirmed
    <3>. QED BY <3>1, <3>2
  <2>. QED BY <1>1, <2>1, <2>2 DEF NoneBehind, Tx, Confirmed
<1>9. NewestIsOwn'
  <2>. SUFFICES ASSUME NEW q \in Requests, pc'[q] \in {"poll", "capture"}, Confirmed(Tx(q))'
                PROVE  q # r /\ Confirmed(Tx(q))
    BY <1>1, <1>4 DEF LedgerInv, NewestIsOwn, NewestId
  <2>1. Tx(q)' = Tx(q)
    BY <1>1 DEF Tx
  <2>2. q # r
    BY <1>3, <2>1 DEF Confirmed
  <2>3. Tx(q) \in Txs \ {Tx(r)}
    BY <2>2 DEF Tx, Txs, BaseInv, TypeOK
  <2>. QED BY <1>3, <2>1, <2>2, <2>3 DEF Confirmed
<1>10. CapturedNames'
  <2>. SUFFICES ASSUME NEW q \in Requests, NEW k \in Captured(q)
                PROVE  txs'[<<q, k>>] = txs[<<q, k>>]
    BY <1>1, <1>4, CapturedFrame DEF LedgerInv
  <2>1. k \in RuleKinds /\ (q = r => k # adding[r])
    BY <1>1 DEF Captured
  <2>. QED BY <1>3, <1>5, <2>1
<1>11. CapturedApart'
  BY <1>1, <1>4 DEF LedgerInv, CapturedApart
<1>. QED BY <1>7, <1>8, <1>9, <1>10, <1>11 DEF LedgerInv

\* The id of the newest rule is read while that rule is the request's own.
LEMMA LedgerCapture ==
  ASSUME BaseInv, WorkInv, LedgerInv, NEW r \in Requests, Capture(r)
  PROVE  LedgerInv'
<1>. DEFINE k == adding[r]
<1>1. /\ pc[r] = "capture" /\ pc'[r] \in {"build", "log"} /\ adding'[r] = "usdc"
      /\ pc'[r] = "log" <=> k = "usdc"
      /\ \A q \in Requests \ {r} :
           pc'[q] = pc[q] /\ adding'[q] = adding[q] /\ ids'[q] = ids[q]
      /\ UNCHANGED <<rules, agentSeq, txs, target, seqno>>
  BY DEF Capture, Goto, chain, BaseInv, TypeOK, RuleKinds
<1>2. k \in RuleKinds /\ (k = "pool" \/ k = "usdc") /\ NewestId(r) \in Nat
  BY CaptureType DEF RuleKinds
<1>3. ids'[r][k] = NewestId(r) /\ \A l \in RuleKinds \ {k} : ids'[r][l] = ids[r][l]
  BY DEF Capture, BaseInv, TypeOK
<1>4. Captured(r)' = Captured(r) \cup {k} /\ k \notin Captured(r)
  BY <1>1, <1>2 DEF Captured, RuleKinds
<1>5. \A q \in Requests \ {r} : Captured(q)' = Captured(q)
  BY <1>1 DEF Captured
<1>6. \A q \in Requests \ {r} : pc[q] \in {"send", "poll", "capture"} => target[q] # target[r]
  BY <1>1 DEF WorkInv, OneAtWork, Working, AtWork
<1>7. /\ rules[target[r]][Len(rules[target[r]])] = k
      /\ \A q \in Requests : target[q] = target[r] =>
           \A l \in Captured(q) : ids[q][l] # NewestId(r)
  BY <1>1 DEF LedgerInv, NewestIsOwn, NoneBehind
<1>8. SeqNumbers'
  BY <1>1 DEF LedgerInv, SeqNumbers
<1>9. NoneBehind'
  BY <1>1 DEF LedgerInv, NoneBehind, Tx, Confirmed
<1>10. NewestIsOwn'
  <2>. SUFFICES ASSUME NEW q \in Requests, pc'[q] \in {"poll", "capture"}, Confirmed(Tx(q))'
                PROVE  /\ rules[target[q]][Len(rules[target[q]])] = adding'[q]
                       /\ \A p \in Requests : target[p] = target[q] =>
                            \A l \in Captured(p)' : ids'[p][l] # NewestId(q)
    BY <1>1 DEF NewestIsOwn, NewestId
  <2>1. q # r /\ target[q] # target[r] /\ Confirmed(Tx(q))
    BY <1>1, <1>6 DEF Confirmed, Tx
  <2>. QED BY <1>1, <1>5, <2>1 DEF LedgerInv, NewestIsOwn
<1>11. CapturedNames'
  <2>. SUFFICES ASSUME NEW q \in Requests, NEW l \in Captured(q)'
                PROVE  Confirmed(<<q, l>>) /\ Names(target[q], ids'[q][l], l)
    BY <1>1 DEF CapturedNames, Confirmed, Names
  <2>1. CASE q = r /\ l = k
    <3>1. Confirmed(<<q, l>>)
      BY <1>1, <2>1 DEF LedgerInv, NoneBehind, Tx
    <3>2. /\ target[r] \in Wallets /\ rules[target[r]] # <<>>
      BY <1>1 DEF BaseInv, RequestsHaveAccount
    <3>3. rules[target[r]] \in Seq(RuleKinds \cup {"owner"})
      BY <3>2 DEF BaseInv, TypeOK
    <3>4. Len(rules[target[r]]) \in DOMAIN rules[target[r]] /\ Len(rules[target[r]]) \in Nat
      BY <3>2, <3>3
    <3>5. NewestId(r) + 1 = Len(rules[target[r]])
      BY <3>4 DEF NewestId
    <3>. QED BY <1>3, <1>7, <2>1, <3>1, <3>4, <3>5 DEF Names
  <2>2. CASE ~ (q = r /\ l = k)
    <3>1. l \in Captured(q) /\ l \in RuleKinds
      BY <1>4, <1>5, <2>2 DEF Captured
    <3>2. ids'[q][l] = ids[q][l]
      BY <1>1, <1>3, <2>2, <3>1
    <3>. QED BY <3>1, <3>2 DEF LedgerInv, CapturedNames
  <2>. QED BY <2>1, <2>2
<1>12. CapturedApart'
  <2>1. ASSUME NEW q \in Requests, q # r, target[q] = target[r],
               NEW l \in Captured(q), NEW m \in Captured(r)'
        PROVE  ids'[q][l] # ids'[r][m]
    <3>1. ids'[q][l] = ids[q][l]
      BY <1>1, <2>1
    <3>2. CASE m = k
      BY <1>3, <1>7, <2>1, <3>1, <3>2
    <3>3. CASE m # k
      <4>1. m \in Captured(r) /\ m \in RuleKinds
        BY <1>4, <3>3 DEF Captured
      <4>2. ids'[r][m] = ids[r][m]
        BY <1>3, <3>3, <4>1
      <4>. QED BY <2>1, <3>1, <4>1, <4>2 DEF LedgerInv, CapturedApart
    <3>. QED BY <3>2, <3>3
  <2>2. ASSUME NEW p \in Requests, NEW q \in Requests, p # r, q # r, p # q,
               target[p] = target[q], NEW l \in Captured(p), NEW m \in Captured(q)
        PROVE  ids'[p][l] # ids'[q][m]
    BY <1>1, <2>2 DEF LedgerInv, CapturedApart
  <2>. QED BY <1>1, <1>5, <2>1, <2>2 DEF CapturedApart
<1>. QED BY <1>8, <1>9, <1>10, <1>11, <1>12 DEF LedgerInv

LEMMA LedgerRequest ==
  ASSUME BaseInv, WorkInv, LedgerInv, NEW r \in Requests, RequestStep(r)
  PROVE  LedgerInv'
<1>1. CASE ReadBefore(r) \/ Throws(r) \/ SendRefused(r) \/ PollSuccess(r) \/ PollFails(r) \/ Log(r)
  <2>1. /\ pc[r] \in AtWork /\ pc'[r] \in {"build", "error", "ok", "capture"}
        /\ pc' = [pc EXCEPT ![r] = pc'[r]]
        /\ pc'[r] = "ok" => pc[r] = "log"
        /\ pc'[r] = "capture" => pc[r] = "poll" /\ Confirmed(Tx(r))
    BY <1>1 DEF ReadBefore, Throws, SendRefused, PollSuccess, PollFails, Log, Goto, AtWork,
       Working, BaseInv, TypeOK
  <2>2. UNCHANGED <<rules, agentSeq, txs, target, adding, seqno, ids>>
    BY <1>1 DEF ReadBefore, Throws, SendRefused, PollSuccess, PollFails, Log, chain
  <2>. QED BY <2>1, <2>2, LedgerQuiet
<1>. QED BY <1>1, LedgerBuild, LedgerSend, LedgerCapture DEF RequestStep

\* While a tx of a request is unconfirmed or its rule unread, the only rule that
\* can be added to the account is its own.
LEMMA LedgerLand ==
  ASSUME BaseInv, WorkInv, LedgerInv, NEW t \in Txs, Land(t)
  PROVE  LedgerInv'
<1>. DEFINE x == target[t[1]]
<1>1. /\ txs[t].status = "pending" /\ txs[t].seq = agentSeq + 1
      /\ agentSeq' = agentSeq + 1
      /\ UNCHANGED <<pc, target, adding, seqno, ids>>
  BY DEF Land, IsNext, handler
<1>2. /\ txs'[t].status = "success" /\ txs'[t].seq = txs[t].seq
      /\ \A u \in Txs \ {t} : txs'[u] = txs[u]
  BY DEF Land, Final, BaseInv, TypeOK
<1>3. agentSeq \in Nat /\ (\A u \in Txs : txs[u].seq \in Nat) /\ \A r \in Requests : seqno[r] \in Nat
  BY DEF BaseInv, TypeOK
<1>4. \A u \in Txs : txs'[u].seq = txs[u].seq /\ (Confirmed(u) => Confirmed(u)')
  BY <1>2 DEF Confirmed
<1>5. \A q \in Requests : Captured(q)' = Captured(q) /\ Tx(q)' = Tx(q) /\ Tx(q) \in Txs
  BY <1>1 DEF Captured, Tx, Txs, BaseInv, TypeOK
<1>6. /\ x \in Wallets /\ t[1] \in Requests /\ t[2] \in RuleKinds
      /\ rules'[x] = Append(rules[x], t[2])
      /\ \A w \in Wallets \ {x} : rules'[w] = rules[w]
      /\ t = <<t[1], t[2]>>
  BY LandRules, LandPending, <1>1
<1>7. rules[x] \in Seq(RuleKinds \cup {"owner"})
  BY <1>6 DEF BaseInv, TypeOK
<1>8. /\ Len(rules'[x]) = Len(rules[x]) + 1 /\ rules'[x][Len(rules'[x])] = t[2]
      /\ Len(rules[x]) \in Nat /\ DOMAIN rules[x] = 1..Len(rules[x])
  BY <1>6, <1>7, AppendRule
<1>9. \A q \in Requests : \A k \in Captured(q) : target[q] \in Wallets /\ rules[target[q]] # <<>>
  BY NothingCaptured DEF BaseInv, RequestsHaveAccount
<1>10. SeqNumbers'
  BY <1>1, <1>2, <1>3 DEF LedgerInv, SeqNumbers
<1>11. NoneBehind'
  <2>1. \A q \in Requests, k \in RuleKinds : <<q, k>> \in Txs
    BY DEF Txs
  <2>. QED BY <1>1, <1>4, <1>5, <2>1 DEF LedgerInv, NoneBehind
<1>12. NewestIsOwn'
  <2>. SUFFICES ASSUME NEW q \in Requests, pc[q] \in {"poll", "capture"}, Confirmed(Tx(q))'
                PROVE  /\ rules'[target[q]][Len(rules'[target[q]])] = adding[q]
                       /\ \A p \in Requests : target[p] = target[q] =>
                            \A k \in Captured(p) : ids[p][k] # Len(rules'[target[q]]) - 1
    BY <1>1, <1>5 DEF NewestIsOwn, NewestId
  <2>1. CASE Tx(q) = t
    <3>1. q = t[1] /\ adding[q] = t[2]
      BY <2>1 DEF Tx
    <3>2. ASSUME NEW p \in Requests, target[p] = x, NEW k \in Captured(p)
          PROVE  ids[p][k] # Len(rules'[x]) - 1
      <4>1. ids[p][k] + 1 \in 1..Len(rules[x])
        BY <1>8, <3>2 DEF LedgerInv, CapturedNames, Names
      <4>2. ids[p][k] \in Nat
        BY DEF BaseInv, TypeOK, Captured
      <4>. QED BY <1>8, <4>1, <4>2
    <3>. QED BY <1>8, <3>1, <3>2
  <2>2. CASE Tx(q) # t
    <3>1. Confirmed(Tx(q)) /\ txs'[Tx(q)] = txs[Tx(q)]
      BY <1>2, <1>5, <2>2 DEF Confirmed
    <3>2. txs[Tx(q)].seq <= agentSeq /\ txs[Tx(q)].seq = seqno[q]
      BY <1>5, <3>1 DEF LedgerInv, SeqNumbers, NoneBehind, Confirmed
    <3>3. target[q] # x
      <4>1. ASSUME target[q] = x PROVE txs[t].seq <= seqno[q]
        BY <1>6, <4>1 DEF LedgerInv, NoneBehind
      <4>. QED BY <1>1, <1>3, <3>2, <4>1
    <3>4. target[q] \in Wallets
      BY DEF BaseInv, RequestsHaveAccount
    <3>. QED BY <1>6, <3>1, <3>3, <3>4 DEF LedgerInv, NewestIsOwn, NewestId
  <2>. QED BY <2>1, <2>2
<1>13. CapturedNames'
  <2>. SUFFICES ASSUME NEW q \in Requests, NEW k \in Captured(q)
                PROVE  Confirmed(<<q, k>>)' /\ Names(target[q], ids[q][k], k)'
    BY <1>1, <1>5 DEF CapturedNames
  <2>1. Confirmed(<<q, k>>) /\ Names(target[q], ids[q][k], k)
    BY DEF LedgerInv, CapturedNames
  <2>2. <<q, k>> \in Txs
    BY DEF Captured, Txs
  <2>3. RulesGrow
    BY RulesNext DEF Next, LedgerStep
  <2>4. Names(target[q], ids[q][k], k)'
    BY <1>1, <1>9, <2>1, <2>3 DEF Names, RulesGrow
  <2>. QED BY <1>4, <2>1, <2>2, <2>4
<1>14. CapturedApart'
  BY <1>1, <1>5 DEF LedgerInv, CapturedApart
<1>. QED BY <1>10, <1>11, <1>12, <1>13, <1>14 DEF LedgerInv

\* What does not succeed adds no rule.
LEMMA LedgerOther ==
  ASSUME BaseInv, LedgerInv,
         (\E t \in Txs : LandFails(t) \/ Expire(t)) \/ OtherTx \/ UNCHANGED vars
  PROVE  LedgerInv'
<1>1. /\ UNCHANGED <<rules, pc, target, adding, seqno, ids>>
      /\ agentSeq' \in {agentSeq, agentSeq + 1}
  BY DEF LandFails, Expire, OtherTx, vars, handler
<1>2. \A u \in Txs : txs'[u].seq = txs[u].seq /\ Confirmed(u)' = Confirmed(u)
  <2>1. ASSUME NEW t \in Txs, LandFails(t) \/ Expire(t)
        PROVE  \A u \in Txs : txs'[u].seq = txs[u].seq /\ Confirmed(u)' = Confirmed(u)
    <3>1. PICK s \in {"failed", "expired"} :
            txs[t].status = "pending" /\ txs' = [txs EXCEPT ![t].status = s]
      BY <2>1 DEF LandFails, Expire, IsNext, Final
    <3>2. /\ txs'[t].status = s /\ txs'[t].seq = txs[t].seq
          /\ \A u \in Txs \ {t} : txs'[u] = txs[u]
      BY <3>1 DEF BaseInv, TypeOK
    <3>. QED BY <3>1, <3>2 DEF Confirmed
  <2>2. CASE UNCHANGED txs
    BY <2>2 DEF Confirmed
  <2>. QED BY <2>1, <2>2 DEF OtherTx, vars
<1>3. agentSeq \in Nat /\ (\A u \in Txs : txs[u].seq \in Nat) /\ \A r \in Requests : seqno[r] \in Nat
  BY DEF BaseInv, TypeOK
<1>4. \A q \in Requests :
        /\ Captured(q)' = Captured(q) /\ Tx(q)' = Tx(q) /\ Tx(q) \in Txs
        /\ NewestId(q)' = NewestId(q)
        /\ \A k \in RuleKinds : <<q, k>> \in Txs
  BY <1>1 DEF Captured, Tx, Txs, NewestId, BaseInv, TypeOK
<1>5. SeqNumbers'
  BY <1>1, <1>2, <1>3 DEF LedgerInv, SeqNumbers, Confirmed
<1>6. NoneBehind'
  BY <1>1, <1>2, <1>4 DEF LedgerInv, NoneBehind
<1>7. NewestIsOwn'
  BY <1>1, <1>2, <1>4 DEF LedgerInv, NewestIsOwn
<1>8. CapturedNames'
  <2>. SUFFICES ASSUME NEW q \in Requests, NEW k \in Captured(q)
                PROVE  Confirmed(<<q, k>>)' /\ Names(target[q], ids[q][k], k)'
    BY <1>1, <1>4 DEF CapturedNames
  <2>1. Confirmed(<<q, k>>) /\ Names(target[q], ids[q][k], k)
    BY DEF LedgerInv, CapturedNames
  <2>2. <<q, k>> \in Txs
    BY DEF Captured, Txs
  <2>. QED BY <1>1, <1>2, <2>1, <2>2 DEF Names
<1>9. CapturedApart'
  BY <1>1, <1>4 DEF LedgerInv, CapturedApart
<1>. QED BY <1>5, <1>6, <1>7, <1>8, <1>9 DEF LedgerInv

LEMMA LedgerNext ==
  ASSUME BaseInv, WorkInv, LedgerInv, [Next]_vars
  PROVE  LedgerInv'
BY LedgerClient, LedgerRequest, LedgerLand, LedgerOther DEF Next, LedgerStep

-----------------------------------------------------------------------------
(***************************************************************************)
(* What is registered.                                                     *)
(***************************************************************************)
LEMMA RegisteredNext ==
  ASSUME BaseInv, WorkInv, LedgerInv, RegisteredIdsNameRules, [Next]_vars, BaseInv'
  PROVE  RegisteredIdsNameRules'
<1>. SUFFICES ASSUME NEW p \in Owners, users'[p] # NotRegistered, NEW k \in RuleKinds
              PROVE  Names(users[p].wallet, users[p].ids[k], k)'
  BY DEF RegisteredIdsNameRules
<1>1. CASE users'[p] = users[p]
  <2>1. users[p].wallet \in Wallets
    BY <1>1 DEF BaseInv, TypeOK, Registrations
  <2>2. Names(users[p].wallet, users[p].ids[k], k)
    BY <1>1 DEF RegisteredIdsNameRules
  <2>3. rules[users[p].wallet] # <<>>
    <3>1. DOMAIN rules[users[p].wallet] # {}
      BY <2>2 DEF Names
    <3>. QED BY <3>1
  <2>. QED BY <1>1, <2>1, <2>2, <2>3, RulesNext DEF Names, RulesGrow
<1>2. CASE users'[p] # users[p]
  <2>1. Register(p)
    BY <1>2 DEF Next, ClientStep, RequestStep, LedgerStep, Register, Prepare, Submit,
       SubmitFails, Ask, TakeAnswer, TakeError, GiveUp, RegisterFails, ReadBefore, Throws,
       Build, Send, SendThrows, SendRefused, PollSuccess, PollFails, Capture, Log,
       Land, LandFails, Expire, OtherTx, vars, BaseInv, TypeOK
  <2>2. /\ step[p] = "register" /\ rules' = rules
        /\ users'[p].wallet = wallet[p] /\ users'[p].ids = answer[p]
    BY <2>1 DEF Register, chain, BaseInv, TypeOK
  <2>3. asked[p] \in Requests
    BY <2>2 DEF BaseInv, TypeOK
  <2>4. pc[asked[p]] = "ok" /\ target[asked[p]] = wallet[p] /\ answer[p] = ids[asked[p]]
    BY <2>2 DEF WorkInv, AnswersFit
  <2>5. k \in Captured(asked[p])
    BY <2>3, <2>4 DEF Captured, RuleKinds, BaseInv, RequestsHaveAccount
  <2>6. Names(wallet[p], answer[p][k], k)
    BY <2>3, <2>4, <2>5 DEF LedgerInv, CapturedNames
  <2>. QED BY <2>2, <2>6 DEF Names
<1>. QED BY <1>1, <1>2

LEMMA AuthorizeInit == ASSUME AuthorizeConstantsOK, Init PROVE AuthorizeInv
<1>1. BaseInv
  BY BaseInit
<1>2. AnswersFit /\ OneAtWork
  BY DEF Init, AnswersFit, OneAtWork, Working, AtWork
<1>3. \A r \in Requests : Captured(r) = {}
  BY DEF Init, Captured
<1>4. LedgerInv
  BY <1>3 DEF Init, LedgerInv, SeqNumbers, NoneBehind, NewestIsOwn, CapturedNames,
     CapturedApart, NoTx
<1>5. RegisteredIdsNameRules
  BY DEF Init, RegisteredIdsNameRules
<1>. QED BY <1>1, <1>2, <1>4, <1>5 DEF AuthorizeInv

LEMMA AuthorizeNext ==
  ASSUME AuthorizeConstantsOK, NoOverlap, AuthorizeInv, [Next]_vars
  PROVE  AuthorizeInv'
BY BaseNext, WorkNext, LedgerNext, RegisteredNext DEF AuthorizeInv, WorkInv

LEMMA AuthorizeInvariant == ASSUME NoOverlap PROVE Spec => []AuthorizeInv
<1>1. Init => AuthorizeInv
  BY AuthorizeInit, AuthorizeConstantsOK
<1>2. AuthorizeInv /\ [Next]_vars => AuthorizeInv'
  BY AuthorizeNext, AuthorizeConstantsOK, NoOverlap
<1>. QED BY <1>1, <1>2, PTL DEF Spec

\* What the agent signs with: the ids registered for an account name its pool
\* rule and its USDC rule, although /api/authorize only counts the rules of the
\* account and takes the newest for its own.
THEOREM RegisteredIdsAreRight ==
  ASSUME NoOverlap PROVE Spec => []RegisteredIdsNameRules
<1>1. AuthorizeInv => RegisteredIdsNameRules
  BY DEF AuthorizeInv
<1>. QED BY <1>1, AuthorizeInvariant, PTL

\* A request that answers success has both its rules on chain, and no other such
\* request names them.
THEOREM AnswersNameOwnRules ==
  ASSUME NoOverlap PROVE Spec => []AnswersAreOwn
<1>1. AuthorizeInv => AnswersAreOwn
  <2>. SUFFICES ASSUME AuthorizeInv PROVE AnswersAreOwn
    OBVIOUS
  <2>1. \A r \in Requests : pc[r] = "ok" => Captured(r) = RuleKinds
    BY DEF AuthorizeInv, BaseInv, RequestsHaveAccount, Captured, RuleKinds
  <2>. QED
    BY <2>1 DEF AuthorizeInv, LedgerInv, CapturedNames, CapturedApart, Confirmed, AnswersAreOwn
<1>. QED BY <1>1, AuthorizeInvariant, PTL
=============================================================================
