------------------------- MODULE PerUserTick_proofs -------------------------
(***************************************************************************)
(* Theorems about PerUserTick, for every set of owners, wallets,           *)
(* instances, calls, requests and hashes and every choice of Events.       *)
(***************************************************************************)
EXTENDS PerUserTick, TLAPS

-----------------------------------------------------------------------------
(***************************************************************************)
(* Type correctness.                                                       *)
(***************************************************************************)
LEMMA TypeInit == ASSUME ConstantsOK, Init PROVE TypeInv
<1>1. TypeOK
  BY DEF ConstantsOK, Init, TypeOK, PositionDocs, Positions, Items, NoDoc, OldDoc,
         IdlePosition, TxRecords, NoTx, InTick, InReq
<1>2. Holding
  BY DEF Init, Holding, Active, InTick, InSupply, Sent
<1>. QED BY <1>1, <1>2 DEF TypeInv

\* The amount of a supply is a number.
LEMMA ClampType == ASSUME ConstantsOK, NEW n \in Nat PROVE ClampToCap(n) \in Nat
BY DEF ConstantsOK, ClampToCap

\* Dropping the supply in hand keeps the types.
LEMMA DropType ==
  ASSUME TypeInv, NEW c \in Calls, pc[c] \in InSupply, Drop(c),
         UNCHANGED <<store, req, idle, agentSeq>>,
         txs' \in [Hashes -> TxRecords]
  PROVE  TypeInv'
<1>1. TypeOK'
  BY DEF TypeInv, TypeOK, Drop, store, req, InTick, IdlePosition, Positions, Items
<1>2. Holding'
  BY DEF TypeInv, TypeOK, Holding, Drop, Active, InTick, InSupply, Sent
<1>. QED BY <1>1, <1>2 DEF TypeInv

\* The network takes a transaction.
LEMMA AcceptType ==
  ASSUME TypeInv, NEW c \in Calls, NEW h \in Hashes, pc[c] = "send", Accept(c, h)
  PROVE  txs' \in [Hashes -> TxRecords]
BY DEF TypeInv, TypeOK, Holding, InSupply, Accept, TxRecords

\* Every step of a tick keeps the types.
LEMMA TickType ==
  ASSUME ConstantsOK, TypeInv, NEW c \in Calls,
         \/ \E i \in Instances : TickEnter(c, i)
         \/ CallStep(c)
         \/ CallFault(c)
  PROVE  TypeInv'
<1>1. CASE \E i \in Instances : TickEnter(c, i)
  <2>. PICK i \in Instances : TickEnter(c, i) BY <1>1
  <2>1. TypeOK'
    BY DEF TypeInv, TypeOK, TickEnter, store, ledger, req, InTick
  <2>2. Holding'
    BY DEF TypeInv, TypeOK, Holding, TickEnter, Active, InTick, InSupply, Sent
  <2>. QED BY <2>1, <2>2 DEF TypeInv
<1>2. ASSUME Leave(c) PROVE TypeInv'
  <2>1. TypeOK'
    BY <1>2 DEF TypeInv, TypeOK, Leave, Released, store, ledger, req, InTick
  <2>2. Holding'
    BY <1>2 DEF TypeInv, TypeOK, Holding, Leave, Active, InTick, InSupply, Sent
  <2>. QED BY <2>1, <2>2 DEF TypeInv
<1>3. CASE ListUsers(c)
  <2>1. TypeOK'
    BY <1>3 DEF TypeInv, TypeOK, ListUsers, Registered, store, ledger, req, InTick
  <2>2. Holding'
    BY <1>3 DEF TypeInv, TypeOK, Holding, ListUsers, Active, InTick, InSupply, Sent
  <2>. QED BY <2>1, <2>2 DEF TypeInv
<1>4. CASE NextUser(c)
  <2>. PICK u \in todo[c] : \E n \in ReadableBalances(u[2]) :
         /\ todo' = [todo EXCEPT ![c] = @ \ {u}]
         /\ IF n = 0
            THEN UNCHANGED <<pc, cur, amt>>
            ELSE /\ pc' = [pc EXCEPT ![c] = "build"]
                 /\ cur' = [cur EXCEPT ![c] = u[2]]
                 /\ amt' = [amt EXCEPT ![c] = ClampToCap(n)]
    BY <1>4 DEF NextUser
  <2>. PICK n \in ReadableBalances(u[2]) :
         /\ todo' = [todo EXCEPT ![c] = @ \ {u}]
         /\ IF n = 0
            THEN UNCHANGED <<pc, cur, amt>>
            ELSE /\ pc' = [pc EXCEPT ![c] = "build"]
                 /\ cur' = [cur EXCEPT ![c] = u[2]]
                 /\ amt' = [amt EXCEPT ![c] = ClampToCap(n)]
    OBVIOUS
  <2>1. u[2] \in Wallets
    BY DEF TypeInv, TypeOK
  <2>2. n \in Nat
    BY <2>1 DEF TypeInv, TypeOK, ReadableBalances
  <2>3. ClampToCap(n) \in Nat
    BY <2>2, ClampType
  <2>4. TypeOK'
    BY <1>4, <2>1, <2>3 DEF TypeInv, TypeOK, NextUser, store, ledger, req, InTick
  <2>5. Holding'
    BY <1>4, <2>1 DEF TypeInv, TypeOK, Holding, NextUser, Active, InTick, InSupply, Sent
  <2>. QED BY <2>4, <2>5 DEF TypeInv
<1>5. CASE BuildSupply(c)
  <2>1. TypeOK'
    BY <1>5 DEF TypeInv, TypeOK, BuildSupply, store, ledger, req, InTick
  <2>2. Holding'
    BY <1>5 DEF TypeInv, TypeOK, Holding, BuildSupply, Active, InTick, InSupply, Sent
  <2>. QED BY <2>1, <2>2 DEF TypeInv
<1>6. CASE Send(c)
  <2>. PICK h \in Hashes : Accept(c, h) /\ hash' = [hash EXCEPT ![c] = h]
    BY <1>6 DEF Send
  <2>1. txs' \in [Hashes -> TxRecords]
    BY <1>6, AcceptType DEF Send
  <2>2. TypeOK'
    BY <1>6, <2>1 DEF TypeInv, TypeOK, Send, store, req, InTick
  <2>3. Holding'
    BY <1>6 DEF TypeInv, TypeOK, Holding, Send, Active, InTick, InSupply, Sent
  <2>. QED BY <2>2, <2>3 DEF TypeInv
<1>7. CASE BuildFails(c) \/ SendRefused(c) \/ PollFails(c) \/ RecordThrows(c)
  BY <1>7, DropType DEF TypeInv, TypeOK, BuildFails, SendRefused, PollFails, RecordThrows,
     InSupply, ledger
<1>8. CASE SendThrows(c)
  <2>1. txs' \in [Hashes -> TxRecords]
    BY <1>8, AcceptType DEF SendThrows
  <2>. QED BY <1>8, <2>1, DropType DEF SendThrows, InSupply
<1>9. CASE PollSuccess(c)
  <2>1. TypeOK'
    BY <1>9 DEF TypeInv, TypeOK, PollSuccess, store, ledger, req, InTick
  <2>2. Holding'
    BY <1>9 DEF TypeInv, TypeOK, Holding, PollSuccess, Active, InTick, InSupply, Sent
  <2>. QED BY <2>1, <2>2 DEF TypeInv
<1>10. CASE GetPosition(c)
  <2>1. cur[c] \in Wallets
    BY <1>10 DEF TypeInv, Holding, GetPosition, InSupply
  <2>2. PositionOf(cur[c]) \in Positions
    BY <2>1 DEF TypeInv, TypeOK, PositionOf, PositionDocs, Positions, IdlePosition
  <2>3. TypeOK'
    BY <1>10, <2>2 DEF TypeInv, TypeOK, GetPosition, store, ledger, req, InTick
  <2>4. Holding'
    BY <1>10 DEF TypeInv, TypeOK, Holding, GetPosition, Active, InTick, InSupply, Sent
  <2>. QED BY <2>3, <2>4 DEF TypeInv
<1>11. CASE SetPosition(c)
  <2>1. prev[c] \in Positions /\ hash[c] \in Hashes
    BY <1>11 DEF TypeInv, TypeOK, Holding, SetPosition, Sent
  <2>2. [pool |-> ExecPool, credited |-> NewAmount(prev[c], hash[c])] \in PositionDocs
    BY <2>1 DEF NewAmount, PositionDocs, Positions, Items
  <2>3. TypeOK'
    BY <1>11, <2>2 DEF TypeInv, TypeOK, SetPosition, AfterRecord, Drop, ledger, req,
       InTick, IdlePosition, Positions, Items
  <2>4. Holding'
    BY <1>11 DEF TypeInv, TypeOK, Holding, SetPosition, AfterRecord, Drop, Active,
       InTick, InSupply, Sent
  <2>. QED BY <2>3, <2>4 DEF TypeInv
<1>. QED
  BY <1>1, <1>2, <1>3, <1>4, <1>5, <1>6, <1>7, <1>8, <1>9, <1>10, <1>11
  DEF CallStep, CallFault, TickDone, TickThrows

LEMMA CrashType ==
  ASSUME TypeInv, NEW i \in Instances, Crash(i)
  PROVE  TypeInv'
<1>1. TypeOK'
  BY DEF TypeInv, TypeOK, Crash, Reset, store, ledger, req, IdlePosition, Positions, Items
<1>2. Holding'
  BY DEF TypeInv, TypeOK, Holding, Crash, Reset, Active, InTick, InSupply, Sent
<1>. QED BY <1>1, <1>2 DEF TypeInv

\* The handlers, the ledger and the faucet leave the calls alone.
LEMMA EnvironmentType ==
  ASSUME TypeInv,
         \/ \E o \in Owners, w \in Wallets : Register(o, w)
         \/ \E r \in Requests : RequestStep(r)
         \/ \E h \in Hashes : LedgerStep(h)
         \/ \E w \in Wallets : Fund(w)
  PROVE  TypeInv'
<1>1. UNCHANGED tick
  BY DEF Register, RequestStep, UnregisterFind, UnregisterUser, UnregisterPosition,
         ResetUsers, ResetPositions, RequestDies, LedgerStep, Land, LandFails, Expire, Fund
<1>2. Holding'
  BY <1>1 DEF TypeInv, Holding, tick, Active
<1>3. ASSUME NEW o \in Owners, NEW w \in Wallets, Register(o, w) PROVE TypeOK'
  BY <1>1, <1>3 DEF TypeInv, TypeOK, Register, tick, ledger, req
<1>4. ASSUME NEW r \in Requests, RequestStep(r) PROVE TypeOK'
  <2>. USE <1>1 DEF TypeInv, TypeOK, tick, ledger, store, InReq
  <2>1. CASE \E o \in Owners : UnregisterFind(r, o)
    BY <2>1 DEF UnregisterFind
  <2>2. CASE UnregisterUser(r)
    BY <2>2 DEF UnregisterUser
  <2>3. CASE UnregisterPosition(r)
    BY <2>3 DEF UnregisterPosition, EndRequest, PositionDocs
  <2>4. CASE ResetUsers(r)
    BY <2>4 DEF ResetUsers
  <2>5. CASE ResetPositions(r)
    BY <2>5 DEF ResetPositions, EndRequest, PositionDocs
  <2>6. CASE RequestDies(r)
    BY <2>6 DEF RequestDies, EndRequest
  <2>. QED BY <1>4, <2>1, <2>2, <2>3, <2>4, <2>5, <2>6 DEF RequestStep
<1>5. ASSUME NEW h \in Hashes, LedgerStep(h) PROVE TypeOK'
  <2>1. ASSUME NEW s \in {"success", "failed", "expired"}, txs[h].status = "pending",
               Final(h, s)
        PROVE  txs' \in [Hashes -> TxRecords]
    BY <2>1 DEF TypeInv, TypeOK, Final, TxRecords, NoTx
  <2>2. CASE Land(h)
    <3>1. txs' \in [Hashes -> TxRecords]
      BY <2>1, <2>2 DEF Land, IsNext
    <3>2. txs[h].wallet \in Wallets /\ txs[h].amount \in Nat
      BY <2>2 DEF TypeInv, TypeOK, Land, IsNext, TxRecords, NoTx
    <3>3. idle' \in [Wallets -> Nat]
      BY <2>2, <3>2 DEF TypeInv, TypeOK, Land
    <3>. QED BY <1>1, <2>2, <3>1, <3>3 DEF TypeInv, TypeOK, Land, tick, store, req
  <2>3. CASE LandFails(h)
    <3>1. txs' \in [Hashes -> TxRecords]
      BY <2>1, <2>3 DEF LandFails, IsNext
    <3>. QED BY <1>1, <2>3, <3>1 DEF TypeInv, TypeOK, LandFails, tick, store, req
  <2>4. CASE Expire(h)
    <3>1. txs' \in [Hashes -> TxRecords]
      BY <2>1, <2>4 DEF Expire
    <3>. QED BY <1>1, <2>4, <3>1 DEF TypeInv, TypeOK, Expire, tick, store, req
  <2>. QED BY <1>5, <2>2, <2>3, <2>4 DEF LedgerStep
<1>6. ASSUME NEW w \in Wallets, Fund(w) PROVE TypeOK'
  <2>. PICK n \in 1..MaxIdle : idle' = [idle EXCEPT ![w] = @ + n]
    BY <1>6 DEF Fund
  <2>1. n \in Nat
    OBVIOUS
  <2>2. idle' \in [Wallets -> Nat]
    BY <2>1 DEF TypeInv, TypeOK
  <2>. QED BY <1>1, <1>6, <2>2 DEF TypeInv, TypeOK, Fund, tick, store, req
<1>. QED BY <1>2, <1>3, <1>4, <1>5, <1>6 DEF TypeInv

LEMMA StutterType == ASSUME TypeInv, UNCHANGED vars PROVE TypeInv'
BY DEF TypeInv, TypeOK, Holding, Active, vars

LEMMA TypeNext == ASSUME ConstantsOK, TypeInv, [Next]_vars PROVE TypeInv'
BY TickType, CrashType, EnvironmentType, StutterType DEF Next

\* Every variable keeps its type, and a call in the loop has a wallet, a host
\* and, once its supply is sent, a hash: what `user`, `res` and `rt` hold.
THEOREM TypeCorrect == Spec => []TypeInv
<1>1. Init => TypeInv
  BY TypeInit, ConstantsOK
<1>2. TypeInv /\ [Next]_vars => TypeInv'
  BY TypeNext, ConstantsOK
<1>. QED BY <1>1, <1>2, PTL DEF Spec

-----------------------------------------------------------------------------
(***************************************************************************)
(* Supplies are credited once and only when they landed.                   *)
(***************************************************************************)
LEMMA CreditInit == ASSUME ConstantsOK, Init PROVE CreditInv
BY DEF ConstantsOK, Init, CreditInv, PositionsBacked, ReadsBacked, Backed, HeldIsOwn,
       HeldOnce, HeldNotCredited, Sent, NoDoc, OldDoc, OldPool, ExecPool

\* What may happen to the ledger: a landed supply stays as it is, and a known
\* one keeps its wallet.
TxsGrow ==
  \A h \in Hashes :
    /\ txs[h].status = "success" => txs'[h] = txs[h]
    /\ txs[h].status # "unsent" => /\ txs'[h].status # "unsent"
                                   /\ txs'[h].wallet = txs[h].wallet

LEMMA AcceptGrows ==
  ASSUME TypeInv, NEW c \in Calls, NEW h \in Hashes, Accept(c, h)
  PROVE  TxsGrow
BY DEF TypeInv, TypeOK, TxsGrow, Accept, NoTx

LEMMA FinalGrows ==
  ASSUME TypeInv, NEW h \in Hashes, LedgerStep(h)
  PROVE  TxsGrow
<1>1. txs[h].status = "pending"
  BY DEF LedgerStep, Land, LandFails, Expire, IsNext
<1>2. PICK s \in {"success", "failed", "expired"} : Final(h, s)
  BY DEF LedgerStep, Land, LandFails, Expire
<1>3. txs' = [txs EXCEPT ![h] = [txs[h] EXCEPT !.status = s]]
  BY <1>2 DEF Final
<1>4. txs[h] \in [status : {"pending", "success", "failed", "expired"},
                  wallet : Wallets, amount : Nat, seq : Nat]
  BY <1>1 DEF TypeInv, TypeOK, TxRecords, NoTx
<1>. QED BY <1>1, <1>3, <1>4 DEF TxsGrow, TypeInv, TypeOK

LEMMA LandedGrows ==
  ASSUME TxsGrow, NEW w \in Wallets
  PROVE  Landed(w) \subseteq Landed(w)'
BY DEF TxsGrow, Landed

\* The steps that neither start to wait for a supply, nor read or write a
\* position: they may only let calls go and delete documents.
LEMMA CreditFrame ==
  ASSUME TypeInv, TypeInv', CreditInv, TxsGrow,
         \A w \in Wallets : positions'[w] \in {positions[w], NoDoc},
         \A c \in Calls : pc'[c] \in Sent =>
           /\ pc[c] \in Sent /\ hash'[c] = hash[c] /\ cur'[c] = cur[c]
           /\ pc'[c] # "poll" /\ pc[c] = "poll" => txs[hash[c]].status = "success"
           /\ pc'[c] = "setPosition" => pc[c] = "setPosition" /\ prev'[c] = prev[c]
  PROVE  CreditInv'
<1>1. \A w \in Wallets : Landed(w) \subseteq Landed(w)'
  BY LandedGrows
<1>2. PositionsBacked'
  BY <1>1 DEF CreditInv, PositionsBacked, Backed, NoDoc, ExecPool
<1>3. ReadsBacked'
  <2>. SUFFICES ASSUME NEW c \in Calls, pc'[c] = "setPosition"
                PROVE  Backed(prev[c], cur[c])'
    BY DEF ReadsBacked
  <2>1. pc[c] = "setPosition" /\ prev'[c] = prev[c] /\ cur'[c] = cur[c]
    BY DEF Sent
  <2>2. cur[c] \in Wallets
    BY <2>1 DEF TypeInv, Holding, InSupply
  <2>. QED BY <1>1, <2>1, <2>2 DEF CreditInv, ReadsBacked, Backed
<1>4. HeldIsOwn'
  BY DEF CreditInv, HeldIsOwn, TxsGrow, TypeInv, Holding, Sent
<1>5. HeldOnce'
  BY DEF CreditInv, HeldOnce
<1>6. HeldNotCredited'
  BY DEF CreditInv, HeldNotCredited, NoDoc, Sent
<1>. QED BY <1>2, <1>3, <1>4, <1>5, <1>6 DEF CreditInv

\* A supply that was just taken by the network is in no document and no copy:
\* those add up supplies that landed.
LEMMA SendCredit ==
  ASSUME TypeInv, TypeInv', CreditInv, NEW c \in Calls, Send(c)
  PROVE  CreditInv'
<1>. PICK h \in Hashes : Accept(c, h) /\ hash' = [hash EXCEPT ![c] = h]
  BY DEF Send
<1>1. TxsGrow
  BY AcceptGrows
<1>2. \A w \in Wallets : Landed(w) \subseteq Landed(w)'
  BY <1>1, LandedGrows
<1>3. /\ pc' = [pc EXCEPT ![c] = "poll"] /\ pc[c] = "send"
      /\ UNCHANGED <<positions, cur, prev>>
  BY DEF Send, store
<1>4. /\ txs[h] = NoTx /\ txs[h].status = "unsent"
      /\ txs'[h].wallet = cur[c] /\ txs'[h].status = "pending"
  BY DEF Accept, NoTx, TypeInv, TypeOK
<1>5. \A d \in Calls \ {c} : pc'[d] = pc[d] /\ hash'[d] = hash[d]
  BY <1>3 DEF TypeInv, TypeOK
<1>6. pc'[c] = "poll" /\ hash'[c] = h
  BY <1>3 DEF TypeInv, TypeOK
<1>7. \A w \in Wallets : h \notin Landed(w)
  BY <1>4 DEF Landed
<1>8. PositionsBacked'
  BY <1>2, <1>3 DEF CreditInv, PositionsBacked, Backed
<1>9. ReadsBacked'
  <2>. SUFFICES ASSUME NEW d \in Calls, pc'[d] = "setPosition"
                PROVE  Backed(prev[d], cur[d])'
    BY DEF ReadsBacked
  <2>1. pc[d] = "setPosition" /\ cur[d] \in Wallets
    BY <1>5, <1>6 DEF TypeInv, Holding, InSupply
  <2>. QED BY <1>2, <1>3, <2>1 DEF CreditInv, ReadsBacked, Backed
<1>10. HeldIsOwn'
  <2>. SUFFICES ASSUME NEW d \in Calls, pc'[d] \in Sent
                PROVE  /\ txs'[hash'[d]].wallet = cur'[d]
                       /\ txs'[hash'[d]].status # "unsent"
                       /\ pc'[d] # "poll" => txs'[hash'[d]].status = "success"
    BY DEF HeldIsOwn
  <2>1. CASE d = c
    BY <1>3, <1>4, <1>6, <2>1
  <2>2. CASE d # c
    <3>1. pc[d] \in Sent /\ hash[d] \in Hashes /\ pc'[d] = pc[d] /\ hash'[d] = hash[d]
      BY <1>5, <2>2 DEF TypeInv, Holding
    <3>. QED BY <1>1, <1>3, <3>1 DEF CreditInv, HeldIsOwn, TxsGrow
  <2>. QED BY <2>1, <2>2
<1>11. \A d \in Calls \ {c} : pc[d] \in Sent => hash[d] # h
  BY <1>4 DEF CreditInv, HeldIsOwn
<1>12. HeldOnce'
  BY <1>5, <1>6, <1>11 DEF CreditInv, HeldOnce
<1>13. \A w \in Wallets : h \notin positions[w].credited
  BY <1>7 DEF CreditInv, PositionsBacked, Backed
<1>14. \A d \in Calls : pc[d] = "setPosition" => h \notin prev[d].credited
  BY <1>7 DEF CreditInv, ReadsBacked, Backed, TypeInv, Holding, InSupply
<1>15. HeldNotCredited'
  BY <1>3, <1>5, <1>6, <1>13, <1>14 DEF CreditInv, HeldNotCredited
<1>. QED BY <1>8, <1>9, <1>10, <1>12, <1>15 DEF CreditInv

\* Reading a position copies a document that is backed.
LEMMA GetCredit ==
  ASSUME TypeInv, TypeInv', CreditInv, NEW c \in Calls, GetPosition(c)
  PROVE  CreditInv'
<1>1. /\ pc[c] = "getPosition" /\ pc' = [pc EXCEPT ![c] = "setPosition"]
      /\ prev' = [prev EXCEPT ![c] = PositionOf(cur[c])]
      /\ UNCHANGED <<positions, txs, hash, cur>>
  BY DEF GetPosition, store, ledger
<1>2. cur[c] \in Wallets
  BY <1>1 DEF TypeInv, Holding, InSupply
<1>3. Backed(PositionOf(cur[c]), cur[c])
  BY <1>2 DEF CreditInv, PositionsBacked, Backed, PositionOf, IdlePosition, NoPool, ExecPool
<1>4. /\ pc'[c] = "setPosition" /\ prev'[c] = PositionOf(cur[c])
      /\ \A d \in Calls \ {c} : pc'[d] = pc[d] /\ prev'[d] = prev[d]
  BY <1>1 DEF TypeInv, TypeOK
<1>5. \A d \in Calls : pc'[d] \in Sent <=> pc[d] \in Sent
  BY <1>1, <1>4 DEF Sent
<1>6. \A w \in Wallets : Landed(w)' = Landed(w)
  BY <1>1 DEF Landed
<1>7. PositionsBacked'
  BY <1>1, <1>6 DEF CreditInv, PositionsBacked, Backed
<1>8. ReadsBacked'
  <2>. SUFFICES ASSUME NEW d \in Calls, pc'[d] = "setPosition"
                PROVE  Backed(prev[d], cur[d])'
    BY DEF ReadsBacked
  <2>1. CASE d = c
    BY <1>1, <1>2, <1>3, <1>4, <1>6, <2>1 DEF Backed
  <2>2. CASE d # c
    <3>1. pc[d] = "setPosition" /\ prev'[d] = prev[d] /\ cur[d] \in Wallets
      BY <1>4, <2>2 DEF TypeInv, Holding, InSupply
    <3>. QED BY <1>1, <1>6, <3>1 DEF CreditInv, ReadsBacked, Backed
  <2>. QED BY <2>1, <2>2
<1>9. HeldIsOwn'
  <2>1. txs[hash[c]].status = "success"
    BY <1>1 DEF CreditInv, HeldIsOwn, Sent
  <2>. QED BY <1>1, <1>4, <1>5, <2>1 DEF CreditInv, HeldIsOwn
<1>10. HeldOnce'
  BY <1>1, <1>5 DEF CreditInv, HeldOnce
<1>11. HeldNotCredited'
  <2>1. \A d \in Calls : pc[d] \in Sent => hash[d] \notin PositionOf(cur[c]).credited
    BY <1>2 DEF CreditInv, HeldNotCredited, PositionOf, IdlePosition
  <2>. QED BY <1>1, <1>4, <1>5, <2>1 DEF CreditInv, HeldNotCredited
<1>. QED BY <1>7, <1>8, <1>9, <1>10, <1>11 DEF CreditInv

\* Writing it adds the supply in hand, which landed for this wallet, to a
\* backed copy; nobody else holds that supply.
LEMMA SetCredit ==
  ASSUME TypeInv, TypeInv', CreditInv, NEW c \in Calls, SetPosition(c)
  PROVE  CreditInv'
<1>. DEFINE doc == [pool |-> ExecPool, credited |-> NewAmount(prev[c], hash[c])]
<1>1. /\ pc[c] = "setPosition" /\ pc' = [pc EXCEPT ![c] = "next"]
      /\ positions' = [positions EXCEPT ![cur[c]] = doc]
      /\ cur' = [cur EXCEPT ![c] = NoWallet]
      /\ hash' = [hash EXCEPT ![c] = NoHash]
      /\ prev' = [prev EXCEPT ![c] = IdlePosition]
      /\ txs' = txs
  BY DEF SetPosition, AfterRecord, Drop, ledger
<1>2. cur[c] \in Wallets /\ hash[c] \in Hashes
  BY <1>1 DEF TypeInv, Holding, InSupply, Sent
<1>3. /\ pc'[c] = "next"
      /\ \A d \in Calls \ {c} : /\ pc'[d] = pc[d] /\ cur'[d] = cur[d]
                                /\ hash'[d] = hash[d] /\ prev'[d] = prev[d]
  BY <1>1 DEF TypeInv, TypeOK
<1>4. \A w \in Wallets : positions'[w] = IF w = cur[c] THEN doc ELSE positions[w]
  BY <1>1, <1>2 DEF TypeInv, TypeOK
<1>5. \A w \in Wallets : Landed(w)' = Landed(w)
  BY <1>1 DEF Landed
<1>6. hash[c] \in Landed(cur[c])
  BY <1>1, <1>2 DEF CreditInv, HeldIsOwn, Landed, Sent
<1>7. Backed(doc, cur[c])
  BY <1>1, <1>2, <1>6 DEF CreditInv, ReadsBacked, Backed, NewAmount
<1>8. PositionsBacked'
  BY <1>4, <1>5, <1>7 DEF CreditInv, PositionsBacked, Backed
<1>9. ReadsBacked'
  <2>. SUFFICES ASSUME NEW d \in Calls, pc'[d] = "setPosition"
                PROVE  Backed(prev[d], cur[d])'
    BY DEF ReadsBacked
  <2>1. d # c /\ pc[d] = "setPosition"
    BY <1>3
  <2>2. cur[d] \in Wallets
    BY <2>1 DEF TypeInv, Holding, InSupply
  <2>. QED BY <1>3, <1>5, <2>1, <2>2 DEF CreditInv, ReadsBacked, Backed
<1>10. \A d \in Calls : pc'[d] \in Sent =>
         /\ pc[d] \in Sent /\ d # c /\ hash'[d] = hash[d] /\ cur'[d] = cur[d]
         /\ pc'[d] = pc[d] /\ prev'[d] = prev[d]
  BY <1>3 DEF Sent
<1>11. HeldIsOwn'
  BY <1>1, <1>10 DEF CreditInv, HeldIsOwn
<1>12. HeldOnce'
  BY <1>10 DEF CreditInv, HeldOnce
<1>13. \A d \in Calls : pc'[d] \in Sent => hash[d] \notin doc.credited
  <2>. SUFFICES ASSUME NEW d \in Calls, pc'[d] \in Sent PROVE hash[d] \notin doc.credited
    OBVIOUS
  <2>1. hash[d] # hash[c]
    BY <1>1, <1>10 DEF CreditInv, HeldOnce, Sent
  <2>2. hash[d] \notin prev[c].credited
    BY <1>1, <1>10 DEF CreditInv, HeldNotCredited
  <2>. QED BY <2>1, <2>2 DEF NewAmount
<1>14. HeldNotCredited'
  <2>1. \A d \in Calls : pc'[d] = "setPosition" => pc'[d] \in Sent
    BY DEF Sent
  <2>. QED BY <1>4, <1>10, <1>13, <2>1 DEF CreditInv, HeldNotCredited
<1>. QED BY <1>8, <1>9, <1>11, <1>12, <1>14 DEF CreditInv

\* A call lets its supply go, or had none.
LEMMA DropCredit ==
  ASSUME TypeInv, TypeInv', CreditInv, NEW c \in Calls, Drop(c), UNCHANGED positions, TxsGrow
  PROVE  CreditInv'
<1>1. \A d \in Calls : pc'[d] \in Sent =>
        /\ d # c /\ pc'[d] = pc[d] /\ cur'[d] = cur[d] /\ hash'[d] = hash[d] /\ prev'[d] = prev[d]
  BY DEF Drop, TypeInv, TypeOK, Sent
<1>. QED BY <1>1, CreditFrame

LEMMA CallCredit ==
  ASSUME TypeInv, TypeInv', CreditInv, NEW c \in Calls,
         \/ \E i \in Instances : TickEnter(c, i)
         \/ CallStep(c)
         \/ CallFault(c)
  PROVE  CreditInv'
<1>1. ASSUME UNCHANGED txs PROVE TxsGrow
  BY <1>1 DEF TxsGrow
<1>2. ASSUME UNCHANGED <<positions, txs, cur, hash, prev>>, NEW l \in {"list", "next", "out", "send"},
             pc' = [pc EXCEPT ![c] = l]
      PROVE  CreditInv'
  <2>1. \A d \in Calls : pc'[d] \in Sent => d # c /\ pc'[d] = pc[d]
    BY <1>2 DEF TypeInv, TypeOK, Sent
  <2>. QED BY <1>1, <1>2, <2>1, CreditFrame
<1>3. CASE \E i \in Instances : TickEnter(c, i)
  BY <1>2, <1>3 DEF TickEnter, store, ledger
<1>4. CASE TickDone(c) \/ TickThrows(c)
  BY <1>2, <1>4 DEF TickDone, TickThrows, Leave, store, ledger
<1>5. CASE ListUsers(c)
  BY <1>2, <1>5 DEF ListUsers, store, ledger
<1>6. CASE NextUser(c)
  <2>1. /\ UNCHANGED <<positions, txs, hash, prev>>
        /\ pc[c] = "next"
        /\ \/ UNCHANGED <<pc, cur>>
           \/ \E w : pc' = [pc EXCEPT ![c] = "build"] /\ cur' = [cur EXCEPT ![c] = w]
    BY <1>6 DEF NextUser, store, ledger
  <2>2. \A d \in Calls : pc'[d] \in Sent => d # c /\ pc'[d] = pc[d] /\ cur'[d] = cur[d]
    BY <2>1 DEF TypeInv, TypeOK, Sent
  <2>. QED BY <1>1, <2>1, <2>2, CreditFrame
<1>7. CASE BuildSupply(c)
  BY <1>2, <1>7 DEF BuildSupply, store, ledger
<1>8. CASE BuildFails(c) \/ SendRefused(c) \/ PollFails(c) \/ RecordThrows(c)
  BY <1>1, <1>8, DropCredit
  DEF BuildFails, SendRefused, PollFails, RecordThrows, store, ledger
<1>9. CASE SendThrows(c)
  BY <1>9, DropCredit, AcceptGrows DEF SendThrows, store
<1>10. CASE PollSuccess(c)
  <2>1. /\ UNCHANGED <<positions, txs, cur, hash, prev>>
        /\ pc[c] = "poll" /\ pc' = [pc EXCEPT ![c] = "getPosition"]
        /\ txs[hash[c]].status = "success"
    BY <1>10 DEF PollSuccess, Confirmed, store, ledger
  <2>2. \A d \in Calls : pc'[d] \in Sent =>
          /\ pc[d] \in Sent
          /\ pc'[d] # "poll" /\ pc[d] = "poll" => d = c
          /\ pc'[d] = "setPosition" => pc[d] = "setPosition"
    BY <2>1 DEF TypeInv, TypeOK, Sent
  <2>. QED BY <1>1, <2>1, <2>2, CreditFrame
<1>. QED
  BY <1>3, <1>4, <1>5, <1>6, <1>7, <1>8, <1>9, <1>10, SendCredit, GetCredit, SetCredit
  DEF CallStep, CallFault

LEMMA OtherCredit ==
  ASSUME TypeInv, TypeInv', CreditInv,
         \/ \E i \in Instances : Crash(i)
         \/ \E o \in Owners, w \in Wallets : Register(o, w)
         \/ \E r \in Requests : RequestStep(r)
         \/ \E h \in Hashes : LedgerStep(h)
         \/ \E w \in Wallets : Fund(w)
         \/ UNCHANGED vars
  PROVE  CreditInv'
<1>1. ASSUME UNCHANGED txs PROVE TxsGrow
  BY <1>1 DEF TxsGrow
<1>2. ASSUME NEW i \in Instances, Crash(i) PROVE CreditInv'
  <2>1. UNCHANGED <<positions, txs>>
    BY <1>2 DEF Crash, store, ledger
  <2>2. \A d \in Calls : pc'[d] \in Sent =>
          pc'[d] = pc[d] /\ cur'[d] = cur[d] /\ hash'[d] = hash[d] /\ prev'[d] = prev[d]
    BY <1>2 DEF Crash, Reset, Sent
  <2>. QED BY <1>1, <2>1, <2>2, CreditFrame
<1>3. ASSUME UNCHANGED tick, TxsGrow, \A w \in Wallets : positions'[w] \in {positions[w], NoDoc}
      PROVE  CreditInv'
  BY <1>3, CreditFrame DEF tick
<1>4. CASE \E o \in Owners, w \in Wallets : Register(o, w)
  BY <1>1, <1>3, <1>4 DEF Register, ledger
<1>5. CASE \E r \in Requests : RequestStep(r)
  <2>1. UNCHANGED <<tick, txs>> /\ TxsGrow
    BY <1>1, <1>5 DEF RequestStep, UnregisterFind, UnregisterUser, UnregisterPosition,
       ResetUsers, ResetPositions, RequestDies, ledger
  <2>2. \A w \in Wallets : positions'[w] \in {positions[w], NoDoc}
    BY <1>5 DEF RequestStep, UnregisterFind, UnregisterUser, UnregisterPosition,
       ResetUsers, ResetPositions, RequestDies, store, TypeInv, TypeOK
  <2>. QED BY <1>3, <2>1, <2>2
<1>6. CASE \E h \in Hashes : LedgerStep(h)
  BY <1>3, <1>6, FinalGrows DEF LedgerStep, Land, LandFails, Expire, store
<1>7. CASE \E w \in Wallets : Fund(w)
  BY <1>1, <1>3, <1>7 DEF Fund, store
<1>8. CASE UNCHANGED vars
  BY <1>1, <1>3, <1>8 DEF vars, tick
<1>. QED BY <1>2, <1>4, <1>5, <1>6, <1>7, <1>8

LEMMA CreditNext == ASSUME TypeInv, TypeInv', CreditInv, [Next]_vars PROVE CreditInv'
BY CallCredit, OtherCredit DEF Next

\* Documents and the copies that calls hold of them are always backed, whatever
\* overlaps or is killed.
THEOREM CreditCorrect == Spec => []CreditInv
<1>1. Init => CreditInv
  BY CreditInit, ConstantsOK
<1>2. TypeInv /\ TypeInv' /\ CreditInv /\ [Next]_vars => CreditInv'
  BY CreditNext
<1>. QED BY <1>1, <1>2, TypeCorrect, PTL DEF Spec

\* A recorded position never exceeds what the wallet holds in the exec pool,
\* whatever ticks overlap, time out, throw or die: RecordedIsBacked.
THEOREM NeverOverstated == Spec => []RecordedIsBacked
<1>1. CreditInv => RecordedIsBacked
  BY DEF CreditInv, PositionsBacked, Backed, RecordedIsBacked, Credited
<1>. QED BY <1>1, CreditCorrect, PTL

\* No supply enters a position twice, however reads and writes of the ticks
\* interleave: NoDoubleCredit.
THEOREM NeverCreditedTwice == Spec => []NoDoubleCredit
<1>1. CreditInv => NoDoubleCredit
  BY DEF CreditInv, HeldNotCredited, NoDoubleCredit, Sent
<1>. QED BY <1>1, CreditCorrect, PTL

-----------------------------------------------------------------------------
(***************************************************************************)
(* One tick per process.                                                   *)
(***************************************************************************)
\* The steps that change neither the flags nor which calls are active.
LEMMA GuardFrame ==
  ASSUME OneTickPerInstance, UNCHANGED <<running, host>>,
         \A c \in Calls : Active(c)' <=> Active(c)
  PROVE  OneTickPerInstance'
BY DEF OneTickPerInstance

\* The steps that concern one instance: right for it, and the others stay.
ChangesOnly(i) ==
  /\ \A j \in Instances \ {i} : running'[j] = running[j]
  /\ \A d \in Calls : Active(d)' /\ host'[d] # i => Active(d) /\ host[d] = host'[d]
  /\ \A d \in Calls : Active(d) /\ host[d] # i => Active(d)' /\ host[d] = host'[d]
  /\ running'[i] <=> \E d \in Calls : Active(d)' /\ host'[d] = i
  /\ \A d, e \in Calls : Active(d)' /\ Active(e)' /\ host'[d] = i /\ host'[e] = i => d = e

LEMMA GuardChange ==
  ASSUME OneTickPerInstance, NEW i \in Instances, ChangesOnly(i)
  PROVE  OneTickPerInstance'
<1>. USE DEF ChangesOnly
<1>1. \A c, d \in Calls : Active(c)' /\ Active(d)' /\ host'[c] = host'[d] => c = d
  BY DEF OneTickPerInstance
<1>2. ASSUME NEW j \in Instances
      PROVE  running'[j] <=> \E c \in Calls : Active(c)' /\ host'[c] = j
  <2>1. CASE j = i
    BY <2>1
  <2>2. CASE j # i
    <3>1. running'[j] <=> \E c \in Calls : Active(c) /\ host[c] = j
      <4>1. running'[j] = running[j]
        BY <2>2
      <4>2. running[j] <=> \E c \in Calls : Active(c) /\ host[c] = j
        BY DEF OneTickPerInstance
      <4>. QED BY <4>1, <4>2
    <3>2. \A c \in Calls : Active(c) /\ host[c] = j <=> Active(c)' /\ host'[c] = j
      BY <2>2
    <3>. QED BY <3>1, <3>2
  <2>. QED BY <2>1, <2>2
<1>. QED BY <1>1, <1>2 DEF OneTickPerInstance

LEMMA LeaveGuard ==
  ASSUME TypeInv, OneTickPerInstance, NEW c \in Calls, Active(c), Leave(c)
  PROVE  OneTickPerInstance'
<1>1. /\ running' = [running EXCEPT ![host[c]] = FALSE]
      /\ pc' = [pc EXCEPT ![c] = "out"]
      /\ host' = [host EXCEPT ![c] = NoInstance]
  BY DEF Leave, Released
<1>2. ~Active(c)'
  BY <1>1 DEF TypeInv, TypeOK, Active, InTick
<1>3. \A d \in Calls \ {c} : (Active(d)' <=> Active(d)) /\ host'[d] = host[d]
  BY <1>1 DEF TypeInv, TypeOK, Active
<1>4. host[c] \in Instances
  BY DEF TypeInv, Holding
<1>5. \A i \in Instances : running'[i] = IF i = host[c] THEN FALSE ELSE running[i]
  BY <1>1, <1>4 DEF TypeInv, TypeOK
<1>6. \A d \in Calls \ {c} : Active(d) => host[d] # host[c]
  BY DEF OneTickPerInstance
<1>7. \A j \in Instances \ {host[c]} : running'[j] = running[j]
  BY <1>5
<1>8. \A d \in Calls : Active(d)' /\ host'[d] # host[c] => Active(d) /\ host[d] = host'[d]
  BY <1>2, <1>3
<1>9. \A d \in Calls : Active(d) /\ host[d] # host[c] => Active(d)' /\ host[d] = host'[d]
  BY <1>3
<1>10. running'[host[c]] <=> \E d \in Calls : Active(d)' /\ host'[d] = host[c]
  BY <1>2, <1>3, <1>4, <1>5, <1>6
<1>11. \A d, e \in Calls : Active(d)' /\ Active(e)' /\ host'[d] = host[c] /\ host'[e] = host[c] => d = e
  BY <1>2, <1>3, <1>6
<1>12. ChangesOnly(host[c])
  BY <1>7, <1>8, <1>9, <1>10, <1>11 DEF ChangesOnly
<1>. QED BY <1>4, <1>12, GuardChange

LEMMA EnterGuard ==
  ASSUME TypeInv, OneTickPerInstance, NEW c \in Calls, NEW i \in Instances, TickEnter(c, i)
  PROVE  OneTickPerInstance'
<1>1. /\ pc[c] = "out" /\ ~running[i]
      /\ running' = [running EXCEPT ![i] = TRUE]
      /\ host' = [host EXCEPT ![c] = i]
      /\ pc' = [pc EXCEPT ![c] = "list"]
  BY DEF TickEnter, MayEnter
<1>2. Active(c)' /\ host'[c] = i
  BY <1>1 DEF TypeInv, TypeOK, Active, InTick
<1>3. \A d \in Calls \ {c} : (Active(d)' <=> Active(d)) /\ host'[d] = host[d]
  BY <1>1 DEF TypeInv, TypeOK, Active
<1>4. \A d \in Calls : Active(d) => host[d] # i
  BY <1>1 DEF OneTickPerInstance
<1>5. \A j \in Instances : running'[j] = IF j = i THEN TRUE ELSE running[j]
  BY <1>1 DEF TypeInv, TypeOK
<1>6. ~Active(c)
  BY <1>1 DEF Active, InTick
<1>7. \A j \in Instances \ {i} : running'[j] = running[j]
  BY <1>5
<1>8. \A d \in Calls : Active(d)' /\ host'[d] # i => Active(d) /\ host[d] = host'[d]
  BY <1>2, <1>3
<1>9. \A d \in Calls : Active(d) /\ host[d] # i => Active(d)' /\ host[d] = host'[d]
  BY <1>3, <1>6
<1>10. running'[i] <=> \E d \in Calls : Active(d)' /\ host'[d] = i
  BY <1>2, <1>5
<1>11. \A d, e \in Calls : Active(d)' /\ Active(e)' /\ host'[d] = i /\ host'[e] = i => d = e
  BY <1>2, <1>3, <1>4
<1>12. ChangesOnly(i)
  BY <1>7, <1>8, <1>9, <1>10, <1>11 DEF ChangesOnly
<1>. QED BY <1>12, GuardChange

LEMMA CrashGuard ==
  ASSUME TypeInv, OneTickPerInstance, NEW i \in Instances, Crash(i)
  PROVE  OneTickPerInstance'
<1>. DEFINE lost == {c \in Calls : Active(c) /\ host[c] = i}
<1>1. /\ running' = [running EXCEPT ![i] = FALSE]
      /\ pc' = Reset(pc, lost, "out")
      /\ host' = Reset(host, lost, NoInstance)
  BY DEF Crash
<1>2. \A c \in Calls : IF c \in lost THEN ~Active(c)'
                       ELSE (Active(c)' <=> Active(c)) /\ host'[c] = host[c]
  BY <1>1 DEF Reset, Active, InTick
<1>3. \A j \in Instances : running'[j] = IF j = i THEN FALSE ELSE running[j]
  BY <1>1 DEF TypeInv, TypeOK
<1>4. \A c \in Calls : Active(c)' => Active(c) /\ host'[c] = host[c] /\ host[c] # i
  BY <1>2
<1>5. \A j \in Instances \ {i} : \A c \in Calls :
        Active(c) /\ host[c] = j => Active(c)' /\ host'[c] = j
  BY <1>2
<1>6. \A j \in Instances \ {i} : running'[j] = running[j]
  BY <1>3
<1>7. \A d \in Calls : Active(d)' /\ host'[d] # i => Active(d) /\ host[d] = host'[d]
  BY <1>4
<1>8. \A d \in Calls : Active(d) /\ host[d] # i => Active(d)' /\ host[d] = host'[d]
  BY <1>2
<1>9. running'[i] <=> \E d \in Calls : Active(d)' /\ host'[d] = i
  BY <1>3, <1>4
<1>10. \A d, e \in Calls : Active(d)' /\ Active(e)' /\ host'[d] = i /\ host'[e] = i => d = e
  BY <1>4
<1>12. ChangesOnly(i)
  BY <1>6, <1>7, <1>8, <1>9, <1>10 DEF ChangesOnly
<1>. QED BY <1>12, GuardChange

LEMMA StepGuard ==
  ASSUME TypeInv, OneTickPerInstance, NEW c \in Calls, CallStep(c) \/ CallFault(c)
  PROVE  OneTickPerInstance'
<1>1. CASE TickDone(c) \/ TickThrows(c)
  BY <1>1, LeaveGuard DEF TickDone, TickThrows, Active, InTick
<1>2. CASE ~(TickDone(c) \/ TickThrows(c))
  <2>1. /\ UNCHANGED <<running, host>>
        /\ pc[c] \in InTick
        /\ \E l \in InTick : pc' = pc \/ pc' = [pc EXCEPT ![c] = l]
    BY <1>2 DEF CallStep, CallFault, ListUsers, NextUser, BuildSupply, BuildFails, Send,
       SendRefused, SendThrows, PollSuccess, PollFails, GetPosition, SetPosition,
       RecordThrows, AfterRecord, Drop, InTick
  <2>2. \A d \in Calls : Active(d)' <=> Active(d)
    BY <2>1 DEF TypeInv, TypeOK, Active
  <2>. QED BY <2>1, <2>2, GuardFrame
<1>. QED BY <1>1, <1>2

\* A process never runs two ticks, and its flag is set exactly while it runs
\* one, whatever throws or is killed: OneTickPerInstance.
THEOREM OneTick == Spec => []OneTickPerInstance
<1>1. Init => OneTickPerInstance
  BY DEF Init, OneTickPerInstance, Active, InTick
<1>2. TypeInv /\ OneTickPerInstance /\ [Next]_vars => OneTickPerInstance'
  <2>. SUFFICES ASSUME TypeInv, OneTickPerInstance, [Next]_vars PROVE OneTickPerInstance'
    OBVIOUS
  <2>1. ASSUME UNCHANGED tick PROVE OneTickPerInstance'
    BY <2>1, GuardFrame DEF tick, Active
  <2>2. CASE \/ \E o \in Owners, w \in Wallets : Register(o, w)
             \/ \E r \in Requests : RequestStep(r)
             \/ \E h \in Hashes : LedgerStep(h)
             \/ \E w \in Wallets : Fund(w)
             \/ UNCHANGED vars
    <3>1. UNCHANGED tick
      BY <2>2 DEF Register, RequestStep, UnregisterFind, UnregisterUser, UnregisterPosition,
         ResetUsers, ResetPositions, RequestDies, LedgerStep, Land, LandFails, Expire, Fund,
         vars, tick
    <3>. QED BY <2>1, <3>1
  <2>. QED BY <2>2, EnterGuard, StepGuard, CrashGuard DEF Next
<1>. QED BY <1>1, <1>2, TypeCorrect, PTL DEF Spec


-----------------------------------------------------------------------------
(***************************************************************************)
(* Types, as the runs state them, and the refinement of SupplyLedger.      *)
(***************************************************************************)
\* Every variable keeps its type: TypeOK.
THEOREM TypesKept == Spec => []TypeOK
<1>1. TypeInv => TypeOK
  BY DEF TypeInv
<1>. QED BY <1>1, TypeCorrect, PTL

\* Of two calls in a tick at the same time there are none.
LEMMA AloneInProcess ==
  ASSUME TypeInv, OneTickPerInstance, OneProcess,
         NEW c \in Calls, NEW d \in Calls, Active(c), Active(d)
  PROVE  c = d
BY DEF TypeInv, Holding, OneProcess, OneTickPerInstance

\* The steps that neither write a position nor read one keep what was read.
LEMMA ReadFrame ==
  ASSUME PromiseInv, UNCHANGED <<positions, rpc>>,
         \A c \in Calls : pc'[c] = "setPosition" =>
            pc[c] = "setPosition" /\ prev'[c] = prev[c] /\ cur'[c] = cur[c]
  PROVE  PromiseInv'
BY DEF PromiseInv, NoRequestUnderWay, ReadIsCurrent, CreditedIn, Credited

LEMMA CallRead ==
  ASSUME TypeInv, OneTickPerInstance, OneProcess, PromiseInv, NEW c \in Calls,
         \/ \E i \in Instances : TickEnter(c, i)
         \/ CallStep(c)
         \/ CallFault(c)
  PROVE  PromiseInv'
<1>1. rpc' = rpc
  BY DEF TickEnter, CallStep, CallFault, TickDone, TickThrows, Leave, ListUsers, NextUser,
     BuildSupply, BuildFails, Send, SendRefused, SendThrows, PollSuccess, PollFails,
     GetPosition, SetPosition, RecordThrows, req
<1>2. CASE GetPosition(c)
  <2>1. /\ positions' = positions /\ cur' = cur
        /\ \A d \in Calls : IF d = c THEN pc'[d] = "setPosition" /\ prev'[d] = PositionOf(cur[c])
                            ELSE pc'[d] = pc[d] /\ prev'[d] = prev[d]
    BY <1>2 DEF GetPosition, store, TypeInv, TypeOK
  <2>2. CreditedIn(PositionOf(cur[c])) = Credited(cur[c])
    BY DEF CreditedIn, PositionOf, Credited, IdlePosition, NoDoc, NoPool, ExecPool
  <2>. QED BY <1>1, <2>1, <2>2 DEF PromiseInv, NoRequestUnderWay, ReadIsCurrent, CreditedIn, Credited
<1>3. CASE SetPosition(c)
  <2>1. \A d \in Calls : pc'[d] # "setPosition"
    <3>1. pc[c] = "setPosition" /\ pc' = [pc EXCEPT ![c] = "next"]
      BY <1>3 DEF SetPosition, AfterRecord, Drop
    <3>2. \A d \in Calls : pc[d] = "setPosition" => d = c
      BY <3>1, AloneInProcess DEF Active, InTick
    <3>. QED BY <3>1, <3>2 DEF TypeInv, TypeOK
  <2>. QED BY <1>1, <2>1 DEF PromiseInv, NoRequestUnderWay, ReadIsCurrent
<1>4. CASE ~GetPosition(c) /\ ~SetPosition(c)
  <2>1. positions' = positions
    BY <1>4 DEF TickEnter, CallStep, CallFault, TickDone, TickThrows, Leave, ListUsers, NextUser,
       BuildSupply, BuildFails, Send, SendRefused, SendThrows, PollSuccess, PollFails,
       RecordThrows, store
  <2>2. /\ \A d \in Calls \ {c} : pc'[d] = pc[d] /\ prev'[d] = prev[d] /\ cur'[d] = cur[d]
        /\ pc'[c] # "setPosition"
    <3>. USE DEF TypeInv, TypeOK
    <3>1. CASE \E i \in Instances : TickEnter(c, i)
      BY <3>1 DEF TickEnter
    <3>2. CASE TickDone(c) \/ TickThrows(c)
      BY <3>2 DEF TickDone, TickThrows, Leave
    <3>3. CASE ListUsers(c)
      BY <3>3 DEF ListUsers
    <3>4. CASE NextUser(c)
      <4>1. /\ pc[c] = "next" /\ prev' = prev
            /\ \/ UNCHANGED <<pc, cur>>
               \/ \E w : pc' = [pc EXCEPT ![c] = "build"] /\ cur' = [cur EXCEPT ![c] = w]
        BY <3>4 DEF NextUser
      <4>. QED BY <4>1
    <3>5. CASE BuildSupply(c) \/ Send(c) \/ PollSuccess(c)
      BY <3>5 DEF BuildSupply, Send, PollSuccess
    <3>6. CASE Drop(c)
      BY <3>6 DEF Drop
    <3>. QED
      BY <1>4, <3>1, <3>2, <3>3, <3>4, <3>5, <3>6
      DEF CallStep, CallFault, BuildFails, SendRefused, SendThrows, PollFails, RecordThrows
  <2>. QED BY <1>1, <2>1, <2>2, ReadFrame
<1>. QED BY <1>2, <1>3, <1>4

LEMMA OtherRead ==
  ASSUME TypeInv, NobodyLeaves, PromiseInv,
         \/ \E i \in Instances : Crash(i)
         \/ \E o \in Owners, w \in Wallets : Register(o, w)
         \/ \E r \in Requests : RequestStep(r)
         \/ \E h \in Hashes : LedgerStep(h)
         \/ \E w \in Wallets : Fund(w)
         \/ UNCHANGED vars
  PROVE  PromiseInv'
<1>1. CASE \E i \in Instances : Crash(i)
  <2>1. UNCHANGED <<positions, rpc>>
    BY <1>1 DEF Crash, store, req
  <2>2. \A d \in Calls : pc'[d] = "setPosition" =>
          pc'[d] = pc[d] /\ prev'[d] = prev[d] /\ cur'[d] = cur[d]
    BY <1>1 DEF Crash, Reset
  <2>. QED BY <2>1, <2>2, ReadFrame
<1>2. ~ \E r \in Requests : RequestStep(r)
  BY DEF RequestStep, UnregisterFind, UnregisterUser, UnregisterPosition, ResetUsers,
     ResetPositions, RequestDies, InReq, NobodyLeaves, PromiseInv, NoRequestUnderWay
<1>3. CASE \/ \E o \in Owners, w \in Wallets : Register(o, w)
           \/ \E h \in Hashes : LedgerStep(h)
           \/ \E w \in Wallets : Fund(w)
           \/ UNCHANGED vars
  <2>1. UNCHANGED <<positions, rpc, pc, prev, cur>>
    BY <1>3 DEF Register, LedgerStep, Land, LandFails, Expire, Fund, vars, store, req, tick
  <2>. QED BY <2>1, ReadFrame
<1>. QED BY <1>1, <1>2, <1>3

\* Records change by one landed supply, and the ledger by one that lands.
LEMMA SetRecords ==
  ASSUME TypeInv, CreditInv, PromiseInv, NEW c \in Calls, SetPosition(c)
  PROVE  Promise!Record(cur[c], hash[c])
<1>1. /\ pc[c] = "setPosition" /\ txs' = txs
      /\ positions' = [positions EXCEPT ![cur[c]] =
                         [pool |-> ExecPool, credited |-> NewAmount(prev[c], hash[c])]]
  BY DEF SetPosition, ledger
<1>2. cur[c] \in Wallets /\ hash[c] \in Hashes
  BY <1>1 DEF TypeInv, Holding, InSupply, Sent
<1>3. hash[c] \in Landed(cur[c]) /\ hash[c] \notin Credited(cur[c])
  BY <1>1, <1>2 DEF CreditInv, HeldIsOwn, HeldNotCredited, Sent, Landed, Credited
<1>4. NewAmount(prev[c], hash[c]) = Credited(cur[c]) \cup {hash[c]}
  BY <1>1 DEF PromiseInv, ReadIsCurrent, CreditedIn, NewAmount
<1>5. \A w \in Wallets : Credited(w)' = IF w = cur[c] THEN Credited(w) \cup {hash[c]}
                                        ELSE Credited(w)
  BY <1>1, <1>2, <1>4 DEF TypeInv, TypeOK, Credited
<1>6. \A w \in Wallets : Landed(w)' = Landed(w)
  BY <1>1 DEF Landed
<1>. QED BY <1>2, <1>3, <1>5, <1>6 DEF Promise!Record

LEMMA LandLands ==
  ASSUME TypeInv, NEW h \in Hashes, Land(h)
  PROVE  txs[h].wallet \in Wallets /\ Promise!Land(txs[h].wallet, h)
<1>1. txs[h].status = "pending" /\ txs' = [txs EXCEPT ![h].status = "success"]
  BY DEF Land, IsNext, Final
<1>2. txs[h].wallet \in Wallets
  BY <1>1 DEF TypeInv, TypeOK, TxRecords, NoTx
<1>3. \A w \in Wallets : h \notin Landed(w)
  BY <1>1 DEF Landed
<1>4. \A g \in Hashes : IF g = h THEN txs'[g].status = "success" /\ txs'[g].wallet = txs[g].wallet
                        ELSE txs'[g] = txs[g]
  BY <1>1 DEF TypeInv, TypeOK, TxRecords, NoTx
<1>5. \A w \in Wallets : Landed(w)' = IF w = txs[h].wallet THEN Landed(w) \cup {h} ELSE Landed(w)
  BY <1>4 DEF Landed
<1>6. \A w \in Wallets : Credited(w)' = Credited(w)
  BY DEF Land, store, Credited
<1>. QED BY <1>2, <1>3, <1>5, <1>6 DEF Promise!Land

\* All other steps change neither.
LEMMA NothingPromised ==
  ASSUME TypeInv, UNCHANGED positions, NEW h \in Hashes,
         \/ UNCHANGED txs
         \/ \E c \in Calls : pc[c] = "send" /\ Accept(c, h)
         \/ LandFails(h) \/ Expire(h)
  PROVE  \A w \in Wallets : Landed(w)' = Landed(w) /\ Credited(w)' = Credited(w)
<1>1. \A g \in Hashes : txs'[g].status = "success" <=> txs[g].status = "success"
  BY DEF TypeInv, TypeOK, TxRecords, NoTx, Accept, LandFails, Expire, IsNext, Final
<1>2. \A g \in Hashes : txs[g].status = "success" => txs'[g] = txs[g]
  BY DEF TypeInv, TypeOK, TxRecords, NoTx, Accept, LandFails, Expire, IsNext, Final
<1>. QED BY <1>1, <1>2 DEF Landed, Credited

LEMMA PromiseNext ==
  ASSUME TypeInv, CreditInv, NobodyLeaves, PromiseInv, [Next]_vars
  PROVE  \/ Promise!Next
         \/ UNCHANGED <<[w \in Wallets |-> Landed(w)], [w \in Wallets |-> Credited(w)]>>
<1>1. ASSUME UNCHANGED <<txs, positions>>
      PROVE  UNCHANGED <<[w \in Wallets |-> Landed(w)], [w \in Wallets |-> Credited(w)]>>
  BY <1>1 DEF Landed, Credited
<1>2. ASSUME NEW h \in Hashes, UNCHANGED positions,
             (\E c \in Calls : pc[c] = "send" /\ Accept(c, h)) \/ LandFails(h) \/ Expire(h)
      PROVE  UNCHANGED <<[w \in Wallets |-> Landed(w)], [w \in Wallets |-> Credited(w)]>>
  BY <1>2, NothingPromised
<1>3. ASSUME NEW c \in Calls, (\E i \in Instances : TickEnter(c, i)) \/ CallStep(c) \/ CallFault(c)
      PROVE  \/ Promise!Next
             \/ UNCHANGED <<[w \in Wallets |-> Landed(w)], [w \in Wallets |-> Credited(w)]>>
  <2>1. CASE SetPosition(c)
    <3>1. cur[c] \in Wallets /\ hash[c] \in Hashes
      BY <2>1 DEF SetPosition, TypeInv, Holding, InSupply, Sent
    <3>2. Promise!Record(cur[c], hash[c])
      BY <2>1, SetRecords
    <3>. QED BY <3>1, <3>2 DEF Promise!Next
  <2>2. CASE Send(c) \/ SendThrows(c)
    BY <1>2, <2>2 DEF Send, SendThrows, store
  <2>3. CASE ~SetPosition(c) /\ ~Send(c) /\ ~SendThrows(c)
    <3>1. UNCHANGED <<txs, positions>>
      BY <1>3, <2>3 DEF TickEnter, CallStep, CallFault, TickDone, TickThrows, Leave, ListUsers,
         NextUser, BuildSupply, BuildFails, SendRefused, PollSuccess, PollFails,
         GetPosition, RecordThrows, store, ledger
    <3>. QED BY <1>1, <3>1
  <2>. QED BY <2>1, <2>2, <2>3
<1>4. CASE \E h \in Hashes : LedgerStep(h)
  <2>. PICK h \in Hashes : LedgerStep(h)
    BY <1>4
  <2>1. CASE Land(h)
    <3>1. txs[h].wallet \in Wallets /\ Promise!Land(txs[h].wallet, h)
      BY <2>1, LandLands
    <3>. QED BY <3>1 DEF Promise!Next
  <2>2. CASE LandFails(h) \/ Expire(h)
    BY <1>2, <2>2 DEF LandFails, Expire, store
  <2>. QED BY <2>1, <2>2 DEF LedgerStep
<1>5. CASE \/ \E i \in Instances : Crash(i)
           \/ \E o \in Owners, w \in Wallets : Register(o, w)
           \/ \E w \in Wallets : Fund(w)
           \/ UNCHANGED vars
  <2>1. UNCHANGED <<txs, positions>>
    BY <1>5 DEF Crash, Register, Fund, vars, store, ledger
  <2>. QED BY <1>1, <2>1
<1>6. ~ \E r \in Requests : RequestStep(r)
  BY DEF RequestStep, UnregisterFind, UnregisterUser, UnregisterPosition, ResetUsers,
     ResetPositions, RequestDies, InReq, NobodyLeaves, PromiseInv, NoRequestUnderWay
<1>. QED BY <1>3, <1>4, <1>5, <1>6 DEF Next

\* While one process serves every tick and nobody leaves, the recorded
\* positions implement SupplyLedger: they change by one landed supply at a
\* time, added to what is there, whatever fails: ImplementsSupplyLedger.
THEOREM LedgerImplemented ==
  ASSUME OneProcess, NobodyLeaves
  PROVE  Spec => ImplementsSupplyLedger
<1>1. Init => PromiseInv
  BY DEF Init, PromiseInv, NoRequestUnderWay, ReadIsCurrent
<1>2. TypeInv /\ OneTickPerInstance /\ PromiseInv /\ [Next]_vars => PromiseInv'
  BY CallRead, OtherRead DEF Next
<1>3. Init => Promise!Init
  BY DEF Init, Promise!Init, Landed, Credited, NoTx, NoDoc, OldDoc, OldPool, ExecPool
<1>4. TypeInv /\ CreditInv /\ PromiseInv /\ [Next]_vars
        => [Promise!Next]_<<[w \in Wallets |-> Landed(w)], [w \in Wallets |-> Credited(w)]>>
  BY PromiseNext
<1>. QED
  BY <1>1, <1>2, <1>3, <1>4, TypeCorrect, OneTick, CreditCorrect, PTL
  DEF Spec, ImplementsSupplyLedger, Promise!Spec
=============================================================================
