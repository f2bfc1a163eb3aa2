------------------------ MODULE PoolDeployment_proofs ------------------------
(***************************************************************************)
(* Theorems about PoolDeployment, for any number of tries and of faults.   *)
(***************************************************************************)
EXTENDS PoolDeployment, WellFoundedInduction, TLAPS

-----------------------------------------------------------------------------
(***************************************************************************)
(* The inductive invariant.                                                *)
(***************************************************************************)
\* A key whose line is there whenever a later stage goes on: addReward alone may
\* be passed over.
Needed(k) == k \in Keys \ {"REWARD_ZONE"}

\* The lines are written in the order of the stages, and the stage of a run has
\* no line, but those before it have.
LinesInv ==
  /\ \A m, n \in 1..17 : m < n /\ Needed(Script[m]) /\ Recorded(Script[n]) => Recorded(Script[m])
  /\ stage # 0 => /\ ~Recorded(Now)
                  /\ \A m \in 1..stage - 1 : Needed(Script[m]) => Recorded(Script[m])

\* The name of a stage's contract: drawn for the stage and in no line yet, or
\* the salt of its line.
Named == Deployed \cup Salts
NameInv ==
  /\ \A k \in Named : file[k] <= drawn
  /\ stage # 0 =>
       /\ Now \in Named => id \in 1..drawn
       /\ Now \notin Named => id = 0
       /\ Draws(Now) => \A k \in Named : file[k] # id
       /\ Now \in Deployed /\ ~Draws(Now) => id = IdOf(Now)

\* What the lines say is true of the chain, and of the chain that a transaction
\* nobody waits for may lead to.
ContractsFit(c) ==
  \A k \in Deployed : Recorded(k) =>
    file[k] = IdOf(k) /\ file[k] \in DOMAIN c.at /\ c.at[file[k]].refs = RefsOf(k)
FactsFit(c) ==
  \A k \in DOMAIN LineFact : Recorded(k) => LineFact[k] \in c.at[file["POOL"]].facts

\* The first n - 1 calls of the stage have been made.
Initialized == {"COMET_FACTORY", "EMITTER"}
Made(c, n) ==
  /\ Now \in Deployed /\ n > 1 => id \in DOMAIN c.at
  /\ Now \in Deployed /\ n > (IF Now \in Initialized THEN 3 ELSE 1) => c.at[id].refs = RefsOf(Now)
  /\ Now \in DOMAIN LineFact /\ n > Len(Calls[Now]) => LineFact[Now] \in c.at[file["POOL"]].facts

FitInv ==
  \A c \in {chain} \cup late :
    ContractsFit(c) /\ FactsFit(c) /\ (stage # 0 => Made(c, call))

DeploymentInv == TypeOK /\ LinesInv /\ NameInv /\ FitInv

-----------------------------------------------------------------------------
(***************************************************************************)
(* The stages and their calls.                                             *)
(***************************************************************************)
\* The stages of the script, one by one.
LEMMA ScriptPlaces ==
  /\ Len(Script) = 17 /\ DOMAIN Script = 1..17
  /\ Script[1] = "BLND_SAC" /\ Script[2] = "WASM" /\ Script[3] = "ORACLE"
  /\ Script[4] = "prices" /\ Script[5] = "COMET_FACTORY" /\ Script[6] = "balances"
  /\ Script[7] = "COMET" /\ Script[8] = "FACTORY_SALT" /\ Script[9] = "BACKSTOP_SALT"
  /\ Script[10] = "EMITTER" /\ Script[11] = "POOL_FACTORY" /\ Script[12] = "BACKSTOP"
  /\ Script[13] = "POOL" /\ Script[14] = "RESERVE_USDC_SET" /\ Script[15] = "BACKSTOP_FUNDED"
  /\ Script[16] = "REWARD_ZONE" /\ Script[17] = "POOL_ACTIVE"
BY DEF Script

Places == {"BLND_SAC", "WASM", "ORACLE", "prices", "COMET_FACTORY", "balances", "COMET",
           "FACTORY_SALT", "BACKSTOP_SALT", "EMITTER", "POOL_FACTORY", "BACKSTOP", "POOL",
           "RESERVE_USDC_SET", "BACKSTOP_FUNDED", "REWARD_ZONE", "POOL_ACTIVE"}

\* The seventeen numbers, for splitting on the stage.
LEMMA NumbersOfPlaces ==
  ASSUME NEW n \in 1..17
  PROVE  \/ n = 1 \/ n = 2 \/ n = 3 \/ n = 4 \/ n = 5 \/ n = 6 \/ n = 7 \/ n = 8 \/ n = 9
         \/ n = 10 \/ n = 11 \/ n = 12 \/ n = 13 \/ n = 14 \/ n = 15 \/ n = 16 \/ n = 17
OBVIOUS

\* Every stage has a place, and every place a stage.
LEMMA StageNames == Stages = Places /\ \A n \in 1..17 : Script[n] \in Stages
<1>1. \A n \in 1..17 : Script[n] \in Places
  <2>. TAKE n \in 1..17
  <2>. QED BY NumbersOfPlaces, ScriptPlaces DEF Places
<1>2. \A s \in Places : \E n \in 1..17 : s = Script[n]
  BY ScriptPlaces, SMTT(60) DEF Places
<1>3. Stages = {Script[n] : n \in 1..17}
  BY ScriptPlaces DEF Stages, Range
<1>. QED BY <1>1, <1>2, <1>3

\* No stage comes twice.
LEMMA PlacesApart == \A m, n \in 1..17 : Script[m] = Script[n] => m = n
<1>. TAKE m, n \in 1..17
<1>. QED BY NumbersOfPlaces, ScriptPlaces

\* The stages that leave a line in the file.
LEMMA KeyNames ==
  /\ Keys = Places \ {"prices", "balances"}
  /\ Deployed \cup Salts \subseteq Keys
  /\ \A k \in DOMAIN LineFact : k \in Keys
BY StageNames DEF Keys, Places, Deployed, Salts, LineFact

\* The line a contract's name is taken from: that of its salt, for the two that
\* must be named before they are there.
NameKey(k) == CASE k = "POOL_FACTORY" -> "FACTORY_SALT"
                [] k = "BACKSTOP"     -> "BACKSTOP_SALT"
                [] OTHER              -> k

\* A contract is known by the name in its key's line.
LEMMA NamesOfKeys == \A k : IdOf(k) = file[NameKey(k)] /\ IdOf(k)' = file'[NameKey(k)]
BY DEF IdOf, NameKey

\* A contract is told of what has its line before the contract's stage.
LEMMA ToldOfEarlier ==
  ASSUME NEW n \in 1..17, NEW t \in Told(Script[n])
  PROVE  /\ t \in Keys
         /\ \E m \in 1..17 : m < n /\ Script[m] = NameKey(t) /\ Needed(Script[m])
<1>1. Needed("WASM") /\ Needed("ORACLE") /\ Needed("COMET_FACTORY") /\ Needed("COMET")
      /\ Needed("FACTORY_SALT") /\ Needed("BACKSTOP_SALT") /\ Needed("EMITTER")
  BY KeyNames DEF Needed, Places
<1>2. CASE n = 5
  BY <1>1, <1>2, ScriptPlaces, KeyNames DEF Told, NameKey, Places
<1>3. CASE n = 7
  BY <1>1, <1>3, ScriptPlaces, KeyNames DEF Told, NameKey, Places
<1>4. CASE n = 10
  BY <1>1, <1>4, ScriptPlaces, KeyNames DEF Told, NameKey, Places
<1>5. CASE n = 11
  BY <1>1, <1>5, ScriptPlaces, KeyNames DEF Told, NameKey, Places
<1>6. CASE n = 12
  BY <1>1, <1>6, ScriptPlaces, KeyNames DEF Told, NameKey, Places
<1>7. CASE n = 13
  BY <1>1, <1>7, ScriptPlaces, KeyNames DEF Told, NameKey, Places
<1>8. CASE n \notin {5, 7, 10, 11, 12, 13}
  BY <1>8, NumbersOfPlaces, ScriptPlaces DEF Told
<1>. QED BY <1>2, <1>3, <1>4, <1>5, <1>6, <1>7, <1>8

\* Which call is the n-th of a stage.
LEMMA CallsOfStages ==
  ASSUME NEW s \in Stages
  PROVE  /\ s \in Initialized => Calls[s] = <<"create", "bump", "init">>
         /\ s \in Deployed \ Initialized => Calls[s] = <<"create", "bump">>
         /\ s \in Salts => Calls[s] = <<>>
         /\ s = "BLND_SAC" => Calls[s] = <<"createAsset">>
         /\ s = "WASM" => Calls[s] = <<"install">>
         /\ s = "prices" => Calls[s] = <<"set_data", "set_price_stable">>
         /\ s = "balances" => Calls[s] = <<"mint">>
         /\ s = "RESERVE_USDC_SET" => Calls[s] = <<"queueSetReserve", "setReserve">>
         /\ s = "BACKSTOP_FUNDED" => Calls[s] = <<"deposit">>
         /\ s = "REWARD_ZONE" => Calls[s] = <<"addReward">>
         /\ s = "POOL_ACTIVE" => Calls[s] = <<"setStatus">>
BY DEF Calls, Initialized, Deployed, Salts

\* As many calls at most, and what each of them is.
LEMMA CallNames ==
  ASSUME NEW s \in Stages
  PROVE  /\ Len(Calls[s]) \in 0..3
         /\ s \in Deployed => Len(Calls[s]) = IF s \in Initialized THEN 3 ELSE 2
         /\ s \in {"BACKSTOP_FUNDED", "REWARD_ZONE", "POOL_ACTIVE"} => Len(Calls[s]) = 1
         /\ s = "RESERVE_USDC_SET" => Len(Calls[s]) = 2
         /\ \A i \in 1..Len(Calls[s]) :
              /\ Calls[s][i] = "create" <=> s \in Deployed /\ i = 1
              /\ Calls[s][i] = "init" <=> s \in Initialized /\ i = 3
              /\ Calls[s][i] = "queueSetReserve" <=> s = "RESERVE_USDC_SET" /\ i = 1
              /\ Calls[s][i] = "setReserve" <=> s = "RESERVE_USDC_SET" /\ i = 2
              /\ Calls[s][i] = "deposit" <=> s = "BACKSTOP_FUNDED"
              /\ Calls[s][i] = "addReward" <=> s = "REWARD_ZONE"
              /\ Calls[s][i] = "setStatus" <=> s = "POOL_ACTIVE"
              /\ Calls[s][i] = "createAsset" <=> s = "BLND_SAC"
              /\ Calls[s][i] = "mint" <=> s = "balances"
<1>1. CASE s \in Initialized
  <2>0. Calls[s] = <<"create", "bump", "init">>
    BY <1>1, CallsOfStages
  <2>1. Len(Calls[s]) = 3 /\ Calls[s][1] = "create" /\ Calls[s][2] = "bump" /\ Calls[s][3] = "init"
    BY <2>0
  <2>. QED BY <1>1, <2>1 DEF Initialized, Deployed
<1>2. CASE s \in Deployed \ Initialized
  <2>0. Calls[s] = <<"create", "bump">>
    BY <1>2, CallsOfStages
  <2>1. Len(Calls[s]) = 2 /\ Calls[s][1] = "create" /\ Calls[s][2] = "bump"
    BY <2>0
  <2>. QED BY <1>2, <2>1 DEF Initialized, Deployed
<1>3. CASE s \in Salts
  <2>1. Len(Calls[s]) = 0
    BY <1>3, CallsOfStages
  <2>. QED BY <1>3, <2>1 DEF Salts, Initialized, Deployed
<1>4. CASE s = "BLND_SAC"
  <2>0. Calls[s] = <<"createAsset">>
    BY <1>4, CallsOfStages
  <2>1. Len(Calls[s]) = 1 /\ Calls[s][1] = "createAsset"
    BY <2>0
  <2>. QED BY <1>4, <2>1 DEF Initialized, Deployed
<1>5. CASE s = "WASM"
  <2>0. Calls[s] = <<"install">>
    BY <1>5, CallsOfStages
  <2>1. Len(Calls[s]) = 1 /\ Calls[s][1] = "install"
    BY <2>0
  <2>. QED BY <1>5, <2>1 DEF Initialized, Deployed
<1>6. CASE s = "prices"
  <2>0. Calls[s] = <<"set_data", "set_price_stable">>
    BY <1>6, CallsOfStages
  <2>1. Len(Calls[s]) = 2 /\ Calls[s][1] = "set_data" /\ Calls[s][2] = "set_price_stable"
    BY <2>0
  <2>. QED BY <1>6, <2>1 DEF Initialized, Deployed
<1>7. CASE s = "balances"
  <2>0. Calls[s] = <<"mint">>
    BY <1>7, CallsOfStages
  <2>1. Len(Calls[s]) = 1 /\ Calls[s][1] = "mint"
    BY <2>0
  <2>. QED BY <1>7, <2>1 DEF Initialized, Deployed
<1>8. CASE s = "RESERVE_USDC_SET"
  <2>0. Calls[s] = <<"queueSetReserve", "setReserve">>
    BY <1>8, CallsOfStages
  <2>1. Len(Calls[s]) = 2 /\ Calls[s][1] = "queueSetReserve" /\ Calls[s][2] = "setReserve"
    BY <2>0
  <2>. QED BY <1>8, <2>1 DEF Initialized, Deployed
<1>9. CASE s = "BACKSTOP_FUNDED"
  <2>0. Calls[s] = <<"deposit">>
    BY <1>9, CallsOfStages
  <2>1. Len(Calls[s]) = 1 /\ Calls[s][1] = "deposit"
    BY <2>0
  <2>. QED BY <1>9, <2>1 DEF Initialized, Deployed
<1>10. CASE s = "REWARD_ZONE"
  <2>0. Calls[s] = <<"addReward">>
    BY <1>10, CallsOfStages
  <2>1. Len(Calls[s]) = 1 /\ Calls[s][1] = "addReward"
    BY <2>0
  <2>. QED BY <1>10, <2>1 DEF Initialized, Deployed
<1>11. CASE s = "POOL_ACTIVE"
  <2>0. Calls[s] = <<"setStatus">>
    BY <1>11, CallsOfStages
  <2>1. Len(Calls[s]) = 1 /\ Calls[s][1] = "setStatus"
    BY <2>0
  <2>. QED BY <1>11, <2>1 DEF Initialized, Deployed
<1>. QED BY <1>1, <1>2, <1>3, <1>4, <1>5, <1>6, <1>7, <1>8, <1>9, <1>10, <1>11,
         StageNames DEF Places, Deployed, Salts, Initialized

\* How many calls a stage makes whose line says something of the pool.
LEMMA LineCalls ==
  ASSUME NEW s \in Stages, s \in DOMAIN LineFact
  PROVE  Len(Calls[s]) = IF s = "RESERVE_USDC_SET" THEN 2 ELSE 1
<1>1. s \in {"RESERVE_USDC_SET", "BACKSTOP_FUNDED", "REWARD_ZONE", "POOL_ACTIVE"}
  BY DEF LineFact
<1>. QED BY <1>1, CallNames

-----------------------------------------------------------------------------
(***************************************************************************)
(* The initial state.                                                      *)
(***************************************************************************)
\* At first the file is empty and so is the chain.
LEMMA InvInit == ASSUME DeploymentConstantsOK, Init PROVE DeploymentInv
<1>1. /\ \A k \in Keys : file[k] = 0
      /\ stage = 0 /\ drawn = 0 /\ late = {} /\ DOMAIN chain.at = {}
      /\ DOMAIN chain = {"asset", "money", "at"} /\ chain.asset \in BOOLEAN /\ chain.money \in Nat
  BY DEF Init
<1>2. TypeOK
  <2>1. IsChain(chain)
    BY <1>1 DEF IsChain
  <2>2. file \in [Keys -> 0..drawn + 1]
    BY DEF Init
  <2>. QED BY <2>1, <2>2, ScriptPlaces DEF Init, TypeOK, DeploymentConstantsOK
<1>3. LinesInv
  BY <1>1 DEF LinesInv, Recorded
<1>4. NameInv
  BY <1>1, KeyNames DEF NameInv, Named
<1>5. FitInv
  BY <1>1, KeyNames DEF FitInv, ContractsFit, FactsFit, Recorded
<1>. QED BY <1>2, <1>3, <1>4, <1>5 DEF DeploymentInv

-----------------------------------------------------------------------------
(***************************************************************************)
(* Going on to the next stage without a line.                              *)
(***************************************************************************)
\* A set of numbers that is not empty has a least element, and that is its Min.
LEMMA LeastNumber ==
  ASSUME NEW T, T \subseteq Nat, T # {}
  PROVE  /\ Min(T) \in T
         /\ \A y \in T : Min(T) <= y
<1>1. PICK x \in T : \A y \in T : ~ (<<y, x>> \in OpToRel(<, Nat))
  BY NatLessThanWellFounded, WFMin
<1>2. \A y \in T : ~ (y < x)
  BY <1>1 DEF OpToRel
<1>3. \A y \in T : x <= y
  BY <1>2
<1>4. \E z \in T : \A y \in T : z <= y
  BY <1>3, Zenon
<1>. QED BY <1>4, Zenon DEF Min

\* The run is over.
Stopped == stage' = 0 /\ call' = 1 /\ id' = 0 /\ tries' = 0 /\ drawn' = drawn

\* It goes on with the m-th stage.
Enters(m) ==
  LET s == Script[m] IN
  /\ ~Recorded(s)
  /\ stage' = m /\ call' = 1 /\ tries' = 0
  /\ Draws(s) => drawn' = drawn + 1 /\ id' = drawn + 1
  /\ ~Draws(s) => drawn' = drawn /\ id' = IF s \in Deployed THEN IdOf(s) ELSE 0

\* Going on enters the first stage without a line, or stops.
LEMMA GoOnEffect ==
  ASSUME NEW n \in 1..18, GoOn(n)
  PROVE  \/ Stopped
         \/ \E m \in n..17 : Enters(m) /\ \A i \in n..m - 1 : Recorded(Script[i])
<1>. DEFINE todo == {m \in n..17 : ~Recorded(Script[m])}
<1>1. todo \subseteq Nat /\ todo \subseteq n..17
  OBVIOUS
<1>2. GoOn(n) = IF todo = {} THEN Stop
                ELSE /\ stage' = Min(todo) /\ call' = 1 /\ tries' = 0
                     /\ drawn' = IF Draws(Script[Min(todo)]) THEN NewId ELSE drawn
                     /\ id' = IF Draws(Script[Min(todo)]) THEN drawn'
                              ELSE IF Script[Min(todo)] \in Deployed
                                   THEN IdOf(Script[Min(todo)]) ELSE 0
  BY ScriptPlaces DEF GoOn
<1>3. CASE todo = {}
  BY <1>2, <1>3 DEF Stop, Stopped
<1>4. CASE todo # {}
  <2>1. Min(todo) \in todo /\ \A y \in todo : Min(todo) <= y
    <3>. HIDE DEF todo
    <3>. QED BY <1>1, <1>4, LeastNumber
  <2>2. PICK m \in n..17 : m = Min(todo) /\ ~Recorded(Script[m])
    BY <2>1
  <2>3. Enters(m)
    <3>. HIDE DEF todo
    <3>. QED BY <1>2, <1>4, <2>2 DEF Enters, NewId
  <2>4. \A i \in n..m - 1 : Recorded(Script[i])
    <3>1. SUFFICES ASSUME NEW i \in n..m - 1 PROVE Recorded(Script[i])
      OBVIOUS
    <3>2. i \notin todo /\ i \in n..17
      <4>1. i \in n..17 /\ ~ (m <= i)
        OBVIOUS
      <4>. HIDE DEF todo
      <4>. QED BY <4>1, <2>1, <2>2
    <3>. QED BY <3>2
  <2>. QED BY <2>3, <2>4
<1>. QED BY <1>3, <1>4

\* Lines are only added, at most that of the stage before the n-th, and all
\* before the n-th that are needed are there.
LinesUpTo(n) ==
  /\ \A k \in Keys : Recorded(k) => file'[k] = file[k]
  /\ \A k \in Keys : ~Recorded(k) /\ file'[k] # 0 => n > 1 /\ k = Script[n - 1]
  /\ \A m \in 1..n - 1 : Needed(Script[m]) => file'[Script[m]] # 0
  /\ \A m \in 1..n - 2 : Needed(Script[m]) => Recorded(Script[m])

\* A new line comes after those of all earlier stages.
LEMMA LinesInOrder ==
  ASSUME LinesInv, NEW n \in 1..18, LinesUpTo(n),
         NEW m \in 1..17, NEW j \in 1..17, m < j, Needed(Script[m]), Recorded(Script[j])'
  PROVE  Recorded(Script[m])'
<1>1. Script[m] \in Keys /\ Script[j] \in Keys /\ file'[Script[j]] # 0
  BY DEF Needed, Recorded
<1>2. CASE Recorded(Script[j])
  BY <1>1, <1>2 DEF LinesInv, LinesUpTo, Recorded
<1>3. CASE ~Recorded(Script[j])
  <2>1. n > 1 /\ Script[j] = Script[n - 1]
    BY <1>1, <1>3 DEF LinesUpTo
  <2>2. j = n - 1 /\ m \in 1..n - 1
    BY <2>1, PlacesApart
  <2>. QED BY <1>1, <2>2 DEF LinesUpTo, Recorded
<1>. QED BY <1>2, <1>3

\* Entering a stage: its own line is missing, those before it are there.
LEMMA EnterLines ==
  ASSUME LinesInv, NEW n \in 1..18, LinesUpTo(n), NEW m \in n..17, Enters(m),
         \A i \in n..m - 1 : Recorded(Script[i])
  PROVE  LinesInv'
<1>1. \A i, j \in 1..17 : i < j /\ Needed(Script[i]) /\ Recorded(Script[j])' => Recorded(Script[i])'
  BY LinesInOrder
<1>2. stage' = m /\ Now' = Script[m] /\ m \in 1..17
  BY DEF Enters, Now
<1>3. ~Recorded(Script[m])'
  <2>1. SUFFICES ASSUME Script[m] \in Keys, file'[Script[m]] # 0 PROVE FALSE
    BY DEF Recorded
  <2>2. n > 1 /\ Script[m] = Script[n - 1]
    BY <2>1 DEF LinesUpTo, Enters
  <2>. QED BY <2>2, PlacesApart
<1>4. ASSUME NEW i \in 1..m - 1, Needed(Script[i]) PROVE Recorded(Script[i])'
  <2>1. Script[i] \in Keys
    BY <1>4 DEF Needed
  <2>2. CASE i \in 1..n - 1
    BY <1>4, <2>1, <2>2 DEF LinesUpTo, Recorded
  <2>3. CASE i \in n..m - 1
    BY <2>1, <2>3 DEF LinesUpTo, Recorded
  <2>. QED BY <2>2, <2>3
<1>. QED BY <1>1, <1>2, <1>3, <1>4 DEF LinesInv, Needed

\* The salts of the pool factory and of the backstop are in the file.
LEMMA SaltRecorded ==
  ASSUME LinesInv, NEW n \in 1..18, LinesUpTo(n), NEW m \in n..17,
         \A i \in n..m - 1 : Recorded(Script[i]),
         NEW q \in {8, 9}, q + 1 < m
  PROVE  Recorded(Script[q])
<1>1. q \in 1..17 /\ q + 1 \in 1..17 /\ Needed(Script[q])
  BY ScriptPlaces, KeyNames DEF Needed, Places
<1>2. CASE q <= n - 2
  BY <1>1, <1>2 DEF LinesUpTo
<1>3. CASE q = n - 1
  <2>1. Recorded(Script[q + 1])
    BY <1>3
  <2>. QED BY <1>1, <2>1 DEF LinesInv
<1>4. CASE q >= n
  BY <1>1, <1>4
<1>. QED BY <1>2, <1>3, <1>4

\* Entering a stage: a name that is drawn is in no line.
LEMMA EnterName ==
  ASSUME TypeOK, LinesInv, NameInv, NEW n \in 1..18, LinesUpTo(n), NEW m \in n..17, Enters(m),
         \A i \in n..m - 1 : Recorded(Script[i]),
         \A k \in Named : file'[k] \in Nat /\ file'[k] <= drawn
  PROVE  NameInv'
<1>1. drawn \in Nat /\ drawn' \in {drawn, drawn + 1} /\ Now' = Script[m] /\ stage' = m
  BY DEF TypeOK, Enters, Now
<1>2. \A k \in Named : file'[k] <= drawn'
  BY <1>1
<1>3. CASE Draws(Script[m])
  <2>1. id' = drawn + 1 /\ drawn' = drawn + 1 /\ id' \in 1..drawn'
    BY <1>1, <1>3 DEF Enters
  <2>2. \A k \in Named : file'[k] # id'
    BY <1>1, <2>1
  <2>. QED BY <1>1, <1>2, <1>3, <2>1, <2>2 DEF NameInv, Named, Draws
<1>4. CASE ~Draws(Script[m])
  <2>1. drawn' = drawn /\ id' = IF Script[m] \in Deployed THEN IdOf(Script[m]) ELSE 0
    BY <1>4 DEF Enters
  <2>2. CASE Script[m] \in Deployed
    <3>1. PICK q \in {8, 9} : /\ q + 1 < m /\ NameKey(Script[m]) = Script[q]
                              /\ Script[q] \in Salts
      <4>1. m = 11 \/ m = 12
        BY <1>4, <2>2, NumbersOfPlaces, ScriptPlaces DEF Draws, Deployed
      <4>. QED BY <4>1, ScriptPlaces DEF NameKey, Salts
    <3>2. Recorded(Script[q])
      BY <3>1, SaltRecorded
    <3>3. file'[Script[q]] = file[Script[q]] /\ file[Script[q]] # 0 /\ Script[q] \in Named
      BY <3>1, <3>2 DEF LinesUpTo, Recorded, Named
    <3>4. IdOf(Script[m])' = file'[Script[q]] /\ IdOf(Script[m]) = file[Script[q]]
      BY <3>1, NamesOfKeys
    <3>5. id' = IdOf(Script[m])' /\ id' \in 1..drawn'
      BY <1>1, <2>1, <2>2, <3>3, <3>4
    <3>. QED BY <1>1, <1>2, <1>4, <2>2, <3>5 DEF NameInv, Named, Draws
  <2>3. CASE Script[m] \notin Deployed
    <3>1. Script[m] \notin Named
      BY <1>4, <2>3 DEF Named, Draws, Deployed
    <3>. QED BY <1>1, <1>2, <1>4, <2>1, <2>3, <3>1 DEF NameInv
  <2>. QED BY <2>2, <2>3
<1>. QED BY <1>3, <1>4

\* Stopping keeps both.
LEMMA StopNames ==
  ASSUME TypeOK, LinesInv, NameInv, NEW n \in 1..18, LinesUpTo(n), Stopped,
         \A k \in Named : file'[k] \in Nat /\ file'[k] <= drawn
  PROVE  LinesInv' /\ NameInv'
<1>1. \A i, j \in 1..17 : i < j /\ Needed(Script[i]) /\ Recorded(Script[j])' => Recorded(Script[i])'
  BY LinesInOrder
<1>2. LinesInv'
  BY <1>1 DEF LinesInv, Stopped, Needed
<1>3. NameInv'
  BY DEF NameInv, Stopped
<1>. QED BY <1>2, <1>3

\* Going on keeps the order of the lines and the names.
LEMMA GoOnLines ==
  ASSUME TypeOK, LinesInv, NameInv, NEW n \in 1..18, LinesUpTo(n), GoOn(n),
         \A k \in Named : file'[k] \in Nat /\ file'[k] <= drawn
  PROVE  LinesInv' /\ NameInv'
BY GoOnEffect, EnterLines, EnterName, StopNames

-----------------------------------------------------------------------------
(***************************************************************************)
(* What a call may do to the chain.                                        *)
(***************************************************************************)
\* Adding a contract, or changing one, leaves the others as they are.
LEMMA WithEffect ==
  ASSUME NEW c, IsChain(c), NEW x \in 1..drawn, NEW contract \in Contracts, NEW d,
         d = With(c, x, contract)
  PROVE  /\ IsChain(d)
         /\ DOMAIN d.at = DOMAIN c.at \cup {x} /\ d.at[x] = contract
         /\ \A y \in DOMAIN c.at \ {x} : d.at[y] = c.at[y]
<1>1. DOMAIN d = {"asset", "money", "at"} /\ d.asset = c.asset /\ d.money = c.money
  BY DEF With, IsChain
<1>2. /\ DOMAIN d.at = DOMAIN c.at \cup {x}
      /\ \A y \in DOMAIN d.at : d.at[y] = IF y = x THEN contract ELSE c.at[y]
  BY DEF With, IsChain
<1>. QED BY <1>1, <1>2 DEF IsChain

\* Minting changes no contract.
LEMMA MoneyEffect ==
  ASSUME NEW c, IsChain(c), NEW n \in Nat, NEW d, d = [c EXCEPT !.money = n]
  PROVE  IsChain(d) /\ d.at = c.at
<1>1. DOMAIN d = {"asset", "money", "at"} /\ d.asset = c.asset /\ d.money = n /\ d.at = c.at
  BY DEF IsChain
<1>. QED BY <1>1 DEF IsChain

\* Creating the asset changes no contract.
LEMMA AssetEffect ==
  ASSUME NEW c, IsChain(c), NEW d, d = [c EXCEPT !.asset = TRUE]
  PROVE  IsChain(d) /\ d.at = c.at
<1>1. DOMAIN d = {"asset", "money", "at"} /\ d.asset = TRUE /\ d.money = c.money /\ d.at = c.at
  BY DEF IsChain
<1>. QED BY <1>1 DEF IsChain

\* A contract is told of nothing without a name.
LEMMA RefsTyped ==
  ASSUME TypeOK, LinesInv, stage # 0
  PROVE  RefsOf(Now) \in SUBSET (Keys \X (Nat \ {0}))
<1>1. stage \in 1..17
  BY ScriptPlaces DEF TypeOK
<1>2. ASSUME NEW t \in Told(Now) PROVE t \in Keys /\ IdOf(t) \in Nat \ {0}
  <2>1. PICK m \in 1..17 : m < stage /\ Script[m] = NameKey(t) /\ Needed(Script[m])
    BY <1>1, ToldOfEarlier DEF Now
  <2>2. Recorded(Script[m])
    BY <1>1, <2>1 DEF LinesInv
  <2>3. file[NameKey(t)] \in Nat \ {0}
    BY <2>1, <2>2 DEF Recorded, TypeOK
  <2>4. IdOf(t) = file[NameKey(t)]
    BY NamesOfKeys
  <2>. QED BY <1>1, <2>3, <2>4, ToldOfEarlier DEF Now
<1>. QED BY <1>2 DEF RefsOf

\* What was there stays, but for what the contract of the stage is told.
Grown(c) ==
  /\ DOMAIN chain.at \subseteq DOMAIN c.at
  /\ \A x \in DOMAIN chain.at :
       /\ (x = id /\ Now \in Initialized) \/ c.at[x].refs = chain.at[x].refs
       /\ chain.at[x].facts \ {"queued"} \subseteq c.at[x].facts

\* At a stage that works on the pool, pool and comet are on chain.
LEMMA PoolThere ==
  ASSUME TypeOK, LinesInv, FitInv, stage # 0, Now \in DOMAIN LineFact
  PROVE  /\ file["POOL"] \in DOMAIN chain.at /\ file["POOL"] \in 1..drawn
         /\ chain.at[file["POOL"]] \in Contracts
         /\ file["COMET"] \in DOMAIN chain.at /\ file["COMET"] \in 1..drawn
         /\ chain.at[file["COMET"]] \in Contracts
<1>1. stage \in {14, 15, 16, 17}
  BY NumbersOfPlaces, ScriptPlaces DEF TypeOK, Now, LineFact
<1>2. Recorded("POOL") /\ Recorded("COMET")
  <2>1. Needed(Script[13]) /\ Needed(Script[7]) /\ 13 \in 1..stage - 1 /\ 7 \in 1..stage - 1
    BY <1>1, ScriptPlaces, KeyNames DEF Needed, Places
  <2>. QED BY <1>1, <2>1, ScriptPlaces DEF LinesInv
<1>3. ContractsFit(chain)
  BY DEF FitInv
<1>. QED BY <1>2, <1>3 DEF ContractsFit, Deployed, TypeOK, IsChain

\* A contract that gets another fact, or has shares spent.
LEMMA FactsOnly ==
  ASSUME TypeOK, NEW c, IsChain(c), Grown(c), NEW x \in DOMAIN c.at, x \in 1..drawn,
         NEW contract \in Contracts, contract.refs = c.at[x].refs,
         c.at[x].facts \ {"queued"} \subseteq contract.facts, NEW d, d = With(c, x, contract)
  PROVE  IsChain(d) /\ Grown(d) /\ d.at[x] = contract /\ DOMAIN d.at = DOMAIN c.at
<1>1. /\ IsChain(d) /\ DOMAIN d.at = DOMAIN c.at \cup {x} /\ d.at[x] = contract
      /\ \A y \in DOMAIN c.at \ {x} : d.at[y] = c.at[y]
  BY WithEffect
<1>2. Grown(d)
  <2>1. \A y \in DOMAIN c.at :
          d.at[y].refs = c.at[y].refs /\ c.at[y].facts \ {"queued"} \subseteq d.at[y].facts
    BY <1>1
  <2>. QED BY <1>1, <2>1 DEF Grown
<1>. QED BY <1>1, <1>2

\* The lesser of two numbers is one of them.
LEMMA LeastOfTwo ==
  ASSUME NEW a \in Nat, NEW b \in Nat
  PROVE  Min({a, b}) \in {a, b} /\ Min({a, b}) <= a
<1>. DEFINE T == {a, b}
<1>1. T \subseteq Nat /\ T # {}
  OBVIOUS
<1>2. Min(T) \in T /\ \A y \in T : Min(T) <= y
  <2>. HIDE DEF T
  <2>. QED BY <1>1, LeastNumber
<1>. QED BY <1>2

\* Creating the contract of the stage.
LEMMA CreateEffect ==
  ASSUME TypeOK, LinesInv, NameInv, stage # 0, Now \in Deployed, NEW c \in Create
  PROVE  /\ IsChain(c) /\ Grown(c) /\ id \in DOMAIN c.at
         /\ Now \notin Initialized => c.at[id].refs = RefsOf(Now)
<1>. DEFINE new == [refs  |-> IF Now \in Initialized THEN {} ELSE RefsOf(Now),
                    facts |-> {},
                    lp    |-> IF Now = "COMET" THEN InitLp ELSE 0]
            base == [chain EXCEPT !.money = IF Now = "COMET" THEN @ - 1 ELSE @]
<1>1. id \notin DOMAIN chain.at /\ ~ (Now = "COMET" /\ chain.money = 0) /\ c = With(base, id, new)
  BY DEF Create, Initialized
<1>2. IsChain(chain) /\ chain.money \in Nat /\ id \in 1..drawn
  BY DEF TypeOK, IsChain, NameInv, Named
<1>3. base = [chain EXCEPT !.money = IF Now = "COMET" THEN chain.money - 1 ELSE chain.money]
      /\ (IF Now = "COMET" THEN chain.money - 1 ELSE chain.money) \in Nat
  BY <1>1, <1>2
<1>4. IsChain(base) /\ base.at = chain.at
  <2>. HIDE DEF base
  <2>. QED BY <1>2, <1>3, MoneyEffect
<1>5. new \in Contracts /\ (Now \notin Initialized => new.refs = RefsOf(Now))
  BY RefsTyped DEF Contracts, InitLp
<1>6. /\ IsChain(c) /\ DOMAIN c.at = DOMAIN chain.at \cup {id} /\ c.at[id] = new
      /\ \A y \in DOMAIN chain.at \ {id} : c.at[y] = chain.at[y]
  <2>. HIDE DEF base, new
  <2>. QED BY <1>1, <1>2, <1>4, <1>5, WithEffect
<1>7. Grown(c)
  <2>. HIDE DEF new
  <2>. QED BY <1>1, <1>6 DEF Grown
<1>. QED BY <1>5, <1>6, <1>7

\* Telling it of the others.
LEMMA InitializeEffect ==
  ASSUME TypeOK, LinesInv, NameInv, stage # 0, Now \in Initialized, id \in DOMAIN chain.at,
         NEW c, c = With(chain, id, [chain.at[id] EXCEPT !.refs = RefsOf(Now)])
  PROVE  IsChain(c) /\ Grown(c) /\ id \in DOMAIN c.at /\ c.at[id].refs = RefsOf(Now)
<1>1. IsChain(chain) /\ id \in 1..drawn /\ chain.at[id] \in Contracts
  BY DEF TypeOK, IsChain, NameInv, Named, Initialized, Deployed
<1>2. PICK new : new = [chain.at[id] EXCEPT !.refs = RefsOf(Now)]
  OBVIOUS
<1>3. new \in Contracts /\ new.refs = RefsOf(Now) /\ new.facts = chain.at[id].facts
  BY <1>1, <1>2, RefsTyped DEF Contracts
<1>4. /\ IsChain(c) /\ DOMAIN c.at = DOMAIN chain.at \cup {id} /\ c.at[id] = new
      /\ \A y \in DOMAIN chain.at \ {id} : c.at[y] = chain.at[y]
  BY <1>1, <1>2, <1>3, WithEffect
<1>5. Grown(c)
  BY <1>3, <1>4 DEF Grown
<1>. QED BY <1>3, <1>4, <1>5

\* Changing the pool, and the shares.
LEMMA AddingEffect ==
  ASSUME TypeOK, NEW c, IsChain(c), Grown(c), NEW x \in DOMAIN c.at, x \in 1..drawn,
         NEW fact \in Facts, NEW d, d = Adding(c, x, fact)
  PROVE  IsChain(d) /\ Grown(d) /\ fact \in d.at[x].facts
<1>1. c.at[x] \in Contracts
  BY DEF IsChain
<1>2. PICK new : new = [c.at[x] EXCEPT !.facts = c.at[x].facts \cup {fact}]
  OBVIOUS
<1>3. new \in Contracts /\ new.refs = c.at[x].refs /\ new.facts = c.at[x].facts \cup {fact}
  BY <1>1, <1>2 DEF Contracts
<1>4. d = With(c, x, new)
  BY <1>2 DEF Adding
<1>. QED BY <1>3, <1>4, FactsOnly

\* Setting the reserve takes the queued one and adds that fact to the pool.
LEMMA ReserveEffect ==
  ASSUME TypeOK, NEW p \in DOMAIN chain.at, p \in 1..drawn, NEW d,
         d = With(chain, p, SetReserve(p))
  PROVE  IsChain(d) /\ Grown(d) /\ "reserve" \in d.at[p].facts
<1>1. IsChain(chain) /\ Grown(chain) /\ chain.at[p] \in Contracts
  BY DEF TypeOK, IsChain, Grown
<1>2. PICK new :
        new = [chain.at[p] EXCEPT !.facts = (chain.at[p].facts \ {"queued"}) \cup {"reserve"}]
  OBVIOUS
<1>3. /\ new \in Contracts /\ new.refs = chain.at[p].refs
      /\ new.facts = (chain.at[p].facts \ {"queued"}) \cup {"reserve"}
  BY <1>1, <1>2 DEF Contracts, Facts
<1>4. d = With(chain, p, new)
  BY <1>2 DEF SetReserve
<1>. QED BY <1>1, <1>3, <1>4, FactsOnly

\* Depositing the comet shares in the backstop.
LEMMA SpendEffect ==
  ASSUME TypeOK, NEW x \in DOMAIN chain.at, x \in 1..drawn
  PROVE  IsChain(Spend(x)) /\ Grown(Spend(x)) /\ DOMAIN Spend(x).at = DOMAIN chain.at
<1>1. IsChain(chain) /\ Grown(chain) /\ chain.at[x] \in Contracts
  BY DEF TypeOK, IsChain, Grown
<1>2. PICK shares \in Nat : shares = chain.at[x].lp /\ shares <= InitLp
  BY <1>1 DEF Contracts, InitLp
<1>3. shares - Min({shares, DepositLp}) \in 0..InitLp
  <2>1. Min({shares, DepositLp}) \in {shares, DepositLp} /\ Min({shares, DepositLp}) <= shares
    BY LeastOfTwo DEF DepositLp
  <2>. QED BY <1>2, <2>1 DEF InitLp, DepositLp
<1>4. PICK new : new = [chain.at[x] EXCEPT !.lp = shares - Min({shares, DepositLp})]
  OBVIOUS
<1>5. new \in Contracts /\ new.refs = chain.at[x].refs /\ new.facts = chain.at[x].facts
  BY <1>1, <1>3, <1>4 DEF Contracts
<1>6. Spend(x) = With(chain, x, new)
  BY <1>2, <1>4 DEF Spend
<1>. QED BY <1>1, <1>5, <1>6, FactsOnly

\* A call's outcome keeps what the lines say, and the call has been made.
LEMMA OutcomeEffect ==
  ASSUME DeploymentInv, Calling, NEW c \in Outcomes
  PROVE  IsChain(c) /\ Grown(c) /\ Made(c, call + 1)
<1>0. /\ TypeOK /\ LinesInv /\ NameInv /\ FitInv /\ stage # 0
      /\ stage \in 1..17 /\ Now \in Stages /\ call \in 1..Len(Calls[Now]) /\ call \in Nat
  <2>1. TypeOK /\ LinesInv /\ NameInv /\ FitInv /\ stage # 0 /\ call <= Len(Calls[Now])
    BY DEF DeploymentInv, Calling
  <2>2. stage \in 1..17 /\ call \in Nat /\ call >= 1
    BY <2>1, ScriptPlaces DEF TypeOK
  <2>3. Now \in Stages
    BY <2>2, StageNames DEF Now
  <2>4. Len(Calls[Now]) \in Nat
    BY <2>3, CallNames
  <2>. QED BY <2>1, <2>2, <2>3, <2>4
<1>1. /\ IsChain(chain) /\ Grown(chain) /\ Made(chain, call)
  BY <1>0 DEF TypeOK, Grown, FitInv
<1>2. /\ Now \in Deployed => Now \notin DOMAIN LineFact
      /\ Initialized \subseteq Deployed
  BY DEF Deployed, LineFact, Initialized
<1>3. CASE Doing = "create"
  <2>1. Now \in Deployed /\ call = 1
    BY <1>0, <1>3, CallNames DEF Doing
  <2>2. c \in Create
    BY <1>3 DEF Outcomes
  <2>. QED BY <1>0, <1>2, <2>1, <2>2, CreateEffect DEF Made
<1>4. CASE Doing = "init"
  <2>1. Now \in Initialized /\ call = 3
    BY <1>0, <1>4, CallNames DEF Doing
  <2>2. id \in DOMAIN chain.at
    BY <1>1, <1>2, <2>1 DEF Made
  <2>3. c = With(chain, id, [chain.at[id] EXCEPT !.refs = RefsOf(Now)])
    BY <1>4 DEF Outcomes
  <2>4. IsChain(c) /\ Grown(c) /\ id \in DOMAIN c.at /\ c.at[id].refs = RefsOf(Now)
    BY <1>0, <2>1, <2>2, <2>3, InitializeEffect
  <2>. QED BY <1>2, <2>1, <2>4 DEF Made
<1>5. CASE Doing = "queueSetReserve"
  <2>1. Now = "RESERVE_USDC_SET" /\ call = 1 /\ Len(Calls[Now]) = 2
    BY <1>0, <1>5, CallNames DEF Doing
  <2>2. c = Adding(chain, file["POOL"], "queued")
    BY <1>5 DEF Outcomes
  <2>3. IsChain(c) /\ Grown(c)
    BY <1>0, <1>1, <2>1, <2>2, PoolThere, AddingEffect DEF LineFact, Facts
  <2>. QED BY <2>1, <2>3 DEF Made, Deployed
<1>6. CASE Doing = "setReserve"
  <2>1. Now = "RESERVE_USDC_SET" /\ LineFact[Now] = "reserve"
    BY <1>0, <1>6, CallNames DEF Doing, LineFact
  <2>2. c = With(chain, file["POOL"], SetReserve(file["POOL"]))
    BY <1>6 DEF Outcomes
  <2>3. IsChain(c) /\ Grown(c) /\ "reserve" \in c.at[file["POOL"]].facts
    BY <1>0, <2>1, <2>2, PoolThere, ReserveEffect DEF LineFact
  <2>. QED BY <2>1, <2>3 DEF Made, Deployed
<1>7. CASE Doing = "deposit"
  <2>1. Now = "BACKSTOP_FUNDED" /\ LineFact[Now] = "funded"
    BY <1>0, <1>7, CallNames DEF Doing, LineFact
  <2>2. c = Adding(Spend(file["COMET"]), file["POOL"], "funded")
    BY <1>7 DEF Outcomes
  <2>3. /\ file["POOL"] \in DOMAIN Spend(file["COMET"]).at /\ file["POOL"] \in 1..drawn
        /\ IsChain(Spend(file["COMET"])) /\ Grown(Spend(file["COMET"]))
    BY <1>0, <2>1, PoolThere, SpendEffect DEF LineFact
  <2>4. IsChain(c) /\ Grown(c) /\ "funded" \in c.at[file["POOL"]].facts
    BY <1>0, <2>2, <2>3, AddingEffect DEF Facts
  <2>. QED BY <2>1, <2>4 DEF Made, Deployed
<1>8. CASE Doing = "addReward"
  <2>1. Now = "REWARD_ZONE" /\ LineFact[Now] = "rewarded"
    BY <1>0, <1>8, CallNames DEF Doing, LineFact
  <2>2. c = Adding(chain, file["POOL"], "rewarded")
    BY <1>8 DEF Outcomes
  <2>3. IsChain(c) /\ Grown(c) /\ "rewarded" \in c.at[file["POOL"]].facts
    BY <1>0, <1>1, <2>1, <2>2, PoolThere, AddingEffect DEF LineFact, Facts
  <2>. QED BY <2>1, <2>3 DEF Made, Deployed
<1>9. CASE Doing = "setStatus"
  <2>1. Now = "POOL_ACTIVE" /\ LineFact[Now] = "active"
    BY <1>0, <1>9, CallNames DEF Doing, LineFact
  <2>2. c = Adding(chain, file["POOL"], "active")
    BY <1>9 DEF Outcomes
  <2>3. IsChain(c) /\ Grown(c) /\ "active" \in c.at[file["POOL"]].facts
    BY <1>0, <1>1, <2>1, <2>2, PoolThere, AddingEffect DEF LineFact, Facts
  <2>. QED BY <2>1, <2>3 DEF Made, Deployed
<1>10. CASE Doing \in {"createAsset", "mint"}
  <2>1. Now \in {"BLND_SAC", "balances"}
    BY <1>0, <1>10, CallNames DEF Doing
  <2>2. Now \notin Deployed /\ Now \notin DOMAIN LineFact
    BY <2>1 DEF Deployed, LineFact
  <2>3. IsChain(c) /\ c.at = chain.at
    <3>1. CASE Doing = "createAsset"
      BY <1>1, <3>1, AssetEffect DEF Outcomes
    <3>2. CASE Doing = "mint"
      <4>1. c = [chain EXCEPT !.money = IF chain.money > 0 THEN chain.money ELSE 2]
        BY <3>2 DEF Outcomes, Mint
      <4>2. (IF chain.money > 0 THEN chain.money ELSE 2) \in Nat
        BY <1>1 DEF IsChain
      <4>. QED BY <1>1, <4>1, <4>2, MoneyEffect
    <3>. QED BY <1>10, <3>1, <3>2
  <2>. QED BY <2>2, <2>3 DEF Grown, Made
<1>11. CASE Doing \notin {"create", "init", "queueSetReserve", "setReserve", "deposit",
                          "addReward", "setStatus", "createAsset", "mint"}
  <2>1. c = chain
    BY <1>11 DEF Outcomes, Install
  <2>2. Now \notin DOMAIN LineFact
    BY <1>0, <1>11, CallNames DEF Doing, LineFact
  <2>3. Now \in Deployed => call # 1 /\ (Now \in Initialized => call = 2)
    BY <1>0, <1>11, CallNames DEF Doing
  <2>4. Made(c, call + 1)
    BY <1>0, <1>1, <2>1, <2>2, <2>3 DEF Made
  <2>. QED BY <1>1, <2>1, <2>4
<1>. QED BY <1>3, <1>4, <1>5, <1>6, <1>7, <1>8, <1>9, <1>10, <1>11

-----------------------------------------------------------------------------
(***************************************************************************)
(* Every step keeps the invariant.                                         *)
(***************************************************************************)
RunTypes ==
  /\ stage \in 0..17 /\ call \in 1..4 /\ id \in 0..drawn
  /\ tries \in 0..SetReserveTries - 1 /\ drawn \in Nat /\ faults \in 0..MaxFaults

ChainTypes == IsChain(chain) /\ \A c \in late : IsChain(c) /\ late = {c}

\* The types of the run, of the chains and of the file.
LEMMA TypesSplit ==
  TypeOK <=> RunTypes /\ ChainTypes /\ file \in [Keys -> 0..drawn + 1]
BY ScriptPlaces DEF TypeOK, RunTypes, ChainTypes

\* A longer range holds a shorter one.
LEMMA WiderRanges ==
  ASSUME NEW a \in Nat, NEW b \in Nat, a <= b
  PROVE  1..a \subseteq 1..b /\ 0..a + 1 \subseteq 0..b + 1
OBVIOUS

\* Chains and lines keep their types as salts are drawn.
LEMMA DrawnMore ==
  ASSUME drawn \in Nat, drawn' \in Nat, drawn <= drawn'
  PROVE  /\ \A c : IsChain(c) => IsChain(c)'
         /\ file \in [Keys -> 0..drawn + 1] => file \in [Keys -> 0..drawn' + 1]
<1>1. 1..drawn \subseteq 1..drawn' /\ 0..drawn + 1 \subseteq 0..drawn' + 1
  BY WiderRanges
<1>2. \A c : IsChain(c) => IsChain(c)'
  BY <1>1 DEF IsChain
<1>. QED BY <1>1, <1>2

\* Going on, or stopping: the types, and no call has been made.
LEMMA GoOnTypes ==
  ASSUME DeploymentConstantsOK, RunTypes, NEW n \in 1..18, GoOn(n) \/ Stopped, NameInv',
         faults' \in 0..MaxFaults
  PROVE  /\ RunTypes' /\ drawn <= drawn'
         /\ stage' # 0 => \A c : Made(c, call)'
<1>1. Stopped \/ \E m \in 1..17 : Enters(m)
  BY GoOnEffect
<1>2. CASE Stopped
  BY <1>2 DEF Stopped, RunTypes, DeploymentConstantsOK
<1>3. ASSUME NEW m \in 1..17, Enters(m)
      PROVE  RunTypes' /\ drawn <= drawn' /\ \A c : Made(c, call)'
  <2>1. stage' = m /\ call' = 1 /\ tries' = 0 /\ drawn' \in {drawn, drawn + 1} /\ Now' = Script[m]
    BY <1>3 DEF Enters, Now
  <2>2. drawn \in Nat /\ drawn' \in Nat /\ drawn <= drawn' /\ id' \in 0..drawn'
    BY <2>1 DEF RunTypes, NameInv
  <2>3. Script[m] \in DOMAIN LineFact => ~ (1 > Len(Calls[Script[m]]))
    <3>1. Script[m] \in Stages
      BY StageNames
    <3>2. Script[m] \in DOMAIN LineFact => ~ (1 > Len(Calls[Script[m]]))
      BY <3>1, LineCalls
    <3>. QED BY <3>2
  <2>4. \A c : Made(c, call)'
    BY <2>1, <2>3 DEF Made
  <2>. QED BY <2>1, <2>2, <2>4 DEF RunTypes, DeploymentConstantsOK
<1>. QED BY <1>1, <1>2, <1>3

\* The model's operator, and its outcome as the lemmas name it.
LEMMA StopIsStopped == Stop <=> Stopped
BY DEF Stop, Stopped

\* Without a new line.
LEMMA SameLines ==
  ASSUME LinesInv, NEW n \in 1..18, stage = 0 => n = 1, stage # 0 => n <= stage + 1,
         stage # 0 /\ n = stage + 1 => Now = "REWARD_ZONE", stage \in 0..17, file' = file
  PROVE  LinesUpTo(n)
<1>1. \A k \in Keys : (Recorded(k) <=> file[k] # 0)
  BY DEF Recorded
<1>2. ASSUME NEW m \in 1..n - 1, Needed(Script[m]) PROVE Recorded(Script[m])
  <2>1. stage # 0
    OBVIOUS
  <2>2. m # stage
    BY <1>2, <2>1 DEF Needed, Now
  <2>3. m \in 1..stage - 1
    BY <2>1, <2>2
  <2>. QED BY <1>2, <2>1, <2>3 DEF LinesInv
<1>. QED BY <1>1, <1>2 DEF LinesUpTo, Needed

\* An error of a call that is tolerated, tried again, passed over, or ends the run.
LEMMA ThrowsEffect ==
  ASSUME DeploymentConstantsOK, DeploymentInv, Calling, NEW b \in BOOLEAN, Throws(b),
         file' = file, faults' \in 0..MaxFaults
  PROVE  /\ RunTypes' /\ drawn <= drawn' /\ LinesInv' /\ NameInv'
         /\ stage' # 0 => \A c : Made(c, call) => Made(c, call)'
<1>0. /\ TypeOK /\ RunTypes /\ LinesInv /\ NameInv /\ stage # 0 /\ stage \in 1..17
      /\ \A k \in Named : file[k] \in Nat /\ file[k] <= drawn
  <2>1. TypeOK /\ RunTypes /\ LinesInv /\ NameInv /\ stage # 0
    BY TypesSplit DEF DeploymentInv, Calling
  <2>2. \A k \in Named : file[k] \in Nat
    BY <2>1, KeyNames DEF TypeOK, Named
  <2>. QED BY <2>1, <2>2 DEF RunTypes, NameInv
<1>1. /\ Now \in Stages /\ call \in 1..Len(Calls[Now]) /\ call <= 3
  <2>1. Now \in Stages
    BY <1>0, StageNames DEF Now
  <2>2. Len(Calls[Now]) \in 0..3
    BY <2>1, CallNames
  <2>3. call <= Len(Calls[Now]) /\ call \in Nat /\ call >= 1
    BY <1>0 DEF Calling, RunTypes
  <2>. DEFINE l == Len(Calls[Now])
  <2>4. l \in 0..3 /\ call <= l
    BY <2>2, <2>3
  <2>5. call \in 1..l /\ call <= 3
    <3>. HIDE DEF l
    <3>. QED BY <2>3, <2>4
  <2>. QED BY <2>1, <2>5
<1>2. CASE Tolerated(b) /\ Advance
  <2>1. /\ call' = call + 1 /\ stage' = stage /\ id' = id /\ tries' = tries /\ drawn' = drawn
        /\ Now' = Now
    BY <1>2 DEF Advance, Now
  <2>2. LinesInv' /\ NameInv'
    BY <1>0, <2>1 DEF LinesInv, NameInv, Recorded, IdOf
  <2>3. (Now = "RESERVE_USDC_SET" /\ call = 1) \/ Now = "BLND_SAC"
    BY <1>1, <1>2, CallNames DEF Tolerated, Doing
  <2>4. Now \notin Deployed /\ (Now \in DOMAIN LineFact => ~ (call + 1 > Len(Calls[Now])))
    <3>1. CASE Now = "RESERVE_USDC_SET" /\ call = 1
      <4>1. Len(Calls[Now]) = 2
        BY <1>1, <3>1, CallNames
      <4>. QED BY <3>1, <4>1 DEF Deployed
    <3>2. CASE Now = "BLND_SAC"
      BY <3>2 DEF Deployed, LineFact
    <3>. QED BY <2>3, <3>1, <3>2
  <2>5. \A c : Made(c, call)'
    BY <2>1, <2>4 DEF Made
  <2>6. RunTypes' /\ drawn <= drawn'
    BY <1>0, <1>1, <2>1 DEF RunTypes
  <2>. QED BY <2>2, <2>5, <2>6
<1>3. CASE Doing = "addReward" /\ GoOn(stage + 1)
  <2>1. Now = "REWARD_ZONE" /\ stage + 1 \in 1..18
    BY <1>0, <1>1, <1>3, CallNames DEF Doing
  <2>2. LinesUpTo(stage + 1)
    BY <1>0, <2>1, SameLines
  <2>3. LinesInv' /\ NameInv'
    BY <1>0, <1>3, <2>1, <2>2, GoOnLines
  <2>. QED BY <1>0, <1>3, <2>1, <2>3, GoOnTypes
<1>4. CASE TryAgain /\ tries' = tries + 1 /\ UNCHANGED <<stage, call, id, drawn>>
  <2>1. Now' = Now /\ stage' = stage /\ call' = call /\ id' = id /\ drawn' = drawn
    BY <1>4 DEF Now
  <2>2. LinesInv' /\ NameInv'
    BY <1>0, <2>1 DEF LinesInv, NameInv, Recorded, IdOf
  <2>3. \A c : Made(c, call) => Made(c, call)'
    BY <2>1 DEF Made, RefsOf, IdOf
  <2>4. RunTypes' /\ drawn <= drawn'
    BY <1>0, <1>4, <2>1 DEF RunTypes, TryAgain, DeploymentConstantsOK
  <2>. QED BY <2>2, <2>3, <2>4
<1>5. CASE Stop
  <2>1. LinesUpTo(1)
    BY <1>0, SameLines
  <2>2. LinesInv' /\ NameInv'
    BY <1>0, <1>5, <2>1, StopIsStopped, StopNames
  <2>. QED BY <1>0, <1>5, <2>2, GoOnTypes, StopIsStopped
<1>. QED BY <1>2, <1>3, <1>4, <1>5 DEF Throws

\* A pool that is set up is in the file.
LEMMA PoolBefore ==
  ASSUME LinesInv, NEW k \in DOMAIN LineFact, Recorded(k)
  PROVE  Recorded("POOL")
<1>1. PICK n \in 1..17 : Script[n] = k /\ 13 < n
  BY ScriptPlaces DEF LineFact
<1>2. Needed(Script[13])
  BY ScriptPlaces, KeyNames DEF Needed, Places
<1>. QED BY <1>1, <1>2, ScriptPlaces DEF LinesInv

\* What the lines say of the chain is true of a chain that has grown from it.
LEMMA GrownFits ==
  ASSUME LinesInv, NameInv, FitInv, stage # 0, NEW c, Grown(c)
  PROVE  ContractsFit(c) /\ FactsFit(c)
<1>1. ContractsFit(chain) /\ FactsFit(chain)
  BY DEF FitInv
<1>2. ContractsFit(c)
  <2>1. SUFFICES ASSUME NEW k \in Deployed, Recorded(k)
                 PROVE  file[k] \in DOMAIN c.at /\ c.at[file[k]].refs = RefsOf(k)
    BY <1>1 DEF ContractsFit
  <2>2. file[k] \in DOMAIN chain.at /\ chain.at[file[k]].refs = RefsOf(k)
    BY <1>1, <2>1 DEF ContractsFit
  <2>3. ~ (file[k] = id /\ Now \in Initialized)
    BY DEF NameInv, Named, Draws, Initialized, Deployed
  <2>. QED BY <2>2, <2>3 DEF Grown
<1>3. FactsFit(c)
  <2>1. SUFFICES ASSUME NEW k \in DOMAIN LineFact, Recorded(k)
                 PROVE  LineFact[k] \in c.at[file["POOL"]].facts
    BY DEF FactsFit
  <2>2. Recorded("POOL")
    BY <2>1, PoolBefore
  <2>3. file["POOL"] \in DOMAIN chain.at
    BY <1>1, <2>2 DEF ContractsFit, Deployed
  <2>4. LineFact[k] \in chain.at[file["POOL"]].facts /\ LineFact[k] # "queued"
    <3>1. LineFact[k] # "queued"
      BY DEF LineFact
    <3>. QED BY <1>1, <2>1, <3>1 DEF FactsFit
  <2>. QED BY <2>3, <2>4 DEF Grown
<1>. QED BY <1>2, <1>3

\* Without a new line nothing changes in what the lines say.
LEMMA FitsKept ==
  ASSUME file' = file, NEW c, ContractsFit(c), FactsFit(c)
  PROVE  ContractsFit(c)' /\ FactsFit(c)'
BY DEF ContractsFit, FactsFit, Recorded, RefsOf, IdOf

\* A step of the run that leaves the lines: what the next chains are.
LEMMA SameFile ==
  ASSUME TypeOK, RunTypes', drawn <= drawn', LinesInv', NameInv', file' = file,
         IsChain(chain'), \A c \in late' : IsChain(c) /\ late' = {c},
         \A c \in {chain'} \cup late' :
           ContractsFit(c) /\ FactsFit(c) /\ (stage' # 0 => Made(c, call)')
  PROVE  DeploymentInv'
<1>1. drawn \in Nat /\ drawn' \in Nat
  BY DEF TypeOK, RunTypes
<1>2. IsChain(chain)'
  <2>1. \A c : IsChain(c) => IsChain(c)'
    BY <1>1, DrawnMore
  <2>2. PICK c : c = chain'
    OBVIOUS
  <2>3. IsChain(c)'
    BY <2>1, <2>2
  <2>. QED BY <2>2, <2>3 DEF IsChain
<1>3. ASSUME NEW c \in late' PROVE IsChain(c)' /\ late' = {c}
  BY <1>1, DrawnMore
<1>4. TypeOK'
  <2>1. file' \in [Keys -> 0..drawn' + 1]
    BY <1>1, DrawnMore DEF TypeOK
  <2>. QED BY <1>2, <1>3, <2>1, ScriptPlaces DEF TypeOK, RunTypes
<1>5. FitInv'
  <2>1. SUFFICES ASSUME NEW c \in {chain'} \cup late'
                 PROVE  ContractsFit(c)' /\ FactsFit(c)' /\ (stage' # 0 => Made(c, call)')
    BY DEF FitInv
  <2>. QED BY FitsKept
<1>. QED BY <1>4, <1>5 DEF DeploymentInv

\* A run that starts.
LEMMA LaunchInv == ASSUME DeploymentConstantsOK, DeploymentInv, Launch PROVE DeploymentInv'
<1>1. /\ TypeOK /\ RunTypes /\ LinesInv /\ NameInv /\ FitInv /\ ChainTypes
      /\ stage = 0 /\ GoOn(1) /\ file' = file /\ chain' = chain /\ late' = late /\ faults' = faults
  BY TypesSplit DEF DeploymentInv, Launch
<1>2. \A k \in Named : file'[k] \in Nat /\ file'[k] <= drawn
  BY <1>1, KeyNames DEF TypeOK, Named, NameInv
<1>3. LinesUpTo(1)
  BY <1>1, SameLines
<1>4. LinesInv' /\ NameInv'
  BY <1>1, <1>2, <1>3, GoOnLines
<1>5. RunTypes' /\ drawn <= drawn' /\ (stage' # 0 => \A c : Made(c, call)')
  BY <1>1, <1>4, GoOnTypes DEF RunTypes
<1>. QED BY <1>1, <1>4, <1>5, SameFile DEF FitInv, ChainTypes

\* A call that lands while it is polled for.
LEMMA CallInv == ASSUME DeploymentConstantsOK, DeploymentInv, Call PROVE DeploymentInv'
<1>1. /\ TypeOK /\ RunTypes /\ LinesInv /\ NameInv /\ FitInv /\ stage # 0
      /\ late = {} /\ late' = {} /\ file' = file /\ faults' = faults /\ chain' \in Outcomes
      /\ call' = call + 1 /\ stage' = stage /\ id' = id /\ tries' = tries /\ drawn' = drawn
      /\ Now' = Now
  BY TypesSplit DEF DeploymentInv, Call, Calling, Advance, Now
<1>2. IsChain(chain') /\ Grown(chain') /\ Made(chain', call + 1)
  <2>1. PICK c \in Outcomes : c = chain'
    BY <1>1
  <2>2. IsChain(c) /\ Grown(c) /\ Made(c, call + 1)
    BY OutcomeEffect DEF Call
  <2>. QED BY <2>1, <2>2
<1>3. ContractsFit(chain') /\ FactsFit(chain')
  BY <1>1, <1>2, GrownFits
<1>4. \A c : Made(c, call + 1) => Made(c, call)'
  BY <1>1 DEF Made, RefsOf, IdOf
<1>5. LinesInv' /\ NameInv'
  BY <1>1 DEF LinesInv, NameInv, Recorded, IdOf
<1>6. RunTypes' /\ drawn <= drawn'
  <2>1. call <= 3
    <3>1. Now \in Stages
      BY <1>1, ScriptPlaces, StageNames DEF TypeOK, Now
    <3>2. Len(Calls[Now]) \in 0..3 /\ call <= Len(Calls[Now])
      BY <3>1, CallNames DEF Call, Calling
    <3>. DEFINE l == Len(Calls[Now])
    <3>3. l \in 0..3 /\ call <= l /\ call \in Nat
      BY <1>1, <3>2 DEF RunTypes
    <3>. HIDE DEF l
    <3>. QED BY <3>3
  <2>. QED BY <1>1, <2>1 DEF RunTypes
<1>. QED BY <1>1, <1>2, <1>3, <1>4, <1>5, <1>6, SameFile

\* A call that throws and leaves the chain, with or without a transaction that
\* nobody waits for any more.
LEMMA FailedInv ==
  ASSUME DeploymentConstantsOK, DeploymentInv, Calling, NEW b \in BOOLEAN, Throws(b),
         file' = file, chain' = chain, faults' \in 0..MaxFaults,
         late' = late \/ \E c \in Outcomes : late' = {c}
  PROVE  DeploymentInv'
<1>1. /\ TypeOK /\ RunTypes /\ ChainTypes /\ LinesInv /\ NameInv /\ FitInv /\ stage # 0
      /\ call \in Nat
  BY TypesSplit DEF DeploymentInv, Calling, RunTypes
<1>2. /\ RunTypes' /\ drawn <= drawn' /\ LinesInv' /\ NameInv'
      /\ stage' # 0 => \A c : Made(c, call) => Made(c, call)'
  BY ThrowsEffect
<1>3. \A c \in {chain} \cup late : ContractsFit(c) /\ FactsFit(c) /\ Made(c, call)
  BY <1>1 DEF FitInv
<1>4. CASE late' = late
  BY <1>1, <1>2, <1>3, <1>4, SameFile DEF ChainTypes
<1>5. ASSUME NEW d \in Outcomes, late' = {d} PROVE DeploymentInv'
  <2>1. IsChain(d) /\ Grown(d) /\ Made(d, call + 1)
    BY OutcomeEffect
  <2>2. ContractsFit(d) /\ FactsFit(d)
    BY <1>1, <2>1, GrownFits
  <2>3. Made(d, call)
    <3>1. \A n \in Nat : call > n => call + 1 > n
      BY <1>1
    <3>2. Now \in DOMAIN LineFact => Len(Calls[Now]) \in Nat
      BY <1>1, ScriptPlaces, StageNames, CallNames DEF TypeOK, Now
    <3>. QED BY <2>1, <3>1, <3>2 DEF Made
  <2>. QED BY <1>1, <1>2, <1>3, <1>5, <2>1, <2>2, <2>3, SameFile DEF ChainTypes
<1>. QED BY <1>4, <1>5

\* A call that the chain refuses.
LEMMA RejectedInv == ASSUME DeploymentConstantsOK, DeploymentInv, Rejected PROVE DeploymentInv'
BY FailedInv DEF Rejected, DeploymentInv, TypeOK

\* A fault is counted within its bound.
LEMMA FaultTyped == ASSUME DeploymentConstantsOK, TypeOK, Fault PROVE faults' \in 0..MaxFaults
BY DEF DeploymentConstantsOK, TypeOK, Fault

\* An error without effect.
LEMMA CallFailsInv == ASSUME DeploymentConstantsOK, DeploymentInv, CallFails PROVE DeploymentInv'
BY FailedInv, FaultTyped DEF CallFails, DeploymentInv

\* A poll that ends early.
LEMMA GiveUpInv == ASSUME DeploymentConstantsOK, DeploymentInv, GiveUp PROVE DeploymentInv'
BY FailedInv, FaultTyped DEF GiveUp, DeploymentInv

\* A transaction nobody waits for lands, or expires.
LEMMA LateLandsInv == ASSUME DeploymentInv, LateLands PROVE DeploymentInv'
<1>1. /\ TypeOK /\ RunTypes /\ ChainTypes /\ LinesInv /\ NameInv /\ FitInv
      /\ chain' \in late \cup {chain} /\ late' = {} /\ file' = file
      /\ stage' = stage /\ call' = call /\ id' = id /\ tries' = tries
      /\ drawn' = drawn /\ faults' = faults /\ Now' = Now
  BY TypesSplit DEF DeploymentInv, LateLands, run, Now
<1>2. LinesInv' /\ NameInv'
  BY <1>1 DEF LinesInv, NameInv, Recorded, IdOf
<1>3. RunTypes' /\ drawn <= drawn'
  BY <1>1 DEF RunTypes
<1>4. /\ IsChain(chain') /\ ContractsFit(chain') /\ FactsFit(chain')
      /\ stage # 0 => Made(chain', call)
  BY <1>1 DEF ChainTypes, FitInv
<1>5. \A c : Made(c, call) => Made(c, call)'
  BY <1>1 DEF Made, RefsOf, IdOf
<1>. QED BY <1>1, <1>2, <1>3, <1>4, <1>5, SameFile

\* A run that is killed, with or without a transaction on its way.
LEMMA KillInv == ASSUME DeploymentConstantsOK, DeploymentInv, Kill PROVE DeploymentInv'
<1>1. /\ TypeOK /\ RunTypes /\ ChainTypes /\ LinesInv /\ NameInv /\ FitInv /\ stage # 0
      /\ Stopped /\ file' = file /\ chain' = chain /\ faults' \in 0..MaxFaults
      /\ late' = late \/ (Calling /\ \E c \in Outcomes : late' = {c})
  BY TypesSplit, StopIsStopped, FaultTyped DEF DeploymentInv, Kill
<1>2. LinesUpTo(1)
  BY <1>1, SameLines DEF RunTypes
<1>3. \A k \in Named : file'[k] \in Nat /\ file'[k] <= drawn
  BY <1>1, KeyNames DEF TypeOK, Named, NameInv
<1>4. LinesInv' /\ NameInv'
  BY <1>1, <1>2, <1>3, StopNames
<1>5. RunTypes' /\ drawn <= drawn' /\ stage' = 0
  BY <1>1, <1>4, GoOnTypes DEF Stopped
<1>6. \A c \in {chain} \cup late : ContractsFit(c) /\ FactsFit(c)
  BY <1>1 DEF FitInv
<1>7. CASE late' = late
  BY <1>1, <1>4, <1>5, <1>6, <1>7, SameFile DEF ChainTypes
<1>8. ASSUME Calling, NEW d \in Outcomes, late' = {d} PROVE DeploymentInv'
  <2>1. IsChain(d) /\ Grown(d)
    BY <1>8, OutcomeEffect
  <2>2. ContractsFit(d) /\ FactsFit(d)
    BY <1>1, <2>1, GrownFits
  <2>. QED BY <1>1, <1>4, <1>5, <1>6, <1>8, <2>1, <2>2, SameFile DEF ChainTypes
<1>. QED BY <1>1, <1>7, <1>8

\* What a contract is told does not change once the lines before it are there.
LEMMA RefsStay ==
  ASSUME NEW n \in 1..17, \A m \in 1..n - 1 : Needed(Script[m]) => Recorded(Script[m]),
         \A k \in Keys : Recorded(k) => file'[k] = file[k]
  PROVE  RefsOf(Script[n])' = RefsOf(Script[n])
<1>1. ASSUME NEW t \in Told(Script[n]) PROVE IdOf(t)' = IdOf(t)
  <2>1. PICK m \in 1..17 : m < n /\ Script[m] = NameKey(t) /\ Needed(Script[m])
    BY ToldOfEarlier
  <2>2. Recorded(Script[m]) /\ Script[m] \in Keys
    BY <2>1 DEF Needed
  <2>. QED BY <2>1, <2>2, NamesOfKeys
<1>. QED BY <1>1 DEF RefsOf

\* The line of a stage.
LEMMA LineWritten ==
  ASSUME TypeOK, LinesInv, NameInv, stage # 0, stage \in 1..17,
         file' = IF Now \in Keys THEN [file EXCEPT ![Now] = Line] ELSE file
  PROVE  /\ \A k \in Keys : file'[k] = IF k = Now THEN Line ELSE file[k]
         /\ Line \in 1..drawn + 1 /\ (Now \in Named => Line = id /\ id \in 1..drawn)
         /\ file' \in [Keys -> 0..drawn + 1]
         /\ \A k \in Named : file'[k] \in Nat /\ file'[k] <= drawn
         /\ LinesUpTo(stage + 1)
<1>1. file \in [Keys -> 0..drawn + 1] /\ drawn \in Nat
  BY DEF TypeOK
<1>2. Line \in 1..drawn + 1 /\ (Now \in Named => Line = id /\ id \in 1..drawn)
  BY <1>1 DEF NameInv, Line, TypeOK
<1>3. \A k \in Keys : file'[k] = IF k = Now THEN Line ELSE file[k]
  BY <1>1
<1>4. file' \in [Keys -> 0..drawn + 1]
  <2>1. Line \in 0..drawn + 1
    BY <1>1, <1>2
  <2>. QED BY <1>1, <2>1
<1>5. \A k \in Named : file'[k] \in Nat /\ file'[k] <= drawn
  <2>. SUFFICES ASSUME NEW k \in Named PROVE file'[k] \in Nat /\ file'[k] <= drawn
    OBVIOUS
  <2>1. file[k] \in Nat /\ file[k] <= drawn /\ k \in Keys
    BY <1>1, KeyNames DEF Named, NameInv
  <2>. QED BY <1>1, <1>2, <1>3, <2>1
<1>6. LinesUpTo(stage + 1)
  <2>0. \A k \in Keys : (Recorded(k) <=> file[k] # 0)
    BY DEF Recorded
  <2>1. \A k \in Keys : Recorded(k) => file'[k] = file[k]
    BY <1>3 DEF LinesInv
  <2>2. \A k \in Keys : ~Recorded(k) /\ file'[k] # 0 => k = Script[stage]
    BY <1>3, <2>0 DEF Now
  <2>3. \A m \in 1..stage - 1 : Needed(Script[m]) => Recorded(Script[m])
    BY DEF LinesInv
  <2>4. ASSUME NEW m \in 1..stage, Needed(Script[m]) PROVE file'[Script[m]] # 0
    <3>1. CASE m = stage
      BY <1>2, <1>3, <2>4, <3>1 DEF Needed, Now
    <3>2. CASE m \in 1..stage - 1
      BY <2>0, <2>1, <2>3, <2>4, <3>2 DEF Needed
    <3>. QED BY <3>1, <3>2
  <2>5. (stage + 1) - 1 = stage /\ (stage + 1) - 2 = stage - 1 /\ stage + 1 > 1
    OBVIOUS
  <2>. QED BY <2>1, <2>2, <2>3, <2>4, <2>5 DEF LinesUpTo
<1>. QED BY <1>2, <1>3, <1>4, <1>5, <1>6

\* A line is written, and the run goes on.
LEMMA RecordInv == ASSUME DeploymentConstantsOK, DeploymentInv, Record PROVE DeploymentInv'
<1>1. /\ TypeOK /\ RunTypes /\ ChainTypes /\ LinesInv /\ NameInv /\ FitInv /\ stage # 0
      /\ stage \in 1..17 /\ call > Len(Calls[Now]) /\ GoOn(stage + 1) /\ call \in Nat
      /\ file' = IF Now \in Keys THEN [file EXCEPT ![Now] = Line] ELSE file
      /\ chain' = chain /\ late' = late /\ faults' = faults
      /\ Now \in Stages /\ stage + 1 \in 1..18
  <2>1. TypeOK /\ RunTypes /\ ChainTypes /\ LinesInv /\ NameInv /\ FitInv
    BY TypesSplit DEF DeploymentInv
  <2>2. stage \in 1..17 /\ stage + 1 \in 1..18 /\ call \in Nat
    BY <2>1 DEF RunTypes, Record
  <2>3. Now \in Stages
    BY <2>2, StageNames DEF Now
  <2>. QED BY <2>1, <2>2, <2>3 DEF Record
<1>2. /\ \A k \in Keys : file'[k] = IF k = Now THEN Line ELSE file[k]
      /\ Line \in 1..drawn + 1 /\ (Now \in Named => Line = id /\ id \in 1..drawn)
      /\ file' \in [Keys -> 0..drawn + 1]
      /\ \A k \in Named : file'[k] \in Nat /\ file'[k] <= drawn
      /\ LinesUpTo(stage + 1)
  BY <1>1, LineWritten
<1>3. LinesInv' /\ NameInv'
  BY <1>1, <1>2, GoOnLines
<1>4. RunTypes' /\ drawn <= drawn' /\ (stage' # 0 => \A c : Made(c, call)')
  <2>1. faults' \in 0..MaxFaults
    BY <1>1 DEF RunTypes
  <2>. QED BY <1>1, <1>3, <2>1, GoOnTypes
<1>5. drawn \in Nat /\ drawn' \in Nat
  BY <1>1, <1>4 DEF RunTypes
<1>6. TypeOK'
  <2>1. file' \in [Keys -> 0..drawn' + 1]
    BY <1>2, <1>4, <1>5, WiderRanges
  <2>2. IsChain(chain)' /\ \A c \in late : IsChain(c)'
    <3>1. \A c : IsChain(c) => IsChain(c)'
      BY <1>4, <1>5, DrawnMore
    <3>2. PICK c : c = chain
      OBVIOUS
    <3>3. IsChain(c)'
      BY <1>1, <3>1, <3>2 DEF ChainTypes
    <3>. QED BY <1>1, <3>1, <3>2, <3>3 DEF IsChain, ChainTypes
  <2>. QED BY <1>1, <1>4, <2>1, <2>2, ScriptPlaces DEF TypeOK, RunTypes, ChainTypes
<1>7. \A k \in Keys : Recorded(k) => file'[k] = file[k] /\ k # Now
  BY <1>1, <1>2 DEF LinesInv
<1>8. ASSUME NEW c \in {chain} \cup late, NEW k \in Deployed, Recorded(k)'
      PROVE  file'[k] = IdOf(k)' /\ file'[k] \in DOMAIN c.at /\ c.at[file'[k]].refs = RefsOf(k)'
  <2>0. k \in Keys /\ NameKey(k) \in Keys /\ (k # NameKey(k) => NameKey(k) \in Salts)
    BY KeyNames DEF NameKey, Salts
  <2>1. CASE Recorded(k)
    <3>1. /\ file[k] = IdOf(k) /\ file[k] # 0
          /\ file[k] \in DOMAIN c.at /\ c.at[file[k]].refs = RefsOf(k)
      BY <1>1, <2>1 DEF FitInv, ContractsFit, Recorded
    <3>2. file'[k] = file[k]
      BY <1>7, <2>0, <2>1
    <3>3. IdOf(k)' = IdOf(k)
      <4>1. Recorded(NameKey(k))
        BY <2>0, <3>1, NamesOfKeys DEF Recorded
      <4>. QED BY <1>7, <2>0, <4>1, NamesOfKeys
    <3>4. RefsOf(k)' = RefsOf(k)
      <4>1. PICK n \in 1..17 : Script[n] = k
        BY ScriptPlaces DEF Deployed
      <4>2. \A m \in 1..n - 1 : Needed(Script[m]) => Recorded(Script[m])
        <5>1. \A m \in 1..n - 1 : m \in 1..17 /\ m < n
          OBVIOUS
        <5>. QED BY <1>1, <2>1, <4>1, <5>1 DEF LinesInv
      <4>. QED BY <1>7, <4>1, <4>2, RefsStay
    <3>. QED BY <3>1, <3>2, <3>3, <3>4
  <2>2. CASE ~Recorded(k)
    <3>1. k = Now /\ file'[k] = id
      <4>1. file'[k] # 0 /\ file[k] = 0
        BY <1>8, <2>0, <2>2 DEF Recorded
      <4>. QED BY <1>2, <2>0, <4>1 DEF Named
    <3>2. IdOf(k)' = id
      <4>1. CASE Draws(k)
        <5>1. NameKey(k) = k
          BY <4>1 DEF Draws, NameKey
        <5>. QED BY <3>1, <5>1, NamesOfKeys
      <4>2. CASE ~Draws(k)
        <5>1. NameKey(k) \in Salts /\ NameKey(k) # Now
          BY <3>1, <4>2 DEF Draws, NameKey, Salts, Deployed
        <5>2. file'[NameKey(k)] = file[NameKey(k)]
          BY <1>2, <2>0, <5>1
        <5>3. id = IdOf(k)
          BY <1>1, <3>1, <4>2 DEF NameInv
        <5>. QED BY <5>2, <5>3, NamesOfKeys
      <4>. QED BY <4>1, <4>2
    <3>3. RefsOf(k)' = RefsOf(k)
      <4>1. k = Script[stage] /\ \A m \in 1..stage - 1 : Needed(Script[m]) => Recorded(Script[m])
        BY <1>1, <3>1 DEF LinesInv, Now
      <4>. QED BY <1>1, <1>7, <4>1, RefsStay
    <3>4. id \in DOMAIN c.at /\ c.at[id].refs = RefsOf(k)
      <4>1. Len(Calls[Now]) = IF Now \in Initialized THEN 3 ELSE 2
        BY <1>1, <3>1, CallNames
      <4>2. call > (IF Now \in Initialized THEN 3 ELSE 1) /\ call > 1
        BY <1>1, <4>1
      <4>3. Made(c, call)
        BY <1>1 DEF FitInv
      <4>. QED BY <3>1, <4>2, <4>3 DEF Made
    <3>. QED BY <3>1, <3>2, <3>3, <3>4
  <2>. QED BY <2>1, <2>2
<1>9. ASSUME NEW c \in {chain} \cup late, NEW k \in DOMAIN LineFact, Recorded(k)'
      PROVE  LineFact[k] \in c.at[file'["POOL"]].facts
  <2>0. k \in Keys /\ "POOL" \in Keys /\ Needed("POOL")
    BY KeyNames DEF Deployed, Needed
  <2>1. PICK n \in 1..17 : Script[n] = k /\ 13 < n
    BY ScriptPlaces DEF LineFact
  <2>2. CASE Recorded(k)
    <3>1. Recorded("POOL")
      BY <1>1, <2>2, PoolBefore
    <3>. QED BY <1>1, <1>7, <2>0, <2>2, <3>1 DEF FitInv, FactsFit
  <2>3. CASE ~Recorded(k)
    <3>1. k = Now
      <4>1. file'[k] # 0 /\ file[k] = 0
        BY <1>9, <2>0, <2>3 DEF Recorded
      <4>. QED BY <1>2, <2>0, <4>1
    <3>2. Recorded("POOL")
      <4>1. n = stage
        BY <1>1, <2>1, <3>1, PlacesApart DEF Now
      <4>. QED BY <1>1, <2>0, <2>1, <4>1, ScriptPlaces DEF LinesInv
    <3>3. Made(c, call)
      BY <1>1 DEF FitInv
    <3>. QED BY <1>1, <1>7, <2>0, <3>1, <3>2, <3>3 DEF Made
  <2>. QED BY <2>2, <2>3
<1>10. FitInv'
  <2>1. SUFFICES ASSUME NEW c \in {chain} \cup late
                 PROVE  ContractsFit(c)' /\ FactsFit(c)' /\ (stage' # 0 => Made(c, call)')
    BY <1>1 DEF FitInv
  <2>2. ContractsFit(c)'
    BY <1>8 DEF ContractsFit
  <2>3. FactsFit(c)'
    BY <1>9 DEF FactsFit
  <2>. QED BY <1>4, <2>2, <2>3
<1>. QED BY <1>3, <1>6, <1>10 DEF DeploymentInv

-----------------------------------------------------------------------------
(***************************************************************************)
(* The theorems.                                                           *)
(***************************************************************************)
\* The invariant is inductive, action by action.
LEMMA InvNext == ASSUME DeploymentConstantsOK, DeploymentInv, [Next]_vars PROVE DeploymentInv'
<1>1. CASE UNCHANGED vars
  <2>1. /\ file' = file /\ stage' = stage /\ call' = call /\ id' = id /\ tries' = tries
        /\ chain' = chain /\ late' = late /\ drawn' = drawn /\ faults' = faults /\ Now' = Now
    BY <1>1 DEF vars, run, Now
  <2>2. TypeOK' /\ LinesInv' /\ NameInv'
    BY <2>1 DEF DeploymentInv, TypeOK, IsChain, LinesInv, NameInv, Recorded, IdOf
  <2>3. FitInv'
    <3>1. \A c : ContractsFit(c) /\ FactsFit(c) => ContractsFit(c)' /\ FactsFit(c)'
      BY <2>1, FitsKept
    <3>2. \A c : Made(c, call) => Made(c, call)'
      BY <2>1 DEF Made, RefsOf, IdOf
    <3>. QED BY <2>1, <3>1, <3>2 DEF DeploymentInv, FitInv
  <2>. QED BY <2>2, <2>3 DEF DeploymentInv
<1>. QED BY <1>1, LaunchInv, RecordInv, CallInv, RejectedInv, CallFailsInv, GiveUpInv, LateLandsInv,
            KillInv DEF Next, RunStep

\* The inductive invariant, for any number of tries and of faults.
THEOREM DeploymentCorrect == Spec => []DeploymentInv
<1>1. Init => DeploymentInv
  BY InvInit, DeploymentConstantsOK
<1>2. DeploymentInv /\ [Next]_vars => DeploymentInv'
  BY InvNext, DeploymentConstantsOK
<1>. QED BY <1>1, <1>2, PTL DEF Spec

\* Every variable keeps its type.
THEOREM TypesKept == Spec => []TypeOK
<1>1. DeploymentInv => TypeOK
  BY DEF DeploymentInv
<1>. QED BY <1>1, DeploymentCorrect, PTL

\* However often the script fails, is killed and is run again, and whatever
\* lands late, the contracts in the file are deployed and were told of each
\* other, and what the file says was done was done to its pool.
THEOREM RecordedAlwaysFit == Spec => []RecordedFitTogether
<1>1. DeploymentInv => RecordedFitTogether
  <2>. SUFFICES ASSUME DeploymentInv PROVE RecordedFitTogether
    OBVIOUS
  <2>1. ContractsFit(chain) /\ FactsFit(chain) /\ LinesInv
    BY DEF DeploymentInv, FitInv
  <2>2. \A k \in DOMAIN LineFact : Recorded(k) => Recorded("POOL")
    BY <2>1, PoolBefore
  <2>. QED BY <2>1, <2>2, KeyNames DEF ContractsFit, FactsFit, RecordedFitTogether, Recorded
<1>. QED BY <1>1, DeploymentCorrect, PTL

=============================================================================
