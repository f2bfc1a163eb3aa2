-------------------------- MODULE LoadDriver_proofs --------------------------
(***************************************************************************)
(* Theorems about LoadDriver and LoadReport, for every plan, every number  *)
(* of drivers, attempts and faults and every choice of Hazards: driver     *)
(* processes that fail, are killed and started again, one at a time or on  *)
(* top of one another.                                                     *)
(***************************************************************************)
EXTENDS LoadReport, SequenceTheorems, FiniteSetTheorems, TLAPS

-----------------------------------------------------------------------------
(***************************************************************************)
(* Least and greatest numbers, and the scripts.                            *)
(***************************************************************************)
\* Min is the least element of a set of numbers, Max the greatest of a bounded one.
LEMMA LeastNumber ==
  ASSUME NEW T, T \subseteq Nat, T # {}
  PROVE  /\ Min(T) \in T
         /\ \A y \in T : Min(T) <= y
<1>1. PICK x \in T : \A y \in T : ~ (<<y, x>> \in OpToRel(<, Nat))
  BY NatLessThanWellFounded, WFMin
<1>2. \A y \in T : ~ (y < x)
  BY <1>1 DEF OpToRel
<1>3. \A y \in T : x <= y
  BY <1>2
<1>4. \E z \in T : \A y \in T : z <= y
  BY <1>3, Zenon
<1>. QED BY <1>4, Zenon DEF Min

LEMMA GreatestNumber ==
  ASSUME NEW n \in Nat, NEW T, T \subseteq 1..n, T # {}
  PROVE  /\ Max(T) \in T
         /\ \A y \in T : y <= Max(T)
<1>. DEFINE U == {n - y : y \in T}
<1>0. \A y \in T : y \in Nat /\ n - y \in Nat
  OBVIOUS
<1>1. U \subseteq Nat /\ U # {}
  BY <1>0
<1>2. PICK m \in U : \A u \in U : m <= u
  <2>. HIDE DEF U
  <2>. QED BY <1>1, LeastNumber
<1>3. PICK x \in T : m = n - x
  BY <1>2
<1>4. \A y \in T : n - x <= n - y
  BY <1>2, <1>3
<1>5. \A y \in T : x >= y
  BY <1>0, <1>4
<1>6. \E z \in T : \A y \in T : z >= y
  BY <1>5, Zenon
<1>7. Max(T) \in T /\ \A y \in T : Max(T) >= y
  BY <1>6, Zenon DEF Max
<1>. QED BY <1>7

LEMMA KindNames == Kinds = {"onboard", "faucet", "transfer", "unregister", "tick", "snapshot"}
BY DEF Kinds, Script

\* The steps of a script, by their places.
LEMMA ScriptSteps ==
  ASSUME NEW k \in Kinds
  PROVE  /\ DOMAIN Script[k] \subseteq 1..5
         /\ \A i, l \in DOMAIN Script[k] : Script[k][i] = Script[k][l] => i = l
         /\ \A i \in DOMAIN Script[k] :
              /\ Script[k][i] \notin {"bad", "final"}
              /\ Script[k][i] = "friendbot" <=> k = "onboard" /\ i = 1
              /\ Script[k][i] = "deploy" <=> k = "onboard" /\ i = 2
              /\ Script[k][i] = "tick" <=> k = "tick"
              /\ Script[k][i] \in Unmarked => k # "onboard"
         /\ k = "onboard" => 2 \in DOMAIN Script[k]
<1>1. CASE k = "onboard"
  BY <1>1 DEF Script, Unmarked
<1>2. CASE k = "faucet"
  BY <1>2 DEF Script, Unmarked
<1>3. CASE k = "transfer"
  BY <1>3 DEF Script, Unmarked
<1>4. CASE k = "unregister"
  BY <1>4 DEF Script, Unmarked
<1>5. CASE k = "tick"
  BY <1>5 DEF Script, Unmarked
<1>6. CASE k = "snapshot"
  BY <1>6 DEF Script, Unmarked
<1>. QED BY <1>1, <1>2, <1>3, <1>4, <1>5, <1>6, KindNames

LEMMA StepNames == \A s \in Steps : s \notin {"bad", "final"}
BY ScriptSteps DEF Steps, Range

\* The plan is a sequence of events, and every place of an event's script is a job.
LEMMA PlanFacts ==
  ASSUME PlanOK, NEW e \in Events
  PROVE  /\ e \in Nat /\ e # 0
         /\ Plan[e].kind \in Kinds
         /\ \A i \in DOMAIN ScriptOf(e) : /\ i \in 1..5 /\ ScriptOf(e)[i] \in Steps
                                          /\ <<e, ScriptOf(e)[i]>> \in Jobs
         /\ Events \subseteq Nat
<1>1. Plan \in Seq([kind : Kinds, wallet : Nat])
  BY DEF PlanOK
<1>2. Events = 1..Len(Plan) /\ Len(Plan) \in Nat
  BY <1>1 DEF Events
<1>3. Plan[e] \in [kind : Kinds, wallet : Nat]
  <2>1. e \in 1..Len(Plan)
    BY <1>2
  <2>. QED BY <1>1, <2>1, ElementOfSeq
<1>4. \A i \in DOMAIN ScriptOf(e) : ScriptOf(e)[i] \in Range(ScriptOf(e))
  BY DEF Range
<1>5. Range(ScriptOf(e)) \subseteq Steps
  BY <1>3 DEF Steps, ScriptOf
<1>6. DOMAIN ScriptOf(e) \subseteq 1..5
  BY <1>3, ScriptSteps DEF ScriptOf
<1>7. \A i \in DOMAIN ScriptOf(e) : <<e, ScriptOf(e)[i]>> \in Jobs
  BY <1>4, <1>5 DEF Jobs
<1>8. e \in Nat /\ e # 0 /\ Events \subseteq Nat
  BY <1>2
<1>9. \A i \in DOMAIN ScriptOf(e) : ScriptOf(e)[i] \in Steps
  BY <1>4, <1>5
<1>. QED BY <1>3, <1>6, <1>7, <1>8, <1>9

-----------------------------------------------------------------------------
(***************************************************************************)
(* Type correctness.                                                       *)
(***************************************************************************)
Working(d) == pc[d] \in {"send", "call", "checkpoint"}
InEvent    == {"begin", "send", "call", "checkpoint"} \cup Statuses

\* A driver in an event has some of the event's steps left while it works, and
\* none while it does not, unless the event failed.
ControlInv(d) ==
  /\ pc[d] \in InEvent => pos[d] \in Events
  /\ Working(d) => rest[d] # {} /\ rest[d] \subseteq DOMAIN ScriptOf(pos[d])
  /\ ~Working(d) /\ pc[d] # "failed" => rest[d] = {}
  /\ pc[d] = "checkpoint" => Job(d)[2] \notin Unmarked

\* The accounts of the records were deployed.
LinesMade ==
  /\ \A i \in DOMAIN log : log[i].acct <= accounts
  /\ \A d \in Drivers : \A i \in DOMAIN seen[d] : seen[d][i].acct <= accounts

ControlOK == \A d \in Drivers : ControlInv(d)
BaseInv == TypeOK /\ ControlOK /\ LinesMade

\* A step of a driver leaves the others alone.
OthersKept(d) ==
  \A x \in Drivers \ {d} :
    /\ pc'[x] = pc[x] /\ seen'[x] = seen[x] /\ finished'[x] = finished[x]
    /\ pos'[x] = pos[x] /\ rest'[x] = rest[x] /\ acct'[x] = acct[x]
    /\ tx'[x] = tx[x] /\ failures'[x] = failures[x]

LocalTypes ==
  /\ pc \in [Drivers -> Opening \cup Running \cup {"out"}]
  /\ seen \in [Drivers -> Seq(Lines)]
  /\ finished \in [Drivers -> SUBSET Events]
  /\ pos \in [Drivers -> Events \cup {0}]
  /\ rest \in [Drivers -> SUBSET (1..5)]
  /\ acct \in [Drivers -> 0..accounts] /\ tx \in [Drivers -> Nat]
  /\ failures \in [Drivers -> 0..Attempts - 1]

OtherTypes ==
  /\ lock \in Drivers \cup {NoDriver, EmptyLock}
  /\ meta \in {"none", "half", "whole"} /\ torn \in BOOLEAN
  /\ log \in Seq(Lines)
  /\ orphans \in [Jobs -> Nat] /\ effects \in [Jobs -> Nat] /\ unknown \in [Jobs -> Nat]
  /\ accounts \in Nat
  /\ asked \subseteq Jobs \X Nat
  /\ faults \in 0..MaxFaults

LEMMA TypesSplit == TypeOK <=> LocalTypes /\ OtherTypes
BY DEF TypeOK, LocalTypes, OtherTypes

\* The step under way is a job of the event.
LEMMA JobFacts ==
  ASSUME PlanOK, BaseInv, NEW d \in Drivers, Working(d)
  PROVE  /\ pos[d] \in Events
         /\ Min(rest[d]) \in rest[d] /\ \A y \in rest[d] : Min(rest[d]) <= y
         /\ Min(rest[d]) \in DOMAIN ScriptOf(pos[d])
         /\ Job(d) = <<pos[d], ScriptOf(pos[d])[Min(rest[d])]>>
         /\ Job(d) \in Jobs /\ Job(d)[1] = pos[d] /\ Job(d)[2] \in Steps
         /\ Job(d)[2] = ScriptOf(pos[d])[Min(rest[d])]
<1>1. pos[d] \in Events /\ rest[d] # {} /\ rest[d] \subseteq DOMAIN ScriptOf(pos[d])
  BY DEF BaseInv, ControlOK, ControlInv, Working, InEvent
<1>2. rest[d] \subseteq Nat
  <2>1. rest[d] \in SUBSET (1..5)
    BY DEF BaseInv, TypeOK
  <2>. QED BY <2>1
<1>3. Min(rest[d]) \in rest[d] /\ \A y \in rest[d] : Min(rest[d]) <= y
  BY <1>1, <1>2, LeastNumber
<1>4. Min(rest[d]) \in DOMAIN ScriptOf(pos[d])
  BY <1>1, <1>3
<1>5. Job(d) = <<pos[d], ScriptOf(pos[d])[Min(rest[d])]>>
  BY DEF Job
<1>6. /\ ScriptOf(pos[d])[Min(rest[d])] \in Steps
      /\ <<pos[d], ScriptOf(pos[d])[Min(rest[d])]>> \in Jobs
  BY <1>1, <1>4, PlanFacts
<1>7. Job(d) \in Jobs
  BY <1>5, <1>6
<1>8. Job(d)[1] = pos[d] /\ Job(d)[2] = ScriptOf(pos[d])[Min(rest[d])]
  BY <1>5
<1>. QED BY <1>1, <1>3, <1>4, <1>5, <1>6, <1>7, <1>8

\* A process that ends forgets.
LEMMA ForgetEffect ==
  ASSUME PlanOK, BaseInv, NEW d \in Drivers, Forget(d), accounts' = accounts
  PROVE  /\ LocalTypes' /\ OthersKept(d) /\ ControlInv(d)'
         /\ pc'[d] = "out" /\ rest'[d] = {} /\ seen'[d] = <<>>
<1>1. 0 \in 0..accounts /\ 0 \in 0..Attempts - 1
  BY DEF PlanOK, BaseInv, TypeOK
<1>2. LocalTypes'
  <2>1. pc' \in [Drivers -> Opening \cup Running \cup {"out"}]
    BY DEF Forget, Goto, BaseInv, TypeOK
  <2>2. <<>> \in Seq(Lines) /\ {} \in SUBSET Events /\ {} \in SUBSET (1..5) /\ 0 \in Nat
    OBVIOUS
  <2>3. seen' \in [Drivers -> Seq(Lines)]
    BY <2>2 DEF Forget, BaseInv, TypeOK
  <2>4. finished' \in [Drivers -> SUBSET Events] /\ rest' \in [Drivers -> SUBSET (1..5)]
    BY <2>2 DEF Forget, BaseInv, TypeOK
  <2>5. /\ pos' \in [Drivers -> Events \cup {0}] /\ acct' \in [Drivers -> 0..accounts]
        /\ tx' \in [Drivers -> Nat] /\ failures' \in [Drivers -> 0..Attempts - 1]
    BY <1>1 DEF Forget, BaseInv, TypeOK
  <2>. QED BY <2>1, <2>3, <2>4, <2>5 DEF LocalTypes
<1>3. /\ pc'[d] = "out" /\ rest'[d] = {} /\ seen'[d] = <<>>
      /\ OthersKept(d)
  BY DEF Forget, Goto, OthersKept, BaseInv, TypeOK
<1>4. ControlInv(d)'
  BY <1>3 DEF ControlInv, Working, InEvent, Statuses
<1>. QED BY <1>2, <1>3, <1>4

\* What the others do not change of a driver keeps it in order.
LEMMA ControlOthers ==
  ASSUME BaseInv, NEW d \in Drivers, OthersKept(d), ControlInv(d)'
  PROVE  ControlOK'
BY DEF BaseInv, ControlOK, OthersKept, ControlInv, Working, Job

\* What every step of a driver has to keep.
StepOK(d) == LocalTypes' /\ OtherTypes' /\ OthersKept(d) /\ ControlInv(d)' /\ LinesMade'

\* A process that ends by itself.
LEMMA ExitEffect ==
  ASSUME PlanOK, BaseInv, NEW d \in Drivers, Exit(d), accounts' = accounts
  PROVE  /\ LocalTypes' /\ OthersKept(d) /\ ControlInv(d)' /\ LinesMade'
         /\ lock' \in Drivers \cup {NoDriver, EmptyLock} /\ UNCHANGED <<meta, log, torn>>
         /\ pc'[d] = "out"
<1>1. /\ LocalTypes' /\ OthersKept(d) /\ ControlInv(d)' /\ seen'[d] = <<>>
      /\ pc'[d] = "out"
  BY ForgetEffect DEF Exit
<1>2. lock' \in Drivers \cup {NoDriver, EmptyLock} /\ UNCHANGED <<meta, log, torn>>
  BY DEF Exit, BaseInv, TypeOK
<1>3. LinesMade'
  BY <1>1, <1>2 DEF LinesMade, BaseInv, OthersKept
<1>. QED BY <1>1, <1>2, <1>3

\* No line is new.
LEMMA LinesKept ==
  ASSUME LinesMade, log' = log, accounts' = accounts,
         \A x \in Drivers : seen'[x] = seen[x] \/ seen'[x] = <<>>
  PROVE  LinesMade'
<1>1. \A x \in Drivers : \A i \in DOMAIN seen'[x] : seen'[x][i].acct <= accounts'
  <2>. SUFFICES ASSUME NEW x \in Drivers, NEW i \in DOMAIN seen'[x]
                PROVE  seen'[x][i].acct <= accounts'
    OBVIOUS
  <2>1. seen'[x] = seen[x]
    OBVIOUS
  <2>. QED BY <2>1 DEF LinesMade
<1>. QED BY <1>1 DEF LinesMade

LEMMA OpeningOK ==
  ASSUME PlanOK, BaseInv, NEW d \in Drivers,
         Start(d) \/ Open(d) \/ Trim(d) \/ CheckLock(d) \/ WriteLock(d)
  PROVE  StepOK(d)
<1>. USE DEF BaseInv, TypeOK, LocalTypes, OtherTypes, StepOK
<1>1. CASE Start(d)
  <2>1. pc' = [pc EXCEPT ![d] = "open"] /\ pc[d] = "out"
    BY <1>1 DEF Start, Goto
  <2>2. pc' \in [Drivers -> Opening \cup Running \cup {"out"}]
    BY <2>1 DEF Opening
  <2>3. LocalTypes' /\ OtherTypes' /\ LinesMade'
    BY <1>1, <2>2 DEF Start, files, server, history, LinesMade
  <2>4. OthersKept(d)
    BY <1>1, <2>1 DEF Start, OthersKept
  <2>5. ControlInv(d)'
    BY <1>1, <2>1 DEF Start, ControlOK, ControlInv, Working, InEvent, Statuses
  <2>. QED BY <2>3, <2>4, <2>5
<1>2. CASE Open(d)
  <2>1. pc' = [pc EXCEPT ![d] = IF torn THEN "trim" ELSE "checkLock"] /\ pc[d] = "open"
        /\ seen' = [seen EXCEPT ![d] = IF torn THEN log ELSE <<>>]
    BY <1>2 DEF Open, Goto
  <2>2. pc' \in [Drivers -> Opening \cup Running \cup {"out"}]
    BY <2>1 DEF Opening
  <2>3. seen' \in [Drivers -> Seq(Lines)]
    BY <2>1
  <2>4. LocalTypes' /\ OtherTypes'
    BY <1>2, <2>2, <2>3 DEF Open, files, server, history
  <2>5. OthersKept(d)
    BY <1>2, <2>1 DEF Open, OthersKept
  <2>6. ControlInv(d)'
    BY <1>2, <2>1 DEF Open, ControlOK, ControlInv, Working, InEvent, Statuses
  <2>7. LinesMade'
    <3>1. seen'[d] = log \/ seen'[d] = <<>>
      BY <2>1
    <3>2. \A i \in DOMAIN seen'[d] : seen'[d][i].acct <= accounts
      BY <3>1 DEF LinesMade
    <3>. QED BY <1>2, <2>5, <3>2 DEF Open, OthersKept, LinesMade, files, server
  <2>. QED BY <2>4, <2>5, <2>6, <2>7
<1>3. CASE Trim(d)
  <2>1. pc' = [pc EXCEPT ![d] = "checkLock"] /\ pc[d] = "trim" /\ log' = seen[d]
        /\ seen' = [seen EXCEPT ![d] = <<>>]
    BY <1>3 DEF Trim, Goto, Cut
  <2>2. pc' \in [Drivers -> Opening \cup Running \cup {"out"}]
    BY <2>1 DEF Opening
  <2>3. seen' \in [Drivers -> Seq(Lines)] /\ log' \in Seq(Lines)
    BY <2>1
  <2>4. LocalTypes' /\ OtherTypes'
    BY <1>3, <2>2, <2>3 DEF Trim, server, history
  <2>5. OthersKept(d)
    BY <1>3, <2>1 DEF Trim, OthersKept
  <2>6. ControlInv(d)'
    BY <1>3, <2>1 DEF Trim, ControlOK, ControlInv, Working, InEvent, Statuses
  <2>7. LinesMade'
    <3>1. seen'[d] = <<>> /\ accounts' = accounts
      BY <1>3, <2>1 DEF Trim, server
    <3>. QED BY <2>1, <2>5, <3>1 DEF OthersKept, LinesMade
  <2>. QED BY <2>4, <2>5, <2>6, <2>7
<1>4. CASE CheckLock(d)
  <2>1. CASE Forget(d)
    <3>1. /\ LocalTypes' /\ OthersKept(d) /\ ControlInv(d)' /\ seen'[d] = <<>>
      BY <1>4, <2>1, ForgetEffect DEF CheckLock, server
    <3>2. UNCHANGED <<lock, meta, log, torn, orphans, effects, accounts, asked, unknown, faults>>
      BY <1>4 DEF CheckLock, files, server, history
    <3>3. OtherTypes'
      BY <3>2
    <3>4. \A x \in Drivers : seen'[x] = seen[x] \/ seen'[x] = <<>>
      BY <3>1 DEF OthersKept
    <3>5. LinesMade'
      BY <3>2, <3>4, LinesKept
    <3>. QED BY <3>1, <3>3, <3>5
  <2>2. CASE ~Forget(d)
    <3>1. pc' = [pc EXCEPT ![d] = "writeLock"] /\ pc[d] = "checkLock"
          /\ UNCHANGED <<seen, finished, pos, rest, acct, tx, failures, files, server, history>>
      BY <1>4, <2>2 DEF CheckLock, Goto
    <3>2. pc' \in [Drivers -> Opening \cup Running \cup {"out"}]
      BY <3>1 DEF Opening
    <3>3. LocalTypes' /\ OtherTypes' /\ LinesMade'
      BY <3>1, <3>2 DEF files, server, history, LinesMade
    <3>4. OthersKept(d) /\ ControlInv(d)'
      BY <3>1 DEF OthersKept, ControlOK, ControlInv, Working, InEvent, Statuses
    <3>. QED BY <3>3, <3>4
  <2>. QED BY <2>1, <2>2
<1>5. CASE WriteLock(d)
  <2>1. pc' = [pc EXCEPT ![d] = "mode"] /\ pc[d] = "writeLock" /\ lock' = d
    BY <1>5 DEF WriteLock, Goto
  <2>2. pc' \in [Drivers -> Opening \cup Running \cup {"out"}]
    BY <2>1 DEF Running
  <2>3. LocalTypes' /\ OtherTypes' /\ LinesMade'
    BY <1>5, <2>1, <2>2 DEF WriteLock, server, history, LinesMade
  <2>4. OthersKept(d)
    BY <1>5, <2>1 DEF WriteLock, OthersKept
  <2>5. ControlInv(d)'
    BY <1>5, <2>1 DEF WriteLock, ControlOK, ControlInv, Working, InEvent, Statuses
  <2>. QED BY <2>3, <2>4, <2>5
<1>. QED BY <1>1, <1>2, <1>3, <1>4, <1>5

LEMMA StartingOK ==
  ASSUME PlanOK, BaseInv, NEW d \in Drivers, Mode(d) \/ BadMeta(d) \/ ProbeFails(d) \/ ReadPlan(d)
  PROVE  StepOK(d)
<1>. USE DEF BaseInv, TypeOK, LocalTypes, OtherTypes, StepOK
<1>1. faults' \in 0..MaxFaults /\ UNCHANGED <<server, asked, unknown>>
  BY DEF Mode, BadMeta, ProbeFails, ReadPlan, Fault, history, PlanOK
<1>2. CASE Exit(d)
  <2>1. accounts' = accounts
    BY <1>1 DEF server
  <2>2. /\ LocalTypes' /\ OthersKept(d) /\ ControlInv(d)' /\ LinesMade'
        /\ lock' \in Drivers \cup {NoDriver, EmptyLock} /\ UNCHANGED <<meta, log, torn>>
    BY <1>2, <2>1, ExitEffect
  <2>3. OtherTypes'
    BY <1>1, <2>2 DEF server
  <2>. QED BY <2>2, <2>3
<1>3. CASE Mode(d) /\ ~Exit(d)
  <2>1. pc' = [pc EXCEPT ![d] = "plan"] /\ pc[d] = "mode" /\ meta' = "whole"
        /\ UNCHANGED <<lock, log, torn, seen, finished, pos, rest, acct, tx, failures>>
    BY <1>3 DEF Mode, Goto
  <2>2. pc' \in [Drivers -> Opening \cup Running \cup {"out"}]
    BY <2>1 DEF Running
  <2>3. LocalTypes' /\ OtherTypes' /\ LinesMade'
    BY <1>1, <2>1, <2>2 DEF server, LinesMade
  <2>4. OthersKept(d) /\ ControlInv(d)'
    BY <2>1 DEF OthersKept, ControlOK, ControlInv, Working, InEvent, Statuses
  <2>. QED BY <2>3, <2>4
<1>4. CASE ReadPlan(d) /\ ~Exit(d)
  <2>1. pc' = [pc EXCEPT ![d] = "walk"] /\ pc[d] = "plan"
        /\ finished' = [finished EXCEPT ![d] = Finished] /\ Readable
        /\ UNCHANGED <<files, seen, pos, rest, acct, tx, failures>>
    BY <1>4 DEF ReadPlan, Goto
  <2>2. pc' \in [Drivers -> Opening \cup Running \cup {"out"}]
    BY <2>1 DEF Running
  <2>3. Finished \subseteq Events
    <3>1. \A i \in DOMAIN log : log[i] \in Lines /\ log[i] # Bad
      BY <2>1 DEF Readable
    <3>. QED BY <3>1 DEF Finished, Lines, StepRecords, EventRecords
  <2>4. LocalTypes' /\ OtherTypes' /\ LinesMade'
    BY <1>1, <2>1, <2>2, <2>3 DEF files, server, LinesMade
  <2>5. OthersKept(d) /\ ControlInv(d)'
    BY <2>1 DEF OthersKept, ControlOK, ControlInv, Working, InEvent, Statuses
  <2>. QED BY <2>4, <2>5
<1>. QED BY <1>2, <1>3, <1>4 DEF BadMeta, ProbeFails

LEMMA WalkOK ==
  ASSUME PlanOK, BaseInv, NEW d \in Drivers, Walk(d)
  PROVE  StepOK(d)
<1>. USE DEF BaseInv, TypeOK, LocalTypes, OtherTypes, StepOK
<1>1. UNCHANGED <<server, history>>
  BY DEF Walk
<1>2. CASE Exit(d)
  <2>1. accounts' = accounts
    BY <1>1 DEF server
  <2>2. /\ LocalTypes' /\ OthersKept(d) /\ ControlInv(d)' /\ LinesMade'
        /\ lock' \in Drivers \cup {NoDriver, EmptyLock} /\ UNCHANGED <<meta, log, torn>>
    BY <1>2, <2>1, ExitEffect
  <2>3. OtherTypes'
    BY <1>1, <2>2 DEF server, history
  <2>. QED BY <2>2, <2>3
<1>3. CASE ~Exit(d)
  <2>1. pc' = [pc EXCEPT ![d] = "begin"] /\ pc[d] = "walk" /\ Ahead(d) # {}
        /\ pos' = [pos EXCEPT ![d] = Min(Ahead(d))]
        /\ UNCHANGED <<files, seen, finished, rest, acct, tx, failures>>
    BY <1>3 DEF Walk, Goto
  <2>2. Ahead(d) \subseteq Events
    BY DEF Ahead
  <2>3. Min(Ahead(d)) \in Events
    BY <2>1, <2>2, PlanFacts, LeastNumber
  <2>4. pc' \in [Drivers -> Opening \cup Running \cup {"out"}]
    BY <2>1 DEF Running
  <2>5. LocalTypes' /\ OtherTypes'
    BY <1>1, <2>1, <2>3, <2>4 DEF files, server, history
  <2>6. OthersKept(d) /\ LinesMade'
    BY <1>1, <2>1 DEF OthersKept, LinesMade, files, server
  <2>7. ControlInv(d)'
    BY <2>1, <2>3 DEF ControlOK, ControlInv, Working, InEvent, Statuses
  <2>. QED BY <2>5, <2>6, <2>7
<1>. QED BY <1>2, <1>3

\* The accounts read from the log.
LEMMA LogAccounts ==
  ASSUME BaseInv
  PROVE  /\ \A e : DeployOf(e) \in 0..accounts
         /\ \A w : AccountOf(w) \in 0..accounts
<1>1. Len(log) \in Nat /\ DOMAIN log = 1..Len(log)
  BY DEF BaseInv, TypeOK
<1>2. \A i \in DOMAIN log : log[i].acct \in Nat /\ log[i].acct <= accounts
  <2>1. \A i \in DOMAIN log : log[i] \in Lines
    BY DEF BaseInv, TypeOK
  <2>2. \A l \in Lines : l.acct \in Nat
    BY DEF Lines, StepRecords, EventRecords, Bad
  <2>. QED BY <2>1, <2>2 DEF BaseInv, LinesMade
<1>3. accounts \in Nat
  BY DEF BaseInv, TypeOK
<1>4. \A I \in SUBSET DOMAIN log : I # {} => log[Max(I)].acct \in 0..accounts
  <2>1. \A I \in SUBSET DOMAIN log : I # {} => Max(I) \in I
    BY <1>1, GreatestNumber
  <2>. QED BY <1>2, <1>3, <2>1
<1>5. ASSUME NEW e PROVE DeployOf(e) \in 0..accounts
  <2>. DEFINE I == {i \in RecordsOf(e) : log[i].step = "deploy"}
  <2>1. I \in SUBSET DOMAIN log
    BY DEF RecordsOf
  <2>2. DeployOf(e) = IF I = {} THEN 0 ELSE log[Max(I)].acct
    BY DEF DeployOf
  <2>. HIDE DEF I
  <2>. QED BY <1>3, <1>4, <2>1, <2>2
<1>6. ASSUME NEW w PROVE AccountOf(w) \in 0..accounts
  <2>. DEFINE I == {i \in DOMAIN log : /\ log[i].step = "final" /\ log[i].status = "ok"
                                       /\ Plan[log[i].ev] = [kind |-> "onboard", wallet |-> w]}
  <2>1. I \in SUBSET DOMAIN log
    OBVIOUS
  <2>2. AccountOf(w) = IF I = {} THEN 0 ELSE log[Max(I)].acct
    BY DEF AccountOf
  <2>. HIDE DEF I
  <2>. QED BY <1>3, <1>4, <2>1, <2>2
<1>. QED BY <1>5, <1>6

\* What an event begins with: it is over, or its account and its steps are known.
BeginsOver(d) ==
  /\ \E l \in Statuses : /\ pc' = [pc EXCEPT ![d] = l]
                         /\ l = "ok" => Plan[pos[d]].kind = "snapshot"
  /\ UNCHANGED <<rest, acct>>
BeginsTick(d) ==
  /\ Plan[pos[d]].kind = "tick"
  /\ rest' = [rest EXCEPT ![d] = DOMAIN ScriptOf(pos[d])]
  /\ pc' = [pc EXCEPT ![d] = "send"]
  /\ acct' = acct
BeginsSteps(d) ==
  LET e == pos[d]
      a == IF Plan[e].kind = "onboard" THEN DeployOf(e) ELSE AccountOf(Plan[e].wallet) IN
  /\ Plan[e].kind \notin {"tick", "snapshot"}
  /\ Readable
  /\ Plan[e].kind # "onboard" => a # 0
  /\ acct' = [acct EXCEPT ![d] = a]
  /\ rest' = [rest EXCEPT ![d] = StepsLeft(e)]
  /\ pc' = [pc EXCEPT ![d] = IF StepsLeft(e) = {} THEN "ok" ELSE "send"]

LEMMA BeginCases ==
  ASSUME NEW d \in Drivers, Begin(d)
  PROVE  /\ BeginsOver(d) \/ BeginsTick(d) \/ BeginsSteps(d)
         /\ pc[d] = "begin"
         /\ UNCHANGED <<files, seen, finished, pos, tx, failures, server, history>>
<1>1. CASE Plan[pos[d]].kind = "tick"
  BY <1>1 DEF Begin, Goto, BeginsTick, ScriptOf
<1>2. CASE Plan[pos[d]].kind = "snapshot"
  BY <1>2 DEF Begin, Goto, BeginsOver, Statuses
<1>3. CASE Plan[pos[d]].kind \notin {"tick", "snapshot"}
  BY <1>3 DEF Begin, Goto, BeginsOver, BeginsSteps, Statuses
<1>. QED BY <1>1, <1>2, <1>3

LEMMA BeginOK ==
  ASSUME PlanOK, BaseInv, NEW d \in Drivers, Begin(d)
  PROVE  StepOK(d)
<1>. DEFINE e == pos[d]
<1>. USE DEF BaseInv, TypeOK, LocalTypes, OtherTypes, StepOK
<1>1. pc[d] = "begin" /\ UNCHANGED <<files, seen, finished, pos, tx, failures, server, history>>
  BY BeginCases
<1>2. e \in Events /\ rest[d] = {}
  BY <1>1 DEF ControlOK, ControlInv, Working, InEvent
<1>3. OtherTypes' /\ accounts' = accounts
  BY <1>1 DEF files, server, history
<1>4. CASE BeginsOver(d)
  <2>1. pc' \in [Drivers -> Opening \cup Running \cup {"out"}] /\ pc'[d] \in Statuses
        /\ UNCHANGED <<rest, acct>>
    BY <1>4 DEF BeginsOver, Running, Statuses
  <2>2. LocalTypes' /\ LinesMade'
    BY <1>1, <2>1 DEF LinesMade, files, server
  <2>3. OthersKept(d)
    BY <1>1, <1>4 DEF BeginsOver, OthersKept
  <2>4. ControlInv(d)'
    BY <1>1, <1>2, <2>1 DEF ControlInv, Working, InEvent, Statuses
  <2>. QED BY <1>3, <2>2, <2>3, <2>4
<1>5. ASSUME NEW R \in SUBSET DOMAIN ScriptOf(e), NEW a \in 0..accounts,
             acct' = [acct EXCEPT ![d] = a], rest' = [rest EXCEPT ![d] = R],
             pc' = [pc EXCEPT ![d] = IF R = {} THEN "ok" ELSE "send"]
      PROVE  StepOK(d)
  <2>1. pc' \in [Drivers -> Opening \cup Running \cup {"out"}]
    BY <1>5 DEF Running
  <2>2. R \in SUBSET (1..5)
    BY <1>2, PlanFacts
  <2>3. LocalTypes' /\ LinesMade'
    BY <1>1, <1>3, <1>5, <2>1, <2>2 DEF LinesMade, files
  <2>4. OthersKept(d)
    BY <1>1, <1>5 DEF OthersKept
  <2>5. ControlInv(d)'
    BY <1>1, <1>2, <1>5 DEF ControlInv, Working, InEvent, Statuses
  <2>. QED BY <1>3, <2>3, <2>4, <2>5
<1>6. CASE BeginsTick(d)
  <2>1. DOMAIN ScriptOf(e) # {}
    <3>1. ScriptOf(e) = Script["tick"]
      BY <1>6 DEF BeginsTick, ScriptOf
    <3>2. 1 \in DOMAIN Script["tick"]
      BY DEF Script
    <3>. QED BY <3>1, <3>2
  <2>2. acct' = [acct EXCEPT ![d] = acct[d]] /\ acct[d] \in 0..accounts
    BY <1>6 DEF BeginsTick
  <2>. QED BY <1>5, <1>6, <2>1, <2>2 DEF BeginsTick
<1>7. CASE BeginsSteps(d)
  <2>1. StepsLeft(e) \in SUBSET DOMAIN ScriptOf(e)
    BY DEF StepsLeft
  <2>. DEFINE a == IF Plan[e].kind = "onboard" THEN DeployOf(e) ELSE AccountOf(Plan[e].wallet)
  <2>2. a \in 0..accounts
    BY LogAccounts
  <2>. QED BY <1>5, <1>7, <2>1, <2>2 DEF BeginsSteps
<1>. QED BY <1>4, <1>6, <1>7, BeginCases

\* The server does a job: its number grows, and a deploy makes a new account.
LEMMA DoJobEffect ==
  ASSUME BaseInv, NEW j \in Jobs, DoJob(j)
  PROVE  /\ effects' \in [Jobs -> Nat] /\ accounts' \in Nat /\ accounts <= accounts'
         /\ j[2] = "deploy" => accounts' # 0
         /\ \A k \in Jobs : effects'[k] = IF k = j THEN effects[k] + 1 ELSE effects[k]
<1>1. effects \in [Jobs -> Nat] /\ accounts \in Nat
  BY DEF BaseInv, TypeOK
<1>2. /\ effects' = [effects EXCEPT ![j] = effects[j] + 1]
      /\ accounts' = IF j[2] = "deploy" THEN accounts + 1 ELSE accounts
  BY DEF DoJob
<1>3. accounts' \in Nat /\ accounts <= accounts' /\ (j[2] = "deploy" => accounts' # 0)
  BY <1>1, <1>2
<1>4. /\ effects' \in [Jobs -> Nat]
      /\ \A k \in Jobs : effects'[k] = IF k = j THEN effects[k] + 1 ELSE effects[k]
  BY <1>1, <1>2
<1>. QED BY <1>3, <1>4

\* Retrying: another try, or the event has failed.
LEMMA RetryEffect ==
  ASSUME PlanOK, BaseInv, NEW d \in Drivers, Retry(d)
  PROVE  /\ failures' \in [Drivers -> 0..Attempts - 1]
         /\ \A x \in Drivers \ {d} : failures'[x] = failures[x]
         /\ \E l \in {"send", "failed"} : pc' = [pc EXCEPT ![d] = l]
<1>1. failures[d] \in Nat /\ Attempts \in Nat /\ Attempts # 0
  BY DEF PlanOK, BaseInv, TypeOK
<1>2. \/ failures' = [failures EXCEPT ![d] = failures[d] + 1] /\ failures[d] + 1 < Attempts
      \/ failures' = [failures EXCEPT ![d] = 0]
  BY DEF Retry
<1>3. failures' \in [Drivers -> 0..Attempts - 1]
  <2>1. 0 \in 0..Attempts - 1 /\ (failures[d] + 1 < Attempts => failures[d] + 1 \in 0..Attempts - 1)
    BY <1>1
  <2>2. failures \in [Drivers -> 0..Attempts - 1]
    BY DEF BaseInv, TypeOK
  <2>. QED BY <1>2, <2>1, <2>2
<1>4. \A x \in Drivers \ {d} : failures'[x] = failures[x]
  BY <1>2 DEF BaseInv, TypeOK
<1>. QED BY <1>3, <1>4 DEF Retry, Goto

\* Going on to the next step: the first one left is gone.
LEMMA NextStepEffect ==
  ASSUME PlanOK, BaseInv, NEW d \in Drivers, Working(d), NextStep(d)
  PROVE  /\ rest' \in [Drivers -> SUBSET (1..5)]
         /\ rest' = [rest EXCEPT ![d] = rest[d] \ {Min(rest[d])}]
         /\ pc' = [pc EXCEPT ![d] = IF rest'[d] = {} THEN "ok" ELSE "send"]
<1>1. Min(rest[d]) \in rest[d]
  BY JobFacts
<1>2. rest' = [rest EXCEPT ![d] = rest[d] \ {Min(rest[d])}]
  BY DEF NextStep
<1>3. rest' \in [Drivers -> SUBSET (1..5)] /\ rest'[d] = rest[d] \ {Min(rest[d])}
  BY <1>2 DEF BaseInv, TypeOK
<1>4. rest'[d] = {} <=> rest[d] = {Min(rest[d])}
  BY <1>1, <1>3
<1>. QED BY <1>2, <1>3, <1>4 DEF NextStep, Goto

LEMMA SendOK ==
  ASSUME PlanOK, BaseInv, NEW d \in Drivers, Send(d)
  PROVE  StepOK(d)
<1>. USE DEF BaseInv, TypeOK, LocalTypes, OtherTypes, StepOK
<1>1. pc' = [pc EXCEPT ![d] = "call"] /\ pc[d] = "send" /\ asked' = asked \cup {<<Job(d), acct[d]>>}
      /\ UNCHANGED <<files, seen, finished, pos, rest, acct, tx, failures, server, unknown, faults>>
  BY DEF Send, Goto
<1>2. Job(d) \in Jobs /\ acct[d] \in Nat
  <2>1. Job(d) \in Jobs
    BY <1>1, JobFacts DEF Working
  <2>2. acct[d] \in 0..accounts
    OBVIOUS
  <2>. QED BY <2>1, <2>2
<1>3. pc' \in [Drivers -> Opening \cup Running \cup {"out"}]
  BY <1>1 DEF Running
<1>4. asked' \subseteq Jobs \X Nat
  BY <1>1, <1>2
<1>5. LocalTypes' /\ OtherTypes'
  BY <1>1, <1>3, <1>4 DEF files, server
<1>6. OthersKept(d) /\ LinesMade'
  BY <1>1 DEF OthersKept, LinesMade, files, server
<1>7. ControlInv(d)'
  BY <1>1 DEF ControlOK, ControlInv, Working, InEvent, Statuses
<1>. QED BY <1>5, <1>6, <1>7

LEMMA AnswerOK ==
  ASSUME PlanOK, BaseInv, NEW d \in Drivers, Answer(d)
  PROVE  StepOK(d)
<1>. USE DEF BaseInv, TypeOK, LocalTypes, OtherTypes, StepOK
<1>1. pc[d] = "call" /\ UNCHANGED <<files, seen, finished, pos, orphans, history>>
      /\ failures' = [failures EXCEPT ![d] = 0]
  BY DEF Answer
<1>2. Working(d) /\ Job(d) \in Jobs
  BY <1>1, JobFacts DEF Working
<1>3. /\ effects' \in [Jobs -> Nat] /\ accounts' \in Nat /\ accounts <= accounts'
  <2>1. CASE DoJob(Job(d))
    BY <1>2, <2>1, DoJobEffect
  <2>2. CASE UNCHANGED <<effects, accounts>>
    BY <2>2
  <2>. QED BY <2>1, <2>2 DEF Answer
<1>4. \E a \in 0..accounts' : acct' = [acct EXCEPT ![d] = a]
  <2>1. acct[d] \in 0..accounts' /\ accounts' \in 0..accounts'
    BY <1>3
  <2>. QED BY <2>1 DEF Answer
<1>5. \E n \in Nat : tx' = [tx EXCEPT ![d] = n]
  BY <1>2, <1>3 DEF Answer
<1>6. acct' \in [Drivers -> 0..accounts'] /\ tx' \in [Drivers -> Nat]
  <2>1. 0..accounts \subseteq 0..accounts'
    BY <1>3
  <2>. QED BY <1>4, <1>5, <2>1
<1>7. failures' \in [Drivers -> 0..Attempts - 1]
  <2>1. 0 \in 0..Attempts - 1
    BY DEF PlanOK
  <2>. QED BY <1>1, <2>1
<1>8. /\ rest' \in [Drivers -> SUBSET (1..5)]
      /\ pc' \in [Drivers -> Opening \cup Running \cup {"out"}]
      /\ \A x \in Drivers \ {d} : pc'[x] = pc[x] /\ rest'[x] = rest[x]
      /\ ControlInv(d)'
  <2>0. pos[d] \in Events /\ rest[d] # {} /\ rest[d] \subseteq DOMAIN ScriptOf(pos[d])
        /\ pos'[d] = pos[d]
    BY <1>1, <1>2 DEF ControlOK, ControlInv, InEvent
  <2>1. CASE NextStep(d)
    <3>1. /\ rest' \in [Drivers -> SUBSET (1..5)]
          /\ rest' = [rest EXCEPT ![d] = rest[d] \ {Min(rest[d])}]
          /\ pc' = [pc EXCEPT ![d] = IF rest'[d] = {} THEN "ok" ELSE "send"]
      BY <1>2, <2>1, NextStepEffect
    <3>2. ControlInv(d)'
      BY <2>0, <3>1 DEF ControlInv, Working, InEvent, Statuses
    <3>. QED BY <3>1, <3>2 DEF Running
  <2>2. CASE ~NextStep(d)
    <3>1. pc' = [pc EXCEPT ![d] = "checkpoint"] /\ rest' = rest /\ Job(d)[2] \notin Unmarked
      BY <2>2 DEF Answer, Goto
    <3>2. Job(d)' = Job(d)
      BY <1>1, <3>1 DEF Job
    <3>3. ControlInv(d)'
      BY <2>0, <3>1, <3>2 DEF ControlInv, Working, InEvent, Statuses
    <3>. QED BY <3>1, <3>3 DEF Running
  <2>. QED BY <2>1, <2>2
<1>9. LocalTypes' /\ OtherTypes'
  BY <1>1, <1>3, <1>6, <1>7, <1>8 DEF files, history
<1>10. OthersKept(d)
  BY <1>1, <1>4, <1>5, <1>8 DEF OthersKept
<1>11. LinesMade'
  <2>1. \A l \in Lines : l.acct \in Nat
    BY DEF Lines, StepRecords, EventRecords, Bad
  <2>2. /\ \A i \in DOMAIN log : log[i].acct \in Nat
        /\ \A x \in Drivers : \A i \in DOMAIN seen[x] : seen[x][i].acct \in Nat
    BY <2>1
  <2>3. log' = log /\ seen' = seen
    BY <1>1 DEF files
  <2>4. accounts \in Nat /\ \A n \in Nat : n <= accounts => n <= accounts'
    BY <1>3
  <2>5. \A i \in DOMAIN log : log[i].acct <= accounts'
    BY <2>2, <2>4 DEF LinesMade
  <2>6. \A x \in Drivers : \A i \in DOMAIN seen[x] : seen[x][i].acct <= accounts'
    BY <2>2, <2>4 DEF LinesMade
  <2>. QED BY <2>3, <2>5, <2>6 DEF LinesMade
<1>. QED BY <1>8, <1>9, <1>10, <1>11

\* A request that nobody waits for any more.
LEMMA AbandonEffect ==
  ASSUME BaseInv, NEW j \in Jobs, Abandon(j)
  PROVE  /\ orphans' \in [Jobs -> Nat] /\ unknown' \in [Jobs -> Nat]
         /\ orphans'[j] = orphans[j] + 1 /\ unknown'[j] = unknown[j] + 1
         /\ \A k \in Jobs \ {j} : orphans'[k] = orphans[k] /\ unknown'[k] = unknown[k]
BY DEF Abandon, BaseInv, TypeOK

LEMMA FailuresOK ==
  ASSUME PlanOK, BaseInv, NEW d \in Drivers, Refused(d) \/ RefusedForGood(d) \/ Lost(d)
  PROVE  StepOK(d)
<1>1. pc[d] = "call" /\ Fault
      /\ UNCHANGED <<files, seen, finished, pos, rest, acct, tx, effects, accounts, asked>>
  BY DEF Refused, RefusedForGood, Lost, server
<1>2. Working(d) /\ Job(d) \in Jobs
  BY <1>1, JobFacts DEF Working
<1>3. /\ failures' \in [Drivers -> 0..Attempts - 1]
      /\ \A x \in Drivers \ {d} : failures'[x] = failures[x]
      /\ \E l \in {"send", "failed"} : pc' = [pc EXCEPT ![d] = l]
  <2>1. CASE Retry(d)
    BY <2>1, RetryEffect
  <2>2. CASE RefusedForGood(d)
    <3>1. failures' = [failures EXCEPT ![d] = 0] /\ pc' = [pc EXCEPT ![d] = "failed"]
      BY <2>2 DEF RefusedForGood, Goto
    <3>2. 0 \in 0..Attempts - 1
      BY DEF PlanOK
    <3>. QED BY <3>1, <3>2 DEF BaseInv, TypeOK
  <2>. QED BY <2>1, <2>2 DEF Refused, Lost
<1>4. orphans' \in [Jobs -> Nat] /\ unknown' \in [Jobs -> Nat]
  <2>1. CASE Lost(d)
    BY <1>2, <2>1, AbandonEffect DEF Lost
  <2>2. CASE Refused(d) \/ RefusedForGood(d)
    BY <2>2 DEF Refused, RefusedForGood, server, BaseInv, TypeOK
  <2>. QED BY <2>1, <2>2
<1>5. faults' \in 0..MaxFaults
  BY <1>1 DEF Fault, PlanOK, BaseInv, TypeOK
<1>6. pc' \in [Drivers -> Opening \cup Running \cup {"out"}]
  BY <1>3 DEF Running, BaseInv, TypeOK
<1>7. LocalTypes'
  BY <1>1, <1>3, <1>6 DEF LocalTypes, BaseInv, TypeOK
<1>8. OtherTypes'
  BY <1>1, <1>4, <1>5 DEF OtherTypes, BaseInv, TypeOK, files
<1>9. OthersKept(d)
  BY <1>1, <1>3 DEF OthersKept
<1>10. LinesMade'
  BY <1>1, LinesKept DEF BaseInv, files
<1>11. ControlInv(d)'
  BY <1>1, <1>3 DEF BaseInv, TypeOK, ControlOK, ControlInv, Working, InEvent, Statuses
<1>. QED BY <1>7, <1>8, <1>9, <1>10, <1>11 DEF StepOK

\* Appending a line that is well-formed.
LEMMA AppendEffect ==
  ASSUME BaseInv, NEW rec \in Lines, rec.acct <= accounts, AppendLine(rec), accounts' = accounts,
         UNCHANGED seen
  PROVE  /\ log' \in Seq(Lines) /\ torn' = FALSE /\ LinesMade'
         /\ Len(log') = Len(log) + 1 /\ DOMAIN log' = 1..Len(log) + 1
         /\ \A i \in DOMAIN log : log'[i] = log[i]
         /\ log'[Len(log) + 1] = IF torn THEN Bad ELSE rec
<1>. DEFINE new == IF torn THEN Bad ELSE rec
<1>1. new \in Lines /\ new.acct <= accounts /\ log \in Seq(Lines) /\ accounts \in Nat
  BY DEF Lines, Bad, BaseInv, TypeOK
<1>2. log' = Append(log, new) /\ torn' = FALSE
  BY DEF AppendLine
<1>. HIDE DEF new
<1>3. /\ log' \in Seq(Lines) /\ Len(log') = Len(log) + 1 /\ DOMAIN log' = 1..Len(log) + 1
      /\ \A i \in 1..Len(log) : log'[i] = log[i]
      /\ log'[Len(log) + 1] = new
  BY <1>1, <1>2, AppendProperties
<1>4. DOMAIN log = 1..Len(log) /\ Len(log) \in Nat
  BY <1>1
<1>5. \A i \in DOMAIN log' : i \in DOMAIN log \/ i = Len(log) + 1
  BY <1>3, <1>4
<1>6. \A i \in DOMAIN log' : log'[i].acct <= accounts'
  BY <1>1, <1>3, <1>4, <1>5 DEF BaseInv, LinesMade
<1>7. LinesMade'
  BY <1>6 DEF BaseInv, LinesMade
<1>. QED BY <1>2, <1>3, <1>4, <1>7 DEF new

LEMMA CheckpointOK ==
  ASSUME PlanOK, BaseInv, NEW d \in Drivers, Checkpoint(d)
  PROVE  StepOK(d)
<1>. DEFINE rec == [ev |-> pos[d], step |-> Job(d)[2], status |-> "ok",
                    acct |-> acct[d], tx |-> tx[d]]
<1>1. pc[d] = "checkpoint" /\ AppendLine(rec) /\ tx' = [tx EXCEPT ![d] = 0] /\ NextStep(d)
      /\ UNCHANGED <<lock, meta, seen, finished, pos, acct, failures, server, history>>
  BY DEF Checkpoint
<1>2. Working(d) /\ pos[d] \in Events /\ Job(d)[2] \in Steps
  BY <1>1, JobFacts DEF Working
<1>3. acct[d] \in Nat /\ acct[d] <= accounts /\ tx[d] \in Nat
  BY DEF BaseInv, TypeOK
<1>4. rec \in Lines /\ rec.acct <= accounts
  BY <1>2, <1>3 DEF Lines, StepRecords
<1>5. log' \in Seq(Lines) /\ torn' = FALSE /\ LinesMade'
  <2>. HIDE DEF rec
  <2>. QED BY <1>1, <1>4, AppendEffect DEF server
<1>6. /\ rest' \in [Drivers -> SUBSET (1..5)]
      /\ rest' = [rest EXCEPT ![d] = rest[d] \ {Min(rest[d])}]
      /\ pc' = [pc EXCEPT ![d] = IF rest'[d] = {} THEN "ok" ELSE "send"]
  BY <1>1, <1>2, NextStepEffect
<1>7. pc' \in [Drivers -> Opening \cup Running \cup {"out"}]
  BY <1>6 DEF Running, BaseInv, TypeOK
<1>8. LocalTypes'
  BY <1>1, <1>6, <1>7 DEF LocalTypes, BaseInv, TypeOK, server
<1>9. OtherTypes'
  BY <1>1, <1>5 DEF OtherTypes, BaseInv, TypeOK, server, history
<1>10. OthersKept(d)
  BY <1>1, <1>6 DEF OthersKept
<1>11. ControlInv(d)'
  <2>1. rest[d] \subseteq DOMAIN ScriptOf(pos[d]) /\ rest'[d] = rest[d] \ {Min(rest[d])}
        /\ pc'[d] = (IF rest'[d] = {} THEN "ok" ELSE "send") /\ pos'[d] = pos[d]
    BY <1>1, <1>2, <1>6 DEF BaseInv, TypeOK, ControlOK, ControlInv
  <2>. QED BY <1>2, <2>1 DEF ControlInv, Working, InEvent, Statuses
<1>. QED BY <1>5, <1>8, <1>9, <1>10, <1>11 DEF StepOK

LEMMA ConcludeOK ==
  ASSUME PlanOK, BaseInv, NEW d \in Drivers, Conclude(d)
  PROVE  StepOK(d)
<1>. DEFINE rec == [ev |-> pos[d], step |-> "final", status |-> pc[d], acct |-> acct[d], tx |-> 0]
<1>1. /\ pc[d] \in Statuses /\ AppendLine(rec)
      /\ rest' = [rest EXCEPT ![d] = {}] /\ acct' = [acct EXCEPT ![d] = 0]
      /\ pc' = [pc EXCEPT ![d] = "walk"]
      /\ UNCHANGED <<lock, meta, seen, finished, pos, tx, failures, server, history>>
  BY DEF Conclude, Goto
<1>2. pos[d] \in Events
  BY <1>1 DEF BaseInv, ControlOK, ControlInv, InEvent
<1>3. acct[d] \in Nat /\ acct[d] <= accounts /\ accounts \in Nat
  BY DEF BaseInv, TypeOK
<1>4. rec \in Lines /\ rec.acct <= accounts
  BY <1>1, <1>2, <1>3 DEF Lines, EventRecords
<1>5. log' \in Seq(Lines) /\ torn' = FALSE /\ LinesMade'
  <2>. HIDE DEF rec
  <2>. QED BY <1>1, <1>4, AppendEffect DEF server
<1>6. pc' \in [Drivers -> Opening \cup Running \cup {"out"}]
  BY <1>1 DEF Running, BaseInv, TypeOK
<1>7. rest' \in [Drivers -> SUBSET (1..5)] /\ acct' \in [Drivers -> 0..accounts']
  <2>1. 0 \in 0..accounts /\ accounts' = accounts
    BY <1>1, <1>3 DEF server
  <2>. QED BY <1>1, <2>1 DEF BaseInv, TypeOK
<1>8. LocalTypes'
  BY <1>1, <1>6, <1>7 DEF LocalTypes, BaseInv, TypeOK, server
<1>9. OtherTypes'
  BY <1>1, <1>5 DEF OtherTypes, BaseInv, TypeOK, server, history
<1>10. OthersKept(d)
  BY <1>1 DEF OthersKept
<1>11. ControlInv(d)'
  BY <1>1 DEF BaseInv, TypeOK, ControlInv, Working, InEvent, Statuses
<1>. QED BY <1>5, <1>8, <1>9, <1>10, <1>11 DEF StepOK

LEMMA KillOK ==
  ASSUME PlanOK, BaseInv, NEW d \in Drivers, Kill(d)
  PROVE  StepOK(d)
<1>1. Fault /\ Forget(d) /\ torn' \in BOOLEAN
      /\ lock' \in Drivers \cup {NoDriver, EmptyLock} /\ meta' \in {"none", "half", "whole"}
      /\ UNCHANGED <<log, effects, accounts, asked>>
  BY DEF Kill, Midway, BaseInv, TypeOK
<1>2. LocalTypes' /\ OthersKept(d) /\ ControlInv(d)' /\ seen'[d] = <<>>
  BY <1>1, ForgetEffect
<1>3. \A x \in Drivers : seen'[x] = seen[x] \/ seen'[x] = <<>>
  BY <1>2 DEF OthersKept
<1>4. LinesMade'
  BY <1>1, <1>3, LinesKept DEF BaseInv
<1>5. faults' \in 0..MaxFaults
  BY <1>1 DEF Fault, PlanOK, BaseInv, TypeOK
<1>6. orphans' \in [Jobs -> Nat] /\ unknown' \in [Jobs -> Nat]
  <2>1. CASE pc[d] = "call"
    BY <2>1, JobFacts, AbandonEffect DEF Kill, Working
  <2>2. CASE pc[d] = "checkpoint"
    <3>1. Job(d) \in Jobs
      BY <2>2, JobFacts DEF Working
    <3>2. orphans' = orphans /\ unknown' = [unknown EXCEPT ![Job(d)] = unknown[Job(d)] + 1]
      BY <2>2 DEF Kill
    <3>. QED BY <3>1, <3>2 DEF BaseInv, TypeOK
  <2>3. CASE pc[d] \notin {"call", "checkpoint"}
    BY <2>3 DEF Kill, BaseInv, TypeOK
  <2>. QED BY <2>1, <2>2, <2>3
<1>7. OtherTypes'
  BY <1>1, <1>5, <1>6 DEF OtherTypes, BaseInv, TypeOK
<1>. QED BY <1>2, <1>4, <1>7 DEF StepOK

\* Cutting a log short keeps its first lines.
LEMMA CutLog ==
  ASSUME NEW s \in Seq(Lines), NEW n \in 0..Len(s)
  PROVE  /\ SubSeq(s, 1, n) \in Seq(Lines) /\ Len(SubSeq(s, 1, n)) = n
         /\ DOMAIN SubSeq(s, 1, n) = 1..n /\ 1..n \subseteq DOMAIN s
         /\ \A i \in 1..n : SubSeq(s, 1, n)[i] = s[i]
OBVIOUS

LEMMA KillInTrimOK ==
  ASSUME PlanOK, BaseInv, NEW d \in Drivers, KillInTrim(d)
  PROVE  StepOK(d)
<1>1. /\ Fault /\ Forget(d) /\ torn' \in BOOLEAN
      /\ UNCHANGED <<lock, meta, orphans, effects, accounts>>
  BY DEF KillInTrim, server
<1>2. PICK n \in 0..Len(seen[d]) :
        /\ log' = SubSeq(seen[d], 1, n)
        /\ unknown' = [j \in Jobs |-> IF j \in LostJobs(n) THEN unknown[j] + 1 ELSE unknown[j]]
        /\ asked' = {x \in asked : Plan[x[1][1]].wallet \notin LostWallets(n)}
  BY DEF KillInTrim, Cut
<1>3. LocalTypes' /\ OthersKept(d) /\ ControlInv(d)' /\ seen'[d] = <<>>
  BY <1>1, ForgetEffect
<1>4. seen[d] \in Seq(Lines)
  BY DEF BaseInv, TypeOK
<1>5. log' \in Seq(Lines) /\ DOMAIN log' \subseteq DOMAIN seen[d]
      /\ \A i \in DOMAIN log' : log'[i] = seen[d][i]
  BY <1>2, <1>4, CutLog
<1>6. LinesMade'
  <2>1. \A i \in DOMAIN log' : log'[i].acct <= accounts'
    BY <1>1, <1>5 DEF BaseInv, LinesMade
  <2>2. \A x \in Drivers : \A i \in DOMAIN seen'[x] : seen'[x][i].acct <= accounts'
    BY <1>1, <1>3 DEF BaseInv, LinesMade, OthersKept
  <2>. QED BY <2>1, <2>2 DEF LinesMade
<1>7. unknown' \in [Jobs -> Nat]
  BY <1>2 DEF BaseInv, TypeOK
<1>8. faults' \in 0..MaxFaults
  BY <1>1 DEF Fault, PlanOK, BaseInv, TypeOK
<1>9. asked' \subseteq Jobs \X Nat
  BY <1>2 DEF BaseInv, TypeOK
<1>10. OtherTypes'
  BY <1>1, <1>5, <1>7, <1>8, <1>9 DEF OtherTypes, BaseInv, TypeOK
<1>. QED BY <1>3, <1>6, <1>10 DEF StepOK

\* A driver's step, and the server that goes on with a request left behind.
LEMMA DriverOK ==
  ASSUME PlanOK, BaseInv, NEW d \in Drivers, Start(d) \/ DriverStep(d) \/ Kill(d)
  PROVE  StepOK(d)
BY OpeningOK, StartingOK, WalkOK, BeginOK, SendOK, AnswerOK, FailuresOK, CheckpointOK, ConcludeOK,
   KillOK DEF DriverStep

LEMMA FinishEffect ==
  ASSUME PlanOK, BaseInv, NEW j \in Jobs, Finish(j)
  PROVE  /\ UNCHANGED <<files, locals, history>>
         /\ effects' \in [Jobs -> Nat] /\ orphans' \in [Jobs -> Nat]
         /\ accounts' \in Nat /\ accounts <= accounts'
         /\ \A k \in Jobs : effects[k] <= effects'[k]
         /\ \A k \in Jobs : effects'[k] + orphans'[k] <= effects[k] + orphans[k]
<1>1. UNCHANGED <<files, locals, history>> /\ orphans' = [orphans EXCEPT ![j] = orphans[j] - 1]
      /\ orphans[j] > 0
  BY DEF Finish
<1>2. effects \in [Jobs -> Nat] /\ orphans \in [Jobs -> Nat] /\ accounts \in Nat
  BY DEF BaseInv, TypeOK
<1>3. orphans' \in [Jobs -> Nat]
  BY <1>1, <1>2
<1>4. CASE DoJob(j)
  <2>1. /\ effects' \in [Jobs -> Nat] /\ accounts' \in Nat /\ accounts <= accounts'
        /\ \A k \in Jobs : effects'[k] = IF k = j THEN effects[k] + 1 ELSE effects[k]
    BY <1>4, DoJobEffect
  <2>0. \A k \in Jobs : effects[k] \in Nat /\ orphans[k] \in Nat
    BY <1>2
  <2>2. \A k \in Jobs : effects[k] <= effects'[k]
    BY <2>0, <2>1
  <2>3. \A k \in Jobs : effects'[k] + orphans'[k] <= effects[k] + orphans[k]
    BY <1>1, <1>2, <2>0, <2>1
  <2>. QED BY <1>1, <1>3, <2>1, <2>2, <2>3
<1>5. CASE UNCHANGED <<effects, accounts>>
  <2>1. \A k \in Jobs : effects[k] <= effects[k]
    BY <1>2
  <2>2. \A k \in Jobs : effects'[k] + orphans'[k] <= effects[k] + orphans[k]
    BY <1>1, <1>2, <1>5
  <2>. QED BY <1>1, <1>2, <1>3, <1>5, <2>1, <2>2
<1>. QED BY <1>4, <1>5 DEF Finish

LEMMA BaseNext == ASSUME PlanOK, BaseInv, [Next]_vars PROVE BaseInv'
<1>1. ASSUME NEW d \in Drivers, Start(d) \/ DriverStep(d) \/ Kill(d) \/ KillInTrim(d)
      PROVE  BaseInv'
  <2>1. StepOK(d)
    BY <1>1, DriverOK, KillInTrimOK
  <2>2. ControlOK'
    BY <2>1, ControlOthers DEF StepOK
  <2>3. TypeOK'
    BY <2>1 DEF StepOK, TypeOK, LocalTypes, OtherTypes
  <2>. QED BY <2>1, <2>2, <2>3 DEF StepOK, BaseInv
<1>2. ASSUME NEW j \in Jobs, Finish(j) PROVE BaseInv'
  <2>1. /\ UNCHANGED <<files, locals, history>>
        /\ effects' \in [Jobs -> Nat] /\ orphans' \in [Jobs -> Nat]
        /\ accounts' \in Nat /\ accounts <= accounts'
    BY <1>2, FinishEffect
  <2>2. acct' \in [Drivers -> 0..accounts']
    <3>1. acct \in [Drivers -> 0..accounts] /\ acct' = acct /\ accounts \in Nat
      BY <2>1 DEF locals, BaseInv, TypeOK
    <3>2. 0..accounts \subseteq 0..accounts'
      BY <2>1, <3>1
    <3>. QED BY <3>1, <3>2
  <2>3. TypeOK'
    BY <2>1, <2>2 DEF BaseInv, TypeOK, files, locals, history
  <2>4. ControlOK'
    BY <2>1 DEF BaseInv, ControlOK, ControlInv, Working, Job, locals
  <2>5. LinesMade'
    <3>1. \A l \in Lines : l.acct \in Nat
      BY DEF Lines, StepRecords, EventRecords, Bad
    <3>2. /\ \A i \in DOMAIN log : log[i].acct \in Nat
          /\ \A x \in Drivers : \A i \in DOMAIN seen[x] : seen[x][i].acct \in Nat
          /\ accounts \in Nat
      BY <3>1 DEF BaseInv, TypeOK
    <3>. QED BY <2>1, <3>2 DEF BaseInv, LinesMade, files, locals
  <2>. QED BY <2>3, <2>4, <2>5 DEF BaseInv
<1>3. CASE UNCHANGED vars
  <2>1. TypeOK'
    BY <1>3 DEF vars, BaseInv, TypeOK
  <2>2. ControlOK' /\ LinesMade'
    BY <1>3 DEF vars, BaseInv, ControlOK, ControlInv, Working, Job, LinesMade
  <2>. QED BY <2>1, <2>2 DEF BaseInv
<1>. QED BY <1>1, <1>2, <1>3 DEF Next

LEMMA BaseInit == ASSUME PlanOK, Init PROVE BaseInv
<1>1. 0 \in 0..accounts /\ 0 \in 0..Attempts - 1 /\ 0 \in 0..MaxFaults
  BY DEF PlanOK, Init
<1>2. TypeOK
  <2>1. <<>> \in Seq(Lines) /\ {} \in SUBSET Events /\ {} \in SUBSET (1..5)
    OBVIOUS
  <2>2. LocalTypes
    BY <1>1, <2>1 DEF Init, LocalTypes
  <2>3. OtherTypes
    BY <1>1, <2>1 DEF Init, OtherTypes
  <2>. QED BY <2>2, <2>3, TypesSplit
<1>3. ControlOK
  BY DEF Init, ControlOK, ControlInv, Working, InEvent, Statuses
<1>4. LinesMade
  BY DEF Init, LinesMade
<1>. QED BY <1>2, <1>3, <1>4 DEF BaseInv

\* Every variable keeps its type, every account in the log was deployed, and a
\* driver always stands in an event of the plan with steps of it left to make.
THEOREM TypeCorrect == Spec => []BaseInv
<1>1. Init => BaseInv
  BY BaseInit, PlanOK
<1>2. BaseInv /\ [Next]_vars => BaseInv'
  BY BaseNext, PlanOK
<1>. QED BY <1>1, <1>2, PTL DEF Spec

\* The type invariant of the run.
THEOREM TypesKept == Spec => []TypeOK
<1>1. BaseInv => TypeOK
  BY DEF BaseInv
<1>. QED BY <1>1, TypeCorrect, PTL

-----------------------------------------------------------------------------
(***************************************************************************)
(* One driver per run directory.                                           *)
(***************************************************************************)
\* One process at a time starts, one that works holds the lock, and no one works
\* while another is about to write it.
LockInv ==
  /\ \A d, x \in Drivers : pc[d] \in Opening /\ pc[x] \in Opening => d = x
  /\ \A d \in Drivers : pc[d] \in Running => lock = d
  /\ \A d, x \in Drivers : pc[d] = "writeLock" => pc[x] \notin Running

\* How a driver's step moves it on.
LEMMA StagesOf ==
  ASSUME PlanOK, BaseInv, NEW d \in Drivers, Start(d) \/ DriverStep(d) \/ Kill(d)
  PROVE  \/ Start(d) /\ pc[d] = "out" /\ pc'[d] = "open" /\ lock' = lock
         \/ pc[d] \in Opening /\ pc'[d] \in {"trim", "checkLock", "out"} /\ lock' = lock
         \/ pc[d] = "writeLock" /\ pc'[d] = "out" /\ lock' \in {lock, EmptyLock}
         \/ CheckLock(d) /\ MayLock(d) /\ pc[d] \in Opening /\ pc'[d] = "writeLock" /\ lock' = lock
         \/ pc[d] = "writeLock" /\ pc'[d] = "mode" /\ lock' = d
         \/ pc[d] \in Running /\ pc'[d] \in Running /\ lock' = lock
         \/ pc[d] \in Running /\ pc'[d] = "out" /\ Exit(d)
         \/ pc[d] \in Running /\ pc'[d] = "out" /\ lock' = lock
<1>. USE DEF Goto, BaseInv, TypeOK, Opening, Running
<1>1. CASE Start(d) \/ Open(d) \/ Trim(d) \/ WriteLock(d)
  BY <1>1 DEF Start, Open, Trim, WriteLock, files
<1>2. CASE CheckLock(d)
  BY <1>2 DEF CheckLock, Forget, files
<1>3. CASE Mode(d) \/ BadMeta(d) \/ ProbeFails(d) \/ ReadPlan(d) \/ Walk(d)
  <2>1. Exit(d) => pc'[d] = "out"
    BY DEF Exit, Forget
  <2>. QED BY <1>3, <2>1 DEF Mode, BadMeta, ProbeFails, ReadPlan, Walk, files
<1>4. CASE Begin(d)
  BY <1>4, BeginCases DEF BeginsOver, BeginsTick, BeginsSteps, Statuses, files
<1>5. CASE Send(d) \/ Answer(d)
  BY <1>5 DEF Send, Answer, NextStep, files
<1>6. CASE Refused(d) \/ RefusedForGood(d) \/ Lost(d)
  BY <1>6 DEF Refused, RefusedForGood, Lost, Retry, files
<1>7. CASE Checkpoint(d) \/ Conclude(d)
  BY <1>7 DEF Checkpoint, Conclude, NextStep, Statuses
<1>8. CASE Kill(d)
  <2>1. pc'[d] = "out" /\ pc[d] # "out" /\ lock' \in {lock, IF pc[d] = "writeLock" THEN EmptyLock ELSE lock}
    BY <1>8 DEF Kill, Forget, Alive, Midway
  <2>. QED BY <2>1
<1>. QED BY <1>1, <1>2, <1>3, <1>4, <1>5, <1>6, <1>7, <1>8 DEF DriverStep

LEMMA LockNext == ASSUME PlanOK, BaseInv, LockInv, [Next]_vars PROVE LockInv'
<1>0. ASSUME NEW d \in Drivers, KillInTrim(d) PROVE LockInv'
  <2>1. \A x \in Drivers \ {d} : pc'[x] = pc[x]
    BY <1>0, KillInTrimOK DEF StepOK, OthersKept
  <2>2. pc'[d] = "out" /\ lock' = lock
    BY <1>0 DEF KillInTrim, Forget, Goto, BaseInv, TypeOK
  <2>. QED BY <2>1, <2>2 DEF LockInv, Opening, Running
<1>1. ASSUME NEW d \in Drivers, Start(d) \/ DriverStep(d) \/ Kill(d) PROVE LockInv'
  <2>1. \A x \in Drivers \ {d} : pc'[x] = pc[x]
    BY <1>1, DriverOK DEF StepOK, OthersKept
  <2>2. "open" \in Opening /\ Opening \cap Running = {} /\ "out" \notin Opening \cup Running
        /\ {"trim", "checkLock", "writeLock"} \subseteq Opening /\ "mode" \in Running
    BY DEF Opening, Running
  <2>3. CASE Start(d) /\ pc[d] = "out" /\ pc'[d] = "open" /\ lock' = lock
    BY <2>1, <2>2, <2>3 DEF Start, LockInv
  <2>4. CASE pc[d] \in Opening /\ pc'[d] \in {"trim", "checkLock", "out"} /\ lock' = lock
    BY <2>1, <2>2, <2>4 DEF LockInv
  <2>4a. CASE pc[d] = "writeLock" /\ pc'[d] = "out" /\ lock' \in {lock, EmptyLock}
    <3>1. \A x \in Drivers : pc'[x] \notin Running
      BY <2>1, <2>2, <2>4a DEF LockInv
    <3>. QED BY <2>1, <2>2, <2>4a, <3>1 DEF LockInv
  <2>5. CASE CheckLock(d) /\ MayLock(d) /\ pc[d] \in Opening /\ pc'[d] = "writeLock" /\ lock' = lock
    <3>1. \A x \in Drivers : pc[x] \notin Running
      BY <2>2, <2>5 DEF MayLock, Alive, LockInv, PlanOK
    <3>. QED BY <2>1, <2>2, <2>5, <3>1 DEF LockInv
  <2>6. CASE pc[d] = "writeLock" /\ pc'[d] = "mode" /\ lock' = d
    BY <2>1, <2>2, <2>6 DEF LockInv
  <2>7. CASE pc[d] \in Running /\ pc'[d] \in Running /\ lock' = lock
    BY <2>1, <2>2, <2>7 DEF LockInv
  <2>8. CASE pc[d] \in Running /\ pc'[d] = "out" /\ Exit(d)
    <3>1. \A x \in Drivers : pc[x] \in Running => x = d
      BY <2>8 DEF LockInv
    <3>. QED BY <2>1, <2>2, <2>8, <3>1 DEF LockInv
  <2>9. CASE pc[d] \in Running /\ pc'[d] = "out" /\ lock' = lock
    BY <2>1, <2>2, <2>9 DEF LockInv
  <2>. QED BY <1>1, <2>3, <2>4, <2>4a, <2>5, <2>6, <2>7, <2>8, <2>9, StagesOf
<1>2. ASSUME NEW j \in Jobs, Finish(j) PROVE LockInv'
  BY <1>2 DEF Finish, LockInv, files, locals
<1>3. CASE UNCHANGED vars
  BY <1>3 DEF vars, LockInv
<1>. QED BY <1>0, <1>1, <1>2, <1>3 DEF Next

\* At most one driver works on a run directory, whatever is killed, however often
\* it is started again and whatever lock was left behind.
THEOREM OneDriverWorks == Spec => []OneDriver
<1>1. Init => LockInv
  BY DEF Init, LockInv, Opening, Running
<1>2. BaseInv /\ LockInv /\ [Next]_vars => LockInv'
  BY LockNext, PlanOK
<1>3. LockInv => OneDriver
  BY DEF LockInv, OneDriver
<1>. QED BY <1>1, <1>2, <1>3, TypeCorrect, PTL DEF Spec

-----------------------------------------------------------------------------
(***************************************************************************)
(* The log.                                                                *)
(***************************************************************************)
\* No line was spoilt: half a line is cut before any driver appends, and the
\* driver that cuts it writes back what is there.
LogInv ==
  /\ \A i \in DOMAIN log : log[i] # Bad
  /\ torn => \A d \in Drivers : pc[d] \in Running => pc[d] \in {"mode", "plan"}
  /\ \A d \in Drivers : pc[d] = "trim" => torn /\ seen[d] = log

SafeInv == BaseInv /\ LockInv /\ LogInv

CheckpointOf(d) == [ev |-> pos[d], step |-> Job(d)[2], status |-> "ok",
                    acct |-> acct[d], tx |-> tx[d]]
FinalOf(d) == [ev |-> pos[d], step |-> "final", status |-> pc[d], acct |-> acct[d], tx |-> 0]

\* The log grows by one record.
Grows(rec) ==
  /\ Len(log') = Len(log) + 1 /\ DOMAIN log' = 1..Len(log) + 1
  /\ \A i \in DOMAIN log : log'[i] = log[i]
  /\ log'[Len(log) + 1] = rec
  /\ rec # Bad

LEMMA GrowsBy ==
  ASSUME PlanOK, SafeInv, NEW d \in Drivers
  PROVE  /\ Checkpoint(d) => Grows(CheckpointOf(d)) /\ torn' = FALSE
         /\ Conclude(d) => Grows(FinalOf(d)) /\ torn' = FALSE
<1>1. CASE Checkpoint(d)
  <2>1. pc[d] = "checkpoint" /\ AppendLine(CheckpointOf(d)) /\ seen' = seen /\ accounts' = accounts
    BY <1>1 DEF Checkpoint, CheckpointOf, server
  <2>2. pos[d] \in Events /\ Job(d)[2] \in Steps
    BY <2>1, JobFacts DEF Working, SafeInv
  <2>3. ~torn
    BY <2>1 DEF SafeInv, LogInv, Running
  <2>4. acct[d] \in Nat /\ acct[d] <= accounts /\ tx[d] \in Nat
    BY DEF SafeInv, BaseInv, TypeOK
  <2>5. CheckpointOf(d) \in Lines /\ CheckpointOf(d).acct <= accounts
    BY <2>2, <2>4 DEF Lines, StepRecords, CheckpointOf
  <2>6. CheckpointOf(d) # Bad
    BY <2>2, StepNames DEF CheckpointOf, Bad
  <2>. QED BY <1>1, <2>1, <2>3, <2>5, <2>6, AppendEffect DEF SafeInv, Grows, Conclude, Statuses
<1>2. CASE Conclude(d)
  <2>1. pc[d] \in Statuses /\ AppendLine(FinalOf(d)) /\ seen' = seen /\ accounts' = accounts
    BY <1>2 DEF Conclude, FinalOf, server
  <2>2. pos[d] \in Events
    BY <2>1 DEF SafeInv, BaseInv, ControlOK, ControlInv, InEvent
  <2>3. ~torn
    BY <2>1 DEF SafeInv, LogInv, Running, Statuses
  <2>4. acct[d] \in Nat /\ acct[d] <= accounts
    BY DEF SafeInv, BaseInv, TypeOK
  <2>5. FinalOf(d) \in Lines /\ FinalOf(d).acct <= accounts
    BY <2>1, <2>2, <2>4 DEF Lines, EventRecords, FinalOf
  <2>6. FinalOf(d) # Bad
    BY DEF FinalOf, Bad
  <2>. QED BY <1>2, <2>1, <2>3, <2>5, <2>6, AppendEffect DEF SafeInv, Grows, Checkpoint, Statuses
<1>. QED BY <1>1, <1>2

\* Nothing else touches it: what is written back when it is cut was there.
LEMMA LogKept ==
  ASSUME SafeInv, NEW d \in Drivers, Start(d) \/ DriverStep(d) \/ Kill(d),
         ~Checkpoint(d), ~Conclude(d)
  PROVE  log' = log
<1>1. CASE Trim(d)
  BY <1>1 DEF Trim, Cut, SafeInv, LogInv
<1>2. CASE ~Trim(d)
  BY <1>2 DEF DriverStep, Start, Open, CheckLock, WriteLock, Mode, BadMeta, ProbeFails, ReadPlan, Walk, Begin,
     Send, Answer, Refused, RefusedForGood, Lost, Kill, Exit, files
<1>. QED BY <1>1, <1>2

\* Where half a line comes from, and where it goes.
LEMMA TornSteps ==
  ASSUME SafeInv, NEW d \in Drivers, Start(d) \/ DriverStep(d) \/ Kill(d)
  PROVE  \/ torn' = torn
         \/ Trim(d) \/ Checkpoint(d) \/ Conclude(d)
         \/ Kill(d) /\ pc[d] \in Running
<1>1. CASE Kill(d) /\ pc[d] \notin Running
  <2>1. ~Midway(d, Statuses \cup {"checkpoint"})
    BY <1>1 DEF Midway, Running, Statuses
  <2>2. torn \in BOOLEAN
    BY DEF SafeInv, BaseInv, TypeOK
  <2>. QED BY <1>1, <2>1, <2>2, Zenon DEF Kill
<1>2. CASE ~Kill(d)
  BY <1>2 DEF DriverStep, Start, Open, CheckLock, WriteLock, Mode, BadMeta, ProbeFails, ReadPlan, Walk, Begin,
     Send, Answer, Refused, RefusedForGood, Lost, Exit, files, Running, Statuses
<1>. QED BY <1>1, <1>2

\* The log is cut short: what is left of it, and who is at work meanwhile.
CutTo(n) ==
  /\ n \in 0..Len(log) /\ Len(log') = n /\ DOMAIN log' = 1..n /\ 1..n \subseteq DOMAIN log
  /\ \A i \in 1..n : log'[i] = log[i]
  /\ unknown' = [j \in Jobs |-> IF j \in LostJobs(n) THEN unknown[j] + 1 ELSE unknown[j]]
  /\ asked' = {x \in asked : Plan[x[1][1]].wallet \notin LostWallets(n)}

LEMMA TrimKilled ==
  ASSUME PlanOK, SafeInv, NEW d \in Drivers, KillInTrim(d)
  PROVE  /\ \E n : CutTo(n)
         /\ UNCHANGED <<lock, meta, orphans, effects, accounts>>
         /\ pc[d] = "trim" /\ pc'[d] = "out" /\ OthersKept(d)
         /\ \A x \in Drivers : pc'[x] \notin InEvent \cup {"walk"}
         /\ \A x \in Drivers : pc[x] \notin InEvent \cup {"walk"}
<1>1. pc[d] = "trim" /\ pc'[d] = "out" /\ UNCHANGED <<lock, meta, orphans, effects, accounts>>
  BY DEF KillInTrim, Midway, Forget, Goto, server, SafeInv, BaseInv, TypeOK
<1>2. torn /\ seen[d] = log
  BY <1>1 DEF SafeInv, LogInv
<1>3. OthersKept(d)
  BY KillInTrimOK DEF StepOK, SafeInv
<1>4. \A x \in Drivers : pc[x] \in Running => pc[x] \in {"mode", "plan"}
  BY <1>2 DEF SafeInv, LogInv
<1>5. InEvent \cup {"walk"} \subseteq Running /\ {"mode", "plan", "out"} \cap (InEvent \cup {"walk"}) = {}
  BY DEF InEvent, Running, Statuses
<1>6. \A x \in Drivers : pc[x] \notin InEvent \cup {"walk"}
  BY <1>4, <1>5
<1>7. \A x \in Drivers : pc'[x] \notin InEvent \cup {"walk"}
  BY <1>1, <1>3, <1>5, <1>6 DEF OthersKept
<1>8. \E n : CutTo(n)
  <2>1. PICK n \in 0..Len(log) :
          /\ log' = SubSeq(log, 1, n)
          /\ unknown' = [j \in Jobs |-> IF j \in LostJobs(n) THEN unknown[j] + 1 ELSE unknown[j]]
          /\ asked' = {x \in asked : Plan[x[1][1]].wallet \notin LostWallets(n)}
    BY <1>2 DEF KillInTrim, Cut
  <2>2. log \in Seq(Lines)
    BY DEF SafeInv, BaseInv, TypeOK
  <2>3. CutTo(n)
    BY <2>1, <2>2, CutLog DEF CutTo
  <2>. QED BY <2>3
<1>. QED BY <1>1, <1>3, <1>6, <1>7, <1>8

LEMMA LogNext == ASSUME PlanOK, SafeInv, BaseInv', LockInv', [Next]_vars PROVE LogInv'
<1>0. ASSUME NEW d \in Drivers, KillInTrim(d) PROVE LogInv'
  <2>1. PICK n : CutTo(n)
    BY <1>0, TrimKilled
  <2>2. \A i \in DOMAIN log' : log'[i] # Bad
    BY <2>1 DEF CutTo, SafeInv, LogInv
  <2>3. \A x \in Drivers : pc'[x] \in Running => pc'[x] \in {"mode", "plan"}
    BY <1>0, TrimKilled DEF InEvent, Running, Statuses
  <2>4. \A x \in Drivers : pc'[x] # "trim"
    BY <1>0, TrimKilled DEF OthersKept, SafeInv, LockInv, Opening
  <2>. QED BY <2>2, <2>3, <2>4 DEF LogInv
<1>1. ASSUME NEW d \in Drivers, Start(d) \/ DriverStep(d) \/ Kill(d) PROVE LogInv'
  <2>1. \A x \in Drivers \ {d} : pc'[x] = pc[x] /\ seen'[x] = seen[x]
    BY <1>1, DriverOK DEF StepOK, OthersKept, SafeInv
  <2>2. \A i \in DOMAIN log' : log'[i] # Bad
    <3>1. CASE log' = log
      BY <3>1 DEF SafeInv, LogInv
    <3>2. CASE \E rec : Grows(rec)
      <4>1. \A i \in DOMAIN log' : i \in DOMAIN log \/ i = Len(log) + 1
        BY <3>2 DEF Grows, SafeInv, BaseInv, TypeOK
      <4>. QED BY <3>2, <4>1 DEF Grows, SafeInv, LogInv
    <3>. QED BY <1>1, <3>1, <3>2, LogKept, GrowsBy
  <2>3. torn' => \A x \in Drivers : pc'[x] \in Running => pc'[x] \in {"mode", "plan"}
    <3>1. CASE torn' = torn
      <4>. SUFFICES ASSUME torn PROVE \A x \in Drivers : pc'[x] \in Running => pc'[x] \in {"mode", "plan"}
        BY <3>1
      <4>1. \A x \in Drivers : pc[x] \in Running => pc[x] \in {"mode", "plan"}
        BY DEF SafeInv, LogInv
      <4>2. ASSUME pc'[d] \in Running PROVE pc'[d] \in {"mode", "plan"}
        <5>1. pc[d] \in Running \cup {"writeLock"} /\ (pc[d] = "writeLock" => pc'[d] = "mode")
          BY <1>1, <4>2, StagesOf DEF SafeInv, Opening, Running
        <5>2. pc[d] \in {"mode", "plan"} => pc'[d] \in {"plan", "out"}
          BY <1>1 DEF DriverStep, Start, Open, Trim, CheckLock, WriteLock, Mode, BadMeta, ProbeFails, ReadPlan,
             Readable, Exit, Forget, Goto, Walk, Begin, Send, Answer, Refused, RefusedForGood, Lost,
             Checkpoint, Conclude, Statuses, Kill, SafeInv, BaseInv, TypeOK
        <5>. QED BY <4>1, <4>2, <5>1, <5>2 DEF Running
      <4>. QED BY <2>1, <4>1, <4>2
    <3>2. CASE Trim(d) \/ Checkpoint(d) \/ Conclude(d)
      BY <3>2, GrowsBy DEF Trim
    <3>3. CASE Kill(d) /\ pc[d] \in Running
      <4>1. \A x \in Drivers : pc[x] \in Running => x = d
        BY <3>3 DEF SafeInv, LockInv
      <4>2. pc'[d] = "out"
        BY <3>3 DEF Kill, Forget, Goto, SafeInv, BaseInv, TypeOK
      <4>. QED BY <2>1, <4>1, <4>2 DEF Running
    <3>. QED BY <1>1, <3>1, <3>2, <3>3, TornSteps
  <2>4. \A x \in Drivers : pc'[x] = "trim" => torn' /\ seen'[x] = log'
    <3>1. ASSUME NEW x \in Drivers \ {d}, pc'[x] = "trim" PROVE torn' /\ seen'[x] = log'
      <4>1. pc[x] = "trim" /\ torn /\ seen[x] = log /\ seen'[x] = seen[x]
        BY <2>1, <3>1 DEF SafeInv, LogInv
      <4>2. ~Checkpoint(d) /\ ~Conclude(d)
        BY <4>1 DEF SafeInv, LogInv, Checkpoint, Conclude, Running, Statuses
      <4>3. ~Trim(d)
        BY <3>1, <4>1 DEF SafeInv, LockInv, Trim, Opening
      <4>4. torn'
        BY <1>1, <4>1, <4>2, <4>3, TornSteps DEF SafeInv, LogInv, LockInv, Kill
      <4>. QED BY <1>1, <4>1, <4>2, <4>4, LogKept
    <3>2. ASSUME pc'[d] = "trim" PROVE torn' /\ seen'[d] = log'
      <4>1. Open(d)
        BY <1>1, <3>2 DEF DriverStep, Start, Trim, CheckLock, WriteLock, Mode, BadMeta, ProbeFails, ReadPlan,
           Exit, Forget, Goto, Walk, Begin, Send, Answer, Refused, RefusedForGood, Lost,
           Retry, NextStep, Checkpoint, Conclude, Statuses, Kill, SafeInv, BaseInv, TypeOK
      <4>. QED BY <3>2, <4>1 DEF Open, Goto, files, SafeInv, BaseInv, TypeOK
    <3>. QED BY <3>1, <3>2
  <2>. QED BY <2>2, <2>3, <2>4 DEF LogInv
<1>2. ASSUME NEW j \in Jobs, Finish(j) PROVE LogInv'
  BY <1>2 DEF Finish, SafeInv, LogInv, files, locals
<1>3. CASE UNCHANGED vars
  BY <1>3 DEF vars, SafeInv, LogInv
<1>. QED BY <1>0, <1>1, <1>2, <1>3 DEF Next

LEMMA SafeForever == Spec => []SafeInv
<1>1. Init => LockInv /\ LogInv
  BY DEF Init, LockInv, LogInv, Opening, Running
<1>2. BaseInv /\ LockInv /\ LogInv /\ BaseInv' /\ [Next]_vars => LockInv' /\ LogInv'
  BY LockNext, LogNext, PlanOK DEF SafeInv
<1>3. BaseInv /\ LockInv /\ LogInv => SafeInv
  BY DEF SafeInv
<1>. QED BY <1>1, <1>2, <1>3, TypeCorrect, PTL DEF Spec

\* What a step does to the log.
LEMMA LogSteps ==
  ASSUME PlanOK, SafeInv, [Next]_vars
  PROVE  \/ log' = log
         \/ \E d \in Drivers : KillInTrim(d)
         \/ \E d \in Drivers : Checkpoint(d) /\ Grows(CheckpointOf(d))
         \/ \E d \in Drivers : Conclude(d) /\ Grows(FinalOf(d))
<1>1. ASSUME NEW d \in Drivers, Start(d) \/ DriverStep(d) \/ Kill(d),
             ~Checkpoint(d), ~Conclude(d)
      PROVE  log' = log
  BY <1>1, LogKept
<1>2. ASSUME NEW j \in Jobs, Finish(j) PROVE log' = log
  BY <1>2 DEF Finish, files
<1>3. UNCHANGED vars => log' = log
  BY DEF vars
<1>. QED BY <1>1, <1>2, <1>3, GrowsBy DEF Next

LEMMA GrownDomain ==
  ASSUME NEW rec, BaseInv, Grows(rec)
  PROVE  /\ \A i \in DOMAIN log' : i \in DOMAIN log \/ i = Len(log) + 1
         /\ DOMAIN log \subseteq DOMAIN log' /\ Len(log) + 1 \in DOMAIN log'
         /\ Len(log) + 1 \notin DOMAIN log
BY DEF Grows, BaseInv, TypeOK

LEMMA GrowsPrefix ==
  ASSUME NEW rec, BaseInv, BaseInv', Grows(rec)
  PROVE  IsPrefix(log, log') /\ Len(log') > Len(log) /\ Last(log') = rec /\ Last(log') # Bad
<1>1. log \in Seq(Lines) /\ log' \in Seq(Lines) /\ Len(log) \in Nat /\ Len(log') = Len(log) + 1
  BY DEF BaseInv, TypeOK, Grows
<1>2. /\ SubSeq(log, 1, Len(log)) \in Seq(Lines) /\ SubSeq(log', 1, Len(log)) \in Seq(Lines)
      /\ Len(SubSeq(log, 1, Len(log))) = Len(log) /\ Len(SubSeq(log', 1, Len(log))) = Len(log)
      /\ \A i \in 1..Len(log) : /\ SubSeq(log, 1, Len(log))[i] = log[i]
                                /\ SubSeq(log', 1, Len(log))[i] = log'[i]
  BY <1>1
<1>3. \A i \in 1..Len(log) : SubSeq(log, 1, Len(log))[i] = SubSeq(log', 1, Len(log))[i]
  BY <1>1, <1>2 DEF Grows
<1>4. SubSeq(log, 1, Len(log)) = SubSeq(log', 1, Len(log))
  BY <1>2, <1>3, SeqEqual
<1>. QED BY <1>1, <1>4 DEF Grows, IsPrefix, Last

\* What is cut short is a prefix of what it was.
LEMMA CutPrefix ==
  ASSUME NEW n, BaseInv, BaseInv', CutTo(n)
  PROVE  IsPrefix(log', log)
<1>1. log \in Seq(Lines) /\ log' \in Seq(Lines) /\ n \in 0..Len(log) /\ Len(log') = n
  BY DEF BaseInv, TypeOK, CutTo
<1>2. /\ SubSeq(log, 1, n) \in Seq(Lines) /\ Len(SubSeq(log, 1, n)) = n
      /\ SubSeq(log', 1, n) \in Seq(Lines) /\ Len(SubSeq(log', 1, n)) = n
      /\ \A i \in 1..n : SubSeq(log, 1, n)[i] = log[i] /\ SubSeq(log', 1, n)[i] = log'[i]
  BY <1>1
<1>3. \A i \in 1..n : SubSeq(log', 1, n)[i] = SubSeq(log, 1, n)[i]
  BY <1>2 DEF CutTo
<1>4. SubSeq(log', 1, n) = SubSeq(log, 1, n)
  BY <1>2, <1>3, SeqEqual
<1>. QED BY <1>1, <1>4 DEF IsPrefix

\* A record of the log is lost only when a driver is killed while it writes the
\* log back without its half line; none is ever spoilt, and a driver that lives on
\* from appending one has it in the log.
THEOREM RecordsStay == Spec => RecordsSurvive
<1>. DEFINE Kept(d) == pc[d] \in Statuses \cup {"checkpoint"} /\ pc'[d] \notin {pc[d], "out"} =>
                         Len(log') > Len(log) /\ Last(log') # Bad
<1>1. ASSUME SafeInv, SafeInv', [Next]_vars
      PROVE  /\ \/ IsPrefix(log, log')
                \/ \E d \in Drivers : pc[d] = "trim" /\ pc'[d] = "out" /\ IsPrefix(log', log)
             /\ \A d \in Drivers : Kept(d)
  <2>1. \/ IsPrefix(log, log')
        \/ \E d \in Drivers : pc[d] = "trim" /\ pc'[d] = "out" /\ IsPrefix(log', log)
    <3>0. ASSUME NEW d \in Drivers, KillInTrim(d)
          PROVE  pc[d] = "trim" /\ pc'[d] = "out" /\ IsPrefix(log', log)
      <4>1. PICK n : CutTo(n)
        BY <1>1, <3>0, TrimKilled, PlanOK
      <4>2. IsPrefix(log', log)
        BY <1>1, <4>1, CutPrefix DEF SafeInv
      <4>. QED BY <1>1, <3>0, <4>2, TrimKilled, PlanOK
    <3>1. CASE log' = log
      BY <3>1 DEF IsPrefix, SafeInv, BaseInv, TypeOK
    <3>2. CASE \E rec : Grows(rec)
      BY <1>1, <3>2, GrowsPrefix DEF SafeInv
    <3>. QED BY <1>1, <3>0, <3>1, <3>2, LogSteps, PlanOK
  <2>2. ASSUME NEW d \in Drivers, pc[d] \in Statuses \cup {"checkpoint"}, pc'[d] \notin {pc[d], "out"}
        PROVE  Checkpoint(d) \/ Conclude(d)
    <3>0. \A x \in Drivers : ~KillInTrim(x)
      BY <1>1, <2>2, TrimKilled, PlanOK DEF InEvent, Statuses
    <3>1. \A x \in Drivers : Start(x) \/ DriverStep(x) \/ Kill(x) => x = d
      BY <1>1, <2>2, DriverOK, PlanOK DEF StepOK, OthersKept, SafeInv
    <3>2. Start(d) \/ DriverStep(d) \/ Kill(d)
      <4>1. ASSUME NEW j \in Jobs, Finish(j) PROVE FALSE
        BY <2>2, <4>1 DEF Finish, locals
      <4>2. UNCHANGED vars => FALSE
        BY <2>2 DEF vars
      <4>. QED BY <1>1, <3>0, <3>1, <4>1, <4>2 DEF Next
    <3>3. ~Kill(d)
      BY <1>1, <2>2 DEF Kill, Forget, Goto, SafeInv, BaseInv, TypeOK
    <3>. QED BY <2>2, <3>2, <3>3 DEF Statuses, Start, DriverStep, Open, Trim, CheckLock, WriteLock,
             Mode, BadMeta, ProbeFails, ReadPlan, Walk, Begin, Send, Answer, Refused, RefusedForGood, Lost
  <2>3. \A d \in Drivers : Kept(d)
    BY <1>1, <2>2, GrowsBy, GrowsPrefix, PlanOK DEF SafeInv
  <2>. QED BY <2>1, <2>3
<1>2. ASSUME SafeInv, SafeInv', [Next]_vars
      PROVE  [/\ \/ IsPrefix(log, log')
                 \/ \E d \in Drivers : pc[d] = "trim" /\ pc'[d] = "out" /\ IsPrefix(log', log)
              /\ \A d \in Drivers :
                   pc[d] \in Statuses \cup {"checkpoint"} /\ pc'[d] \notin {pc[d], "out"} =>
                     Len(log') > Len(log) /\ Last(log') # Bad]_vars
  BY <1>1, <1>2
<1>. QED BY <1>2, SafeForever, PTL DEF Spec, RecordsSurvive
-----------------------------------------------------------------------------
(***************************************************************************)
(* What was recorded was done, and why a job was done twice.               *)
(***************************************************************************)
\* What a driver's step is to the server: an answer, a request that is given
\* up, a checkpoint that a kill prevents, or nothing.
Answered(d) ==
  /\ Answer(d) /\ pc[d] = "call" /\ UNCHANGED <<orphans, unknown>>
  /\ \/ AlreadyThere(Job(d)) /\ UNCHANGED <<effects, accounts>>
     \/ DoJob(Job(d))
GivenUp(d) ==
  /\ pc[d] = "call" /\ Abandon(Job(d)) /\ UNCHANGED <<effects, accounts>>
Forgot(d) ==
  /\ pc[d] = "checkpoint" /\ unknown' = [unknown EXCEPT ![Job(d)] = @ + 1]
  /\ UNCHANGED <<orphans, effects, accounts>>

LEMMA ServerSteps ==
  ASSUME NEW d \in Drivers, Start(d) \/ DriverStep(d) \/ Kill(d)
  PROVE  \/ Answered(d) \/ GivenUp(d) \/ Forgot(d)
         \/ UNCHANGED <<orphans, effects, accounts, unknown>>
<1>1. CASE Answer(d)
  BY <1>1 DEF Answer, Answered, history
<1>2. CASE Lost(d)
  BY <1>2 DEF Lost, GivenUp
<1>3. CASE Kill(d)
  BY <1>3 DEF Kill, GivenUp, Forgot
<1>4. CASE ~Answer(d) /\ ~Lost(d) /\ ~Kill(d)
  BY <1>4 DEF DriverStep, Start, Open, Trim, CheckLock, WriteLock, Mode, BadMeta, ProbeFails, ReadPlan, Walk,
     Begin, Send, Refused, RefusedForGood, Checkpoint, Conclude, server, history
<1>. QED BY <1>1, <1>2, <1>3, <1>4

\* A driver comes to a checkpoint with the answer to its request, and goes on
\* from it by recording it or by being killed.
LEMMA ToCheckpoint ==
  ASSUME PlanOK, BaseInv, NEW d \in Drivers, Start(d) \/ DriverStep(d) \/ Kill(d)
  PROVE  /\ pc'[d] = "checkpoint" => Answered(d) /\ Job(d)' = Job(d)
         /\ pc[d] = "checkpoint" /\ ~Checkpoint(d) => Forgot(d)
<1>. USE DEF BaseInv, TypeOK
<1>1. pc'[d] = "checkpoint" => Answer(d) /\ rest' = rest
  BY DEF DriverStep, Start, Open, Trim, CheckLock, WriteLock, Mode, BadMeta, ProbeFails, ReadPlan, Exit, Forget,
     Goto, Walk, Begin, Send, Answer, Refused, RefusedForGood, Lost, Retry, NextStep, Checkpoint,
     Conclude, Kill
<1>2. Answer(d) => Answered(d) /\ pos' = pos
  BY DEF Answer, Answered, history
<1>3. pc[d] = "checkpoint" /\ ~Checkpoint(d) => Kill(d)
  BY DEF DriverStep, Start, Open, Trim, CheckLock, WriteLock, Mode, BadMeta, ProbeFails, ReadPlan, Walk, Begin,
     Send, Answer, Refused, RefusedForGood, Lost, Conclude, Statuses
<1>4. pc[d] = "checkpoint" /\ Kill(d) => Forgot(d)
  BY DEF Kill, Forgot
<1>5. rest' = rest /\ pos' = pos => Job(d)' = Job(d)
  BY DEF Job
<1>. QED BY <1>1, <1>2, <1>3, <1>4, <1>5

\* The numbers of the server never fall.
LEMMA EffectsGrow ==
  ASSUME PlanOK, BaseInv, [Next]_vars
  PROVE  \A k \in Jobs : effects[k] <= effects'[k]
<1>0. \A k \in Jobs : effects[k] \in Nat
  BY DEF BaseInv, TypeOK
<1>1. ASSUME NEW d \in Drivers, Start(d) \/ DriverStep(d) \/ Kill(d)
      PROVE  \A k \in Jobs : effects[k] <= effects'[k]
  <2>1. CASE effects' = effects
    BY <1>0, <2>1
  <2>2. CASE effects' # effects
    <3>1. DoJob(Job(d)) /\ Job(d) \in Jobs
      BY <1>1, <2>2, ServerSteps, JobFacts DEF Answered, GivenUp, Forgot, Working
    <3>2. \A k \in Jobs : effects'[k] = IF k = Job(d) THEN effects[k] + 1 ELSE effects[k]
      BY <3>1, DoJobEffect
    <3>. QED BY <1>0, <3>2
  <2>. QED BY <2>1, <2>2
<1>2. ASSUME NEW j \in Jobs, Finish(j) PROVE \A k \in Jobs : effects[k] <= effects'[k]
  BY <1>2, FinishEffect
<1>3. CASE UNCHANGED vars
  BY <1>0, <1>3 DEF vars
<1>4. ASSUME NEW d \in Drivers, KillInTrim(d) PROVE \A k \in Jobs : effects[k] <= effects'[k]
  BY <1>0, <1>4 DEF KillInTrim, server
<1>. QED BY <1>1, <1>2, <1>3, <1>4 DEF Next

Did(j) == effects[j] > 0 \/ AlreadyThere(j)

LEMMA DidStays ==
  ASSUME PlanOK, BaseInv, BaseInv', [Next]_vars, NEW j \in Jobs, Did(j)
  PROVE  Did(j)'
<1>0. \A k \in Jobs : effects[k] \in Nat /\ effects'[k] \in Nat /\ effects[k] <= effects'[k]
  BY EffectsGrow DEF BaseInv, TypeOK
<1>1. \A k \in Jobs : effects[k] > 0 => effects'[k] > 0
  BY <1>0
<1>2. \A e \in Events : (Funded(e) => Funded(e)') /\ (Trusts(e) => Trusts(e)')
  BY <1>1 DEF Funded, Trusts, SameWallet
<1>3. j[1] \in Events
  BY DEF Jobs
<1>. QED BY <1>1, <1>2, <1>3 DEF Did, AlreadyThere

\* Every record of the log is one of a job that was done, and so will be the one
\* a driver is about to write.
RecordTrue(rec) ==
  rec.step \in Steps => <<rec.ev, rec.step>> \in Jobs /\ Did(<<rec.ev, rec.step>>)

DoneInv ==
  /\ \A i \in DOMAIN log : RecordTrue(log[i])
  /\ \A d \in Drivers : pc[d] = "checkpoint" => Did(Job(d))

LEMMA DoneNext == ASSUME PlanOK, SafeInv, BaseInv', DoneInv, [Next]_vars PROVE DoneInv'
<1>. USE DEF SafeInv
<1>1. \A j \in Jobs : Did(j) => Did(j)'
  BY DidStays
<1>2. (\A i \in DOMAIN log : RecordTrue(log[i]))'
  <2>0. ASSUME NEW i, NEW rec, log'[i] = rec, RecordTrue(rec)' PROVE RecordTrue(log[i])'
    BY <2>0 DEF RecordTrue, Did, AlreadyThere, Funded, Trusts, SameWallet
  <2>1. \A i \in DOMAIN log : \A rec : rec = log[i] => RecordTrue(rec)'
    BY <1>1 DEF DoneInv, RecordTrue
  <2>2. CASE log' = log
    BY <2>0, <2>1, <2>2
  <2>3. ASSUME NEW rec, Grows(rec), RecordTrue(rec)'
        PROVE  (\A i \in DOMAIN log : RecordTrue(log[i]))'
    <3>1. \A i \in DOMAIN log' : i \in DOMAIN log \/ i = Len(log) + 1
      BY <2>3 DEF Grows, BaseInv, TypeOK
    <3>2. \A i \in DOMAIN log' : \A x : x = log'[i] => RecordTrue(x)'
      BY <2>1, <2>3, <3>1 DEF Grows
    <3>. QED BY <2>0, <3>2
  <2>4. ASSUME NEW d \in Drivers, Checkpoint(d), NEW rec, rec = CheckpointOf(d)
        PROVE  RecordTrue(rec)'
    <3>1. pc[d] = "checkpoint"
      BY <2>4 DEF Checkpoint
    <3>2. Job(d) \in Jobs /\ Job(d) = <<pos[d], Job(d)[2]>>
      BY <3>1, JobFacts DEF Working
    <3>3. Did(Job(d))
      BY <3>1 DEF DoneInv
    <3>4. Job(d) = <<rec.ev, rec.step>>
      BY <2>4, <3>2 DEF CheckpointOf
    <3>. QED BY <1>1, <3>2, <3>3, <3>4 DEF RecordTrue
  <2>5. ASSUME NEW d \in Drivers, NEW rec, rec = FinalOf(d) PROVE RecordTrue(rec)'
    BY <2>5, StepNames DEF FinalOf, RecordTrue
  <2>6. ASSUME NEW d \in Drivers, KillInTrim(d) PROVE (\A i \in DOMAIN log : RecordTrue(log[i]))'
    <3>1. PICK n : CutTo(n)
      BY <2>6, TrimKilled
    <3>2. \A i \in DOMAIN log' : \A x : x = log'[i] => RecordTrue(x)'
      BY <2>1, <3>1 DEF CutTo
    <3>. QED BY <2>0, <3>2
  <2>. QED BY <2>2, <2>3, <2>4, <2>5, <2>6, LogSteps
<1>3. \A d \in Drivers : pc'[d] = "checkpoint" => Did(Job(d))'
  <2>1. ASSUME NEW d \in Drivers, NEW j \in Jobs, Job(d)' = j, Did(j)' PROVE Did(Job(d))'
    BY <2>1 DEF Did, AlreadyThere, Funded, Trusts, SameWallet
  <2>2. ASSUME NEW d \in Drivers, pc[d] = "checkpoint", Job(d)' = Job(d) PROVE Did(Job(d))'
    <3>1. Job(d) \in Jobs /\ Did(Job(d))
      BY <2>2, JobFacts DEF Working, DoneInv
    <3>. QED BY <1>1, <2>1, <2>2, <3>1
  <2>3. ASSUME NEW d \in Drivers, Answered(d), Job(d)' = Job(d) PROVE Did(Job(d))'
    <3>1. Job(d) \in Jobs
      BY <2>3, JobFacts DEF Working, Answered
    <3>2. CASE AlreadyThere(Job(d))
      BY <1>1, <2>1, <2>3, <3>1, <3>2 DEF Did
    <3>3. CASE DoJob(Job(d))
      <4>1. effects'[Job(d)] = effects[Job(d)] + 1 /\ effects[Job(d)] \in Nat
        BY <3>1, <3>3, DoJobEffect DEF BaseInv, TypeOK
      <4>2. effects'[Job(d)'] > 0
        BY <2>3, <4>1
      <4>. QED BY <4>2 DEF Did
    <3>. QED BY <2>3, <3>2, <3>3 DEF Answered
  <2>4. ASSUME NEW d \in Drivers, Start(d) \/ DriverStep(d) \/ Kill(d),
               NEW x \in Drivers, pc'[x] = "checkpoint"
        PROVE  Did(Job(x))'
    <3>1. CASE x = d
      BY <2>3, <2>4, <3>1, ToCheckpoint
    <3>2. CASE x # d
      <4>1. pc'[x] = pc[x] /\ pos'[x] = pos[x] /\ rest'[x] = rest[x]
        BY <2>4, <3>2, DriverOK DEF StepOK, OthersKept
      <4>. QED BY <2>2, <2>4, <4>1 DEF Job
    <3>. QED BY <3>1, <3>2
  <2>5. ASSUME UNCHANGED locals, NEW x \in Drivers, pc'[x] = "checkpoint" PROVE Did(Job(x))'
    BY <2>2, <2>5 DEF locals, Job
  <2>6. CASE UNCHANGED locals
    BY <2>5, <2>6
  <2>7. ASSUME NEW d \in Drivers, KillInTrim(d), NEW x \in Drivers PROVE pc'[x] # "checkpoint"
    BY <2>7, TrimKilled DEF InEvent
  <2>. QED BY <2>4, <2>6, <2>7 DEF Next, vars, Finish, locals
<1>. QED BY <1>2, <1>3 DEF DoneInv

\* What the log says was done was done.
THEOREM RecordedWork == Spec => []RecordedWasDone
<1>1. Init => DoneInv
  BY DEF Init, DoneInv
<1>2. SafeInv /\ BaseInv' /\ DoneInv /\ [Next]_vars => DoneInv'
  BY DoneNext, PlanOK
<1>3. DoneInv => RecordedWasDone
  BY DEF DoneInv, RecordTrue, RecordedWasDone, Did
<1>4. SafeInv => BaseInv
  BY DEF SafeInv
<1>. QED BY <1>1, <1>2, <1>3, <1>4, SafeForever, PTL DEF Spec

\* A job has a checkpoint in the log.
InLog(j) == \E i \in DOMAIN log : log[i].ev = j[1] /\ log[i].step = j[2]
JobAt(d, i) == <<pos[d], ScriptOf(pos[d])[i]>>

\* No step that a driver still has to make is in the log.  (register and the
\* steps before it have checkpoints; the others are not looked at.)
FreshInv ==
  \A d \in Drivers : Working(d) =>
    \A i \in rest[d] : JobAt(d, i)[2] \notin Unmarked => ~InLog(JobAt(d, i))

\* What a driver that works was doing before.
LEMMA WorkSteps ==
  ASSUME PlanOK, BaseInv, NEW d \in Drivers, Start(d) \/ DriverStep(d) \/ Kill(d), Working(d)'
  PROVE  \/ Begin(d)
         \/ Working(d) /\ pos'[d] = pos[d] /\ rest'[d] \subseteq rest[d] /\ ~Checkpoint(d) /\ ~Conclude(d)
         \/ Checkpoint(d) /\ Working(d) /\ pos'[d] = pos[d] /\ rest'[d] = rest[d] \ {Min(rest[d])}
<1>1. \/ Working(d) /\ pos'[d] = pos[d] /\ (rest'[d] = rest[d] \/ NextStep(d))
      \/ Begin(d)
  BY DEF Working, DriverStep, Start, Open, Trim, CheckLock, WriteLock, Mode, BadMeta, ProbeFails, ReadPlan, Exit,
     Forget, Goto, Walk, Begin, Send, Answer, Refused, RefusedForGood, Lost, Retry, Checkpoint,
     Conclude, Statuses, Kill, BaseInv, TypeOK
<1>2. ASSUME Working(d), NextStep(d) PROVE rest'[d] = rest[d] \ {Min(rest[d])}
  <2>1. rest' = [rest EXCEPT ![d] = rest[d] \ {Min(rest[d])}]
    BY <1>2, NextStepEffect
  <2>. QED BY <2>1 DEF BaseInv, TypeOK
<1>3. Checkpoint(d) => NextStep(d) /\ Working(d)
  BY DEF Checkpoint, Working
<1>4. Working(d) => ~Conclude(d)
  BY DEF Conclude, Statuses, Working
<1>. QED BY <1>1, <1>2, <1>3, <1>4, Zenon

LEMMA FreshNext == ASSUME PlanOK, SafeInv, BaseInv', FreshInv, [Next]_vars PROVE FreshInv'
<1>. USE DEF SafeInv
<1>1. ASSUME NEW d \in Drivers, Start(d) \/ DriverStep(d) \/ Kill(d), NEW x \in Drivers, Working(x)',
             NEW i \in rest'[x], NEW j, JobAt(x, i)' = j, j[2] \notin Unmarked
      PROVE  ~InLog(j)'
  <2>1. CASE x # d
    <3>1. pc'[x] = pc[x] /\ rest'[x] = rest[x] /\ pos'[x] = pos[x]
      BY <1>1, <2>1, DriverOK DEF StepOK, OthersKept
    <3>2. ~Checkpoint(d) /\ ~Conclude(d)
      BY <1>1, <2>1, <3>1 DEF LockInv, Working, Running, Checkpoint, Conclude, Statuses
    <3>3. log' = log
      BY <1>1, <3>2, LogKept
    <3>4. ~InLog(j)
      BY <1>1, <3>1 DEF FreshInv, Working, JobAt
    <3>. QED BY <3>3, <3>4 DEF InLog
  <2>2. CASE x = d /\ Begin(d)
    <3>1. pos' = pos /\ log' = log /\ (BeginsTick(d) \/ BeginsSteps(d)) /\ pos[d] \in Events
          /\ pc[d] = "begin"
      <4>1. ~BeginsOver(d)
        BY <1>1, <2>2 DEF BeginsOver, Working, Statuses, BaseInv, TypeOK
      <4>2. pos' = pos /\ log' = log /\ pc[d] = "begin"
        BY <2>2, BeginCases DEF files
      <4>3. pos[d] \in Events
        BY <4>2 DEF BaseInv, ControlOK, ControlInv, InEvent
      <4>. QED BY <2>2, <4>1, <4>2, <4>3, BeginCases
    <3>2. j = <<pos[d], ScriptOf(pos[d])[i]>>
      BY <1>1, <2>2, <3>1 DEF JobAt
    <3>3. CASE BeginsTick(d)
      <4>1. rest'[d] = DOMAIN ScriptOf(pos[d]) /\ ScriptOf(pos[d]) = Script["tick"]
        BY <3>3 DEF BeginsTick, BaseInv, TypeOK, ScriptOf
      <4>2. \A l \in DOMAIN Script["tick"] : Script["tick"][l] = "tick"
        BY DEF Script
      <4>. QED BY <1>1, <2>2, <3>2, <4>1, <4>2 DEF Unmarked
    <3>4. CASE BeginsSteps(d)
      <4>1. rest'[d] = StepsLeft(pos[d])
        BY <3>4 DEF BeginsSteps, BaseInv, TypeOK
      <4>2. ScriptOf(pos[d])[i] \notin Recorded(pos[d]) /\ i \in DOMAIN ScriptOf(pos[d])
        BY <1>1, <2>2, <4>1 DEF StepsLeft, Done
      <4>3. ScriptOf(pos[d])[i] # "final"
        BY <3>1, <4>2, PlanFacts, StepNames
      <4>4. \A l \in DOMAIN log : ~(log[l].ev = pos[d] /\ log[l].step = ScriptOf(pos[d])[i])
        BY <4>2, <4>3 DEF Recorded, RecordsOf
      <4>. QED BY <3>1, <3>2, <4>4 DEF InLog
    <3>. QED BY <3>1, <3>3, <3>4
  <2>3. CASE x = d /\ Working(d) /\ pos'[d] = pos[d] /\ rest'[d] \subseteq rest[d]
                   /\ ~Checkpoint(d) /\ ~Conclude(d)
    <3>1. log' = log
      BY <1>1, <2>3, LogKept
    <3>2. j = JobAt(d, i) /\ i \in rest[d]
      BY <1>1, <2>3 DEF JobAt
    <3>. QED BY <1>1, <2>3, <3>1, <3>2 DEF FreshInv, InLog
  <2>4. CASE x = d /\ Checkpoint(d) /\ Working(d) /\ pos'[d] = pos[d]
                   /\ rest'[d] = rest[d] \ {Min(rest[d])}
    <3>1. j = JobAt(d, i) /\ i \in rest[d] /\ i # Min(rest[d])
      BY <1>1, <2>4 DEF JobAt
    <3>2. ~InLog(j)
      BY <1>1, <2>4, <3>1 DEF FreshInv
    <3>3. /\ pos[d] \in Events /\ Min(rest[d]) \in DOMAIN ScriptOf(pos[d])
          /\ Job(d)[2] = ScriptOf(pos[d])[Min(rest[d])]
          /\ i \in DOMAIN ScriptOf(pos[d])
      BY <2>4, <3>1, JobFacts DEF BaseInv, ControlOK, ControlInv
    <3>4. ScriptOf(pos[d])[i] # Job(d)[2]
      BY <3>1, <3>3, PlanFacts, ScriptSteps DEF ScriptOf
    <3>5. Grows(CheckpointOf(d)) /\ CheckpointOf(d).step # j[2]
      BY <2>4, <3>1, <3>4, GrowsBy DEF CheckpointOf, JobAt
    <3>6. \A l \in DOMAIN log' : l \in DOMAIN log \/ l = Len(log) + 1
      BY <3>5, GrownDomain
    <3>. QED BY <3>2, <3>5, <3>6 DEF Grows, InLog
  <2>. QED BY <1>1, <2>1, <2>2, <2>3, <2>4, WorkSteps
<1>2. ASSUME UNCHANGED locals, log' = log PROVE FreshInv'
  BY <1>2 DEF FreshInv, locals, Working, JobAt, InLog
<1>3. ASSUME NEW d \in Drivers, Start(d) \/ DriverStep(d) \/ Kill(d) PROVE FreshInv'
  <2>1. ASSUME NEW x \in Drivers, NEW i, NEW j, JobAt(x, i)' = j, ~InLog(j)' PROVE ~InLog(JobAt(x, i))'
    BY <2>1 DEF InLog
  <2>2. ASSUME NEW x \in Drivers, NEW i, NEW j, JobAt(x, i)' = j, (JobAt(x, i)[2] \notin Unmarked)'
        PROVE  j[2] \notin Unmarked
    BY <2>2
  <2>. QED BY <1>1, <1>3, <2>1, <2>2 DEF FreshInv
<1>4. ASSUME NEW d \in Drivers, KillInTrim(d) PROVE FreshInv'
  <2>1. \A x \in Drivers : ~Working(x)'
    BY <1>4, TrimKilled DEF InEvent, Working
  <2>. QED BY <2>1 DEF FreshInv
<1>. QED BY <1>2, <1>3, <1>4 DEF Next, Finish, vars, files, locals

\* How often a job was done or may still be done: once more than requests for it
\* were given up or its record was lost, and that once only if its checkpoint is in the log or a driver
\* is about to write it.
Unrecorded(j) == ~InLog(j) /\ \A d \in Drivers : pc[d] = "checkpoint" => Job(d) # j
CountOf(j) ==
  /\ effects[j] + orphans[j] <= unknown[j] + 1
  /\ Unrecorded(j) => effects[j] + orphans[j] <= unknown[j]
CountInv == \A j \in Jobs : j[2] \notin Unmarked => CountOf(j)

LEMMA InLogStays ==
  ASSUME PlanOK, SafeInv, log' = log \/ \E rec : Grows(rec), NEW j, InLog(j)
  PROVE  InLog(j)'
<1>1. log' = log => InLog(j)'
  BY DEF InLog
<1>2. ASSUME NEW rec, Grows(rec) PROVE InLog(j)'
  BY <1>2, GrownDomain DEF Grows, InLog, SafeInv
<1>. QED BY <1>1, <1>2

\* Whose record is lost when the log is cut short, and whose is not.
LEMMA InLogCut ==
  ASSUME NEW n, SafeInv, CutTo(n), NEW j \in Jobs, InLog(j), ~InLog(j)'
  PROVE  j \in LostJobs(n)
<1>1. PICK i \in DOMAIN log : log[i].ev = j[1] /\ log[i].step = j[2]
  BY DEF InLog
<1>2. i \notin 1..n
  BY <1>1 DEF CutTo, InLog
<1>3. i \in n + 1..Len(log)
  <2>1. log \in Seq(Lines) /\ n \in 0..Len(log)
    BY DEF SafeInv, BaseInv, TypeOK, CutTo
  <2>. QED BY <1>1, <1>2, <2>1
<1>4. j = <<j[1], j[2]>>
  BY DEF Jobs
<1>. QED BY <1>1, <1>3, <1>4 DEF LostJobs, LostLines

\* A job is unrecorded after a step only if it was before, unless a driver was
\* about to record it.
LEMMA UnrecordedBefore ==
  ASSUME PlanOK, SafeInv, NEW d \in Drivers, Start(d) \/ DriverStep(d) \/ Kill(d),
         NEW j, pc[d] = "checkpoint" => Job(d) # j, Unrecorded(j)'
  PROVE  Unrecorded(j)
<1>1. ~InLog(j)
  BY InLogStays, LogKept, GrowsBy DEF Unrecorded
<1>2. ASSUME NEW x \in Drivers \ {d}, pc[x] = "checkpoint" PROVE Job(x) # j
  <2>1. pc'[x] = pc[x] /\ pos'[x] = pos[x] /\ rest'[x] = rest[x]
    BY <1>2, DriverOK DEF StepOK, OthersKept, SafeInv
  <2>2. Job(x)' = Job(x)
    BY <2>1 DEF Job
  <2>. QED BY <1>2, <2>1, <2>2 DEF Unrecorded
<1>. QED BY <1>1, <1>2 DEF Unrecorded

LEMMA CountNext ==
  ASSUME PlanOK, SafeInv, BaseInv', FreshInv, CountInv, [Next]_vars
  PROVE  CountInv'
<1>. USE DEF SafeInv
<1>0. \A j \in Jobs : /\ effects[j] \in Nat /\ orphans[j] \in Nat /\ unknown[j] \in Nat
                      /\ effects'[j] \in Nat /\ orphans'[j] \in Nat /\ unknown'[j] \in Nat
  BY DEF BaseInv, TypeOK
<1>1. ASSUME NEW d \in Drivers, Start(d) \/ DriverStep(d) \/ Kill(d), NEW j \in Jobs, j[2] \notin Unmarked
      PROVE  CountOf(j)'
  <2>0. CountOf(j)
    BY <1>1 DEF CountInv
  <2>1. CASE effects'[j] + orphans'[j] <= effects[j] + orphans[j] /\ unknown'[j] = unknown[j]
             /\ ~(pc[d] = "checkpoint" /\ Job(d) = j)
    <3>1. Unrecorded(j)' => Unrecorded(j)
      BY <1>1, <2>1, UnrecordedBefore
    <3>. QED BY <1>0, <2>0, <2>1, <3>1 DEF CountOf
  <2>2. CASE Answered(d)
    <3>1. pc[d] = "call" /\ Job(d) \in Jobs /\ Working(d)
      BY <2>2, JobFacts DEF Answered, Working
    <3>2. CASE AlreadyThere(Job(d)) /\ UNCHANGED <<effects, accounts>>
      BY <1>0, <2>1, <2>2, <3>1, <3>2 DEF Answered
    <3>3. CASE DoJob(Job(d)) /\ Job(d) # j
      <4>1. effects'[j] = effects[j]
        BY <1>1, <3>1, <3>3, DoJobEffect
      <4>. QED BY <1>0, <2>1, <2>2, <3>1, <4>1 DEF Answered
    <3>4. CASE DoJob(Job(d)) /\ Job(d) = j
      <4>1. effects'[j] = effects[j] + 1 /\ orphans' = orphans /\ unknown' = unknown
        BY <2>2, <3>1, <3>4, DoJobEffect DEF Answered
      <4>2. ~InLog(j)
        <5>1. Min(rest[d]) \in rest[d] /\ JobAt(d, Min(rest[d])) = j
          BY <3>1, <3>4, JobFacts DEF JobAt
        <5>. QED BY <1>1, <3>1, <5>1 DEF FreshInv
      <4>3. Unrecorded(j)
        BY <3>1, <4>2 DEF Unrecorded, LockInv, Running
      <4>4. pc'[d] = "checkpoint" /\ Job(d)' = j
        BY <1>1, <2>2, <3>4 DEF Answered, Answer, Goto, Job, BaseInv, TypeOK
      <4>5. ~Unrecorded(j)'
        BY <4>4 DEF Unrecorded
      <4>. QED BY <1>0, <2>0, <4>1, <4>3, <4>5 DEF CountOf
    <3>. QED BY <2>2, <3>2, <3>3, <3>4 DEF Answered
  <2>3. CASE GivenUp(d)
    <3>1. pc[d] = "call" /\ Job(d) \in Jobs
      BY <2>3, JobFacts DEF GivenUp, Working
    <3>2. Unrecorded(j)' => Unrecorded(j)
      BY <1>1, <3>1, UnrecordedBefore
    <3>3. effects'[j] = effects[j]
      BY <2>3 DEF GivenUp
    <3>4. CASE Job(d) = j
      <4>1. orphans'[j] = orphans[j] + 1 /\ unknown'[j] = unknown[j] + 1
        BY <2>3, <3>1, <3>4, AbandonEffect DEF GivenUp
      <4>. QED BY <1>0, <2>0, <3>2, <3>3, <4>1 DEF CountOf
    <3>5. CASE Job(d) # j
      <4>1. orphans'[j] = orphans[j] /\ unknown'[j] = unknown[j]
        BY <2>3, <3>1, <3>5, AbandonEffect DEF GivenUp
      <4>. QED BY <1>0, <2>0, <3>2, <3>3, <4>1 DEF CountOf
    <3>. QED BY <3>4, <3>5
  <2>4. CASE Forgot(d)
    <3>1. pc[d] = "checkpoint" /\ Job(d) \in Jobs /\ orphans' = orphans /\ effects' = effects
          /\ unknown' = [unknown EXCEPT ![Job(d)] = unknown[Job(d)] + 1]
      BY <2>4, JobFacts DEF Forgot, Working
    <3>2. unknown'[j] = IF Job(d) = j THEN unknown[j] + 1 ELSE unknown[j]
      BY <3>1 DEF BaseInv, TypeOK
    <3>3. CASE Job(d) = j
      BY <1>0, <2>0, <3>1, <3>2, <3>3 DEF CountOf
    <3>4. CASE Job(d) # j
      BY <1>0, <2>1, <3>1, <3>2, <3>4
    <3>. QED BY <3>3, <3>4
  <2>5. CASE UNCHANGED <<orphans, effects, accounts, unknown>> /\ ~Forgot(d)
    <3>1. CASE pc[d] = "checkpoint" /\ Job(d) = j
      <4>1. Checkpoint(d) /\ Grows(CheckpointOf(d))
        BY <1>1, <2>5, <3>1, ToCheckpoint, GrowsBy
      <4>2. CheckpointOf(d).ev = j[1] /\ CheckpointOf(d).step = j[2]
        BY <3>1, JobFacts DEF CheckpointOf, Working
      <4>3. Len(log) + 1 \in DOMAIN log'
        BY <4>1 DEF Grows, BaseInv, TypeOK
      <4>4. ~Unrecorded(j)'
        BY <4>1, <4>2, <4>3 DEF Unrecorded, InLog, Grows
      <4>. QED BY <1>0, <2>0, <2>5, <4>4 DEF CountOf
    <3>2. CASE ~(pc[d] = "checkpoint" /\ Job(d) = j)
      BY <1>0, <2>1, <2>5, <3>2
    <3>. QED BY <3>1, <3>2
  <2>. QED BY <1>1, <2>2, <2>3, <2>4, <2>5, ServerSteps
<1>2. ASSUME UNCHANGED <<locals, log, unknown>>, NEW j \in Jobs, j[2] \notin Unmarked,
             effects'[j] + orphans'[j] <= effects[j] + orphans[j]
      PROVE  CountOf(j)'
  <2>1. Unrecorded(j)' => Unrecorded(j)
    BY <1>2 DEF Unrecorded, InLog, Job, locals
  <2>2. CountOf(j)
    BY <1>2 DEF CountInv
  <2>. QED BY <1>0, <1>2, <2>1, <2>2 DEF CountOf
<1>3. ASSUME NEW k \in Jobs, Finish(k) PROVE CountInv'
  <2>1. UNCHANGED <<locals, log, unknown>>
        /\ \A j \in Jobs : effects'[j] + orphans'[j] <= effects[j] + orphans[j]
    BY <1>3, FinishEffect DEF files, history
  <2>. QED BY <1>2, <2>1 DEF CountInv
<1>4. CASE UNCHANGED vars
  <2>1. UNCHANGED <<locals, log, unknown>>
        /\ \A j \in Jobs : effects'[j] + orphans'[j] <= effects[j] + orphans[j]
    BY <1>0, <1>4 DEF vars, locals
  <2>. QED BY <1>2, <2>1 DEF CountInv
<1>5. ASSUME NEW d \in Drivers, KillInTrim(d), NEW j \in Jobs, j[2] \notin Unmarked
      PROVE  CountOf(j)'
  <2>1. PICK n : CutTo(n)
    BY <1>5, TrimKilled
  <2>2. effects'[j] = effects[j] /\ orphans'[j] = orphans[j] /\ CountOf(j)
    BY <1>5, TrimKilled DEF CountInv
  <2>3. CASE j \in LostJobs(n)
    <3>1. unknown'[j] = unknown[j] + 1
      BY <2>1, <2>3 DEF CutTo
    <3>. QED BY <1>0, <2>2, <3>1 DEF CountOf
  <2>4. CASE j \notin LostJobs(n)
    <3>1. unknown'[j] = unknown[j]
      BY <2>1, <2>4 DEF CutTo
    <3>2. \A x \in Drivers : pc[x] # "checkpoint"
      BY <1>5, TrimKilled DEF InEvent
    <3>3. Unrecorded(j)' => Unrecorded(j)
      BY <2>1, <2>4, <3>2, InLogCut DEF Unrecorded
    <3>. QED BY <1>0, <2>2, <3>1, <3>3 DEF CountOf
  <2>. QED BY <2>3, <2>4
<1>. QED BY <1>1, <1>3, <1>4, <1>5 DEF Next, CountInv

\* A job is done at most once more often than requests for it were given up or
\* its record was lost: however it is interrupted, a driver makes no step again that it knows done.
THEOREM NothingTwice == Spec => []DuplicatesExplained
<1>1. Init => FreshInv /\ CountInv
  BY DEF Init, FreshInv, Working, CountInv, CountOf, Unrecorded
<1>2. SafeInv /\ BaseInv' /\ FreshInv /\ CountInv /\ [Next]_vars => FreshInv' /\ CountInv'
  BY FreshNext, CountNext, PlanOK
<1>3. SafeInv => BaseInv
  BY DEF SafeInv
<1>4. SafeInv /\ CountInv => DuplicatesExplained
  <2>. SUFFICES ASSUME SafeInv, CountInv, NEW j \in Once PROVE effects[j] <= 1 + unknown[j]
    BY DEF DuplicatesExplained
  <2>1. j \in Jobs /\ j[2] \notin Unmarked
    BY DEF Once
  <2>2. effects[j] \in Nat /\ orphans[j] \in Nat /\ unknown[j] \in Nat
    BY <2>1 DEF SafeInv, BaseInv, TypeOK
  <2>. QED BY <2>1, <2>2 DEF CountInv, CountOf
<1>. QED BY <1>1, <1>2, <1>3, <1>4, SafeForever, PTL DEF Spec

-----------------------------------------------------------------------------
(***************************************************************************)
(* One account per wallet.                                                 *)
(***************************************************************************)
\* The log holds the deployment of account a for wallet w.
DeployRecord(i) == i \in DOMAIN log /\ log[i].step = "deploy"
HasAccount(w, a) == \E i : DeployRecord(i) /\ Plan[log[i].ev].wallet = w /\ log[i].acct = a
HadAccount(w, a, k) ==
  \E i : DeployRecord(i) /\ i < k /\ Plan[log[i].ev].wallet = w /\ log[i].acct = a

\* One deployment per wallet is in the log, and the final record of the wallet's
\* onboarding comes after it and names its account.
DeployInv ==
  /\ \A i : DeployRecord(i) => /\ log[i].ev \in Events /\ Plan[log[i].ev].kind = "onboard"
                               /\ log[i].acct > 0
  /\ \A i, l : DeployRecord(i) /\ DeployRecord(l)
                /\ Plan[log[i].ev].wallet = Plan[log[l].ev].wallet => i = l
  /\ \A i \in DOMAIN log :
       log[i].step = "final" /\ log[i].status = "ok" /\ Plan[log[i].ev].kind = "onboard" =>
         HadAccount(Plan[log[i].ev].wallet, log[i].acct, i)

\* A driver works for the account of its wallet, once there is one, ...
HeldInv(d) ==
  Working(d) \/ pc[d] = "ok" =>
    \/ Plan[pos[d]].kind \in {"tick", "snapshot"}
    \/ Plan[pos[d]].kind = "onboard" /\ 2 \in rest[d]
    \/ HasAccount(Plan[pos[d]].wallet, acct[d])

\* ... and records the one it has just deployed.
NewInv(d) == pc[d] = "checkpoint" /\ Job(d)[2] = "deploy" => acct[d] > 0

Named(x) == x[1][2] \notin {"friendbot", "deploy", "tick"}
AskedInv == \A x \in asked : Named(x) => HasAccount(Plan[x[1][1]].wallet, x[2])

AccountInv ==
  /\ DeployInv /\ AskedInv
  /\ \A d \in Drivers : HeldInv(d) /\ NewInv(d)

LEMMA HasAccountStays ==
  ASSUME PlanOK, SafeInv, log' = log \/ \E rec : Grows(rec)
  PROVE  \A w, a : HasAccount(w, a) => HasAccount(w, a)'
<1>1. CASE log' = log
  BY <1>1 DEF HasAccount, DeployRecord
<1>2. ASSUME NEW rec, Grows(rec) PROVE \A w, a : HasAccount(w, a) => HasAccount(w, a)'
  BY <1>2, GrownDomain DEF Grows, HasAccount, DeployRecord, SafeInv
<1>. QED BY <1>1, <1>2

\* Where a driver is with its script.
LEMMA PlaceFacts ==
  ASSUME PlanOK, BaseInv, NEW d \in Drivers, Working(d)
  PROVE  /\ Job(d)[2] = "deploy" <=> Plan[pos[d]].kind = "onboard" /\ Min(rest[d]) = 2
         /\ Job(d)[2] = "friendbot" <=> Plan[pos[d]].kind = "onboard" /\ Min(rest[d]) = 1
         /\ Job(d)[2] = "tick" <=> Plan[pos[d]].kind = "tick"
         /\ Job(d)[2] \in Unmarked => Plan[pos[d]].kind # "onboard"
         /\ Plan[pos[d]].kind # "snapshot"
         /\ Min(rest[d]) \in 1..5
<1>1. /\ pos[d] \in Events /\ Min(rest[d]) \in DOMAIN ScriptOf(pos[d])
      /\ Job(d)[2] = ScriptOf(pos[d])[Min(rest[d])]
  BY JobFacts
<1>2. Plan[pos[d]].kind \in Kinds /\ Min(rest[d]) \in 1..5
  BY <1>1, PlanFacts
<1>3. DOMAIN Script["snapshot"] = {}
  BY DEF Script
<1>. QED BY <1>1, <1>2, <1>3, ScriptSteps DEF ScriptOf

\* What an event that was begun knows of its account.
LEMMA BegunAccount ==
  ASSUME PlanOK, SafeInv, DeployInv, NEW d \in Drivers, BeginsSteps(d), pos[d] \in Events
  PROVE  \/ Plan[pos[d]].kind = "onboard" /\ 2 \in rest'[d]
         \/ HasAccount(Plan[pos[d]].wallet, acct'[d])
<1>. DEFINE e == pos[d]  w == Plan[e].wallet
<1>0. log \in Seq(Lines) /\ Len(log) \in Nat /\ DOMAIN log = 1..Len(log)
  BY DEF SafeInv, BaseInv, TypeOK
<1>1. /\ acct'[d] = IF Plan[e].kind = "onboard" THEN DeployOf(e) ELSE AccountOf(w)
      /\ rest'[d] = StepsLeft(e)
      /\ Plan[e].kind # "onboard" => acct'[d] # 0
  BY DEF BeginsSteps, SafeInv, BaseInv, TypeOK
<1>2. CASE Plan[e].kind = "onboard" /\ 2 \notin rest'[d]
  <2>. DEFINE I == {i \in RecordsOf(e) : log[i].step = "deploy"}
  <2>1. 2 \in DOMAIN ScriptOf(e) /\ ScriptOf(e)[2] = "deploy"
    BY <1>2, PlanFacts, ScriptSteps DEF ScriptOf
  <2>2. "deploy" \in Recorded(e)
    BY <1>1, <1>2, <2>1 DEF StepsLeft, Done
  <2>3. I # {} /\ I \subseteq 1..Len(log)
    BY <1>0, <2>2 DEF Recorded, RecordsOf
  <2>4. Max(I) \in I
    <3>. HIDE DEF I
    <3>. QED BY <1>0, <2>3, GreatestNumber
  <2>5. acct'[d] = log[Max(I)].acct
    BY <1>1, <1>2, <2>3 DEF DeployOf
  <2>. QED BY <2>4, <2>5 DEF HasAccount, DeployRecord, RecordsOf
<1>3. CASE Plan[e].kind # "onboard"
  <2>. DEFINE I == {i \in DOMAIN log : /\ log[i].step = "final" /\ log[i].status = "ok"
                                       /\ Plan[log[i].ev] = [kind |-> "onboard", wallet |-> w]}
  <2>1. I # {} /\ acct'[d] = log[Max(I)].acct
    BY <1>1, <1>3 DEF AccountOf
  <2>2. I \subseteq 1..Len(log)
    BY <1>0
  <2>3. Max(I) \in I
    <3>. HIDE DEF I
    <3>. QED BY <1>0, <2>1, <2>2, GreatestNumber
  <2>4. \E i \in DOMAIN log : /\ log[i].step = "final" /\ log[i].status = "ok"
                              /\ Plan[log[i].ev] = [kind |-> "onboard", wallet |-> w]
                              /\ acct'[d] = log[i].acct
    BY <2>1, <2>3
  <2>. QED BY <2>4 DEF DeployInv, HasAccount, HadAccount
<1>. QED BY <1>2, <1>3

\* How a driver comes to work on, or to have made, the steps of an event.
LEMMA HeldSteps ==
  ASSUME PlanOK, SafeInv, NEW d \in Drivers, Start(d) \/ DriverStep(d) \/ Kill(d),
         Working(d)' \/ pc'[d] = "ok"
  PROVE  \/ Begin(d) /\ pos' = pos
         \/ Working(d) /\ Working(d)' /\ pos'[d] = pos[d] /\ rest'[d] = rest[d] /\ acct'[d] = acct[d]
            /\ pc'[d] # "checkpoint"
         \/ Answer(d) /\ Working(d) /\ pos' = pos
         \/ Checkpoint(d) /\ Working(d) /\ pos' = pos /\ acct' = acct
<1>. USE DEF Working, Goto, SafeInv, BaseInv, TypeOK
<1>1. CASE Start(d) \/ Kill(d) \/ Open(d) \/ Trim(d) \/ CheckLock(d) \/ WriteLock(d)
  BY <1>1 DEF Start, Kill, Forget, Open, Trim, CheckLock, WriteLock
<1>2. CASE Mode(d) \/ BadMeta(d) \/ ProbeFails(d) \/ ReadPlan(d) \/ Walk(d) \/ Conclude(d)
  BY <1>2 DEF Mode, BadMeta, ProbeFails, ReadPlan, Walk, Conclude, Exit, Forget
<1>3. CASE Begin(d)
  BY <1>3 DEF Begin
<1>4. CASE Send(d) \/ RefusedForGood(d)
  BY <1>4 DEF Send, RefusedForGood
<1>5. CASE Refused(d) \/ Lost(d)
  BY <1>5 DEF Refused, Lost, Retry
<1>6. CASE Answer(d) \/ Checkpoint(d)
  BY <1>6 DEF Answer, Checkpoint
<1>. QED BY <1>1, <1>2, <1>3, <1>4, <1>5, <1>6 DEF DriverStep
\* The log's part: a driver records a deployment only if the log has none.
LEMMA DeployNext ==
  ASSUME PlanOK, SafeInv, BaseInv', FreshInv, AccountInv, [Next]_vars
  PROVE  DeployInv'
<1>. USE DEF SafeInv
<1>1. CASE log' = log
  BY <1>1 DEF AccountInv, DeployInv, DeployRecord, HadAccount
<1>2. ASSUME NEW d \in Drivers, Checkpoint(d), Grows(CheckpointOf(d)) PROVE DeployInv'
  <2>. DEFINE n == Len(log) + 1  e == pos[d]
  <2>1. /\ pc[d] = "checkpoint" /\ Working(d) /\ e \in Events /\ log'[n].ev = e
        /\ log'[n].step = Job(d)[2] /\ log'[n].acct = acct[d]
        /\ Job(d)[2] # "final"
    BY <1>2, JobFacts, StepNames DEF Checkpoint, Working, Grows, CheckpointOf
  <2>2. /\ n \notin DOMAIN log /\ n \in DOMAIN log'
        /\ \A i \in DOMAIN log' : i \in DOMAIN log \/ i = n
        /\ \A i \in DOMAIN log : i \in DOMAIN log' /\ log'[i] = log[i]
    BY <1>2, GrownDomain DEF Grows
  <2>. HIDE DEF n
  <2>3. CASE Job(d)[2] # "deploy"
    <3>1. \A i : DeployRecord(i)' <=> DeployRecord(i)
      BY <2>1, <2>2, <2>3 DEF DeployRecord
    <3>3. \A i : DeployRecord(i) => log'[i] = log[i]
      BY <2>2 DEF DeployRecord
    <3>4. (\A i : DeployRecord(i) => /\ log[i].ev \in Events /\ Plan[log[i].ev].kind = "onboard"
                                     /\ log[i].acct > 0)'
      BY <3>1, <3>3 DEF AccountInv, DeployInv
    <3>5. (\A i, l : DeployRecord(i) /\ DeployRecord(l)
                    /\ Plan[log[i].ev].wallet = Plan[log[l].ev].wallet => i = l)'
      BY <3>1, <3>3 DEF AccountInv, DeployInv
    <3>6. \A i \in DOMAIN log' : log'[i].step = "final" => i \in DOMAIN log /\ log'[i] = log[i]
      BY <2>1, <2>2
    <3>7. ASSUME NEW i \in DOMAIN log', log'[i].step = "final", log'[i].status = "ok",
                 Plan[log'[i].ev].kind = "onboard"
          PROVE  HadAccount(Plan[log[i].ev].wallet, log[i].acct, i)'
      <4>1. HadAccount(Plan[log[i].ev].wallet, log[i].acct, i) /\ log'[i] = log[i]
        BY <3>6, <3>7 DEF AccountInv, DeployInv
      <4>. QED BY <3>1, <3>3, <4>1 DEF HadAccount
    <3>. QED BY <3>4, <3>5, <3>7 DEF DeployInv
  <2>4. CASE Job(d)[2] = "deploy"
    <3>1. Plan[e].kind = "onboard" /\ Job(d) = <<e, "deploy">> /\ acct[d] > 0
      BY <2>1, <2>4, PlaceFacts, JobFacts DEF AccountInv, NewInv
    <3>2. ~InLog(Job(d))
      <4>1. Min(rest[d]) \in rest[d] /\ JobAt(d, Min(rest[d])) = Job(d)
        BY <2>1, JobFacts DEF JobAt
      <4>. QED BY <2>1, <2>4, <4>1 DEF FreshInv, Unmarked
    <3>3. ASSUME NEW i, DeployRecord(i) PROVE Plan[log[i].ev].wallet # Plan[e].wallet
      <4>1. log[i].ev \in Events /\ Plan[log[i].ev].kind = "onboard" /\ log[i].ev # e
        BY <3>1, <3>2, <3>3 DEF AccountInv, DeployInv, InLog, DeployRecord
      <4>2. Plan \in Seq([kind : Kinds, wallet : Nat])
        BY DEF PlanOK
      <4>3. Plan[log[i].ev] \in [kind : Kinds, wallet : Nat] /\ Plan[e] \in [kind : Kinds, wallet : Nat]
        <5>1. Events = 1..Len(Plan)
          BY <4>2 DEF Events
        <5>. QED BY <2>1, <4>1, <4>2, <5>1, ElementOfSeq
      <4>4. Plan[log[i].ev] # Plan[e]
        BY <2>1, <3>1, <4>1 DEF PlanOK
      <4>. QED BY <3>1, <4>1, <4>3, <4>4
    <3>4. \A i : DeployRecord(i)' <=> DeployRecord(i) \/ i = n
      BY <2>1, <2>2, <2>4 DEF DeployRecord
    <3>5. \A i : DeployRecord(i) => log'[i] = log[i]
      BY <2>2 DEF DeployRecord
    <3>6. (\A i : DeployRecord(i) => /\ log[i].ev \in Events /\ Plan[log[i].ev].kind = "onboard"
                                     /\ log[i].acct > 0)'
      BY <2>1, <3>1, <3>4, <3>5 DEF AccountInv, DeployInv
    <3>7. (\A i, l : DeployRecord(i) /\ DeployRecord(l)
                    /\ Plan[log[i].ev].wallet = Plan[log[l].ev].wallet => i = l)'
      BY <2>1, <3>1, <3>3, <3>4, <3>5 DEF AccountInv, DeployInv
    <3>8. \A i \in DOMAIN log' : log'[i].step = "final" => i \in DOMAIN log /\ log'[i] = log[i]
      BY <2>1, <2>2
    <3>9. ASSUME NEW i \in DOMAIN log', log'[i].step = "final", log'[i].status = "ok",
                 Plan[log'[i].ev].kind = "onboard"
          PROVE  HadAccount(Plan[log[i].ev].wallet, log[i].acct, i)'
      <4>1. HadAccount(Plan[log[i].ev].wallet, log[i].acct, i) /\ log'[i] = log[i]
        BY <3>8, <3>9 DEF AccountInv, DeployInv
      <4>. QED BY <3>4, <3>5, <4>1 DEF HadAccount
    <3>. QED BY <3>6, <3>7, <3>9 DEF DeployInv
  <2>. QED BY <2>3, <2>4
<1>3. ASSUME NEW d \in Drivers, Conclude(d), Grows(FinalOf(d)) PROVE DeployInv'
  <2>. DEFINE n == Len(log) + 1  e == pos[d]
  <2>1. /\ pc[d] \in Statuses /\ e \in Events /\ log'[n].ev = e
        /\ log'[n].step = "final" /\ log'[n].acct = acct[d] /\ log'[n].status = pc[d]
    BY <1>3 DEF Conclude, Grows, FinalOf, BaseInv, ControlOK, ControlInv, InEvent
  <2>2. /\ n \notin DOMAIN log /\ n \in DOMAIN log'
        /\ \A i \in DOMAIN log' : i \in DOMAIN log \/ i = n
        /\ \A i \in DOMAIN log : i \in DOMAIN log' /\ log'[i] = log[i]
    BY <1>3, GrownDomain DEF Grows
  <2>2a. \A i \in DOMAIN log : i < n
    BY DEF BaseInv, TypeOK
  <2>. HIDE DEF n
  <2>3. \A i : DeployRecord(i)' <=> DeployRecord(i)
    BY <2>1, <2>2 DEF DeployRecord
  <2>4. \A i : DeployRecord(i) => log'[i] = log[i]
    BY <2>2 DEF DeployRecord
  <2>5. (\A i : DeployRecord(i) => /\ log[i].ev \in Events /\ Plan[log[i].ev].kind = "onboard"
                                   /\ log[i].acct > 0)'
    BY <2>3, <2>4 DEF AccountInv, DeployInv
  <2>6. (\A i, l : DeployRecord(i) /\ DeployRecord(l)
                  /\ Plan[log[i].ev].wallet = Plan[log[l].ev].wallet => i = l)'
    BY <2>3, <2>4 DEF AccountInv, DeployInv
  <2>7. ASSUME NEW i \in DOMAIN log', log'[i].step = "final", log'[i].status = "ok",
               Plan[log'[i].ev].kind = "onboard"
        PROVE  HadAccount(Plan[log[i].ev].wallet, log[i].acct, i)'
    <3>1. CASE i \in DOMAIN log
      <4>1. HadAccount(Plan[log[i].ev].wallet, log[i].acct, i) /\ log'[i] = log[i]
        BY <2>2, <2>7, <3>1 DEF AccountInv, DeployInv
      <4>. QED BY <2>3, <2>4, <4>1 DEF HadAccount
    <3>2. CASE i = n
      <4>1. pc[d] = "ok" /\ rest[d] = {} /\ Plan[e].kind = "onboard"
        BY <2>1, <2>7, <3>2 DEF BaseInv, ControlOK, ControlInv, Working
      <4>2. HasAccount(Plan[e].wallet, acct[d])
        BY <4>1 DEF AccountInv, HeldInv
      <4>3. \E l : /\ DeployRecord(l)' /\ l < n /\ Plan[log'[l].ev].wallet = Plan[e].wallet
                   /\ log'[l].acct = acct[d]
        BY <2>2a, <2>3, <2>4, <4>2 DEF HasAccount, DeployRecord
      <4>. QED BY <2>1, <3>2, <4>3 DEF HadAccount
    <3>. QED BY <2>2, <3>1, <3>2
  <2>. QED BY <2>5, <2>6, <2>7 DEF DeployInv
<1>4. ASSUME NEW d \in Drivers, KillInTrim(d) PROVE DeployInv'
  <2>1. PICK n : CutTo(n)
    BY <1>4, TrimKilled
  <2>2. \A i : DeployRecord(i)' <=> DeployRecord(i) /\ i \in 1..n
    BY <2>1 DEF CutTo, DeployRecord
  <2>3. \A i : DeployRecord(i)' => log'[i] = log[i]
    BY <2>1 DEF CutTo, DeployRecord
  <2>4. (\A i : DeployRecord(i) => /\ log[i].ev \in Events /\ Plan[log[i].ev].kind = "onboard"
                                   /\ log[i].acct > 0)'
    BY <2>2, <2>3 DEF AccountInv, DeployInv
  <2>5. (\A i, l : DeployRecord(i) /\ DeployRecord(l)
                  /\ Plan[log[i].ev].wallet = Plan[log[l].ev].wallet => i = l)'
    BY <2>2, <2>3 DEF AccountInv, DeployInv
  <2>6. ASSUME NEW i \in DOMAIN log', log'[i].step = "final", log'[i].status = "ok",
               Plan[log'[i].ev].kind = "onboard"
        PROVE  HadAccount(Plan[log[i].ev].wallet, log[i].acct, i)'
    <3>1. i \in DOMAIN log /\ i \in 1..n /\ n \in Int /\ log'[i] = log[i]
      BY <2>1, <2>6 DEF CutTo
    <3>2. PICK l : /\ DeployRecord(l) /\ l < i /\ Plan[log[l].ev].wallet = Plan[log[i].ev].wallet
                   /\ log[l].acct = log[i].acct
      BY <2>6, <3>1 DEF AccountInv, DeployInv, HadAccount
    <3>3. l \in 1..n
      <4>1. l \in DOMAIN log /\ DOMAIN log = 1..Len(log) /\ Len(log) \in Nat
        BY <3>2 DEF DeployRecord, BaseInv, TypeOK
      <4>. QED BY <3>1, <3>2, <4>1
    <3>. QED BY <2>2, <2>3, <3>1, <3>2, <3>3 DEF HadAccount
  <2>. QED BY <2>4, <2>5, <2>6 DEF DeployInv
<1>. QED BY <1>1, <1>2, <1>3, <1>4, LogSteps


\* A driver's part.
LEMMA HeldNext ==
  ASSUME PlanOK, SafeInv, BaseInv', AccountInv,
         NEW d \in Drivers, Start(d) \/ DriverStep(d) \/ Kill(d)
  PROVE  HeldInv(d)' /\ NewInv(d)'
<1>. USE DEF SafeInv
<1>0. log' = log \/ \E rec : Grows(rec)
  BY LogKept, GrowsBy
<1>1. \A w, a : HasAccount(w, a) => HasAccount(w, a)'
  BY <1>0, HasAccountStays
<1>2. ASSUME NEW w, NEW a, Plan[pos'[d]].wallet = w, acct'[d] = a, HasAccount(w, a)'
      PROVE  HeldInv(d)'
  BY <1>2 DEF HeldInv, HasAccount, DeployRecord
<1>3. ASSUME Begin(d), pos' = pos PROVE HeldInv(d)'
  <2>1. pc[d] = "begin" /\ pos[d] \in Events
    BY <1>3, BeginCases DEF BaseInv, ControlOK, ControlInv, InEvent
  <2>2. CASE BeginsOver(d)
    BY <1>3, <2>2 DEF BeginsOver, HeldInv, Working, Statuses, BaseInv, TypeOK
  <2>3. CASE BeginsTick(d)
    BY <1>3, <2>3 DEF BeginsTick, HeldInv
  <2>4. CASE BeginsSteps(d)
    <3>1. \/ Plan[pos[d]].kind = "onboard" /\ 2 \in rest'[d]
          \/ HasAccount(Plan[pos[d]].wallet, acct'[d])
      BY <2>1, <2>4, BegunAccount DEF AccountInv
    <3>. QED BY <1>1, <1>2, <1>3, <3>1 DEF HeldInv
  <2>. QED BY <1>3, <2>2, <2>3, <2>4, BeginCases
<1>4. ASSUME Working(d), pos'[d] = pos[d], rest'[d] = rest[d], acct'[d] = acct[d] PROVE HeldInv(d)'
  BY <1>1, <1>2, <1>4 DEF AccountInv, HeldInv
<1>5. ASSUME Answer(d), Working(d), pos' = pos PROVE HeldInv(d)' /\ NewInv(d)'
  <2>1. CASE Job(d)[2] = "deploy"
    <3>1. Plan[pos[d]].kind = "onboard" /\ Min(rest[d]) = 2 /\ Min(rest[d]) \in rest[d]
          /\ Job(d) \in Jobs
      BY <1>5, <2>1, PlaceFacts, JobFacts
    <3>2. rest' = rest
      BY <1>5, <2>1 DEF Answer, Unmarked
    <3>3. DoJob(Job(d)) /\ acct'[d] = accounts'
      BY <1>5, <2>1 DEF Answer, AlreadyThere, BaseInv, TypeOK
    <3>4. accounts' \in Nat /\ accounts' # 0
      BY <2>1, <3>1, <3>3, DoJobEffect
    <3>. QED BY <1>5, <3>1, <3>2, <3>3, <3>4 DEF HeldInv, NewInv
  <2>2. CASE Job(d)[2] # "deploy"
    <3>1. acct'[d] = acct[d]
      BY <1>5, <2>2 DEF Answer, BaseInv, TypeOK
    <3>2. CASE rest' = rest
      <4>1. Job(d)' = Job(d)
        BY <1>5, <3>2 DEF Job
      <4>. QED BY <1>4, <1>5, <2>2, <3>1, <3>2, <4>1 DEF NewInv
    <3>3. CASE NextStep(d) /\ Job(d)[2] \in Unmarked
      <4>1. Plan[pos[d]].kind # "onboard" /\ pc'[d] # "checkpoint"
        BY <1>5, <3>3, PlaceFacts DEF NextStep, Goto, BaseInv, TypeOK
      <4>. QED BY <1>1, <1>2, <1>5, <3>1, <4>1 DEF AccountInv, HeldInv, NewInv
    <3>. QED BY <1>5, <3>2, <3>3 DEF Answer
  <2>. QED BY <2>1, <2>2
<1>6. ASSUME Checkpoint(d), Working(d), pos' = pos, acct' = acct PROVE HeldInv(d)' /\ pc'[d] # "checkpoint"
  <2>1. Grows(CheckpointOf(d)) /\ NextStep(d)
    BY <1>6, GrowsBy DEF Checkpoint
  <2>2. rest'[d] = rest[d] \ {Min(rest[d])} /\ pc'[d] # "checkpoint"
    <3>1. rest' = [rest EXCEPT ![d] = rest[d] \ {Min(rest[d])}]
      BY <1>6, <2>1, NextStepEffect
    <3>2. pc'[d] # "checkpoint"
      BY <2>1 DEF NextStep, Goto, BaseInv, TypeOK
    <3>. QED BY <3>1, <3>2 DEF BaseInv, TypeOK
  <2>3. CASE Job(d)[2] = "deploy"
    <3>1. PICK n : n = Len(log) + 1
      OBVIOUS
    <3>2. n \in DOMAIN log' /\ log'[n] = CheckpointOf(d)
      BY <2>1, <3>1, GrownDomain DEF Grows
    <3>3. log'[n].ev = pos[d] /\ log'[n].step = "deploy" /\ log'[n].acct = acct[d]
      BY <2>3, <3>2 DEF CheckpointOf
    <3>4. /\ n \in DOMAIN log' /\ log'[n].step = "deploy"
          /\ Plan[log'[n].ev].wallet = Plan[pos'[d]].wallet /\ log'[n].acct = acct'[d]
      BY <1>6, <3>2, <3>3
    <3>5. PICK w, a : w = Plan[pos'[d]].wallet /\ a = acct'[d]
      OBVIOUS
    <3>6. HasAccount(w, a)'
      BY <3>4, <3>5 DEF HasAccount, DeployRecord
    <3>. QED BY <1>2, <2>2, <3>5, <3>6
  <2>4. CASE Job(d)[2] # "deploy"
    <3>1. Plan[pos[d]].kind = "onboard" => Min(rest[d]) # 2
      BY <1>6, <2>4, PlaceFacts
    <3>. QED BY <1>1, <1>2, <1>6, <2>2, <3>1 DEF AccountInv, HeldInv
  <2>. QED BY <2>2, <2>3, <2>4
<1>7. CASE Working(d)' \/ pc'[d] = "ok"
  <2>1. Begin(d) => pc'[d] # "checkpoint"
    BY BeginCases DEF BeginsOver, BeginsTick, BeginsSteps, Statuses, BaseInv, TypeOK
  <2>. QED BY <1>3, <1>4, <1>5, <1>6, <1>7, <2>1, HeldSteps DEF NewInv
<1>8. CASE ~(Working(d)' \/ pc'[d] = "ok")
  BY <1>8 DEF HeldInv, NewInv, Working
<1>. QED BY <1>7, <1>8
\* What was asked of the server was asked for the account of the wallet.
LEMMA AskedNext ==
  ASSUME PlanOK, SafeInv, AccountInv, [Next]_vars
  PROVE  AskedInv'
<1>. USE DEF SafeInv
<1>0. ASSUME NEW d \in Drivers, KillInTrim(d) PROVE AskedInv'
  <2>1. PICK n : CutTo(n)
    BY <1>0, TrimKilled
  <2>2. ASSUME NEW x \in asked', Named(x) PROVE HasAccount(Plan[x[1][1]].wallet, x[2])'
    <3>1. x \in asked /\ Plan[x[1][1]].wallet \notin LostWallets(n)
      BY <2>1, <2>2 DEF CutTo
    <3>2. PICK i : /\ DeployRecord(i) /\ Plan[log[i].ev].wallet = Plan[x[1][1]].wallet
                   /\ log[i].acct = x[2]
      BY <2>2, <3>1 DEF AccountInv, AskedInv, HasAccount
    <3>3. i \in 1..n
      <4>1. log \in Seq(Lines)
        BY DEF BaseInv, TypeOK
      <4>2. DOMAIN log = 1..Len(log) /\ Len(log) \in Nat
        BY <4>1
      <4>3. i \in DOMAIN log /\ n \in 0..Len(log)
        BY <2>1, <3>2 DEF DeployRecord, CutTo
      <4>4. i \notin n + 1..Len(log)
        BY <3>1, <3>2 DEF LostWallets, LostLines, DeployRecord
      <4>. QED BY <4>2, <4>3, <4>4
    <3>4. i \in DOMAIN log' /\ log'[i] = log[i]
      BY <2>1, <3>3 DEF CutTo
    <3>. QED BY <3>2, <3>4 DEF HasAccount, DeployRecord
  <2>. QED BY <2>2 DEF AskedInv, Named
<1>1. ASSUME log' = log \/ \E rec : Grows(rec)
      PROVE  \A w, a : HasAccount(w, a) => HasAccount(w, a)'
  BY <1>1, HasAccountStays
<1>2. CASE asked' = asked /\ (log' = log \/ \E rec : Grows(rec))
  <2>1. ASSUME NEW x \in asked, Named(x) PROVE HasAccount(Plan[x[1][1]].wallet, x[2])'
    BY <1>1, <1>2, <2>1 DEF AccountInv, AskedInv
  <2>. QED BY <1>2, <2>1 DEF AskedInv, Named
<1>3. ASSUME NEW d \in Drivers, Send(d) PROVE AskedInv'
  <2>0. log' = log
    BY <1>3 DEF Send, files
  <2>1. pc[d] = "send" /\ Working(d) /\ asked' = asked \cup {<<Job(d), acct[d]>>}
    BY <1>3 DEF Send, Working
  <2>2. ASSUME Job(d)[2] \notin {"friendbot", "deploy", "tick"}
        PROVE  HasAccount(Plan[Job(d)[1]].wallet, acct[d])
    <3>1. ~(Plan[pos[d]].kind = "onboard" /\ 2 \in rest[d])
      <4>. SUFFICES ASSUME Plan[pos[d]].kind = "onboard", 2 \in rest[d] PROVE FALSE
        OBVIOUS
      <4>1. Min(rest[d]) <= 2 /\ Min(rest[d]) \in 1..5
        BY <2>1, JobFacts, PlaceFacts
      <4>2. Min(rest[d]) = 1 \/ Min(rest[d]) = 2
        BY <4>1
      <4>. QED BY <2>1, <2>2, <4>2, PlaceFacts
    <3>2. Plan[pos[d]].kind \notin {"tick", "snapshot"} /\ Job(d)[1] = pos[d]
      BY <2>1, <2>2, PlaceFacts, JobFacts
    <3>. QED BY <2>1, <3>1, <3>2 DEF AccountInv, HeldInv
  <2>3. ASSUME NEW x \in asked', Named(x) PROVE HasAccount(Plan[x[1][1]].wallet, x[2])'
    <3>1. CASE x \in asked
      BY <1>1, <2>0, <2>3, <3>1 DEF AccountInv, AskedInv
    <3>2. CASE x = <<Job(d), acct[d]>>
      <4>1. HasAccount(Plan[x[1][1]].wallet, x[2])
        BY <2>2, <2>3, <3>2 DEF Named
      <4>. QED BY <1>1, <2>0, <4>1
    <3>. QED BY <2>1, <2>3, <3>1, <3>2
  <2>. QED BY <2>3 DEF AskedInv, Named
<1>4. asked' = asked \/ \E d \in Drivers : Send(d) \/ KillInTrim(d)
  BY DEF Next, DriverStep, Start, Open, Trim, CheckLock, WriteLock, Mode, BadMeta, ProbeFails, ReadPlan,
     Walk, Begin, Answer, Refused, RefusedForGood, Lost, Checkpoint, Conclude, Kill, Finish, vars, history
<1>. QED BY <1>0, <1>2, <1>3, <1>4, LogSteps

LEMMA AccountNext ==
  ASSUME PlanOK, SafeInv, BaseInv', FreshInv, AccountInv, [Next]_vars
  PROVE  AccountInv'
<1>1. DeployInv' /\ AskedInv'
  BY DeployNext, AskedNext
<1>2. ASSUME log' = log \/ \E rec : Grows(rec), NEW x \in Drivers,
             pc'[x] = pc[x] /\ pos'[x] = pos[x] /\ rest'[x] = rest[x] /\ acct'[x] = acct[x]
      PROVE  HeldInv(x)' /\ NewInv(x)'
  <2>1. Job(x)' = Job(x)
    BY <1>2 DEF Job
  <2>2. NewInv(x)'
    BY <1>2, <2>1 DEF AccountInv, NewInv
  <2>3. ASSUME NEW w, NEW a, Plan[pos'[x]].wallet = w, acct'[x] = a, HasAccount(w, a)' PROVE HeldInv(x)'
    BY <2>3 DEF HeldInv, HasAccount, DeployRecord
  <2>4. HeldInv(x)'
    BY <1>2, <2>3, HasAccountStays DEF AccountInv, HeldInv, Working
  <2>. QED BY <2>2, <2>4
<1>3. ASSUME NEW d \in Drivers, Start(d) \/ DriverStep(d) \/ Kill(d), NEW x \in Drivers
      PROVE  HeldInv(x)' /\ NewInv(x)'
  <2>1. x # d => pc'[x] = pc[x] /\ pos'[x] = pos[x] /\ rest'[x] = rest[x] /\ acct'[x] = acct[x]
    BY <1>3, DriverOK DEF StepOK, OthersKept, SafeInv
  <2>2. log' = log \/ \E rec : Grows(rec)
    BY <1>3, LogKept, GrowsBy
  <2>. QED BY <1>2, <1>3, <2>1, <2>2, HeldNext
<1>4. UNCHANGED <<locals, log>> => \A x \in Drivers : HeldInv(x)' /\ NewInv(x)'
  BY <1>2 DEF locals
<1>4a. ASSUME NEW d \in Drivers, KillInTrim(d), NEW x \in Drivers
       PROVE  HeldInv(x)' /\ NewInv(x)'
  <2>1. ~Working(x)' /\ pc'[x] \notin {"ok", "checkpoint"}
    BY <1>4a, TrimKilled DEF InEvent, Working, Statuses
  <2>. QED BY <2>1 DEF HeldInv, NewInv
<1>5. \A x \in Drivers : HeldInv(x)' /\ NewInv(x)'
  BY <1>3, <1>4, <1>4a DEF Next, Finish, vars, locals, files
<1>. QED BY <1>1, <1>5 DEF AccountInv

\* All requests for a wallet name one account, whatever deployments were lost on
\* the way and whichever driver asks, as long as the record of its deployment is
\* not lost from the log.
THEOREM OneAccountAlways == Spec => []OneAccountPerWallet
<1>1. Init => FreshInv /\ AccountInv
  BY DEF Init, FreshInv, Working, AccountInv, DeployInv, DeployRecord, AskedInv, HeldInv, NewInv
<1>2. SafeInv /\ BaseInv' /\ FreshInv /\ AccountInv /\ [Next]_vars => FreshInv' /\ AccountInv'
  BY FreshNext, AccountNext, PlanOK
<1>3. SafeInv => BaseInv
  BY DEF SafeInv
<1>4. AccountInv => OneAccountPerWallet
  <2>. SUFFICES ASSUME AccountInv
                PROVE  /\ \A x \in asked : Named(x) => x[2] > 0
                       /\ \A x, y \in asked : Named(x) /\ Named(y)
                            /\ Plan[x[1][1]].wallet = Plan[y[1][1]].wallet => x[2] = y[2]
    BY DEF OneAccountPerWallet, Named
  <2>1. \A x \in asked : Named(x) => HasAccount(Plan[x[1][1]].wallet, x[2])
    BY DEF AccountInv, AskedInv
  <2>2. \A w, a, b : HasAccount(w, a) /\ HasAccount(w, b) => a = b /\ a > 0
    BY DEF AccountInv, DeployInv, HasAccount
  <2>. QED BY <2>1, <2>2
<1>. QED BY <1>1, <1>2, <1>3, <1>4, SafeForever, PTL DEF Spec

-----------------------------------------------------------------------------
(***************************************************************************)
(* The summary.  The log has one record at most of each step and one final *)
(* record at most of each event, and the hash a mint's record holds is one *)
(* of the server's: so records and recorded mints are counted alike.       *)
(***************************************************************************)
\* Of an event and a step there is one record at most, and a driver on its way
\* has passed, or knows of, every event that has its final record.
OnceInv ==
  \A i, k \in DOMAIN log : log[i].ev = log[k].ev /\ log[i].step = log[k].step => i = k
WalkInv ==
  \A d \in Drivers :
    /\ pc[d] \in InEvent \cup {"walk"} => \A e \in Finished : e \in finished[d] \/ e <= pos[d]
    /\ pc[d] \in InEvent => pos[d] \notin Finished

\* The hash in the record of a mint is one of the mints the server made.
MintTrue(rec) == rec.step \in MintSteps => rec.tx \in 1..effects[<<rec.ev, rec.step>>]
MintInv ==
  /\ \A i \in DOMAIN log : MintTrue(log[i])
  /\ \A d \in Drivers : pc[d] = "checkpoint" /\ Job(d)[2] \in MintSteps =>
                          tx[d] \in 1..effects[Job(d)]

\* The faucet's steps are done by the server, and their hashes recorded.
LEMMA MintNames ==
  /\ \A s \in MintSteps : s \in Hashed /\ s \in Steps /\ s \notin Unmarked
  /\ \A j : j[2] \in MintSteps => ~AlreadyThere(j)
<1>1. MintSteps \subseteq Steps
  <2>1. /\ "fund" \in Range(Script["onboard"]) /\ "mint-sa" \in Range(Script["faucet"])
        /\ "mint-g" \in Range(Script["transfer"])
    <3>1. Script["onboard"][4] = "fund" /\ 4 \in DOMAIN Script["onboard"]
      BY DEF Script
    <3>2. Script["faucet"][1] = "mint-sa" /\ 1 \in DOMAIN Script["faucet"]
      BY DEF Script
    <3>3. Script["transfer"][2] = "mint-g" /\ 2 \in DOMAIN Script["transfer"]
      BY DEF Script
    <3>. QED BY <3>1, <3>2, <3>3, Zenon DEF Range
  <2>. QED BY <2>1, KindNames DEF Steps, MintSteps
<1>. QED BY <1>1 DEF MintSteps, Hashed, Unmarked, AlreadyThere

\* What the next step does to a mint's record, and to the ones in the log.
LEMMA MintNext == ASSUME PlanOK, SafeInv, BaseInv', DoneInv, MintInv, [Next]_vars PROVE MintInv'
<1>. USE DEF SafeInv
<1>0. \A j \in Jobs : \A n : n \in 1..effects[j] => n \in 1..effects'[j]
  <2>1. \A j \in Jobs : effects[j] \in Nat /\ effects'[j] \in Nat /\ effects[j] <= effects'[j]
    BY EffectsGrow DEF BaseInv, TypeOK
  <2>. QED BY <2>1
<1>1. \A i \in DOMAIN log : \A rec : rec = log[i] => MintTrue(rec)'
  BY <1>0, MintNames DEF MintInv, MintTrue, DoneInv, RecordTrue
<1>2. ASSUME NEW d \in Drivers, pc[d] = "checkpoint", NEW rec, rec = CheckpointOf(d)
      PROVE  MintTrue(rec)'
  <2>1. Job(d) \in Jobs /\ Job(d) = <<rec.ev, rec.step>> /\ rec.tx = tx[d] /\ rec.step = Job(d)[2]
    BY <1>2, JobFacts DEF Working, CheckpointOf
  <2>. QED BY <1>0, <1>2, <2>1 DEF MintInv, MintTrue
<1>3. (\A i \in DOMAIN log : MintTrue(log[i]))'
  <2>0. ASSUME NEW i, NEW rec, log'[i] = rec, MintTrue(rec)' PROVE MintTrue(log[i])'
    BY <2>0 DEF MintTrue
  <2>1. CASE log' = log
    BY <1>1, <2>0, <2>1
  <2>2. ASSUME NEW rec, Grows(rec), MintTrue(rec)' PROVE (\A i \in DOMAIN log : MintTrue(log[i]))'
    <3>1. \A i \in DOMAIN log' : \A x : x = log'[i] => MintTrue(x)'
      BY <1>1, <2>2, GrownDomain DEF Grows
    <3>. QED BY <2>0, <3>1
  <2>3. ASSUME NEW d \in Drivers, NEW rec, rec = FinalOf(d) PROVE MintTrue(rec)'
    BY <2>3, MintNames, StepNames DEF FinalOf, MintTrue
  <2>4. ASSUME NEW n, CutTo(n) PROVE (\A i \in DOMAIN log : MintTrue(log[i]))'
    <3>1. \A i \in DOMAIN log' : \A x : x = log'[i] => MintTrue(x)'
      BY <1>1, <2>4 DEF CutTo
    <3>. QED BY <2>0, <3>1
  <2>. QED BY <1>2, <2>1, <2>2, <2>3, <2>4, LogSteps, TrimKilled DEF Checkpoint
<1>4. \A d \in Drivers : pc'[d] = "checkpoint" /\ (Job(d)[2])' \in MintSteps =>
                           tx'[d] \in 1..effects'[Job(d)']
  <2>1. ASSUME NEW d \in Drivers, Start(d) \/ DriverStep(d) \/ Kill(d), pc'[d] = "checkpoint",
               (Job(d)[2])' \in MintSteps
        PROVE  tx'[d] \in 1..effects'[Job(d)']
    <3>1. Answered(d) /\ Job(d)' = Job(d) /\ Job(d) \in Jobs /\ (Job(d)[2])' = Job(d)[2]
      BY <2>1, ToCheckpoint, JobFacts DEF Answered, Working
    <3>2. Job(d)[2] \in MintSteps
      BY <2>1, <3>1
    <3>3. ~AlreadyThere(Job(d)) /\ Job(d)[2] \in Hashed
      BY <3>2, MintNames
    <3>4. tx'[d] = effects'[Job(d)]
      BY <3>1, <3>3 DEF Answered, Answer, BaseInv, TypeOK
    <3>5. effects'[Job(d)] = effects[Job(d)] + 1 /\ effects[Job(d)] \in Nat
      BY <3>1, <3>3, DoJobEffect DEF Answered, BaseInv, TypeOK
    <3>. QED BY <3>1, <3>4, <3>5
  <2>2. ASSUME NEW x \in Drivers, pc'[x] = pc[x], pos'[x] = pos[x], rest'[x] = rest[x],
               tx'[x] = tx[x], pc'[x] = "checkpoint", (Job(x)[2])' \in MintSteps
        PROVE  tx'[x] \in 1..effects'[Job(x)']
    <3>1. Job(x)' = Job(x) /\ (Job(x)[2])' = Job(x)[2]
      BY <2>2 DEF Job
    <3>2. Job(x) \in Jobs
      BY <2>2, JobFacts DEF Working
    <3>3. tx[x] \in 1..effects[Job(x)]
      BY <2>2, <3>1 DEF MintInv
    <3>. QED BY <1>0, <2>2, <3>1, <3>2, <3>3
  <2>3. ASSUME NEW d \in Drivers, Start(d) \/ DriverStep(d) \/ Kill(d), NEW x \in Drivers \ {d}
        PROVE  pc'[x] = pc[x] /\ pos'[x] = pos[x] /\ rest'[x] = rest[x] /\ tx'[x] = tx[x]
    BY <2>3, DriverOK DEF StepOK, OthersKept
  <2>4. UNCHANGED locals => pc' = pc /\ pos' = pos /\ rest' = rest /\ tx' = tx
    BY DEF locals
  <2>5. ASSUME NEW d \in Drivers, KillInTrim(d), NEW x \in Drivers PROVE pc'[x] # "checkpoint"
    BY <2>5, TrimKilled DEF InEvent
  <2>6. \/ \E d \in Drivers : Start(d) \/ DriverStep(d) \/ Kill(d) \/ KillInTrim(d)
        \/ UNCHANGED locals
    BY DEF Next, vars, Finish, locals
  <2>. QED BY <2>1, <2>2, <2>3, <2>4, <2>5, <2>6
<1>. QED BY <1>3, <1>4 DEF MintInv

\* On its way a driver's place only moves on, and only from one event to the next.
LEMMA PlaceSteps ==
  ASSUME PlanOK, SafeInv, NEW d \in Drivers, Start(d) \/ DriverStep(d) \/ Kill(d)
  PROVE  \/ pc'[d] \notin InEvent \cup {"walk"}
         \/ ReadPlan(d) /\ pc'[d] = "walk" /\ finished'[d] = Finished /\ log' = log
         \/ /\ pc[d] = "walk" /\ pc'[d] = "begin" /\ finished'[d] = finished[d] /\ log' = log
            /\ pos'[d] \in Ahead(d) /\ \A e \in Ahead(d) : pos'[d] <= e
         \/ /\ pc[d] \in InEvent /\ pc'[d] \in InEvent
            /\ pos'[d] = pos[d] /\ finished'[d] = finished[d] /\ ~Conclude(d)
         \/ /\ Conclude(d) /\ pc[d] \in InEvent /\ pc'[d] = "walk"
            /\ pos'[d] = pos[d] /\ finished'[d] = finished[d]
<1>. USE DEF Goto, SafeInv, BaseInv, TypeOK
<1>1. CASE Start(d) \/ Open(d) \/ Trim(d) \/ CheckLock(d) \/ WriteLock(d) \/ Mode(d)
           \/ BadMeta(d) \/ ProbeFails(d) \/ Kill(d)
  BY <1>1 DEF Start, Open, Trim, CheckLock, WriteLock, Mode, BadMeta, ProbeFails, Kill, Exit, Forget,
     InEvent, Statuses
<1>2. CASE ReadPlan(d)
  BY <1>2 DEF ReadPlan, Exit, Forget, InEvent, Statuses, files
<1>3. CASE Walk(d)
  <2>1. CASE Exit(d)
    BY <2>1 DEF Exit, Forget, InEvent, Statuses
  <2>2. CASE ~Exit(d)
    <3>1. pc[d] = "walk" /\ pc'[d] = "begin" /\ Ahead(d) # {} /\ pos'[d] = Min(Ahead(d))
          /\ finished' = finished /\ log' = log
      BY <1>3, <2>2 DEF Walk, files
    <3>2. Ahead(d) \subseteq Events
      BY DEF Ahead
    <3>3. Ahead(d) \subseteq Nat
      BY <3>1, <3>2, PlanFacts
    <3>4. Min(Ahead(d)) \in Ahead(d) /\ \A e \in Ahead(d) : Min(Ahead(d)) <= e
      BY <3>1, <3>3, LeastNumber
    <3>. QED BY <3>1, <3>4
  <2>. QED BY <2>1, <2>2
<1>4. CASE Begin(d)
  BY <1>4, BeginCases DEF BeginsOver, BeginsTick, BeginsSteps, InEvent, Statuses, Conclude
<1>5. CASE Send(d) \/ Answer(d) \/ Refused(d) \/ RefusedForGood(d) \/ Lost(d)
  BY <1>5 DEF Send, Answer, Refused, RefusedForGood, Lost, Retry, NextStep, InEvent, Statuses, Conclude
<1>6. CASE Checkpoint(d)
  BY <1>6 DEF Checkpoint, NextStep, InEvent, Statuses, Conclude
<1>7. CASE Conclude(d)
  BY <1>7 DEF Conclude, InEvent
<1>. QED BY <1>1, <1>2, <1>3, <1>4, <1>5, <1>6, <1>7 DEF DriverStep

\* Which events have their final record after a step.
LEMMA FinishedSteps ==
  ASSUME PlanOK, SafeInv, NEW d \in Drivers, Start(d) \/ DriverStep(d) \/ Kill(d)
  PROVE  /\ ~Conclude(d) => Finished' = Finished
         /\ Conclude(d) => Finished' = Finished \cup {pos[d]}
<1>. USE DEF SafeInv
<1>1. log' = log => Finished' = Finished
  BY DEF Finished
<1>2. ASSUME NEW rec, Grows(rec)
      PROVE  Finished' = Finished \cup (IF rec.step = "final" THEN {rec.ev} ELSE {})
  <2>1. \A i \in DOMAIN log : log'[i] = log[i]
    BY <1>2 DEF Grows
  <2>2. log'[Len(log) + 1] = rec
    BY <1>2 DEF Grows
  <2>3. DOMAIN log' = DOMAIN log \cup {Len(log) + 1}
    BY <1>2, GrownDomain
  <2>. QED BY <2>1, <2>2, <2>3 DEF Finished
<1>3. Checkpoint(d) => Grows(CheckpointOf(d)) /\ CheckpointOf(d).step # "final"
  BY GrowsBy, JobFacts, StepNames DEF CheckpointOf, Checkpoint, Working
<1>4. Conclude(d) => Grows(FinalOf(d)) /\ FinalOf(d).step = "final" /\ FinalOf(d).ev = pos[d]
  BY GrowsBy DEF FinalOf
<1>5. Checkpoint(d) => ~Conclude(d)
  BY DEF Checkpoint, Conclude, Statuses
<1>. QED BY <1>1, <1>2, <1>3, <1>4, <1>5, LogKept

\* No event gets its final record ahead of a driver on its way that does not know
\* of it.
LEMMA WalkNext == ASSUME PlanOK, SafeInv, BaseInv', WalkInv, [Next]_vars PROVE WalkInv'
<1>. USE DEF SafeInv
<1>1. ASSUME NEW d \in Drivers, Start(d) \/ DriverStep(d) \/ Kill(d), NEW x \in Drivers \ {d},
             pc'[x] \in InEvent \cup {"walk"}
      PROVE  pc'[x] = pc[x] /\ finished'[x] = finished[x] /\ pos'[x] = pos[x] /\ Finished' = Finished
  <2>1. pc'[x] = pc[x] /\ finished'[x] = finished[x] /\ pos'[x] = pos[x]
    BY <1>1, DriverOK DEF StepOK, OthersKept
  <2>2. ~Conclude(d)
    BY <1>1, <2>1 DEF LockInv, Running, InEvent, Statuses, Conclude
  <2>. QED BY <1>1, <2>1, <2>2, FinishedSteps
<1>2. ASSUME NEW d \in Drivers, Start(d) \/ DriverStep(d) \/ Kill(d)
      PROVE  /\ pc'[d] \in InEvent \cup {"walk"} =>
                  \A e \in Finished' : e \in finished'[d] \/ e <= pos'[d]
             /\ pc'[d] \in InEvent => pos'[d] \notin Finished'
  <2>0. Finished \subseteq Events /\ Events \subseteq Nat /\ pos[d] \in Nat
        /\ InEvent \cap {"walk"} = {}
    <3>1. \A l \in Lines : l.step = "final" => l.ev \in Events
      BY DEF Lines, StepRecords, EventRecords, Bad
    <3>2. \A i \in DOMAIN log : log[i] \in Lines
      BY DEF BaseInv, TypeOK
    <3>3. Finished \subseteq Events
      BY <3>1, <3>2 DEF Finished
    <3>4. Events \subseteq Nat
      BY DEF PlanOK, Events
    <3>5. pos[d] \in Events \cup {0}
      BY DEF BaseInv, TypeOK
    <3>6. "walk" \notin InEvent
      BY DEF InEvent, Statuses
    <3>7. InEvent \cap {"walk"} = {}
      BY <3>6
    <3>8. pos[d] \in Nat
      <4>1. 0 \in Nat
        OBVIOUS
      <4>. QED BY <3>4, <3>5, <4>1, Zenon
    <3>. QED BY <3>3, <3>4, <3>7, <3>8
  <2>1. CASE pc'[d] \notin InEvent \cup {"walk"}
    BY <2>1
  <2>2. CASE ReadPlan(d) /\ pc'[d] = "walk" /\ finished'[d] = Finished /\ log' = log
    BY <2>0, <2>2 DEF Finished
  <2>3. CASE /\ pc[d] = "walk" /\ pc'[d] = "begin" /\ finished'[d] = finished[d] /\ log' = log
             /\ pos'[d] \in Ahead(d) /\ \A e \in Ahead(d) : pos'[d] <= e
    <3>1. Finished' = Finished
      BY <2>3 DEF Finished
    <3>2. pos'[d] \in Nat /\ pos[d] < pos'[d] /\ pos'[d] \notin finished[d]
      BY <2>0, <2>3 DEF Ahead
    <3>3. \A e \in Finished : e \in finished[d] \/ e <= pos[d]
      BY <2>3 DEF WalkInv
    <3>4. \A e \in Finished : e \in finished[d] \/ e <= pos'[d]
      BY <2>0, <3>2, <3>3
    <3>5. pos'[d] \notin Finished
      BY <2>0, <3>2, <3>3
    <3>. QED BY <2>3, <3>1, <3>4, <3>5
  <2>4. CASE /\ pc[d] \in InEvent /\ pc'[d] \in InEvent
             /\ pos'[d] = pos[d] /\ finished'[d] = finished[d] /\ ~Conclude(d)
    BY <1>2, <2>4, FinishedSteps DEF WalkInv
  <2>5. CASE /\ Conclude(d) /\ pc[d] \in InEvent /\ pc'[d] = "walk"
             /\ pos'[d] = pos[d] /\ finished'[d] = finished[d]
    <3>0. pos[d] <= pos[d]
      BY <2>0
    <3>1. Finished' = Finished \cup {pos[d]}
      BY <1>2, <2>5, FinishedSteps
    <3>2. \A e \in Finished : e \in finished[d] \/ e <= pos[d]
      BY <2>5 DEF WalkInv
    <3>3. pc'[d] \notin InEvent
      BY <2>0, <2>5
    <3>. QED BY <2>5, <3>0, <3>1, <3>2, <3>3
  <2>. QED BY <1>2, <2>1, <2>2, <2>3, <2>4, <2>5, PlaceSteps
<1>3. ASSUME NEW d \in Drivers, Start(d) \/ DriverStep(d) \/ Kill(d) PROVE WalkInv'
  BY <1>1, <1>2, <1>3 DEF WalkInv
<1>4. ASSUME UNCHANGED locals, log' = log PROVE WalkInv'
  BY <1>4 DEF WalkInv, locals, Finished
<1>5. ASSUME NEW d \in Drivers, KillInTrim(d) PROVE WalkInv'
  BY <1>5, TrimKilled DEF WalkInv
<1>. QED BY <1>3, <1>4, <1>5 DEF Next, Finish, vars, files, locals

\* A record that is appended is not in the log: its step was still to do, and its
\* event without a final record.
LEMMA OnceNext ==
  ASSUME PlanOK, SafeInv, FreshInv, WalkInv, OnceInv, [Next]_vars
  PROVE  OnceInv'
<1>. USE DEF SafeInv
<1>1. CASE log' = log
  BY <1>1 DEF OnceInv
<1>2. ASSUME NEW rec, Grows(rec), \A i \in DOMAIN log : ~(log[i].ev = rec.ev /\ log[i].step = rec.step)
      PROVE  OnceInv'
  <2>1. DOMAIN log' = DOMAIN log \cup {Len(log) + 1} /\ Len(log) + 1 \notin DOMAIN log
    BY <1>2, GrownDomain
  <2>2. \A i \in DOMAIN log : log'[i] = log[i]
    BY <1>2 DEF Grows
  <2>3. log'[Len(log) + 1] = rec
    BY <1>2 DEF Grows
  <2>. QED BY <1>2, <2>1, <2>2, <2>3 DEF OnceInv
<1>3. ASSUME NEW d \in Drivers, Checkpoint(d), NEW i \in DOMAIN log
      PROVE  ~(log[i].ev = CheckpointOf(d).ev /\ log[i].step = CheckpointOf(d).step)
  <2>1. Working(d) /\ Job(d)[2] \notin Unmarked
    BY <1>3 DEF Checkpoint, Working, BaseInv, ControlOK, ControlInv
  <2>2. Min(rest[d]) \in rest[d] /\ JobAt(d, Min(rest[d])) = Job(d) /\ Job(d)[1] = pos[d]
    BY <2>1, JobFacts DEF JobAt
  <2>3. ~InLog(Job(d))
    BY <2>1, <2>2 DEF FreshInv
  <2>. QED BY <2>2, <2>3 DEF InLog, CheckpointOf
<1>4. ASSUME NEW d \in Drivers, Conclude(d), NEW i \in DOMAIN log
      PROVE  ~(log[i].ev = FinalOf(d).ev /\ log[i].step = FinalOf(d).step)
  <2>1. pos[d] \notin Finished
    BY <1>4 DEF Conclude, WalkInv, InEvent
  <2>. QED BY <2>1 DEF Finished, FinalOf
<1>5. ASSUME NEW n, CutTo(n) PROVE OnceInv'
  <2>1. \A i \in DOMAIN log' : i \in DOMAIN log /\ log'[i] = log[i]
    BY <1>5 DEF CutTo
  <2>. QED BY <2>1 DEF OnceInv
<1>. QED BY <1>1, <1>2, <1>3, <1>4, <1>5, LogSteps, TrimKilled

-----------------------------------------------------------------------------
\* The log has one record at most of what was done, whatever was repeated.
LEMMA LogForever == Spec => [](SafeInv /\ BaseInv /\ DoneInv /\ OnceInv /\ MintInv)
<1>1. Init => DoneInv /\ FreshInv /\ WalkInv /\ OnceInv /\ MintInv
  BY DEF Init, DoneInv, FreshInv, WalkInv, OnceInv, MintInv, Working, InEvent, Statuses
<1>2. SafeInv /\ BaseInv' /\ DoneInv /\ MintInv /\ [Next]_vars => DoneInv' /\ MintInv'
  BY DoneNext, MintNext, PlanOK
<1>3. SafeInv /\ BaseInv' /\ FreshInv /\ WalkInv /\ OnceInv /\ [Next]_vars
      => FreshInv' /\ WalkInv' /\ OnceInv'
  BY FreshNext, WalkNext, OnceNext, PlanOK
<1>4. SafeInv => BaseInv
  BY DEF SafeInv
<1>. QED BY <1>1, <1>2, <1>3, <1>4, SafeForever, PTL DEF Spec

\* What is counted through a function that is one to one and onto.
LEMMA SameCount ==
  ASSUME NEW S, NEW T, IsFiniteSet(S), NEW f \in [S -> T],
         \A x, y \in S : f[x] = f[y] => x = y, \A t \in T : \E x \in S : f[x] = t
  PROVE  IsFiniteSet(T) /\ Cardinality(T) = Cardinality(S)
<1>1. f \in Bijection(S, T)
  BY DEF Bijection, Injection, Surjection, IsInjective
<1>2. ExistsBijection(S, T)
  BY <1>1 DEF ExistsBijection
<1>. QED BY <1>2, FS_Bijection

\* The image of a finite set is finite.
LEMMA ImageFinite ==
  ASSUME NEW S, NEW T, IsFiniteSet(S), NEW f \in [S -> T], \A t \in T : \E x \in S : f[x] = t
  PROVE  IsFiniteSet(T)
<1>1. f \in Surjection(S, T)
  BY DEF Surjection
<1>. QED BY <1>1, FS_Surjection

\* Events and steps are finitely many, and so are the mints the server made.
LEMMA FiniteJobs == ASSUME PlanOK PROVE IsFiniteSet(Jobs)
<1>1. IsFiniteSet(Events)
  <2>1. Events = 1..Len(Plan) /\ Len(Plan) \in Int
    BY DEF PlanOK, Events
  <2>2. IsFiniteSet(1..Len(Plan))
    BY <2>1, FS_Interval
  <2>. QED BY <2>1, <2>2, Zenon
<1>2. Steps \subseteq {Script[x[1]][x[2]] : x \in Kinds \X (1..5)}
  <2>. SUFFICES ASSUME NEW k \in Kinds, NEW i \in DOMAIN Script[k]
                PROVE  Script[k][i] \in {Script[x[1]][x[2]] : x \in Kinds \X (1..5)}
    BY DEF Steps, Range
  <2>1. <<k, i>> \in Kinds \X (1..5)
    BY ScriptSteps
  <2>2. <<k, i>>[1] = k /\ <<k, i>>[2] = i
    OBVIOUS
  <2>. QED BY <2>1, <2>2, Zenon
<1>3. IsFiniteSet(Steps)
  <2>1. IsFiniteSet({"onboard", "faucet", "transfer"}) /\ IsFiniteSet({"unregister", "tick", "snapshot"})
    <3>1. IsFiniteSet({"onboard", "faucet"} \cup {"transfer"}) /\ IsFiniteSet({"unregister", "tick"} \cup {"snapshot"})
      <4>1. IsFiniteSet({"onboard"} \cup {"faucet"}) /\ IsFiniteSet({"unregister"} \cup {"tick"})
        BY FS_Singleton, FS_AddElement
      <4>2. {"onboard", "faucet"} = {"onboard"} \cup {"faucet"} /\ {"unregister", "tick"} = {"unregister"} \cup {"tick"}
        OBVIOUS
      <4>3. IsFiniteSet({"onboard", "faucet"}) /\ IsFiniteSet({"unregister", "tick"})
        BY <4>1, <4>2, Zenon
      <4>. QED BY <4>3, FS_AddElement
    <3>2. /\ {"onboard", "faucet", "transfer"} = {"onboard", "faucet"} \cup {"transfer"}
          /\ {"unregister", "tick", "snapshot"} = {"unregister", "tick"} \cup {"snapshot"}
      OBVIOUS
    <3>. QED BY <3>1, <3>2, Zenon
  <2>2. Kinds = {"onboard", "faucet", "transfer"} \cup {"unregister", "tick", "snapshot"}
    BY KindNames
  <2>3. IsFiniteSet(Kinds)
    <3>1. IsFiniteSet({"onboard", "faucet", "transfer"} \cup {"unregister", "tick", "snapshot"})
      BY <2>1, FS_Union
    <3>. QED BY <2>2, <3>1, Zenon
  <2>4. IsFiniteSet(1..5)
    <3>1. 1 \in Int /\ 5 \in Int
      OBVIOUS
    <3>. QED BY <3>1, FS_Interval
  <2>5. IsFiniteSet(Kinds \X (1..5))
    BY <2>3, <2>4, FS_Product
  <2>. DEFINE T == {Script[x[1]][x[2]] : x \in Kinds \X (1..5)}
              f == [x \in Kinds \X (1..5) |-> Script[x[1]][x[2]]]
  <2>6. f \in [Kinds \X (1..5) -> T] /\ \A t \in T : \E x \in Kinds \X (1..5) : f[x] = t
    OBVIOUS
  <2>7. IsFiniteSet(T)
    <3>. HIDE DEF f, T
    <3>. QED BY <2>5, <2>6, ImageFinite
  <2>. QED BY <1>2, <2>7, FS_Subset
<1>4. IsFiniteSet(Events \X Steps)
  BY <1>1, <1>3, FS_Product
<1>. QED BY <1>4, FS_Subset DEF Jobs

\* Only finitely many mints were made.
LEMMA MintsFinite == ASSUME PlanOK, BaseInv PROVE IsFiniteSet(ActivityMints)
<1>. DEFINE J == {j \in Jobs : j[2] \in MintSteps}
            Of(j) == {<<j, n>> : n \in 1..effects[j]}
            S == {Of(j) : j \in J}
<1>1. IsFiniteSet(J)
  BY FiniteJobs, FS_Subset
<1>2. IsFiniteSet(S)
  <2>. DEFINE f == [j \in J |-> Of(j)]
  <2>1. f \in [J -> S] /\ \A t \in S : \E x \in J : f[x] = t
    OBVIOUS
  <2>. HIDE DEF f, S, J
  <2>. QED BY <1>1, <2>1, ImageFinite
<1>3. ASSUME NEW j \in J PROVE IsFiniteSet(Of(j))
  <2>. DEFINE T == Of(j)
              f == [n \in 1..effects[j] |-> <<j, n>>]
  <2>1. f \in [1..effects[j] -> T] /\ \A t \in T : \E x \in 1..effects[j] : f[x] = t
    OBVIOUS
  <2>2. effects[j] \in Int
    BY DEF BaseInv, TypeOK
  <2>3. IsFiniteSet(1..effects[j])
    BY <2>2, FS_Interval
  <2>. HIDE DEF f, T
  <2>4. IsFiniteSet(T)
    BY <2>1, <2>3, ImageFinite
  <2>. QED BY <2>4 DEF T
<1>4. \A T \in S : IsFiniteSet(T)
  BY <1>3
<1>5. IsFiniteSet(UNION S)
  <2>. HIDE DEF S
  <2>. QED BY <1>2, <1>4, FS_UNION
<1>. QED BY <1>5 DEF ActivityMints

\* The records of mints are, one to one, the mints whose hash was recorded.
LEMMA MintsCounted ==
  ASSUME PlanOK, BaseInv, DoneInv, OnceInv, MintInv
  PROVE  Cardinality(Minted) + Cardinality(ActivityMints \ CollectHashes) = Cardinality(ActivityMints)
<1>. DEFINE T == ActivityMints \cap CollectHashes
            f == [i \in Minted |-> HashOf(i)]
<1>1. IsFiniteSet(Minted)
  <2>1. DOMAIN log = 1..Len(log) /\ Len(log) \in Int
    BY DEF BaseInv, TypeOK
  <2>2. IsFiniteSet(DOMAIN log)
    BY <2>1, FS_Interval
  <2>. QED BY <2>2, FS_Subset DEF Minted
<1>2. ASSUME NEW i \in Minted PROVE HashOf(i) \in T
  <2>1. i \in DOMAIN log /\ log[i].step \in MintSteps /\ log[i].step \in Steps
    BY MintNames DEF Minted
  <2>2. <<log[i].ev, log[i].step>> \in Jobs /\ log[i].tx \in 1..effects[<<log[i].ev, log[i].step>>]
    BY <2>1 DEF DoneInv, RecordTrue, MintInv, MintTrue
  <2>3. HashOf(i) \in CollectHashes
    BY <2>1 DEF CollectHashes
  <2>4. ASSUME NEW j, j = <<log[i].ev, log[i].step>> PROVE <<j, log[i].tx>> \in ActivityMints
    BY <2>1, <2>2, <2>4 DEF ActivityMints
  <2>5. HashOf(i) \in ActivityMints
    BY <2>4 DEF HashOf
  <2>. QED BY <2>3, <2>5
<1>3. \A x, y \in Minted : f[x] = f[y] => x = y
  BY DEF OnceInv, HashOf, Minted
<1>4. ASSUME NEW t \in T PROVE \E x \in Minted : f[x] = t
  <2>1. PICK i \in DOMAIN log : log[i].step \in Steps /\ t = HashOf(i)
    BY DEF CollectHashes
  <2>2. PICK j \in Jobs : j[2] \in MintSteps /\ \E n : t = <<j, n>>
    BY DEF ActivityMints
  <2>3. j = <<log[i].ev, log[i].step>>
    BY <2>1, <2>2 DEF HashOf
  <2>4. i \in Minted
    BY <2>1, <2>2, <2>3 DEF Minted
  <2>. QED BY <2>1, <2>4
<1>5. Cardinality(T) = Cardinality(Minted)
  <2>1. f \in [Minted -> T]
    BY <1>2
  <2>. HIDE DEF f, T
  <2>. QED BY <1>1, <1>3, <1>4, <2>1, SameCount
<1>6. /\ Cardinality(ActivityMints \ CollectHashes) = Cardinality(ActivityMints) - Cardinality(T)
      /\ Cardinality(ActivityMints) \in Nat /\ Cardinality(T) \in Nat
  BY MintsFinite, FS_Difference, FS_CardinalityType, FS_Subset
<1>. QED BY <1>5, <1>6

\* The final records are, one to one, the events that came to an end.
LEMMA FinalsCounted ==
  ASSUME PlanOK, BaseInv, OnceInv
  PROVE  Cardinality(Finals({"ok"})) + Cardinality(Finals({"failed"})) + Cardinality(Finals({"skipped"}))
         = Cardinality(Finished)
<1>. DEFINE F == {i \in DOMAIN log : log[i].step = "final"}
            f == [i \in F |-> log[i].ev]
<1>1. IsFiniteSet(F)
  <2>1. DOMAIN log = 1..Len(log) /\ Len(log) \in Int
    BY DEF BaseInv, TypeOK
  <2>2. IsFiniteSet(DOMAIN log)
    BY <2>1, FS_Interval
  <2>. QED BY <2>2, FS_Subset
<1>2. Cardinality(Finished) = Cardinality(F)
  <2>1. f \in [F -> Finished] /\ \A t \in Finished : \E x \in F : f[x] = t
    BY DEF Finished
  <2>2. \A x, y \in F : f[x] = f[y] => x = y
    BY DEF OnceInv
  <2>. HIDE DEF f, F
  <2>. QED BY <1>1, <2>1, <2>2, SameCount
<1>3. F = (Finals({"ok"}) \cup Finals({"failed"})) \cup Finals({"skipped"})
  <2>1. \A l \in Lines : l.step = "final" => l.status \in {"ok", "failed", "skipped"}
    BY StepNames DEF Lines, StepRecords, EventRecords, Bad, Statuses
  <2>2. \A i \in DOMAIN log : log[i] \in Lines
    BY DEF BaseInv, TypeOK
  <2>. QED BY <2>1, <2>2 DEF Finals
<1>4. /\ Finals({"ok"}) \cap Finals({"failed"}) = {}
      /\ (Finals({"ok"}) \cup Finals({"failed"})) \cap Finals({"skipped"}) = {}
  BY DEF Finals
<1>5. IsFiniteSet(Finals({"ok"})) /\ IsFiniteSet(Finals({"failed"})) /\ IsFiniteSet(Finals({"skipped"}))
  BY <1>1, <1>3, FS_Subset
<1>6. Cardinality(Finals({"ok"}) \cup Finals({"failed"}))
      = Cardinality(Finals({"ok"})) + Cardinality(Finals({"failed"})) - 0
  BY <1>4, <1>5, FS_Union, FS_EmptySet
<1>7. Cardinality(F) = Cardinality(Finals({"ok"}) \cup Finals({"failed"})) + Cardinality(Finals({"skipped"})) - 0
  <2>. DEFINE G == Finals({"ok"}) \cup Finals({"failed"})
  <2>1. IsFiniteSet(G)
    BY <1>5, FS_Union
  <2>2. F = G \cup Finals({"skipped"}) /\ G \cap Finals({"skipped"}) = {}
    BY <1>3, <1>4
  <2>. HIDE DEF G, F
  <2>3. Cardinality(F) = Cardinality(G) + Cardinality(Finals({"skipped"})) - 0
    BY <1>5, <2>1, <2>2, FS_Union, FS_EmptySet
  <2>. QED BY <2>3 DEF G
<1>8. /\ Cardinality(Finals({"ok"})) \in Nat /\ Cardinality(Finals({"failed"})) \in Nat
      /\ Cardinality(Finals({"skipped"})) \in Nat
  BY <1>5, FS_CardinalityType
<1>. QED BY <1>2, <1>6, <1>7, <1>8

\* The summary accounts for every mint and for every finished event exactly
\* once, however often drivers were killed, requests repeated and answers lost.
THEOREM SummaryAlwaysBalances == Spec => []SummaryBalances
<1>1. BaseInv /\ DoneInv /\ OnceInv /\ MintInv => SummaryBalances
  <2>. SUFFICES ASSUME BaseInv, DoneInv, OnceInv, MintInv PROVE SummaryBalances
    OBVIOUS
  <2>1. /\ Summarize.minted = Cardinality(Minted)
        /\ Summarize.unrecorded = Cardinality(ActivityMints \ CollectHashes)
        /\ Summarize.ok = Cardinality(Finals({"ok"})) /\ Summarize.failed = Cardinality(Finals({"failed"}))
        /\ Summarize.skipped = Cardinality(Finals({"skipped"}))
    BY DEF Summarize
  <2>. QED BY <2>1, MintsCounted, FinalsCounted, PlanOK DEF SummaryBalances
<1>. QED BY <1>1, LogForever, PTL
=============================================================================
