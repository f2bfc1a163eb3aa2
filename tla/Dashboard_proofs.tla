-------------------------- MODULE Dashboard_proofs --------------------------
(***************************************************************************)
(* Theorems about Dashboard, for any number of owners, set-up runs,        *)
(* accounts and lookups in flight.                                         *)
(***************************************************************************)
EXTENDS Dashboard, SequenceTheorems, TLAPS

-----------------------------------------------------------------------------
(***************************************************************************)
(* The lookups in flight: marking them late, sending one, taking one out.  *)
(***************************************************************************)
LEMMA LateSeq ==
  ASSUME TypeOK, NEW n \in Nat
  PROVE  /\ LateUpTo(n) \in Seq(LookupRecords) /\ Len(LateUpTo(n)) = Len(lookups)
         /\ \A k \in 1..Len(lookups) : /\ LateUpTo(n)[k].owner = lookups[k].owner
                                       /\ LateUpTo(n)[k].by = lookups[k].by
                                       /\ LateUpTo(n)[k].saw = lookups[k].saw
                                       /\ LateUpTo(n)[k].late <=> lookups[k].late \/ k <= n
<1>1. lookups \in Seq(LookupRecords) /\ Len(lookups) \in Nat /\ DOMAIN lookups = 1..Len(lookups)
  BY DEF TypeOK
<1>2. \A k \in 1..Len(lookups) : lookups[k] \in LookupRecords
  BY <1>1
<1>3. \A k \in 1..Len(lookups) : [lookups[k] EXCEPT !.late = @ \/ k <= n] \in LookupRecords
  BY <1>2 DEF LookupRecords
<1>4. LateUpTo(n) = [k \in 1..Len(lookups) |-> [lookups[k] EXCEPT !.late = @ \/ k <= n]]
  BY <1>1 DEF LateUpTo
<1>5. LateUpTo(n) \in [1..Len(lookups) -> LookupRecords]
  BY <1>3, <1>4
<1>6. LateUpTo(n) \in Seq(LookupRecords) /\ Len(LateUpTo(n)) = Len(lookups)
  BY <1>1, <1>5
<1>7. \A k \in 1..Len(lookups) : LateUpTo(n)[k] = [lookups[k] EXCEPT !.late = @ \/ k <= n]
  BY <1>4
<1>8. ASSUME NEW k \in 1..Len(lookups)
      PROVE  /\ LateUpTo(n)[k].owner = lookups[k].owner
             /\ LateUpTo(n)[k].by = lookups[k].by
             /\ LateUpTo(n)[k].saw = lookups[k].saw
             /\ LateUpTo(n)[k].late <=> lookups[k].late \/ k <= n
  BY <1>2, <1>7, Zenon DEF LookupRecords
<1>. QED BY <1>6, <1>8

LEMMA AddSeq ==
  ASSUME NEW s \in Seq(LookupRecords), NEW rec \in LookupRecords, NEW t, t = Append(s, rec)
  PROVE  /\ t \in Seq(LookupRecords) /\ Len(t) = Len(s) + 1
         /\ \A k \in 1..Len(s) : t[k] = s[k]
         /\ t[Len(s) + 1] = rec
BY AppendProperties

Without(s, i) == SubSeq(s, 1, i - 1) \o SubSeq(s, i + 1, Len(s))

LEMMA RemoveSeq ==
  ASSUME NEW S, NEW s \in Seq(S), NEW i \in 1..Len(s)
  PROVE  /\ Without(s, i) \in Seq(S) /\ Len(Without(s, i)) = Len(s) - 1
         /\ \A k \in 1..Len(s) - 1 : Without(s, i)[k] = IF k < i THEN s[k] ELSE s[k + 1]
<1>. DEFINE t == Without(s, i)
<1>0. Len(s) \in Nat /\ i \in Nat /\ i >= 1 /\ i <= Len(s) /\ \A k \in 1..Len(s) : s[k] \in S
  BY ElementOfSeq
<1>1. /\ SubSeq(s, 1, i - 1) \in Seq(S) /\ Len(SubSeq(s, 1, i - 1)) = i - 1
      /\ \A k \in 1..i - 1 : SubSeq(s, 1, i - 1)[k] = s[k]
  <2>1. \A k \in 1..i - 1 : s[k] \in S
    BY <1>0
  <2>2. /\ SubSeq(s, 1, i - 1) \in Seq(S)
        /\ Len(SubSeq(s, 1, i - 1)) = IF 1 <= i - 1 THEN i - 1 - 1 + 1 ELSE 0
        /\ \A k \in 1..i - 1 - 1 + 1 : SubSeq(s, 1, i - 1)[k] = s[1 + k - 1]
    BY <1>0, <2>1, SubSeqProperties
  <2>. QED BY <1>0, <2>2
<1>2. /\ SubSeq(s, i + 1, Len(s)) \in Seq(S) /\ Len(SubSeq(s, i + 1, Len(s))) = Len(s) - i
      /\ \A k \in 1..Len(s) - i : SubSeq(s, i + 1, Len(s))[k] = s[i + k]
  <2>1. \A k \in i + 1..Len(s) : s[k] \in S
    BY <1>0
  <2>2. /\ SubSeq(s, i + 1, Len(s)) \in Seq(S)
        /\ Len(SubSeq(s, i + 1, Len(s))) = IF i + 1 <= Len(s) THEN Len(s) - (i + 1) + 1 ELSE 0
        /\ \A k \in 1..Len(s) - (i + 1) + 1 : SubSeq(s, i + 1, Len(s))[k] = s[i + 1 + k - 1]
    BY <1>0, <2>1, SubSeqProperties
  <2>. QED BY <1>0, <2>2
<1>. DEFINE a == SubSeq(s, 1, i - 1)  b == SubSeq(s, i + 1, Len(s))
<1>3. /\ a \in Seq(S) /\ b \in Seq(S) /\ t = a \o b
      /\ Len(a) = i - 1 /\ Len(b) = Len(s) - i
      /\ \A k \in 1..i - 1 : a[k] = s[k]
      /\ \A k \in 1..Len(s) - i : b[k] = s[i + k]
  BY <1>1, <1>2 DEF Without
<1>. HIDE DEF a, b, t
<1>4. /\ t \in Seq(S) /\ Len(t) = Len(s) - 1
      /\ \A k \in 1..Len(s) - 1 : t[k] = IF k <= i - 1 THEN a[k] ELSE b[k - (i - 1)]
  <2>1. /\ t \in Seq(S) /\ Len(t) = Len(a) + Len(b)
        /\ \A k \in 1..Len(a) + Len(b) : t[k] = IF k <= Len(a) THEN a[k] ELSE b[k - Len(a)]
    <3>1. /\ a \o b \in Seq(S) /\ Len(a \o b) = Len(a) + Len(b)
          /\ \A k \in 1..Len(a) + Len(b) : (a \o b)[k] = IF k <= Len(a) THEN a[k] ELSE b[k - Len(a)]
      <4>1. a \in Seq(S) /\ b \in Seq(S)
        BY <1>3
      <4>. QED BY <4>1, ConcatProperties
    <3>2. t = a \o b
      BY <1>3
    <3>. QED BY <3>1, <3>2
  <2>2. Len(a) + Len(b) = Len(s) - 1
    BY <1>0, <1>3
  <2>. QED BY <1>3, <2>1, <2>2
<1>5. ASSUME NEW k \in 1..Len(s) - 1 PROVE t[k] = IF k < i THEN s[k] ELSE s[k + 1]
  <2>1. CASE k < i
    <3>1. k \in 1..i - 1 /\ k <= i - 1
      BY <1>0, <1>5, <2>1
    <3>. QED BY <1>3, <1>4, <1>5, <2>1, <3>1
  <2>2. CASE ~(k < i)
    <3>1. k - (i - 1) \in 1..Len(s) - i /\ ~(k <= i - 1) /\ i + (k - (i - 1)) = k + 1
      BY <1>0, <1>5, <2>2
    <3>2. t[k] = b[k - (i - 1)]
      BY <1>4, <1>5, <3>1
    <3>. QED BY <1>3, <2>2, <3>1, <3>2
  <2>. QED BY <2>1, <2>2
<1>. QED BY <1>4, <1>5 DEF t
-----------------------------------------------------------------------------
(***************************************************************************)
(* Type correctness.                                                       *)
(***************************************************************************)
RunRecords == [pc : Jobs \cup {"out", "agent", "prepare", "status"},
               owner : Owners \cup {NoOwner}, account : Accounts \cup {NoAccount},
               served : BOOLEAN]
AccountRecords == [owner : Owners, jobs : SUBSET Jobs]
Stages == [Jobs -> {"idle", "active", "done", "error"}]

WalletTypes == address \in Owners \cup {NoOwner} /\ connecting \in BOOLEAN /\ restoring \in BOOLEAN
ShownTypes ==
  registered \in Shows /\ smartWallet \in Accounts \cup {NoAccount} /\ steps \in Stages
LookupTypes == lookups \in Seq(LookupRecords) /\ Len(lookups) <= MaxLookups
RunTypes == running \in BOOLEAN /\ run \in [Runs -> RunRecords]
EraseTypes ==
  /\ resetting \in BOOLEAN
  /\ erasing \in [pc : {"out", "delete", "deleted", "status"}, owner : Owners \cup {NoOwner}]
ServerTypes ==
  /\ users \in [Owners -> Accounts \cup {NoAccount}]
  /\ accounts \in Seq(AccountRecords) /\ Len(accounts) <= MaxAccounts

LEMMA TypesSplit ==
  TypeOK <=> /\ WalletTypes /\ ShownTypes /\ LookupTypes /\ RunTypes /\ EraseTypes /\ ServerTypes
             /\ excused \in BOOLEAN
BY DEF TypeOK, WalletTypes, ShownTypes, LookupTypes, RunTypes, EraseTypes, ServerTypes, RunRecords,
   AccountRecords, Stages

\* A handler under way has an owner.
OwnersInv ==
  /\ \A r \in Runs : run[r].pc # "out" => run[r].owner \in Owners
  /\ erasing.pc # "out" => erasing.owner \in Owners

BaseInv == TypeOK /\ OwnersInv

LEMMA RowTypes ==
  ASSUME TypeOK, DashboardConstantsOK
  PROVE  /\ \A o \in Owners : StatusOf(o) \in Shows
         /\ \A status \in Shows : AccountShown(status) \in Accounts \cup {NoAccount}
         /\ \A i \in 1..Len(lookups) : lookups[i] \in LookupRecords
         /\ Len(lookups) \in Nat /\ Len(accounts) \in Nat
         /\ InitialSteps \in Stages
BY DEF TypeOK, StatusOf, Shows, Rows, AccountShown, NoAccount, InitialSteps, Stages

\* Asking for the status.
LEMMA FetchEffect ==
  ASSUME TypeOK, DashboardConstantsOK, NEW o \in Owners, NEW by \in {"effect", "reset"} \cup Runs,
         FetchStatus(o, by)
  PROVE  /\ LookupTypes'
         /\ Len(lookups') = Len(lookups) + 1
         /\ \A k \in 1..Len(lookups) : lookups'[k] = lookups[k]
         /\ lookups'[Len(lookups) + 1] = [owner |-> o, by |-> by, saw |-> Unknown, late |-> o # address]
<1>1. lookups \in Seq(LookupRecords) /\ Len(lookups) \in Nat
  BY DEF TypeOK
<1>. DEFINE rec == [owner |-> o, by |-> by, saw |-> Unknown, late |-> o # address]
<1>2. rec \in LookupRecords /\ lookups' = Append(lookups, rec)
  BY DEF LookupRecords, Shows, FetchStatus, Sent
<1>3. /\ lookups' \in Seq(LookupRecords) /\ Len(lookups') = Len(lookups) + 1
      /\ \A k \in 1..Len(lookups) : lookups'[k] = lookups[k]
      /\ lookups'[Len(lookups) + 1] = rec
  <2>. HIDE DEF rec
  <2>. QED BY <1>1, <1>2, AddSeq
<1>. QED BY <1>1, <1>3 DEF LookupTypes, FetchStatus, DashboardConstantsOK

LEMMA FetchBy ==
  ASSUME TypeOK, DashboardConstantsOK, NEW o \in Owners, NEW by, by \in {"effect", "reset"} \cup Runs,
         FetchStatus(o, by)
  PROVE  /\ Len(lookups') = Len(lookups) + 1
         /\ \A k \in 1..Len(lookups) : lookups'[k].by = lookups[k].by
         /\ lookups'[Len(lookups) + 1].by = by
<1>1. /\ Len(lookups') = Len(lookups) + 1
      /\ \A k \in 1..Len(lookups) : lookups'[k] = lookups[k]
      /\ lookups'[Len(lookups) + 1] = [owner |-> o, by |-> by, saw |-> Unknown, late |-> o # address]
  BY FetchEffect
<1>. QED BY <1>1

\* The connected owner changes: what was asked before is late, and the status of
\* a new owner is asked for.
LEMMA OwnerEffect ==
  ASSUME TypeOK, DashboardConstantsOK, NEW o \in Owners \cup {NoOwner}, OwnerBecomes(o)
  PROVE  /\ address' = o /\ running' = running /\ ShownTypes' /\ LookupTypes'
         /\ o = address => UNCHANGED <<registered, smartWallet, steps, lookups>>
         /\ o = NoOwner /\ o # address => registered' = Unknown /\ steps' = InitialSteps
         /\ o # NoOwner => UNCHANGED <<registered, smartWallet, steps>>
         /\ o # address =>
              /\ Len(lookups') = Len(lookups) + (IF o = NoOwner THEN 0 ELSE 1)
              /\ \A k \in 1..Len(lookups) : /\ lookups'[k].by = lookups[k].by
                                            /\ lookups'[k].late
              /\ o # NoOwner => lookups'[Len(lookups) + 1] =
                                  [owner |-> o, by |-> "effect", saw |-> Unknown, late |-> FALSE]
<1>1. address' = o /\ running' = running
  BY DEF OwnerBecomes
<1>2. ShownTypes'
  <2>1. CASE UNCHANGED shown
    BY <2>1 DEF shown, TypeOK, ShownTypes, Stages
  <2>2. CASE registered' = Unknown /\ smartWallet' = NoAccount /\ steps' = InitialSteps
    BY <2>2, RowTypes DEF ShownTypes, Shows
  <2>. QED BY <2>1, <2>2 DEF OwnerBecomes, ClearShown
<1>3. CASE o = address
  BY <1>1, <1>2, <1>3 DEF OwnerBecomes, shown, TypeOK, LookupTypes
<1>4. CASE o # address
  <2>. DEFINE late == LateUpTo(Len(lookups))  n == Len(lookups)
  <2>1. n \in Nat /\ n <= MaxLookups /\ MaxLookups \in Nat
    BY DEF TypeOK, DashboardConstantsOK
  <2>2. /\ late \in Seq(LookupRecords) /\ Len(late) = n
        /\ \A k \in 1..n : late[k].by = lookups[k].by /\ late[k].late
    <3>1. \A k \in 1..n : k <= n
      BY <2>1
    <3>. QED BY <2>1, <3>1, LateSeq
  <2>3. ClearShown(o) /\ (o = NoOwner => registered' = Unknown /\ steps' = InitialSteps)
        /\ (o # NoOwner => UNCHANGED <<registered, smartWallet, steps>>)
    BY <1>4 DEF OwnerBecomes, ClearShown, shown
  <2>4. CASE o = NoOwner
    <3>1. lookups' = late
      BY <1>4, <2>4 DEF OwnerBecomes
    <3>2. LookupTypes'
      BY <2>1, <2>2, <3>1 DEF LookupTypes, DashboardConstantsOK
    <3>. QED BY <1>1, <1>2, <1>4, <2>1, <2>2, <2>3, <2>4, <3>1, <3>2
  <2>5. CASE o # NoOwner
    <3>1. lookups' = Sent(late, o, "effect", FALSE) /\ n < MaxLookups
      BY <1>4, <2>5 DEF OwnerBecomes
    <3>. DEFINE rec == [owner |-> o, by |-> "effect", saw |-> Unknown, late |-> FALSE]
    <3>2. /\ lookups' \in Seq(LookupRecords) /\ Len(lookups') = n + 1
          /\ \A k \in 1..n : lookups'[k] = late[k]
          /\ lookups'[n + 1] = rec
      <4>1. rec \in LookupRecords /\ lookups' = Append(late, rec)
        BY <2>5, <3>1 DEF LookupRecords, Shows, Sent
      <4>. HIDE DEF late, rec
      <4>2. /\ lookups' \in Seq(LookupRecords) /\ Len(lookups') = Len(late) + 1
            /\ \A k \in 1..Len(late) : lookups'[k] = late[k]
            /\ lookups'[Len(late) + 1] = rec
        BY <2>2, <4>1, AddSeq
      <4>. QED BY <2>2, <4>2
    <3>3. LookupTypes'
      <4>. HIDE DEF n, late
      <4>1. n + 1 <= MaxLookups
        BY <2>1, <3>1
      <4>. QED BY <3>2, <4>1 DEF LookupTypes
    <3>. QED BY <1>1, <1>2, <1>4, <2>2, <2>3, <2>5, <3>2, <3>3
  <2>. QED BY <2>4, <2>5
<1>. QED BY <1>3, <1>4

\* An answer arrives: its lookup is gone, those sent before it are late, and the
\* handler that waited for it is over.
LEMMA ArrivedEffect ==
  ASSUME TypeOK, DashboardConstantsOK, NEW i \in 1..Len(lookups), NEW status \in Shows,
         Arrived(i, status)
  PROVE  /\ ShownTypes' /\ LookupTypes' /\ RunTypes' /\ EraseTypes'
         /\ registered' = status /\ steps' = steps
         /\ Len(lookups') = Len(lookups) - 1
         /\ \A k \in 1..Len(lookups') :
              LET q == IF k < i THEN k ELSE k + 1 IN
              /\ q \in 1..Len(lookups) /\ q # i
              /\ lookups'[k].owner = lookups[q].owner /\ lookups'[k].by = lookups[q].by
              /\ lookups'[k].saw = lookups[q].saw
              /\ lookups'[k].late <=> lookups[q].late \/ q <= i
<1>. DEFINE n == Len(lookups)  late == LateUpTo(i)
<1>1. n \in Nat /\ i \in Nat /\ i <= n /\ n <= MaxLookups /\ MaxLookups \in Nat
  BY DEF TypeOK, DashboardConstantsOK
<1>2. /\ late \in Seq(LookupRecords) /\ Len(late) = n
      /\ \A k \in 1..n : /\ late[k].owner = lookups[k].owner /\ late[k].by = lookups[k].by
                         /\ late[k].saw = lookups[k].saw
                         /\ late[k].late <=> lookups[k].late \/ k <= i
  BY <1>1, LateSeq
<1>3. lookups' = Without(late, i)
  BY DEF Arrived, Without
<1>4. /\ lookups' \in Seq(LookupRecords) /\ Len(lookups') = n - 1
      /\ \A k \in 1..n - 1 : lookups'[k] = IF k < i THEN late[k] ELSE late[k + 1]
  <2>. HIDE DEF late
  <2>1. i \in 1..Len(late)
    BY <1>2
  <2>2. /\ lookups' \in Seq(LookupRecords) /\ Len(lookups') = Len(late) - 1
        /\ \A k \in 1..Len(late) - 1 : lookups'[k] = IF k < i THEN late[k] ELSE late[k + 1]
    BY <1>2, <1>3, <2>1, RemoveSeq
  <2>. QED BY <1>2, <2>2
<1>5. ASSUME NEW k \in 1..n - 1, NEW q, q = IF k < i THEN k ELSE k + 1
      PROVE  /\ q \in 1..n /\ q # i /\ lookups'[k] = late[q]
  BY <1>1, <1>4, <1>5
<1>6. ShownTypes' /\ registered' = status /\ steps' = steps
  BY RowTypes DEF Arrived, TypeOK, ShownTypes, Stages
<1>7. LookupTypes'
  BY <1>1, <1>4 DEF LookupTypes
<1>8. RunTypes' /\ EraseTypes'
  BY DEF Arrived, Resume, TypeOK, RunTypes, EraseTypes, RunRecords, NoRun, NotErasing
<1>9. \A k \in 1..Len(lookups') :
         LET q == IF k < i THEN k ELSE k + 1 IN
         /\ q \in 1..n /\ q # i
         /\ lookups'[k].owner = lookups[q].owner /\ lookups'[k].by = lookups[q].by
         /\ lookups'[k].saw = lookups[q].saw
         /\ lookups'[k].late <=> lookups[q].late \/ q <= i
  <2>. HIDE DEF late
  <2>1. SUFFICES ASSUME NEW k \in 1..n - 1, NEW q, q = IF k < i THEN k ELSE k + 1
                 PROVE  /\ q \in 1..n /\ q # i
                        /\ lookups'[k].owner = lookups[q].owner /\ lookups'[k].by = lookups[q].by
                        /\ lookups'[k].saw = lookups[q].saw
                        /\ lookups'[k].late <=> lookups[q].late \/ q <= i
    BY <1>4
  <2>2. q \in 1..n /\ q # i /\ lookups'[k] = late[q]
    BY <1>5, <2>1
  <2>3. /\ late[q].owner = lookups[q].owner /\ late[q].by = lookups[q].by
        /\ late[q].saw = lookups[q].saw
        /\ late[q].late <=> lookups[q].late \/ q <= i
    <3>1. q \in 1..n
      BY <2>2
    <3>2. \A x \in 1..n : /\ late[x].owner = lookups[x].owner /\ late[x].by = lookups[x].by
                          /\ late[x].saw = lookups[x].saw
                          /\ late[x].late <=> lookups[x].late \/ x <= i
      BY <1>2
    <3>. QED BY <3>1, <3>2, Zenon
  <2>. QED BY <2>2, <2>3, Zenon
<1>. QED BY <1>4, <1>6, <1>7, <1>8, <1>9
\* One run moves on.
LEMMA RunEffect ==
  ASSUME BaseInv, NEW r \in Runs, NEW x \in RunRecords, x.pc # "out" => x.owner \in Owners,
         run' = [run EXCEPT ![r] = x]
  PROVE  /\ run' \in [Runs -> RunRecords]
         /\ \A q \in Runs : run'[q].pc # "out" => run'[q].owner \in Owners
BY DEF BaseInv, TypesSplit, TypeOK, RunRecords, OwnersInv

LEMMA LookupsOK ==
  ASSUME DashboardConstantsOK, BaseInv, LookupStep
  PROVE  BaseInv'
<1>. USE DEF BaseInv
<1>1. ASSUME NEW i \in 1..Len(lookups), ReadStatus(i) PROVE BaseInv'
  <2>1. lookups[i] \in LookupRecords /\ StatusOf(lookups[i].owner) \in Shows
    BY RowTypes DEF LookupRecords
  <2>2. lookups \in Seq(LookupRecords)
    BY DEF TypeOK
  <2>. DEFINE x == [lookups[i] EXCEPT !.saw = StatusOf(lookups[i].owner)]
  <2>3. x \in LookupRecords /\ lookups' = [lookups EXCEPT ![i] = x]
    BY <1>1, <2>1 DEF ReadStatus, LookupRecords
  <2>4. lookups' \in Seq(LookupRecords) /\ Len(lookups') = Len(lookups)
    <3>. HIDE DEF x
    <3>. QED BY <2>2, <2>3, ExceptSeq
  <2>. QED BY <1>1, <2>4 DEF ReadStatus, TypeOK, OwnersInv, wallet, shown, server
<1>2. ASSUME NEW i \in 1..Len(lookups), NEW status \in Shows, Arrived(i, status), excused' \in BOOLEAN
      PROVE  BaseInv'
  <2>1. ShownTypes' /\ LookupTypes' /\ RunTypes' /\ EraseTypes'
    BY <1>2, ArrivedEffect
  <2>2. WalletTypes' /\ ServerTypes'
    BY <1>2, TypesSplit DEF Arrived, wallet, server, WalletTypes, ServerTypes
  <2>3. OwnersInv'
    BY <1>2 DEF Arrived, Resume, OwnersInv, NoRun, NotErasing
  <2>. QED BY <1>2, <2>1, <2>2, <2>3, TypesSplit DEF TypeOK, WalletTypes, ShownTypes, LookupTypes,
           RunTypes, EraseTypes, ServerTypes, RunRecords, AccountRecords, Stages
<1>3. ASSUME NEW i \in 1..Len(lookups), ShowStatus(i) \/ StatusFails(i) PROVE BaseInv'
  <2>1. lookups[i].saw \in Shows /\ NotRegistered \in Shows
    BY RowTypes DEF LookupRecords, Shows
  <2>2. excused' \in BOOLEAN
    BY <1>3 DEF ShowStatus, StatusFails, TypeOK
  <2>. QED BY <1>2, <1>3, <2>1, <2>2 DEF ShowStatus, StatusFails
<1>. QED BY <1>1, <1>3 DEF LookupStep

LEMMA WalletOK ==
  ASSUME DashboardConstantsOK, BaseInv, WalletStep \/ Connect \/ Disconnect \/ Refresh
  PROVE  BaseInv'
<1>. USE DEF BaseInv
<1>1. ASSUME NEW o \in Owners \cup {NoOwner}, OwnerBecomes(o), connecting' \in BOOLEAN,
             restoring' \in BOOLEAN, UNCHANGED <<resetting, run, erasing, server, excused>>
      PROVE  BaseInv'
  <2>1. address' = o /\ running' = running /\ ShownTypes' /\ LookupTypes'
    BY <1>1, OwnerEffect
  <2>2. OwnersInv'
    BY <1>1 DEF OwnersInv
  <2>. QED BY <1>1, <2>1, <2>2 DEF TypeOK, ShownTypes, LookupTypes, server, Stages
<1>2. CASE RestoreAddress
  <2>1. /\ \E o \in Owners \cup {NoOwner} : OwnerBecomes(o)
        /\ connecting' \in BOOLEAN /\ restoring' \in BOOLEAN
        /\ UNCHANGED <<resetting, run, erasing, server, excused>>
    BY <1>2 DEF RestoreAddress, TypeOK
  <2>. QED BY <1>1, <2>1
<1>3. CASE Connected
  <2>1. /\ connecting' \in BOOLEAN /\ restoring' \in BOOLEAN
        /\ UNCHANGED <<resetting, run, erasing, server, excused>>
    BY <1>3 DEF Connected, TypeOK
  <2>2. CASE \E o \in Owners : OwnerBecomes(o)
    BY <1>1, <2>1, <2>2
  <2>3. CASE UNCHANGED <<address, shown, running, lookups>>
    BY <2>1, <2>3 DEF TypeOK, OwnersInv, shown, server
  <2>. QED BY <1>3, <2>2, <2>3 DEF Connected
<1>4. CASE Disconnect
  <2>1. OwnerBecomes(NoOwner) /\ connecting' \in BOOLEAN /\ restoring' \in BOOLEAN
        /\ UNCHANGED <<resetting, run, erasing, server, excused>>
    BY <1>4 DEF Disconnect, TypeOK
  <2>. QED BY <1>1, <2>1
<1>5. CASE Connect
  BY <1>5 DEF Connect, TypeOK, OwnersInv, shown, server
<1>6. CASE Refresh
  <2>1. address \in Owners /\ FetchStatus(address, "effect")
    BY <1>6 DEF Refresh, TypeOK
  <2>2. LookupTypes'
    BY <2>1, FetchEffect
  <2>. QED BY <1>6, <2>2 DEF Refresh, TypeOK, OwnersInv, LookupTypes, wallet, shown, server
<1>. QED BY <1>2, <1>3, <1>4, <1>5, <1>6 DEF WalletStep

LEMMA ErasingOK ==
  ASSUME DashboardConstantsOK, BaseInv, ResetDemo \/ ResetStep
  PROVE  BaseInv'
<1>. USE DEF BaseInv
<1>1. CASE ResetDemo
  BY <1>1 DEF ResetDemo, TypeOK, OwnersInv, wallet, shown, server
<1>2. CASE Erase
  <2>1. erasing.owner \in Owners
    BY <1>2 DEF Erase, OwnersInv
  <2>. QED BY <1>2, <2>1 DEF Erase, TypeOK, OwnersInv, wallet, shown
<1>3. CASE Erased
  <2>1. erasing.owner \in Owners
    BY <1>3 DEF Erased, DeleteReturns, OwnersInv
  <2>2. LookupTypes'
    BY <1>3, <2>1, FetchEffect DEF Erased
  <2>3. ShownTypes'
    BY <1>3, RowTypes DEF Erased, TypeOK, ShownTypes
  <2>. QED BY <1>3, <2>1, <2>2, <2>3 DEF Erased, TypeOK, OwnersInv, LookupTypes, ShownTypes, Stages,
           wallet, server
<1>. QED BY <1>1, <1>2, <1>3 DEF ResetStep

LEMMA CatchEffect ==
  ASSUME BaseInv, NEW r \in Runs, Catch(r)
  PROVE  /\ steps' \in Stages /\ RunTypes'
         /\ \A q \in Runs : run'[q].pc # "out" => run'[q].owner \in Owners
<1>1. steps' \in Stages
  BY DEF Catch, MarkError, BaseInv, TypeOK, Stages
<1>2. NoRun \in RunRecords /\ NoRun.pc = "out"
  BY DEF NoRun, RunRecords
<1>3. run' = [run EXCEPT ![r] = NoRun] /\ running' = FALSE
  BY DEF Catch
<1>. QED BY <1>1, <1>2, <1>3, RunEffect DEF RunTypes
\* The server's part of a run's step.
LEMMA DoesEffect ==
  ASSUME BaseInv, NEW r \in Runs, NEW job \in Jobs, Does(r, job)
  PROVE  /\ accounts' \in Seq(AccountRecords) /\ Len(accounts') = Len(accounts)
         /\ \A a \in 1..Len(accounts) :
              accounts'[a] = IF a = run[r].account
                             THEN [accounts[a] EXCEPT !.jobs = @ \cup {job}] ELSE accounts[a]
         /\ run[r].pc = job
<1>. DEFINE a == run[r].account
<1>1. accounts \in Seq(AccountRecords) /\ Len(accounts) \in Nat
  BY DEF BaseInv, TypeOK, AccountRecords
<1>2. \A b \in 1..Len(accounts) : accounts[b] \in AccountRecords
  BY <1>1
<1>3. accounts' = IF a = NoAccount THEN accounts ELSE [accounts EXCEPT ![a].jobs = @ \cup {job}]
  BY DEF Does, For
<1>4. run[r].pc = job
  BY DEF Does
<1>5. CASE a \notin 1..Len(accounts)
  <2>1. accounts' = accounts
    BY <1>1, <1>3, <1>5
  <2>. QED BY <1>1, <1>4, <1>5, <2>1
<1>6. CASE a \in 1..Len(accounts)
  <2>. DEFINE x == [accounts[a] EXCEPT !.jobs = @ \cup {job}]
  <2>1. x \in AccountRecords /\ a # NoAccount
    BY <1>2, <1>6 DEF AccountRecords, NoAccount
  <2>2. accounts' = [accounts EXCEPT ![a] = x]
    BY <1>3, <2>1
  <2>3. /\ [accounts EXCEPT ![a] = x] \in Seq(AccountRecords)
        /\ Len([accounts EXCEPT ![a] = x]) = Len(accounts)
        /\ \A b \in 1..Len(accounts) : [accounts EXCEPT ![a] = x][b] = IF b = a THEN x ELSE accounts[b]
    <3>. HIDE DEF x
    <3>. QED BY <1>1, <1>6, <2>1, ExceptSeq
  <2>. QED BY <1>4, <2>2, <2>3
<1>. QED BY <1>5, <1>6

LEMMA RunsOK ==
  ASSUME DashboardConstantsOK, BaseInv, NEW r \in Runs, Start(r) \/ RunStep(r)
  PROVE  BaseInv'
<1>. USE DEF BaseInv
<1>0. run[r] \in RunRecords /\ accounts \in Seq(AccountRecords) /\ Len(accounts) \in Nat
  BY DEF TypeOK, RunRecords, AccountRecords
<1>1. ASSUME WalletTypes', ShownTypes', LookupTypes', RunTypes', ServerTypes', excused' \in BOOLEAN,
             UNCHANGED <<resetting, erasing>>,
             \A q \in Runs : run'[q].pc # "out" => run'[q].owner \in Owners
      PROVE  BaseInv'
  BY <1>1 DEF TypeOK, OwnersInv, WalletTypes, ShownTypes, LookupTypes, RunTypes, ServerTypes,
     RunRecords, AccountRecords, Stages
<1>2. /\ UNCHANGED wallet => WalletTypes'
      /\ UNCHANGED shown => ShownTypes'
      /\ UNCHANGED lookups => LookupTypes'
      /\ UNCHANGED server => ServerTypes'
      /\ UNCHANGED excused => excused' \in BOOLEAN
  BY DEF TypeOK, wallet, shown, server, WalletTypes, ShownTypes, LookupTypes, ServerTypes,
     AccountRecords, Stages
<1>3. ASSUME NEW x \in RunRecords, x.pc # "out" => x.owner \in Owners, run' = [run EXCEPT ![r] = x],
             running' \in BOOLEAN
      PROVE  /\ RunTypes'
             /\ \A q \in Runs : run'[q].pc # "out" => run'[q].owner \in Owners
  BY <1>3, RunEffect DEF RunTypes
<1>4. ASSUME NEW st \in Stages, steps' = st, UNCHANGED <<registered, smartWallet>> PROVE ShownTypes'
  BY <1>4 DEF TypeOK, ShownTypes
<1>5. CASE Start(r)
  <2>. DEFINE x == [NoRun EXCEPT !.pc = "agent", !.owner = address]
  <2>1. x \in RunRecords /\ x.owner \in Owners
    BY <1>5 DEF Start, MayStart, InSetup, NoRun, RunRecords, TypeOK
  <2>2. run' = [run EXCEPT ![r] = x] /\ running' \in BOOLEAN
        /\ steps' = InitialSteps
        /\ UNCHANGED <<wallet, registered, smartWallet, resetting, erasing, lookups, server, excused>>
    BY <1>5 DEF Start
  <2>. HIDE DEF x
  <2>. QED BY <1>1, <1>2, <1>3, <1>4, <2>1, <2>2, RowTypes
<1>6. CASE LoadAgent(r)
  <2>. DEFINE x == [run[r] EXCEPT !.pc = "prepare"]  st == [steps EXCEPT !["deploy"] = "active"]
  <2>1. x \in RunRecords /\ x.owner \in Owners /\ st \in Stages
    BY <1>0, <1>6 DEF LoadAgent, OwnersInv, RunRecords, TypeOK, Stages
  <2>2. run' = [run EXCEPT ![r] = x] /\ running' \in BOOLEAN /\ steps' = st
        /\ UNCHANGED <<wallet, registered, smartWallet, resetting, erasing, lookups, server, excused>>
    BY <1>6 DEF LoadAgent, TypeOK
  <2>. HIDE DEF x, st
  <2>. QED BY <1>1, <1>2, <1>3, <1>4, <2>1, <2>2
<1>7. CASE Prepare(r)
  <2>. DEFINE rec == [owner |-> run[r].owner, jobs |-> {}]
              x == [run[r] EXCEPT !.pc = "deploy", !.account = Len(accounts')]
  <2>1. run[r].owner \in Owners /\ Len(accounts) < MaxAccounts /\ accounts' = Append(accounts, rec)
        /\ run' = [run EXCEPT ![r] = x] /\ running' \in BOOLEAN
        /\ UNCHANGED <<wallet, shown, resetting, erasing, lookups, users, excused>>
    BY <1>7 DEF Prepare, OwnersInv, TypeOK
  <2>2. rec \in AccountRecords
    BY <2>1 DEF AccountRecords
  <2>3. accounts' \in Seq(AccountRecords) /\ Len(accounts') = Len(accounts) + 1
    <3>. HIDE DEF rec
    <3>. QED BY <1>0, <2>1, <2>2, AppendProperties
  <2>4. ServerTypes' /\ Len(accounts') \in Accounts
    BY <1>0, <2>1, <2>3 DEF ServerTypes, TypeOK, Accounts, DashboardConstantsOK
  <2>5. x \in RunRecords /\ x.owner \in Owners
    BY <1>0, <2>1, <2>4 DEF RunRecords, Jobs
  <2>. HIDE DEF x
  <2>. QED BY <1>1, <1>2, <1>3, <2>1, <2>4, <2>5
<1>8. ASSUME NEW job \in Jobs, Does(r, job), users' \in [Owners -> Accounts \cup {NoAccount}]
      PROVE  ServerTypes' /\ run[r].owner \in Owners
  <2>1. run[r].pc = job /\ accounts' \in Seq(AccountRecords) /\ Len(accounts') = Len(accounts)
    BY <1>8, DoesEffect
  <2>2. run[r].owner \in Owners
    BY <1>8, <2>1 DEF OwnersInv, Jobs
  <2>. QED BY <1>8, <2>1, <2>2 DEF ServerTypes, TypeOK
<1>9. CASE Serve(r)
  <2>. DEFINE x == [run[r] EXCEPT !.served = TRUE]
  <2>1. x \in RunRecords /\ x.owner = run[r].owner /\ run[r].account \in Accounts \cup {NoAccount}
    BY <1>0 DEF RunRecords
  <2>2. PICK job \in Jobs :
          /\ Does(r, job)
          /\ users' = IF job = "register" THEN [users EXCEPT ![run[r].owner] = run[r].account] ELSE users
    BY <1>9 DEF Serve, For
  <2>3. users' \in [Owners -> Accounts \cup {NoAccount}]
    BY <2>1, <2>2 DEF TypeOK
  <2>4. run' = [run EXCEPT ![r] = x] /\ running' \in BOOLEAN
        /\ UNCHANGED <<wallet, shown, resetting, erasing, lookups, excused>>
    BY <1>9 DEF Serve, TypeOK
  <2>5. ServerTypes' /\ run[r].owner \in Owners
    BY <1>8, <2>2, <2>3
  <2>. HIDE DEF x
  <2>. QED BY <1>1, <1>2, <1>3, <2>1, <2>4, <2>5
<1>10. CASE MintUsdc(r)
  <2>1. ServerTypes' /\ run[r].owner \in Owners
    BY <1>8, <1>10 DEF MintUsdc, TypeOK, Jobs
  <2>2. UNCHANGED <<wallet, registered, smartWallet, resetting, erasing, lookups, excused>>
    BY <1>10 DEF MintUsdc
  <2>3. CASE run' = [run EXCEPT ![r].served = TRUE] /\ UNCHANGED <<steps, running>>
    <3>. DEFINE x == [run[r] EXCEPT !.served = TRUE]
    <3>1. x \in RunRecords /\ x.owner = run[r].owner /\ run' = [run EXCEPT ![r] = x]
          /\ running' \in BOOLEAN /\ UNCHANGED shown
      BY <1>0, <2>2, <2>3 DEF RunRecords, TypeOK, shown
    <3>. HIDE DEF x
    <3>. QED BY <1>1, <1>2, <1>3, <2>1, <2>2, <3>1
  <2>4. CASE Catch(r)
    BY <1>1, <1>2, <1>4, <2>1, <2>2, <2>4, CatchEffect
  <2>. QED BY <1>10, <2>3, <2>4 DEF MintUsdc
<1>11. CASE Answer(r)
  <2>. DEFINE job == run[r].pc  next == After(job)
  <2>1. job \in Jobs /\ run[r].owner \in Owners
        /\ UNCHANGED <<wallet, registered, resetting, erasing, server, excused>>
    BY <1>11 DEF Answer, OwnersInv, Jobs
  <2>2. smartWallet' \in Accounts \cup {NoAccount}
    BY <1>0, <1>11 DEF Answer, TypeOK, RunRecords
  <2>3. steps' \in Stages
    <3>1. steps \in Stages
      BY DEF TypeOK, Stages
    <3>2. \/ steps' = [steps EXCEPT ![job] = "done"]
          \/ steps' = [steps EXCEPT ![job] = "done", ![next] = "active"]
      BY <1>11 DEF Answer
    <3>. HIDE DEF job, next
    <3>. QED BY <3>1, <3>2 DEF Stages
  <2>4. ShownTypes'
    BY <2>1, <2>2, <2>3 DEF ShownTypes, TypeOK
  <2>5. CASE job = "register"
    <3>. DEFINE x == [run[r] EXCEPT !.pc = "status", !.served = FALSE]
    <3>1. x \in RunRecords /\ x.owner \in Owners /\ run' = [run EXCEPT ![r] = x] /\ running' \in BOOLEAN
          /\ FetchStatus(run[r].owner, r)
      BY <1>0, <1>11, <2>1, <2>5 DEF Answer, AskStatus, RunRecords, TypeOK
    <3>2. LookupTypes'
      BY <2>1, <3>1, FetchEffect
    <3>. HIDE DEF x
    <3>. QED BY <1>1, <1>2, <1>3, <2>1, <2>4, <3>1, <3>2
  <2>6. CASE job # "register"
    <3>. DEFINE x == [run[r] EXCEPT !.pc = next, !.served = FALSE]
    <3>1. run' = [run EXCEPT ![r] = x] /\ UNCHANGED <<running, lookups>>
      BY <1>11, <2>6 DEF Answer
    <3>2. next \in Jobs
      BY <2>1, <2>6 DEF After, Jobs
    <3>3. x \in RunRecords /\ x.owner \in Owners
      BY <1>0, <2>1, <3>2 DEF RunRecords
    <3>4. running' \in BOOLEAN
      BY <3>1 DEF TypeOK
    <3>. HIDE DEF x
    <3>. QED BY <1>1, <1>2, <1>3, <2>1, <2>4, <3>1, <3>3, <3>4
  <2>. QED BY <2>5, <2>6
<1>12. CASE Fail(r)
  <2>1. Catch(r) /\ excused' \in BOOLEAN
        /\ UNCHANGED <<wallet, registered, smartWallet, resetting, erasing, lookups, server>>
    BY <1>12 DEF Fail, TypeOK
  <2>. QED BY <1>1, <1>2, <1>4, <2>1, CatchEffect
<1>. QED BY <1>5, <1>6, <1>7, <1>9, <1>10, <1>11, <1>12 DEF RunStep

LEMMA BaseNext == ASSUME DashboardConstantsOK, BaseInv, [Next]_vars PROVE BaseInv'
<1>1. CASE UNCHANGED vars
  BY <1>1 DEF vars, BaseInv, TypeOK, OwnersInv
<1>. QED BY <1>1, LookupsOK, WalletOK, ErasingOK, RunsOK DEF Next

LEMMA BaseInit == ASSUME DashboardConstantsOK, Init PROVE BaseInv
<1>1. lookups \in Seq(LookupRecords) /\ Len(lookups) = 0 /\ accounts \in Seq(AccountRecords)
      /\ Len(accounts) = 0
  BY DEF Init
<1>2. WalletTypes /\ EraseTypes /\ excused \in BOOLEAN
  BY DEF Init, WalletTypes, EraseTypes, NotErasing
<1>3. ShownTypes
  BY DEF Init, ShownTypes, Shows, InitialSteps, Stages
<1>4. LookupTypes /\ ServerTypes
  BY <1>1 DEF Init, LookupTypes, ServerTypes, DashboardConstantsOK
<1>5. RunTypes
  <2>1. NoRun \in RunRecords
    BY DEF NoRun, RunRecords
  <2>. QED BY <2>1 DEF Init, RunTypes
<1>6. TypeOK
  BY <1>2, <1>3, <1>4, <1>5, TypesSplit
<1>. QED BY <1>6 DEF BaseInv, OwnersInv, Init, NoRun, NotErasing

\* Every variable keeps its type, and a set-up or a reset under way has an owner.
THEOREM TypeCorrect == Spec => []BaseInv
<1>1. Init => BaseInv
  BY BaseInit, DashboardConstantsOK
<1>2. BaseInv /\ [Next]_vars => BaseInv'
  BY BaseNext, DashboardConstantsOK
<1>. QED BY <1>1, <1>2, PTL DEF Spec

\* The type invariant of the run.
THEOREM TypesKept == Spec => []TypeOK
<1>1. BaseInv => TypeOK
  BY DEF BaseInv
<1>. QED BY <1>1, TypeCorrect, PTL
-----------------------------------------------------------------------------
(***************************************************************************)
(* The account a set-up works on is its owner's, and the calls before the  *)
(* one it is at were served for it.                                        *)
(***************************************************************************)
Before(job) == CASE job = "deploy" -> {} [] job = "authorize" -> {"deploy"}
                 [] job = "fund" -> {"deploy", "authorize"}
                 [] job = "register" -> {"deploy", "authorize", "fund"}

RunsAccount ==
  /\ \A r \in Runs : run[r].pc \in Jobs =>
       /\ run[r].account \in 1..Len(accounts)
       /\ accounts[run[r].account].owner = run[r].owner
       /\ Before(run[r].pc) \subseteq accounts[run[r].account].jobs
       /\ run[r].served => run[r].pc \in accounts[run[r].account].jobs
  /\ \A r \in Runs : run[r].served => run[r].pc \in Jobs

UsersAccount ==
  \A o \in Owners : users[o] # NoAccount =>
    /\ users[o] \in 1..Len(accounts)
    /\ accounts[users[o]].owner = o
    /\ Jobs \subseteq accounts[users[o]].jobs

AccountInv == RunsAccount /\ UsersAccount

\* Nothing is served: runs go on where accounts play no part, or end.
LEMMA AccountKept ==
  ASSUME AccountInv, accounts' = accounts,
         \A r \in Runs : run'[r] = run[r] \/ (run'[r].pc \notin Jobs /\ ~run'[r].served),
         \A o \in Owners : users'[o] = users[o] \/ users'[o] = NoAccount
  PROVE  AccountInv'
<1>1. RunsAccount'
  BY DEF AccountInv, RunsAccount
<1>2. UsersAccount'
  BY DEF AccountInv, UsersAccount
<1>. QED BY <1>1, <1>2 DEF AccountInv

LEMMA AccountServed ==
  ASSUME BaseInv, AccountInv, NEW r \in Runs, NEW job \in Jobs, Does(r, job),
         \A q \in Runs \ {r} : run'[q] = run[q],
         run'[r].served => run'[r].pc \in Jobs,
         run'[r].pc \in Jobs => run'[r].pc = job,
         run'[r].pc \in Jobs => run'[r].owner = run[r].owner,
         run'[r].pc \in Jobs => run'[r].account = run[r].account,
         \A o \in Owners : \/ users'[o] = users[o]
                           \/ job = "register" /\ o = run[r].owner /\ users'[o] = run[r].account
  PROVE  AccountInv'
<1>. DEFINE a == run[r].account
<1>1. /\ run[r].pc = job /\ a \in 1..Len(accounts) /\ accounts[a].owner = run[r].owner
      /\ Before(job) \subseteq accounts[a].jobs
  BY DoesEffect DEF AccountInv, RunsAccount
<1>2. \A b \in 1..Len(accounts) : accounts[b] \in AccountRecords
  <2>1. accounts \in Seq(AccountRecords)
    BY DEF BaseInv, TypeOK, AccountRecords
  <2>. QED BY <2>1
<1>3. /\ Len(accounts') = Len(accounts)
      /\ \A b \in 1..Len(accounts) :
           accounts'[b] = IF b = a THEN [accounts[b] EXCEPT !.jobs = @ \cup {job}] ELSE accounts[b]
  BY DoesEffect
<1>4. /\ \A b \in 1..Len(accounts) : /\ accounts'[b].owner = accounts[b].owner
                                     /\ accounts[b].jobs \subseteq accounts'[b].jobs
      /\ job \in accounts'[a].jobs
  BY <1>1, <1>2, <1>3 DEF AccountRecords
<1>5. RunsAccount'
  <2>1. ASSUME NEW q \in Runs, run'[q].pc \in Jobs
        PROVE  /\ run'[q].account \in 1..Len(accounts')
               /\ accounts'[run'[q].account].owner = run'[q].owner
               /\ Before(run'[q].pc) \subseteq accounts'[run'[q].account].jobs
               /\ run'[q].served => run'[q].pc \in accounts'[run'[q].account].jobs
    <3>1. CASE q # r
      <4>1. /\ run[q].account \in 1..Len(accounts) /\ accounts[run[q].account].owner = run[q].owner
            /\ Before(run[q].pc) \subseteq accounts[run[q].account].jobs
            /\ run[q].served => run[q].pc \in accounts[run[q].account].jobs
        BY <2>1, <3>1 DEF AccountInv, RunsAccount
      <4>. QED BY <1>3, <1>4, <3>1, <4>1
    <3>2. CASE q = r
      BY <1>1, <1>3, <1>4, <2>1, <3>2
    <3>. QED BY <3>1, <3>2
  <2>2. \A q \in Runs : run'[q].served => run'[q].pc \in Jobs
    BY DEF AccountInv, RunsAccount
  <2>. QED BY <2>1, <2>2 DEF RunsAccount
<1>6. UsersAccount'
  <2>1. job = "register" => Jobs \subseteq accounts'[a].jobs
    BY <1>1, <1>4 DEF Before, Jobs
  <2>2. ASSUME NEW o \in Owners, users'[o] # NoAccount
        PROVE  /\ users'[o] \in 1..Len(accounts') /\ accounts'[users'[o]].owner = o
               /\ Jobs \subseteq accounts'[users'[o]].jobs
    <3>1. CASE users'[o] = users[o]
      <4>1. /\ users[o] \in 1..Len(accounts) /\ accounts[users[o]].owner = o
            /\ Jobs \subseteq accounts[users[o]].jobs
        BY <2>2, <3>1 DEF AccountInv, UsersAccount
      <4>. QED BY <1>3, <1>4, <3>1, <4>1
    <3>2. CASE job = "register" /\ o = run[r].owner /\ users'[o] = a
      BY <1>1, <1>3, <1>4, <2>1, <3>2
    <3>. QED BY <3>1, <3>2
  <2>. QED BY <2>2 DEF UsersAccount
<1>. QED BY <1>5, <1>6 DEF AccountInv

LEMMA AccountRuns ==
  ASSUME DashboardConstantsOK, BaseInv, AccountInv, NEW r \in Runs, Start(r) \/ RunStep(r)
  PROVE  AccountInv'
<1>0. /\ run[r] \in RunRecords /\ run \in [Runs -> RunRecords] /\ Len(accounts) \in Nat
      /\ accounts \in Seq(AccountRecords) /\ users \in [Owners -> Accounts \cup {NoAccount}]
  BY DEF BaseInv, TypeOK, RunRecords, AccountRecords
<1>1. ASSUME NEW x, run' = [run EXCEPT ![r] = x]
      PROVE  run'[r] = x /\ \A q \in Runs \ {r} : run'[q] = run[q]
  BY <1>0, <1>1
<1>2. ASSUME NEW x, run' = [run EXCEPT ![r] = x], x.pc \notin Jobs, ~x.served, UNCHANGED server
      PROVE  AccountInv'
  <2>1. \A q \in Runs : run'[q] = run[q] \/ (run'[q].pc \notin Jobs /\ ~run'[q].served)
    <3>1. run'[r] = x /\ \A q \in Runs \ {r} : run'[q] = run[q]
      BY <1>1, <1>2
    <3>2. ASSUME NEW q \in Runs PROVE run'[q] = run[q] \/ run'[q] = x
      BY <3>1
    <3>. QED BY <1>2, <3>2
  <2>2. accounts' = accounts /\ users' = users
    BY <1>2 DEF server
  <2>. QED BY <2>1, <2>2, AccountKept
<1>3. NoRun.pc \notin Jobs /\ ~NoRun.served
  BY DEF NoRun, Jobs
<1>4. CASE Start(r)
  <2>. DEFINE x == [NoRun EXCEPT !.pc = "agent", !.owner = address]
  <2>1. x.pc \notin Jobs /\ ~x.served
    BY DEF NoRun, Jobs
  <2>2. run' = [run EXCEPT ![r] = x] /\ UNCHANGED server
    BY <1>4 DEF Start
  <2>. HIDE DEF x
  <2>. QED BY <1>2, <2>1, <2>2
<1>5. CASE LoadAgent(r)
  <2>. DEFINE x == [run[r] EXCEPT !.pc = "prepare"]
  <2>1. ~run[r].served
    BY <1>5 DEF LoadAgent, AccountInv, RunsAccount, Jobs
  <2>2. x.pc \notin Jobs /\ ~x.served
    BY <1>0, <2>1 DEF RunRecords, Jobs
  <2>3. run' = [run EXCEPT ![r] = x] /\ UNCHANGED server
    BY <1>5 DEF LoadAgent
  <2>. HIDE DEF x
  <2>. QED BY <1>2, <2>2, <2>3
<1>6. CASE Prepare(r)
  <2>. DEFINE rec == [owner |-> run[r].owner, jobs |-> {}]
              x == [run[r] EXCEPT !.pc = "deploy", !.account = Len(accounts')]
  <2>1. ~run[r].served /\ run[r].owner \in Owners
    BY <1>6 DEF Prepare, AccountInv, RunsAccount, Jobs, BaseInv, OwnersInv
  <2>2. /\ x.pc = "deploy" /\ x.account = Len(accounts') /\ x.owner = run[r].owner /\ ~x.served
        /\ run' = [run EXCEPT ![r] = x] /\ accounts' = Append(accounts, rec) /\ users' = users
    BY <1>0, <1>6, <2>1 DEF Prepare, RunRecords
  <2>3. rec \in AccountRecords /\ rec.owner = run[r].owner
    BY <2>1 DEF AccountRecords
  <2>. HIDE DEF rec, x
  <2>4. /\ Len(accounts') = Len(accounts) + 1 /\ accounts'[Len(accounts) + 1] = rec
        /\ \A b \in 1..Len(accounts) : accounts'[b] = accounts[b]
    BY <1>0, <2>2, <2>3, AppendProperties
  <2>5. run'[r] = x /\ \A q \in Runs \ {r} : run'[q] = run[q]
    BY <1>1, <2>2
  <2>6. RunsAccount'
    <3>1. ASSUME NEW q \in Runs, q # r, run'[q].pc \in Jobs
          PROVE  /\ run'[q].account \in 1..Len(accounts')
                 /\ accounts'[run'[q].account].owner = run'[q].owner
                 /\ Before(run'[q].pc) \subseteq accounts'[run'[q].account].jobs
                 /\ run'[q].served => run'[q].pc \in accounts'[run'[q].account].jobs
      <4>1. /\ run[q].account \in 1..Len(accounts) /\ accounts[run[q].account].owner = run[q].owner
            /\ Before(run[q].pc) \subseteq accounts[run[q].account].jobs
            /\ run[q].served => run[q].pc \in accounts[run[q].account].jobs
        BY <2>5, <3>1 DEF AccountInv, RunsAccount
      <4>. QED BY <1>0, <2>4, <2>5, <3>1, <4>1
    <3>2. /\ run'[r].account \in 1..Len(accounts')
          /\ accounts'[run'[r].account].owner = run'[r].owner
          /\ Before(run'[r].pc) = {} /\ run'[r].pc \in Jobs /\ ~run'[r].served
      BY <1>0, <2>2, <2>3, <2>4, <2>5 DEF Before, Jobs
    <3>3. \A q \in Runs : run'[q].served => run'[q].pc \in Jobs
      BY <2>2, <2>5 DEF AccountInv, RunsAccount
    <3>. QED BY <3>1, <3>2, <3>3 DEF RunsAccount
  <2>7. UsersAccount'
    <3>1. \A o \in Owners : users[o] # NoAccount =>
            /\ users[o] \in 1..Len(accounts) /\ accounts[users[o]].owner = o
            /\ Jobs \subseteq accounts[users[o]].jobs
      BY DEF AccountInv, UsersAccount
    <3>. QED BY <1>0, <2>2, <2>4, <3>1 DEF UsersAccount
  <2>. QED BY <2>6, <2>7 DEF AccountInv
<1>7. ASSUME NEW job \in Jobs, Does(r, job), run' = [run EXCEPT ![r].served = TRUE],
             \A o \in Owners : \/ users'[o] = users[o]
                               \/ job = "register" /\ o = run[r].owner /\ users'[o] = run[r].account
      PROVE  AccountInv'
  <2>. DEFINE x == [run[r] EXCEPT !.served = TRUE]
  <2>1. run[r].pc = job
    BY <1>7 DEF Does
  <2>2. /\ x.pc = job /\ x.owner = run[r].owner /\ x.account = run[r].account
        /\ run' = [run EXCEPT ![r] = x]
    BY <1>0, <1>7, <2>1 DEF RunRecords
  <2>. HIDE DEF x
  <2>3. run'[r] = x /\ \A q \in Runs \ {r} : run'[q] = run[q]
    BY <1>1, <2>2
  <2>4. /\ run'[r].served => run'[r].pc \in Jobs
        /\ run'[r].pc = job
        /\ run'[r].owner = run[r].owner
        /\ run'[r].account = run[r].account
    BY <2>2, <2>3
  <2>. QED BY <1>7, <2>3, <2>4, AccountServed
<1>8. CASE Serve(r)
  <2>1. PICK job \in Jobs :
          /\ Does(r, job)
          /\ users' = IF job = "register" THEN [users EXCEPT ![run[r].owner] = run[r].account] ELSE users
    BY <1>8 DEF Serve, For
  <2>2. \A o \in Owners : \/ users'[o] = users[o]
                          \/ job = "register" /\ o = run[r].owner /\ users'[o] = run[r].account
    BY <1>0, <2>1
  <2>. QED BY <1>7, <1>8, <2>1, <2>2 DEF Serve
<1>9. CASE MintUsdc(r)
  <2>1. "fund" \in Jobs /\ Does(r, "fund") /\ users' = users
    BY <1>9 DEF MintUsdc, Jobs
  <2>2. CASE run' = [run EXCEPT ![r].served = TRUE]
    BY <1>7, <2>1, <2>2
  <2>3. CASE Catch(r)
    <3>1. run'[r] = NoRun /\ \A q \in Runs \ {r} : run'[q] = run[q]
      BY <1>1, <2>3 DEF Catch
    <3>. QED BY <1>3, <2>1, <3>1, AccountServed
  <2>. QED BY <1>9, <2>2, <2>3 DEF MintUsdc
<1>10. CASE Answer(r)
  <2>1. run[r].pc \in Jobs /\ run[r].served /\ UNCHANGED server
    BY <1>10 DEF Answer
  <2>2. CASE run[r].pc = "register"
    <3>. DEFINE x == [run[r] EXCEPT !.pc = "status", !.served = FALSE]
    <3>1. x.pc \notin Jobs /\ ~x.served
      BY <1>0 DEF RunRecords, Jobs
    <3>2. run' = [run EXCEPT ![r] = x]
      BY <1>10, <2>1, <2>2 DEF Answer, AskStatus
    <3>. HIDE DEF x
    <3>. QED BY <1>2, <2>1, <3>1, <3>2
  <2>3. CASE run[r].pc # "register"
    <3>. DEFINE next == After(run[r].pc)
                x == [run[r] EXCEPT !.pc = next, !.served = FALSE]
    <3>1. next \in Jobs /\ Before(next) = Before(run[r].pc) \cup {run[r].pc}
      BY <2>1, <2>3 DEF After, Jobs, Before
    <3>2. /\ run' = [run EXCEPT ![r] = x] /\ x.pc = next /\ ~x.served
          /\ x.owner = run[r].owner /\ x.account = run[r].account
      BY <1>0, <1>10, <2>1, <2>3 DEF Answer, RunRecords
    <3>. HIDE DEF x, next
    <3>3. run'[r] = x /\ (\A q \in Runs \ {r} : run'[q] = run[q]) /\ users' = users /\ accounts' = accounts
      BY <1>1, <2>1, <3>2 DEF server
    <3>4. /\ run[r].account \in 1..Len(accounts)
          /\ accounts[run[r].account].owner = run[r].owner
          /\ Before(run[r].pc) \subseteq accounts[run[r].account].jobs
          /\ run[r].pc \in accounts[run[r].account].jobs
      BY <2>1 DEF AccountInv, RunsAccount
    <3>5. RunsAccount'
      BY <3>1, <3>2, <3>3, <3>4 DEF AccountInv, RunsAccount
    <3>6. UsersAccount'
      BY <3>3 DEF AccountInv, UsersAccount
    <3>. QED BY <3>5, <3>6 DEF AccountInv
  <2>. QED BY <2>2, <2>3
<1>11. CASE Fail(r)
  BY <1>2, <1>3, <1>11 DEF Fail, Catch
<1>. QED BY <1>4, <1>5, <1>6, <1>8, <1>9, <1>10, <1>11 DEF RunStep

LEMMA AccountNext == ASSUME DashboardConstantsOK, BaseInv, AccountInv, [Next]_vars PROVE AccountInv'
<1>1. ASSUME UNCHANGED <<run, accounts>>,
             \A o \in Owners : users'[o] = users[o] \/ users'[o] = NoAccount
      PROVE  AccountInv'
  <2>1. \A r \in Runs : run'[r] = run[r]
    BY <1>1
  <2>. QED BY <1>1, <2>1, AccountKept
<1>2. ASSUME UNCHANGED <<run, server>> PROVE AccountInv'
  BY <1>1, <1>2 DEF server
<1>3. CASE LookupStep
  <2>1. PICK i \in 1..Len(lookups) : ReadStatus(i) \/ ShowStatus(i) \/ StatusFails(i)
    BY <1>3 DEF LookupStep
  <2>2. CASE ReadStatus(i)
    BY <1>2, <2>2 DEF ReadStatus
  <2>3. CASE \E status : Arrived(i, status)
    <3>1. Resume(lookups[i].by) /\ UNCHANGED server
      BY <2>3 DEF Arrived
    <3>2. \A r \in Runs : run'[r] = run[r] \/ run'[r] = NoRun
      BY <3>1 DEF Resume
    <3>3. NoRun.pc \notin Jobs /\ ~NoRun.served
      BY DEF NoRun, Jobs
    <3>4. \A r \in Runs : run'[r] = run[r] \/ (run'[r].pc \notin Jobs /\ ~run'[r].served)
      BY <3>2, <3>3
    <3>5. accounts' = accounts /\ \A o \in Owners : users'[o] = users[o] \/ users'[o] = NoAccount
      BY <3>1 DEF server
    <3>. QED BY <3>4, <3>5, AccountKept
  <2>. QED BY <2>1, <2>2, <2>3 DEF ShowStatus, StatusFails
<1>4. CASE WalletStep \/ Connect \/ Disconnect \/ Refresh \/ ResetDemo
  <2>1. UNCHANGED <<run, server>>
    BY <1>4 DEF WalletStep, RestoreAddress, Connected, Connect, Disconnect, Refresh, ResetDemo
  <2>. QED BY <1>2, <2>1
<1>5. CASE ResetStep
  <2>1. UNCHANGED <<run, accounts>>
    BY <1>5 DEF ResetStep, Erase, Erased, server
  <2>2. \A o \in Owners : users'[o] = users[o] \/ users'[o] = NoAccount
    BY <1>5 DEF ResetStep, Erase, Erased, server, BaseInv, TypeOK
  <2>. QED BY <1>1, <2>1, <2>2
<1>6. CASE UNCHANGED vars
  BY <1>2, <1>6 DEF vars, server
<1>. QED BY <1>3, <1>4, <1>5, <1>6, AccountRuns DEF Next

LEMMA AccountInit == ASSUME Init PROVE AccountInv
<1>1. \A r \in Runs : run[r].pc = "out" /\ ~run[r].served
  BY DEF Init, NoRun
<1>2. \A o \in Owners : users[o] = NoAccount
  BY DEF Init
<1>. QED BY <1>1, <1>2 DEF AccountInv, RunsAccount, UsersAccount, Jobs

\* The account registered for an owner is the owner's and was set up before.
THEOREM RegisteredOnesAreOwn == Spec => []RegisteredIsOwn
<1>1. Init => BaseInv /\ AccountInv
  BY BaseInit, AccountInit, DashboardConstantsOK
<1>2. BaseInv /\ AccountInv /\ [Next]_vars => (BaseInv /\ AccountInv)'
  BY BaseNext, AccountNext, DashboardConstantsOK
<1>3. BaseInv /\ AccountInv => RegisteredIsOwn
  <2>1. ASSUME BaseInv, AccountInv, NEW o \in Owners, users[o] # NoAccount
        PROVE  accounts[users[o]] = [owner |-> o, jobs |-> Jobs]
    <3>1. /\ users[o] \in 1..Len(accounts) /\ accounts[users[o]].owner = o
          /\ Jobs \subseteq accounts[users[o]].jobs
      BY <2>1 DEF AccountInv, UsersAccount
    <3>2. accounts \in Seq(AccountRecords)
      BY <2>1 DEF BaseInv, TypeOK, AccountRecords
    <3>3. accounts[users[o]] \in AccountRecords
      BY <3>1, <3>2
    <3>. QED BY <3>1, <3>3 DEF AccountRecords
  <2>. QED BY <2>1 DEF RegisteredIsOwn
<1>. QED BY <1>1, <1>2, <1>3, PTL DEF Spec

-----------------------------------------------------------------------------
(***************************************************************************)
(* One set-up and one reset at a time; who waits for a lookup asked for it *)
(* once; and a step is active only while the set-up is at it.              *)
(***************************************************************************)
OneAtWork ==
  /\ running <=> \E r \in Runs : run[r].pc # "out"
  /\ \A r, q \in Runs : run[r].pc # "out" /\ run[q].pc # "out" => r = q
  /\ resetting <=> erasing.pc # "out"

WaitersInv ==
  /\ \A i \in 1..Len(lookups) :
       /\ lookups[i].by \in Runs => run[lookups[i].by].pc = "status"
       /\ lookups[i].by = "reset" => erasing.pc = "status"
  /\ \A i, j \in 1..Len(lookups) : lookups[i].by = lookups[j].by /\ lookups[i].by # "effect" => i = j

AtWork(k, r) ==
  run[r].pc = IF k = "deploy" /\ run[r].account = NoAccount THEN "prepare" ELSE k

StepsInv ==
  /\ \A r \in Runs : run[r].pc \in {"out", "agent", "prepare"} => run[r].account = NoAccount
  /\ \A k \in Jobs : steps[k] = "active" => \E r \in Runs : AtWork(k, r)

WorkInv == OneAtWork /\ WaitersInv /\ StepsInv

\* A run moves on, and the others stay.
LEMMA WorkMoves ==
  ASSUME OneAtWork, NEW r \in Runs, \A q \in Runs \ {r} : run'[q] = run[q], run[r].pc # "out",
         run'[r].pc # "out", UNCHANGED <<running, resetting, erasing>>
  PROVE  OneAtWork'
<1>1. \A q \in Runs : run[q].pc # "out" <=> run'[q].pc # "out"
  OBVIOUS
<1>2. running /\ \E q \in Runs : run'[q].pc # "out"
  BY DEF OneAtWork
<1>3. \A p, q \in Runs : run'[p].pc # "out" /\ run'[q].pc # "out" => p = q
  BY <1>1 DEF OneAtWork
<1>4. resetting' <=> erasing'.pc # "out"
  BY DEF OneAtWork
<1>. QED BY <1>2, <1>3, <1>4 DEF OneAtWork

LEMMA WorkEnds ==
  ASSUME OneAtWork, NEW r \in Runs, \A q \in Runs \ {r} : run'[q] = run[q], run[r].pc # "out",
         run'[r].pc = "out", running' = FALSE, resetting' <=> erasing'.pc # "out"
  PROVE  OneAtWork'
<1>1. \A q \in Runs : run'[q].pc = "out"
  BY DEF OneAtWork
<1>. QED BY <1>1 DEF OneAtWork

\* The lookups stay, and so do those who wait for one.
LEMMA WaitersStay ==
  ASSUME WaitersInv, Len(lookups') = Len(lookups),
         \A i \in 1..Len(lookups) : lookups'[i].by = lookups[i].by,
         \A r \in Runs : run[r].pc = "status" => run'[r].pc = "status",
         erasing.pc = "status" => erasing'.pc = "status"
  PROVE  WaitersInv'
BY DEF WaitersInv

\* A lookup is sent, for nobody or for one that waited for none.
LEMMA WaitersGrow ==
  ASSUME WaitersInv, Len(lookups) \in Nat, Len(lookups') = Len(lookups) + 1,
         \A i \in 1..Len(lookups) : lookups'[i].by = lookups[i].by,
         NEW by, lookups'[Len(lookups) + 1].by = by,
         \/ by = "effect"
         \/ \A i \in 1..Len(lookups) : lookups[i].by # by,
         by \in Runs => run'[by].pc = "status",
         by = "reset" => erasing'.pc = "status",
         \A r \in Runs : run[r].pc = "status" => run'[r].pc = "status",
         erasing.pc = "status" => erasing'.pc = "status"
  PROVE  WaitersInv'
<1>. DEFINE n == Len(lookups)
<1>1. 1..Len(lookups') = 1..n \cup {n + 1} /\ n + 1 \notin 1..n
  OBVIOUS
<1>. HIDE DEF n
<1>2. ASSUME NEW i \in 1..Len(lookups')
      PROVE  /\ lookups'[i].by \in Runs => run'[lookups'[i].by].pc = "status"
             /\ lookups'[i].by = "reset" => erasing'.pc = "status"
  <2>1. CASE i \in 1..n
    BY <2>1 DEF WaitersInv, n
  <2>2. CASE i = n + 1
    BY <2>2 DEF n
  <2>. QED BY <1>1, <2>1, <2>2
<1>3. ASSUME NEW i \in 1..Len(lookups'), NEW j \in 1..Len(lookups'),
             lookups'[i].by = lookups'[j].by, lookups'[i].by # "effect"
      PROVE  i = j
  <2>1. CASE i \in 1..n /\ j \in 1..n
    BY <1>3, <2>1 DEF WaitersInv, n
  <2>2. CASE i = n + 1 \/ j = n + 1
    <3>1. lookups'[n + 1].by = by /\ by # "effect" => \A k \in 1..n : lookups'[k].by # by
      BY DEF n
    <3>. QED BY <1>1, <1>3, <2>2, <3>1 DEF n
  <2>. QED BY <1>1, <2>1, <2>2
<1>. QED BY <1>2, <1>3 DEF WaitersInv

\* A run moves on, or ends, and with it the steps.
LEMMA StepsMove ==
  ASSUME OneAtWork, StepsInv, NEW r \in Runs, \A q \in Runs \ {r} : run'[q] = run[q],
         run[r].pc # "out",
         run'[r].pc \in {"out", "agent", "prepare"} => run'[r].account = NoAccount,
         \A k \in Jobs : steps'[k] = "active" =>
           AtWork(k, r)' \/ (steps[k] = "active" /\ ~AtWork(k, r))
  PROVE  StepsInv'
<1>1. ASSUME NEW k \in Jobs, steps[k] = "active" PROVE AtWork(k, r)
  <2>1. PICK q \in Runs : AtWork(k, q)
    BY <1>1 DEF StepsInv
  <2>2. run[q].pc # "out"
    BY <2>1 DEF AtWork, Jobs
  <2>. QED BY <2>1, <2>2 DEF OneAtWork
<1>2. \A k \in Jobs : steps'[k] = "active" => AtWork(k, r)'
  BY <1>1
<1>3. \A k \in Jobs : steps'[k] = "active" => \E q \in Runs : AtWork(k, q)'
  BY <1>2
<1>4. \A q \in Runs : run'[q].pc \in {"out", "agent", "prepare"} => run'[q].account = NoAccount
  BY DEF StepsInv
<1>. QED BY <1>3, <1>4 DEF StepsInv

\* No step shows, or those that show stay with their runs.
LEMMA StepsStay ==
  ASSUME StepsInv, \A k \in Jobs : steps'[k] = "active" => steps[k] = "active",
         \A r \in Runs : \/ run'[r] = run[r]
                         \/ run[r].pc = "status" /\ run'[r] = NoRun
  PROVE  StepsInv'
<1>1. ASSUME NEW k \in Jobs, steps'[k] = "active" PROVE \E q \in Runs : AtWork(k, q)'
  <2>1. PICK q \in Runs : AtWork(k, q)
    BY <1>1 DEF StepsInv
  <2>2. run[q].pc # "status"
    BY <2>1 DEF AtWork, Jobs
  <2>3. AtWork(k, q)'
    BY <2>1, <2>2 DEF AtWork
  <2>. QED BY <2>3
<1>2. \A q \in Runs : run'[q].pc \in {"out", "agent", "prepare"} => run'[q].account = NoAccount
  BY DEF StepsInv, NoRun
<1>. QED BY <1>1, <1>2 DEF StepsInv

LEMMA WorkLookups ==
  ASSUME DashboardConstantsOK, BaseInv, WorkInv, LookupStep
  PROVE  WorkInv'
<1>0. PICK i \in 1..Len(lookups) : ReadStatus(i) \/ ShowStatus(i) \/ StatusFails(i)
  BY DEF LookupStep
<1>1. lookups \in Seq(LookupRecords) /\ lookups[i] \in LookupRecords /\ Len(lookups) \in Nat
      /\ lookups[i].by \in {"effect", "reset"} \cup Runs
  <2>1. lookups[i] \in LookupRecords /\ Len(lookups) \in Nat /\ lookups \in Seq(LookupRecords)
    BY RowTypes DEF BaseInv, TypeOK
  <2>. QED BY <2>1 DEF LookupRecords
<1>2. CASE ReadStatus(i)
  <2>1. UNCHANGED <<running, resetting, run, erasing, steps>>
    BY <1>2 DEF ReadStatus, shown
  <2>2. Len(lookups') = Len(lookups) /\ \A k \in 1..Len(lookups) : lookups'[k].by = lookups[k].by
    <3>1. lookups' = [lookups EXCEPT ![i].saw = StatusOf(lookups[i].owner)]
      BY <1>2 DEF ReadStatus
    <3>. DEFINE x == [lookups[i] EXCEPT !.saw = StatusOf(lookups[i].owner)]
    <3>2. lookups' = [lookups EXCEPT ![i] = x] /\ x.by = lookups[i].by /\ x \in LookupRecords
      <4>1. StatusOf(lookups[i].owner) \in Shows
        BY <1>1, RowTypes DEF LookupRecords, BaseInv
      <4>. QED BY <1>1, <3>1, <4>1 DEF LookupRecords
    <3>. HIDE DEF x
    <3>. QED BY <1>1, <3>2, ExceptSeq
  <2>3. OneAtWork'
    BY <2>1 DEF WorkInv, OneAtWork
  <2>4. WaitersInv'
    BY <2>1, <2>2, WaitersStay DEF WorkInv
  <2>5. StepsInv'
    BY <2>1, StepsStay DEF WorkInv
  <2>. QED BY <2>3, <2>4, <2>5 DEF WorkInv
<1>3. ASSUME NEW status \in Shows, Arrived(i, status) PROVE WorkInv'
  <2>. DEFINE by == lookups[i].by
  <2>1. /\ \A r \in Runs : run'[r] = IF r = by THEN NoRun ELSE run[r]
        /\ running' = (running /\ by \notin Runs)
        /\ erasing' = IF by = "reset" THEN NotErasing ELSE erasing
        /\ resetting' = (resetting /\ by # "reset")
        /\ steps' = steps
    BY <1>3 DEF Arrived, Resume
  <2>2. (by \in Runs => run[by].pc = "status") /\ (by = "reset" => erasing.pc = "status")
    BY DEF WorkInv, WaitersInv
  <2>3. ~("effect" \in Runs) /\ ~("reset" \in Runs)
    BY DEF DashboardConstantsOK
  <2>4. resetting' <=> erasing'.pc # "out"
    <3>1. resetting <=> erasing.pc # "out"
      BY DEF WorkInv, OneAtWork
    <3>2. CASE by = "reset"
      BY <2>1, <3>2 DEF NotErasing
    <3>3. CASE by # "reset"
      BY <2>1, <3>1, <3>3
    <3>. QED BY <3>2, <3>3
  <2>5. OneAtWork'
    <3>1. CASE by \in Runs
      <4>1. \A q \in Runs \ {by} : run'[q] = run[q]
        BY <2>1
      <4>2. run[by].pc # "out" /\ run'[by].pc = "out"
        BY <2>1, <2>2, <3>1 DEF NoRun
      <4>3. running' = FALSE
        BY <2>1, <3>1, Zenon
      <4>. HIDE DEF by
      <4>. QED BY <2>4, <3>1, <4>1, <4>2, <4>3, WorkEnds DEF WorkInv
    <3>2. CASE by \notin Runs
      <4>1. (\A q \in Runs : run'[q] = run[q]) /\ (running' <=> running)
        BY <2>1, <3>2
      <4>. QED BY <2>4, <4>1 DEF WorkInv, OneAtWork
    <3>. QED BY <3>1, <3>2
  <2>6. WaitersInv'
    <3>1. /\ Len(lookups') = Len(lookups) - 1
          /\ \A k \in 1..Len(lookups') :
               LET q == IF k < i THEN k ELSE k + 1 IN
               /\ q \in 1..Len(lookups) /\ q # i /\ lookups'[k].by = lookups[q].by
      BY <1>3, ArrivedEffect DEF BaseInv
    <3>. DEFINE Old(k) == IF k < i THEN k ELSE k + 1
    <3>2. /\ \A k \in 1..Len(lookups') : /\ Old(k) \in 1..Len(lookups) /\ Old(k) # i
                                         /\ lookups'[k].by = lookups[Old(k)].by
          /\ \A k, m \in 1..Len(lookups') : Old(k) = Old(m) => k = m
      <4>1. ASSUME NEW k \in 1..Len(lookups')
            PROVE  /\ Old(k) \in 1..Len(lookups) /\ Old(k) # i
                   /\ lookups'[k].by = lookups[Old(k)].by
        BY <3>1
      <4>2. \A k, m \in 1..Len(lookups') : Old(k) = Old(m) => k = m
        BY <1>1, <3>1
      <4>. QED BY <4>1, <4>2
    <3>. HIDE DEF Old
    <3>3. ASSUME NEW k \in 1..Len(lookups')
          PROVE  /\ lookups'[k].by \in Runs => run'[lookups'[k].by].pc = "status"
                 /\ lookups'[k].by = "reset" => erasing'.pc = "status"
      <4>1. lookups[Old(k)].by # by \/ lookups[Old(k)].by = "effect"
        BY <3>2 DEF WorkInv, WaitersInv
      <4>2. /\ lookups[Old(k)].by \in Runs => run[lookups[Old(k)].by].pc = "status"
            /\ lookups[Old(k)].by = "reset" => erasing.pc = "status"
        BY <3>2 DEF WorkInv, WaitersInv
      <4>. HIDE DEF by
      <4>. QED BY <2>1, <2>3, <3>2, <4>1, <4>2
    <3>4. \A k, m \in 1..Len(lookups') : lookups'[k].by = lookups'[m].by /\ lookups'[k].by # "effect" => k = m
      BY <3>2 DEF WorkInv, WaitersInv
    <3>. QED BY <3>3, <3>4 DEF WaitersInv
  <2>7. StepsInv'
    <3>1. \A r \in Runs : \/ run'[r] = run[r]
                          \/ run[r].pc = "status" /\ run'[r] = NoRun
      BY <2>1, <2>2
    <3>. QED BY <2>1, <3>1, StepsStay DEF WorkInv
  <2>. QED BY <2>5, <2>6, <2>7 DEF WorkInv
<1>4. CASE ShowStatus(i) \/ StatusFails(i)
  <2>1. lookups[i].saw \in Shows /\ NotRegistered \in Shows
    BY <1>1 DEF LookupRecords, Shows
  <2>. QED BY <1>3, <1>4, <2>1 DEF ShowStatus, StatusFails
<1>. QED BY <1>0, <1>2, <1>4

LEMMA WorkWallet ==
  ASSUME DashboardConstantsOK, BaseInv, WorkInv, WalletStep \/ Connect \/ Disconnect \/ Refresh
  PROVE  WorkInv'
<1>0. Len(lookups) \in Nat /\ "effect" \notin Runs /\ "effect" # "reset"
  BY DEF BaseInv, TypeOK, DashboardConstantsOK
<1>1. UNCHANGED <<running, resetting, run, erasing>>
  BY DEF WalletStep, Connect, Disconnect, Refresh, RestoreAddress, Connected, OwnerBecomes
<1>2. \/ UNCHANGED <<steps, lookups>>
      \/ \E o \in Owners \cup {NoOwner} : OwnerBecomes(o)
      \/ address \in Owners /\ FetchStatus(address, "effect") /\ UNCHANGED steps
  BY DEF WalletStep, Connect, Disconnect, Refresh, RestoreAddress, Connected, shown, BaseInv, TypeOK
<1>3. \/ steps' = steps
      \/ steps' = InitialSteps
  BY <1>2 DEF OwnerBecomes, ClearShown, shown
<1>4. \/ /\ Len(lookups') = Len(lookups)
         /\ \A k \in 1..Len(lookups) : lookups'[k].by = lookups[k].by
      \/ /\ Len(lookups') = Len(lookups) + 1
         /\ \A k \in 1..Len(lookups) : lookups'[k].by = lookups[k].by
         /\ lookups'[Len(lookups) + 1].by = "effect"
  <2>1. CASE UNCHANGED lookups
    BY <2>1
  <2>2. CASE \E o \in Owners \cup {NoOwner} : OwnerBecomes(o)
    <3>1. PICK o \in Owners \cup {NoOwner} : OwnerBecomes(o)
      BY <2>2
    <3>2. CASE o = address
      BY <3>1, <3>2, OwnerEffect DEF BaseInv
    <3>3. CASE o # address
      <4>1. /\ Len(lookups') = Len(lookups) + (IF o = NoOwner THEN 0 ELSE 1)
            /\ \A k \in 1..Len(lookups) : lookups'[k].by = lookups[k].by
            /\ o # NoOwner => lookups'[Len(lookups) + 1] =
                                [owner |-> o, by |-> "effect", saw |-> Unknown, late |-> FALSE]
        BY <3>1, <3>3, OwnerEffect DEF BaseInv
      <4>. QED BY <1>0, <4>1
    <3>. QED BY <3>2, <3>3
  <2>3. CASE address \in Owners /\ FetchStatus(address, "effect")
    BY <2>3, FetchBy DEF BaseInv
  <2>. QED BY <1>2, <2>1, <2>2, <2>3
<1>5. OneAtWork'
  BY <1>1 DEF WorkInv, OneAtWork
<1>6. WaitersInv'
  <2>1. /\ \A r \in Runs : run[r].pc = "status" => run'[r].pc = "status"
        /\ erasing.pc = "status" => erasing'.pc = "status"
    BY <1>1
  <2>. QED BY <1>0, <1>4, <2>1, WaitersStay, WaitersGrow DEF WorkInv
<1>7. StepsInv'
  <2>1. \A k \in Jobs : steps'[k] = "active" => steps[k] = "active"
    BY <1>3 DEF InitialSteps
  <2>. QED BY <1>1, <2>1, StepsStay DEF WorkInv
<1>. QED BY <1>5, <1>6, <1>7 DEF WorkInv

LEMMA WorkErasing ==
  ASSUME DashboardConstantsOK, BaseInv, WorkInv, ResetDemo \/ ResetStep
  PROVE  WorkInv'
<1>0. Len(lookups) \in Nat /\ "reset" \notin Runs /\ "effect" # "reset"
  BY DEF BaseInv, TypeOK, DashboardConstantsOK
<1>1. UNCHANGED <<running, run>>
  BY DEF ResetDemo, ResetStep, Erase, Erased
<1>2. erasing.pc # "status" /\ (resetting' <=> erasing'.pc # "out")
  <2>1. resetting <=> erasing.pc # "out"
    BY DEF WorkInv, OneAtWork
  <2>2. CASE ResetDemo
    BY <2>1, <2>2 DEF ResetDemo
  <2>3. CASE Erase
    <3>1. erasing.pc = "delete" /\ resetting' = resetting /\ erasing'.pc = "deleted"
      BY <2>3 DEF Erase, BaseInv, TypeOK
    <3>. QED BY <2>1, <3>1
  <2>4. CASE Erased
    <3>1. erasing.pc \in {"delete", "deleted"} /\ resetting' = resetting /\ erasing'.pc = "status"
      BY <2>4 DEF Erased, DeleteReturns, BaseInv, TypeOK
    <3>. QED BY <2>1, <3>1
  <2>. QED BY <2>2, <2>3, <2>4 DEF ResetStep
<1>3. OneAtWork'
  BY <1>1, <1>2 DEF WorkInv, OneAtWork
<1>4. \A i \in 1..Len(lookups) : lookups[i].by # "reset"
  BY <1>2 DEF WorkInv, WaitersInv
<1>5. WaitersInv'
  <2>1. /\ \A r \in Runs : run[r].pc = "status" => run'[r].pc = "status"
        /\ erasing.pc = "status" => erasing'.pc = "status"
    BY <1>1, <1>2
  <2>2. CASE ResetDemo \/ Erase
    <3>1. lookups' = lookups
      BY <2>2 DEF ResetDemo, Erase
    <3>. QED BY <2>1, <3>1, WaitersStay DEF WorkInv
  <2>3. CASE Erased
    <3>1. erasing.owner \in Owners /\ FetchStatus(erasing.owner, "reset") /\ erasing'.pc = "status"
      BY <2>3 DEF Erased, DeleteReturns, BaseInv, OwnersInv, TypeOK
    <3>2. /\ Len(lookups') = Len(lookups) + 1
          /\ \A k \in 1..Len(lookups) : lookups'[k].by = lookups[k].by
          /\ lookups'[Len(lookups) + 1].by = "reset"
      BY <3>1, FetchBy DEF BaseInv
    <3>. QED BY <1>0, <1>4, <2>1, <3>1, <3>2, WaitersGrow DEF WorkInv
  <2>. QED BY <2>2, <2>3 DEF ResetStep
<1>6. StepsInv'
  <2>1. steps' = steps \/ steps' = InitialSteps
    BY DEF ResetDemo, ResetStep, Erase, Erased, shown
  <2>2. \A k \in Jobs : steps'[k] = "active" => steps[k] = "active"
    BY <2>1 DEF InitialSteps
  <2>. QED BY <1>1, <2>2, StepsStay DEF WorkInv
<1>. QED BY <1>3, <1>5, <1>6 DEF WorkInv

LEMMA WorkRuns ==
  ASSUME DashboardConstantsOK, BaseInv, AccountInv, WorkInv, NEW r \in Runs, Start(r) \/ RunStep(r)
  PROVE  WorkInv'
<1>0. /\ run[r] \in RunRecords /\ run \in [Runs -> RunRecords] /\ Len(lookups) \in Nat
      /\ steps \in Stages /\ Len(accounts) \in Nat /\ accounts \in Seq(AccountRecords)
  BY DEF BaseInv, TypeOK, RunRecords, Stages, AccountRecords
<1>1. ASSUME NEW x, run' = [run EXCEPT ![r] = x]
      PROVE  run'[r] = x /\ \A q \in Runs \ {r} : run'[q] = run[q]
  BY <1>0, <1>1
<1>2. UNCHANGED <<resetting, erasing>>
  BY DEF Start, RunStep, LoadAgent, Prepare, Serve, MintUsdc, Answer, Fail
\* A run that waits for no status: it moves on or ends, and sends no lookup.
<1>3. ASSUME run[r].pc # "status", UNCHANGED lookups, \A q \in Runs \ {r} : run'[q] = run[q]
      PROVE  WaitersInv'
  <2>1. \A q \in Runs : run[q].pc = "status" => run'[q].pc = "status"
    BY <1>3
  <2>. QED BY <1>2, <1>3, <2>1, WaitersStay DEF WorkInv
<1>4. CASE Start(r)
  <2>1. /\ run' = [run EXCEPT ![r] = [NoRun EXCEPT !.pc = "agent", !.owner = address]]
        /\ running' = TRUE /\ steps' = InitialSteps /\ ~running /\ run[r].pc = "out"
        /\ UNCHANGED lookups
    BY <1>4 DEF Start, MayStart
  <2>2. /\ run'[r].pc = "agent" /\ run'[r].account = NoAccount
        /\ \A q \in Runs \ {r} : run'[q] = run[q]
    BY <1>0, <2>1 DEF NoRun
  <2>3. \A q \in Runs : run[q].pc = "out"
    BY <2>1 DEF WorkInv, OneAtWork
  <2>4. OneAtWork'
    <3>1. \A q \in Runs : run'[q].pc # "out" <=> q = r
      BY <2>2, <2>3
    <3>2. resetting' <=> erasing'.pc # "out"
      BY <1>2 DEF WorkInv, OneAtWork
    <3>. QED BY <2>1, <3>1, <3>2 DEF OneAtWork
  <2>5. WaitersInv'
    BY <1>3, <2>1, <2>2
  <2>6. StepsInv'
    <3>1. \A k \in Jobs : steps'[k] # "active"
      BY <2>1 DEF InitialSteps
    <3>. QED BY <2>2, <3>1 DEF WorkInv, StepsInv
  <2>. QED BY <2>4, <2>5, <2>6 DEF WorkInv
<1>5. ASSUME run[r].pc \in Jobs \cup {"agent", "prepare"}, \A q \in Runs \ {r} : run'[q] = run[q],
             run'[r].pc \in Jobs \cup {"prepare"}, UNCHANGED <<running, lookups>>,
             run'[r].pc = "prepare" => run'[r].account = NoAccount,
             \A k \in Jobs : steps'[k] = "active" =>
               AtWork(k, r)' \/ (steps[k] = "active" /\ ~AtWork(k, r))
      PROVE  WorkInv'
  <2>1. /\ run[r].pc # "out" /\ run'[r].pc # "out" /\ run[r].pc # "status"
        /\ run'[r].pc \in {"out", "agent", "prepare"} => run'[r].account = NoAccount
    BY <1>5 DEF Jobs
  <2>2. OneAtWork'
    BY <1>2, <1>5, <2>1, WorkMoves DEF WorkInv
  <2>3. WaitersInv'
    BY <1>3, <1>5, <2>1
  <2>4. StepsInv'
    BY <1>5, <2>1, StepsMove DEF WorkInv
  <2>. QED BY <2>2, <2>3, <2>4 DEF WorkInv
<1>6. ASSUME run[r].pc \in Jobs \cup {"agent", "prepare"}, Catch(r), UNCHANGED lookups
      PROVE  WorkInv'
  <2>1. run' = [run EXCEPT ![r] = NoRun] /\ running' = FALSE /\ MarkError
    BY <1>6 DEF Catch
  <2>2. run'[r] = NoRun /\ \A q \in Runs \ {r} : run'[q] = run[q]
    BY <1>1, <2>1
  <2>3. run[r].pc # "out" /\ run[r].pc # "status" /\ run'[r].pc = "out" /\ run'[r].account = NoAccount
    BY <1>6, <2>2 DEF Jobs, NoRun
  <2>4. resetting' <=> erasing'.pc # "out"
    BY <1>2 DEF WorkInv, OneAtWork
  <2>5. OneAtWork'
    BY <2>1, <2>2, <2>3, <2>4, WorkEnds DEF WorkInv
  <2>6. WaitersInv'
    BY <1>3, <1>6, <2>2, <2>3
  <2>7. StepsInv'
    \* One step at most was active: the one this run was at.
    <3>0. \A k, j \in Jobs : steps[k] = "active" /\ steps[j] = "active" => k = j
      BY DEF WorkInv, OneAtWork, StepsInv, AtWork, Jobs
    <3>1. \A k \in Jobs : steps'[k] # "active"
      <4>1. \A k \in Jobs : Place[k] <= Place[k]
        BY DEF Place, Jobs
      <4>2. \A k \in Jobs : steps[k] = "active" => FirstActive(k)
        BY <3>0, <4>1 DEF FirstActive
      <4>. QED BY <2>1, <4>2 DEF MarkError
    <3>. QED BY <2>2, <2>3, <3>1 DEF WorkInv, StepsInv
  <2>. QED BY <2>5, <2>6, <2>7 DEF WorkInv
<1>7. CASE LoadAgent(r)
  <2>1. /\ run'[r] = [run[r] EXCEPT !.pc = "prepare"] /\ \A q \in Runs \ {r} : run'[q] = run[q]
        /\ run[r].pc = "agent" /\ steps' = [steps EXCEPT !["deploy"] = "active"]
        /\ UNCHANGED <<running, lookups>>
    BY <1>1, <1>7 DEF LoadAgent
  <2>2. run'[r].pc = "prepare" /\ run'[r].account = run[r].account /\ run[r].account = NoAccount
    BY <1>0, <2>1 DEF RunRecords, WorkInv, StepsInv
  <2>3. ASSUME NEW k \in Jobs, steps'[k] = "active"
        PROVE  AtWork(k, r)' \/ (steps[k] = "active" /\ ~AtWork(k, r))
    <3>1. CASE k = "deploy"
      BY <2>2, <3>1 DEF AtWork
    <3>2. CASE k # "deploy"
      BY <1>0, <2>1, <2>3, <3>2 DEF AtWork, Jobs, Stages
    <3>. QED BY <3>1, <3>2
  <2>. QED BY <1>5, <2>1, <2>2, <2>3
<1>8. CASE Prepare(r)
  <2>1. /\ run'[r] = [run[r] EXCEPT !.pc = "deploy", !.account = Len(accounts')]
        /\ \A q \in Runs \ {r} : run'[q] = run[q]
        /\ run[r].pc = "prepare" /\ UNCHANGED <<running, lookups, steps>>
        /\ Len(accounts') = Len(accounts) + 1
    <3>1. Len(accounts') = Len(accounts) + 1
      <4>. DEFINE rec == [owner |-> run[r].owner, jobs |-> {}]
      <4>1. run[r].owner \in Owners
        BY <1>8 DEF Prepare, BaseInv, OwnersInv
      <4>2. accounts' = Append(accounts, rec) /\ rec \in AccountRecords
        BY <1>8, <4>1 DEF Prepare, AccountRecords
      <4>. HIDE DEF rec
      <4>. QED BY <1>0, <4>2, AppendProperties
    <3>2. /\ run' = [run EXCEPT ![r] = [run[r] EXCEPT !.pc = "deploy", !.account = Len(accounts')]]
          /\ run[r].pc = "prepare" /\ UNCHANGED <<running, lookups, steps>>
      BY <1>8 DEF Prepare, shown
    <3>. QED BY <1>1, <3>1, <3>2
  <2>2. run'[r].pc = "deploy" /\ run'[r].account # NoAccount
    BY <1>0, <2>1 DEF RunRecords, NoAccount
  <2>3. ASSUME NEW k \in Jobs, steps'[k] = "active"
        PROVE  AtWork(k, r)' \/ (steps[k] = "active" /\ ~AtWork(k, r))
    <3>1. CASE k = "deploy"
      BY <2>2, <3>1 DEF AtWork
    <3>2. CASE k # "deploy"
      BY <2>1, <2>3, <3>2 DEF AtWork, Jobs
    <3>. QED BY <3>1, <3>2
  <2>4. run'[r].pc \in Jobs /\ run'[r].pc # "prepare"
    BY <2>2 DEF Jobs
  <2>. QED BY <1>5, <2>1, <2>3, <2>4
<1>9. ASSUME run[r].pc \in Jobs, run' = [run EXCEPT ![r].served = TRUE],
             UNCHANGED <<steps, running, lookups>>
      PROVE  WorkInv'
  <2>1. /\ run'[r].pc = run[r].pc /\ run'[r].account = run[r].account /\ run[r].pc # "prepare"
        /\ \A q \in Runs \ {r} : run'[q] = run[q]
    BY <1>0, <1>9 DEF RunRecords, Jobs
  <2>2. \A k \in Jobs : steps'[k] = "active" =>
          AtWork(k, r)' \/ (steps[k] = "active" /\ ~AtWork(k, r))
    BY <1>9, <2>1 DEF AtWork
  <2>. QED BY <1>5, <1>9, <2>1, <2>2
<1>10. CASE Serve(r)
  <2>1. /\ run[r].pc \in Jobs /\ run' = [run EXCEPT ![r].served = TRUE]
        /\ UNCHANGED <<steps, running, lookups>>
    BY <1>10 DEF Serve, Does, shown
  <2>. QED BY <1>9, <2>1
<1>11. CASE MintUsdc(r)
  <2>1. run[r].pc \in Jobs /\ UNCHANGED lookups
    BY <1>11 DEF MintUsdc, Does, Jobs
  <2>2. CASE run' = [run EXCEPT ![r].served = TRUE] /\ UNCHANGED <<steps, running>>
    BY <1>9, <2>1, <2>2
  <2>3. CASE Catch(r)
    BY <1>6, <2>1, <2>3
  <2>. QED BY <1>11, <2>2, <2>3 DEF MintUsdc
<1>12. CASE Answer(r)
  <2>1. run[r].pc \in Jobs /\ run[r].account # NoAccount
    BY <1>12 DEF Answer, AccountInv, RunsAccount, NoAccount
  <2>2. CASE run[r].pc = "register"
    <3>0. /\ run' = [run EXCEPT ![r] = [run[r] EXCEPT !.pc = "status", !.served = FALSE]]
          /\ UNCHANGED running /\ FetchStatus(run[r].owner, r)
          /\ steps' = [steps EXCEPT !["register"] = "done"]
      BY <1>12, <2>2 DEF Answer, AskStatus
    <3>1. /\ run'[r] = [run[r] EXCEPT !.pc = "status", !.served = FALSE]
          /\ \A q \in Runs \ {r} : run'[q] = run[q]
          /\ UNCHANGED running /\ FetchStatus(run[r].owner, r)
          /\ steps' = [steps EXCEPT !["register"] = "done"]
      BY <1>1, <3>0
    <3>2. run'[r].pc = "status" /\ run[r].owner \in Owners
      BY <1>0, <2>2, <3>1 DEF RunRecords, BaseInv, OwnersInv
    <3>3. OneAtWork'
      BY <1>2, <2>2, <3>1, <3>2, WorkMoves DEF WorkInv
    <3>4. WaitersInv'
      <4>1. /\ Len(lookups') = Len(lookups) + 1
            /\ \A k \in 1..Len(lookups) : lookups'[k].by = lookups[k].by
            /\ lookups'[Len(lookups) + 1].by = r
        BY <3>1, <3>2, FetchBy DEF BaseInv
      <4>2. \A i \in 1..Len(lookups) : lookups[i].by # r
        BY <2>2 DEF WorkInv, WaitersInv
      <4>3. \A q \in Runs : run[q].pc = "status" => run'[q].pc = "status"
        BY <2>2, <3>1, <3>2
      <4>4. r # "reset" /\ (erasing.pc = "status" => erasing'.pc = "status")
        BY <1>2 DEF DashboardConstantsOK
      <4>. QED BY <1>0, <3>2, <4>1, <4>2, <4>3, <4>4, WaitersGrow DEF WorkInv
    <3>5. StepsInv'
      <4>1. \A k \in Jobs : steps'[k] = "active" => steps[k] = "active" /\ ~AtWork(k, r)
        BY <1>0, <2>1, <2>2, <3>1 DEF AtWork, Stages
      <4>. QED BY <2>2, <3>1, <3>2, <4>1, StepsMove DEF WorkInv
    <3>. QED BY <3>3, <3>4, <3>5 DEF WorkInv
  <2>3. CASE run[r].pc # "register"
    <3>. DEFINE next == After(run[r].pc)
    <3>0. /\ run' = [run EXCEPT ![r] = [run[r] EXCEPT !.pc = next, !.served = FALSE]]
          /\ UNCHANGED <<running, lookups>>
          /\ steps' = [steps EXCEPT ![run[r].pc] = "done", ![next] = "active"]
      BY <1>12, <2>3 DEF Answer
    <3>1. /\ run'[r] = [run[r] EXCEPT !.pc = next, !.served = FALSE]
          /\ \A q \in Runs \ {r} : run'[q] = run[q]
          /\ UNCHANGED <<running, lookups>>
          /\ steps' = [steps EXCEPT ![run[r].pc] = "done", ![next] = "active"]
      BY <1>1, <3>0
    <3>2. next \in Jobs /\ next # run[r].pc
      BY <2>1, <2>3 DEF After, Jobs
    <3>. HIDE DEF next
    <3>3. run'[r].pc = next /\ run'[r].account = run[r].account
      BY <1>0, <3>1 DEF RunRecords
    <3>4. next # "prepare"
      BY <3>2 DEF Jobs
    <3>5. ASSUME NEW k \in Jobs, steps'[k] = "active"
          PROVE  AtWork(k, r)' \/ (steps[k] = "active" /\ ~AtWork(k, r))
      <4>1. CASE k = next
        BY <2>1, <3>3, <4>1 DEF AtWork
      <4>2. CASE k # next
        <5>1. k # run[r].pc /\ steps[k] = "active"
          BY <1>0, <2>1, <3>1, <3>2, <3>5, <4>2 DEF Stages
        <5>. QED BY <2>1, <5>1 DEF AtWork
      <4>. QED BY <4>1, <4>2
    <3>. QED BY <1>5, <2>1, <3>1, <3>2, <3>3, <3>4, <3>5
  <2>. QED BY <2>2, <2>3
<1>13. CASE Fail(r)
  BY <1>6, <1>13 DEF Fail
<1>. QED BY <1>4, <1>7, <1>8, <1>10, <1>11, <1>12, <1>13 DEF RunStep

LEMMA WorkNext ==
  ASSUME DashboardConstantsOK, BaseInv, AccountInv, WorkInv, [Next]_vars
  PROVE  WorkInv'
<1>1. CASE UNCHANGED vars
  BY <1>1 DEF vars, WorkInv, OneAtWork, WaitersInv, StepsInv, AtWork
<1>. QED BY <1>1, WorkLookups, WorkWallet, WorkErasing, WorkRuns DEF Next

LEMMA WorkInit == ASSUME Init PROVE WorkInv
<1>1. /\ \A r \in Runs : run[r].pc = "out" /\ run[r].account = NoAccount
      /\ ~running /\ ~resetting /\ erasing.pc = "out" /\ Len(lookups) = 0
      /\ \A k \in Jobs : steps[k] = "idle"
  BY DEF Init, NoRun, NotErasing, InitialSteps
<1>2. OneAtWork /\ WaitersInv /\ StepsInv
  BY <1>1 DEF OneAtWork, WaitersInv, StepsInv
<1>. QED BY <1>2 DEF WorkInv

\* What shows as at work is being worked on, and a set-up that goes on shows.
THEOREM WorkAlwaysDone == Spec => []WorkShownIsDone
<1>. DEFINE Inv == BaseInv /\ AccountInv /\ WorkInv
<1>1. Init => Inv
  BY BaseInit, AccountInit, WorkInit, DashboardConstantsOK
<1>2. Inv /\ [Next]_vars => Inv'
  BY BaseNext, AccountNext, WorkNext, DashboardConstantsOK
<1>3. Inv => WorkShownIsDone
  BY DEF WorkInv, OneAtWork, StepsInv, AtWork, WorkShownIsDone
<1>. QED BY <1>1, <1>2, <1>3, PTL DEF Spec

-----------------------------------------------------------------------------
(***************************************************************************)
(* What the page knows of its owner.  A lookup is fresh when it is not     *)
(* late and will show, or read, what the server has; a stale one that is   *)
(* not late has a fresh one sent after it, so that the last answer shown   *)
(* is true.  Between the server's change of an owner's registration and    *)
(* the lookup the handler then sends, nothing is promised.                 *)
(***************************************************************************)
Fresh(rec, status) == ~rec.late /\ rec.saw \in {Unknown, status}
Stale(rec, status) == ~rec.late /\ rec.saw \notin {Unknown, status}

WillShow(s, shows, status) ==
  /\ \A i \in 1..Len(s) : Stale(s[i], status) => \E j \in i + 1..Len(s) : Fresh(s[j], status)
  /\ shows = status \/ \E j \in 1..Len(s) : Fresh(s[j], status)

Pending(o) ==
  \/ \E r \in Runs : run[r].pc = "register" /\ run[r].served /\ run[r].owner = o
  \/ erasing.pc = "deleted" /\ erasing.owner = o

ShowInv ==
  /\ \A i \in 1..Len(lookups) : ~lookups[i].late => lookups[i].owner = address
  /\ ~excused => IF address = NoOwner THEN registered = Unknown
                 ELSE Pending(address) \/ WillShow(lookups, registered, StatusOf(address))

\* A lookup that will tell the truth is sent: nothing sent before it matters.
LEMMA FreshSent ==
  ASSUME NEW s, NEW n \in Nat, Len(s) = n + 1, NEW shows, NEW status, Fresh(s[n + 1], status)
  PROVE  WillShow(s, shows, status)
<1>1. \A i \in 1..Len(s) : Stale(s[i], status) => i # n + 1
  BY DEF Fresh, Stale
<1>2. n + 1 \in 1..Len(s) /\ \A i \in 1..Len(s) : i # n + 1 => n + 1 \in i + 1..Len(s)
  OBVIOUS
<1>. QED BY <1>1, <1>2 DEF WillShow

\* A late one is sent, or one that will tell the truth has read it.
LEMMA StillShows ==
  ASSUME NEW s, NEW t, Len(s) \in Nat, Len(t) \in Nat, Len(s) <= Len(t), NEW shows, NEW status,
         \A k \in 1..Len(s) : Fresh(s[k], status) => Fresh(t[k], status),
         \A k \in 1..Len(t) : Stale(t[k], status) => k \in 1..Len(s) /\ Stale(s[k], status),
         WillShow(s, shows, status)
  PROVE  WillShow(t, shows, status)
<1>1. ASSUME NEW i \in 1..Len(t), Stale(t[i], status) PROVE \E j \in i + 1..Len(t) : Fresh(t[j], status)
  <2>1. i \in 1..Len(s) /\ Stale(s[i], status)
    BY <1>1
  <2>2. PICK j \in i + 1..Len(s) : Fresh(s[j], status)
    BY <2>1 DEF WillShow
  <2>3. j \in i + 1..Len(t) /\ j \in 1..Len(s)
    BY <2>1
  <2>. QED BY <2>2, <2>3
<1>2. shows = status \/ \E j \in 1..Len(t) : Fresh(t[j], status)
  <2>1. ASSUME NEW j \in 1..Len(s), Fresh(s[j], status) PROVE j \in 1..Len(t) /\ Fresh(t[j], status)
    BY <2>1
  <2>. QED BY <2>1 DEF WillShow
<1>. QED BY <1>1, <1>2 DEF WillShow

\* The answer of lookup i, not late, is shown, and those sent before it are late.
LEMMA ShownNext ==
  ASSUME NEW s, NEW t, NEW i \in 1..Len(s), Len(s) \in Nat, Len(t) = Len(s) - 1, NEW shows, NEW status,
         \A k \in 1..Len(t) : LET q == IF k < i THEN k ELSE k + 1 IN
                              /\ t[k].saw = s[q].saw
                              /\ t[k].late <=> s[q].late \/ q <= i,
         ~s[i].late, s[i].saw # Unknown,
         WillShow(s, shows, status)
  PROVE  WillShow(t, s[i].saw, status)
<1>1. ASSUME NEW k \in 1..Len(t), k < i PROVE ~Stale(t[k], status)
  <2>1. t[k].late
    BY <1>1
  <2>. QED BY <2>1 DEF Stale
<1>2. ASSUME NEW k \in 1..Len(t), ~(k < i)
      PROVE  /\ Fresh(t[k], status) <=> Fresh(s[k + 1], status)
             /\ Stale(t[k], status) <=> Stale(s[k + 1], status)
  <2>1. t[k].saw = s[k + 1].saw /\ (t[k].late <=> s[k + 1].late \/ k + 1 <= i)
    BY <1>2
  <2>2. t[k].late <=> s[k + 1].late
    BY <1>2, <2>1
  <2>. QED BY <2>1, <2>2 DEF Fresh, Stale
<1>3. ASSUME NEW q \in i..Len(s), NEW j \in q + 1..Len(s), Fresh(s[j], status)
      PROVE  j - 1 \in 1..Len(t) /\ j - 1 \in q..Len(t) /\ Fresh(t[j - 1], status)
  <2>1. j - 1 \in 1..Len(t) /\ j - 1 \in q..Len(t) /\ ~(j - 1 < i) /\ (j - 1) + 1 = j
    BY <1>3
  <2>2. Fresh(t[j - 1], status) <=> Fresh(s[(j - 1) + 1], status)
    BY <1>2, <2>1
  <2>. QED BY <1>3, <2>1, <2>2
<1>4. ASSUME NEW k \in 1..Len(t), Stale(t[k], status)
      PROVE  \E j \in k + 1..Len(t) : Fresh(t[j], status)
  <2>1. ~(k < i) /\ k + 1 \in 1..Len(s) /\ k + 1 \in i..Len(s)
    BY <1>1, <1>4
  <2>2. Stale(s[k + 1], status)
    BY <1>2, <1>4, <2>1
  <2>3. PICK j \in (k + 1) + 1..Len(s) : Fresh(s[j], status)
    BY <2>1, <2>2 DEF WillShow
  <2>4. j - 1 \in k + 1..Len(t) /\ Fresh(t[j - 1], status)
    BY <1>3, <2>1, <2>3
  <2>. QED BY <2>4
<1>5. s[i].saw = status \/ \E j \in 1..Len(t) : Fresh(t[j], status)
  <2>1. CASE s[i].saw = status
    BY <2>1
  <2>2. CASE s[i].saw # status
    <3>1. Stale(s[i], status)
      BY <2>2 DEF Stale
    <3>2. PICK j \in i + 1..Len(s) : Fresh(s[j], status)
      BY <3>1 DEF WillShow
    <3>3. i \in i..Len(s)
      OBVIOUS
    <3>4. j - 1 \in 1..Len(t) /\ Fresh(t[j - 1], status)
      BY <1>3, <3>2, <3>3
    <3>. QED BY <3>4
  <2>. QED BY <2>1, <2>2
<1>. QED BY <1>4, <1>5 DEF WillShow

\* What the page shows and waits for stays, and so does what it is promised.
LEMMA ShowKept ==
  ASSUME TypeOK, ShowInv, ~excused' => ~excused, UNCHANGED <<address, registered, lookups>>,
         address \in Owners => users'[address] = users[address] \/ Pending(address)',
         ~excused' /\ Pending(address) => Pending(address)'
  PROVE  ShowInv'
<1>1. \A i \in 1..Len(lookups') : ~lookups'[i].late => lookups'[i].owner = address'
  BY DEF ShowInv
<1>2. ASSUME ~excused', address' = NoOwner PROVE registered' = Unknown
  BY <1>2 DEF ShowInv
<1>3. ASSUME ~excused', address' # NoOwner
      PROVE  Pending(address)' \/ WillShow(lookups, registered, StatusOf(address))'
  <2>1. Pending(address) \/ WillShow(lookups, registered, StatusOf(address))
    BY <1>3 DEF ShowInv
  <2>2. CASE Pending(address)'
    BY <2>2
  <2>3. CASE ~Pending(address)'
    <3>1. address \in Owners /\ StatusOf(address)' = StatusOf(address)
      BY <1>3, <2>3 DEF TypeOK, StatusOf
    <3>. QED BY <1>3, <2>1, <2>3, <3>1
  <2>. QED BY <2>2, <2>3
<1>. QED BY <1>1, <1>2, <1>3 DEF ShowInv

\* A handler, at its end, asks for the status of the owner it was called for.
LEMMA ShowFetched ==
  ASSUME TypeOK, DashboardConstantsOK, ShowInv, NEW o \in Owners,
         NEW by \in {"effect", "reset"} \cup Runs, FetchStatus(o, by),
         UNCHANGED <<address, registered, users, excused>>,
         ~excused /\ Pending(address) => o = address \/ Pending(address)'
  PROVE  ShowInv'
<1>. DEFINE n == Len(lookups)
<1>1. /\ n \in Nat /\ Len(lookups') = n + 1 /\ \A k \in 1..n : lookups'[k] = lookups[k]
      /\ lookups'[n + 1] = [owner |-> o, by |-> by, saw |-> Unknown, late |-> o # address]
  BY FetchEffect DEF TypeOK
<1>2. lookups'[n + 1].owner = o /\ lookups'[n + 1].saw = Unknown /\ (lookups'[n + 1].late <=> o # address)
  <2>. DEFINE late == o # address
  <2>1. lookups'[n + 1] = [owner |-> o, by |-> by, saw |-> Unknown, late |-> late]
    BY <1>1
  <2>2. late \in BOOLEAN
    OBVIOUS
  <2>. HIDE DEF late
  <2>3. lookups'[n + 1].owner = o /\ lookups'[n + 1].saw = Unknown /\ lookups'[n + 1].late = late
    BY <2>1
  <2>. QED BY <2>2, <2>3 DEF late
<1>. HIDE DEF n
<1>3. 1..n + 1 = 1..n \cup {n + 1}
  BY <1>1
<1>4. \A i \in 1..Len(lookups') : ~lookups'[i].late => lookups'[i].owner = address'
  BY <1>1, <1>2, <1>3 DEF ShowInv, n
<1>5. ASSUME ~excused', address' = NoOwner PROVE registered' = Unknown
  BY <1>5 DEF ShowInv
<1>6. ASSUME ~excused', address' # NoOwner
      PROVE  Pending(address)' \/ WillShow(lookups, registered, StatusOf(address))'
  <2>1. StatusOf(address)' = StatusOf(address) /\ registered' = registered
    BY DEF StatusOf
  <2>2. CASE o = address
    <3>1. Fresh(lookups'[n + 1], StatusOf(address)')
      BY <1>2, <2>2 DEF Fresh
    <3>2. WillShow(lookups', registered', StatusOf(address)')
      BY <1>1, <3>1, FreshSent
    <3>. QED BY <3>2
  <2>3. CASE o # address /\ ~Pending(address)'
    <3>1. WillShow(lookups, registered, StatusOf(address))
      BY <1>6, <2>3 DEF ShowInv
    <3>2. \A k \in 1..Len(lookups') : Stale(lookups'[k], StatusOf(address)) =>
             k \in 1..n /\ Stale(lookups[k], StatusOf(address))
      BY <1>1, <1>2, <1>3, <2>3 DEF Stale
    <3>3. \A k \in 1..n : Fresh(lookups[k], StatusOf(address)) => Fresh(lookups'[k], StatusOf(address))
      BY <1>1
    <3>4. Len(lookups) \in Nat /\ Len(lookups') \in Nat /\ Len(lookups) <= Len(lookups')
      BY <1>1 DEF n
    <3>5. WillShow(lookups', registered, StatusOf(address))
      BY <3>1, <3>2, <3>3, <3>4, StillShows DEF n
    <3>. QED BY <2>1, <3>5
  <2>. QED BY <2>2, <2>3
<1>. QED BY <1>4, <1>5, <1>6 DEF ShowInv

LEMMA ShowLookups ==
  ASSUME DashboardConstantsOK, BaseInv, WorkInv, ShowInv, LookupStep
  PROVE  ShowInv'
<1>. DEFINE n == Len(lookups)
<1>0. PICK i \in 1..n : ReadStatus(i) \/ ShowStatus(i) \/ StatusFails(i)
  BY DEF LookupStep
<1>1. /\ lookups \in Seq(LookupRecords) /\ n \in Nat /\ i \in 1..n
      /\ \A k \in 1..n : lookups[k] \in LookupRecords
  BY RowTypes DEF BaseInv, TypeOK
<1>2. CASE ReadStatus(i)
  <2>. DEFINE got == StatusOf(lookups[i].owner)
              x == [lookups[i] EXCEPT !.saw = got]
  <2>1. got \in Shows /\ lookups[i].saw = Unknown
    BY <1>1, <1>2, RowTypes DEF LookupRecords, BaseInv, ReadStatus
  <2>2. /\ lookups' = [lookups EXCEPT ![i] = x] /\ x \in LookupRecords
        /\ x.owner = lookups[i].owner /\ x.saw = got
    <3>. HIDE DEF got
    <3>1. x \in LookupRecords /\ x.owner = lookups[i].owner /\ x.saw = got
      BY <1>1, <2>1 DEF LookupRecords
    <3>2. lookups' = [lookups EXCEPT ![i] = x]
      BY <1>2 DEF ReadStatus, got
    <3>. QED BY <3>1, <3>2
  <2>3. x.late <=> lookups[i].late
    <3>. HIDE DEF got
    <3>. QED BY <1>1 DEF LookupRecords
  <2>. HIDE DEF x
  <2>4. /\ Len(lookups') = n /\ lookups'[i] = x
        /\ \A k \in 1..n : k # i => lookups'[k] = lookups[k]
    BY <1>1, <2>2, ExceptSeq
  <2>5. UNCHANGED <<address, registered, run, erasing, users, excused>>
    BY <1>2 DEF ReadStatus, wallet, shown, server
  <2>6. \A k \in 1..Len(lookups') : ~lookups'[k].late => lookups'[k].owner = address'
    <3>1. ASSUME NEW k \in 1..n, ~lookups'[k].late PROVE lookups'[k].owner = address
      BY <2>2, <2>3, <2>4, <3>1 DEF ShowInv
    <3>. QED BY <2>4, <2>5, <3>1
  <2>7. ASSUME ~excused', address' = NoOwner PROVE registered' = Unknown
    BY <2>5, <2>7 DEF ShowInv
  <2>8. ASSUME ~excused', address' # NoOwner
        PROVE  Pending(address)' \/ WillShow(lookups, registered, StatusOf(address))'
    <3>. DEFINE status == StatusOf(address)
    <3>1. StatusOf(address)' = status
      BY <2>5 DEF StatusOf
    <3>2. Pending(address) => Pending(address)'
      BY <2>5 DEF Pending
    <3>3. CASE WillShow(lookups, registered, status)
      <4>1. ~lookups[i].late => x.saw = status
        BY <1>1, <2>2 DEF ShowInv
      <4>. HIDE DEF status
      <4>2. \A k \in 1..n : Fresh(lookups[k], status) => Fresh(lookups'[k], status)
        <5>1. Fresh(lookups[i], status) => Fresh(x, status)
          BY <2>3, <4>1 DEF Fresh
        <5>. QED BY <2>4, <5>1
      <4>3. \A k \in 1..n : Stale(lookups'[k], status) => Stale(lookups[k], status)
        <5>1. ~Stale(x, status)
          BY <2>3, <4>1 DEF Stale
        <5>2. ASSUME NEW k \in 1..n, Stale(lookups'[k], status) PROVE Stale(lookups[k], status)
          BY <2>4, <5>1, <5>2
        <5>. QED BY <5>2
      <4>4. WillShow(lookups', registered, status)
        BY <1>1, <2>4, <3>3, <4>2, <4>3, StillShows
      <4>. QED BY <2>5, <3>1, <4>4
    <3>4. Pending(address) \/ WillShow(lookups, registered, status)
      BY <2>5, <2>8 DEF ShowInv
    <3>. QED BY <3>2, <3>3, <3>4
  <2>. QED BY <2>6, <2>7, <2>8 DEF ShowInv
<1>3. ASSUME NEW status \in Shows, Arrived(i, status), ~excused' => ~excused,
             ~excused' => /\ ~lookups[i].late
                          /\ lookups[i].saw # Unknown /\ status = lookups[i].saw
      PROVE  ShowInv'
  <2>1. /\ registered' = status /\ Len(lookups') = n - 1
        /\ \A k \in 1..Len(lookups') :
             LET q == IF k < i THEN k ELSE k + 1 IN
             /\ q \in 1..n /\ q # i
             /\ lookups'[k].owner = lookups[q].owner /\ lookups'[k].by = lookups[q].by
             /\ lookups'[k].saw = lookups[q].saw
             /\ lookups'[k].late <=> lookups[q].late \/ q <= i
    BY <1>1, <1>3, ArrivedEffect DEF BaseInv
  <2>2. address' = address /\ users' = users
    BY <1>3 DEF Arrived, wallet, server
  <2>3. \A k \in 1..Len(lookups') : ~lookups'[k].late => lookups'[k].owner = address'
    <3>1. ASSUME NEW k \in 1..Len(lookups'), ~lookups'[k].late PROVE lookups'[k].owner = address
      <4>1. PICK q \in 1..n : lookups'[k].owner = lookups[q].owner /\ ~lookups[q].late
        BY <2>1, <3>1
      <4>. QED BY <4>1 DEF ShowInv
    <3>. QED BY <2>2, <3>1
  <2>4. ASSUME ~excused' PROVE address # NoOwner
    <3>1. lookups[i].owner = address /\ lookups[i].owner \in Owners
      BY <1>1, <1>3, <2>4 DEF ShowInv, LookupRecords
    <3>. QED BY <3>1 DEF DashboardConstantsOK
  <2>5. ASSUME ~excused', address' # NoOwner
        PROVE  Pending(address)' \/ WillShow(lookups, registered, StatusOf(address))'
    <3>1. StatusOf(address)' = StatusOf(address)
      BY <2>2 DEF StatusOf
    <3>2. CASE Pending(address)
      <4>1. /\ lookups[i].by \in Runs => run[lookups[i].by].pc = "status"
            /\ lookups[i].by = "reset" => erasing.pc = "status"
        BY <1>1 DEF WorkInv, WaitersInv
      <4>2. /\ \A r \in Runs : r # lookups[i].by => run'[r] = run[r]
            /\ lookups[i].by # "reset" => erasing' = erasing
        BY <1>3 DEF Arrived, Resume
      <4>3. /\ \A r \in Runs : run[r].pc = "register" => run'[r] = run[r]
            /\ erasing.pc = "deleted" => erasing' = erasing
        BY <4>1, <4>2
      <4>4. Pending(address)'
        BY <2>2, <3>2, <4>3 DEF Pending
      <4>. QED BY <4>4
    <3>3. CASE WillShow(lookups, registered, StatusOf(address))
      <4>. DEFINE st == StatusOf(address)
      <4>1. WillShow(lookups, registered, st)
        BY <3>3
      <4>. HIDE DEF st
      <4>2. \A k \in 1..Len(lookups') : LET q == IF k < i THEN k ELSE k + 1 IN
                                       /\ lookups'[k].saw = lookups[q].saw
                                       /\ lookups'[k].late <=> lookups[q].late \/ q <= i
        BY <2>1
      <4>3. ~lookups[i].late /\ lookups[i].saw # Unknown /\ registered' = lookups[i].saw
        BY <1>3, <2>1, <2>5
      <4>4. WillShow(lookups', lookups[i].saw, st)
        BY <1>1, <2>1, <4>1, <4>2, <4>3, ShownNext
      <4>. QED BY <3>1, <4>3, <4>4 DEF st
    <3>4. Pending(address) \/ WillShow(lookups, registered, StatusOf(address))
      BY <1>3, <2>2, <2>5 DEF ShowInv
    <3>. QED BY <3>2, <3>3, <3>4
  <2>. QED BY <2>2, <2>3, <2>4, <2>5 DEF ShowInv
<1>4. CASE ShowStatus(i)
  <2>1. lookups[i].saw \in Shows
    BY <1>1 DEF LookupRecords
  <2>2. Arrived(i, lookups[i].saw) /\ lookups[i].saw # Unknown /\ excused' = (excused \/ lookups[i].late)
    BY <1>4 DEF ShowStatus
  <2>3. (~excused' => ~excused) /\ (~excused' => ~lookups[i].late)
    BY <2>2
  <2>. QED BY <1>3, <2>1, <2>2, <2>3
<1>5. CASE StatusFails(i)
  <2>1. NotRegistered \in Shows
    BY DEF Shows
  <2>. QED BY <1>3, <1>5, <2>1 DEF StatusFails
<1>. QED BY <1>0, <1>2, <1>4, <1>5

LEMMA ShowWallet ==
  ASSUME DashboardConstantsOK, BaseInv, ShowInv, WalletStep \/ Connect \/ Disconnect \/ Refresh
  PROVE  ShowInv'
<1>0. Len(lookups) \in Nat /\ TypeOK
  BY DEF BaseInv, TypeOK
<1>1. UNCHANGED <<run, erasing, users, excused>>
  BY DEF WalletStep, Connect, Disconnect, Refresh, RestoreAddress, Connected, server
<1>2. ASSUME NEW o \in Owners \cup {NoOwner}, OwnerBecomes(o), o # address PROVE ShowInv'
  <2>1. /\ address' = o
        /\ o = NoOwner => registered' = Unknown
        /\ Len(lookups') = Len(lookups) + (IF o = NoOwner THEN 0 ELSE 1)
        /\ \A k \in 1..Len(lookups) : lookups'[k].late
        /\ o # NoOwner => lookups'[Len(lookups) + 1] =
                            [owner |-> o, by |-> "effect", saw |-> Unknown, late |-> FALSE]
    BY <1>0, <1>2, OwnerEffect
  <2>2. CASE o = NoOwner
    BY <1>0, <2>1, <2>2 DEF ShowInv
  <2>3. CASE o # NoOwner
    <3>. DEFINE m == Len(lookups) + 1
    <3>1. lookups'[m].owner = o /\ lookups'[m].saw = Unknown /\ ~lookups'[m].late /\ Len(lookups') = m
      BY <2>1, <2>3
    <3>2. \A i \in 1..Len(lookups') : ~lookups'[i].late => lookups'[i].owner = address'
      BY <1>0, <2>1, <3>1
    <3>3. Fresh(lookups'[m], StatusOf(address)')
      BY <3>1 DEF Fresh
    <3>4. WillShow(lookups', registered', StatusOf(address)')
      BY <1>0, <3>1, <3>3, FreshSent
    <3>5. WillShow(lookups, registered, StatusOf(address))'
      BY <3>4
    <3>. QED BY <2>1, <2>3, <3>2, <3>5 DEF ShowInv
  <2>. QED BY <2>2, <2>3
<1>3. ASSUME UNCHANGED <<address, registered, lookups>> PROVE ShowInv'
  <2>1. Pending(address) => Pending(address)'
    BY <1>1, <1>3 DEF Pending
  <2>. QED BY <1>0, <1>1, <1>3, <2>1, ShowKept
<1>4. ASSUME NEW o \in Owners \cup {NoOwner}, OwnerBecomes(o) PROVE ShowInv'
  <2>1. o = address => UNCHANGED <<address, registered, lookups>>
    BY <1>0, <1>4, OwnerEffect
  <2>. QED BY <1>2, <1>3, <1>4, <2>1
<1>5. CASE RestoreAddress \/ Disconnect
  BY <1>4, <1>5 DEF RestoreAddress, Disconnect
<1>6. CASE Connected
  <2>1. (\E o \in Owners : OwnerBecomes(o)) \/ UNCHANGED <<address, registered, lookups>>
    BY <1>6 DEF Connected, shown
  <2>. QED BY <1>3, <1>4, <2>1
<1>7. CASE Connect
  BY <1>3, <1>7 DEF Connect, shown
<1>8. CASE Refresh
  <2>1. address \in Owners /\ FetchStatus(address, "effect") /\ UNCHANGED <<address, registered>>
    BY <1>0, <1>8 DEF Refresh, TypeOK, wallet, shown
  <2>. QED BY <1>0, <1>1, <2>1, ShowFetched
<1>. QED BY <1>5, <1>6, <1>7, <1>8 DEF WalletStep

LEMMA ShowErasing ==
  ASSUME DashboardConstantsOK, BaseInv, WorkInv, ShowInv, ResetDemo \/ ResetStep
  PROVE  ShowInv'
<1>0. TypeOK
  BY DEF BaseInv
<1>1. UNCHANGED <<address, registered, run, excused>>
  BY DEF ResetDemo, ResetStep, Erase, Erased, wallet, shown
<1>2. CASE ResetDemo
  <2>1. erasing.pc = "out"
    BY <1>2 DEF ResetDemo, WorkInv, OneAtWork
  <2>2. UNCHANGED <<lookups, users>>
    BY <1>2 DEF ResetDemo, server
  <2>3. Pending(address) => Pending(address)'
    BY <1>1, <2>1 DEF Pending
  <2>. QED BY <1>0, <1>1, <2>2, <2>3, ShowKept
<1>3. CASE Erase
  <2>1. /\ erasing.pc = "delete" /\ erasing' = [erasing EXCEPT !.pc = "deleted"]
        /\ users' = [users EXCEPT ![erasing.owner] = NoAccount] /\ UNCHANGED lookups
    BY <1>3 DEF Erase
  <2>2. erasing'.pc = "deleted" /\ erasing'.owner = erasing.owner
    BY <1>0, <2>1 DEF TypeOK
  <2>3. address \in Owners => users'[address] = users[address] \/ Pending(address)'
    BY <1>0, <1>1, <2>1, <2>2 DEF TypeOK, Pending
  <2>4. Pending(address) => Pending(address)'
    BY <1>1, <2>1 DEF Pending
  <2>. QED BY <1>0, <1>1, <2>1, <2>3, <2>4, ShowKept
<1>4. CASE Erased
  <2>1. /\ erasing.owner \in Owners /\ FetchStatus(erasing.owner, "reset") /\ UNCHANGED users
    BY <1>4 DEF Erased, DeleteReturns, BaseInv, OwnersInv, server
  <2>2. Pending(address) => erasing.owner = address \/ Pending(address)'
    BY <1>1 DEF Pending
  <2>. QED BY <1>0, <1>1, <2>1, <2>2, ShowFetched
<1>. QED BY <1>2, <1>3, <1>4 DEF ResetStep

LEMMA ShowRuns ==
  ASSUME DashboardConstantsOK, BaseInv, ShowInv, NEW r \in Runs, Start(r) \/ RunStep(r)
  PROVE  ShowInv'
<1>0. TypeOK /\ run \in [Runs -> RunRecords] /\ run[r] \in RunRecords
  BY DEF BaseInv, TypeOK, RunRecords
<1>1. UNCHANGED <<address, registered, erasing>>
  BY DEF Start, RunStep, LoadAgent, Prepare, Serve, MintUsdc, Answer, Fail, wallet, shown
<1>2. \A q \in Runs \ {r} : run'[q] = run[q]
  BY <1>0 DEF Start, RunStep, LoadAgent, Prepare, Serve, MintUsdc, Answer, AskStatus, Fail, Catch
\* A run that has not registered an owner goes on.
<1>3. ASSUME ~(run[r].pc = "register" /\ run[r].served) \/ excused', ~excused' => ~excused,
             UNCHANGED <<lookups, users>>
      PROVE  ShowInv'
  <2>1. ~excused' /\ Pending(address) => Pending(address)'
    BY <1>1, <1>2, <1>3 DEF Pending
  <2>. QED BY <1>0, <1>1, <1>3, <2>1, ShowKept
<1>4. CASE Start(r) \/ LoadAgent(r) \/ Prepare(r)
  <2>1. run[r].pc # "register" /\ UNCHANGED <<lookups, users, excused>>
    BY <1>4 DEF Start, LoadAgent, Prepare, server
  <2>. QED BY <1>3, <2>1
<1>5. CASE MintUsdc(r)
  <2>1. run[r].pc # "register" /\ UNCHANGED <<lookups, users, excused>>
    BY <1>5 DEF MintUsdc, Does
  <2>. QED BY <1>3, <2>1
<1>6. CASE Fail(r)
  <2>1. UNCHANGED <<lookups, users>> /\ excused' = (excused \/ (run[r].pc = "register" /\ run[r].served))
    BY <1>6 DEF Fail, server
  <2>2. (~excused' => ~excused) /\ (~(run[r].pc = "register" /\ run[r].served) \/ excused')
    BY <2>1
  <2>. QED BY <1>3, <2>1, <2>2
<1>7. CASE Serve(r)
  <2>1. PICK job \in Jobs :
          /\ run[r].pc = job /\ ~run[r].served
          /\ users' = IF job = "register" THEN [users EXCEPT ![run[r].owner] = run[r].account] ELSE users
    BY <1>7 DEF Serve, Does, For
  <2>2. run' = [run EXCEPT ![r].served = TRUE] /\ UNCHANGED <<lookups, excused>>
    BY <1>7 DEF Serve
  <2>3. run'[r].pc = run[r].pc /\ run'[r].owner = run[r].owner /\ run'[r].served
    BY <1>0, <2>2 DEF RunRecords
  <2>4. address \in Owners => users'[address] = users[address] \/ Pending(address)'
    <3>1. CASE job = "register" /\ run[r].owner = address
      <4>1. run'[r].pc = "register" /\ run'[r].served /\ run'[r].owner = address'
        BY <1>1, <2>1, <2>3, <3>1
      <4>2. Pending(address)'
        BY <4>1 DEF Pending
      <4>. QED BY <4>2
    <3>2. CASE ~(job = "register" /\ run[r].owner = address)
      BY <1>0, <2>1, <3>2 DEF TypeOK
    <3>. QED BY <3>1, <3>2
  <2>5. Pending(address) => Pending(address)'
    BY <1>1, <1>2, <2>1 DEF Pending
  <2>. QED BY <1>0, <1>1, <2>2, <2>4, <2>5, ShowKept
<1>8. CASE Answer(r)
  <2>1. UNCHANGED <<users, excused>>
    BY <1>8 DEF Answer, server
  <2>2. CASE run[r].pc = "register"
    <3>1. FetchStatus(run[r].owner, r) /\ run[r].owner \in Owners
      BY <1>8, <2>2 DEF Answer, AskStatus, BaseInv, OwnersInv
    <3>2. Pending(address) => run[r].owner = address \/ Pending(address)'
      BY <1>1, <1>2 DEF Pending
    <3>. QED BY <1>0, <1>1, <2>1, <3>1, <3>2, ShowFetched
  <2>3. CASE run[r].pc # "register"
    BY <1>3, <1>8, <2>1, <2>3 DEF Answer
  <2>. QED BY <2>2, <2>3
<1>. QED BY <1>4, <1>5, <1>6, <1>7, <1>8 DEF RunStep

LEMMA ShowNext ==
  ASSUME DashboardConstantsOK, BaseInv, WorkInv, ShowInv, [Next]_vars
  PROVE  ShowInv'
<1>1. CASE UNCHANGED vars
  <2>1. UNCHANGED <<address, registered, lookups, run, erasing, users, excused>>
    BY <1>1 DEF vars
  <2>2. Pending(address) => Pending(address)'
    BY <2>1 DEF Pending
  <2>. QED BY <2>1, <2>2, ShowKept DEF BaseInv
<1>. QED BY <1>1, ShowLookups, ShowWallet, ShowErasing, ShowRuns DEF Next

\* With nothing under way the page shows what the server has of its owner.
THEOREM ShownAlwaysTrue == Spec => []ShownIsTrue
<1>. DEFINE Inv == BaseInv /\ AccountInv /\ WorkInv /\ ShowInv
<1>1. Init => Inv
  <2>1. Init => ShowInv
    BY DEF Init, ShowInv
  <2>. QED BY <2>1, BaseInit, AccountInit, WorkInit, DashboardConstantsOK
<1>2. Inv /\ [Next]_vars => Inv'
  BY BaseNext, AccountNext, WorkNext, ShowNext, DashboardConstantsOK
<1>3. Inv => ShownIsTrue
  <2>1. ASSUME ShowInv, ~excused, lookups = <<>>, erasing.pc = "out", \A r \in Runs : run[r].pc = "out"
        PROVE  registered = (IF address = NoOwner THEN Unknown ELSE StatusOf(address))
    <3>1. ~Pending(address) /\ Len(lookups) = 0
      BY <2>1 DEF Pending
    <3>. QED BY <2>1, <3>1 DEF ShowInv, WillShow
  <2>. QED BY <2>1 DEF ShownIsTrue
<1>. QED BY <1>1, <1>2, <1>3, PTL DEF Spec
=============================================================================
