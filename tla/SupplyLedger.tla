---------------------------- MODULE SupplyLedger ----------------------------
(***************************************************************************)
(* What the book-keeping of supplies promises, with ticks, reads and       *)
(* writes left out: supplies land on the ledger, and each landed supply is *)
(* added to the recorded position of its wallet at most once and is never  *)
(* dropped from it again.  A supply may stay unrecorded for ever (its tick *)
(* died, or stopped waiting for it).                                       *)
(***************************************************************************)
CONSTANTS Wallets, Hashes

VARIABLES
  landed,    \* the supplies of each wallet that the ledger included
  recorded   \* the supplies its recorded position adds up

Init ==
  /\ landed = [w \in Wallets |-> {}]
  /\ recorded = [w \in Wallets |-> {}]

Land(w, h) ==
  /\ \A x \in Wallets : h \notin landed[x]
  /\ landed' = [landed EXCEPT ![w] = @ \cup {h}]
  /\ UNCHANGED recorded

Record(w, h) ==
  /\ h \in landed[w] \ recorded[w]
  /\ recorded' = [recorded EXCEPT ![w] = @ \cup {h}]
  /\ UNCHANGED landed

Next == \E w \in Wallets, h \in Hashes : Land(w, h) \/ Record(w, h)

Spec == Init /\ [][Next]_<<landed, recorded>>
=============================================================================
