---------------------------- MODULE MCLoadDriver ----------------------------
(* An instance of LoadDriver, with what LoadReport makes of it. *)
EXTENDS LoadReport, TLC

E(k, w) == [kind |-> k, wallet |-> w]

\* The kinds of events the five cohorts and the schedule make.
AllKinds == <<E("onboard", 1), E("tick", 0), E("transfer", 1), E("unregister", 1),
              E("faucet", 1), E("snapshot", 0)>>
=============================================================================
