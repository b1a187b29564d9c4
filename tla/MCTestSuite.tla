---------------------------- MODULE MCTestSuite ----------------------------
(* Instances of TestSuite for TLC. *)
EXTENDS TestSuite, TLC

CONSTANTS g1, g2

OneGroup   == {g1}
TwoGroups  == {g1, g2}
OneLabel   == {g1}
OnePoller  == {"alerts"}
TwoPollers == {"alerts", "metrics"}
=============================================================================
