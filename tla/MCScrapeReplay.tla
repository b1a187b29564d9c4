--------------------------- MODULE MCScrapeReplay ---------------------------
(* Instances of ScrapeReplay for TLC. *)
EXTENDS ScrapeReplay

CONSTANT prom3

Only3 == {prom3}

Back == {6}
ThreeAndTenHours == {3, 10}
=============================================================================
