--------------------------- MODULE MCRemoteWriter ---------------------------
(* Instances of RemoteWriter for TLC. *)
EXTENDS RemoteWriter, TLC

CONSTANTS s1, s2

TwoSeries == {s1, s2}
ShortAndLong == s1 :> 2 @@ s2 :> 3
=============================================================================
