--------------------------- MODULE SampleDelivery ---------------------------
(***************************************************************************)
(* What a remote writer promises to whoever queries the storage, whatever  *)
(* is lost and retried: the storage is given whole timestamps, in order, a *)
(* writer is said to have done its work only when all of them are there or *)
(* it was stopped, and nothing is written once it has been said.           *)
(***************************************************************************)
EXTENDS Naturals, Sequences

CONSTANT Samples   \* a set of [series, ts]

VARIABLES log,      \* what the storage has ingested: a sequence of sets of samples
          stopped,
          outcome   \* "none", "written" or "failed"

avars == <<log, stopped, outcome>>

AInit == log = <<>> /\ ~stopped /\ outcome = "none"

At(t) == {s \in Samples : s.ts = t}
Timestamps == {s.ts : s \in Samples}

(* A timestamp may be ingested again, until a later one is. *)
Write(t) ==
    /\ outcome = "none"
    /\ \A k \in DOMAIN log : \A s \in log[k] : s.ts <= t
    /\ log' = Append(log, At(t))
    /\ UNCHANGED <<stopped, outcome>>

StopWriting ==
    /\ outcome = "none"
    /\ ~stopped /\ stopped'
    /\ UNCHANGED <<log, outcome>>

Ingested == UNION {log[k] : k \in DOMAIN log}

SayWritten ==
    /\ outcome = "none"
    /\ stopped \/ Samples \subseteq Ingested
    /\ outcome' = "written"
    /\ UNCHANGED <<log, stopped>>

SayFailed ==
    /\ outcome = "none"
    /\ outcome' = "failed"
    /\ UNCHANGED <<log, stopped>>

ANext == (\E t \in Timestamps : Write(t)) \/ StopWriting \/ SayWritten \/ SayFailed

ASpec == AInit /\ [][ANext]_avars
=============================================================================
