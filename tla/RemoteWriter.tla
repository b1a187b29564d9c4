---------------------------- MODULE RemoteWriter ----------------------------
(***************************************************************************)
(* The remote writer of the alert generator test suite                     *)
(* (alert_generator/remote_write.go).  Start flattens and sorts the        *)
(* samples of all series and starts a goroutine that waits until each      *)
(* timestamp and writes all its samples in one request, trying at most     *)
(* three times under a context with a timeout.  Errors go to a channel of  *)
(* capacity 1 that only Error() drains, which the suite calls after Wait.  *)
(*                                                                         *)
(* Time is the goroutine's own clock, in half seconds from the zero time.  *)
(* The storage that receives the writes is external: a try succeeds, or    *)
(* fails with the samples ingested or not.                                 *)
(***************************************************************************)
EXTENDS Naturals, Sequences, FiniteSets

CONSTANTS Series,         \* the time series added with AddTimeSeries
          NumSamples,     \* series -> how many samples it has
          MaxBuildErrors, \* bound: requests that fail to be built
          MaxWriteErrors  \* bound: batches whose write fails

ASSUME SeriesAssumption == Series # {} /\ IsFiniteSet(Series)
ASSUME SamplesAssumption == NumSamples \in [Series -> Nat \ {0}]
ASSUME ErrorsAssumption == MaxBuildErrors \in Nat /\ MaxWriteErrors \in Nat

Interval  == 30  \* 15 s between the samples of a series
ClientTimeout == 8  \* 4 s: the timeout given to NewWriteClient
Timeout   == 4   \* 2 s: the context of one batch, whatever the number of tries
RetryWait == 2   \* 1 s between two tries
MaxTries  == 3

Samples == UNION {{[series |-> s, ts |-> Interval * i] : i \in 0..(NumSamples[s] - 1)} :
                  s \in Series}

(* The flattened samples in timestamp order; sort.Slice is not stable, so  *)
(* those of one timestamp come in any order.                               *)
Flattenings ==
    {f \in [1..Cardinality(Samples) -> Samples] :
        \A i, j \in DOMAIN f : i # j => f[i] # f[j]}
SortedFlattenings ==
    {f \in Flattenings : \A i, j \in DOMAIN f : i < j => f[i].ts <= f[j].ts}

VARIABLES
    allSamples,    \* the flattened samples
    pc,            \* the goroutine: "wait", "try", "retryWait", "send", "done"
    idx,           \* how many samples have been taken
    batch,         \* the samples of the request being written
    now,           \* the goroutine's clock
    elapsed,       \* time since the batch's context was made
    tries,         \* tries of remoteWrite for the batch
    received,      \* history: the requests the storage ingested, with the time
    timesWritten,  \* the atomic counter
    errc,          \* the error channel: a sequence of at most one error
    err,           \* rw.err: what Error() returned, or "none"
    stopc,         \* TRUE iff Stop closed the channel
    main,          \* the suite's caller: "start", "running", "waited", "checked"
    buildErrors, writeErrors  \* the bounded counts

batchVars == <<batch, elapsed, tries>>
errVars   == <<errc, err, buildErrors, writeErrors>>
vars == <<allSamples, pc, idx, batchVars, now, received, timesWritten, errVars, stopc, main>>

Errors == {"build", "write"}

TypeOK ==
    /\ allSamples \in SortedFlattenings
    /\ pc \in {"wait", "try", "retryWait", "sendBuild", "sendWrite", "done"}
    /\ idx \in 0..Len(allSamples)
    /\ batch \subseteq Samples
    /\ now \in Nat /\ elapsed \in Nat
    /\ tries \in 0..MaxTries
    /\ received \in Seq([samples : SUBSET Samples, at : Nat, try : Nat])
    /\ timesWritten \in 0..Len(allSamples)
    /\ errc \in {<<>>} \cup {<<e>> : e \in Errors}
    /\ err \in Errors \cup {"none"}
    /\ stopc \in BOOLEAN
    /\ main \in {"start", "running", "waited", "checked"}
    /\ buildErrors \in 0..MaxBuildErrors
    /\ writeErrors \in 0..MaxWriteErrors

Init ==
    /\ allSamples \in SortedFlattenings
    /\ pc = "wait" /\ idx = 0 /\ batch = {}
    /\ now = 0 /\ elapsed = 0 /\ tries = 0
    /\ received = <<>> /\ timesWritten = 0
    /\ errc = <<>> /\ err = "none" /\ stopc = FALSE /\ main = "start"
    /\ buildErrors = 0 /\ writeErrors = 0

(* The timer fires at timestamp t, or at once when t is past. *)
AfterAnInterval(t) == IF t = 0 THEN now ELSE now + Interval
Later(t) == IF t > now THEN t ELSE now

-----------------------------------------------------------------------------
(* The goroutine: for idx < len(allSamples). *)

AllTaken ==
    /\ pc = "wait" /\ idx = Len(allSamples)
    /\ pc' = "done"
    /\ UNCHANGED <<allSamples, idx, batchVars, now, received, timesWritten, errVars, stopc, main>>

(* The select takes the closed channel: break Outer. *)
SeeStop ==
    /\ pc = "wait" /\ idx < Len(allSamples) /\ stopc
    /\ pc' = "done"
    /\ UNCHANGED <<allSamples, idx, batchVars, now, received, timesWritten, errVars, stopc, main>>

(* The samples after idx that share the timestamp of the first of them.    *)
NextTs == allSamples[idx + 1].ts
OnlyTheNext == {idx + 1}
SameTs == {i \in (idx + 1)..Len(allSamples) : allSamples[i].ts = NextTs}

(* The select takes the timer: the batch of the next timestamp is taken    *)
(* and its request is built.                                               *)
TakeBatch ==
    /\ pc = "wait" /\ idx < Len(allSamples)
    /\ now' = Later(NextTs)
    /\ batch' = {allSamples[i] : i \in SameTs}
    /\ idx' = idx + Cardinality(SameTs)
    /\ elapsed' = 0 /\ tries' = 1
    /\ \/ pc' = "try" /\ UNCHANGED buildErrors
       \/ /\ buildErrors < MaxBuildErrors
          /\ buildErrors' = buildErrors + 1
          /\ pc' = "sendBuild"
    /\ UNCHANGED <<allSamples, received, timesWritten, errc, err, writeErrors, stopc, main>>

(* client.Store ends after d, at the context's deadline at the latest.     *)
Passes(d) == elapsed' = elapsed + d /\ now' = now + d
Ingest == received' = Append(received, [samples |-> batch, at |-> now', try |-> tries])

ForgetIt == UNCHANGED timesWritten
CountIt == timesWritten' = timesWritten + 1

(* The try succeeds before the deadline, yet ctx.Err() may already be set  *)
(* when it is looked at.                                                   *)
TrySucceeds(d) ==
    /\ pc = "try" /\ elapsed + d <= Timeout
    /\ Passes(d) /\ Ingest
    /\ CountIt
    /\ IF elapsed' < Timeout
       THEN pc' = "wait" /\ UNCHANGED writeErrors
       ELSE /\ writeErrors < MaxWriteErrors
            /\ writeErrors' = writeErrors + 1
            /\ pc' = "sendWrite"
    /\ UNCHANGED <<allSamples, idx, batch, tries, errc, err, buildErrors, stopc, main>>

(* The try fails; the storage may have ingested it all the same.  The      *)
(* third failure is remoteWrite's error.                                   *)
LastTryIsTheFourth == tries > MaxTries
LastTry == tries >= MaxTries
TryFails(d) ==
    /\ pc = "try" /\ writeErrors < MaxWriteErrors
    /\ IF elapsed >= Timeout THEN d = 0 ELSE elapsed + d <= Timeout
    /\ Passes(d)
    /\ \/ Ingest /\ elapsed < Timeout
       \/ UNCHANGED received
    /\ IF LastTry
       THEN /\ pc' = "sendWrite"
            /\ writeErrors' = writeErrors + 1
            /\ CountIt
       ELSE pc' = "retryWait" /\ UNCHANGED <<writeErrors, timesWritten>>
    /\ UNCHANGED <<allSamples, idx, batch, tries, errc, err, buildErrors, stopc, main>>

Retry ==
    /\ pc = "retryWait"
    /\ Passes(RetryWait)
    /\ tries' = tries + 1
    /\ pc' = "try"
    /\ UNCHANGED <<allSamples, idx, batch, received, timesWritten, errVars, stopc, main>>

(* rw.errc <- err blocks while an error is in the channel; then break      *)
(* leaves the select only, and the loop goes on with the next timestamp.   *)
DropBuildError ==
    /\ pc \in {"sendBuild", "sendWrite"}
    /\ errc = <<>>
    /\ errc' = IF pc = "sendBuild" THEN <<>> ELSE <<"write">>
    /\ pc' = "wait"
    /\ UNCHANGED <<allSamples, idx, batchVars, now, received, timesWritten, err, buildErrors, writeErrors, stopc, main>>
SendError ==
    /\ pc \in {"sendBuild", "sendWrite"}
    /\ errc = <<>>
    /\ errc' = <<IF pc = "sendBuild" THEN "build" ELSE "write">>
    /\ pc' = "wait"
    /\ UNCHANGED <<allSamples, idx, batchVars, now, received, timesWritten, err, buildErrors, writeErrors, stopc, main>>

-----------------------------------------------------------------------------
(* The caller: Start polls until a write was tried; the suite may Stop at  *)
(* any time after; Wait; Error.                                            *)

StartPolls == main = "start" /\ timesWritten = 0 /\ UNCHANGED vars

StartReturns ==
    /\ main = "start" /\ timesWritten # 0
    /\ main' = "running"
    /\ UNCHANGED <<allSamples, pc, idx, batchVars, now, received, timesWritten, errVars, stopc>>

Stop ==
    /\ main = "running" /\ ~stopc
    /\ stopc' = TRUE
    /\ UNCHANGED <<allSamples, pc, idx, batchVars, now, received, timesWritten, errVars, main>>

Wait ==
    /\ main = "running" /\ pc = "done"
    /\ main' = "waited"
    /\ UNCHANGED <<allSamples, pc, idx, batchVars, now, received, timesWritten, errVars, stopc>>

Error ==
    /\ main = "waited"
    /\ main' = "checked"
    /\ IF errc # <<>> THEN err' = Head(errc) /\ errc' = <<>> ELSE UNCHANGED <<err, errc>>
    /\ UNCHANGED <<allSamples, pc, idx, batchVars, now, received, timesWritten, buildErrors, writeErrors, stopc>>

Checked == main = "checked" /\ UNCHANGED vars

Goroutine ==
    \/ AllTaken \/ SeeStop \/ TakeBatch
    \/ \E d \in 1..Timeout : TrySucceeds(d)
    \/ \E d \in 0..Timeout : TryFails(d)
    \/ Retry \/ SendError

Caller == StartReturns \/ Stop \/ Wait \/ Error

Next == Goroutine \/ Caller \/ StartPolls \/ Checked

Spec == Init /\ [][Next]_vars

(* The goroutine and the caller run; nothing makes the suite stop early.   *)
FairSpec == Spec /\ WF_vars(Goroutine) /\ WF_vars(StartReturns) /\ WF_vars(Wait) /\ WF_vars(Error)

-----------------------------------------------------------------------------
(* "RemoteWriter remote writes the time series [...] in sorted fashion     *)
(* w.r.t. the timestamps": over retries and failed batches, the storage    *)
(* never ingests a timestamp after a later one.                            *)
WrittenInOrder ==
    \A i, j \in DOMAIN received : i < j =>
        \A a \in received[i].samples, b \in received[j].samples : a.ts <= b.ts

(* Every request holds the samples that all series have at one timestamp,  *)
(* at most one of each series ("a single series will have only 1 sample"). *)
WholeTimestamps ==
    \A i \in DOMAIN received : \E t \in {s.ts : s \in Samples} :
        received[i].samples = {s \in Samples : s.ts = t}

(* A sample is never written before its timestamp, nor later than the      *)
(* timeout of its own batch: what an earlier batch lost does not add up,   *)
(* so the 10 s that TestCase.SamplesToRemoteWrite allows are kept.         *)
DeliveredInTime ==
    \A i \in DOMAIN received : \A s \in received[i].samples :
        received[i].at \in s.ts..(s.ts + Timeout)

(* remoteWrite's third try comes two waits after the batch's context was   *)
(* made, when its time is over: it is never the one that ingests.          *)
ThirdTryIsVain == \A i \in DOMAIN received : received[i].try < MaxTries

(* A sample the storage never got, in a run nobody stopped, is reported:   *)
(* Error() after Wait() is not nil.                                        *)
GapIsReported ==
    main = "checked" /\ ~stopc /\ err = "none" =>
        \A s \in Samples : \E i \in DOMAIN received : s \in received[i].samples

(* Start returns and, with at most one error, which errc has room for, the *)
(* goroutine ends and Wait and Error return, whatever the storage does.    *)
WriterEnds == [](buildErrors + writeErrors <= 1) => <>(main = "checked")
-----------------------------------------------------------------------------
(* What every step keeps and the properties follow from.                   *)

InBatch == pc \in {"try", "retryWait", "sendBuild", "sendWrite"}

(* The timestamp of the samples that were taken last. *)
LastTs == allSamples[idx].ts

(* The samples taken so far end where a timestamp ends. *)
TakenToTheEnd ==
    \A i \in 1..idx, j \in (idx + 1)..Len(allSamples) : allSamples[i].ts < allSamples[j].ts

(* The batch under way is what was taken last. *)
BatchIsLast == InBatch => idx > 0 /\ batch = {s \in Samples : s.ts = LastTs}

(* Nothing the storage has ingested is later than that. *)
NothingIsLater ==
    \A i \in DOMAIN received : idx > 0 /\ \A s \in received[i].samples : s.ts <= LastTs

(* The clock follows the timestamp of the batch by what its tries and the  *)
(* waits between them took, which is over long before the next timestamp.  *)
ClockFollows ==
    /\ idx > 0 => now <= LastTs + Timeout + RetryWait * (MaxTries - 1)
    /\ idx = 0 => now = 0
    /\ pc \in {"try", "retryWait"} =>
        /\ now = LastTs + elapsed
        /\ tries > 0
        /\ elapsed >= RetryWait * (tries - 1)
        /\ elapsed <= Timeout + RetryWait * (tries - 1)
    /\ pc = "retryWait" => tries < MaxTries

(* What was taken and not ingested is the batch under way, or there is an  *)
(* error in the channel, which Error() takes out when the goroutine ended. *)
GapsAreKnown ==
    /\ errc = <<>> /\ err = "none" =>
        \A i \in 1..idx :
            \/ InBatch /\ allSamples[i] \in batch
            \/ \E k \in DOMAIN received : allSamples[i] \in received[k].samples
    /\ pc = "done" => idx = Len(allSamples) \/ stopc
    /\ main \in {"waited", "checked"} => pc = "done"
    /\ err # "none" => main = "checked"
    /\ main = "checked" => errc = <<>>

(* A batch takes a sample at least, and is counted when it is over. *)
CountIsBehind ==
    timesWritten <= idx /\ (pc \in {"try", "retryWait"} => timesWritten < idx)

IInv ==
    /\ TypeOK /\ TakenToTheEnd /\ BatchIsLast /\ NothingIsLater /\ ClockFollows
    /\ GapsAreKnown /\ CountIsBehind
    /\ WrittenInOrder /\ WholeTimestamps /\ DeliveredInTime /\ ThirdTryIsVain

-----------------------------------------------------------------------------
(* The promise of SampleDelivery: through failed batches and retries the   *)
(* storage ingests whole timestamps in order, Error() is nil only when it  *)
(* got all of them or the suite stopped the writer, and nothing is written *)
(* after Error() was called.                                               *)
Delivery == INSTANCE SampleDelivery WITH
    log <- [k \in DOMAIN received |-> received[k].samples],
    stopped <- stopc,
    outcome <- IF main # "checked" THEN "none"
               ELSE IF err = "none" THEN "written" ELSE "failed"

ImplementsDelivery == Delivery!ASpec
=============================================================================
