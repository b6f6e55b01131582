---------------------------- MODULE EventTracker ----------------------------
(***************************************************************************)
(* The HTTP batch tracker (packages/core/src/tracker/http-batch.ts) of one *)
(* call of an engine: workflow and jobs build a tracker for every request  *)
(* and every alarm, and flush it when the handler has succeeded.  Fibers   *)
(* of the handler emit events side by side; Effect may switch between them *)
(* at any step.  The endpoint may fail, or answer too late to be heard.    *)
(***************************************************************************)
EXTENDS Integers, Sequences, SequencesExt

CONSTANTS
    Fibers,         \* the fibers of the handler
    batchSize,      \* a batch is sent when there are that many events
    maxAttempts,    \* retries of a batch
    MaxEvents       \* bound: events of the call, numbered from 1

Main == "main"      \* the fiber of the call itself

ASSUME Configured ==
    /\ IsFiniteSet(Fibers) /\ Main \notin Fibers
    /\ batchSize \in Nat \ {0} /\ maxAttempts \in Nat /\ MaxEvents \in Nat

Senders == Fibers \union {Main}

VARIABLES
    buffer,         \* events not sent yet
    fs,             \* the fibers: where each is, and the batch it sends
    call,           \* "open", "flushing", "answered" or "failed"
    endpoint,       \* the events the endpoint has received once, and again
    issued,         \* the number of events emitted
    hist            \* history: events given up, and whether an answer was lost

vars == <<buffer, fs, call, endpoint, issued, hist>>

Ready == [pc |-> "ready", batch |-> <<>>, attempt |-> 0]

Init ==
    /\ buffer = <<>>
    /\ fs = [f \in Senders |-> Ready]
    /\ call = "open"
    /\ endpoint = [once |-> {}, again |-> {}]
    /\ issued = 0
    /\ hist = [dropped |-> {}, unheard |-> FALSE]

-----------------------------------------------------------------------------
(* emit: the event is added, the length is read, and the buffer flushed.   *)
emit(f) ==
    /\ call = "open" /\ f \in Fibers /\ fs[f].pc = "ready"
    /\ issued < MaxEvents
    /\ issued' = issued + 1
    /\ buffer' = Append(buffer, issued')
    /\ fs' = [fs EXCEPT ![f].pc = "emitted"]
    /\ UNCHANGED <<call, endpoint, hist>>

(* Mutant: only a batch that is over-full is sent. *)
Full_More == Len(buffer) > batchSize

Full == Len(buffer) >= batchSize

Check(f) ==
    /\ fs[f].pc = "emitted"
    /\ fs' = [fs EXCEPT ![f].pc = IF Full THEN "flush" ELSE "ready"]
    /\ UNCHANGED <<buffer, call, endpoint, issued, hist>>

(* Mutants: what exceeds the batch is forgotten; the buffer keeps what is  *)
(* being sent.                                                             *)
flush_Truncated(f) ==
    /\ fs[f].pc = "flush"
    /\ fs' = [fs EXCEPT ![f].batch = SubSeq(buffer, 1, IF Full THEN batchSize ELSE Len(buffer)),
                        ![f].pc = IF buffer = <<>> THEN "ready" ELSE "sending"]
    /\ buffer' = <<>>
    /\ UNCHANGED <<call, endpoint, issued, hist>>

flush_Kept(f) ==
    /\ fs[f].pc = "flush"
    /\ fs' = [fs EXCEPT ![f].batch = buffer,
                        ![f].pc = IF buffer = <<>> THEN "ready" ELSE "sending"]
    /\ UNCHANGED <<buffer, call, endpoint, issued, hist>>

(* flush: what is in the buffer is taken out and sent; another fiber may   *)
(* have been faster.                                                       *)
flush(f) ==
    /\ fs[f].pc = "flush"
    /\ fs' = [fs EXCEPT ![f].batch = buffer,
                        ![f].pc = IF buffer = <<>> THEN "ready" ELSE "sending"]
    /\ buffer' = <<>>
    /\ UNCHANGED <<call, endpoint, issued, hist>>

Received(batch) ==
    [once |-> endpoint.once \union ToSet(batch),
     again |-> endpoint.again \union (endpoint.once \intersect ToSet(batch))]

(* The batch arrives and the answer is ok. *)
SendSucceeds(f) ==
    /\ fs[f].pc = "sending"
    /\ endpoint' = Received(fs[f].batch)
    /\ fs' = [fs EXCEPT ![f] = Ready]
    /\ UNCHANGED <<buffer, call, issued, hist>>

(* Mutant: retried for as long as it takes. *)
CanRetry_Always(f) == TRUE

CanRetry(f) == fs[f].attempt < maxAttempts

(* The count is kept within its bound, which CanRetry never exceeds. *)
Retried(f) == [fs EXCEPT ![f].attempt = (@ + 1) % (maxAttempts + 1)]

(* The request fails, before or after the batch has arrived: it is sent    *)
(* again ...                                                               *)
SendRetried(f, arrived) ==
    /\ fs[f].pc = "sending" /\ CanRetry(f)
    /\ fs' = Retried(f)
    /\ endpoint' = IF arrived THEN Received(fs[f].batch) ELSE endpoint
    /\ hist' = [hist EXCEPT !.unheard = @ \/ arrived]
    /\ UNCHANGED <<buffer, call, issued>>

(* ... or dropped, and nobody is told. *)
SendDropped(f, arrived) ==
    /\ fs[f].pc = "sending" /\ ~CanRetry(f)
    /\ fs' = [fs EXCEPT ![f] = Ready]
    /\ endpoint' = IF arrived THEN Received(fs[f].batch) ELSE endpoint
    /\ hist' = [dropped |-> hist.dropped \union ToSet(fs[f].batch),
                unheard |-> hist.unheard \/ arrived]
    /\ UNCHANGED <<buffer, call, issued>>

-----------------------------------------------------------------------------
(* Mutant: answered without a flush. *)
HandlerSucceeds_NoFlush ==
    /\ call = "open" /\ \A f \in Fibers : fs[f].pc = "ready"
    /\ call' = "flushing"
    /\ UNCHANGED <<buffer, fs, endpoint, issued, hist>>

(* The handler has succeeded: flushEvents. *)
HandlerSucceeds ==
    /\ call = "open" /\ \A f \in Fibers : fs[f].pc = "ready"
    /\ call' = "flushing"
    /\ fs' = [fs EXCEPT ![Main].pc = "flush"]
    /\ UNCHANGED <<buffer, endpoint, issued, hist>>

Answer ==
    /\ call = "flushing" /\ fs[Main].pc = "ready"
    /\ call' = "answered"
    /\ UNCHANGED <<buffer, fs, endpoint, issued, hist>>

(* The handler fails: its fibers are interrupted, and what was not sent is *)
(* lost with the tracker.                                                  *)
HandlerFails ==
    /\ call = "open"
    /\ call' = "failed"
    /\ hist' = [hist EXCEPT !.dropped = @ \union ToSet(buffer)
                  \union UNION {ToSet(fs[f].batch) : f \in Senders}]
    /\ fs' = [f \in Senders |-> Ready]
    /\ buffer' = <<>>
    /\ UNCHANGED <<endpoint, issued>>

-----------------------------------------------------------------------------
Send(f) ==
    \/ SendSucceeds(f)
    \/ \E arrived \in BOOLEAN : SendRetried(f, arrived) \/ SendDropped(f, arrived)

Deliver(f) == Check(f) \/ flush(f) \/ Send(f)

Next ==
    \/ \E f \in Fibers : emit(f)
    \/ \E f \in Senders : Deliver(f)
    \/ HandlerSucceeds \/ Answer \/ HandlerFails

Spec == Init /\ [][Next]_vars

(* Effect runs every fiber on, and a request ends, with an answer or with  *)
(* an error: the platform's doing, for the code sets no time limit.        *)
(* Nobody has to emit anything.                                            *)
FairSpec ==
    /\ Spec
    /\ \A f \in Senders : WF_vars(Check(f) \/ flush(f)) /\ WF_vars(Send(f))
    /\ WF_vars(Answer)

-----------------------------------------------------------------------------
Events == 1 .. MaxEvents

Emitted == 1 .. issued

InFlight == UNION {ToSet(fs[f].batch) : f \in Senders}

(* The values every variable may take; a batch that is sent has events. *)
TypeOK ==
    /\ buffer \in Seq(Events)
    /\ fs \in [Senders -> [pc : {"ready", "emitted", "flush", "sending"},
                           batch : Seq(Events), attempt : 0 .. maxAttempts]]
    /\ \A f \in Senders : fs[f].pc = "sending" <=> fs[f].batch # <<>>
    /\ call \in {"open", "flushing", "answered", "failed"}
    /\ endpoint \in [once : SUBSET Events, again : SUBSET Events]
    /\ issued \in 0 .. MaxEvents
    /\ hist \in [dropped : SUBSET Events, unheard : BOOLEAN]

(* Every event emitted waits, is being sent, has been received, or was     *)
(* given up: none vanishes between the buffer and a batch.                 *)
NothingVanishes ==
    Emitted = ToSet(buffer) \union InFlight \union endpoint.once
                \union hist.dropped

(* The endpoint gets an event twice only when one of its answers was lost: *)
(* fibers that flush side by side do not send the same events.             *)
SentOnce ==
    ~hist.unheard => endpoint.again = {}

(* "Maximum events per batch" (http-batch.ts:20) holds up to one event for *)
(* every other fiber that emitted before the flush.                        *)
BatchesAreBounded ==
    \A f \in Senders : Len(fs[f].batch) < batchSize + Cardinality(Fibers)

(* An answered call has sent everything, or given it up. *)
AnsweredMeansFlushed ==
    call = "answered" => buffer = <<>> /\ InFlight = {}

-----------------------------------------------------------------------------
(* What makes these invariants inductive. *)

(* Once the handler is done its fibers are; the call's own fiber flushes   *)
(* then, and leaves nothing.                                               *)
CallOK ==
    /\ fs[Main].pc # "emitted"
    /\ call # "open" => \A f \in Fibers : fs[f].pc = "ready"
    /\ call # "flushing" => fs[Main].pc = "ready"
    /\ call # "open" /\ fs[Main].pc # "flush" => buffer = <<>>

(* The events that wait are of no batch, no two batches share one, and     *)
(* none has been received, unless an answer was lost.                      *)
EventsApart ==
    /\ \A f \in Senders : ToSet(fs[f].batch) \intersect ToSet(buffer) = {}
    /\ \A f, g \in Senders :
          f # g => ToSet(fs[f].batch) \intersect ToSet(fs[g].batch) = {}
    /\ ~hist.unheard => endpoint.once \intersect (ToSet(buffer) \union InFlight) = {}

(* The buffer exceeds a batch by no more than the fibers that have emitted *)
(* and not flushed yet.                                                    *)
Waiting == {f \in Fibers : fs[f].pc \in {"emitted", "flush"}}

BufferIsBounded == Len(buffer) < batchSize + Cardinality(Waiting)

Tracking ==
    /\ NothingVanishes /\ SentOnce /\ BatchesAreBounded /\ AnsweredMeansFlushed
    /\ CallOK /\ EventsApart /\ BufferIsBounded

-----------------------------------------------------------------------------
(* An endpoint that fails again and again does not keep a call from being  *)
(* answered, nor a fiber from going on (Effect.retry, catchAll).           *)
SendingEnds ==
    /\ \A f \in Fibers : fs[f].pc = "sending" ~> fs[f].pc = "ready"
    /\ call = "flushing" ~> call = "answered"

=============================================================================
