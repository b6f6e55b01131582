------------------------ MODULE EventTracker_proofs ------------------------
(***************************************************************************)
(* The safety of the tracker for any finite set of fibers, any batch size  *)
(* and any number of retries.                                              *)
(***************************************************************************)
EXTENDS EventTracker, FiniteSetTheorems, SequenceTheorems, TLAPS

(* What the set of the members of a sequence is. *)
LEMMA NoMembers == ToSet(<<>>) = {}
  BY DEF ToSet

LEMMA OneMoreMember ==
  ASSUME NEW S, NEW s \in Seq(S), NEW e \in S
  PROVE  ToSet(Append(s, e)) = ToSet(s) \union {e}
<1>1. /\ DOMAIN s = 1 .. Len(s) /\ Len(s) \in Nat
      /\ DOMAIN Append(s, e) = 1 .. (Len(s) + 1)
      /\ \A i \in 1 .. Len(s) : Append(s, e)[i] = s[i]
      /\ Append(s, e)[Len(s) + 1] = e
  BY AppendProperties, LenProperties
<1>2. 1 .. (Len(s) + 1) = (1 .. Len(s)) \union {Len(s) + 1}
  BY <1>1
<1> QED BY <1>1, <1>2, Zenon DEF ToSet

LEMMA MembersOf ==
  ASSUME NEW S, NEW s \in Seq(S)
  PROVE  ToSet(s) \in SUBSET S
  BY DEF ToSet

(* The values every variable takes: TypeOK is inductive together with       *)
(* CallOK, since the call's own fiber flushes only once.                   *)
LEMMA TypeInit == Init => TypeOK
  BY Configured DEF Init, TypeOK, Ready, Events, Senders

LEMMA TypeStep == TypeOK /\ CallOK /\ [Next]_vars => TypeOK'
<1> SUFFICES ASSUME TypeOK, CallOK, [Next]_vars PROVE TypeOK'
  OBVIOUS
<1> USE Configured DEF TypeOK, Events, Senders
<1>1. ASSUME NEW f \in Fibers, emit(f) PROVE TypeOK'
  <2>1. issued + 1 \in 1 .. MaxEvents /\ issued' = issued + 1
    BY <1>1 DEF emit
  <2>2. buffer' \in Seq(1 .. MaxEvents)
    <3>1. buffer' = Append(buffer, issued + 1)
      BY <1>1 DEF emit
    <3>2. issued + 1 \in 1 .. MaxEvents /\ buffer \in Seq(1 .. MaxEvents)
      BY <2>1
    <3>3. Append(buffer, issued + 1) \in Seq(1 .. MaxEvents)
      BY <3>2, AppendProperties, Zenon
    <3> QED BY <3>1, <3>3
  <2>3. fs' \in [Senders -> [pc : {"ready", "emitted", "flush", "sending"},
                            batch : Seq(1 .. MaxEvents), attempt : 0 .. maxAttempts]]
    <3>1. fs' = [fs EXCEPT ![f].pc = "emitted"]
      BY <1>1 DEF emit
    <3>2. fs[f] \in [pc : {"ready", "emitted", "flush", "sending"},
                     batch : Seq(1 .. MaxEvents), attempt : 0 .. maxAttempts]
      OBVIOUS
    <3>3. [fs[f] EXCEPT !.pc = "emitted"]
            \in [pc : {"ready", "emitted", "flush", "sending"},
                batch : Seq(1 .. MaxEvents), attempt : 0 .. maxAttempts]
      BY <3>2
    <3> QED BY <3>1, <3>3
  <2>4. \A g \in Senders : fs'[g].pc = "sending" <=> fs'[g].batch # <<>>
    BY <1>1 DEF emit
  <2>5. UNCHANGED <<call, endpoint, hist>>
    BY <1>1 DEF emit
  <2> QED BY <2>1, <2>2, <2>3, <2>4, <2>5, SMTT(30)
<1>2. ASSUME NEW f \in Senders, Check(f) PROVE TypeOK'
  BY <1>2, SMTT(30) DEF Check, Full
<1>3. ASSUME NEW f \in Senders, flush(f) PROVE TypeOK'
  <2>1. fs'[f] = [fs[f] EXCEPT !.batch = buffer,
                     !.pc = IF buffer = <<>> THEN "ready" ELSE "sending"]
    BY <1>3 DEF flush
  <2>2. \A g \in Senders \ {f} : fs'[g] = fs[g]
    BY <1>3 DEF flush
  <2>3. fs' \in [Senders -> [pc : {"ready", "emitted", "flush", "sending"},
                            batch : Seq(1 .. MaxEvents), attempt : 0 .. maxAttempts]]
    BY <1>3 DEF flush
  <2> QED BY <1>3, <2>1, <2>2, <2>3, SMTT(30) DEF flush
<1>4. ASSUME NEW f \in Senders, Send(f) PROVE TypeOK'
  <2>1. ToSet(fs[f].batch) \in SUBSET (1 .. MaxEvents)
    BY MembersOf
  <2>2. Received(fs[f].batch) \in [once : SUBSET (1 .. MaxEvents), again : SUBSET (1 .. MaxEvents)]
    BY <2>1 DEF Received
  <2>3. CASE SendSucceeds(f)
    BY <2>2, <2>3 DEF SendSucceeds, Ready
  <2>4. ASSUME NEW arrived \in BOOLEAN, SendRetried(f, arrived) PROVE TypeOK'
    <3>1. endpoint' \in [once : SUBSET (1 .. MaxEvents), again : SUBSET (1 .. MaxEvents)]
      BY <2>2, <2>4 DEF SendRetried
    <3>2. (fs[f].attempt + 1) % (maxAttempts + 1) \in 0 .. maxAttempts
      OBVIOUS
    <3>3. fs' \in [Senders -> [pc : {"ready", "emitted", "flush", "sending"},
                            batch : Seq(1 .. MaxEvents), attempt : 0 .. maxAttempts]]
      BY <2>4, <3>2, ZenonT(40) DEF SendRetried, Retried
    <3>4. \A g \in Senders : fs'[g].pc = fs[g].pc /\ fs'[g].batch = fs[g].batch
      BY <2>4 DEF SendRetried, Retried
    <3>5. hist' \in [dropped : SUBSET (1 .. MaxEvents), unheard : BOOLEAN]
      BY <2>4 DEF SendRetried
    <3> QED BY <2>4, <3>1, <3>3, <3>4, <3>5 DEF SendRetried
  <2>5. ASSUME NEW arrived \in BOOLEAN, SendDropped(f, arrived) PROVE TypeOK'
    <3>1. endpoint' \in [once : SUBSET (1 .. MaxEvents), again : SUBSET (1 .. MaxEvents)]
      BY <2>2, <2>5 DEF SendDropped
    <3>2. hist' \in [dropped : SUBSET (1 .. MaxEvents), unheard : BOOLEAN]
      <4>1. hist'.dropped \in SUBSET (1 .. MaxEvents)
        BY <2>1, <2>5 DEF SendDropped
      <4>2. hist'.unheard \in BOOLEAN
        BY <2>5 DEF SendDropped
      <4> QED BY <2>5, <4>1, <4>2 DEF SendDropped
    <3> QED BY <2>5, <3>1, <3>2 DEF SendDropped, Ready
  <2> QED BY <1>4, <2>3, <2>4, <2>5 DEF Send
<1>5. CASE HandlerSucceeds
  BY <1>5 DEF HandlerSucceeds, CallOK
<1>6. CASE Answer
  BY <1>6 DEF Answer
<1>7. CASE HandlerFails
  <2>1. /\ ToSet(buffer) \in SUBSET (1 .. MaxEvents)
        /\ \A f \in Senders : ToSet(fs[f].batch) \in SUBSET (1 .. MaxEvents)
    BY MembersOf
  <2>2. /\ UNION {ToSet(fs[f].batch) : f \in Fibers \union {Main}} \in SUBSET (1 .. MaxEvents)
        /\ hist.dropped \in SUBSET (1 .. MaxEvents)
    BY <2>1
  <2>3. hist' \in [dropped : SUBSET (1 .. MaxEvents), unheard : BOOLEAN]
    BY <1>7, <2>1, <2>2 DEF HandlerFails
  <2>4. fs' \in [Senders -> [pc : {"ready", "emitted", "flush", "sending"},
                            batch : Seq(1 .. MaxEvents), attempt : 0 .. maxAttempts]]
    BY <1>7 DEF HandlerFails, Ready
  <2>5. \A f \in Senders : fs'[f].pc = "sending" <=> fs'[f].batch # <<>>
    BY <1>7 DEF HandlerFails, Ready
  <2>6. buffer' \in Seq(1 .. MaxEvents) /\ call' = "failed" /\ UNCHANGED <<endpoint, issued>>
    BY <1>7 DEF HandlerFails
  <2> QED BY <2>3, <2>4, <2>5, <2>6
<1>8. CASE UNCHANGED vars
  BY <1>8 DEF vars
<1> QED BY <1>1, <1>2, <1>3, <1>4, <1>5, <1>6, <1>7, <1>8 DEF Next, Deliver

LEMMA CallInit == Init => CallOK
  BY Configured DEF Init, CallOK, Ready, Senders

LEMMA CallStep == TypeOK /\ CallOK /\ [Next]_vars => CallOK'
<1> SUFFICES ASSUME TypeOK, CallOK, [Next]_vars PROVE CallOK'
  OBVIOUS
<1> USE Configured DEF TypeOK, CallOK, Senders
<1>1. ASSUME NEW f \in Fibers, emit(f) PROVE CallOK'
  BY <1>1 DEF emit
<1>2. ASSUME NEW f \in Senders, Check(f) PROVE CallOK'
  BY <1>2 DEF Check
<1>3. ASSUME NEW f \in Senders, flush(f) PROVE CallOK'
  <2>1. fs'[f] = [fs[f] EXCEPT !.batch = buffer,
                     !.pc = IF buffer = <<>> THEN "ready" ELSE "sending"]
    BY <1>3 DEF flush
  <2>2. \A g \in Senders \ {f} : fs'[g] = fs[g]
    BY <1>3 DEF flush
  <2> QED BY <1>3, <2>1, <2>2 DEF flush
<1>4. ASSUME NEW f \in Senders, Send(f) PROVE CallOK'
  <2>1. UNCHANGED <<buffer, call>> /\ fs[f].pc = "sending"
    BY <1>4 DEF Send, SendSucceeds, SendRetried, SendDropped
  <2>2. fs'[f].pc \in {"ready", "sending"}
    BY <1>4 DEF Send, SendSucceeds, SendRetried, SendDropped, Retried, Ready
  <2>3. \A g \in Senders \ {f} : fs'[g] = fs[g]
    BY <1>4 DEF Send, SendSucceeds, SendRetried, SendDropped, Retried
  <2> QED BY <2>1, <2>2, <2>3
<1>5. CASE HandlerSucceeds
  BY <1>5 DEF HandlerSucceeds
<1>6. CASE Answer
  BY <1>6 DEF Answer
<1>7. CASE HandlerFails
  BY <1>7 DEF HandlerFails, Ready
<1>8. CASE UNCHANGED vars
  BY <1>8 DEF vars
<1> QED BY <1>1, <1>2, <1>3, <1>4, <1>5, <1>6, <1>7, <1>8 DEF Next, Deliver

THEOREM TypeCorrect == Spec => [](TypeOK /\ CallOK)
  BY TypeInit, TypeStep, CallInit, CallStep, PTL DEF Spec

(* The events in flight change only with the batches.                      *)
LEMMA SameInFlight ==
  ASSUME \A f \in Senders : fs'[f].batch = fs[f].batch
  PROVE  InFlight' = InFlight
  BY DEF InFlight

(* What a step of one fiber does to the batches: nothing to the others'.   *)
LEMMA OneBatch ==
  ASSUME NEW f \in Senders, TypeOK, NEW b, fs'[f].batch = b,
         \A g \in Senders \ {f} : fs'[g] = fs[g]
  PROVE  /\ InFlight \subseteq InFlight' \union ToSet(fs[f].batch)
         /\ InFlight' \subseteq InFlight \union ToSet(b)
         /\ ToSet(b) \subseteq InFlight'
<1>1. \A g \in Senders \ {f} : ToSet(fs'[g].batch) = ToSet(fs[g].batch)
  OBVIOUS
<1> QED BY <1>1 DEF InFlight

LEMMA EmitAdds ==
  ASSUME TypeOK, NEW f \in Fibers, emit(f)
  PROVE  ToSet(buffer)' = ToSet(buffer) \union {issued + 1}
<1>1. issued + 1 \in Events /\ buffer \in Seq(Events)
  BY Configured DEF emit, TypeOK, Events, Configured
<1>2. buffer' = Append(buffer, issued + 1)
  BY DEF emit
<1> QED BY <1>1, <1>2, OneMoreMember

(* A fiber that does not send has no batch. *)
LEMMA NoBatch ==
  ASSUME TypeOK, NEW f \in Senders, fs[f].pc # "sending"
  PROVE  fs[f].batch = <<>> /\ ToSet(fs[f].batch) = {}
  BY NoMembers DEF TypeOK

(* What sending a batch comes to, with or without success. *)
SendEffect(f) ==
  /\ fs[f].pc = "sending"
  /\ UNCHANGED <<buffer, call, issued>>
  /\ \A g \in Senders \ {f} : fs'[g] = fs[g]
  /\ \/ fs'[f].batch = <<>> /\ fs'[f].pc = "ready"
     \/ fs'[f].batch = fs[f].batch /\ fs'[f].pc = fs[f].pc
  /\ endpoint' = endpoint \/ endpoint' = Received(fs[f].batch)
  /\ hist.dropped \subseteq hist'.dropped
  /\ fs'[f].batch = <<>> =>
        endpoint' = Received(fs[f].batch)
          \/ ToSet(fs[f].batch) \subseteq hist'.dropped
  /\ hist'.dropped \subseteq hist.dropped \union ToSet(fs[f].batch)
  /\ ~hist'.unheard => /\ ~hist.unheard
                       /\ endpoint' = endpoint \/ fs'[f].batch = <<>>

LEMMA SendHasEffect ==
  ASSUME TypeOK, NEW f \in Senders, Send(f)
  PROVE  SendEffect(f)
<1> USE DEF TypeOK, SendEffect
<1>1. CASE SendSucceeds(f)
  BY <1>1 DEF SendSucceeds, Ready
<1>2. ASSUME NEW arrived \in BOOLEAN, SendRetried(f, arrived)
      PROVE  SendEffect(f)
  BY <1>2 DEF SendRetried, Retried
<1>3. ASSUME NEW arrived \in BOOLEAN, SendDropped(f, arrived)
      PROVE  SendEffect(f)
  BY <1>3 DEF SendDropped, Ready
<1> QED BY <1>1, <1>2, <1>3 DEF Send

-----------------------------------------------------------------------------
(* No event vanishes: what leaves the buffer is in a batch, and what       *)
(* leaves a batch was received or dropped.                                 *)
LEMMA VanishInit == Init => NothingVanishes
  BY Configured, NoMembers DEF Init, Ready, NothingVanishes, Emitted, InFlight

LEMMA VanishStep ==
  TypeOK /\ CallOK /\ NothingVanishes /\ [Next]_vars => NothingVanishes'
<1> SUFFICES ASSUME TypeOK, CallOK, NothingVanishes, [Next]_vars
             PROVE  NothingVanishes'
  OBVIOUS
<1> USE DEF NothingVanishes
<1>1. ASSUME NEW f \in Fibers, emit(f) PROVE NothingVanishes'
  <2>1. ToSet(buffer)' = ToSet(buffer) \union {issued + 1}
    BY <1>1, EmitAdds
  <2>2. Emitted' = Emitted \union {issued + 1}
    BY <1>1 DEF emit, Emitted, TypeOK
  <2>3. InFlight' = InFlight
    BY <1>1, SameInFlight DEF emit, TypeOK
  <2> QED BY <1>1, <2>1, <2>2, <2>3 DEF emit
<1>2. ASSUME NEW f \in Senders, Check(f) PROVE NothingVanishes'
  <2>1. InFlight' = InFlight
    BY <1>2, SameInFlight DEF Check, TypeOK
  <2> QED BY <1>2, <2>1 DEF Check, Emitted
<1>3. ASSUME NEW f \in Senders, flush(f) PROVE NothingVanishes'
  <2>1. fs'[f].batch = buffer /\ \A g \in Senders \ {f} : fs'[g] = fs[g]
    BY <1>3 DEF flush, TypeOK
  <2>2. ToSet(fs[f].batch) = {}
    BY <1>3, NoBatch DEF flush
  <2>3. InFlight' = InFlight \union ToSet(buffer)
    BY <2>1, <2>2, OneBatch
  <2>4. ToSet(buffer)' = {}
    BY <1>3, NoMembers DEF flush
  <2> QED BY <1>3, <2>3, <2>4 DEF flush, Emitted
<1>4. ASSUME NEW f \in Senders, Send(f) PROVE NothingVanishes'
  <2>1. SendEffect(f)
    BY <1>4, SendHasEffect
  <2>2. CASE fs'[f].batch = <<>>
    <3>1. /\ InFlight \subseteq InFlight' \union ToSet(fs[f].batch)
          /\ InFlight' \subseteq InFlight
          /\ ToSet(fs[f].batch) \subseteq InFlight
      BY <2>1, <2>2, OneBatch, NoMembers DEF SendEffect, InFlight
    <3> QED BY <2>1, <2>2, <3>1 DEF SendEffect, Emitted, Received
  <2>3. CASE fs'[f].batch = fs[f].batch
    <3>1. InFlight' = InFlight /\ ToSet(fs[f].batch) \subseteq InFlight
      BY <2>1, <2>3, SameInFlight DEF SendEffect, InFlight
    <3> QED BY <2>1, <2>3, <3>1 DEF SendEffect, Emitted, Received
  <2> QED BY <2>1, <2>2, <2>3 DEF SendEffect
<1>5. CASE HandlerSucceeds
  <2>1. InFlight' = InFlight
    BY <1>5, SameInFlight DEF HandlerSucceeds, TypeOK
  <2> QED BY <1>5, <2>1 DEF HandlerSucceeds, Emitted
<1>6. CASE Answer
  BY <1>6 DEF Answer, Emitted, InFlight
<1>7. CASE HandlerFails
  <2>1. \A f \in Senders : fs'[f].batch = <<>>
    BY <1>7 DEF HandlerFails, Ready
  <2>2. InFlight' = {} /\ ToSet(buffer)' = {}
    BY <1>7, <2>1, NoMembers DEF HandlerFails, InFlight
  <2>3. hist'.dropped = hist.dropped \union ToSet(buffer) \union InFlight
    BY <1>7 DEF HandlerFails, InFlight, TypeOK
  <2>4. UNCHANGED <<endpoint, issued>>
    BY <1>7 DEF HandlerFails
  <2> QED BY <2>2, <2>3, <2>4 DEF Emitted
<1>8. CASE UNCHANGED vars
  BY <1>8 DEF vars, Emitted, InFlight
<1> QED BY <1>1, <1>2, <1>3, <1>4, <1>5, <1>6, <1>7, <1>8 DEF Next, Deliver

-----------------------------------------------------------------------------
(* Events are kept apart: nothing that waits or is sent has been received, *)
(* unless an answer was lost, so nothing is received again.                *)
Apart == EventsApart /\ SentOnce

LEMMA ApartInit == Init => Apart
  BY Configured, NoMembers DEF Init, Ready, Apart, EventsApart, SentOnce, InFlight

LEMMA ApartStep ==
  TypeOK /\ NothingVanishes /\ Apart /\ [Next]_vars => Apart'
<1> SUFFICES ASSUME TypeOK, NothingVanishes, Apart, [Next]_vars
             PROVE  Apart'
  OBVIOUS
<1> USE DEF Apart, EventsApart, SentOnce
<1>0. ASSUME \A f \in Senders : fs'[f].batch = fs[f].batch,
             UNCHANGED <<buffer, endpoint, hist>>
      PROVE  Apart'
  BY <1>0, SameInFlight
<1>1. ASSUME NEW f \in Fibers, emit(f) PROVE Apart'
  <2>1. ToSet(buffer)' = ToSet(buffer) \union {issued + 1}
    BY <1>1, EmitAdds
  <2>2. issued + 1 \notin InFlight \union endpoint.once
    BY DEF NothingVanishes, Emitted, TypeOK
  <2>3. InFlight' = InFlight /\ \A g \in Senders : fs'[g].batch = fs[g].batch
    BY <1>1, SameInFlight DEF emit, TypeOK
  <2>4. \A g \in Senders : issued + 1 \notin ToSet(fs[g].batch)
    BY <2>2 DEF InFlight
  <2> QED BY <1>1, <2>1, <2>2, <2>3, <2>4 DEF emit
<1>2. ASSUME NEW f \in Senders, Check(f) PROVE Apart'
  BY <1>0, <1>2 DEF Check, TypeOK
<1>3. ASSUME NEW f \in Senders, flush(f) PROVE Apart'
  <2>1. fs'[f].batch = buffer /\ \A g \in Senders \ {f} : fs'[g] = fs[g]
    BY <1>3 DEF flush, TypeOK
  <2>2. ToSet(fs[f].batch) = {}
    BY <1>3, NoBatch DEF flush
  <2>3. InFlight' = InFlight \union ToSet(buffer)
    BY <2>1, <2>2, OneBatch
  <2>4. ToSet(buffer)' = {} /\ UNCHANGED <<endpoint, hist>>
    BY <1>3, NoMembers DEF flush
  <2>5. /\ ToSet(fs'[f].batch) = ToSet(buffer)
        /\ \A g \in Senders \ {f} : ToSet(fs'[g].batch) = ToSet(fs[g].batch)
    BY <2>1
  <2> QED BY <2>3, <2>4, <2>5
<1>4. ASSUME NEW f \in Senders, Send(f) PROVE Apart'
  <2>1. SendEffect(f)
    BY <1>4, SendHasEffect
  <2>2. UNCHANGED buffer /\ \A g \in Senders \ {f} : fs'[g] = fs[g]
    BY <2>1 DEF SendEffect
  <2>3. CASE fs'[f].batch = fs[f].batch
    <3>1. \A g \in Senders : fs'[g].batch = fs[g].batch
      BY <2>2, <2>3
    <3>2. fs[f].batch # <<>>
      BY <2>1 DEF SendEffect, TypeOK
    <3>3. ~hist'.unheard => ~hist.unheard /\ endpoint' = endpoint
      BY <2>1, <2>3, <3>2 DEF SendEffect
    <3>4. InFlight' = InFlight
      BY <3>1, SameInFlight
    <3> QED BY <2>2, <3>1, <3>3, <3>4
  <2>4. CASE fs'[f].batch = <<>>
    <3>1. ToSet(fs'[f].batch) = {}
      BY <2>4, NoMembers
    <3>2. \A g \in Senders \ {f} : ToSet(fs'[g].batch) = ToSet(fs[g].batch)
      BY <2>2
    <3>3. InFlight' \subseteq InFlight
      BY <3>1, <3>2 DEF InFlight
    <3>4. InFlight' \intersect ToSet(fs[f].batch) = {}
      BY <3>1, <3>2 DEF InFlight
    <3>5. ToSet(fs[f].batch) \subseteq InFlight
      BY DEF InFlight
    <3>6. /\ \A g \in Senders : ToSet(fs'[g].batch) \intersect ToSet(buffer') = {}
          /\ \A g, h \in Senders :
                g # h => ToSet(fs'[g].batch) \intersect ToSet(fs'[h].batch) = {}
      BY <2>2, <3>1, <3>2
    <3>7. ~hist'.unheard =>
             /\ endpoint'.once \intersect (ToSet(buffer') \union InFlight') = {}
             /\ endpoint'.again = {}
      BY <2>1, <2>2, <3>3, <3>4, <3>5 DEF SendEffect, Received, TypeOK
    <3> QED BY <3>6, <3>7
  <2> QED BY <2>1, <2>3, <2>4 DEF SendEffect
<1>5. CASE HandlerSucceeds
  <2>1. \A g \in Senders : fs'[g].batch = fs[g].batch
    BY <1>5 DEF HandlerSucceeds, TypeOK
  <2> QED BY <1>0, <1>5, <2>1 DEF HandlerSucceeds
<1>6. CASE Answer
  BY <1>0, <1>6 DEF Answer
<1>7. CASE HandlerFails
  <2>1. \A f \in Senders : fs'[f].batch = <<>> /\ ToSet(fs'[f].batch) = {}
    BY <1>7, NoMembers DEF HandlerFails, Ready
  <2>2. InFlight' = {} /\ ToSet(buffer)' = {}
    BY <1>7, <2>1, NoMembers DEF HandlerFails, InFlight
  <2>3. endpoint' = endpoint /\ hist'.unheard = hist.unheard
    BY <1>7 DEF HandlerFails, TypeOK
  <2> QED BY <2>1, <2>2, <2>3
<1>8. CASE UNCHANGED vars
  BY <1>0, <1>8 DEF vars
<1> QED BY <1>1, <1>2, <1>3, <1>4, <1>5, <1>6, <1>7, <1>8 DEF Next, Deliver

-----------------------------------------------------------------------------
(* The buffer exceeds a batch by less than the fibers about to flush it,   *)
(* and a batch is what was in the buffer.                                  *)
Bounded == BufferIsBounded /\ BatchesAreBounded

LEMMA WaitingIsFinite ==
  /\ IsFiniteSet(Waiting) /\ Cardinality(Waiting) \in Nat
  /\ Cardinality(Fibers) \in Nat /\ Cardinality(Waiting) <= Cardinality(Fibers)
<1>1. Waiting \subseteq Fibers
  BY DEF Waiting
<1> QED BY <1>1, Configured, FS_Subset, FS_CardinalityType DEF Configured

LEMMA BoundInit == Init => Bounded
<1> SUFFICES ASSUME Init PROVE Bounded
  OBVIOUS
<1>1. Len(buffer) = 0 /\ \A f \in Senders : Len(fs[f].batch) = 0
  BY DEF Init, Ready
<1> QED BY <1>1, Configured, WaitingIsFinite
        DEF Bounded, BufferIsBounded, BatchesAreBounded

LEMMA BoundStep ==
  TypeOK /\ CallOK /\ Bounded /\ [Next]_vars => Bounded'
<1> SUFFICES ASSUME TypeOK, CallOK, Bounded, [Next]_vars
             PROVE  Bounded'
  OBVIOUS
<1> USE Configured, WaitingIsFinite DEF Bounded, BufferIsBounded, BatchesAreBounded
<1>n. /\ Cardinality(Waiting') \in Nat /\ Cardinality(Waiting)' = Cardinality(Waiting')
      /\ Len(buffer) \in Nat
  <2>1. Waiting' \subseteq Fibers
    BY DEF Waiting
  <2> QED BY <2>1, FS_Subset, FS_CardinalityType DEF Configured, TypeOK
<1>0. ASSUME \A f \in Senders : fs'[f].batch = fs[f].batch,
             Waiting' = Waiting, buffer' = buffer
      PROVE  Bounded'
  BY <1>0
<1>1. ASSUME NEW f \in Fibers, emit(f) PROVE Bounded'
  <2>1. Waiting' = Waiting \union {f} /\ f \notin Waiting
    BY <1>1 DEF emit, Waiting, TypeOK, Senders
  <2>2. Cardinality(Waiting') = Cardinality(Waiting) + 1
    BY <2>1, FS_AddElement
  <2>3. Len(buffer') = Len(buffer) + 1
    BY <1>1, AppendProperties DEF emit, TypeOK
  <2>4. \A g \in Senders : fs'[g].batch = fs[g].batch
    BY <1>1 DEF emit, TypeOK
  <2> QED BY <1>n, <2>2, <2>3, <2>4
<1>2. ASSUME NEW f \in Senders, Check(f) PROVE Bounded'
  <2>1. buffer' = buffer /\ \A g \in Senders : fs'[g].batch = fs[g].batch
    BY <1>2 DEF Check, TypeOK
  <2>2. CASE Full
    BY <1>0, <1>2, <2>1, <2>2 DEF Check, Waiting, TypeOK, Senders
  <2>3. CASE ~Full
    BY <1>n, <2>1, <2>3 DEF Full, Configured
  <2> QED BY <2>2, <2>3
<1>3. ASSUME NEW f \in Senders, flush(f) PROVE Bounded'
  <2>1. fs'[f].batch = buffer /\ \A g \in Senders \ {f} : fs'[g] = fs[g]
    BY <1>3 DEF flush, TypeOK
  <2>2. Len(buffer') = 0
    BY <1>3 DEF flush
  <2>3. Len(buffer) < batchSize + Cardinality(Fibers)
    BY <1>n DEF Configured
  <2> QED BY <1>n, <2>1, <2>2, <2>3 DEF Configured
<1>4. ASSUME NEW f \in Senders, Send(f) PROVE Bounded'
  <2>1. SendEffect(f)
    BY <1>4, SendHasEffect
  <2>2. Waiting' = Waiting /\ buffer' = buffer
    BY <2>1 DEF SendEffect, Waiting, Senders
  <2>3. \A g \in Senders : Len(fs'[g].batch) < batchSize + Cardinality(Fibers)
    <3>1. \A g \in Senders \ {f} : fs'[g].batch = fs[g].batch
      BY <2>1 DEF SendEffect
    <3>2. Len(fs'[f].batch) < batchSize + Cardinality(Fibers)
      BY <2>1 DEF SendEffect, Configured
    <3> QED BY <3>1, <3>2
  <2> QED BY <2>2, <2>3
<1>5. CASE HandlerSucceeds
  BY <1>0, <1>5 DEF HandlerSucceeds, Waiting, TypeOK, Senders, Configured
<1>6. CASE Answer
  BY <1>0, <1>6 DEF Answer, Waiting
<1>7. CASE HandlerFails
  <2>1. Len(buffer') = 0 /\ \A f \in Senders : Len(fs'[f].batch) = 0
    BY <1>7 DEF HandlerFails, Ready
  <2> QED BY <1>n, <2>1 DEF Configured
<1>8. CASE UNCHANGED vars
  BY <1>0, <1>8 DEF vars, Waiting
<1> QED BY <1>1, <1>2, <1>3, <1>4, <1>5, <1>6, <1>7, <1>8 DEF Next, Deliver

-----------------------------------------------------------------------------
(* The call is answered only after its own fiber has flushed what was      *)
(* left: this needs no induction of its own.                               *)
LEMMA AnsweredFlushed == TypeOK /\ CallOK => AnsweredMeansFlushed
<1> SUFFICES ASSUME TypeOK, CallOK, call = "answered"
             PROVE  buffer = <<>> /\ InFlight = {}
  BY DEF AnsweredMeansFlushed
<1>1. \A f \in Senders : fs[f].pc = "ready"
  BY DEF CallOK, Senders
<1>2. \A f \in Senders : ToSet(fs[f].batch) = {}
  BY <1>1, NoBatch
<1> QED BY <1>1, <1>2 DEF CallOK, InFlight, Senders

(* Everything the tracker promises a call, at every moment.                *)
THEOREM Tracked == Spec => []Tracking
<1>1. Init => TypeOK /\ CallOK /\ NothingVanishes /\ Apart /\ Bounded
  BY TypeInit, CallInit, VanishInit, ApartInit, BoundInit
<1>2. TypeOK /\ CallOK /\ NothingVanishes /\ Apart /\ Bounded /\ [Next]_vars
        => (TypeOK /\ CallOK /\ NothingVanishes /\ Apart /\ Bounded)'
  BY TypeStep, CallStep, VanishStep, ApartStep, BoundStep
<1>3. TypeOK /\ CallOK /\ NothingVanishes /\ Apart /\ Bounded => Tracking
  BY AnsweredFlushed DEF Tracking, Apart, Bounded
<1> QED BY <1>1, <1>2, <1>3, PTL DEF Spec

(* Every event of the call waits, is being sent, has arrived or was given  *)
(* up: none falls between emit's push and flush's splice.                  *)
THEOREM NoneVanishes == Spec => []NothingVanishes
<1>1. Tracking => NothingVanishes
  BY DEF Tracking
<1> QED BY <1>1, Tracked, PTL

(* Fibers that flush side by side do not send an event twice; a retry does *)
(* only when an answer was lost.                                           *)
THEOREM NoneIsSentTwice == Spec => []SentOnce
<1>1. Tracking => SentOnce
  BY DEF Tracking
<1> QED BY <1>1, Tracked, PTL

(* A batch exceeds batchSize by less than the number of fibers.            *)
THEOREM BatchesStaySmall == Spec => []BatchesAreBounded
<1>1. Tracking => BatchesAreBounded
  BY DEF Tracking
<1> QED BY <1>1, Tracked, PTL

(* No call is answered before its final flush has ended.                   *)
THEOREM AnswersFollowTheFlush == Spec => []AnsweredMeansFlushed
<1>1. Tracking => AnsweredMeansFlushed
  BY DEF Tracking
<1> QED BY <1>1, Tracked, PTL

=============================================================================
