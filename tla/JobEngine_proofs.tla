-------------------------- MODULE JobEngine_proofs --------------------------
(***************************************************************************)
(* The safety of a job instance, for any requests, definitions and bounds. *)
(***************************************************************************)
EXTENDS JobProperties, SequenceTheorems, TLAPS

(* Handlers and definitions.                                               *)
LEMMA HandlerKinds ==
    /\ "alarm" \in Handlers /\ Requests \subseteq Handlers
    /\ \A h \in Handlers : h # "alarm" <=> h \in Requests
BY AlarmIsNoRequest DEF AlarmIsNoRequest, Handlers

LEMMA DefinitionIs ==
    ASSUME def \in Definitions
    PROVE  /\ def.type \in {"continuous", "debounce", "task", "workerPool"}
           /\ def.retry.maxAttempts \in Nat /\ def.retry.maxDuration \in Nat
           /\ def.interval \in Nat /\ def.maxEvents \in Nat
           /\ def.type = "task" => def.retry.maxAttempts = 0
           /\ Continuous <=> def.type = "continuous"
           /\ Debounce <=> def.type = "debounce"
           /\ Task <=> def.type = "task"
<1>1. def \in JobDefinition
  BY DefinitionsAreMade DEF DefinitionsAreMade
<1>2. NoRetry.maxAttempts = 0 /\ NoRetry.maxDuration = 99 /\ NoRetry \in RetryConfig
  BY DEF NoRetry, RetryConfig, Unlimited
<1>3. /\ def.type \in {"continuous", "debounce", "task", "workerPool"}
      /\ def.retry \in RetryConfig /\ def.interval \in Nat /\ def.maxEvents \in Nat
      /\ def.type = "task" => def.retry = NoRetry
  BY <1>1 DEF JobDefinition, ContinuousDefinition, DebounceDefinition,
              TaskDefinition, WorkerPoolDefinition, Fields
<1>4. def.retry.maxAttempts \in Nat /\ def.retry.maxDuration \in Nat
  BY <1>3 DEF RetryConfig
<1>5. /\ Continuous <=> def.type = "continuous"
      /\ Debounce <=> def.type = "debounce"
      /\ Task <=> def.type = "task"
  BY DEF Continuous, Debounce, Task, registry, createTypedJobRegistry
<1> QED
  BY <1>2, <1>3, <1>4, <1>5

-----------------------------------------------------------------------------
(* Lists of writes. *)

LEMMA WriteIs ==
    ASSUME NEW k, NEW v
    PROVE  /\ Put(k, v) = <<[key |-> k, val |-> v, soft |-> FALSE]>>
           /\ Len(Put(k, v)) = 1 /\ DOMAIN Put(k, v) = {1} /\ Put(k, v) # <<>>
           /\ Put(k, v)[1].key = k /\ Put(k, v)[1].val = v
BY DEF Put

LEMMA WriteIsHard ==
    ASSUME NEW k, NEW v
    PROVE  Put(k, v)[1].soft = FALSE
BY DEF Put

LEMMA PutIn ==
    ASSUME NEW S, NEW k, NEW v, [key |-> k, val |-> v, soft |-> FALSE] \in S
    PROVE  Put(k, v) \in Seq(S)
BY DEF Put

(* A list's members, its first one and the others.                         *)
LEMMA Members ==
    ASSUME NEW S, NEW s \in Seq(S)
    PROVE  /\ Len(s) \in Nat /\ DOMAIN s = 1 .. Len(s)
           /\ \A i \in DOMAIN s : s[i] \in S
           /\ s # <<>> => /\ 1 \in DOMAIN s /\ Head(s) = s[1] /\ Tail(s) \in Seq(S)
                          /\ Len(Tail(s)) = Len(s) - 1
                          /\ \A i \in DOMAIN Tail(s) : /\ i + 1 \in DOMAIN s
                                                       /\ Tail(s)[i] = s[i + 1]
           /\ s = <<>> <=> DOMAIN s = {}
<1>1. Len(s) \in Nat /\ DOMAIN s = 1 .. Len(s) /\ \A i \in DOMAIN s : s[i] \in S
  BY LenProperties
<1>2. s # <<>> => /\ 1 \in DOMAIN s /\ Head(s) = s[1] /\ Tail(s) \in Seq(S)
                  /\ Len(Tail(s)) = Len(s) - 1
                  /\ DOMAIN Tail(s) = 1 .. Len(Tail(s))
                  /\ \A i \in 1 .. Len(Tail(s)) : Tail(s)[i] = s[i + 1]
  BY <1>1, HeadTailProperties, EmptySeq, LenProperties
<1>3. s = <<>> <=> DOMAIN s = {}
  BY <1>1, EmptySeq
<1> QED
  BY <1>1, <1>2, <1>3

LEMMA Joined ==
    ASSUME NEW S, NEW s \in Seq(S), NEW t \in Seq(S)
    PROVE  /\ s \o t \in Seq(S) /\ Len(s \o t) = Len(s) + Len(t)
           /\ \A i \in DOMAIN s : i \in DOMAIN (s \o t) /\ (s \o t)[i] = s[i]
           /\ \A i \in DOMAIN t : /\ i + Len(s) \in DOMAIN (s \o t)
                                  /\ (s \o t)[i + Len(s)] = t[i]
           /\ \A i \in DOMAIN (s \o t) :
                 \/ i \in DOMAIN s /\ (s \o t)[i] = s[i]
                 \/ i - Len(s) \in DOMAIN t /\ (s \o t)[i] = t[i - Len(s)]
<1>1. /\ s \o t \in Seq(S) /\ Len(s \o t) = Len(s) + Len(t)
      /\ \A i \in 1 .. Len(s) + Len(t) : 
            (s \o t)[i] = IF i <= Len(s) THEN s[i] ELSE t[i - Len(s)]
  BY ConcatProperties
<1>2. /\ DOMAIN s = 1 .. Len(s) /\ DOMAIN t = 1 .. Len(t) /\ Len(s) \in Nat
      /\ Len(t) \in Nat /\ DOMAIN (s \o t) = 1 .. Len(s \o t)
  BY <1>1, LenProperties
<1> QED
  BY <1>1, <1>2


(* u is s and then t. *)
Join(s, t, u) ==
    /\ \A i \in DOMAIN s : i \in DOMAIN u /\ u[i] = s[i]
    /\ \A i \in DOMAIN t : i + Len(s) \in DOMAIN u /\ u[i + Len(s)] = t[i]
    /\ \A i \in DOMAIN u : \/ i \in DOMAIN s /\ u[i] = s[i]
                          \/ /\ i - Len(s) \in DOMAIN t
                             /\ u[i] = t[i - Len(s)]

LEMMA JoinedIs ==
    ASSUME NEW S, NEW s \in Seq(S), NEW t \in Seq(S)
    PROVE  s \o t \in Seq(S) /\ Len(s \o t) = Len(s) + Len(t) /\ Join(s, t, s \o t)
BY Joined DEF Join

-----------------------------------------------------------------------------
(* The lists of writes a handler leaves behind it, by what is in them.     *)

(* Writes that decide nothing about what is there of the job.              *)
Note ==
    {w \in Writes : /\ w.soft => w.val = Absent
                    /\ \/ w.key \in {"attempt", "age", "other", "event"}
                       \/ w.key = "count" /\ w.val # 0}

Setting == {w \in Writes : w.key = "alarm" /\ w.val # Absent /\ ~w.soft}

Saving(v) == {w \in Writes : w.key = "state" /\ w.val = v /\ ~w.soft}

(* The end of the job, behind some notes. *)
Ending(ws) ==
    /\ ws \in Seq(Writes) /\ Len(ws) >= 2
    /\ ws[Len(ws)].key = "all" /\ ws[Len(ws)].val = Absent
    /\ ws[Len(ws) - 1].key = "alarm" /\ ws[Len(ws) - 1].val = Absent
    /\ ws[Len(ws) - 1].soft = ws[Len(ws)].soft
    /\ \A i \in DOMAIN ws : i < Len(ws) - 1 => ws[i] \in Note

LEMMA Pair ==
    ASSUME NEW S, NEW s \in Seq(S), NEW t \in Seq(S), Len(s) = 1, Len(t) = 1
    PROVE  /\ s \o t \in Seq(S) /\ Len(s \o t) = 2 /\ DOMAIN (s \o t) = 1 .. 2
           /\ (s \o t)[1] = s[1] /\ (s \o t)[2] = t[1]
<1>1. /\ s \o t \in Seq(S) /\ Len(s \o t) = Len(s) + Len(t)
      /\ \A i \in 1 .. Len(s) + Len(t) : 
            (s \o t)[i] = IF i <= Len(s) THEN s[i] ELSE t[i - Len(s)]
  BY ConcatProperties
<1>2. DOMAIN (s \o t) = 1 .. 2 /\ Len(s \o t) = 2
  BY <1>1, LenProperties
<1>3. 1 \in 1 .. Len(s) + Len(t) /\ 2 \in 1 .. Len(s) + Len(t)
  OBVIOUS
<1>4. /\ (s \o t)[1] = IF 1 <= Len(s) THEN s[1] ELSE t[1 - Len(s)]
      /\ (s \o t)[2] = IF 2 <= Len(s) THEN s[2] ELSE t[2 - Len(s)]
  BY <1>1, <1>3
<1> QED
  BY <1>1, <1>2, <1>4

LEMMA WriteKinds ==
    ASSUME def \in Definitions
    PROVE  /\ [key |-> "meta", val |-> "initializing", soft |-> FALSE] \in Writes
           /\ [key |-> "status", val |-> "running", soft |-> FALSE] \in Writes
           /\ \A v \in SUBSET Ids :
                 [key |-> "state", val |-> v, soft |-> FALSE] \in Saving(v)
           /\ \A n \in 0 .. MaxCount :
                 [key |-> "count", val |-> n, soft |-> FALSE] \in Writes
           /\ \A n \in 1 .. MaxCount :
                 [key |-> "count", val |-> n, soft |-> FALSE] \in Note
           /\ \A n \in 2 .. def.retry.maxAttempts :
                 [key |-> "attempt", val |-> n, soft |-> FALSE] \in Note
           /\ \A b \in BOOLEAN :
                 /\ [key |-> "attempt", val |-> Absent, soft |-> b] \in Note
                 /\ [key |-> "age", val |-> Absent, soft |-> b] \in Note
                 /\ [key |-> "alarm", val |-> Absent, soft |-> b] \in Writes
                 /\ [key |-> "all", val |-> Absent, soft |-> b] \in Writes
           /\ [key |-> "age", val |-> 0, soft |-> FALSE] \in Note
           /\ \A v \in {Absent, TRUE} :
                 [key |-> "scheduledAt", val |-> v, soft |-> FALSE] \in Writes
           /\ [key |-> "other", val |-> TRUE, soft |-> FALSE] \in Note
           /\ \A n \in Nat : [key |-> "alarm", val |-> n, soft |-> FALSE] \in Setting
           /\ \A e \in JobEvent :
                 [key |-> "event", val |-> e, soft |-> FALSE] \in Note
<1>1. \A k, v, b : [key |-> k, val |-> v, soft |-> b].key = k
                   /\ [key |-> k, val |-> v, soft |-> b].val = v
                   /\ [key |-> k, val |-> v, soft |-> b].soft = b
  OBVIOUS
<1>2. /\ \A v \in SUBSET Ids : [key |-> "state", val |-> v, soft |-> FALSE] \in Writes
      /\ \A n \in 0 .. MaxCount : [key |-> "count", val |-> n, soft |-> FALSE] \in Writes
      /\ \A n \in Maybe(2 .. def.retry.maxAttempts) : \A b \in BOOLEAN :
            [key |-> "attempt", val |-> n, soft |-> b] \in Writes
      /\ \A n \in {Absent, 0} : \A b \in BOOLEAN :
            [key |-> "age", val |-> n, soft |-> b] \in Writes
  BY DEF Writes
<1>3. /\ [key |-> "meta", val |-> "initializing", soft |-> FALSE] \in Writes
      /\ [key |-> "status", val |-> "running", soft |-> FALSE] \in Writes
      /\ \A v \in {Absent, TRUE} :
            [key |-> "scheduledAt", val |-> v, soft |-> FALSE] \in Writes
      /\ [key |-> "other", val |-> TRUE, soft |-> FALSE] \in Writes
  BY DEF Writes
<1>4. /\ \A n \in Maybe(Nat) : \A b \in BOOLEAN :
            [key |-> "alarm", val |-> n, soft |-> b] \in Writes
      /\ \A e \in JobEvent : [key |-> "event", val |-> e, soft |-> FALSE] \in Writes
      /\ \A b \in BOOLEAN : [key |-> "all", val |-> Absent, soft |-> b] \in Writes
  BY DEF Writes
<1>5. Absent \notin Nat
  BY AbsentIsNoValue DEF AbsentIsNoValue
<1>6. \A n \in 1 .. MaxCount : n \in 0 .. MaxCount /\ n # 0
  BY BoundsAreNumbers DEF BoundsAreNumbers
<1> QED
  BY <1>1, <1>2, <1>3, <1>4, <1>5, <1>6, Zenon DEF Note, Setting, Saving, Maybe

LEMMA NoteLists ==
    ASSUME DataOK
    PROVE  /\ reset \in Seq(Note) /\ Soften(reset) \in Seq(Note)
           /\ \A e \in JobEvent : emitEvent(e) \in Seq(Note)
           /\ Put("age", 0) \in Seq(Note) /\ Put("other", TRUE) \in Seq(Note)
           /\ \A n \in 0 .. MaxCount : Put("count", Increment(n)) \in Seq(Note)
           /\ \A n \in 2 .. def.retry.maxAttempts : Put("attempt", n) \in Seq(Note)
           /\ incrementRunCount \in Seq(Note) /\ incrementExecuteCount \in Seq(Note)
           /\ <<>> \in Seq(Note)
           /\ \A n \in 0 .. MaxCount : Increment(n) \in 1 .. MaxCount
           /\ Count \in 0 .. MaxCount
<1>1. def \in Definitions
  BY DEF DataOK
<1>2. Delete("attempt") \in Seq(Note) /\ Delete("age") \in Seq(Note)
  BY <1>1, WriteKinds, PutIn DEF Delete
<1>3. reset \in Seq(Note)
  BY <1>2, ConcatProperties DEF reset
<1>4. Soften(reset) \in Seq(Note)
  <2>1. Len(reset) = 2 /\ DOMAIN reset = 1 .. 2 
        /\ reset[1] = Delete("attempt")[1] /\ reset[2] = Delete("age")[1]
    BY <1>2, Pair, WriteIs DEF reset, Delete
  <2>2. /\ reset[1].key = "attempt" /\ reset[1].val = Absent
        /\ reset[2].key = "age" /\ reset[2].val = Absent
    BY <2>1, WriteIs DEF Delete
  <2>3. \A i \in 1 .. 2 :
           [key |-> reset[i].key, val |-> reset[i].val, soft |-> TRUE] \in Note
    <3>1. \A i \in 1 .. 2 : i = 1 \/ i = 2
      OBVIOUS
    <3> QED
      BY <1>1, <2>2, <3>1, WriteKinds
  <2> QED
    BY <2>1, <2>3, SeqDef DEF Soften
<1>5. \A e \in JobEvent : emitEvent(e) \in Seq(Note)
  <2> SUFFICES ASSUME NEW e \in JobEvent PROVE emitEvent(e) \in Seq(Note)
    OBVIOUS
  <2>1. Put("event", e) \in Seq(Note)
    BY <1>1, WriteKinds, PutIn
  <2> QED
    BY <2>1 DEF emitEvent
<1>6. Put("age", 0) \in Seq(Note) /\ Put("other", TRUE) \in Seq(Note)
  BY <1>1, WriteKinds, PutIn
<1>7. \A n \in 0 .. MaxCount : Increment(n) \in 1 .. MaxCount
  BY BoundsAreNumbers DEF BoundsAreNumbers, Increment
<1>8. Count \in 0 .. MaxCount
  BY BoundsAreNumbers DEF BoundsAreNumbers, Count, DataOK, StoreState
<1>9. \A n \in 0 .. MaxCount : Put("count", Increment(n)) \in Seq(Note)
  BY <1>1, <1>7, WriteKinds, PutIn
<1>10. \A n \in 2 .. def.retry.maxAttempts : Put("attempt", n) \in Seq(Note)
  BY <1>1, WriteKinds, PutIn
<1>11. <<>> \in Seq(Note)
  BY EmptySeq
<1> QED
  BY <1>3, <1>4, <1>5, <1>6, <1>7, <1>8, <1>9, <1>10, <1>11
  DEF incrementRunCount, incrementExecuteCount

LEMMA Ends ==
    ASSUME DataOK, NEW s \in Seq(Note)
    PROVE  Ending(s \o purge) /\ Ending(s \o Soften(purge))
<1>1. def \in Definitions
  BY DEF DataOK
<1>2. /\ Len(purge) = 2 /\ DOMAIN purge = 1 .. 2 /\ purge \in Seq(Writes)
      /\ purge[1].key = "alarm" /\ purge[1].val = Absent /\ purge[1].soft = FALSE
      /\ purge[2].key = "all" /\ purge[2].val = Absent /\ purge[2].soft = FALSE
  <2>1. cancel \in Seq(Writes) /\ deleteAll \in Seq(Writes)
    BY <1>1, WriteKinds, PutIn DEF cancel, deleteAll
  <2>2. /\ Len(purge) = 2 /\ DOMAIN purge = 1 .. 2 /\ purge \in Seq(Writes)
        /\ purge[1] = cancel[1] /\ purge[2] = deleteAll[1]
    BY <2>1, Pair, WriteIs DEF purge, cancel, deleteAll
  <2> QED
    <3>1. cancel[1].soft = FALSE /\ deleteAll[1].soft = FALSE
      BY WriteIsHard DEF cancel, deleteAll
    <3>2. /\ cancel[1].key = "alarm" /\ cancel[1].val = Absent
          /\ deleteAll[1].key = "all" /\ deleteAll[1].val = Absent
      BY WriteIs DEF cancel, deleteAll
    <3> QED
      BY <2>2, <3>1, <3>2
<1>3. /\ Soften(purge) \in Seq(Writes) /\ Len(Soften(purge)) = 2
      /\ Soften(purge)[1] = [key |-> "alarm", val |-> Absent, soft |-> TRUE]
      /\ Soften(purge)[2] = [key |-> "all", val |-> Absent, soft |-> TRUE]
  <2>1. \A i \in 1 .. 2 :
           [key |-> purge[i].key, val |-> purge[i].val, soft |-> TRUE] \in Writes
    <3>1. \A i \in 1 .. 2 : i = 1 \/ i = 2
      OBVIOUS
    <3> QED
      BY <1>1, <1>2, <3>1, WriteKinds
  <2>2. Soften(purge)
          = [i \in 1 .. 2 |-> [key |-> purge[i].key, val |-> purge[i].val, soft |-> TRUE]]
    BY <1>2 DEF Soften
  <2>3. Soften(purge) \in Seq(Writes)
    BY <2>1, <2>2, SeqDef
  <2>4. Len(Soften(purge)) = 2
    BY <2>2, <2>3, LenProperties
  <2> QED
    <3>1. 1 \in 1 .. 2 /\ 2 \in 1 .. 2
      OBVIOUS
    <3>2. /\ Soften(purge)[1] = [key |-> purge[1].key, val |-> purge[1].val, soft |-> TRUE]
          /\ Soften(purge)[2] = [key |-> purge[2].key, val |-> purge[2].val, soft |-> TRUE]
      BY <2>2, <3>1
    <3> QED
      BY <1>2, <2>3, <2>4, <3>2
<1>4. s \in Seq(Writes)
  <2>1. Note \subseteq Writes
    BY DEF Note
  <2> QED
    BY <2>1, SeqDef
<1>5. \A t \in Seq(Writes) :
         /\ Len(t) = 2
         /\ t[1].key = "alarm" /\ t[1].val = Absent /\ t[2].key = "all"
         /\ t[2].val = Absent /\ t[1].soft = t[2].soft
         => Ending(s \o t)
  <2> SUFFICES ASSUME NEW t \in Seq(Writes), Len(t) = 2,
                      t[1].key = "alarm", t[1].val = Absent, t[2].key = "all",
                      t[2].val = Absent, t[1].soft = t[2].soft
               PROVE  Ending(s \o t)
    OBVIOUS
  <2>0. /\ s \o t \in Seq(Writes) /\ Len(s \o t) = Len(s) + Len(t)
        /\ \A i \in 1 .. Len(s) + Len(t) :
              (s \o t)[i] = IF i <= Len(s) THEN s[i] ELSE t[i - Len(s)]
    BY <1>4, ConcatProperties
  <2>1. /\ s \o t \in Seq(Writes) /\ Len(s \o t) = Len(s) + 2
        /\ \A i \in 1 .. Len(s) + 2 :
              (s \o t)[i] = IF i <= Len(s) THEN s[i] ELSE t[i - Len(s)]
    BY <2>0
  <2>4. /\ Len(s) \in Nat /\ \A i \in 1 .. Len(s) : s[i] \in Note
        /\ DOMAIN (s \o t) = 1 .. Len(s) + 2
    BY <2>1, LenProperties
  <2>2. (s \o t)[Len(s) + 1] = t[1] /\ (s \o t)[Len(s) + 2] = t[2]
    BY <2>1, <2>4
  <2>3. \A i \in DOMAIN (s \o t) : i < Len(s \o t) - 1 => (s \o t)[i] \in Note
    BY <2>1, <2>4
  <2>5. Len(s \o t) - 1 = Len(s) + 1
    BY <2>1, <2>4
  <2> QED
    BY <2>1, <2>2, <2>3, <2>4, <2>5 DEF Ending
<1>6. /\ purge[1].key = "alarm" /\ purge[1].val = Absent /\ purge[2].key = "all"
      /\ purge[2].val = Absent /\ purge[1].soft = purge[2].soft
  BY <1>2
<1>7. /\ Soften(purge)[1].key = "alarm" /\ Soften(purge)[1].val = Absent
      /\ Soften(purge)[2].key = "all" /\ Soften(purge)[2].val = Absent
      /\ Soften(purge)[1].soft = Soften(purge)[2].soft
  BY <1>3
<1>8. Ending(s \o purge)
  BY <1>2, <1>5, <1>6
<1>9. Ending(s \o Soften(purge))
  BY <1>3, <1>5, <1>7
<1> QED
  BY <1>8, <1>9

-----------------------------------------------------------------------------
(* What a step does.  The actions are sorted by what they do to the job;   *)
(* the invariants below are argued from this only.                         *)

(* The handler h moves on from p to q: nothing is written, and no other    *)
(* handler moves.                                                          *)
Moves(h, p, q) ==
    /\ h \in Handlers /\ hs[h].todo = <<>> /\ Turn(h)
    /\ hs[h].pc = p /\ hs'[h].pc = q
    /\ hs'[h].created = hs[h].created /\ hs'[h].shared = hs[h].shared
    /\ hs'[h].op = hs[h].op /\ hs'[h].found = hs[h].found
    /\ hs' \in [Handlers -> HandlerState]
    /\ \A g \in Handlers : g # h => hs'[g] = hs[g]
    /\ def' = def /\ store' = store /\ alarm' = alarm
    /\ budget' \in [calls : Nat, failures : Nat, faults : Nat]
    /\ budget'.faults = budget.faults /\ budget'.failures >= budget.failures

Unhistoric == hist' = hist

Discards(ids) ==
    /\ hist'.settled = hist.settled \union ids /\ hist' \in History
    /\ hist'.issued = hist.issued /\ hist'.kept = hist.kept
    /\ hist'.repeated = hist.repeated /\ hist'.raced = hist.raced
    /\ hist'.half = hist.half

Issues ==
    /\ NewId \in 0 .. MaxIds
    /\ NewId # 0 => NewId = hist.issued + 1
    /\ hist'.issued = (IF NewId = 0 THEN hist.issued ELSE NewId)
    /\ hist' \in History
    /\ hist'.settled = hist.settled /\ hist'.kept = hist.kept
    /\ hist'.repeated = hist.repeated /\ hist'.raced = hist.raced
    /\ hist'.half = hist.half

Rest(h) ==
    /\ hs'[h].id = hs[h].id /\ hs'[h].seen = hs[h].seen
    /\ hs'[h].result = hs[h].result

Over(h, r) == hs'[h].result = r /\ hs'[h].seen = Absent /\ hs'[h].plan = "none"

(* The state is among the writes ws, with what has the id n. *)
TakesIn(ws, v, n) ==
    /\ ws \in Seq(Note \union Saving(v))
    /\ n = 0 => ws \in Seq(Note)
    /\ n # 0 => \E i \in DOMAIN ws : ws[i].key = "state"

(* Each alarm is recorded at once. *)
Recorded(ws) ==
    \A i \in DOMAIN ws :
       /\ ws[i].key = "alarm" =>
             /\ i + 1 \in DOMAIN ws /\ ws[i + 1].key = "scheduledAt"
             /\ ~ws[i].soft
             /\ ws[i].val = Absent <=> ws[i + 1].val = Absent
       /\ ws[i].key = "scheduledAt" => i - 1 \in DOMAIN ws /\ ws[i - 1].key = "alarm"

Timing ==
    Note \union {w \in Writes : w.key \in {"alarm", "scheduledAt"} /\ ~w.soft}

Settled(ws, v, n) ==
    /\ Recorded(ws) /\ ws \in Seq(Timing \union Saving(v))
    /\ n = 0 => ws \in Seq(Timing)
    /\ n # 0 => \E i \in DOMAIN ws : ws[i].key = "state"

Cancelling(ws) ==
    /\ \A i \in DOMAIN ws : /\ ws[i].key # "event"
                            /\ ws[i].key = "alarm" => ws[i].val = Absent
    /\ \E i \in DOMAIN ws : ws[i].key = "alarm" /\ ws[i].val = Absent /\ ~ws[i].soft

FirstRuns(h) ==
    /\ Moves(h, "started", hs'[h].pc) /\ Rest(h) /\ Unhistoric
    /\ \/ hs'[h].pc = "execute" /\ hs'[h].todo \in Seq(Note)
       \/ hs'[h].pc = "return" /\ hs'[h].todo \in Seq(Setting) /\ Sets(h)'

Loads(h) ==
    /\ Moves(h, "execute", "run") /\ Unhistoric
    /\ store.state # Absent \/ def.type = "task"
    /\ hs'[h].id = hs[h].id /\ hs'[h].seen = store.state /\ hs'[h].attempt >= 1
    /\ hs'[h].result = hs[h].result /\ hs'[h].todo \in Seq(Note)

Misses(h) ==
    /\ Moves(h, "execute", "result") /\ Over(h, "terminated") /\ Unhistoric
    /\ store.state = Absent /\ def.type # "task"
    /\ hs'[h].id = hs[h].id /\ hs'[h].todo = <<>>

GivesUp(h) ==
    /\ Moves(h, hs[h].pc, "result") /\ Over(h, "terminated")
    /\ hs'[h].id = hs[h].id /\ Ending(hs'[h].todo)
    /\ \/ hs[h].pc = "execute" /\ Discards(Contents)
       \/ hs[h].pc = "run" /\ def.type # "task" /\ Discards(Seen(h))
       \/ /\ hs[h].pc \in {"run", "idling"} /\ def.type # "debounce"
          /\ Discards(Seen(h) \union ({hs[h].id} \ {0}))

RunEnds(h) ==
    /\ Moves(h, "run", "result") /\ Over(h, "success") /\ Issues
    /\ def.type = "continuous" /\ hs'[h].id = NewId
    /\ TakesIn(hs'[h].todo, Seen(h) \union {NewId}, NewId)

FlushEnds(h) ==
    /\ Moves(h, "run", "result") /\ Over(h, "success")
    /\ def.type = "debounce" /\ hs'[h].id = hs[h].id
    /\ hs'[h].todo \in Seq(Note)
    /\ hist' \in History
    /\ hist'.issued = hist.issued /\ hist'.kept = hist.kept
    /\ hist'.raced = hist.raced /\ hist'.half = hist.half
    /\ hist'.settled = hist.settled \union Seen(h)
    /\ hist'.repeated => \/ hist.repeated
                         \/ ~hs[h].shared /\ Seen(h) \intersect hist.settled # {}

(* The attempt to come is among the writes ws, and no other. *)
Counting(ws) ==
    /\ \E i \in DOMAIN ws : ws[i].key = "attempt"
    /\ \A i \in DOMAIN ws : ws[i].key = "attempt" => ws[i].val # Absent

WillRetry(h) ==
    /\ Moves(h, "run", "result") /\ Over(h, "retryScheduled") /\ Unhistoric
    /\ def.type # "task" /\ hs'[h].id = hs[h].id
    /\ hs'[h].todo \in Seq(Note \union Setting) /\ Sets(h)' /\ Counting(hs'[h].todo)

RunIsLost(h) ==
    /\ Moves(h, "run", "fail") /\ Rest(h) /\ Unhistoric
    /\ hs'[h].todo \in Seq(Note) /\ budget'.failures = budget.failures + 1

SchedulesNext(h) ==
    /\ Moves(h, "result", "return") /\ Rest(h) /\ Unhistoric
    /\ def.type = "continuous" /\ hs[h].result = "success"
    /\ hs'[h].todo \in Seq(Note \union Setting) /\ Sets(h)'

FlushPurges(h) ==
    /\ Moves(h, "result", "return") /\ Rest(h) /\ Unhistoric
    /\ def.type = "debounce" /\ hs[h].result = "success" /\ Ending(hs'[h].todo)

Concludes(h) ==
    /\ Moves(h, "result", "return") /\ Rest(h) /\ Unhistoric
    /\ hs'[h].todo = <<>>
    /\ \/ hs[h].result # "success" \/ def.type = "task"
       \/ def.type = "continuous" /\ h = "alarm" /\ store.meta # "running"

Reduces(h) ==
    /\ Moves(h, "reduce", hs'[h].pc) /\ hs'[h].pc \in {"execute", "return"} /\ Issues
    /\ hs'[h].result = hs[h].result
    /\ hs'[h].id = NewId /\ hs'[h].seen = Absent
    /\ LET v == Seen(h) \union ({NewId} \ {0})
           ws == hs'[h].todo
       IN  /\ ws \in Seq(Note \union Saving(v) \union Setting)
           /\ \E i \in DOMAIN ws : ws[i].key = "state"
           /\ \E i \in DOMAIN ws : ws[i].key = "count" /\ ws[i].val # 0
           /\ \A i, j \in DOMAIN ws : ws[i].key = "alarm" /\ j > i => ws[j].key # "state"
           /\ hs[h].created => Sets(h)'

FunctionReturns(h) ==
    /\ Moves(h, "run", "settle") /\ Issues
    /\ def.type = "task" /\ hs'[h].id = NewId /\ hs'[h].seen = hs[h].seen
    /\ hs'[h].result = hs[h].result
    /\ hs'[h].todo \in Seq(Timing) /\ Recorded(hs'[h].todo)
    /\ hs'[h].plan = "cancel" => Cancelling(hs'[h].todo)

GoesIdle(h) ==
    /\ Moves(h, "settle", "idling") /\ Rest(h) /\ Unhistoric
    /\ Unscheduled(h) /\ hs'[h].todo = <<>> /\ hs'[h].plan = hs[h].plan

TaskSettles(h) ==
    /\ Moves(h, hs[h].pc, "result") /\ Over(h, "success") /\ Unhistoric
    /\ hs[h].pc \in {"settle", "idling"} /\ hs'[h].id = hs[h].id
    /\ Settled(hs'[h].todo, Seen(h) \union {hs[h].id}, hs[h].id)

(* A handler begins: the others go on, now shared. *)
Begins(h) ==
    /\ h \in Handlers /\ hs[h] = Idle /\ Turn(h)
    /\ hs' \in [Handlers -> HandlerState]
    /\ \A g \in Handlers : g # h =>
          /\ hs'[g].pc = hs[g].pc /\ hs'[g].todo = hs[g].todo
          /\ hs'[g].seen = hs[g].seen /\ hs'[g].id = hs[g].id
          /\ hs'[g].result = hs[g].result /\ hs'[g].plan = hs[g].plan
          /\ hs'[g].attempt = hs[g].attempt /\ hs'[g].created = hs[g].created
          /\ hs'[g].op = hs[g].op /\ hs'[g].found = hs[g].found
          /\ hs[g].shared \/ Active(g) => hs'[g].shared
          /\ ~Active(g) => hs'[g] = hs[g]
    /\ Others(h) # {} => hs'[h].shared
    /\ hs'[h].id = 0 /\ hs'[h].result = "none" /\ hs'[h].plan = "none"
    /\ def' = def /\ store' = store
    /\ budget' \in [calls : Nat, failures : Nat, faults : Nat]
    /\ budget'.faults = budget.faults /\ budget'.failures = budget.failures
    /\ \/ h \in Requests /\ alarm' = alarm
       \/ h = "alarm" /\ alarm = 0 /\ alarm' = Absent

AnswersOnly(h) ==
    /\ Begins(h) /\ Unhistoric /\ h \in Requests /\ def.type # "workerPool"
    /\ hs'[h].pc = "return" /\ hs'[h].todo = <<>>
    /\ ~hs'[h].created /\ hs'[h].seen = Absent

Refuses(h) ==
    /\ Begins(h) /\ Unhistoric /\ h \in Requests /\ def.type = "workerPool"
    /\ hs'[h].pc = "fail" /\ hs'[h].todo = <<>>
    /\ ~hs'[h].created /\ hs'[h].seen = Absent

CreatesNew(h) ==
    /\ Begins(h) /\ Unhistoric /\ h \in Requests
    /\ store.meta = Absent /\ hs'[h].created
    /\ hs'[h].seen \in {Absent, store.state}
    /\ LET ws == hs'[h].todo
       IN  /\ ws \in Seq(Writes) /\ ws # <<>> /\ ws[1].key = "meta"
           /\ \A i \in DOMAIN ws :
                 /\ ws[i].soft => ws[i].val = Absent
                 /\ ws[i].key = "meta" => i = 1
                 /\ ws[i].key \notin {"all", "alarm", "scheduledAt"}
                 /\ ws[i].key = "state" => ws[i].val = {}
    /\ \/ /\ def.type = "continuous" /\ hs'[h].pc = "started"
          /\ Pending(h, "state")' /\ Pending(h, "status")'
       \/ /\ def.type = "debounce" /\ hs'[h].pc \in {"reduce", "fail"}
          /\ hs'[h].seen = store.state
       \/ def.type = "task" /\ hs'[h].pc \in {"execute", "fail"}

WorksOn(h) ==
    /\ Begins(h) /\ Unhistoric
    /\ store.meta # Absent /\ ~hs'[h].created
    /\ hs'[h].todo \in Seq(Note)
    /\ \/ hs'[h].pc = "execute" /\ hs'[h].seen = Absent /\ def.type # "workerPool"
       \/ /\ h \in Requests /\ hs'[h].pc = "fail" /\ hs'[h].seen \in {Absent, store.state}
          /\ def.type # "workerPool"
       \/ /\ h \in Requests /\ hs'[h].pc = "reduce" /\ hs'[h].seen = store.state
          /\ def.type = "debounce"

Purges(h) ==
    /\ Begins(h) /\ def.type # "workerPool"
    /\ store.meta # Absent /\ ~hs'[h].created /\ hs'[h].seen = Absent
    /\ hs'[h].pc = "return" /\ Ending(hs'[h].todo)
    /\ \/ Discards(Contents)
       \/ Unhistoric /\ def.type = "debounce" /\ Count = 0

AlarmIsLost ==
    /\ hs' = hs /\ hist' = hist /\ def' = def /\ store' = store /\ budget' = budget
    /\ store.meta = Absent /\ alarm' = Absent /\ Turn("alarm") /\ ~Active("alarm")

(* The first n writes of h are made, or skipped. *)
Drops(h, n) ==
    /\ h \in Handlers /\ Turn(h) /\ n \in 1 .. Len(hs[h].todo)
    /\ hs' \in [Handlers -> HandlerState]
    /\ \A g \in Handlers : g # h => hs'[g] = hs[g]
    /\ hs'[h].pc = hs[h].pc /\ hs'[h].seen = hs[h].seen /\ hs'[h].id = hs[h].id
    /\ hs'[h].result = hs[h].result /\ hs'[h].plan = hs[h].plan
    /\ hs'[h].attempt = hs[h].attempt
    /\ hs'[h].created = hs[h].created /\ hs'[h].shared = hs[h].shared
    /\ hs'[h].op = hs[h].op /\ hs'[h].found = hs[h].found
    /\ LET ws == hs[h].todo
           rest == hs'[h].todo
       IN  /\ Len(rest) = Len(ws) - n
           /\ rest # <<>> => Head(rest) = ws[n + 1]
           /\ \A i \in DOMAIN rest : i + n \in DOMAIN ws /\ rest[i] = ws[i + n]
           /\ \A i \in DOMAIN ws :
                 i > n => i - n \in DOMAIN rest /\ rest[i - n] = ws[i]
    /\ def' = def

Performs(h) ==
    /\ Drops(h, 1) /\ budget' = budget
    /\ hist' \in History
    /\ hist'.issued = hist.issued /\ hist'.kept = hist.kept
    /\ hist'.settled = hist.settled /\ hist'.repeated = hist.repeated
    /\ hist'.half = hist.half
    /\ hist.raced => hist'.raced
    /\ hist'.raced /\ ~hist.raced => write(h, 1).key = "all"
    /\ write(h, 1).key = "all" /\ Others(h) # {} => hist'.raced
    /\ store' = Stored(write(h, 1))
    /\ alarm' = IF write(h, 1).key = "alarm" THEN write(h, 1).val ELSE alarm

(* History of a fault. *)
Halves(p) ==
    /\ hist' \in History
    /\ hist'.issued = hist.issued /\ hist'.kept = hist.kept
    /\ hist'.settled = hist.settled /\ hist'.repeated = hist.repeated
    /\ hist'.raced = hist.raced
    /\ hist.half \/ p => hist'.half

Faulty ==
    /\ budget' \in [calls : Nat, failures : Nat, faults : Nat]
    /\ budget'.faults > 0 /\ def' = def /\ store' = store

Skips(h, n) ==
    /\ Drops(h, n) /\ Faulty /\ alarm' = alarm
    /\ SoftUpTo(hs[h].todo, n)
    /\ Halves(\E i \in DOMAIN hs[h].todo : write(h, i).soft /\ write(h, i).key = "all")

(* The handler h ends. *)
Leaves(h) ==
    /\ h \in Handlers /\ Active(h) /\ Turn(h)
    /\ hs' \in [Handlers -> HandlerState] /\ hs'[h] = Idle
    /\ \A g \in Handlers : g # h => hs'[g] = hs[g]
    /\ def' = def /\ store' = store

Returns(h) ==
    /\ Leaves(h) /\ hs[h].pc = "return" /\ hs[h].todo = <<>>
    /\ alarm' = alarm /\ budget' = budget
    /\ hist' \in History
    /\ hist'.kept = IF hs[h].shared \/ hs[h].id = 0 THEN hist.kept
                    ELSE hist.kept \union {hs[h].id}
    /\ hist'.issued = hist.issued /\ hist'.settled = hist.settled
    /\ hist'.repeated = hist.repeated /\ hist'.raced = hist.raced
    /\ hist'.half = hist.half

Fails(h) ==
    /\ Leaves(h) /\ hs[h].pc = "fail" /\ hs[h].todo = <<>>
    /\ alarm' = Redelivered(h) /\ budget' = budget /\ Halves(Halfway(h))

Breaks(h) ==
    /\ Leaves(h) /\ Faulty /\ hs[h].todo # <<>>
    /\ alarm' = Redelivered(h) /\ Halves(Halfway(h))

Crashes ==
    /\ Faulty /\ hs' = [h \in Handlers |-> Idle]
    /\ alarm' = IF Active("alarm") THEN Redelivered("alarm") ELSE alarm
    /\ Halves(\E h \in Handlers : Halfway(h))

Ticks ==
    /\ \A h \in Handlers : Yielding(h)
    /\ hs' = hs /\ hist' = hist /\ def' = def /\ budget' = budget
    /\ store' = [store EXCEPT !.age = store'.age]
    /\ store'.age \in {Absent} \union 0 .. def.retry.maxDuration
    /\ store.age = Absent => store'.age = Absent
    /\ alarm' = Absent \/ alarm' \in Nat
    /\ alarm' = Absent <=> alarm = Absent

-----------------------------------------------------------------------------
(* Every step is of one of these kinds. *)

LEMMA Typed ==
    ASSUME DataOK, HandlersOK, NEW h \in Handlers
    PROVE  /\ hs \in [Handlers -> HandlerState] /\ hs[h] \in HandlerState
           /\ hs[h].todo \in Seq(Writes)
           /\ hs[h].id \in 0 .. MaxIds /\ hs[h].count \in 0 .. MaxCount
           /\ hs[h].attempt \in Nat
           /\ hs[h].seen = Absent \/ hs[h].seen \in SUBSET Ids
           /\ Seen(h) \in SUBSET Ids /\ Contents \in SUBSET Ids
           /\ Attempt \in Nat \ {0}
           /\ NewId \in 0 .. MaxIds
           /\ NewId # 0 => NewId = hist.issued + 1
           /\ def \in Definitions
<1>1. hs \in [Handlers -> HandlerState] /\ hs[h] \in HandlerState
  BY DEF HandlersOK
<1>2. /\ hs[h].todo \in Seq(Writes)
      /\ hs[h].id \in 0 .. MaxIds /\ hs[h].count \in 0 .. MaxCount
      /\ hs[h].attempt \in Nat
      /\ hs[h].seen = Absent \/ hs[h].seen \in SUBSET Ids
  BY <1>1 DEF HandlerState
<1>3. store \in StoreState /\ hist \in History /\ def \in Definitions
  BY DEF DataOK
<1>4. Seen(h) \in SUBSET Ids
  BY <1>2 DEF Seen
<1>5. Contents \in SUBSET Ids
  BY <1>3 DEF Contents, StoreState
<1>6. Attempt \in Nat \ {0}
  <2>1. store.attempt = Absent \/ store.attempt \in 2 .. def.retry.maxAttempts
    BY <1>3 DEF StoreState
  <2>2. def.retry.maxAttempts \in Nat
    BY <1>3, DefinitionIs
  <2> QED
    BY <2>1, <2>2 DEF Attempt
<1>7. /\ NewId \in 0 .. MaxIds
      /\ NewId # 0 => NewId = hist.issued + 1
  BY <1>3, BoundsAreNumbers DEF BoundsAreNumbers, NewId, History
<1> QED
  BY <1>1, <1>2, <1>3, <1>4, <1>5, <1>6, <1>7

(* What a segment leaves. *)
LEMMA SegmentLeaves ==
    ASSUME DataOK, HandlersOK, NEW h \in Handlers, NEW p \in JobPcs,
           NEW ws \in Seq(Writes), hs' = Segment(h, p, ws), hs[h].todo = <<>>, Turn(h),
           def' = def, store' = store, alarm' = alarm,
           budget' \in [calls : Nat, failures : Nat, faults : Nat],
           budget'.faults = budget.faults, budget'.failures >= budget.failures
    PROVE  /\ Moves(h, hs[h].pc, p) /\ Rest(h) /\ hs'[h].todo = ws
           /\ hs'[h].plan = hs[h].plan
<1>1. hs \in [Handlers -> HandlerState] /\ hs[h] \in HandlerState
  BY Typed
<1>2. hs' = [hs EXCEPT ![h] = [hs[h] EXCEPT !.pc = p, !.todo = ws]]
  BY <1>1 DEF Segment
<1>3. [hs[h] EXCEPT !.pc = p, !.todo = ws] \in HandlerState
  BY <1>1 DEF HandlerState
<1>4. hs' \in [Handlers -> HandlerState] /\ hs'[h] = [hs[h] EXCEPT !.pc = p, !.todo = ws]
      /\ \A g \in Handlers : g # h => hs'[g] = hs[g]
  BY <1>1, <1>2, <1>3
<1>5. /\ hs'[h].pc = p /\ hs'[h].todo = ws /\ hs'[h].created = hs[h].created
      /\ hs'[h].shared = hs[h].shared /\ hs'[h].id = hs[h].id
      /\ hs'[h].seen = hs[h].seen /\ hs'[h].result = hs[h].result
      /\ hs'[h].plan = hs[h].plan /\ hs'[h].op = hs[h].op
      /\ hs'[h].found = hs[h].found
  BY <1>1, <1>4 DEF HandlerState
<1> QED
  BY <1>4, <1>5 DEF Moves, Rest

LEMMA ResultLeaves ==
    ASSUME DataOK, HandlersOK, NEW h \in Handlers,
           NEW r \in {"success", "retryScheduled", "terminated"},
           NEW ws \in Seq(Writes), NEW n \in 0 .. MaxIds,
           hs' = [ExecutionResult(h, r, ws) EXCEPT ![h].id = n],
           hs[h].todo = <<>>, Turn(h),
           def' = def, store' = store, alarm' = alarm,
           budget' \in [calls : Nat, failures : Nat, faults : Nat],
           budget'.faults = budget.faults, budget'.failures >= budget.failures
    PROVE  /\ Moves(h, hs[h].pc, "result") /\ Over(h, r) /\ hs'[h].todo = ws
           /\ hs'[h].id = n
<1> DEFINE new == [hs[h] EXCEPT !.pc = "result", !.result = r, !.todo = ws,
                                !.seen = Absent, !.attempt = 0, !.plan = "none",
                                !.id = n]
<1>1. hs \in [Handlers -> HandlerState] /\ hs[h] \in HandlerState
  BY Typed
<1>2. hs' = [hs EXCEPT ![h] = new]
  BY <1>1 DEF ExecutionResult
<1>3. new \in HandlerState
  BY <1>1 DEF HandlerState, JobPcs, Plans
<1>4. hs' \in [Handlers -> HandlerState] /\ hs'[h] = new
      /\ \A g \in Handlers : g # h => hs'[g] = hs[g]
  BY <1>1, <1>2, <1>3
<1>5. /\ hs'[h].pc = "result" /\ hs'[h].todo = ws /\ hs'[h].created = hs[h].created
      /\ hs'[h].shared = hs[h].shared /\ hs'[h].id = n
      /\ hs'[h].op = hs[h].op /\ hs'[h].found = hs[h].found
      /\ hs'[h].seen = Absent /\ hs'[h].result = r /\ hs'[h].plan = "none"
  BY ZenonT(60), <1>1, <1>4 DEF HandlerState
<1> QED
  BY <1>4, <1>5 DEF Moves, Over

LEMMA Subseq ==
    ASSUME NEW S, NEW T, S \subseteq T
    PROVE  Seq(S) \subseteq Seq(T)
BY SeqDef

LEMMA NotesAreWrites ==
    /\ Note \subseteq Writes /\ Setting \subseteq Writes
    /\ \A v : Saving(v) \subseteq Writes
    /\ Seq(Note) \subseteq Seq(Writes) /\ Seq(Setting) \subseteq Seq(Writes)
<1>1. Note \subseteq Writes /\ Setting \subseteq Writes /\ \A v : Saving(v) \subseteq Writes
  BY DEF Note, Setting, Saving
<1> QED
  BY <1>1, Subseq

LEMMA KeptBudget ==
    ASSUME DataOK, Keep
    PROVE  /\ def' = def /\ store' = store /\ alarm' = alarm
           /\ budget' \in [calls : Nat, failures : Nat, faults : Nat]
           /\ budget'.faults = budget.faults /\ budget'.failures >= budget.failures
BY DEF DataOK, Keep

LEMMA SetsOne ==
    ASSUME NEW d \in Nat, DataOK
    PROVE  /\ schedule(d) \in Seq(Setting) /\ 1 \in DOMAIN schedule(d)
           /\ schedule(d)[1].key = "alarm" /\ schedule(d)[1].val # Absent
<1>1. [key |-> "alarm", val |-> d, soft |-> FALSE] \in Setting /\ d # Absent
  BY WriteKinds, AbsentIsNoValue DEF DataOK, AbsentIsNoValue
<1> QED
  BY <1>1, PutIn, WriteIs DEF schedule

LEMMA FirstRunDoes ==
    ASSUME DataOK, HandlersOK, NEW h \in Handlers, FirstRun(h)
    PROVE  FirstRuns(h)
<1> DEFINE p == IF def.startImmediately THEN "execute" ELSE "return"
           ws == IF def.startImmediately THEN incrementRunCount ELSE scheduleNext
<1>1. hs' = Segment(h, p, ws)
  BY DEF FirstRun
<1>2. incrementRunCount \in Seq(Note) /\ scheduleNext \in Seq(Setting)
  BY NoteLists, SetsOne, DefinitionIs DEF scheduleNext, DataOK
<1>3. ws \in Seq(Writes) /\ p \in JobPcs
  BY <1>2, NotesAreWrites DEF JobPcs
<1>4. /\ hs[h].todo = <<>> /\ hs[h].pc = "started" /\ Turn(h) /\ Keep /\ hist' = hist
  BY DEF FirstRun, At
<1> HIDE DEF p, ws
<1>5. Moves(h, hs[h].pc, p) /\ Rest(h) /\ hs'[h].todo = ws
  BY <1>1, <1>3, <1>4, KeptBudget, SegmentLeaves
<1>6. CASE def.startImmediately
  BY <1>2, <1>4, <1>5, <1>6 DEF p, ws, FirstRuns, Moves, Unhistoric
<1>7. CASE ~def.startImmediately
  <2>1. hs'[h].todo = schedule(def.interval) /\ def.interval \in Nat
    BY <1>5, <1>7, DefinitionIs DEF ws, scheduleNext, DataOK
  <2>2. Sets(h)'
    BY <2>1, SetsOne DEF Sets, write
  <2> QED
    BY <1>2, <1>4, <1>5, <1>7, <2>2 DEF p, ws, FirstRuns, Moves, Unhistoric
<1> QED
  BY <1>6, <1>7

LEMMA ExecuteDoes ==
    ASSUME DataOK, HandlersOK, NEW h \in Handlers, Execute(h)
    PROVE  Loads(h)
<1> DEFINE ws == IF Retries /\ Attempt = 1 THEN Put("age", 0) ELSE <<>>
           new == [hs[h] EXCEPT !.pc = "run", !.seen = store.state,
                                !.attempt = Attempt, !.todo = ws]
<1>1. hs \in [Handlers -> HandlerState] /\ hs[h] \in HandlerState /\ Attempt \in Nat \ {0}
  BY Typed
<1>2. hs' = [hs EXCEPT ![h] = new]
  BY <1>1 DEF Execute
<1>3. ws \in Seq(Note) /\ ws \in Seq(Writes)
  BY NoteLists, NotesAreWrites
<1>4. store.state \in {Absent} \union SUBSET Ids
  BY DEF DataOK, StoreState
<1> HIDE DEF ws
<1>5. new \in HandlerState
  BY <1>1, <1>3, <1>4 DEF HandlerState, JobPcs
<1>6. hs' \in [Handlers -> HandlerState] /\ hs'[h] = new
      /\ \A g \in Handlers : g # h => hs'[g] = hs[g]
  BY <1>1, <1>2, <1>5
<1>7. /\ hs'[h].pc = "run" /\ hs'[h].todo = ws /\ hs'[h].created = hs[h].created
      /\ hs'[h].shared = hs[h].shared /\ hs'[h].id = hs[h].id
      /\ hs'[h].seen = store.state /\ hs'[h].attempt = Attempt
      /\ hs'[h].op = hs[h].op /\ hs'[h].found = hs[h].found
      /\ hs'[h].result = hs[h].result
  BY <1>1, <1>6 DEF HandlerState
<1>8. /\ hs[h].todo = <<>> /\ hs[h].pc = "execute" /\ Turn(h) /\ Keep /\ hist' = hist
      /\ store.state # Absent \/ def.type = "task"
  BY DEF Execute, At
<1>9. Moves(h, "execute", "run")
  BY <1>6, <1>7, <1>8, KeptBudget DEF Moves
<1> QED
  BY <1>1, <1>3, <1>7, <1>8, <1>9 DEF Loads, Unhistoric

LEMMA HistoryOf ==
    ASSUME DataOK
    PROVE  /\ \A ids \in SUBSET Ids : hist' = Discard(ids) => Discards(ids)
           /\ hist' = Issue => Issues
<1>1. hist \in History
  BY DEF DataOK
<1>2. ASSUME NEW ids \in SUBSET Ids, hist' = Discard(ids) PROVE Discards(ids)
  BY <1>1, <1>2 DEF Discard, Discards, History
<1>3. ASSUME hist' = Issue PROVE Issues
  <2>1. /\ NewId \in 0 .. MaxIds
        /\ NewId # 0 => NewId = hist.issued + 1
    BY <1>1, BoundsAreNumbers DEF BoundsAreNumbers, NewId, History
  <2> QED
    BY <1>1, <1>3, <2>1 DEF Issue, Issues, History
<1> QED
  BY <1>2, <1>3

LEMMA Events ==
    {"job.started", "job.executed", "job.failed", "job.retryExhausted",
     "job.terminated", "debounce.started", "debounce.flushed", "task.scheduled"}
      \subseteq JobEvent
BY DEF JobEvent

(* The lists of the execution service. *)
LEMMA GivingUp ==
    ASSUME DataOK
    PROVE  /\ Ending(terminate)
           /\ Ending(reset \o emitEvent("job.retryExhausted") \o terminate)
           /\ Ending(purge)
           /\ \A e \in JobEvent : Ending(emitEvent(e) \o purge)
<1>1. /\ reset \in Seq(Note) /\ <<>> \in Seq(Note)
      /\ \A e \in JobEvent : emitEvent(e) \in Seq(Note)
  BY NoteLists
<1>2. reset \o emitEvent("job.retryExhausted") \in Seq(Note)
  BY <1>1, Events, ConcatProperties
<1>3. Ending(<<>> \o purge) /\ Ending(<<>> \o Soften(purge))
  BY <1>1, Ends
<1>4. purge \in Seq(Writes) /\ Soften(purge) \in Seq(Writes)
  <2>1. /\ cancel \in Seq(Writes) /\ deleteAll \in Seq(Writes)
        /\ DOMAIN cancel = {1} /\ DOMAIN deleteAll = {1} 
    BY WriteKinds, PutIn, WriteIs DEF cancel, deleteAll, DataOK
  <2>2. purge \in Seq(Writes)
    BY <2>1, ConcatProperties DEF purge
  <2>3. \A i \in DOMAIN purge : purge[i] \in {cancel[1], deleteAll[1]}
    BY <2>1, Joined, WriteIs DEF purge, cancel, deleteAll
  <2>4. \A i \in DOMAIN purge :
           [key |-> purge[i].key, val |-> purge[i].val, soft |-> TRUE] \in Writes
    <3>1. /\ [key |-> "alarm", val |-> Absent, soft |-> TRUE] \in Writes
          /\ [key |-> "all", val |-> Absent, soft |-> TRUE] \in Writes
      BY WriteKinds DEF DataOK
    <3>2. /\ cancel[1].key = "alarm" /\ cancel[1].val = Absent
          /\ deleteAll[1].key = "all" /\ deleteAll[1].val = Absent
      BY WriteIs DEF cancel, deleteAll
    <3> QED
      BY <2>3, <3>1, <3>2
  <2>5. DOMAIN purge = 1 .. Len(purge) /\ Len(purge) \in Nat
    BY <2>2, LenProperties
  <2> QED
    BY <2>2, <2>4, <2>5, SeqDef DEF Soften
<1>5. Ending(purge) /\ Ending(terminate)
  BY <1>3, <1>4, ConcatEmptySeq DEF terminate
<1>6. \A e \in JobEvent : Ending(emitEvent(e) \o purge)
  BY <1>1, Ends
<1> QED
  BY <1>2, <1>5, <1>6, Ends DEF terminate

LEMMA SucceededTakesIn ==
    ASSUME DataOK, HandlersOK, NEW h \in Handlers, NEW n \in 0 .. MaxIds
    PROVE  TakesIn(Succeeded(h, n), Seen(h) \union {n}, n)
<1> DEFINE head == (IF Retries THEN reset ELSE <<>>) \o emitEvent("job.executed")
           v == Seen(h) \union {n}
<1>1. head \in Seq(Note)
  <2>1. (IF Retries THEN reset ELSE <<>>) \in Seq(Note)
    BY NoteLists
  <2>2. emitEvent("job.executed") \in Seq(Note)
    BY NoteLists, Events
  <2> QED
    BY <2>1, <2>2, ConcatProperties
<1>2. Succeeded(h, n) = head \o Save(h, n)
  BY DEF Succeeded
<1>3. Note \subseteq Note \union Saving(v) /\ Saving(v) \subseteq Note \union Saving(v)
  OBVIOUS
<1>4. head \in Seq(Note \union Saving(v))
  BY <1>1, <1>3, Subseq
<1> HIDE DEF head
<1>5. CASE n = 0
  <2>1. Succeeded(h, n) = head
    BY <1>1, <1>2, <1>5, ConcatEmptySeq DEF Save
  <2> QED
    BY <1>1, <1>4, <1>5, <2>1 DEF TakesIn
<1>6. CASE n # 0
  <2>1. v \in SUBSET Ids
    BY <1>6, Typed, BoundsAreNumbers DEF Ids, BoundsAreNumbers
  <2>2. Save(h, n) = Put("state", v)
    BY <1>6 DEF Save
  <2>3. [key |-> "state", val |-> v, soft |-> FALSE] \in Note \union Saving(v)
    BY <2>1, WriteKinds DEF DataOK
  <2> HIDE DEF v
  <2>4. Save(h, n) \in Seq(Note \union Saving(v))
    BY <2>2, <2>3, PutIn
  <2>5. 1 \in DOMAIN Save(h, n) /\ Save(h, n)[1].key = "state"
    BY <2>2, WriteIs
  <2>6. Succeeded(h, n) \in Seq(Note \union Saving(v))
    BY <1>2, <1>4, <2>4, Joined
  <2>7. /\ 1 + Len(head) \in DOMAIN (head \o Save(h, n))
        /\ (head \o Save(h, n))[1 + Len(head)] = Save(h, n)[1]
    BY <1>4, <2>4, <2>5, Joined
  <2> QED
    BY <1>2, <1>6, <2>5, <2>6, <2>7 DEF TakesIn, v
<1> QED
  BY <1>5, <1>6

LEMMA ResultStays ==
    ASSUME DataOK, HandlersOK, NEW h \in Handlers,
           NEW r \in {"success", "retryScheduled", "terminated"},
           NEW ws \in Seq(Writes), hs' = ExecutionResult(h, r, ws),
           hs[h].todo = <<>>, Turn(h),
           def' = def, store' = store, alarm' = alarm,
           budget' \in [calls : Nat, failures : Nat, faults : Nat],
           budget'.faults = budget.faults, budget'.failures >= budget.failures
    PROVE  /\ Moves(h, hs[h].pc, "result") /\ Over(h, r) /\ hs'[h].todo = ws
           /\ hs'[h].id = hs[h].id
<1> DEFINE new == [hs[h] EXCEPT !.pc = "result", !.result = r, !.todo = ws,
                                !.seen = Absent, !.attempt = 0, !.plan = "none"]
<1>1. hs \in [Handlers -> HandlerState] /\ hs[h] \in HandlerState
  BY Typed
<1>2. hs' = [hs EXCEPT ![h] = new]
  BY <1>1 DEF ExecutionResult
<1>3. new \in HandlerState
  BY <1>1 DEF HandlerState, JobPcs, Plans
<1>4. hs' \in [Handlers -> HandlerState] /\ hs'[h] = new
      /\ \A g \in Handlers : g # h => hs'[g] = hs[g]
  BY <1>1, <1>2, <1>3
<1>5. /\ hs'[h].pc = "result" /\ hs'[h].todo = ws /\ hs'[h].created = hs[h].created
      /\ hs'[h].shared = hs[h].shared /\ hs'[h].id = hs[h].id
      /\ hs'[h].op = hs[h].op /\ hs'[h].found = hs[h].found
      /\ hs'[h].seen = Absent /\ hs'[h].result = r /\ hs'[h].plan = "none"
  BY <1>1, <1>4 DEF HandlerState
<1> QED
  BY <1>4, <1>5 DEF Moves, Over

LEMMA MissesDoes ==
    ASSUME DataOK, HandlersOK, NEW h \in Handlers, ExecuteNothing(h)
    PROVE  Misses(h)
<1> DEFINE r == "terminated"
           ws == <<>>
<1>1. /\ hs[h].todo = <<>> /\ hs[h].pc = "execute" /\ Turn(h) /\ Keep /\ hist' = hist
      /\ store.state = Absent /\ def.type # "task"
      /\ hs' = ExecutionResult(h, r, ws)
  BY DEF ExecuteNothing, At
<1>2. r \in {"success", "retryScheduled", "terminated"} /\ ws \in Seq(Writes)
  BY EmptySeq
<1> HIDE DEF r, ws
<1>3. /\ def' = def /\ store' = store /\ alarm' = alarm
      /\ budget' \in [calls : Nat, failures : Nat, faults : Nat]
      /\ budget'.faults = budget.faults /\ budget'.failures >= budget.failures
  BY <1>1, KeptBudget
<1>4. /\ Moves(h, hs[h].pc, "result") /\ Over(h, r) /\ hs'[h].todo = ws
      /\ hs'[h].id = hs[h].id
  BY <1>1, <1>2, <1>3, ResultStays
<1> QED
  BY <1>1, <1>4 DEF Misses, Unhistoric, r, ws

LEMMA ExecuteTooLateDoes ==
    ASSUME DataOK, HandlersOK, NEW h \in Handlers, ExecuteTooLate(h)
    PROVE  GivesUp(h)
<1> DEFINE r == "terminated"
           ws == reset \o emitEvent("job.retryExhausted") \o terminate
<1>1. /\ hs[h].todo = <<>> /\ hs[h].pc = "execute" /\ Turn(h) /\ Keep
      /\ hist' = Discard(Contents) /\ hs' = ExecutionResult(h, r, ws)
  BY DEF ExecuteTooLate, At, Exhausted
<1>2. /\ r \in {"success", "retryScheduled", "terminated"}
      /\ Ending(ws) /\ ws \in Seq(Writes)
  BY GivingUp DEF Ending
<1> HIDE DEF r, ws
<1>3. /\ def' = def /\ store' = store /\ alarm' = alarm
      /\ budget' \in [calls : Nat, failures : Nat, faults : Nat]
      /\ budget'.faults = budget.faults /\ budget'.failures >= budget.failures
  BY <1>1, KeptBudget
<1>4. /\ Moves(h, hs[h].pc, "result") /\ Over(h, r) /\ hs'[h].todo = ws
      /\ hs'[h].id = hs[h].id
  BY <1>1, <1>2, <1>3, ResultStays
<1>5. Discards(Contents)
  BY <1>1, HistoryOf, Typed
<1> QED
  BY <1>1, <1>2, <1>4, <1>5 DEF GivesUp, r

LEMMA RunTerminatesDoes ==
    ASSUME DataOK, HandlersOK, NEW h \in Handlers, RunTerminates(h)
    PROVE  GivesUp(h)
<1> DEFINE r == "terminated"
           ids == Seen(h) \union ({hs[h].id} \ {0})
<1>1. /\ hs[h].todo = <<>> /\ hs[h].pc \in {"run", "idling"} /\ Turn(h) /\ Keep
      /\ hist' = Discard(ids) /\ hs' = ExecutionResult(h, r, terminate)
      /\ def.type # "debounce"
  BY DEF RunTerminates, At
<1>2. /\ r \in {"success", "retryScheduled", "terminated"}
      /\ Ending(terminate) /\ terminate \in Seq(Writes)
  BY GivingUp DEF Ending
<1>3. ids \in SUBSET Ids
  <2>1. hs[h].id \in 0 .. MaxIds /\ Seen(h) \in SUBSET Ids
    BY Typed
  <2>2. hs[h].id # 0 => hs[h].id \in 1 .. MaxIds
    BY <2>1, BoundsAreNumbers DEF BoundsAreNumbers
  <2> QED
    BY <2>1, <2>2 DEF Ids
<1> HIDE DEF r, ids
<1>4. /\ def' = def /\ store' = store /\ alarm' = alarm
      /\ budget' \in [calls : Nat, failures : Nat, faults : Nat]
      /\ budget'.faults = budget.faults /\ budget'.failures >= budget.failures
  BY <1>1, KeptBudget
<1>5. /\ Moves(h, hs[h].pc, "result") /\ Over(h, r) /\ hs'[h].todo = terminate
      /\ hs'[h].id = hs[h].id
  BY <1>1, <1>2, <1>4, ResultStays
<1>6. Discards(ids)
  BY <1>1, <1>3, HistoryOf
<1> QED
  BY <1>1, <1>2, <1>5, <1>6 DEF GivesUp, r, ids

LEMMA RunSucceedsDoes ==
    ASSUME DataOK, HandlersOK, NEW h \in Handlers, RunSucceeds(h)
    PROVE  RunEnds(h)
<1> DEFINE r == "success"
           ws == Succeeded(h, NewId)
<1>1. /\ hs[h].todo = <<>> /\ hs[h].pc = "run" /\ Turn(h) /\ Keep
      /\ hist' = Issue /\ hs' = [ExecutionResult(h, r, ws) EXCEPT ![h].id = NewId]
      /\ def.type = "continuous"
  BY DEF RunSucceeds, At
<1>2. /\ r \in {"success", "retryScheduled", "terminated"}
      /\ NewId \in 0 .. MaxIds
  BY Typed
<1>3. TakesIn(ws, Seen(h) \union {NewId}, NewId)
  BY <1>2, SucceededTakesIn
<1>4. ws \in Seq(Writes)
  <2>1. Note \union Saving(Seen(h) \union {NewId}) \subseteq Writes
    BY NotesAreWrites
  <2> QED
    BY <1>3, <2>1, Subseq DEF TakesIn
<1> HIDE DEF r, ws
<1>5. /\ def' = def /\ store' = store /\ alarm' = alarm
      /\ budget' \in [calls : Nat, failures : Nat, faults : Nat]
      /\ budget'.faults = budget.faults /\ budget'.failures >= budget.failures
  BY <1>1, KeptBudget
<1>6. /\ Moves(h, hs[h].pc, "result") /\ Over(h, r) /\ hs'[h].todo = ws
      /\ hs'[h].id = NewId
  BY ZenonT(60), <1>1, <1>2, <1>4, <1>5, ResultLeaves
<1>7. Issues
  BY <1>1, HistoryOf
<1> QED
  BY <1>1, <1>3, <1>6, <1>7 DEF RunEnds, r

LEMMA FlushSucceedsDoes ==
    ASSUME DataOK, HandlersOK, NEW h \in Handlers, FlushSucceeds(h)
    PROVE  FlushEnds(h)
<1> DEFINE r == "success"
           ws == Succeeded(h, 0)
<1>1. /\ hs[h].todo = <<>> /\ hs[h].pc = "run" /\ Turn(h) /\ Keep
      /\ hs' = ExecutionResult(h, r, ws) /\ def.type = "debounce"
  BY DEF FlushSucceeds, At
<1>2. /\ r \in {"success", "retryScheduled", "terminated"}
      /\ ws \in Seq(Note) /\ ws \in Seq(Writes)
  <2>1. 0 \in 0 .. MaxIds
    BY BoundsAreNumbers DEF BoundsAreNumbers
  <2>2. TakesIn(ws, Seen(h) \union {0}, 0)
    BY <2>1, SucceededTakesIn
  <2> QED
    BY <2>2, NotesAreWrites DEF TakesIn
<1> HIDE DEF r, ws
<1>3. /\ def' = def /\ store' = store /\ alarm' = alarm
      /\ budget' \in [calls : Nat, failures : Nat, faults : Nat]
      /\ budget'.faults = budget.faults /\ budget'.failures >= budget.failures
  BY <1>1, KeptBudget
<1>4. /\ Moves(h, hs[h].pc, "result") /\ Over(h, r) /\ hs'[h].todo = ws
      /\ hs'[h].id = hs[h].id
  BY <1>1, <1>2, <1>3, ResultStays
<1>5. /\ hist \in History /\ Seen(h) \in SUBSET Ids /\ hs[h].shared \in BOOLEAN
  <2>1. hs[h] \in HandlerState /\ Seen(h) \in SUBSET Ids
    BY Typed
  <2> QED
    BY <2>1 DEF DataOK, HandlerState
<1>6. hist' = [hist EXCEPT !.settled = @ \union Seen(h),
                           !.repeated = @ \/ (~hs[h].shared /\
                                           Seen(h) \intersect hist.settled # {})]
  BY DEF FlushSucceeds
<1>7. /\ hist' \in History
      /\ hist'.issued = hist.issued /\ hist'.kept = hist.kept
      /\ hist'.raced = hist.raced /\ hist'.half = hist.half
      /\ hist'.settled = hist.settled \union Seen(h)
      /\ hist'.repeated = (hist.repeated \/ (~hs[h].shared /\
                                              Seen(h) \intersect hist.settled # {}))
  BY <1>5, <1>6 DEF History
<1> QED
  BY <1>1, <1>2, <1>4, <1>7 DEF FlushEnds, r

HasRun(h) == hs[h].attempt >= 1

LEMMA RetryWrites ==
    ASSUME DataOK, HandlersOK, NEW h \in Handlers, HasRun(h), CanRetry(h),
           NEW delay \in RetryDelays(h)
    PROVE  /\ ScheduleRetry(h, delay) \in Seq(Note \union Setting)
           /\ \E i \in DOMAIN ScheduleRetry(h, delay) :
                 /\ ScheduleRetry(h, delay)[i].key = "alarm"
                 /\ ScheduleRetry(h, delay)[i].val # Absent
           /\ Counting(ScheduleRetry(h, delay))
<1> DEFINE S == Note \union Setting
           T == {w \in Writes : w.key = "attempt" => w.val # Absent}
           first == Put("attempt", hs[h].attempt + 1)
           event == emitEvent("job.failed")
<1>1. hs[h].attempt \in Nat /\ hs[h].attempt >= 1
  BY Typed DEF HasRun
<1>2. hs[h].attempt + 1 \in 2 .. def.retry.maxAttempts
  BY <1>1, DefinitionIs DEF CanRetry, DataOK
<1>3. first \in Seq(Note)
  BY <1>2, NoteLists
<1>4. event \in Seq(Note)
  BY NoteLists, Events
<1>5. delay \in Nat
  BY DEF RetryDelays
<1>6. /\ schedule(delay) \in Seq(Setting) /\ 1 \in DOMAIN schedule(delay)
      /\ schedule(delay)[1].key = "alarm" /\ schedule(delay)[1].val # Absent
  BY <1>5, SetsOne
<1>7. first \in Seq(S) /\ event \in Seq(S) /\ schedule(delay) \in Seq(S)
  BY <1>3, <1>4, <1>6, Subseq
<1>8. ScheduleRetry(h, delay) = (first \o schedule(delay)) \o event
  BY DEF ScheduleRetry
<1> HIDE DEF first, event, S
<1>9. /\ first \o schedule(delay) \in Seq(S)
      /\ 1 + Len(first) \in DOMAIN (first \o schedule(delay))
      /\ (first \o schedule(delay))[1 + Len(first)] = schedule(delay)[1]
  BY <1>6, <1>7, Joined
<1>10. /\ (first \o schedule(delay)) \o event \in Seq(S)
       /\ 1 + Len(first) \in DOMAIN ((first \o schedule(delay)) \o event)
       /\ ((first \o schedule(delay)) \o event)[1 + Len(first)] = schedule(delay)[1]
  BY <1>7, <1>9, Joined
<1>11. Counting(ScheduleRetry(h, delay))
  <2>1. first \in Seq(T) /\ first[1].key = "attempt" /\ 1 \in DOMAIN first
    <3>1. /\ [key |-> "attempt", val |-> hs[h].attempt + 1, soft |-> FALSE] \in Note
          /\ hs[h].attempt + 1 # Absent
      BY <1>1, <1>2, WriteKinds, AbsentIsNoValue DEF DataOK, AbsentIsNoValue
    <3>2. [key |-> "attempt", val |-> hs[h].attempt + 1, soft |-> FALSE] \in T
      BY <3>1 DEF T, Note
    <3> HIDE DEF T
    <3> QED
      BY <3>2, PutIn, WriteIs DEF first
  <2>2. schedule(delay) \in Seq(T)
    <3>1. \A w \in Setting : w \in T
      BY DEF Setting, T
    <3> QED
      BY <1>6, <3>1, Subseq
  <2>3. event \in Seq(T)
    <3>1. [key |-> "event", val |-> "job.failed", soft |-> FALSE] \in Note
      BY WriteKinds, Events DEF DataOK
    <3>2. [key |-> "event", val |-> "job.failed", soft |-> FALSE] \in T /\ <<>> \in Seq(T)
      BY <3>1, EmptySeq DEF T, Note
    <3> HIDE DEF T
    <3>3. Put("event", "job.failed") \in Seq(T)
      BY <3>2, PutIn
    <3> QED
      BY <3>2, <3>3 DEF event, emitEvent
  <2> HIDE DEF T
  <2>4. /\ first \o schedule(delay) \in Seq(T) /\ 1 \in DOMAIN (first \o schedule(delay))
        /\ (first \o schedule(delay))[1] = first[1]
    BY <2>1, <2>2, Joined
  <2>5. /\ (first \o schedule(delay)) \o event \in Seq(T)
        /\ 1 \in DOMAIN ((first \o schedule(delay)) \o event)
        /\ ((first \o schedule(delay)) \o event)[1] = first[1]
    BY <2>3, <2>4, Joined
  <2>6. \A i \in DOMAIN ScheduleRetry(h, delay) : ScheduleRetry(h, delay)[i] \in T
    BY <1>8, <2>5, Members
  <2> QED
    BY <1>8, <2>1, <2>5, <2>6 DEF Counting, T
<1> QED
  BY <1>6, <1>8, <1>10, <1>11 DEF S

LEMMA RunFailsDoes ==
    ASSUME DataOK, HandlersOK, NEW h \in Handlers, RunFails(h)
    PROVE  WillRetry(h) \/ GivesUp(h) \/ RunIsLost(h)
<1>1. /\ hs[h].todo = <<>> /\ hs[h].pc = "run" /\ Turn(h)
      /\ def' = def /\ store' = store /\ alarm' = alarm
      /\ budget' = [budget EXCEPT !.failures = @ + 1]
  BY DEF RunFails, At
<1>2. /\ budget' \in [calls : Nat, failures : Nat, faults : Nat]
      /\ budget'.faults = budget.faults /\ budget'.failures = budget.failures + 1
      /\ budget'.failures >= budget.failures
  BY <1>1 DEF DataOK
<1>3. HasRun(h)
  BY <1>1 DEF HasRun, HandlersOK
<1>4. Retries => def.type # "task"
  BY DefinitionIs DEF Retries, DataOK
<1>5. ASSUME Retries, CanRetry(h), NEW delay \in RetryDelays(h), hist' = hist,
             hs' = ExecutionResult(h, "retryScheduled", ScheduleRetry(h, delay))
      PROVE  WillRetry(h)
  <2> DEFINE ws == ScheduleRetry(h, delay)
             r == "retryScheduled"
  <2>1. /\ ws \in Seq(Note \union Setting)
        /\ \E i \in DOMAIN ws : ws[i].key = "alarm" /\ ws[i].val # Absent
        /\ Counting(ws)
    BY <1>3, <1>5, RetryWrites
  <2>2. ws \in Seq(Writes) /\ r \in {"success", "retryScheduled", "terminated"}
    <3>1. Note \union Setting \subseteq Writes
      BY NotesAreWrites
    <3> QED
      BY <2>1, <3>1, Subseq
  <2>3. hs' = ExecutionResult(h, r, ws)
    BY <1>5
  <2> HIDE DEF ws, r
  <2>4. /\ Moves(h, hs[h].pc, "result") /\ Over(h, r) /\ hs'[h].todo = ws
        /\ hs'[h].id = hs[h].id
    BY <1>1, <1>2, <2>2, <2>3, ResultStays
  <2>5. Sets(h)'
    BY <2>1, <2>4 DEF Sets, write
  <2> QED
    BY <1>1, <1>4, <1>5, <2>1, <2>4, <2>5 DEF WillRetry, Unhistoric, r
<1>6. ASSUME Retries, hs' = Exhausted(h), hist' = Discard(Seen(h))
      PROVE  GivesUp(h)
  <2> DEFINE r == "terminated"
             ws == reset \o emitEvent("job.retryExhausted") \o terminate
  <2>1. /\ r \in {"success", "retryScheduled", "terminated"}
        /\ Ending(ws) /\ ws \in Seq(Writes)
    BY GivingUp DEF Ending
  <2>2. hs' = ExecutionResult(h, r, ws)
    BY <1>6 DEF Exhausted
  <2> HIDE DEF r, ws
  <2>3. /\ Moves(h, hs[h].pc, "result") /\ Over(h, r) /\ hs'[h].todo = ws
        /\ hs'[h].id = hs[h].id
    BY <1>1, <1>2, <2>1, <2>2, ResultStays
  <2>4. Discards(Seen(h))
    BY <1>6, HistoryOf, Typed
  <2> QED
    BY <1>1, <1>4, <1>6, <2>1, <2>3, <2>4 DEF GivesUp, r
<1>7. ASSUME hs' = Segment(h, "fail", emitEvent("job.failed")), hist' = hist
      PROVE  RunIsLost(h)
  <2> DEFINE ws == emitEvent("job.failed")
             p == "fail"
  <2>1. ws \in Seq(Note) /\ ws \in Seq(Writes) /\ p \in JobPcs
    BY NoteLists, Events, NotesAreWrites DEF JobPcs
  <2>2. hs' = Segment(h, p, ws)
    BY <1>7
  <2> HIDE DEF ws, p
  <2>3. Moves(h, hs[h].pc, p) /\ Rest(h) /\ hs'[h].todo = ws
    BY <1>1, <1>2, <2>1, <2>2, SegmentLeaves
  <2> QED
    BY <1>1, <1>2, <1>7, <2>1, <2>3 DEF RunIsLost, Unhistoric, p
<1> QED
  BY <1>5, <1>6, <1>7 DEF RunFails

LEMMA ScheduleNextRunDoes ==
    ASSUME DataOK, HandlersOK, NEW h \in Handlers, ScheduleNextRun(h)
    PROVE  SchedulesNext(h)
<1> DEFINE S == Note \union Setting
           ws == updateLastExecutedAt \o scheduleNext
           p == "return"
<1>1. /\ hs[h].todo = <<>> /\ hs[h].pc = "result" /\ Turn(h) /\ Keep /\ hist' = hist
      /\ hs[h].result = "success" /\ def.type = "continuous"
      /\ hs' = Segment(h, p, ws)
  BY DefinitionIs DEF ScheduleNextRun, At, DataOK
<1>2. updateLastExecutedAt \in Seq(Note)
  BY NoteLists DEF updateLastExecutedAt
<1>3. /\ scheduleNext \in Seq(Setting) /\ 1 \in DOMAIN scheduleNext
      /\ scheduleNext[1].key = "alarm" /\ scheduleNext[1].val # Absent
  BY DefinitionIs, SetsOne DEF scheduleNext, DataOK
<1>4. updateLastExecutedAt \in Seq(S) /\ scheduleNext \in Seq(S)
  BY <1>2, <1>3, Subseq
<1>5. /\ ws \in Seq(S)
      /\ \E i \in DOMAIN ws : ws[i].key = "alarm" /\ ws[i].val # Absent
  <2> HIDE DEF S
  <2>1. /\ ws \in Seq(S) /\ 1 + Len(updateLastExecutedAt) \in DOMAIN ws
        /\ ws[1 + Len(updateLastExecutedAt)] = scheduleNext[1]
    BY <1>3, <1>4, Joined
  <2> QED
    BY <1>3, <2>1
<1>6. ws \in Seq(Writes) /\ p \in JobPcs
  <2>1. S \subseteq Writes
    BY NotesAreWrites
  <2> QED
    BY <1>5, <2>1, Subseq DEF JobPcs
<1> HIDE DEF ws, p
<1>7. Moves(h, hs[h].pc, p) /\ Rest(h) /\ hs'[h].todo = ws
  BY <1>1, <1>6, KeptBudget, SegmentLeaves
<1>8. Sets(h)'
  BY <1>5, <1>7 DEF Sets, write
<1> QED
  BY <1>1, <1>5, <1>7, <1>8 DEF SchedulesNext, Unhistoric, p

LEMMA ConcludesDoes ==
    ASSUME DataOK, HandlersOK, NEW h \in Handlers,
           ScheduleNothing(h) \/ NotFlushed(h) \/ TaskEnds(h)
    PROVE  Concludes(h)
<1> DEFINE p == "return"
           ws == <<>>
<1>1. /\ hs[h].todo = <<>> /\ hs[h].pc = "result" /\ Turn(h) /\ Keep /\ hist' = hist
      /\ hs' = Segment(h, p, ws)
      /\ \/ hs[h].result # "success" \/ def.type = "task"
         \/ def.type = "continuous" /\ h = "alarm" /\ store.meta # "running"
  BY DefinitionIs DEF ScheduleNothing, NotFlushed, TaskEnds, At, DataOK
<1>2. p \in JobPcs /\ ws \in Seq(Writes)
  BY EmptySeq DEF JobPcs
<1> HIDE DEF p, ws
<1>3. Moves(h, hs[h].pc, p) /\ Rest(h) /\ hs'[h].todo = ws
  BY <1>1, <1>2, KeptBudget, SegmentLeaves
<1> QED
  BY <1>1, <1>3 DEF Concludes, Unhistoric, p, ws

LEMMA FlushedDoes ==
    ASSUME DataOK, HandlersOK, NEW h \in Handlers, Flushed(h)
    PROVE  FlushPurges(h)
<1> DEFINE p == "return"
           ws == emitEvent("debounce.flushed") \o purge
<1>1. /\ hs[h].todo = <<>> /\ hs[h].pc = "result" /\ Turn(h) /\ Keep /\ hist' = hist
      /\ hs' = Segment(h, p, ws)
      /\ hs[h].result = "success" /\ def.type = "debounce"
  BY DefinitionIs DEF Flushed, At, DataOK
<1>2. p \in JobPcs /\ Ending(ws) /\ ws \in Seq(Writes)
  BY GivingUp, Events DEF JobPcs, Ending
<1> HIDE DEF p, ws
<1>3. Moves(h, hs[h].pc, p) /\ Rest(h) /\ hs'[h].todo = ws
  BY <1>1, <1>2, KeptBudget, SegmentLeaves
<1> QED
  BY <1>1, <1>2, <1>3 DEF FlushPurges, Unhistoric, p

LEMMA GoIdleDoes ==
    ASSUME DataOK, HandlersOK, NEW h \in Handlers, GoIdle(h)
    PROVE  GoesIdle(h)
<1> DEFINE p == "idling"
           ws == hs[h].todo
<1>1. /\ hs[h].todo = <<>> /\ hs[h].pc = "settle" /\ Turn(h) /\ Keep /\ hist' = hist
      /\ hs' = [hs EXCEPT ![h].pc = p] /\ Unscheduled(h)
  BY DEF GoIdle, At
<1>2. p \in JobPcs /\ ws \in Seq(Writes)
  BY Typed DEF JobPcs
<1> HIDE DEF p
<1>3. hs' = Segment(h, p, ws)
  <2>1. hs \in [Handlers -> HandlerState] /\ hs[h] \in HandlerState
    BY Typed
  <2>2. [hs[h] EXCEPT !.pc = p, !.todo = hs[h].todo] = [hs[h] EXCEPT !.pc = p]
    BY <2>1 DEF HandlerState
  <2> QED
    BY <1>1, <2>1, <2>2 DEF Segment
<1> HIDE DEF ws
<1>4. /\ Moves(h, hs[h].pc, p) /\ Rest(h) /\ hs'[h].todo = ws
      /\ hs'[h].plan = hs[h].plan
  BY <1>1, <1>2, <1>3, KeptBudget, SegmentLeaves
<1> QED
  BY <1>1, <1>4 DEF GoesIdle, Unhistoric, p, ws

Reduced(h, v, n) == Put("state", v) \o Put("count", n) \o ScheduleFlush(h)

ReducedOK(h, v, ws) ==
    /\ ws \in Seq(Note \union Saving(v) \union Setting)
    /\ \E i \in DOMAIN ws : ws[i].key = "state"
    /\ \E i \in DOMAIN ws : ws[i].key = "count" /\ ws[i].val # 0
    /\ \A i, j \in DOMAIN ws : ws[i].key = "alarm" /\ j > i => ws[j].key # "state"
    /\ hs[h].created =>
          \E i \in DOMAIN ws : ws[i].key = "alarm" /\ ws[i].val # Absent

LEMMA ReduceWrites ==
    ASSUME DataOK, HandlersOK, NEW h \in Handlers,
           NEW v \in SUBSET Ids, NEW n \in 1 .. MaxCount
    PROVE  ReducedOK(h, v, Reduced(h, v, n))
<1> DEFINE S == Note \union Saving(v) \union Setting
           T == Note \union Setting
           two == Put("state", v) \o Put("count", n)
           flush == ScheduleFlush(h)
           ws == Reduced(h, v, n)
<1>1. /\ Put("state", v) \in Seq(S) /\ Put("count", n) \in Seq(S)
      /\ Put("state", v) \in Seq(S) /\ Len(Put("state", v)) = 1
      /\ Len(Put("count", n)) = 1
      /\ Put("state", v)[1].key = "state"
      /\ Put("count", n)[1].key = "count" /\ Put("count", n)[1].val = n
  <2>1. /\ [key |-> "state", val |-> v, soft |-> FALSE] \in S
        /\ [key |-> "count", val |-> n, soft |-> FALSE] \in S
    BY WriteKinds DEF DataOK
  <2> HIDE DEF S
  <2> QED
    BY <2>1, PutIn, WriteIs
<1>2. /\ flush \in Seq(T)
      /\ hs[h].created => /\ 1 \in DOMAIN flush
                          /\ flush[1].key = "alarm" /\ flush[1].val # Absent
  <2>1. /\ schedule(def.interval) \in Seq(Setting) /\ 1 \in DOMAIN schedule(def.interval)
        /\ schedule(def.interval)[1].key = "alarm"
        /\ schedule(def.interval)[1].val # Absent
    BY DefinitionIs, SetsOne DEF DataOK
  <2>2. emitEvent("debounce.started") \in Seq(Note) /\ <<>> \in Seq(T)
    BY NoteLists, Events, EmptySeq
  <2>3. schedule(def.interval) \in Seq(T) /\ emitEvent("debounce.started") \in Seq(T)
    BY <2>1, <2>2, Subseq
  <2> HIDE DEF T
  <2>4. LET both == schedule(def.interval) \o emitEvent("debounce.started")
        IN  /\ both \in Seq(T) /\ 1 \in DOMAIN both
            /\ both[1] = schedule(def.interval)[1]
    BY <2>1, <2>3, Joined
  <2> QED
    BY <2>1, <2>2, <2>4 DEF ScheduleFlush
<1>3. flush \in Seq(S)
  BY <1>2, Subseq
<1>4. \A w \in T : w.key # "state"
  BY DEF Note, Setting
<1> HIDE DEF S, T
<1>5. /\ two \in Seq(S) /\ Len(two) = 2 /\ DOMAIN two = 1 .. 2
      /\ two[1] = Put("state", v)[1] /\ two[2] = Put("count", n)[1]
  BY <1>1, Pair
<1>6. ws = two \o flush
  BY DEF Reduced
<1> HIDE DEF two, flush, ws
<1>7. /\ ws \in Seq(S)
      /\ \A i \in DOMAIN two : i \in DOMAIN ws /\ ws[i] = two[i]
      /\ \A i \in DOMAIN flush : /\ i + 2 \in DOMAIN ws
                                 /\ ws[i + 2] = flush[i]
      /\ \A i \in DOMAIN ws :
            \/ i \in DOMAIN two /\ ws[i] = two[i]
            \/ i - 2 \in DOMAIN flush /\ ws[i] = flush[i - 2]
  <2>1. two \in Seq(S) /\ flush \in Seq(S)
    BY <1>3, <1>5
  <2>2. two \o flush \in Seq(S) /\ Join(two, flush, two \o flush)
    BY <2>1, JoinedIs
  <2> QED
    BY <1>5, <1>6, <2>2 DEF Join
<1>8. /\ 1 \in DOMAIN ws /\ ws[1].key = "state"
      /\ 2 \in DOMAIN ws /\ ws[2].key = "count" /\ ws[2].val # 0
  BY <1>1, <1>5, <1>7, 1 \in 1 .. 2, 2 \in 1 .. 2
<1>9. ASSUME NEW i \in DOMAIN ws, NEW j \in DOMAIN ws, ws[i].key = "alarm", j > i
      PROVE  ws[j].key # "state"
  <2>1. \A k \in DOMAIN flush : flush[k] \in T /\ k >= 1
    BY <1>2, LenProperties
  <2>2. i \notin DOMAIN two
    <3>1. \A k \in 1 .. 2 : k = 1 \/ k = 2
      OBVIOUS
    <3> QED
      BY <1>5, <1>8, <1>9, <3>1
  <2>3. i - 2 \in DOMAIN flush
    BY <1>7, <2>2
  <2>4. i \in Int /\ j \in Int
    BY <1>7, LenProperties
  <2>5. i >= 3 /\ j >= 4
    BY <1>9, <2>1, <2>3, <2>4
  <2>6. j \notin DOMAIN two
    BY <1>5, <2>5, <2>4
  <2>7. j - 2 \in DOMAIN flush /\ ws[j] = flush[j - 2]
    BY <1>7, <2>6
  <2> QED
    BY <1>4, <2>1, <2>7
<1>10. hs[h].created => \E i \in DOMAIN ws : ws[i].key = "alarm" /\ ws[i].val # Absent
  BY <1>2, <1>7
<1> QED
  BY <1>7, <1>8, <1>9, <1>10 DEF S, ws, ReducedOK

LEMMA ReduceDoes ==
    ASSUME DataOK, HandlersOK, NEW h \in Handlers, Reduce(h)
    PROVE  Reduces(h)
<1> DEFINE nextCount == Increment(hs[h].count)
           v == Seen(h) \union ({NewId} \ {0})
           ws == Reduced(h, v, nextCount)
           p == IF nextCount >= def.maxEvents THEN "execute" ELSE "return"
           new == [hs[h] EXCEPT !.id = NewId, !.seen = Absent, !.count = 0,
                                !.todo = ws, !.pc = p]
<1>1. /\ hs \in [Handlers -> HandlerState] /\ hs[h] \in HandlerState
      /\ Seen(h) \in SUBSET Ids /\ NewId \in 0 .. MaxIds
      /\ hs[h].count \in 0 .. MaxCount
  BY Typed
<1>2. /\ hs[h].todo = <<>> /\ hs[h].pc = "reduce" /\ Turn(h) /\ Keep /\ hist' = Issue
      /\ hs' = [hs EXCEPT ![h] = new]
  BY <1>1 DEF Reduce, At, Reduced
<1>3. v \in SUBSET Ids /\ nextCount \in 1 .. MaxCount
  <2>1. NewId # 0 => NewId \in 1 .. MaxIds
    BY <1>1, BoundsAreNumbers DEF BoundsAreNumbers
  <2>2. nextCount \in 1 .. MaxCount
    BY <1>1, NoteLists
  <2> QED
    BY <1>1, <2>1, <2>2 DEF Ids
<1>4. p \in {"execute", "return"}
  OBVIOUS
<1> HIDE DEF v, nextCount, p
<1> HIDE DEF ws
<1>5. ReducedOK(h, v, ws)
  BY <1>3, ReduceWrites DEF ws
<1>6. ws \in Seq(Writes)
  <2>1. Note \union Saving(v) \union Setting \subseteq Writes
    BY NotesAreWrites
  <2> QED
    BY <1>5, <2>1, Subseq DEF ReducedOK
<1>7. new \in HandlerState
  <2>1. 0 \in 0 .. MaxCount
    BY BoundsAreNumbers DEF BoundsAreNumbers
  <2> QED
    BY <1>1, <1>4, <1>6, <2>1 DEF HandlerState, JobPcs
<1>8. hs' \in [Handlers -> HandlerState] /\ hs'[h] = new
      /\ \A g \in Handlers : g # h => hs'[g] = hs[g]
  BY <1>1, <1>2, <1>7
<1>9. /\ hs'[h].pc = p /\ hs'[h].todo = ws /\ hs'[h].created = hs[h].created
      /\ hs'[h].shared = hs[h].shared /\ hs'[h].id = NewId
      /\ hs'[h].seen = Absent /\ hs'[h].result = hs[h].result
      /\ hs'[h].op = hs[h].op /\ hs'[h].found = hs[h].found
  BY <1>1, <1>8 DEF HandlerState
<1>10. Moves(h, "reduce", hs'[h].pc) /\ hs'[h].pc \in {"execute", "return"}
  BY <1>2, <1>4, <1>8, <1>9, KeptBudget DEF Moves
<1>11. Issues
  BY <1>2, HistoryOf
<1>12. hs[h].created => Sets(h)'
  BY <1>5, <1>9 DEF Sets, write, ReducedOK
<1> QED
  BY <1>5, <1>9, <1>10, <1>11, <1>12 DEF Reduces, v, ReducedOK

LEMMA RecordedThen ==
    ASSUME NEW S, NEW s \in Seq(S), NEW t \in Seq(S), Recorded(s),
           \A i \in DOMAIN t : t[i].key \notin {"alarm", "scheduledAt"}
    PROVE  Recorded(s \o t)
<1> DEFINE u == s \o t
<1>1. u \in Seq(S) /\ Join(s, t, u)
  BY JoinedIs
<1>2. DOMAIN s = 1 .. Len(s) /\ Len(s) \in Nat /\ DOMAIN t = 1 .. Len(t) /\ Len(t) \in Nat
  BY LenProperties
<1> HIDE DEF u
<1>3. ASSUME NEW i \in DOMAIN u, u[i].key = "alarm"
      PROVE  /\ i + 1 \in DOMAIN u /\ u[i + 1].key = "scheduledAt"
             /\ ~u[i].soft
             /\ u[i].val = Absent <=> u[i + 1].val = Absent
  <2>1. i \in DOMAIN s /\ u[i] = s[i]
    BY <1>1, <1>3 DEF Join
  <2>2. /\ i + 1 \in DOMAIN s /\ s[i + 1].key = "scheduledAt"
        /\ ~s[i].soft
        /\ s[i].val = Absent <=> s[i + 1].val = Absent
    BY <1>3, <2>1 DEF Recorded
  <2> QED
    BY <1>1, <2>1, <2>2 DEF Join
<1>4. ASSUME NEW i \in DOMAIN u, u[i].key = "scheduledAt"
      PROVE  i - 1 \in DOMAIN u /\ u[i - 1].key = "alarm"
  <2>1. i \in DOMAIN s /\ u[i] = s[i]
    BY <1>1, <1>4 DEF Join
  <2>2. i - 1 \in DOMAIN s /\ s[i - 1].key = "alarm"
    BY <1>4, <2>1 DEF Recorded
  <2> QED
    BY <1>1, <2>2 DEF Join
<1> QED
  BY <1>3, <1>4 DEF Recorded, u

LEMMA Alone ==
    ASSUME NEW v, NEW w
    PROVE  /\ Len(Put("alarm", v)) = 1 /\ Put("alarm", v)[1].key = "alarm"
           /\ Put("alarm", v)[1].val = v /\ Put("alarm", v)[1].soft = FALSE
           /\ Len(Put("scheduledAt", w)) = 1
           /\ Put("scheduledAt", w)[1].key = "scheduledAt"
           /\ Put("scheduledAt", w)[1].val = w
BY DEF Put

LEMMA PlanPair ==
    ASSUME DataOK, NEW v, NEW w \in {Absent, TRUE}, v = Absent \/ v \in Nat,
           v = Absent <=> w = Absent
    PROVE  LET ws == Put("alarm", v) \o Put("scheduledAt", w)
           IN  /\ ws \in Seq(Timing) /\ Recorded(ws)
               /\ DOMAIN ws = 1 .. 2
               /\ ws[1].key = "alarm" /\ ws[1].val = v /\ ~ws[1].soft
               /\ ws[2].key = "scheduledAt"
<1> DEFINE ws == Put("alarm", v) \o Put("scheduledAt", w)
<1>1. /\ [key |-> "alarm", val |-> v, soft |-> FALSE] \in Timing
      /\ [key |-> "scheduledAt", val |-> w, soft |-> FALSE] \in Timing
  <2>1. /\ [key |-> "alarm", val |-> v, soft |-> FALSE] \in Writes
        /\ [key |-> "scheduledAt", val |-> w, soft |-> FALSE] \in Writes
    BY WriteKinds, NotesAreWrites DEF DataOK
  <2> QED
    BY <2>1 DEF Timing
<1>2. Put("alarm", v) \in Seq(Timing) /\ Put("scheduledAt", w) \in Seq(Timing)
  BY <1>1, PutIn
<1>3. /\ Len(Put("alarm", v)) = 1 /\ Put("alarm", v)[1].key = "alarm"
      /\ Put("alarm", v)[1].val = v /\ ~Put("alarm", v)[1].soft
      /\ Len(Put("scheduledAt", w)) = 1
      /\ Put("scheduledAt", w)[1].key = "scheduledAt"
      /\ Put("scheduledAt", w)[1].val = w
  BY Alone
<1>4. /\ ws \in Seq(Timing) /\ DOMAIN ws = 1 .. 2
      /\ ws[1] = Put("alarm", v)[1] /\ ws[2] = Put("scheduledAt", w)[1]
  BY <1>2, <1>3, Pair
<1> HIDE DEF ws
<1>5. \A i \in DOMAIN ws : i = 1 \/ i = 2
  BY <1>4
<1>6. 1 + 1 \in DOMAIN ws /\ 2 - 1 \in DOMAIN ws /\ 1 + 1 = 2 /\ 2 - 1 = 1
  BY <1>4
<1>7. /\ ws[1].key = "alarm" /\ ws[1].val = v /\ ~ws[1].soft
      /\ ws[2].key = "scheduledAt" /\ ws[2].val = w
  BY <1>3, <1>4
<1>8. ASSUME NEW i \in DOMAIN ws
      PROVE  /\ ws[i].key = "alarm" =>
                   /\ i + 1 \in DOMAIN ws /\ ws[i + 1].key = "scheduledAt"
                   /\ ~ws[i].soft
                   /\ ws[i].val = Absent <=> ws[i + 1].val = Absent
             /\ ws[i].key = "scheduledAt" =>
                   i - 1 \in DOMAIN ws /\ ws[i - 1].key = "alarm"
  <2>1. CASE i = 1
    BY <1>6, <1>7, <2>1
  <2>2. CASE i = 2
    BY <1>6, <1>7, <2>2
  <2> QED
    BY <1>5, <2>1, <2>2
<1>9. Recorded(ws)
  BY <1>8 DEF Recorded
<1> QED
  BY <1>4, <1>7, <1>9 DEF ws

LEMMA PlanWrites ==
    ASSUME DataOK, NEW plan \in Plans
    PROVE  /\ applyScheduleChanges(plan) \in Seq(Timing)
           /\ Recorded(applyScheduleChanges(plan))
           /\ plan = "cancel" => Cancelling(applyScheduleChanges(plan))
<1>1. CASE plan = "none"
  <2>1. applyScheduleChanges(plan) = <<>>
    BY <1>1 DEF applyScheduleChanges
  <2>2. applyScheduleChanges(plan) \in Seq(Timing)
    BY <2>1, EmptySeq
  <2>3. DOMAIN applyScheduleChanges(plan) = {}
    BY <2>1, <2>2, Members
  <2> QED
    BY <1>1, <2>2, <2>3 DEF Recorded
<1>2. CASE plan = "cancel"
  <2> DEFINE ws == Put("alarm", Absent) \o Put("scheduledAt", Absent)
  <2>1. applyScheduleChanges(plan) = ws
    BY <1>2 DEF applyScheduleChanges, cancel, Delete
  <2>2. /\ ws \in Seq(Timing) /\ Recorded(ws) /\ DOMAIN ws = 1 .. 2
        /\ ws[1].key = "alarm" /\ ws[1].val = Absent /\ ~ws[1].soft
        /\ ws[2].key = "scheduledAt"
    BY PlanPair
  <2> HIDE DEF ws
  <2>3. \A i \in DOMAIN ws : i = 1 \/ i = 2
    BY <2>2
  <2>4. 1 \in DOMAIN ws
    BY <2>2
  <2>5. Cancelling(ws)
    BY <2>2, <2>3, <2>4 DEF Cancelling
  <2> QED
    BY <2>1, <2>2, <2>5
<1>3. CASE plan = "schedule"
  <2> DEFINE ws == Put("alarm", def.interval) \o Put("scheduledAt", TRUE)
             event == emitEvent("task.scheduled")
  <2>1. applyScheduleChanges(plan) = ws \o event
    BY <1>3 DEF applyScheduleChanges, schedule
  <2>2. def.interval \in Nat /\ def.interval # Absent /\ TRUE # Absent
    BY DefinitionIs, AbsentIsNoValue DEF AbsentIsNoValue, DataOK
  <2>3. /\ ws \in Seq(Timing) /\ Recorded(ws)
    BY <2>2, PlanPair
  <2>4. event \in Seq(Note) /\ event \in Seq(Timing)
    <3>1. event \in Seq(Note) /\ Note \subseteq Timing
      BY NoteLists, Events DEF Timing
    <3> QED
      BY <3>1, Subseq
  <2>5. \A i \in DOMAIN event : event[i].key \notin {"alarm", "scheduledAt"}
    <3>1. \A i \in DOMAIN event : event[i] \in Note
      BY <2>4, Members
    <3> QED
      BY <3>1 DEF Note
  <2> HIDE DEF ws, event
  <2>6. ws \o event \in Seq(Timing) /\ Recorded(ws \o event)
    BY <2>3, <2>4, <2>5, RecordedThen, JoinedIs
  <2> QED
    BY <1>3, <2>1, <2>6
<1> QED
  BY <1>1, <1>2, <1>3 DEF Plans

LEMMA PlanThen ==
    ASSUME DataOK, HandlersOK, NEW h \in Handlers,
           NEW n \in 0 .. MaxIds, NEW s \in Seq(Timing), Recorded(s)
    PROVE  Settled(s \o Succeeded(h, n), Seen(h) \union {n}, n)
<1> DEFINE t == Succeeded(h, n)
           v == Seen(h) \union {n}
           S == Timing \union Saving(v)
<1>1. TakesIn(t, v, n)
  BY SucceededTakesIn
<1>2. Note \subseteq Timing /\ Note \union Saving(v) \subseteq S /\ Timing \subseteq S
  BY DEF Timing
<1>3. s \in Seq(S) /\ t \in Seq(S) /\ (n = 0 => t \in Seq(Timing))
  <2>1. t \in Seq(Note \union Saving(v)) /\ (n = 0 => t \in Seq(Note))
    BY <1>1 DEF TakesIn
  <2>2. /\ Seq(Note) \subseteq Seq(Timing) /\ Seq(Timing) \subseteq Seq(S)
        /\ Seq(Note \union Saving(v)) \subseteq Seq(S)
    BY <1>2, Subseq
  <2> HIDE DEF t, S
  <2> QED
    BY <2>1, <2>2
<1>4. \A i \in DOMAIN t : t[i].key \notin {"alarm", "scheduledAt"}
  <2>1. \A i \in DOMAIN t : t[i] \in Note \union Saving(v)
    BY <1>1, Members DEF TakesIn
  <2> HIDE DEF t, v
  <2> QED
    BY <2>1 DEF Note, Saving
<1> HIDE DEF t, v, S
<1>5. s \o t \in Seq(S) /\ Join(s, t, s \o t) /\ Recorded(s \o t)
  BY <1>3, <1>4, JoinedIs, RecordedThen
<1>6. n = 0 => s \o t \in Seq(Timing)
  BY <1>3, ConcatProperties
<1>7. n # 0 => \E i \in DOMAIN (s \o t) : (s \o t)[i].key = "state"
  <2> DEFINE u == s \o t
  <2> SUFFICES ASSUME n # 0
               PROVE  \E i \in DOMAIN u : u[i].key = "state"
    OBVIOUS
  <2>1. PICK i \in DOMAIN t : t[i].key = "state"
    BY <1>1 DEF TakesIn
  <2>2. i + Len(s) \in DOMAIN u /\ u[i + Len(s)] = t[i]
    BY <1>5 DEF Join
  <2> HIDE DEF u
  <2> QED
    BY <2>1, <2>2
<1> QED
  BY <1>5, <1>6, <1>7 DEF Settled, t, v, S

LEMMA TimingIsWrites ==
    Timing \subseteq Writes /\ Seq(Timing) \subseteq Seq(Writes)
BY NotesAreWrites, Subseq DEF Timing

LEMMA TaskReturnsDoes ==
    ASSUME DataOK, HandlersOK, NEW h \in Handlers, TaskReturns(h)
    PROVE  FunctionReturns(h)
<1>1. /\ hs[h].todo = <<>> /\ hs[h].pc = "run" /\ Turn(h) /\ Keep /\ hist' = Issue
      /\ def.type = "task"
  BY DefinitionIs DEF TaskReturns, At, DataOK
<1>2. PICK plan \in Plans :
         hs' = [hs EXCEPT ![h].pc = "settle", ![h].id = NewId, ![h].plan = plan,
                          ![h].todo = applyScheduleChanges(plan)]
  BY DEF TaskReturns
<1> DEFINE ws == applyScheduleChanges(plan)
           new == [hs[h] EXCEPT !.pc = "settle", !.id = NewId, !.plan = plan,
                                !.todo = ws]
<1>3. /\ hs \in [Handlers -> HandlerState] /\ hs[h] \in HandlerState
      /\ NewId \in 0 .. MaxIds
  BY Typed
<1>4. hs' = [hs EXCEPT ![h] = new]
  BY <1>2, <1>3
<1>5. ws \in Seq(Timing) /\ Recorded(ws) /\ (plan = "cancel" => Cancelling(ws))
  BY PlanWrites
<1>6. ws \in Seq(Writes)
  BY <1>5, TimingIsWrites
<1> HIDE DEF ws
<1>7. new \in HandlerState
  BY <1>3, <1>6 DEF HandlerState, JobPcs
<1>8. hs' \in [Handlers -> HandlerState] /\ hs'[h] = new
      /\ \A g \in Handlers : g # h => hs'[g] = hs[g]
  BY <1>3, <1>4, <1>7
<1>9. /\ hs'[h].pc = "settle" /\ hs'[h].todo = ws /\ hs'[h].created = hs[h].created
      /\ hs'[h].shared = hs[h].shared /\ hs'[h].id = NewId
      /\ hs'[h].seen = hs[h].seen /\ hs'[h].plan = plan
      /\ hs'[h].op = hs[h].op /\ hs'[h].found = hs[h].found
      /\ hs'[h].result = hs[h].result
  BY <1>3, <1>8 DEF HandlerState
<1>10. Moves(h, "run", "settle")
  BY <1>1, <1>8, <1>9, KeptBudget DEF Moves
<1>11. Issues
  BY <1>1, HistoryOf
<1> QED
  BY <1>1, <1>5, <1>9, <1>10, <1>11 DEF FunctionReturns

LEMMA TaskSettlesDoes ==
    ASSUME DataOK, HandlersOK, NEW h \in Handlers, StayBusy(h) \/ IdleReturns(h)
    PROVE  TaskSettles(h)
<1> DEFINE r == "success"
           n == hs[h].id
<1>1. /\ hs[h].todo = <<>> /\ hs[h].pc \in {"settle", "idling"} /\ Turn(h)
      /\ Keep /\ hist' = hist
  BY DEF StayBusy, IdleReturns, At
<1>2. PICK s \in Seq(Timing) :
         Recorded(s) /\ hs' = ExecutionResult(h, r, s \o Succeeded(h, n))
  <2>1. CASE StayBusy(h)
    <3>1. hs' = ExecutionResult(h, r, Succeeded(h, n))
      BY <2>1 DEF StayBusy
    <3>2. <<>> \in Seq(Timing) /\ Recorded(<<>>)
      <4>1. <<>> \in Seq(Timing)
        BY EmptySeq
      <4>2. \A e \in Seq(Timing) : e = <<>> => Recorded(e)
        BY Members DEF Recorded
      <4> QED
        BY <4>1, <4>2
    <3>3. Succeeded(h, n) = <<>> \o Succeeded(h, n)
      <4>1. n \in 0 .. MaxIds
        BY Typed
      <4>2. \E v : Succeeded(h, n) \in Seq(Note \union Saving(v))
        BY <4>1, SucceededTakesIn DEF TakesIn
      <4> QED
        BY <4>2, ConcatEmptySeq
    <3> QED
      BY <3>1, <3>2, <3>3
  <2>2. CASE IdleReturns(h)
    <3>1. PICK plan \in Plans :
             hs' = ExecutionResult(h, r, applyScheduleChanges(plan) \o Succeeded(h, n))
      BY <2>2 DEF IdleReturns
    <3>2. applyScheduleChanges(plan) \in Seq(Timing) /\ Recorded(applyScheduleChanges(plan))
      BY PlanWrites
    <3> QED
      BY <3>1, <3>2
  <2> QED
    BY <2>1, <2>2
<1> DEFINE ws == s \o Succeeded(h, n)
<1>3. n \in 0 .. MaxIds
  BY Typed
<1>4. Settled(ws, Seen(h) \union {n}, n)
  BY <1>2, <1>3, PlanThen
<1>5. ws \in Seq(Writes) /\ r \in {"success", "retryScheduled", "terminated"}
  <2>1. Timing \union Saving(Seen(h) \union {n}) \subseteq Writes
    BY TimingIsWrites, NotesAreWrites
  <2> QED
    <3>1. Seq(Timing \union Saving(Seen(h) \union {n})) \subseteq Seq(Writes)
      BY <2>1, Subseq
    <3>2. ws \in Seq(Timing \union Saving(Seen(h) \union {n}))
      BY <1>4 DEF Settled
    <3> QED
      BY <3>1, <3>2
<1>6. hs' = ExecutionResult(h, r, ws)
  BY <1>2
<1> HIDE DEF ws, r
<1>7. /\ def' = def /\ store' = store /\ alarm' = alarm
      /\ budget' \in [calls : Nat, failures : Nat, faults : Nat]
      /\ budget'.faults = budget.faults /\ budget'.failures >= budget.failures
  BY <1>1, KeptBudget
<1>8. /\ Moves(h, hs[h].pc, "result") /\ Over(h, r) /\ hs'[h].todo = ws
      /\ hs'[h].id = hs[h].id
  BY <1>1, <1>5, <1>6, <1>7, ResultStays
<1> QED
  BY <1>1, <1>4, <1>8 DEF TaskSettles, Unhistoric, r

LEMMA IdleIs ==
    /\ Idle \in HandlerState
    /\ Idle.pc = "idle" /\ Idle.todo = <<>> /\ Idle.seen = Absent /\ Idle.id = 0
    /\ Idle.result = "none" /\ Idle.plan = "none" /\ ~Idle.created
<1>1. <<>> \in Seq(Writes) /\ 0 \in 0 .. MaxIds /\ 0 \in 0 .. MaxCount
  BY EmptySeq, BoundsAreNumbers DEF BoundsAreNumbers
<1> QED
  BY <1>1 DEF Idle, HandlerState, JobPcs, Plans

(* How a handler is set going. *)
Entry(h) ==
    /\ ~Active(h) /\ Turn(h) /\ def' = def /\ store' = store
    /\ budget' \in [calls : Nat, failures : Nat, faults : Nat]
    /\ budget'.faults = budget.faults /\ budget'.failures = budget.failures
    /\ \/ h \in Requests /\ alarm' = alarm
       \/ h = "alarm" /\ alarm = 0 /\ alarm' = Absent

LEMMA Entries ==
    ASSUME DataOK
    PROVE  /\ \A h \in Handlers : Receive(h) => Entry(h) /\ h \in Requests
           /\ Fire => Entry("alarm")
<1>1. budget \in [calls : Nat, failures : Nat, faults : Nat]
  BY DEF DataOK
<1>2. \A h \in Handlers : Receive(h) => Entry(h) /\ h \in Requests
  BY <1>1 DEF Receive, Entry
<1>3. Fire => Entry("alarm")
  BY <1>1 DEF Fire, Entry
<1> QED
  BY <1>2, <1>3

Begun(h, r) ==
    /\ hs'[h].pc = r.pc /\ hs'[h].todo = r.todo /\ hs'[h].created = r.created
    /\ hs'[h].seen = r.seen

LEMMA BeginsWith ==
    ASSUME DataOK, HandlersOK, NEW h \in Handlers, Entry(h),
           NEW r \in HandlerState, Begin(h, r),
           r.id = 0, r.result = "none", r.plan = "none"
    PROVE  Begins(h) /\ Begun(h, r)
<1>1. hs \in [Handlers -> HandlerState] /\ hs[h] = Idle
  BY DEF HandlersOK, Entry
<1> DEFINE new == [r EXCEPT !.shared = Others(h) # {}]
           other(g) == [hs[g] EXCEPT !.shared = TRUE]
<1>2. new \in HandlerState /\ \A g \in Handlers : other(g) \in HandlerState
  BY <1>1 DEF HandlerState
<1>3. hs' = [g \in Handlers |-> IF g = h THEN new
                                ELSE IF Active(g) THEN other(g) ELSE hs[g]]
  BY DEF Begin
<1>4. /\ new.pc = r.pc /\ new.todo = r.todo /\ new.created = r.created
      /\ new.seen = r.seen /\ new.id = 0 /\ new.result = "none" /\ new.plan = "none"
      /\ Others(h) # {} => new.shared
  BY DEF HandlerState
<1>5. \A g \in Handlers :
         /\ other(g).pc = hs[g].pc /\ other(g).todo = hs[g].todo
         /\ other(g).seen = hs[g].seen /\ other(g).id = hs[g].id
         /\ other(g).result = hs[g].result /\ other(g).plan = hs[g].plan
         /\ other(g).attempt = hs[g].attempt /\ other(g).created = hs[g].created
         /\ other(g).op = hs[g].op /\ other(g).found = hs[g].found
         /\ other(g).shared
  BY <1>1 DEF HandlerState
<1>6. \A g \in Handlers : hs[g].shared /\ ~Active(g) => FALSE
  <2>1. \A g \in Handlers : ~Active(g) => ~hs[g].shared
    BY DEF HandlersOK, Idle
  <2> QED
    BY <2>1
<1> HIDE DEF new, other
<1>7. hs' \in [Handlers -> HandlerState]
  BY <1>1, <1>2, <1>3
<1>8. hs'[h] = new
  BY <1>3
<1>9. \A g \in Handlers : g # h =>
         /\ Active(g) => hs'[g] = other(g)
         /\ ~Active(g) => hs'[g] = hs[g]
  BY <1>3
<1>10. \A g \in Handlers : g # h =>
          /\ hs'[g].pc = hs[g].pc /\ hs'[g].todo = hs[g].todo
          /\ hs'[g].seen = hs[g].seen /\ hs'[g].id = hs[g].id
          /\ hs'[g].result = hs[g].result /\ hs'[g].plan = hs[g].plan
          /\ hs'[g].attempt = hs[g].attempt /\ hs'[g].created = hs[g].created
          /\ hs'[g].op = hs[g].op /\ hs'[g].found = hs[g].found
          /\ hs[g].shared \/ Active(g) => hs'[g].shared
          /\ ~Active(g) => hs'[g] = hs[g]
  <2> TAKE g \in Handlers
  <2> HAVE g # h
  <2>1. CASE Active(g)
    BY <1>5, <1>9, <2>1
  <2>2. CASE ~Active(g)
    BY <1>6, <1>9, <2>2
  <2> QED
    BY <2>1, <2>2
<1> QED
  BY <1>1, <1>4, <1>7, <1>8, <1>10 DEF Begins, Begun, Entry

LEMMA BeginAnswering ==
    ASSUME DataOK, HandlersOK, NEW h \in Requests, Entry(h),
           NEW o \in Requested, NEW b \in BOOLEAN, Unhistoric,
           Begin(h, [Idle EXCEPT !.op = o, !.found = b, !.pc = "return"]),
           def.type # "workerPool"
    PROVE  AnswersOnly(h)
<1> DEFINE r == [Idle EXCEPT !.op = o, !.found = b, !.pc = "return"]
<1>1. /\ r \in HandlerState
      /\ r.pc = "return" /\ r.todo = <<>> /\ r.seen = Absent /\ r.id = 0
      /\ r.result = "none" /\ r.plan = "none" /\ ~r.created
  BY IdleIs DEF HandlerState, JobPcs
<1> HIDE DEF r
<1>2. h \in Handlers /\ Begin(h, r)
  BY HandlerKinds DEF r
<1>3. Begins(h) /\ Begun(h, r)
  BY <1>1, <1>2, BeginsWith
<1>4. hs'[h] \in HandlerState
  BY <1>2, <1>3 DEF Begins
<1> QED
  BY <1>1, <1>3 DEF AnswersOnly, Begun

(* The records a handler begins with. *)
Started(r) == r \in HandlerState /\ r.id = 0 /\ r.result = "none" /\ r.plan = "none"

LEMMA BeginsTo ==
    ASSUME DataOK, HandlersOK, NEW h \in Handlers, Entry(h), NEW r, Started(r),
           Begin(h, r), def.type # "workerPool"
    PROVE  /\ /\ r.pc = "execute" /\ r.todo \in Seq(Note) /\ ~r.created
              /\ r.seen = Absent /\ store.meta # Absent /\ Unhistoric
              => WorksOn(h)
           /\ /\ r.pc = "return" /\ Ending(r.todo) /\ ~r.created
              /\ r.seen = Absent /\ store.meta # Absent
              /\ \/ Discards(Contents)
                 \/ Unhistoric /\ def.type = "debounce" /\ Count = 0
              => Purges(h)
           /\ /\ r.pc = "return" /\ r.todo = <<>> /\ ~r.created /\ r.seen = Absent
              /\ h \in Requests /\ Unhistoric
              => AnswersOnly(h)
<1>1. Begins(h) /\ Begun(h, r)
  BY BeginsWith DEF Started
<1> QED
  BY <1>1 DEF WorksOn, Purges, AnswersOnly, Begun

LEMMA StoresNow ==
    ASSUME DataOK
    PROVE  Contents \in SUBSET Ids /\ (hist' = Discard(Contents) => Discards(Contents))
<1>1. Contents \in SUBSET Ids
  BY DEF DataOK, StoreState, Contents
<1> QED
  BY <1>1, HistoryOf

(* start, trigger and terminate of a continuous job that exists. *)
LEMMA ContinuousFoundDoes ==
    ASSUME DataOK, HandlersOK, NEW h \in Requests, def.type = "continuous"
    PROVE  /\ StartExisting(h) => AnswersOnly(h)
           /\ Trigger(h) => WorksOn(h)
           /\ Terminate(h) => Purges(h)
<1>1. h \in Handlers /\ def.type # "workerPool" /\ (Receive(h) => Entry(h))
  BY HandlerKinds, Entries
<1>2. /\ {"start", "trigger", "terminate"} \subseteq Requested
      /\ {"return", "execute"} \subseteq JobPcs
  BY DEF Requested, JobPcs
<1>3. ASSUME StartExisting(h) PROVE AnswersOnly(h)
  <2> DEFINE r == [Idle EXCEPT !.op = "start", !.found = TRUE, !.pc = "return"]
  <2>1. Entry(h) /\ Begin(h, r) /\ Unhistoric
    BY <1>1, <1>3 DEF StartExisting, Unhistoric
  <2>2. Started(r) /\ r.pc = "return" /\ r.todo = <<>> /\ ~r.created /\ r.seen = Absent
    BY <1>2, IdleIs DEF Started, HandlerState
  <2> HIDE DEF r
  <2> QED
    BY <1>1, <2>1, <2>2, BeginsTo
<1>4. ASSUME Trigger(h) PROVE WorksOn(h)
  <2> DEFINE ws == Soften(reset) \o incrementRunCount
             r == [Idle EXCEPT !.op = "trigger", !.found = TRUE, !.pc = "execute",
                               !.todo = ws]
  <2>1. Entry(h) /\ Begin(h, r) /\ Unhistoric /\ store.meta # Absent
    BY <1>1, <1>4 DEF Trigger, Unhistoric
  <2>2. ws \in Seq(Note)
    BY NoteLists, ConcatProperties
  <2>3. ws \in Seq(Writes)
    BY <2>2, NotesAreWrites
  <2> HIDE DEF ws
  <2>4. Started(r) /\ r.pc = "execute" /\ r.todo = ws /\ ~r.created /\ r.seen = Absent
    BY <1>2, <2>3, IdleIs DEF Started, HandlerState
  <2> HIDE DEF r
  <2> QED
    BY <1>1, <2>1, <2>2, <2>4, BeginsTo
<1>5. ASSUME Terminate(h) PROVE Purges(h)
  <2> DEFINE ws == emitEvent("job.terminated") \o purge
             r == [Idle EXCEPT !.op = "terminate", !.found = TRUE, !.pc = "return",
                               !.todo = ws]
  <2>1. Entry(h) /\ Begin(h, r) /\ Discards(Contents) /\ store.meta # Absent
    BY <1>1, <1>5, StoresNow DEF Terminate
  <2>2. Ending(ws) /\ ws \in Seq(Writes)
    BY GivingUp, Events DEF Ending
  <2> HIDE DEF ws
  <2>4. Started(r) /\ r.pc = "return" /\ r.todo = ws /\ ~r.created /\ r.seen = Absent
    BY <1>2, <2>2, IdleIs DEF Started, HandlerState
  <2> HIDE DEF r
  <2> QED
    BY <1>1, <2>1, <2>2, <2>4, BeginsTo
<1> QED
  BY <1>3, <1>4, <1>5

(* A request to a job that does not exist, and that creates none. *)
LEMMA NothingDoes ==
    ASSUME DataOK, HandlersOK, NEW h \in Requests, def.type # "workerPool"
    PROVE  /\ TriggerNothing(h) => AnswersOnly(h)
           /\ TerminateNothing(h) => AnswersOnly(h)
           /\ FlushNothing(h) => AnswersOnly(h)
           /\ ClearNothing(h) => AnswersOnly(h)
           /\ \A o \in {"trigger", "terminate"} : TaskNothing(h, o) => AnswersOnly(h)
<1>1. h \in Handlers /\ (Receive(h) => Entry(h))
  BY HandlerKinds, Entries
<1>2. /\ {"flush", "clear", "trigger", "terminate"} \subseteq Requested
      /\ "return" \in JobPcs
  BY DEF Requested, JobPcs
<1>3. ASSUME NEW o \in Requested, Receive(h), hist' = hist,
             Begin(h, [Idle EXCEPT !.op = o, !.pc = "return"])
      PROVE  AnswersOnly(h)
  <2> DEFINE r == [Idle EXCEPT !.op = o, !.pc = "return"]
  <2>1. Entry(h) /\ Begin(h, r) /\ Unhistoric
    BY <1>1, <1>3 DEF Unhistoric
  <2>2. Started(r) /\ r.pc = "return" /\ r.todo = <<>> /\ ~r.created /\ r.seen = Absent
    BY <1>2, IdleIs DEF Started, HandlerState
  <2> HIDE DEF r
  <2> QED
    BY <1>1, <2>1, <2>2, BeginsTo
<1> QED
  BY <1>2, <1>3
  DEF TriggerNothing, TerminateNothing, FlushNothing, ClearNothing, TaskNothing

LEMMA ContinuousAlarmDoes ==
    ASSUME DataOK, HandlersOK, ContinuousAlarm
    PROVE  WorksOn("alarm")
<1> DEFINE ws == IF Attempt > 1 THEN <<>> ELSE incrementRunCount
           r == [Idle EXCEPT !.op = "alarm", !.pc = "execute", !.todo = ws]
<1>1. /\ Entry("alarm") /\ Begin("alarm", r) /\ Unhistoric /\ store.meta # Absent
      /\ def.type # "workerPool" /\ "alarm" \in Handlers
  BY HandlerKinds, Entries, DefinitionIs DEF ContinuousAlarm, Unhistoric, DataOK
<1>2. ws \in Seq(Note)
  BY NoteLists
<1>3. ws \in Seq(Writes) /\ "execute" \in JobPcs
  BY <1>2, NotesAreWrites DEF JobPcs
<1> HIDE DEF ws
<1>4. Started(r) /\ r.pc = "execute" /\ r.todo = ws /\ ~r.created /\ r.seen = Absent
  BY <1>3, IdleIs DEF Started, HandlerState
<1> HIDE DEF r
<1> QED
  BY <1>1, <1>2, <1>4, BeginsTo

(* The task handler, where the task exists. *)
LEMMA TaskFoundDoes ==
    ASSUME DataOK, HandlersOK
    PROVE  /\ TaskAlarm => WorksOn("alarm")
           /\ \A h \in Requests : 
                 def.type = "task" => /\ TaskTrigger(h) => WorksOn(h)
                                      /\ TaskTerminate(h) => Purges(h)
<1>1. /\ {"trigger", "terminate"} \subseteq Requested
      /\ {"return", "execute"} \subseteq JobPcs
  BY DEF Requested, JobPcs
<1> DEFINE ws == incrementExecuteCount
<1>2. ws \in Seq(Note)
  BY NoteLists
<1>3. ws \in Seq(Writes)
  BY <1>2, NotesAreWrites
<1>4. ASSUME TaskAlarm PROVE WorksOn("alarm")
  <2> DEFINE r == [Idle EXCEPT !.op = "alarm", !.pc = "execute", !.todo = ws]
  <2>1. /\ Entry("alarm") /\ Begin("alarm", r) /\ Unhistoric /\ store.meta # Absent
        /\ def.type # "workerPool" /\ "alarm" \in Handlers
    BY <1>4, HandlerKinds, Entries, DefinitionIs DEF TaskAlarm, Unhistoric, DataOK
  <2> HIDE DEF ws
  <2>2. Started(r) /\ r.pc = "execute" /\ r.todo = ws /\ ~r.created /\ r.seen = Absent
    BY <1>1, <1>3, IdleIs DEF Started, HandlerState
  <2> HIDE DEF r
  <2> QED
    BY <1>2, <2>1, <2>2, BeginsTo
<1>5. ASSUME NEW h \in Requests, def.type = "task", TaskTrigger(h) PROVE WorksOn(h)
  <2> DEFINE r == [Idle EXCEPT !.op = "trigger", !.found = TRUE, !.pc = "execute",
                               !.todo = ws]
  <2>1. /\ Entry(h) /\ Begin(h, r) /\ Unhistoric /\ store.meta # Absent
        /\ def.type # "workerPool" /\ h \in Handlers
    BY <1>5, HandlerKinds, Entries DEF TaskTrigger, Unhistoric
  <2> HIDE DEF ws
  <2>2. Started(r) /\ r.pc = "execute" /\ r.todo = ws /\ ~r.created /\ r.seen = Absent
    BY <1>1, <1>3, IdleIs DEF Started, HandlerState
  <2> HIDE DEF r
  <2> QED
    BY <1>2, <2>1, <2>2, BeginsTo
<1>6. ASSUME NEW h \in Requests, def.type = "task", TaskTerminate(h) PROVE Purges(h)
  <2> DEFINE r == [Idle EXCEPT !.op = "terminate", !.found = TRUE, !.pc = "return",
                               !.todo = purge]
  <2>1. /\ Entry(h) /\ Begin(h, r) /\ Discards(Contents) /\ store.meta # Absent
        /\ def.type # "workerPool" /\ h \in Handlers
    BY <1>6, HandlerKinds, Entries, StoresNow DEF TaskTerminate
  <2>2. Ending(purge) /\ purge \in Seq(Writes)
    BY GivingUp DEF Ending
  <2>3. Started(r) /\ r.pc = "return" /\ r.todo = purge /\ ~r.created /\ r.seen = Absent
    BY <1>1, <2>2, IdleIs DEF Started, HandlerState
  <2> HIDE DEF r
  <2> QED
    BY <2>1, <2>2, <2>3, BeginsTo
<1> QED
  BY <1>4, <1>5, <1>6

LEMMA FlushDoes ==
    ASSUME DataOK, HandlersOK, NEW h \in Handlers, Entry(h),
           NEW o \in {"flush", "alarm"}, NEW ws \in Seq(Note),
           Begin(h, handleFlush(o, ws)), Unhistoric, store.meta # Absent,
           def.type = "debounce"
    PROVE  WorksOn(h) \/ Purges(h)
<1>1. /\ o \in Requested \union {"alarm"} /\ {"return", "execute"} \subseteq JobPcs
      /\ def.type # "workerPool"
  BY DEF Requested, JobPcs
<1>2. CASE Count = 0
  <2> DEFINE w == ws \o purge
             r == [Idle EXCEPT !.op = o, !.pc = "return", !.todo = w]
  <2>1. Begin(h, r)
    BY <1>2 DEF handleFlush
  <2>2. Ending(w) /\ w \in Seq(Writes)
    BY Ends DEF Ending
  <2> HIDE DEF w
  <2>3. Started(r) /\ r.pc = "return" /\ r.todo = w /\ ~r.created /\ r.seen = Absent
    BY <1>1, <2>2, IdleIs DEF Started, HandlerState
  <2> HIDE DEF r
  <2> QED
    BY <1>1, <1>2, <2>1, <2>2, <2>3, BeginsTo
<1>3. CASE Count # 0
  <2> DEFINE r == [Idle EXCEPT !.op = o, !.pc = "execute", !.todo = ws]
  <2>1. Begin(h, r)
    BY <1>3 DEF handleFlush
  <2>2. ws \in Seq(Writes)
    BY NotesAreWrites
  <2>3. Started(r) /\ r.pc = "execute" /\ r.todo = ws /\ ~r.created /\ r.seen = Absent
    BY <1>1, <2>2, IdleIs DEF Started, HandlerState
  <2> HIDE DEF r
  <2> QED
    BY <1>1, <2>1, <2>3, BeginsTo
<1> QED
  BY <1>2, <1>3

LEMMA DebounceFoundDoes ==
    ASSUME DataOK, HandlersOK
    PROVE  /\ DebounceAlarm => WorksOn("alarm") \/ Purges("alarm")
           /\ \A h \in Requests : 
                 def.type = "debounce" => /\ Flush(h) => WorksOn(h) \/ Purges(h)
                                          /\ Clear(h) => Purges(h)
<1>1. <<>> \in Seq(Note) /\ Soften(reset) \in Seq(Note)
  BY NoteLists
<1>2. ASSUME DebounceAlarm PROVE WorksOn("alarm") \/ Purges("alarm")
  <2> DEFINE ws == IF Attempt > 1 THEN <<>> ELSE Soften(reset)
  <2>1. /\ Entry("alarm") /\ Unhistoric /\ store.meta # Absent
        /\ def.type = "debounce" /\ "alarm" \in Handlers
        /\ Begin("alarm", handleFlush("alarm", ws))
    BY <1>2, HandlerKinds, Entries, DefinitionIs DEF DebounceAlarm, Unhistoric, DataOK
  <2>2. ws \in Seq(Note)
    BY <1>1
  <2> HIDE DEF ws
  <2> QED
    BY <2>1, <2>2, FlushDoes
<1>3. ASSUME NEW h \in Requests, def.type = "debounce", Flush(h)
      PROVE  WorksOn(h) \/ Purges(h)
  <2>1. /\ Entry(h) /\ Unhistoric /\ store.meta # Absent /\ h \in Handlers
        /\ Begin(h, handleFlush("flush", <<>>))
    BY <1>3, HandlerKinds, Entries DEF Flush, Unhistoric
  <2> QED
    BY <1>1, <1>3, <2>1, FlushDoes
<1>4. ASSUME NEW h \in Requests, def.type = "debounce", Clear(h)
      PROVE  Purges(h)
  <2> DEFINE r == [Idle EXCEPT !.op = "clear", !.found = TRUE, !.pc = "return",
                               !.todo = purge]
  <2>1. /\ Entry(h) /\ Begin(h, r) /\ Discards(Contents) /\ store.meta # Absent
        /\ def.type # "workerPool" /\ h \in Handlers
    BY <1>4, HandlerKinds, Entries, StoresNow DEF Clear
  <2>2. Ending(purge) /\ purge \in Seq(Writes)
    BY GivingUp DEF Ending
  <2>3. Started(r) /\ r.pc = "return" /\ r.todo = purge /\ ~r.created /\ r.seen = Absent
    BY <2>2, IdleIs DEF Started, HandlerState, JobPcs, Requested
  <2> HIDE DEF r
  <2> QED
    BY <2>1, <2>2, <2>3, BeginsTo
<1> QED
  BY <1>2, <1>3, <1>4

LEMMA WorkerPoolDoes ==
    ASSUME DataOK, HandlersOK, NEW h \in Requests, def.type = "workerPool",
           NEW o \in WorkerPoolClient, handleWorkerPool(h, o)
    PROVE  Refuses(h)
<1> DEFINE r == [Idle EXCEPT !.op = o, !.pc = "fail"]
<1>1. Entry(h) /\ Begin(h, r) /\ Unhistoric /\ h \in Handlers
  BY HandlerKinds, Entries DEF handleWorkerPool, Unhistoric
<1>2. /\ Started(r) /\ r.pc = "fail" /\ r.todo = <<>> /\ ~r.created /\ r.seen = Absent
  BY IdleIs DEF Started, HandlerState, JobPcs, Requested
<1> HIDE DEF r
<1>3. Begins(h) /\ Begun(h, r)
  BY <1>1, <1>2, BeginsWith DEF Started
<1> QED
  BY <1>1, <1>2, <1>3 DEF Refuses, Begun

(* The writes a job is created with. *)
Creating(ws) ==
    /\ ws \in Seq(Writes) /\ ws # <<>> /\ ws[1].key = "meta"
    /\ \A i \in DOMAIN ws :
          /\ ws[i].soft => ws[i].val = Absent
          /\ ws[i].key = "meta" => i = 1
          /\ ws[i].key \notin {"all", "alarm", "scheduledAt"}
          /\ ws[i].key = "state" => ws[i].val = {}

Founding ==
    {w \in Writes : /\ ~w.soft
                    /\ \/ w.key \in {"status", "other", "count", "event"}
                       \/ w.key = "state" /\ w.val = {}}

Has(ws, k) == \E i \in DOMAIN ws : ws[i].key = k

LEMMA CreatesFirst ==
    ASSUME DataOK
    PROVE  Creating(initialize)
<1>1. /\ initialize \in Seq(Writes) /\ DOMAIN initialize = {1}
      /\ Len(initialize) = 1 /\ initialize[1].key = "meta" /\ initialize # <<>>
  BY PutIn, WriteIs, WriteKinds DEF initialize, DataOK
<1>2. ~initialize[1].soft
  BY WriteIsHard DEF initialize
<1> QED
  BY <1>1, <1>2 DEF Creating

LEMMA CreatesThen ==
    ASSUME NEW s, Creating(s), NEW t \in Seq(Founding)
    PROVE  /\ Creating(s \o t)
           /\ \A k : Has(s, k) \/ Has(t, k) => Has(s \o t, k)
<1> DEFINE u == s \o t
<1>1. /\ s \in Seq(Writes) /\ s # <<>> /\ 1 \in DOMAIN s
      /\ Len(s) \in Nat /\ DOMAIN s = 1 .. Len(s)
  BY Members DEF Creating
<1>2. /\ t \in Seq(Writes) /\ DOMAIN t \subseteq Nat \ {0}
      /\ \A i \in DOMAIN t : t[i] \in Founding
  BY Members, Subseq DEF Founding
<1>3. u \in Seq(Writes) /\ Join(s, t, u)
  BY <1>1, <1>2, JoinedIs
<1> HIDE DEF u
<1>4. 1 \in DOMAIN u /\ u[1].key = "meta"
  BY <1>1, <1>3 DEF Join, Creating
<1>5. u # <<>>
  BY <1>3, <1>4, Members
<1>6. \A w \in Founding : /\ ~w.soft
                          /\ w.key \notin {"all", "alarm", "scheduledAt", "meta"}
                          /\ w.key = "state" => w.val = {}
  BY DEF Founding
<1>7. ASSUME NEW i \in DOMAIN u
      PROVE  (i \in DOMAIN s /\ u[i] = s[i]) \/ u[i] \in Founding
  BY <1>2, <1>3, <1>7 DEF Join
<1>8. Creating(u)
  BY <1>3, <1>4, <1>5, <1>6, <1>7 DEF Creating
<1>9. \A k : Has(s, k) \/ Has(t, k) => Has(u, k)
  BY <1>3 DEF Join, Has
<1> QED
  BY <1>8, <1>9 DEF u

LEMMA Foundings ==
    ASSUME DataOK
    PROVE  /\ \A e \in JobEvent : emitEvent(e) \in Seq(Founding)
           /\ Put("state", {}) \in Seq(Founding) /\ Put("count", 0) \in Seq(Founding)
           /\ \A n \in 0 .. MaxCount : Put("count", Increment(n)) \in Seq(Founding)
           /\ updateStatus("running") \in Seq(Founding)
           /\ Put("other", TRUE) \in Seq(Founding)
           /\ Has(Put("state", {}), "state") /\ Has(updateStatus("running"), "status")
<1>1. /\ [key |-> "status", val |-> "running", soft |-> FALSE] \in Writes
      /\ [key |-> "state", val |-> {}, soft |-> FALSE] \in Writes
      /\ \A n \in 0 .. MaxCount :
            [key |-> "count", val |-> n, soft |-> FALSE] \in Writes
      /\ [key |-> "other", val |-> TRUE, soft |-> FALSE] \in Writes
      /\ \A e \in JobEvent : [key |-> "event", val |-> e, soft |-> FALSE] \in Writes
  <2>1. {} \in SUBSET Ids
    OBVIOUS
  <2> QED
    BY <2>1, WriteKinds, NotesAreWrites DEF DataOK
<1>2. /\ [key |-> "status", val |-> "running", soft |-> FALSE] \in Founding
      /\ [key |-> "state", val |-> {}, soft |-> FALSE] \in Founding
      /\ \A n \in 0 .. MaxCount :
            [key |-> "count", val |-> n, soft |-> FALSE] \in Founding
      /\ [key |-> "other", val |-> TRUE, soft |-> FALSE] \in Founding
      /\ \A e \in JobEvent : [key |-> "event", val |-> e, soft |-> FALSE] \in Founding
  BY <1>1 DEF Founding
<1>3. 0 \in 0 .. MaxCount /\ \A n \in 0 .. MaxCount : Increment(n) \in 0 .. MaxCount
  <2>1. \A n \in 0 .. MaxCount : Increment(n) \in 1 .. MaxCount
    BY NoteLists
  <2>2. MaxCount \in Nat
    BY BoundsAreNumbers DEF BoundsAreNumbers
  <2> QED
    BY <2>1, <2>2
<1>4. \A e \in JobEvent : emitEvent(e) \in Seq(Founding)
  <2> SUFFICES ASSUME NEW e \in JobEvent PROVE emitEvent(e) \in Seq(Founding)
    OBVIOUS
  <2>1. Put("event", e) \in Seq(Founding) /\ <<>> \in Seq(Founding)
    BY <1>2, PutIn, EmptySeq
  <2> QED
    BY <2>1 DEF emitEvent
<1>5. Has(Put("state", {}), "state") /\ Has(updateStatus("running"), "status")
  BY ZenonT(60), WriteIs DEF Has, updateStatus
<1>6. /\ Put("state", {}) \in Seq(Founding) /\ Put("count", 0) \in Seq(Founding)
      /\ updateStatus("running") \in Seq(Founding)
      /\ Put("other", TRUE) \in Seq(Founding)
  BY <1>2, <1>3, PutIn DEF updateStatus
<1>7. \A n \in 0 .. MaxCount : Put("count", Increment(n)) \in Seq(Founding)
  BY <1>2, <1>3, PutIn
<1> QED
  BY <1>4, <1>5, <1>6, <1>7

LEMMA StartNewDoes ==
    ASSUME DataOK, HandlersOK, NEW h \in Requests, def.type = "continuous", StartNew(h)
    PROVE  CreatesNew(h)
<1> DEFINE w1 == initialize \o emitEvent("job.started")
           w2 == w1 \o Put("state", {})
           w3 == w2 \o Put("count", 0)
           ws == w3 \o updateStatus("running")
           r == [Idle EXCEPT !.op = "start", !.created = TRUE, !.pc = "started",
                             !.todo = ws]
<1>1. Entry(h) /\ Begin(h, r) /\ Unhistoric /\ store.meta = Absent /\ h \in Handlers
  BY HandlerKinds, Entries DEF StartNew, Unhistoric
<1>2. Creating(w1)
  BY CreatesFirst, CreatesThen, Foundings, Events
<1> HIDE DEF w1
<1>3. Creating(w2) /\ Has(w2, "state")
  BY <1>2, CreatesThen, Foundings
<1> HIDE DEF w2
<1>4. Creating(w3) /\ Has(w3, "state")
  BY <1>3, CreatesThen, Foundings
<1> HIDE DEF w3
<1>5. Creating(ws) /\ Has(ws, "state") /\ Has(ws, "status")
  BY <1>4, CreatesThen, Foundings
<1> HIDE DEF ws
<1>6. ws \in Seq(Writes)
  BY <1>5 DEF Creating
<1>7. /\ Started(r) /\ r.pc = "started" /\ r.todo = ws /\ r.created /\ r.seen = Absent
  BY <1>6, IdleIs DEF Started, HandlerState, JobPcs, Requested
<1> HIDE DEF r
<1>8. Begins(h) /\ Begun(h, r)
  BY <1>1, <1>7, BeginsWith DEF Started
<1>9. /\ hs'[h].todo = ws /\ hs'[h].pc = "started" /\ hs'[h].created
      /\ hs'[h].seen = Absent
  BY <1>7, <1>8 DEF Begun
<1>10. Pending(h, "state")' /\ Pending(h, "status")'
  BY <1>5, <1>9 DEF Pending, Has
<1> QED
  BY <1>1, <1>5, <1>8, <1>9, <1>10 DEF CreatesNew, Creating

(* What the first event of a debounce or of a task writes. *)
LEMMA FirstWrites ==
    ASSUME DataOK
    PROVE  LET ws == initialize \o updateStatus("running") \o Put("other", TRUE)
                       \o Put("count", 0)
           IN  Creating(ws) /\ Creating(ws \o Put("count", Increment(0)))
<1> DEFINE w1 == initialize \o updateStatus("running")
           w2 == w1 \o Put("other", TRUE)
           w3 == w2 \o Put("count", 0)
<1>1. Creating(w1)
  BY CreatesFirst, CreatesThen, Foundings
<1> HIDE DEF w1
<1>2. Creating(w2)
  BY <1>1, CreatesThen, Foundings
<1> HIDE DEF w2
<1>3. Creating(w3)
  BY <1>2, CreatesThen, Foundings
<1> HIDE DEF w3
<1>4. Put("count", Increment(0)) \in Seq(Founding)
  BY Foundings, BoundsAreNumbers DEF BoundsAreNumbers
<1>5. Creating(w3 \o Put("count", Increment(0)))
  BY <1>3, <1>4, CreatesThen
<1> QED
  BY <1>3, <1>5 DEF w1, w2, w3

LEMMA AddDoes ==
    ASSUME DataOK, HandlersOK, NEW h \in Requests, def.type = "debounce",
           NEW valid \in BOOLEAN, Add(h, valid)
    PROVE  CreatesNew(h) \/ WorksOn(h)
<1> DEFINE created == store.meta = Absent
           n == IF created THEN 0 ELSE Count
           p == IF valid THEN "reduce" ELSE "fail"
           ws == IF created
                 THEN initialize \o updateStatus("running")
                        \o Put("other", TRUE) \o Put("count", 0)
                 ELSE <<>>
           r == [Idle EXCEPT !.op = "add", !.created = created, !.pc = p,
                             !.seen = store.state, !.count = n, !.todo = ws]
<1>1. Entry(h) /\ Begin(h, r) /\ Unhistoric /\ h \in Handlers
  BY HandlerKinds, Entries DEF Add, Unhistoric
<1>2. /\ created => Creating(ws)
      /\ ~created => ws = <<>>
  BY FirstWrites
<1>3. ws \in Seq(Writes)
  BY <1>2, EmptySeq DEF Creating
<1>4. n \in 0 .. MaxCount
  BY NoteLists, BoundsAreNumbers DEF BoundsAreNumbers
<1>5. p \in {"reduce", "fail"} /\ p \in JobPcs /\ created \in BOOLEAN
  BY DEF JobPcs
<1>6. store.state \in {Absent} \union SUBSET Ids
  BY DEF DataOK, StoreState
<1>7. created <=> store.meta = Absent
  OBVIOUS
<1> HIDE DEF created, n, p, ws
<1>8. /\ Started(r) /\ r.pc = p /\ r.todo = ws /\ r.created = created
      /\ r.seen = store.state
  BY ZenonT(60), <1>3, <1>4, <1>5, <1>6, IdleIs
     DEF Started, HandlerState, JobPcs, Requested
<1> HIDE DEF r
<1>9. Begins(h) /\ Begun(h, r)
  BY <1>1, <1>8, BeginsWith DEF Started
<1>10. /\ hs'[h].todo = ws /\ hs'[h].pc = p /\ hs'[h].created = created
       /\ hs'[h].seen = store.state
  BY <1>8, <1>9 DEF Begun
<1>11. CASE created
  <2>1. Creating(ws) /\ store.meta = Absent
    BY <1>2, <1>7, <1>11
  <2> QED
    BY <1>1, <1>5, <1>9, <1>10, <1>11, <2>1 DEF CreatesNew, Creating
<1>12. CASE ~created
  <2>1. ws \in Seq(Note) /\ store.meta # Absent
    BY <1>2, <1>7, <1>12, NoteLists
  <2> QED
    BY <1>1, <1>5, <1>9, <1>10, <1>12, <2>1 DEF WorksOn
<1> QED
  BY <1>11, <1>12

LEMMA SendDoes ==
    ASSUME DataOK, HandlersOK, NEW h \in Requests, def.type = "task",
           NEW valid \in BOOLEAN, Send(h, valid)
    PROVE  CreatesNew(h) \/ WorksOn(h)
<1> DEFINE created == store.meta = Absent
           p == IF valid THEN "execute" ELSE "fail"
           ws == IF created
                 THEN initialize \o updateStatus("running") \o Put("other", TRUE)
                        \o Put("count", 0) \o incrementEventCount(0)
                 ELSE incrementEventCount(Count)
           r == [Idle EXCEPT !.op = "send", !.created = created, !.pc = p, !.todo = ws]
<1>1. Entry(h) /\ Begin(h, r) /\ Unhistoric /\ h \in Handlers
  BY HandlerKinds, Entries DEF Send, Unhistoric
<1>2. /\ created => Creating(ws)
      /\ ~created => ws \in Seq(Note)
  BY FirstWrites, NoteLists DEF incrementEventCount
<1>3. ws \in Seq(Writes)
  BY <1>2, NotesAreWrites DEF Creating
<1>5. p \in {"execute", "fail"} /\ p \in JobPcs /\ created \in BOOLEAN
  BY DEF JobPcs
<1>7. created <=> store.meta = Absent
  OBVIOUS
<1> HIDE DEF created, p, ws
<1>8. /\ Started(r) /\ r.pc = p /\ r.todo = ws /\ r.created = created
      /\ r.seen = Absent
  BY ZenonT(60), <1>3, <1>5, IdleIs
     DEF Started, HandlerState, JobPcs, Requested
<1> HIDE DEF r
<1>9. Begins(h) /\ Begun(h, r)
  BY <1>1, <1>8, BeginsWith DEF Started
<1>10. /\ hs'[h].todo = ws /\ hs'[h].pc = p /\ hs'[h].created = created
       /\ hs'[h].seen = Absent
  BY <1>8, <1>9 DEF Begun
<1>11. CASE created
  <2>1. Creating(ws) /\ store.meta = Absent
    BY <1>2, <1>7, <1>11
  <2> QED
    BY <1>1, <1>5, <1>9, <1>10, <1>11, <2>1 DEF CreatesNew, Creating
<1>12. CASE ~created
  <2>1. ws \in Seq(Note) /\ store.meta # Absent
    BY <1>2, <1>7, <1>12
  <2> QED
    BY <1>1, <1>5, <1>9, <1>10, <1>12, <2>1 DEF WorksOn
<1> QED
  BY <1>11, <1>12

(* A request is answered at once, creates the job, works on it, purges it  *)
(* or is refused.                                                          *)
LEMMA CallDoes ==
    ASSUME DataOK, HandlersOK, NEW h \in Requests, call(h)
    PROVE  AnswersOnly(h) \/ CreatesNew(h) \/ WorksOn(h) \/ Purges(h) \/ Refuses(h)
<1>1. PICK request \in createJobsClient(def.type) : handle(h, request)
  BY DEF call
<1>2. def.type \in {"continuous", "debounce", "task", "workerPool"}
  BY DefinitionIs DEF DataOK
<1>3. CASE def.type = "continuous"
  <2>1. request.type = "continuous"
    BY <1>3 DEF createJobsClient, continuous
  <2>2. handleContinuous(h, request.action)
    BY <1>1, <2>1 DEF handle
  <2>3. \/ StartExisting(h) \/ StartNew(h) \/ TriggerNothing(h) \/ Trigger(h)
        \/ TerminateNothing(h) \/ Terminate(h)
    BY <2>2 DEF handleContinuous
  <2> QED
    BY <1>3, <2>3, ContinuousFoundDoes, NothingDoes, StartNewDoes
<1>4. CASE def.type = "debounce"
  <2>1. request.type = "debounce"
    BY <1>4 DEF createJobsClient, debounce
  <2>2. handleDebounce(h, request.action)
    BY <1>1, <2>1 DEF handle
  <2>3. \/ \E valid \in BOOLEAN : Add(h, valid)
        \/ FlushNothing(h) \/ Flush(h) \/ ClearNothing(h) \/ Clear(h)
    BY <2>2 DEF handleDebounce
  <2> QED
    BY <1>4, <2>3, DebounceFoundDoes, NothingDoes, AddDoes
<1>5. CASE def.type = "task"
  <2>1. request.type = "task"
    BY <1>5 DEF createJobsClient, task
  <2>2. handleTask(h, request.action)
    BY <1>1, <2>1 DEF handle
  <2>3. \/ \E valid \in BOOLEAN : Send(h, valid)
        \/ TaskTrigger(h) \/ TaskNothing(h, "trigger")
        \/ TaskTerminate(h) \/ TaskNothing(h, "terminate")
    BY <2>2 DEF handleTask
  <2> QED
    BY <1>5, <2>3, TaskFoundDoes, NothingDoes, SendDoes
<1>6. CASE def.type = "workerPool"
  <2>1. request.type = "workerPool" /\ request.action \in WorkerPoolClient
    BY <1>6 DEF createJobsClient, workerPool
  <2>2. handleWorkerPool(h, request.action)
    BY <1>1, <2>1 DEF handle
  <2> QED
    BY <1>6, <2>1, <2>2, WorkerPoolDoes
<1> QED
  BY <1>2, <1>3, <1>4, <1>5, <1>6

LEMMA AlarmDoes ==
    ASSUME DataOK, HandlersOK, handleAlarm
    PROVE  WorksOn("alarm") \/ Purges("alarm") \/ AlarmIsLost
<1>1. AlarmForNothing => AlarmIsLost
  BY DEF AlarmForNothing, AlarmIsLost, Fire
<1> QED
  BY <1>1, ContinuousAlarmDoes, DebounceFoundDoes, TaskFoundDoes DEF handleAlarm

(* The others of what a handler does to its writes.                        *)
LEMMA TodoBecomes ==
    ASSUME DataOK, HandlersOK, NEW h \in Handlers, NEW ws \in Seq(Writes),
           hs' = [hs EXCEPT ![h].todo = ws]
    PROVE  /\ hs' \in [Handlers -> HandlerState]
           /\ \A g \in Handlers : g # h => hs'[g] = hs[g]
           /\ hs'[h].pc = hs[h].pc /\ hs'[h].seen = hs[h].seen /\ hs'[h].id = hs[h].id
           /\ hs'[h].result = hs[h].result /\ hs'[h].plan = hs[h].plan
           /\ hs'[h].attempt = hs[h].attempt
           /\ hs'[h].created = hs[h].created /\ hs'[h].shared = hs[h].shared
           /\ hs'[h].op = hs[h].op /\ hs'[h].found = hs[h].found
           /\ hs'[h].todo = ws
<1> DEFINE new == [hs[h] EXCEPT !.todo = ws]
<1>1. hs \in [Handlers -> HandlerState] /\ hs[h] \in HandlerState
  BY Typed
<1>2. hs' = [hs EXCEPT ![h] = new]
  BY <1>1
<1>3. new \in HandlerState
  BY <1>1 DEF HandlerState
<1>4. hs' \in [Handlers -> HandlerState] /\ hs'[h] = new
      /\ \A g \in Handlers : g # h => hs'[g] = hs[g]
  BY <1>1, <1>2, <1>3
<1> QED
  BY <1>1, <1>4 DEF HandlerState

LEMMA Dropping ==
    ASSUME DataOK, HandlersOK, NEW h \in Handlers, Turn(h), def' = def,
           NEW n \in 1 .. Len(hs[h].todo),
           hs' = [hs EXCEPT ![h].todo = SubSeq(hs[h].todo, n + 1, Len(hs[h].todo))]
    PROVE  Drops(h, n)
<1> DEFINE ws == hs[h].todo
           rest == SubSeq(ws, n + 1, Len(ws))
<1>1. /\ ws \in Seq(Writes) /\ Len(ws) \in Nat /\ DOMAIN ws = 1 .. Len(ws)
      /\ n \in 1 .. Len(ws)
  BY Typed, Members
<1>2. /\ rest \in Seq(Writes) /\ Len(rest) = Len(ws) - n
      /\ \A i \in 1 .. Len(rest) : rest[i] = ws[n + i]
  <2>1. /\ n + 1 \in 1 .. Len(ws) + 1 /\ Len(ws) \in n .. Len(ws)
        /\ \A i \in n + 1 .. Len(ws) : ws[i] \in Writes
    BY <1>1
  <2>2. /\ rest \in Seq(Writes)
        /\ Len(rest) = IF n + 1 <= Len(ws) THEN Len(ws) - (n + 1) + 1 ELSE 0
        /\ \A i \in 1 .. Len(ws) - (n + 1) + 1 : rest[i] = ws[n + 1 + i - 1]
    BY SMTT(30), <1>1, <2>1, SubSeqProperties
  <2> HIDE DEF rest
  <2>3. Len(rest) = Len(ws) - n
    BY <1>1, <2>2
  <2>4. ASSUME NEW i \in 1 .. Len(rest) PROVE rest[i] = ws[n + i]
    <3>1. i \in 1 .. Len(ws) - (n + 1) + 1 /\ n + 1 + i - 1 = n + i
      <4>1. \A l, m, k \in Nat : k \in 1 .. l - m /\ m <= l
               => k \in 1 .. l - (m + 1) + 1 /\ m + 1 + k - 1 = m + k
        OBVIOUS
      <4>2. i \in Nat /\ n \in Nat /\ n <= Len(ws) /\ i \in 1 .. Len(ws) - n
        BY <1>1, <2>3, <2>4
      <4> QED
        BY <1>1, <4>1, <4>2
    <3>2. rest[i] = ws[n + 1 + i - 1]
      BY <2>2, <3>1
    <3> QED
      BY <3>1, <3>2
  <2> QED
    BY <2>2, <2>3, <2>4
<1> HIDE DEF rest, ws
<1>3. /\ DOMAIN rest = 1 .. Len(rest) /\ (rest # <<>> => Head(rest) = rest[1])
      /\ rest # <<>> => 1 \in 1 .. Len(rest)
  BY <1>2, Members
<1>4. /\ hs' \in [Handlers -> HandlerState]
      /\ \A g \in Handlers : g # h => hs'[g] = hs[g]
      /\ hs'[h].pc = hs[h].pc /\ hs'[h].seen = hs[h].seen /\ hs'[h].id = hs[h].id
      /\ hs'[h].result = hs[h].result /\ hs'[h].plan = hs[h].plan
      /\ hs'[h].attempt = hs[h].attempt
      /\ hs'[h].created = hs[h].created /\ hs'[h].shared = hs[h].shared
      /\ hs'[h].op = hs[h].op /\ hs'[h].found = hs[h].found
      /\ hs'[h].todo = rest
  <2>1. hs' = [hs EXCEPT ![h].todo = rest]
    BY DEF rest, ws
  <2> QED
    BY <1>2, <2>1, TodoBecomes DEF ws
<1>5. /\ rest # <<>> => Head(rest) = ws[n + 1]
      /\ \A i \in DOMAIN rest : i + n \in DOMAIN ws /\ rest[i] = ws[i + n]
      /\ \A i \in DOMAIN ws :
            i > n => i - n \in DOMAIN rest /\ rest[i - n] = ws[i]
  <2>1. rest # <<>> => Head(rest) = ws[n + 1]
    BY <1>2, <1>3
  <2>2. ASSUME NEW i \in DOMAIN rest PROVE i + n \in DOMAIN ws /\ rest[i] = ws[i + n]
    <3>1. i \in 1 .. Len(rest) /\ i + n = n + i /\ i + n \in 1 .. Len(ws)
      BY <1>1, <1>2, <1>3
    <3> QED
      BY <1>1, <1>2, <3>1
  <2>3. ASSUME NEW i \in DOMAIN ws, i > n
        PROVE  i - n \in DOMAIN rest /\ rest[i - n] = ws[i]
    <3>1. i - n \in 1 .. Len(rest) /\ n + (i - n) = i
      BY <1>1, <1>2, <2>3
    <3>2. rest[i - n] = ws[n + (i - n)]
      BY <1>2, <3>1
    <3> QED
      BY <1>3, <3>1, <3>2
  <2> QED
    BY <2>1, <2>2, <2>3
<1> QED
  BY <1>2, <1>4, <1>5 DEF Drops, ws

LEMMA StoredIs ==
    ASSUME DataOK, NEW w \in Writes
    PROVE  Stored(w) \in StoreState
<1>1. store \in StoreState /\ def \in Definitions
  BY DEF DataOK
<1>2. Empty \in StoreState
  BY DEF Empty, StoreState
<1>3. CASE w.key \in {"all", "alarm", "event"}
  BY <1>1, <1>2, <1>3 DEF Stored
<1>4. CASE w.key = "status"
  <2>1. w.val = "running"
    BY <1>4 DEF Writes
  <2> QED
    BY <1>1, <1>4, <2>1 DEF Stored, StoreState
<1>5. CASE w.key \notin {"all", "alarm", "event", "status"}
  <2>1. Stored(w) = [store EXCEPT ![w.key] = w.val]
    BY <1>5 DEF Stored
  <2>2. 0 \in 0 .. def.retry.maxDuration
    BY <1>1, DefinitionIs
  <2>3. \/ w.key = "meta" /\ w.val = "initializing"
        \/ w.key = "state" /\ w.val \in SUBSET Ids
        \/ w.key = "count" /\ w.val \in 0 .. MaxCount
        \/ w.key = "attempt" /\ w.val \in {Absent} \union 2 .. def.retry.maxAttempts
        \/ w.key = "age" /\ w.val \in {Absent} \union 0 .. def.retry.maxDuration
        \/ w.key = "scheduledAt" /\ w.val \in {Absent, TRUE}
        \/ w.key = "other" /\ w.val \in {Absent, TRUE}
    BY <1>5, <2>2 DEF Writes, Maybe
  <2> QED
    BY <1>1, <2>1, <2>3 DEF StoreState
<1> QED
  BY <1>3, <1>4, <1>5

LEMMA PerformDoes ==
    ASSUME DataOK, HandlersOK, NEW h \in Handlers, Perform(h)
    PROVE  Performs(h)
<1> DEFINE ws == hs[h].todo
<1>1. /\ ws \in Seq(Writes) /\ ws # <<>> /\ Head(ws) = ws[1] /\ 1 \in DOMAIN ws
      /\ Len(ws) \in Nat /\ DOMAIN ws = 1 .. Len(ws) /\ Tail(ws) \in Seq(Writes)
      /\ Len(Tail(ws)) = Len(ws) - 1
      /\ \A i \in DOMAIN Tail(ws) : i + 1 \in DOMAIN ws /\ Tail(ws)[i] = ws[i + 1]
  BY Typed, Members DEF Perform
<1>2. /\ Turn(h) /\ hs' = [hs EXCEPT ![h].todo = Tail(ws)]
      /\ store' = Stored(ws[1])
      /\ alarm' = IF ws[1].key = "alarm" THEN ws[1].val ELSE alarm
      /\ hist' = [hist EXCEPT !.raced = @ \/ (ws[1].key = "all" /\ Others(h) # {})]
      /\ def' = def /\ budget' = budget
  BY <1>1 DEF Perform
<1> HIDE DEF ws
<1>3. /\ hs' \in [Handlers -> HandlerState]
      /\ \A g \in Handlers : g # h => hs'[g] = hs[g]
      /\ hs'[h].pc = hs[h].pc /\ hs'[h].seen = hs[h].seen /\ hs'[h].id = hs[h].id
      /\ hs'[h].result = hs[h].result /\ hs'[h].plan = hs[h].plan
      /\ hs'[h].attempt = hs[h].attempt
      /\ hs'[h].created = hs[h].created /\ hs'[h].shared = hs[h].shared
      /\ hs'[h].op = hs[h].op /\ hs'[h].found = hs[h].found
      /\ hs'[h].todo = Tail(ws)
  BY <1>1, <1>2, TodoBecomes
<1> DEFINE rest == Tail(ws)
<1>4. /\ DOMAIN rest = 1 .. Len(rest) /\ Len(rest) = Len(ws) - 1
      /\ rest # <<>> => 1 \in DOMAIN rest /\ Head(rest) = rest[1]
      /\ \A i \in DOMAIN rest : i + 1 \in DOMAIN ws /\ rest[i] = ws[i + 1]
  BY <1>1, Members
<1> HIDE DEF rest
<1>5. /\ rest # <<>> => Head(rest) = ws[1 + 1]
      /\ \A i \in DOMAIN ws :
            i > 1 => i - 1 \in DOMAIN rest /\ rest[i - 1] = ws[i]
  <2>1. rest # <<>> => Head(rest) = ws[1 + 1]
    BY <1>4
  <2>2. ASSUME NEW i \in DOMAIN ws, i > 1
        PROVE  i - 1 \in DOMAIN rest /\ rest[i - 1] = ws[i]
    <3>1. i - 1 \in DOMAIN rest /\ (i - 1) + 1 = i
      BY <1>1, <1>4, <2>2
    <3> QED
      BY <1>4, <3>1
  <2> QED
    BY <2>1, <2>2
<1>6. 1 \in 1 .. Len(ws)
  BY <1>1
<1>7. Drops(h, 1)
  BY <1>2, <1>3, <1>4, <1>5, <1>6 DEF Drops, ws, rest
<1>8. hist \in History
  BY DEF DataOK
<1>9. /\ hist' \in History
      /\ hist'.issued = hist.issued /\ hist'.kept = hist.kept
      /\ hist'.settled = hist.settled /\ hist'.repeated = hist.repeated
      /\ hist'.half = hist.half
      /\ hist'.raced = (hist.raced \/ (ws[1].key = "all" /\ Others(h) # {}))
  BY <1>2, <1>8 DEF History
<1> QED
  BY <1>2, <1>7, <1>9 DEF Performs, write, ws

LEMMA IdleLeaves ==
    ASSUME DataOK, HandlersOK, NEW h \in Handlers, Active(h), Turn(h),
           hs' = [hs EXCEPT ![h] = Idle], def' = def, store' = store
    PROVE  Leaves(h)
BY Typed, IdleIs DEF Leaves

LEMMA ReturnDoes ==
    ASSUME DataOK, HandlersOK, NEW h \in Handlers, Return(h)
    PROVE  Returns(h)
<1>1. /\ hs[h].pc = "return" /\ hs[h].todo = <<>> /\ Turn(h)
      /\ hs' = [hs EXCEPT ![h] = Idle] /\ Keep
      /\ hist' = [hist EXCEPT !.kept = IF hs[h].shared \/ hs[h].id = 0 THEN @
                                       ELSE @ \union {hs[h].id}]
  BY DEF Return, At
<1>2. Leaves(h)
  BY <1>1, IdleLeaves DEF Active, Keep
<1>3. hist \in History /\ hs[h].id \in 0 .. MaxIds
  BY Typed DEF DataOK
<1>4. hs[h].id # 0 => hs[h].id \in Ids
  BY <1>3, BoundsAreNumbers DEF BoundsAreNumbers, Ids
<1> QED
  BY <1>1, <1>2, <1>3, <1>4 DEF Returns, Keep, History

LEMMA HalvesWhen ==
    ASSUME DataOK, NEW p \in BOOLEAN, hist' = [hist EXCEPT !.half = @ \/ p]
    PROVE  Halves(p)
BY DEF DataOK, History, Halves

LEMMA FailDoes ==
    ASSUME DataOK, HandlersOK, NEW h \in Handlers, Fail(h)
    PROVE  Fails(h)
<1>1. /\ hs[h].pc = "fail" /\ hs[h].todo = <<>> /\ Turn(h)
      /\ hs' = [hs EXCEPT ![h] = Idle] /\ alarm' = Redelivered(h)
      /\ UNCHANGED <<def, store, budget>>
      /\ hist' = [hist EXCEPT !.half = @ \/ Halfway(h)]
  BY DEF Fail, At
<1>2. Leaves(h)
  BY <1>1, IdleLeaves DEF Active
<1>3. Halfway(h) \in BOOLEAN
  BY Typed DEF Halfway, HandlerState
<1>4. Halves(Halfway(h))
  BY <1>1, <1>3, HalvesWhen
<1> QED
  BY <1>1, <1>2, <1>4 DEF Fails

LEMMA FaultDoes ==
    ASSUME DataOK, HandlersOK, NEW h \in Handlers, Fault(h)
    PROVE  Breaks(h) \/ \E n \in 1 .. Len(hs[h].todo) : Skips(h, n)
<1> DEFINE p == \E i \in DOMAIN hs[h].todo :
                   hs[h].todo[i].soft /\ hs[h].todo[i].key = "all"
<1>1. /\ hs[h].todo # <<>> /\ Turn(h) /\ def' = def /\ store' = store
      /\ budget' = [budget EXCEPT !.faults = @ + 1]
      /\ hist' = [hist EXCEPT !.half = @ \/ Halfway(h) \/ p]
  BY DEF Fault
<1>2. Faulty
  BY <1>1 DEF Faulty, DataOK
<1>3. Halfway(h) \in BOOLEAN /\ p \in BOOLEAN
  BY Typed DEF Halfway, HandlerState
<1> HIDE DEF p
<1>4. hist' \in History
  BY <1>1, <1>3 DEF DataOK, History
<1>5. Halves(Halfway(h)) /\ Halves(p)
  BY <1>1, <1>3, <1>4 DEF DataOK, History, Halves
<1>6. CASE \E n \in 1 .. Len(hs[h].todo) :
              /\ SoftUpTo(hs[h].todo, n)
              /\ hs' = [hs EXCEPT ![h].todo = SubSeq(@, n + 1, Len(@))]
              /\ alarm' = alarm
  <2>1. PICK n \in 1 .. Len(hs[h].todo) :
              /\ SoftUpTo(hs[h].todo, n)
              /\ hs' = [hs EXCEPT ![h].todo = SubSeq(@, n + 1, Len(@))]
              /\ alarm' = alarm
    BY <1>6
  <2>2. hs' = [hs EXCEPT ![h].todo = SubSeq(hs[h].todo, n + 1, Len(hs[h].todo))]
    BY <2>1, Typed
  <2>3. Drops(h, n)
    BY <1>1, <2>2, Dropping
  <2> QED
    BY <1>2, <1>5, <2>1, <2>3 DEF Skips, p, write
<1>7. CASE hs' = [hs EXCEPT ![h] = Idle] /\ alarm' = Redelivered(h)
  <2>1. Active(h)
    BY <1>1, IdleIs DEF HandlersOK
  <2> QED
    BY <1>1, <1>2, <1>5, <1>7, <2>1, IdleLeaves DEF Breaks
<1> QED
  BY <1>6, <1>7 DEF Fault

LEMMA CrashDoes ==
    ASSUME DataOK, HandlersOK, Crash
    PROVE  Crashes
<1>1. Faulty
  BY DEF Crash, Faulty, DataOK
<1>2. \A h \in Handlers : Halfway(h) \in BOOLEAN
  BY Typed DEF Halfway, HandlerState
<1> DEFINE p == \E h \in Handlers : Halfway(h)
<1>3. p \in BOOLEAN
  BY <1>2
<1>4. hist' = [hist EXCEPT !.half = @ \/ p]
  BY DEF Crash
<1> HIDE DEF p
<1>5. Halves(p)
  BY <1>3, <1>4, HalvesWhen
<1> QED
  BY <1>1, <1>5 DEF Crash, Crashes, p

LEMMA TickDoes ==
    ASSUME DataOK, HandlersOK, Tick
    PROVE  Ticks
<1> DEFINE older == IF store.age = Absent \/ store.age >= def.retry.maxDuration
                    THEN store.age ELSE store.age + 1
           nearer == IF alarm \in {Absent, 0} THEN alarm ELSE alarm - 1
<1>1. /\ \A h \in Handlers : Yielding(h)
      /\ store' = [store EXCEPT !.age = older] /\ alarm' = nearer
      /\ hs' = hs /\ hist' = hist /\ def' = def /\ budget' = budget
  BY DEF Tick
<1>2. store \in StoreState /\ (alarm = Absent \/ alarm \in Nat)
  BY DEF DataOK
<1>3. def.retry.maxDuration \in Nat /\ Absent \notin Nat
  BY DefinitionIs, AbsentIsNoValue DEF DataOK, AbsentIsNoValue
<1>4. store.age = Absent \/ store.age \in 0 .. def.retry.maxDuration
  BY <1>2 DEF StoreState
<1>5. /\ older \in {Absent} \union 0 .. def.retry.maxDuration
      /\ store.age = Absent => older = Absent
  BY <1>3, <1>4
<1>6. (nearer = Absent \/ nearer \in Nat) /\ (nearer = Absent <=> alarm = Absent)
  BY <1>2, <1>3
<1> HIDE DEF older, nearer
<1>7. store'.age = older
  BY <1>1, <1>2 DEF StoreState
<1> QED
  BY <1>1, <1>5, <1>6, <1>7 DEF Ticks

LEMMA ExecutionDoes ==
    ASSUME DataOK, HandlersOK, NEW h \in Handlers, Execution(h)
    PROVE  \/ Loads(h) \/ Misses(h) \/ GivesUp(h) \/ RunEnds(h) \/ FlushEnds(h)
           \/ WillRetry(h) \/ RunIsLost(h)
BY ExecuteDoes, MissesDoes, ExecuteTooLateDoes, RunSucceedsDoes, FlushSucceedsDoes,
   RunFailsDoes, RunTerminatesDoes DEF Execution

(* The kinds of steps: those of a handler going on, of one that begins, of *)
(* writes, of ends and failures, and of time.                              *)
GoesOn(h) ==
    \/ FirstRuns(h) \/ Loads(h) \/ Misses(h) \/ GivesUp(h) \/ RunEnds(h)
    \/ FlushEnds(h) \/ WillRetry(h) \/ RunIsLost(h) \/ SchedulesNext(h)
    \/ FlushPurges(h) \/ Concludes(h) \/ Reduces(h) \/ FunctionReturns(h)
    \/ GoesIdle(h) \/ TaskSettles(h)

Comes(h) ==
    AnswersOnly(h) \/ Refuses(h) \/ CreatesNew(h) \/ WorksOn(h) \/ Purges(h)

Changes ==
    \/ \E h \in Handlers :
          \/ GoesOn(h) \/ Comes(h) \/ Performs(h)
          \/ \E n \in 1 .. Len(hs[h].todo) : Skips(h, n)
          \/ Returns(h) \/ Fails(h) \/ Breaks(h)
    \/ AlarmIsLost \/ Crashes \/ Ticks

LEMMA GoingOn ==
    ASSUME DataOK, HandlersOK, NEW h \in Handlers,
           Execution(h) \/ ContinuousStep(h) \/ DebounceStep(h) \/ TaskStep(h)
    PROVE  GoesOn(h)
<1>1. CASE Execution(h)
  BY <1>1, ExecutionDoes DEF GoesOn
<1>2. CASE ContinuousStep(h)
  BY <1>2, FirstRunDoes, ScheduleNextRunDoes, ConcludesDoes DEF GoesOn, ContinuousStep
<1>3. CASE DebounceStep(h)
  BY <1>3, ReduceDoes, FlushedDoes, ConcludesDoes DEF GoesOn, DebounceStep
<1>4. CASE TaskStep(h)
  BY <1>4, TaskReturnsDoes, GoIdleDoes, TaskSettlesDoes, ConcludesDoes
  DEF GoesOn, TaskStep
<1> QED
  BY <1>1, <1>2, <1>3, <1>4

LEMMA NextDoes ==
    ASSUME DataOK, HandlersOK, Next
    PROVE  Changes
<1>1. ASSUME NEW h \in Requests, call(h) PROVE Changes
  BY <1>1, CallDoes, HandlerKinds DEF Changes, Comes
<1>2. ASSUME handleAlarm PROVE Changes
  BY <1>2, AlarmDoes, HandlerKinds DEF Changes, Comes
<1>3. ASSUME NEW h \in Handlers, Step(h) PROVE Changes
  BY <1>3, PerformDoes, ReturnDoes, FailDoes, GoingOn DEF Step, Changes
<1>4. ASSUME Tick PROVE Changes
  BY <1>4, TickDoes DEF Changes
<1>5. ASSUME Failure PROVE Changes
  BY <1>5, CrashDoes, FaultDoes DEF Failure, Changes
<1> QED
  BY <1>1, <1>2, <1>3, <1>4, <1>5 DEF Next

-----------------------------------------------------------------------------
(* The types of the variables, and where each handler can be.              *)

Placed(h) ==
    /\ ~Active(h) => hs[h] = Idle
    /\ hs[h].pc = "started" => def.type = "continuous"
    /\ hs[h].pc = "reduce" => def.type = "debounce" /\ h \in Requests
    /\ hs[h].pc \in {"settle", "idling"} => def.type = "task"
    /\ hs[h].pc = "run" => hs[h].attempt >= 1
    /\ hs[h].pc = "result" => hs[h].result # "none"
    /\ hs[h].created => h \in Requests
    /\ hs[h].id # 0 /\ def.type # "debounce"
          => hs[h].pc \in {"settle", "idling", "result", "return"}
    /\ def.type = "workerPool" => hs[h].pc \in {"idle", "fail"}

Met(h) == \A g \in Handlers \ {h} : Active(h) /\ Active(g) => hs[h].shared

LEMMA Places ==
    HandlersOK <=> /\ hs \in [Handlers -> HandlerState]
                   /\ \A h \in Handlers : Placed(h) /\ Met(h)
BY DEF HandlersOK, Placed, Met

LEMMA PlacesNext ==
    ASSUME def' = def, hs' \in [Handlers -> HandlerState],
           \A h \in Handlers : Placed(h)' /\ Met(h)'
    PROVE  HandlersOK'
<1>1. HandlerState' = HandlerState
  BY DEF HandlerState, Writes
<1> QED
  BY <1>1 DEF HandlersOK, Placed, Met

(* What is common to all steps of a handler that goes on. *)
LEMMA GoesOnMoves ==
    ASSUME NEW h, GoesOn(h)
    PROVE  /\ Moves(h, hs[h].pc, hs'[h].pc)
           /\ hs[h].pc \in {"started", "execute", "run", "result", "reduce", "settle",
                            "idling"}
           /\ hs'[h].pc \in {"execute", "run", "result", "return", "fail", "settle",
                             "idling"}
           /\ Unhistoric \/ (\E ids : Discards(ids)) \/ Issues \/ FlushEnds(h)
BY DEF GoesOn, FirstRuns, Loads, Misses, GivesUp, RunEnds, FlushEnds, WillRetry,
       RunIsLost, SchedulesNext, FlushPurges, Concludes, Reduces, FunctionReturns,
       GoesIdle, TaskSettles, Moves

LEMMA ComesBegins ==
    ASSUME NEW h, Comes(h)
    PROVE  /\ Begins(h)
           /\ hs'[h].pc \in {"started", "execute", "reduce", "fail", "return"}
           /\ Unhistoric \/ Discards(Contents)
BY DEF Comes, AnswersOnly, Refuses, CreatesNew, WorksOn, Purges

LEMMA DataStays ==
    ASSUME DataOK, HandlersOK, Changes
    PROVE  DataOK'
<1>1. /\ def \in Definitions /\ store \in StoreState /\ hist \in History
      /\ alarm = Absent \/ alarm \in Nat
      /\ budget \in [calls : Nat, failures : Nat, faults : Nat]
  BY DEF DataOK
<1>2. def' = def => StoreState' = StoreState
  BY DEF StoreState
<1>3. (Unhistoric \/ (\E ids : Discards(ids)) \/ Issues) => hist' \in History
  BY <1>1 DEF Unhistoric, Discards, Issues
<1>4. \A h \in Handlers : Redelivered(h) = Absent \/ Redelivered(h) \in Nat
  BY <1>1 DEF Redelivered
<1>5. ASSUME NEW h \in Handlers, GoesOn(h) PROVE DataOK'
  <2>1. Moves(h, hs[h].pc, hs'[h].pc) /\ hist' \in History
    BY <1>3, <1>5, GoesOnMoves DEF FlushEnds
  <2> QED
    BY <1>1, <1>2, <2>1 DEF Moves, DataOK
<1>6. ASSUME NEW h \in Handlers, Comes(h) PROVE DataOK'
  <2>1. Begins(h) /\ hist' \in History
    BY <1>3, <1>6, ComesBegins
  <2> QED
    BY <1>1, <1>2, <2>1 DEF Begins, DataOK
<1>7. ASSUME NEW h \in Handlers, Performs(h) PROVE DataOK'
  <2>1. Drops(h, 1) /\ hs[h].todo \in Seq(Writes)
    BY <1>7, Typed DEF Performs
  <2>2. write(h, 1) \in Writes /\ def' = def
    BY <2>1, Members DEF Drops, write
  <2>3. store' \in StoreState
    BY <1>7, <2>2, StoredIs DEF Performs
  <2>4. alarm' = Absent \/ alarm' \in Nat
    BY <1>1, <1>7, <2>2 DEF Performs, Writes, Maybe
  <2> QED
    BY <1>1, <1>2, <1>7, <2>2, <2>3, <2>4 DEF Performs, DataOK
<1>8. ASSUME NEW h \in Handlers, NEW n \in 1 .. Len(hs[h].todo), Skips(h, n)
      PROVE  DataOK'
  BY <1>1, <1>2, <1>8 DEF Skips, Faulty, Halves, DataOK
<1>9. ASSUME NEW h \in Handlers, Returns(h) PROVE DataOK'
  BY <1>1, <1>2, <1>9 DEF Returns, Leaves, DataOK
<1>10. ASSUME NEW h \in Handlers, Fails(h) PROVE DataOK'
  BY <1>1, <1>2, <1>4, <1>10 DEF Fails, Leaves, Halves, DataOK
<1>11. ASSUME NEW h \in Handlers, Breaks(h) PROVE DataOK'
  BY <1>1, <1>2, <1>4, <1>11 DEF Breaks, Leaves, Faulty, Halves, DataOK
<1>12. ASSUME AlarmIsLost PROVE DataOK'
  BY <1>1, <1>2, <1>12 DEF AlarmIsLost, DataOK
<1>13. ASSUME Crashes PROVE DataOK'
  BY <1>1, <1>2, <1>4, <1>13, HandlerKinds DEF Crashes, Faulty, Halves, DataOK
<1>14. ASSUME Ticks PROVE DataOK'
  <2>1. store' \in StoreState /\ def' = def
    BY <1>1, <1>14 DEF Ticks, StoreState
  <2> QED
    BY <1>1, <1>2, <1>14, <2>1 DEF Ticks, DataOK
<1> QED
  BY <1>5, <1>6, <1>7, <1>8, <1>9, <1>10, <1>11, <1>12, <1>13, <1>14 DEF Changes

LEMMA HandlersStay ==
    ASSUME DataOK, HandlersOK, Changes
    PROVE  HandlersOK'
<1>1. /\ hs \in [Handlers -> HandlerState]
      /\ \A h \in Handlers : Placed(h) /\ Met(h)
  BY Places
<1>2. \A g \in Handlers : hs'[g] = hs[g] /\ def' = def => Placed(g)'
  BY <1>1 DEF Placed, Active
<1>3. ASSUME NEW h \in Handlers, GoesOn(h) PROVE HandlersOK'
  <2>1. Moves(h, hs[h].pc, hs'[h].pc)
    BY <1>3, GoesOnMoves
  <2>2. Placed(h)'
    <3>1. /\ Active(h)' /\ def.type # "workerPool" /\ hs'[h].pc # "started"
          /\ hs'[h].pc # "reduce" /\ (hs'[h].created => h \in Requests) /\ def' = def
      BY <1>1, <1>3, GoesOnMoves DEF Moves, Placed, Active
    <3>2. hs'[h].pc \in {"settle", "idling"} => def.type = "task"
      BY <1>1, <1>3
      DEF GoesOn, FirstRuns, Loads, Misses, GivesUp, RunEnds, FlushEnds, WillRetry,
          RunIsLost, SchedulesNext, FlushPurges, Concludes, Reduces, FunctionReturns,
          GoesIdle, TaskSettles, Moves, Placed
    <3>3. hs'[h].pc = "run" => hs'[h].attempt >= 1
      BY <1>1, <1>3
      DEF GoesOn, FirstRuns, Loads, Misses, GivesUp, RunEnds, FlushEnds, WillRetry,
          RunIsLost, SchedulesNext, FlushPurges, Concludes, Reduces, FunctionReturns,
          GoesIdle, TaskSettles, Moves
    <3>4. hs'[h].pc = "result" => hs'[h].result # "none"
      BY <1>1, <1>3
      DEF GoesOn, FirstRuns, Loads, Misses, GivesUp, RunEnds, FlushEnds, WillRetry,
          RunIsLost, SchedulesNext, FlushPurges, Concludes, Reduces, FunctionReturns,
          GoesIdle, TaskSettles, Moves, Over
    <3>5. hs'[h].id # 0 /\ def.type # "debounce"
             => hs'[h].pc \in {"settle", "idling", "result", "return"}
      BY <1>1, <1>3
      DEF GoesOn, FirstRuns, Loads, Misses, GivesUp, RunEnds, FlushEnds, WillRetry,
          RunIsLost, SchedulesNext, FlushPurges, Concludes, Reduces, FunctionReturns,
          GoesIdle, TaskSettles, Moves, Rest, Placed
    <3> QED
      BY <3>1, <3>2, <3>3, <3>4, <3>5 DEF Placed
  <2>3. \A g \in Handlers : Placed(g)'
    BY <1>2, <2>1, <2>2 DEF Moves
  <2>4. \A g \in Handlers : Met(g)'
    BY <1>1, <1>3, <2>1, GoesOnMoves DEF Met, Moves, Active
  <2> QED
    BY <2>1, <2>3, <2>4, PlacesNext DEF Moves
<1>4. ASSUME NEW h \in Handlers, Comes(h) PROVE HandlersOK'
  <2>1. Begins(h) /\ hs'[h].pc # "idle"
    BY <1>4, ComesBegins
  <2>2. Placed(h)'
    <3>1. /\ Active(h)' /\ hs'[h].id = 0 /\ def' = def
          /\ hs'[h].pc \notin {"settle", "idling", "run", "result"}
      BY <1>4, <2>1, ComesBegins DEF Begins, Active
    <3>2. /\ hs'[h].pc = "started" => def.type = "continuous"
          /\ hs'[h].pc = "reduce" => def.type = "debounce" /\ h \in Requests
          /\ hs'[h].created => h \in Requests
          /\ def.type = "workerPool" => hs'[h].pc = "fail"
      BY <1>4 DEF Comes, AnswersOnly, Refuses, CreatesNew, WorksOn, Purges
    <3> QED
      BY <3>1, <3>2 DEF Placed
  <2>3. \A g \in Handlers : g # h => Placed(g)'
    <3> SUFFICES ASSUME NEW g \in Handlers, g # h PROVE Placed(g)'
      OBVIOUS
    <3>1. /\ hs'[g].pc = hs[g].pc /\ hs'[g].attempt = hs[g].attempt /\ def' = def
          /\ hs'[g].result = hs[g].result /\ hs'[g].created = hs[g].created
          /\ hs'[g].id = hs[g].id
          /\ ~Active(g) => hs'[g] = hs[g]
      BY <2>1 DEF Begins
    <3> QED
      BY <1>1, <3>1 DEF Placed, Active
  <2>4. Met(h)'
    BY <2>1 DEF Met, Begins, Others, Active
  <2>5. \A g \in Handlers : g # h => Met(g)'
    BY <2>1 DEF Met, Begins, Active
  <2> QED
    BY <2>1, <2>2, <2>3, <2>4, <2>5, PlacesNext DEF Begins
<1>5. ASSUME NEW h \in Handlers, NEW n, Drops(h, n) PROVE HandlersOK'
  <2>1. Placed(h)'
    <3>1. /\ hs'[h].pc = hs[h].pc /\ hs'[h].attempt = hs[h].attempt /\ def' = def
          /\ hs'[h].result = hs[h].result /\ hs'[h].created = hs[h].created
          /\ hs'[h].id = hs[h].id
          /\ Len(hs[h].todo) >= 1
      BY <1>1, <1>5, Typed, Members DEF Drops
    <3>2. Active(h)
      BY <1>1, <3>1, IdleIs, Members, EmptySeq DEF Placed
    <3> QED
      BY <1>1, <3>1, <3>2 DEF Placed, Active
  <2>2. \A g \in Handlers : Placed(g)'
    BY <1>2, <1>5, <2>1 DEF Drops
  <2>3. \A g \in Handlers : Met(g)'
    BY <1>1, <1>5 DEF Drops, Met, Active
  <2> QED
    BY <1>5, <2>2, <2>3, PlacesNext DEF Drops
<1>6. ASSUME NEW h \in Handlers, Leaves(h) PROVE HandlersOK'
  <2>1. Placed(h)' /\ ~Active(h)'
    <3>1. hs'[h] = Idle
      BY <1>6 DEF Leaves
    <3>2. Idle.id = 0 /\ Idle.pc = "idle" /\ ~Idle.created
      BY IdleIs
    <3> QED
      BY <3>1, <3>2 DEF Placed, Active
  <2>2. \A g \in Handlers : Placed(g)'
    BY <1>2, <1>6, <2>1 DEF Leaves
  <2>3. \A g \in Handlers : Met(g)'
    BY <1>1, <1>6, <2>1 DEF Leaves, Met, Active
  <2> QED
    BY <1>6, <2>2, <2>3, PlacesNext DEF Leaves
<1>7. ASSUME Crashes PROVE HandlersOK'
  <2>1. \A g \in Handlers : hs'[g] = Idle
    BY <1>7 DEF Crashes
  <2>2. Idle.id = 0 /\ Idle.pc = "idle" /\ ~Idle.created /\ Idle \in HandlerState
    BY IdleIs
  <2>3. \A g \in Handlers : Placed(g)' /\ Met(g)'
    BY <2>1, <2>2 DEF Placed, Met, Active
  <2>4. hs' \in [Handlers -> HandlerState] /\ def' = def
    BY <1>7, <2>2 DEF Crashes, Faulty
  <2> QED
    BY <2>3, <2>4, PlacesNext
<1>8. ASSUME hs' = hs, def' = def PROVE HandlersOK'
  BY <1>1, <1>8, PlacesNext DEF Placed, Met, Active
<1> QED
  BY <1>3, <1>4, <1>5, <1>6, <1>7, <1>8
  DEF Changes, Performs, Skips, Returns, Fails, Breaks, AlarmIsLost, Ticks

-----------------------------------------------------------------------------
(* The order of the writes that are pending.                               *)

Ordered(h) ==
    \A i \in DOMAIN hs[h].todo :
       /\ write(h, i).soft => write(h, i).val = Absent
       /\ write(h, i).key = "meta" =>
             /\ i = 1 /\ hs[h].created
             /\ def.type = "continuous" => /\ hs[h].pc = "started"
                                           /\ Pending(h, "state")
                                           /\ Pending(h, "status")
             /\ def.type = "debounce" => hs[h].pc \in {"reduce", "fail"}
       /\ write(h, i).key = "all" =>
             /\ i = Len(hs[h].todo)
             /\ \/ hs[h].pc = "return"
                \/ hs[h].pc = "result" /\ hs[h].result = "terminated"
             /\ i = 1 => alarm = Absent
             /\ i # 1 => /\ write(h, i - 1).key = "alarm"
                         /\ write(h, i - 1).val = Absent
                         /\ write(h, i - 1).soft = write(h, i).soft
       /\ write(h, i).key = "alarm" /\ def.type # "task" =>
             /\ write(h, i).val = Absent => Pending(h, "all")
             /\ \A j \in DOMAIN hs[h].todo :
                   j > i => write(h, j).key # "state"

LEMMA Orders == WritesOK <=> \A h \in Handlers : Ordered(h)
BY DEF WritesOK, Ordered

LEMMA OrdersNext == WritesOK' <=> \A h \in Handlers : Ordered(h)'
BY DEF WritesOK, Ordered

(* While h has its turn, the others wait.                                  *)
LEMMA Waiting ==
    ASSUME DataOK, HandlersOK, NEW h, NEW g \in Handlers, g # h, Turn(h)
    PROVE  /\ \/ hs[g] = Idle
              \/ hs[g].todo = <<>> /\ hs[g].pc \in InUserCode
              \/ Active(g) /\ 1 \in DOMAIN hs[g].todo /\ write(g, 1).key = "event"
           /\ hs[g].todo = <<>> \/ (1 \in DOMAIN hs[g].todo /\ write(g, 1).key = "event")
<1>1. Yielding(g)
  BY DEF Turn
<1>2. ~Active(g) => hs[g] = Idle /\ hs[g].todo = <<>>
  BY IdleIs DEF HandlersOK
<1>3. hs[g].todo # <<>> => 1 \in DOMAIN hs[g].todo /\ Head(hs[g].todo) = write(g, 1)
  BY Typed, Members DEF write
<1> QED
  BY <1>1, <1>2, <1>3 DEF Yielding, Active

(* A handler that waits keeps its writes in order.                         *)
LEMMA StaysOrdered ==
    ASSUME DataOK, HandlersOK, WritesOK, NEW h, NEW g \in Handlers, g # h, Turn(h),
           hs'[g].todo = hs[g].todo, hs'[g].pc = hs[g].pc,
           hs'[g].result = hs[g].result, hs'[g].created = hs[g].created, def' = def
    PROVE  Ordered(g)'
<1>1. Ordered(g)
  BY Orders
<1>2. hs[g].todo = <<>> \/ write(g, 1).key = "event"
  BY Waiting
<1>3. \A i \in DOMAIN hs[g].todo : write(g, i).key = "all" => i # 1
  <2>1. hs[g].todo = <<>> => DOMAIN hs[g].todo = {}
    BY Typed, Members
  <2> QED
    BY <1>2, <2>1
<1>4. \A i \in DOMAIN hs'[g].todo : write(g, i)' = write(g, i)
  BY DEF write
<1>5. \A k : Pending(g, k)' <=> Pending(g, k)
  BY DEF Pending
<1> QED
  BY <1>1, <1>3, <1>4, <1>5 DEF Ordered, write

(* New lists in order.                                                     *)
LEMMA NotesInOrder ==
    ASSUME NEW h, NEW S, hs'[h].todo \in Seq(S), def' = def,
           \/ def.type = "task"
           \/ \A w \in S : w.key # "state"
           \/ \A w \in S : w.key # "alarm"
           \/ \A i, j \in DOMAIN hs'[h].todo :
                 hs'[h].todo[i].key = "alarm" /\ j > i => hs'[h].todo[j].key # "state",
           \A w \in S : /\ w.soft => w.val = Absent
                        /\ w.key \notin {"meta", "all"}
                        /\ w.key = "alarm" => w.val # Absent \/ def.type = "task"
    PROVE  Ordered(h)'
<1>1. \A i \in DOMAIN hs'[h].todo : hs'[h].todo[i] \in S
  BY Members
<1> QED
  BY <1>1 DEF Ordered, write

LEMMA EndingInOrder ==
    ASSUME NEW h, Ending(hs'[h].todo),
           \/ hs'[h].pc = "return"
           \/ hs'[h].pc = "result" /\ hs'[h].result = "terminated"
    PROVE  Ordered(h)'
<1> DEFINE ws == hs'[h].todo
<1>1. /\ ws \in Seq(Writes) /\ Len(ws) >= 2 /\ Len(ws) \in Nat /\ DOMAIN ws = 1 .. Len(ws)
      /\ ws[Len(ws)].key = "all" /\ ws[Len(ws)].val = Absent
      /\ ws[Len(ws) - 1].key = "alarm" /\ ws[Len(ws) - 1].val = Absent
      /\ ws[Len(ws) - 1].soft = ws[Len(ws)].soft
      /\ \A i \in DOMAIN ws : i < Len(ws) - 1 => ws[i] \in Note
  BY Members DEF Ending
<1>2. \A i \in DOMAIN ws : write(h, i)' = ws[i]
  BY DEF write
<1>3. \A i \in DOMAIN ws : i = Len(ws) \/ i = Len(ws) - 1 \/ i < Len(ws) - 1
  BY <1>1
<1>4. \A w \in Note : /\ w.soft => w.val = Absent
                      /\ w.key \notin {"meta", "all", "alarm", "state"}
  BY DEF Note
<1>5. Len(ws) \in DOMAIN ws /\ Len(ws) # 1
  BY <1>1
<1>6. Pending(h, "all")'
  BY <1>1, <1>5 DEF Pending
<1> SUFFICES ASSUME NEW i \in DOMAIN ws
             PROVE  /\ ws[i].soft => ws[i].val = Absent
                    /\ ws[i].key # "meta"
                    /\ ws[i].key = "all" => i = Len(ws)
                    /\ ws[i].key = "alarm" => 
                          \A j \in DOMAIN ws : j > i => ws[j].key # "state"
  <2> HIDE DEF ws
  <2>1. hs'[h].todo = ws
    BY DEF ws
  <2>2. \A i \in DOMAIN ws : ws[i].key = "all" =>
            /\ i = Len(ws) /\ i # 1
            /\ ws[i - 1].key = "alarm" /\ ws[i - 1].val = Absent
            /\ ws[i - 1].soft = ws[i].soft
    BY <1>1, <1>5
  <2> QED
    BY <1>2, <1>6, <2>1, <2>2 DEF Ordered, write
<1> HIDE DEF ws
<1>7. CASE i = Len(ws)
  BY <1>1, <1>7
<1>8. CASE i = Len(ws) - 1
  <2>1. \A j \in DOMAIN ws : j > i => j = Len(ws)
    BY <1>1, <1>8
  <2> QED
    BY <1>1, <1>8, <2>1
<1>9. CASE i < Len(ws) - 1
  BY <1>1, <1>4, <1>9
<1> QED
  BY <1>3, <1>7, <1>8, <1>9

LEMMA ListsAre ==
    /\ \A w \in Note : /\ w.soft => w.val = Absent
                       /\ w.key \in {"attempt", "age", "other", "event", "count"}
                       /\ w.key = "count" => w.val # 0
    /\ \A w \in Setting : ~w.soft /\ w.key = "alarm" /\ w.val # Absent
    /\ \A v : \A w \in Saving(v) : ~w.soft /\ w.key = "state" /\ w.val = v
    /\ \A w \in Timing : /\ w.soft => w.val = Absent
                         /\ w.key \in {"attempt", "age", "other", "event", "count",
                                       "alarm", "scheduledAt"}
                         /\ w.key = "count" => w.val # 0
BY DEF Note, Setting, Saving, Timing

LEMMA GoesOnOrdered ==
    ASSUME NEW h, GoesOn(h), DataOK, HandlersOK
    PROVE  Ordered(h)'
<1>1. def' = def
  BY GoesOnMoves DEF Moves
<1>2. ASSUME hs'[h].todo \in Seq(Note) PROVE Ordered(h)'
  BY <1>1, <1>2, NotesInOrder, ListsAre
<1>3. ASSUME hs'[h].todo \in Seq(Note \union Setting) PROVE Ordered(h)'
  <2> DEFINE S == Note \union Setting
  <2>1. \A w \in S : /\ w.soft => w.val = Absent
                     /\ w.key \notin {"meta", "all", "state"}
                     /\ w.key = "alarm" => w.val # Absent
    BY ListsAre
  <2>2. hs'[h].todo \in Seq(S)
    BY <1>3
  <2> HIDE DEF S
  <2> QED
    BY <1>1, <2>1, <2>2, NotesInOrder
<1>4. ASSUME NEW v, hs'[h].todo \in Seq(Note \union Saving(v)) PROVE Ordered(h)'
  <2> DEFINE S == Note \union Saving(v)
  <2>1. \A w \in S : /\ w.soft => w.val = Absent
                     /\ w.key \notin {"meta", "all", "alarm"}
    BY ListsAre
  <2>2. hs'[h].todo \in Seq(S)
    BY <1>4
  <2> HIDE DEF S
  <2> QED
    BY <1>1, <2>1, <2>2, NotesInOrder
<1>5. ASSUME NEW v, hs'[h].todo \in Seq(Timing \union Saving(v)), def.type = "task"
      PROVE  Ordered(h)'
  <2> DEFINE S == Timing \union Saving(v)
  <2>1. \A w \in S : /\ w.soft => w.val = Absent
                     /\ w.key \notin {"meta", "all"}
    BY ListsAre
  <2>2. hs'[h].todo \in Seq(S)
    BY <1>5
  <2> HIDE DEF S
  <2> QED
    BY <1>1, <1>5, <2>1, <2>2, NotesInOrder
<1>6. CASE FirstRuns(h)
  <2>1. Seq(Setting) \subseteq Seq(Note \union Setting)
    BY Subseq
  <2> QED
    BY <1>2, <1>3, <1>6, <2>1 DEF FirstRuns
<1>7. CASE Loads(h) \/ FlushEnds(h) \/ RunIsLost(h)
  BY <1>2, <1>7 DEF Loads, FlushEnds, RunIsLost
<1>8. CASE Misses(h) \/ Concludes(h) \/ GoesIdle(h)
  BY <1>2, <1>8, NoteLists DEF Misses, Concludes, GoesIdle
<1>9. CASE GivesUp(h) \/ FlushPurges(h)
  BY <1>9, EndingInOrder DEF GivesUp, FlushPurges, Moves, Over
<1>10. CASE RunEnds(h)
  BY <1>4, <1>10 DEF RunEnds, TakesIn
<1>11. CASE WillRetry(h) \/ SchedulesNext(h)
  BY <1>3, <1>11 DEF WillRetry, SchedulesNext
<1>12. CASE Reduces(h)
  <2> DEFINE v == Seen(h) \union ({NewId} \ {0})
             S == Note \union Saving(v) \union Setting
  <2>1. \A w \in S : /\ w.soft => w.val = Absent
                     /\ w.key \notin {"meta", "all"}
                     /\ w.key = "alarm" => w.val # Absent
    BY ListsAre
  <2>2. /\ hs'[h].todo \in Seq(S)
        /\ \A i, j \in DOMAIN hs'[h].todo :
              hs'[h].todo[i].key = "alarm" /\ j > i => hs'[h].todo[j].key # "state"
    BY <1>12 DEF Reduces
  <2> HIDE DEF S
  <2> QED
    BY <1>1, <2>1, <2>2, NotesInOrder
<1>13. CASE FunctionReturns(h)
  <2>1. hs'[h].todo \in Seq(Timing) /\ def.type = "task"
    BY <1>13 DEF FunctionReturns
  <2>2. hs'[h].todo \in Seq(Timing \union Saving({}))
    BY <2>1, Subseq
  <2> QED
    BY <1>5, <2>1, <2>2
<1>14. CASE TaskSettles(h)
  <2>1. def.type = "task"
    BY <1>14 DEF TaskSettles, HandlersOK, Moves
  <2> QED
    BY <1>5, <1>14, <2>1 DEF TaskSettles, Settled
<1> QED
  BY <1>6, <1>7, <1>8, <1>9, <1>10, <1>11, <1>12, <1>13, <1>14 DEF GoesOn

LEMMA ComesOrdered ==
    ASSUME NEW h, Comes(h), DataOK
    PROVE  Ordered(h)'
<1>1. def' = def
  BY ComesBegins DEF Begins
<1>2. ASSUME hs'[h].todo \in Seq(Note) PROVE Ordered(h)'
  BY <1>1, <1>2, NotesInOrder, ListsAre
<1>3. CASE AnswersOnly(h) \/ Refuses(h) \/ WorksOn(h)
  BY <1>2, <1>3, NoteLists DEF AnswersOnly, Refuses, WorksOn
<1>4. CASE Purges(h)
  BY <1>4, EndingInOrder DEF Purges
<1>5. CASE CreatesNew(h)
  BY <1>1, <1>5 DEF CreatesNew, Ordered, write
<1> QED
  BY <1>3, <1>4, <1>5 DEF Comes

LEMMA DropsOrdered ==
    ASSUME DataOK, HandlersOK, WritesOK, NEW h, NEW n, Drops(h, n),
           \/ n = 1 /\ alarm' = IF write(h, 1).key = "alarm" THEN write(h, 1).val ELSE alarm
           \/ SoftUpTo(hs[h].todo, n)
    PROVE  Ordered(h)'
<1> DEFINE ws == hs[h].todo
           rest == hs'[h].todo
<1>1. /\ h \in Handlers /\ ws \in Seq(Writes) /\ rest \in Seq(Writes)
      /\ Len(ws) \in Nat /\ DOMAIN ws = 1 .. Len(ws)
      /\ Len(rest) \in Nat /\ DOMAIN rest = 1 .. Len(rest)
  <2>1. h \in Handlers /\ hs'[h] \in HandlerState
    BY DEF Drops
  <2>2. rest \in Seq(Writes)
    BY <2>1 DEF HandlerState
  <2> QED
    BY <2>1, <2>2, Typed, Members
<1>2. /\ n \in 1 .. Len(ws) /\ Len(rest) = Len(ws) - n
      /\ \A i \in DOMAIN rest : i + n \in DOMAIN ws /\ rest[i] = ws[i + n]
      /\ \A i \in DOMAIN ws : i > n => i - n \in DOMAIN rest /\ rest[i - n] = ws[i]
      /\ hs'[h].pc = hs[h].pc /\ hs'[h].result = hs[h].result
      /\ hs'[h].created = hs[h].created /\ def' = def
  BY DEF Drops
<1>3. /\ \A i \in DOMAIN ws :
            /\ ws[i].soft => ws[i].val = Absent
            /\ ws[i].key = "meta" => i = 1
            /\ ws[i].key = "all" =>
                  /\ i = Len(ws)
                  /\ \/ hs[h].pc = "return"
                     \/ hs[h].pc = "result" /\ hs[h].result = "terminated"
                  /\ i # 1 => /\ ws[i - 1].key = "alarm" /\ ws[i - 1].val = Absent
                              /\ ws[i - 1].soft = ws[i].soft
            /\ ws[i].key = "alarm" /\ def.type # "task" =>
                  /\ ws[i].val = Absent => \E j \in DOMAIN ws : ws[j].key = "all"
                  /\ \A j \in DOMAIN ws : j > i => ws[j].key # "state"
  BY ZenonT(60), <1>1, Orders DEF Ordered, write, Pending
<1>4. \/ n = 1 /\ alarm' = IF ws[1].key = "alarm" THEN ws[1].val ELSE alarm
      \/ /\ \A i \in 1 .. n : ws[i].soft
         /\ n < Len(ws) => ~ws[n + 1].soft
  BY DEF SoftUpTo, write
<1> SUFFICES ASSUME NEW i \in DOMAIN rest
             PROVE  /\ rest[i].soft => rest[i].val = Absent
                    /\ rest[i].key # "meta"
                    /\ rest[i].key = "all" =>
                          /\ i = Len(rest)
                          /\ \/ hs[h].pc = "return"
                             \/ hs[h].pc = "result" /\ hs[h].result = "terminated"
                          /\ i = 1 => alarm' = Absent
                          /\ i # 1 => /\ rest[i - 1].key = "alarm"
                                      /\ rest[i - 1].val = Absent
                                      /\ rest[i - 1].soft = rest[i].soft
                    /\ rest[i].key = "alarm" /\ def.type # "task" =>
                          /\ rest[i].val = Absent
                                => \E j \in DOMAIN rest : rest[j].key = "all"
                          /\ \A j \in DOMAIN rest : j > i => rest[j].key # "state"
  BY <1>2 DEF Ordered, write, Pending
<1> HIDE DEF ws, rest
<1> DEFINE k == i + n
<1>5. /\ k \in DOMAIN ws /\ rest[i] = ws[k] /\ k > n /\ k # 1 /\ i \in 1 .. Len(rest)
      /\ k = i + n /\ n \in Nat \ {0} /\ i \in Nat /\ k \in 1 .. Len(ws)
  BY <1>1, <1>2
<1> HIDE DEF k
<1>6. rest[i].soft => rest[i].val = Absent
  BY <1>3, <1>5
<1>7. rest[i].key # "meta"
  BY <1>3, <1>5
<1>8. ASSUME rest[i].key = "all"
      PROVE  /\ i = Len(rest)
             /\ \/ hs[h].pc = "return"
                \/ hs[h].pc = "result" /\ hs[h].result = "terminated"
             /\ i = 1 => alarm' = Absent
             /\ i # 1 => /\ rest[i - 1].key = "alarm"
                         /\ rest[i - 1].val = Absent
                         /\ rest[i - 1].soft = rest[i].soft
  <2>1. /\ k = Len(ws)
        /\ \/ hs[h].pc = "return"
           \/ hs[h].pc = "result" /\ hs[h].result = "terminated"
        /\ ws[k - 1].key = "alarm" /\ ws[k - 1].val = Absent
        /\ ws[k - 1].soft = ws[k].soft
    BY <1>3, <1>5, <1>8
  <2>2. i = Len(rest)
    BY <1>1, <1>2, <1>5, <2>1
  <2>3. ASSUME i = 1 PROVE alarm' = Absent
    <3>1. k - 1 = n /\ n + 1 = k
      BY <1>5, <2>3
    <3>2. CASE n = 1 /\ alarm' = IF ws[1].key = "alarm" THEN ws[1].val ELSE alarm
      BY <2>1, <3>1, <3>2
    <3>3. CASE /\ \A j \in 1 .. n : ws[j].soft
               /\ n < Len(ws) => ~ws[n + 1].soft
      <4>1. n \in 1 .. n /\ n < Len(ws)
        BY <1>5, <2>1, <3>1
      <4>2. ws[n].soft /\ ~ws[k].soft
        BY <3>1, <3>3, <4>1
      <4>3. ws[n].soft = ws[k].soft
        BY <2>1, <3>1
      <4> QED
        BY <4>2, <4>3
    <3> QED
      BY <1>4, <3>2, <3>3
  <2>4. ASSUME i # 1
        PROVE  rest[i - 1].key = "alarm" /\ rest[i - 1].val = Absent
               /\ rest[i - 1].soft = rest[i].soft
    <3>1. i - 1 \in DOMAIN rest /\ (i - 1) + n = k - 1
      BY <1>1, <1>5, <2>4
    <3>2. rest[i - 1] = ws[k - 1]
      BY <1>2, <3>1
    <3> QED
      BY <1>5, <2>1, <3>2
  <2> QED
    BY <2>1, <2>2, <2>3, <2>4
<1>9. ASSUME rest[i].key = "alarm", def.type # "task"
      PROVE  /\ rest[i].val = Absent => \E j \in DOMAIN rest : rest[j].key = "all"
             /\ \A j \in DOMAIN rest : j > i => rest[j].key # "state"
  <2>1. /\ ws[k].val = Absent => \E j \in DOMAIN ws : ws[j].key = "all"
        /\ \A j \in DOMAIN ws : j > k => ws[j].key # "state"
    BY <1>3, <1>5, <1>9
  <2>2. ASSUME rest[i].val = Absent PROVE \E j \in DOMAIN rest : rest[j].key = "all"
    <3>1. PICK j \in DOMAIN ws : ws[j].key = "all"
      BY <1>5, <2>1, <2>2
    <3>2. j = Len(ws) /\ j # k
      BY <1>3, <1>5, <1>9, <3>1
    <3>3. j > n
      BY <1>1, <1>5, <3>2
    <3> QED
      BY <1>2, <3>1, <3>3
  <2>3. ASSUME NEW j \in DOMAIN rest, j > i PROVE rest[j].key # "state"
    <3>1. j + n \in DOMAIN ws /\ rest[j] = ws[j + n] /\ j + n > k
      BY <1>1, <1>2, <1>5, <2>3
    <3> QED
      BY <2>1, <3>1
  <2> QED
    BY <2>2, <2>3
<1> QED
  BY <1>6, <1>7, <1>8, <1>9

LEMMA WritesStay ==
    ASSUME DataOK, HandlersOK, WritesOK, Changes
    PROVE  WritesOK'
<1>1. ASSUME NEW h \in Handlers, GoesOn(h) PROVE WritesOK'
  <2>1. Moves(h, hs[h].pc, hs'[h].pc)
    BY <1>1, GoesOnMoves
  <2>2. \A g \in Handlers : g # h => Ordered(g)'
    BY <2>1, StaysOrdered DEF Moves
  <2> QED
    BY <1>1, <2>2, GoesOnOrdered, OrdersNext
<1>2. ASSUME NEW h \in Handlers, Comes(h) PROVE WritesOK'
  <2>1. Begins(h)
    BY <1>2, ComesBegins
  <2>2. \A g \in Handlers : g # h => Ordered(g)'
    BY <2>1, StaysOrdered DEF Begins
  <2> QED
    BY <1>2, <2>2, ComesOrdered, OrdersNext
<1>3. ASSUME NEW h \in Handlers, NEW n, Drops(h, n),
             \/ /\ n = 1
                /\ alarm' = IF write(h, 1).key = "alarm" THEN write(h, 1).val ELSE alarm
             \/ SoftUpTo(hs[h].todo, n)
      PROVE  WritesOK'
  <2>1. \A g \in Handlers : g # h => Ordered(g)'
    BY <1>3, StaysOrdered DEF Drops
  <2> QED
    BY <1>3, <2>1, DropsOrdered, OrdersNext
<1>4. \A h \in Handlers : hs'[h] = Idle => Ordered(h)'
  <2>1. \A s \in Seq(Writes) : s = <<>> => DOMAIN s = {}
    BY Members
  <2>2. Idle.todo = <<>> /\ <<>> \in Seq(Writes)
    BY IdleIs, EmptySeq
  <2> QED
    BY <2>1, <2>2 DEF Ordered
<1>5. ASSUME NEW h \in Handlers, Leaves(h) PROVE WritesOK'
  <2>1. \A g \in Handlers : g # h => Ordered(g)'
    BY <1>5, StaysOrdered DEF Leaves
  <2> QED
    BY <1>4, <1>5, <2>1, OrdersNext DEF Leaves
<1>6. ASSUME AlarmIsLost PROVE WritesOK'
  <2>1. \A g \in Handlers : Ordered(g)
    BY Orders
  <2> QED
    BY <1>6, <2>1, OrdersNext DEF AlarmIsLost, Ordered, write, Pending
<1>7. ASSUME Crashes PROVE WritesOK'
  BY <1>4, <1>7, OrdersNext DEF Crashes
<1>8. ASSUME Ticks PROVE WritesOK'
  <2>1. \A g \in Handlers : Ordered(g) /\ (alarm = Absent => alarm' = Absent)
        /\ hs' = hs /\ def' = def
    BY <1>8, Orders DEF Ticks
  <2> QED
    BY <2>1, OrdersNext DEF Ordered, write, Pending
<1> QED
  BY <1>1, <1>2, <1>3, <1>5, <1>6, <1>7, <1>8
  DEF Changes, Performs, Skips, Returns, Fails, Breaks

-----------------------------------------------------------------------------
(* A job that is gone has left nothing behind.                             *)

Quietly(h) ==
    Active(h) /\ store.meta = Absent /\ (~hist.raced \/ ~hs[h].shared)
        => Harmless(h) \/ Creates(h)

Leaving == store.meta = Absent /\ ~hist.raced => store = Empty

LEMMA Gones == GoneOK <=> Leaving /\ \A h \in Handlers : Quietly(h)
BY DEF GoneOK, Leaving, Quietly

LEMMA GonesNext == GoneOK' <=> Leaving' /\ \A h \in Handlers : Quietly(h)'
BY DEF GoneOK, Leaving, Quietly

LEMMA StaysQuiet ==
    ASSUME GoneOK, NEW g \in Handlers, store'.meta = store.meta,
           hist.raced => hist'.raced, hs[g].shared => hs'[g].shared,
           hs'[g].pc = hs[g].pc, hs'[g].todo = hs[g].todo,
           hs'[g].result = hs[g].result
    PROVE  Quietly(g)'
BY Gones DEF Quietly, Active, Harmless, Creates

LEMMA GoneStays ==
    ASSUME DataOK, HandlersOK, WritesOK, GoneOK, Changes
    PROVE  GoneOK'
<1>1. ASSUME NEW h \in Handlers, GoesOn(h) PROVE GoneOK'
  <2>1. /\ Moves(h, hs[h].pc, hs'[h].pc)
        /\ hs[h].pc \in {"started", "execute", "run", "result", "reduce", "settle",
                         "idling"}
        /\ hist'.raced = hist.raced
    BY <1>1, GoesOnMoves DEF Unhistoric, Discards, Issues, FlushEnds
  <2>2. \A g \in Handlers : g # h => Quietly(g)'
    BY <2>1, StaysQuiet DEF Moves
  <2>3. Quietly(h)'
    <3> SUFFICES ASSUME store.meta = Absent, ~hist.raced \/ ~hs[h].shared
                 PROVE  Harmless(h)'
      BY <2>1 DEF Quietly, Moves
    <3>1. Harmless(h)
      BY <2>1, Gones DEF Quietly, Moves, Active, Creates
    <3>2. hs[h].pc = "result" /\ hs[h].result = "terminated"
      BY <2>1, <3>1 DEF Harmless
    <3>3. Concludes(h)
      BY <1>1, <3>2
      DEF GoesOn, FirstRuns, Loads, Misses, GivesUp, RunEnds, FlushEnds, WillRetry,
          RunIsLost, SchedulesNext, FlushPurges, Reduces, FunctionReturns,
          GoesIdle, TaskSettles, Moves
    <3> QED
      BY <3>3 DEF Concludes, Moves, Harmless
  <2> QED
    BY <2>1, <2>2, <2>3, Gones, GonesNext DEF Moves, Leaving
<1>2. ASSUME NEW h \in Handlers, Comes(h) PROVE GoneOK'
  <2>1. Begins(h) /\ hist'.raced = hist.raced
    BY <1>2, ComesBegins DEF Unhistoric, Discards
  <2>2. \A g \in Handlers : g # h => Quietly(g)'
    BY <2>1, StaysQuiet DEF Begins
  <2>3. Quietly(h)'
    <3>1. CASE AnswersOnly(h) \/ Refuses(h)
      BY <3>1 DEF AnswersOnly, Refuses, Quietly, Harmless
    <3>2. CASE CreatesNew(h)
      <4>1. /\ hs'[h].todo \in Seq(Writes) /\ hs'[h].todo # <<>>
            /\ hs'[h].todo[1].key = "meta"
        BY <3>2 DEF CreatesNew
      <4>2. Head(hs'[h].todo) = hs'[h].todo[1]
        BY <4>1, Members
      <4> QED
        BY <4>1, <4>2 DEF Quietly, Creates
    <3>3. CASE WorksOn(h) \/ Purges(h)
      BY <2>1, <3>3 DEF WorksOn, Purges, Begins, Quietly
    <3> QED
      BY <1>2, <3>1, <3>2, <3>3 DEF Comes
  <2> QED
    BY <2>1, <2>2, <2>3, Gones, GonesNext DEF Begins, Leaving
<1>3. ASSUME NEW h \in Handlers, Performs(h) PROVE GoneOK'
  <2> DEFINE w == write(h, 1)
  <2>1. /\ Drops(h, 1) /\ w \in Writes /\ hs[h].todo # <<>> /\ 1 \in DOMAIN hs[h].todo
        /\ Head(hs[h].todo) = w /\ Active(h) /\ hs'[h].pc = hs[h].pc
        /\ hs'[h].shared = hs[h].shared /\ hs'[h].result = hs[h].result
        /\ Len(hs'[h].todo) = Len(hs[h].todo) - 1
    <3>1. Drops(h, 1) /\ hs[h].todo \in Seq(Writes)
      BY <1>3, Typed DEF Performs
    <3>2. hs[h].todo # <<>>
      BY <3>1, Members, EmptySeq DEF Drops
    <3> QED
      BY <3>1, <3>2, Members, IdleIs DEF write, Drops, HandlersOK
  <2>2. /\ store' = Stored(w) /\ (hist.raced => hist'.raced)
        /\ w.key = "all" /\ Others(h) # {} => hist'.raced
    BY <1>3 DEF Performs
  <2>3. \A g \in Handlers : g # h /\ Active(g)' =>
           hs[g].shared /\ hs'[g].shared /\ hs[h].shared /\ Others(h) # {}
    BY <2>1 DEF Drops, Active, HandlersOK, Others
  <2>4. CASE w.key = "all"
    <3>1. store' = Empty /\ store'.meta = Absent
      BY <2>2, <2>4 DEF Stored, Empty
    <3>2. \A g \in Handlers : g # h => Quietly(g)'
      BY <2>2, <2>3, <2>4 DEF Quietly
    <3>3. Quietly(h)'
      <4>1. /\ 1 = Len(hs[h].todo)
            /\ \/ hs[h].pc = "return"
               \/ hs[h].pc = "result" /\ hs[h].result = "terminated"
        BY <2>1, <2>4, Orders DEF Ordered
      <4>2. hs'[h].todo = <<>>
        <5>1. hs'[h].todo \in Seq(Writes) /\ Len(hs'[h].todo) = 0
          BY <2>1, <4>1 DEF Drops, HandlerState
        <5> QED
          BY <5>1, EmptySeq, Members
      <4> QED
        BY <2>1, <4>1, <4>2 DEF Quietly, Harmless
    <3> QED
      BY <3>1, <3>2, <3>3, GonesNext DEF Leaving
  <2>5. CASE w.key = "meta"
    <3>1. store'.meta # Absent
      <4>1. w.val = "initializing"
        BY <2>1, <2>5 DEF Writes
      <4>2. store' = [store EXCEPT !["meta"] = w.val] /\ store \in StoreState
        BY <2>2, <2>5 DEF Stored, DataOK
      <4> QED
        BY <4>1, <4>2, AbsentIsNoValue DEF StoreState, AbsentIsNoValue
    <3> QED
      BY <3>1, GonesNext DEF Leaving, Quietly
  <2>6. CASE w.key \notin {"all", "meta"}
    <3>1. store'.meta = Absent => store.meta = Absent
      <4>1. w.key = "status" => w.val = "running"
        BY <2>1 DEF Writes
      <4>2. store \in StoreState /\ "running" # Absent
        BY AbsentIsNoValue DEF DataOK, AbsentIsNoValue
      <4>3. CASE w.key = "status"
        BY <2>2, <4>1, <4>2, <4>3 DEF Stored, StoreState
      <4>4. CASE w.key \in {"alarm", "event"}
        BY <2>2, <4>4 DEF Stored
      <4>5. CASE w.key \notin {"status", "alarm", "event"}
        BY <2>2, <2>6, <4>2, <4>5 DEF Stored, StoreState
      <4> QED
        BY <4>3, <4>4, <4>5
    <3> SUFFICES ASSUME store.meta = Absent PROVE GoneOK'
      BY <3>1, GonesNext DEF Leaving, Quietly
    <3>2. hist.raced /\ hs[h].shared
      BY <2>1, <2>6, Gones DEF Quietly, Harmless, Creates
    <3>3. \A g \in Handlers : Quietly(g)'
      BY <2>1, <2>2, <2>3, <3>2 DEF Quietly
    <3> QED
      BY <2>2, <3>2, <3>3, GonesNext DEF Leaving
  <2> QED
    BY <2>4, <2>5, <2>6
<1>4. ASSUME NEW h \in Handlers, NEW n \in 1 .. Len(hs[h].todo), Skips(h, n)
      PROVE  GoneOK'
  <2>1. /\ Drops(h, n) /\ store' = store /\ hist'.raced = hist.raced
        /\ SoftUpTo(hs[h].todo, n)
    BY <1>4 DEF Skips, Faulty, Halves
  <2>2. \A g \in Handlers : g # h => Quietly(g)'
    BY <2>1, StaysQuiet DEF Drops
  <2>3. /\ hs[h].todo # <<>> /\ 1 \in DOMAIN hs[h].todo /\ write(h, 1).soft
        /\ Head(hs[h].todo) = write(h, 1)
    <3>1. hs[h].todo \in Seq(Writes) /\ Len(hs[h].todo) \in Nat
      BY Typed, Members
    <3>2. 1 \in 1 .. n /\ hs[h].todo # <<>>
      BY <1>4, <3>1, EmptySeq
    <3> QED
      BY <2>1, <3>1, <3>2, Members DEF SoftUpTo, write
  <2>4. write(h, 1).key # "meta"
    <3>1. write(h, 1) \in Writes /\ write(h, 1).val = Absent
      BY <2>3, Typed, Members, Orders DEF Ordered, write
    <3>2. "initializing" # Absent
      BY AbsentIsNoValue DEF AbsentIsNoValue
    <3> QED
      BY <3>1, <3>2 DEF Writes
  <2>5. ~Harmless(h) /\ ~Creates(h)
    BY <2>3, <2>4 DEF Harmless, Creates
  <2>6. Quietly(h)'
    BY <2>1, <2>5, Gones DEF Quietly, Drops, Active
  <2> QED
    BY <2>1, <2>2, <2>6, Gones, GonesNext DEF Leaving
<1>5. ASSUME NEW h \in Handlers, Leaves(h), hist'.raced = hist.raced PROVE GoneOK'
  <2>1. \A g \in Handlers : g # h => Quietly(g)'
    BY <1>5, StaysQuiet DEF Leaves
  <2>2. Quietly(h)'
    BY <1>5, IdleIs DEF Leaves, Quietly, Active
  <2> QED
    BY <1>5, <2>1, <2>2, Gones, GonesNext DEF Leaves, Leaving
<1>6. ASSUME AlarmIsLost PROVE GoneOK'
  BY <1>6, Gones, GonesNext
  DEF AlarmIsLost, Leaving, Quietly, Active, Harmless, Creates
<1>7. ASSUME Crashes PROVE GoneOK'
  <2>1. /\ \A g \in Handlers : ~Active(g)'
        /\ store' = store /\ hist'.raced = hist.raced
    BY <1>7, IdleIs DEF Crashes, Faulty, Halves, Active
  <2> QED
    BY <2>1, Gones, GonesNext DEF Leaving, Quietly
<1>8. ASSUME Ticks PROVE GoneOK'
  <2>1. hs' = hs /\ hist' = hist /\ store'.meta = store.meta
    BY <1>8 DEF Ticks, DataOK, StoreState
  <2>2. \A g \in Handlers : Quietly(g)'
    BY <2>1, StaysQuiet
  <2>3. ASSUME store'.meta = Absent, ~hist'.raced PROVE store' = Empty
    <3>1. store = Empty
      BY <2>1, <2>3, Gones DEF Leaving
    <3>2. store'.age = Absent
      BY <1>8, <3>1 DEF Ticks, Empty
    <3> QED
      BY <1>8, <3>1, <3>2 DEF Ticks, Empty
  <2> QED
    BY <2>2, <2>3, GonesNext DEF Leaving
<1> QED
  BY <1>1, <1>2, <1>3, <1>4, <1>5, <1>6, <1>7, <1>8
  DEF Changes, Returns, Fails, Breaks, Halves

-----------------------------------------------------------------------------
(* A job that is there has an alarm, or somebody who sees to it.           *)

GuardKept ==
    /\ alarm = Absent => \E h \in Handlers : Guards(h)
    /\ store.state = Absent => \E h \in Handlers : Founds(h)
    /\ def.type = "continuous" /\ store.meta = "initializing"
          => \E h \in Handlers : Starts(h)

Guarded ==
    ~hist.half /\ def.type \in {"continuous", "debounce"} /\ store.meta # Absent

LEMMA GuardIs == GuardOK <=> (Guarded => GuardKept)
BY DEF GuardOK, Guarded, GuardKept

LEMMA GuardIsNext == GuardOK' <=> (Guarded' => GuardKept')
BY DEF GuardOK, Guarded, GuardKept

(* What a handler is good for depends on nothing but itself.               *)
LEMMA SameGuard ==
    ASSUME NEW g, hs'[g].pc = hs[g].pc, hs'[g].todo = hs[g].todo,
           hs'[g].result = hs[g].result, hs'[g].created = hs[g].created
    PROVE  /\ Guards(g) => Guards(g)'
           /\ Founds(g) => Founds(g)'
           /\ Starts(g) => Starts(g)'
           /\ Pending(g, "all") => Pending(g, "all")'
BY DEF Guards, Founds, Starts, Pending, Sets, write

LEMMA NoWrites ==
    ASSUME DataOK, HandlersOK, NEW h \in Handlers, hs[h].todo = <<>>
    PROVE  (\A k : ~Pending(h, k)) /\ ~Sets(h)
<1>1. DOMAIN hs[h].todo = {}
  BY Typed, Members
<1> QED
  BY <1>1 DEF Pending, Sets

LEMMA EndingPends ==
    ASSUME NEW h, Ending(hs'[h].todo)
    PROVE  Pending(h, "all")'
<1>1. /\ Len(hs'[h].todo) \in DOMAIN hs'[h].todo
      /\ hs'[h].todo[Len(hs'[h].todo)].key = "all"
  BY Members DEF Ending
<1> QED
  BY <1>1 DEF Pending

(* Writes that are not made are still pending.                             *)
LEMMA PendsOn ==
    ASSUME DataOK, HandlersOK, NEW h, NEW n, Drops(h, n)
    PROVE  /\ \A i \in DOMAIN hs[h].todo : i \in 1 .. n \/ i > n
           /\ \A i \in DOMAIN hs[h].todo :
                 i > n => \E j \in DOMAIN hs'[h].todo : hs'[h].todo[j] = hs[h].todo[i]
<1>1. h \in Handlers /\ hs[h].todo \in Seq(Writes) /\ n \in 1 .. Len(hs[h].todo)
  BY Typed DEF Drops
<1>2. DOMAIN hs[h].todo = 1 .. Len(hs[h].todo) /\ Len(hs[h].todo) \in Nat
  BY <1>1, Members
<1> QED
  BY <1>1, <1>2 DEF Drops

LEMMA GoingOnGuards ==
    ASSUME DataOK, HandlersOK, GuardOK, NEW h \in Handlers, GoesOn(h)
    PROVE  GuardOK'
<1>1. Moves(h, hs[h].pc, hs'[h].pc) /\ hist'.half = hist.half
  BY GoesOnMoves DEF Unhistoric, Discards, Issues, FlushEnds
<1>2. /\ \A g \in Handlers : g # h => hs'[g] = hs[g]
      /\ store' = store /\ alarm' = alarm /\ def' = def /\ hs[h].todo = <<>>
      /\ hs'[h].created = hs[h].created
  BY <1>1 DEF Moves
<1> SUFFICES ASSUME Guarded PROVE GuardKept'
  BY <1>1, <1>2, GuardIsNext DEF Guarded
<1>3. GuardKept
  BY GuardIs
<1>4. \A g \in Handlers : g # h =>
         /\ Guards(g) => Guards(g)'
         /\ Founds(g) => Founds(g)'
         /\ Starts(g) => Starts(g)'
  BY <1>2, SameGuard
<1>5. (\A k : ~Pending(h, k)) /\ ~Sets(h)
  BY <1>2, NoWrites
<1>6. ~Starts(h) /\ (Founds(h) => hs[h].pc = "reduce" /\ hs[h].created)
  BY <1>5, GoesOnMoves DEF Starts, Founds
<1>7. Guards(h) => /\ h = "alarm" \/ hs[h].created
                   /\ \/ hs[h].pc \in {"started", "reduce", "execute", "run"}
                      \/ hs[h].pc = "result" /\ hs[h].result = "success"
  BY <1>5, GoesOnMoves DEF Guards
<1>8. \/ Guards(h) => Guards(h)'
      \/ Misses(h) /\ hs[h].pc = "execute" /\ store.state = Absent
      \/ /\ Concludes(h) /\ hs[h].pc = "result"
         /\ def.type = "continuous" /\ store.meta # "running"
  <2> SUFFICES ASSUME Guards(h), ~Misses(h) PROVE
                 \/ Guards(h)'
                 \/ /\ Concludes(h) /\ hs[h].pc = "result"
                    /\ def.type = "continuous" /\ store.meta # "running"
    BY DEF Misses, Moves
  <2>1. CASE FirstRuns(h)
    BY <1>2, <1>7, <2>1 DEF FirstRuns, Guards
  <2>2. CASE Loads(h) \/ RunIsLost(h)
    BY <1>2, <1>7, <2>2 DEF Loads, RunIsLost, Moves, Guards
  <2>3. CASE GivesUp(h) \/ FlushPurges(h)
    BY <2>3, EndingPends DEF GivesUp, FlushPurges, Guards
  <2>4. CASE RunEnds(h) \/ FlushEnds(h)
    BY <1>2, <1>7, <2>4 DEF RunEnds, FlushEnds, Moves, Over, Guards
  <2>5. CASE WillRetry(h) \/ SchedulesNext(h)
    BY <1>2, <1>7, <2>5 DEF WillRetry, SchedulesNext, Guards
  <2>6. CASE Concludes(h)
    BY <1>7, <2>6 DEF Concludes, Moves, Guarded
  <2>7. CASE Reduces(h)
    <3>1. hs[h].pc = "reduce" /\ h # "alarm"
      BY <2>7, HandlerKinds DEF Reduces, Moves, HandlersOK
    <3> QED
      BY <1>2, <1>7, <2>7, <3>1 DEF Reduces, Guards
  <2>8. CASE FunctionReturns(h) \/ GoesIdle(h) \/ TaskSettles(h)
    BY <2>8 DEF FunctionReturns, GoesIdle, TaskSettles, Moves, HandlersOK, Guarded
  <2> QED
    BY <2>1, <2>2, <2>3, <2>4, <2>5, <2>6, <2>7, <2>8 DEF GoesOn
<1>9. Founds(h) => Founds(h)'
  <2> SUFFICES ASSUME Founds(h) PROVE Founds(h)'
    OBVIOUS
  <2>1. hs[h].pc = "reduce" /\ hs[h].created
    BY <1>6
  <2>2. Reduces(h)
    BY <2>1
    DEF GoesOn, FirstRuns, Loads, Misses, GivesUp, RunEnds, FlushEnds, WillRetry,
        RunIsLost, SchedulesNext, FlushPurges, Concludes, FunctionReturns,
        GoesIdle, TaskSettles, Moves
  <2> QED
    BY <1>2, <2>1, <2>2 DEF Reduces, Founds, Guards, Pending
<1>10. alarm' = Absent => (\E g \in Handlers : Guards(g))'
  <2> SUFFICES ASSUME alarm = Absent PROVE (\E g \in Handlers : Guards(g))'
    BY <1>2
  <2>1. CASE Misses(h) /\ hs[h].pc = "execute" /\ store.state = Absent
    <3>1. PICK g \in Handlers : Founds(g)
      BY <1>3, <2>1 DEF GuardKept
    <3>2. g # h /\ Guards(g)
      BY <1>6, <2>1, <3>1 DEF Founds
    <3> QED
      BY <1>4, <3>2
  <2>2. CASE /\ Concludes(h) /\ hs[h].pc = "result"
             /\ def.type = "continuous" /\ store.meta # "running"
    <3>1. store.meta = "initializing"
      BY <2>2 DEF Guarded, DataOK, StoreState
    <3>2. PICK g \in Handlers : Starts(g)
      BY <1>3, <2>2, <3>1 DEF GuardKept
    <3>3. g # h /\ Guards(g)
      BY <2>2, <3>2 DEF Starts, Guards
    <3> QED
      BY <1>4, <3>3
  <2>3. CASE Guards(h) => Guards(h)'
    BY <1>3, <1>4, <2>3 DEF GuardKept
  <2> QED
    BY <1>8, <2>1, <2>2, <2>3
<1>11. store'.state = Absent => (\E g \in Handlers : Founds(g))'
  BY <1>2, <1>3, <1>4, <1>9 DEF GuardKept
<1>12. def'.type = "continuous" /\ store'.meta = "initializing"
          => (\E g \in Handlers : Starts(g))'
  BY <1>2, <1>3, <1>4, <1>6 DEF GuardKept
<1> QED
  BY <1>10, <1>11, <1>12 DEF GuardKept

LEMMA ComingGuards ==
    ASSUME DataOK, HandlersOK, GuardOK, NEW h \in Handlers, Comes(h)
    PROVE  GuardOK'
<1>1. Begins(h) /\ hist'.half = hist.half
  BY ComesBegins DEF Unhistoric, Discards
<1>2. store' = store /\ def' = def /\ hs[h] = Idle
  BY <1>1 DEF Begins
<1> SUFFICES ASSUME Guarded PROVE GuardKept'
  BY <1>1, <1>2, GuardIsNext DEF Guarded
<1>3. GuardKept
  BY GuardIs
<1>4. \A g \in Handlers : g # h =>
         /\ Guards(g) => Guards(g)'
         /\ Founds(g) => Founds(g)'
         /\ Starts(g) => Starts(g)'
  BY <1>1, SameGuard DEF Begins
<1>5. ~Guards(h) /\ ~Founds(h) /\ ~Starts(h)
  BY <1>2, IdleIs, NoWrites DEF Guards, Founds, Starts
<1>6. h = "alarm" => Guards(h)'
  <2>1. h = "alarm" => h \notin Requests /\ store.meta # Absent
    BY HandlerKinds DEF Guarded
  <2>2. WorksOn(h) /\ h \notin Requests => Guards(h)'
    BY HandlerKinds DEF WorksOn, Guards
  <2>3. Purges(h) => Guards(h)'
    BY EndingPends DEF Purges, Guards
  <2> QED
    BY <2>1, <2>2, <2>3 DEF Comes, AnswersOnly, Refuses, CreatesNew
<1>7. h # "alarm" => alarm' = alarm
  BY <1>1 DEF Begins
<1> QED
  BY <1>2, <1>3, <1>4, <1>5, <1>6, <1>7 DEF GuardKept

(* What a performed write is.                                              *)
LEMMA Performing ==
    ASSUME DataOK, HandlersOK, NEW h \in Handlers, Performs(h)
    PROVE  /\ Drops(h, 1) /\ write(h, 1) \in Writes /\ hs[h].todo # <<>>
           /\ 1 \in DOMAIN hs[h].todo /\ Head(hs[h].todo) = write(h, 1) /\ Active(h)
           /\ \A i \in DOMAIN hs[h].todo : i = 1 \/ i > 1
           /\ \A i \in DOMAIN hs[h].todo :
                 i > 1 => \E j \in DOMAIN hs'[h].todo : hs'[h].todo[j] = hs[h].todo[i]
           /\ \A g \in Handlers : g # h => hs'[g] = hs[g]
           /\ hs'[h].pc = hs[h].pc /\ hs'[h].created = hs[h].created
           /\ hs'[h].result = hs[h].result /\ def' = def
           /\ \A k : Pending(h, k) /\ k # write(h, 1).key => Pending(h, k)'
<1>1. Drops(h, 1) /\ hs[h].todo \in Seq(Writes)
  BY Typed DEF Performs
<1>2. hs[h].todo # <<>>
  BY <1>1, Members, EmptySeq DEF Drops
<1>3. /\ \A i \in DOMAIN hs[h].todo : i = 1 \/ i > 1
      /\ \A i \in DOMAIN hs[h].todo :
            i > 1 => \E j \in DOMAIN hs'[h].todo : hs'[h].todo[j] = hs[h].todo[i]
  BY <1>1, PendsOn
<1>4. \A k : Pending(h, k) /\ k # write(h, 1).key => Pending(h, k)'
  BY <1>3 DEF Pending, write
<1> QED
  BY <1>1, <1>2, <1>3, <1>4, Members, IdleIs DEF write, Drops, HandlersOK

(* What a write does to what is stored.                                    *)
LEMMA StoredKeeps ==
    ASSUME DataOK, NEW w \in Writes
    PROVE  /\ w.key = "meta" => Stored(w) = [store EXCEPT !.meta = "initializing"]
           /\ w.key = "status" => 
                 /\ Stored(w).meta = (IF store.meta = Absent THEN Absent ELSE "running")
                 /\ Stored(w).state = store.state /\ Stored(w).count = store.count
                 /\ Stored(w).scheduledAt = store.scheduledAt
           /\ w.key = "all" => Stored(w) = Empty
           /\ w.key \notin {"meta", "status", "all"} => Stored(w).meta = store.meta
           /\ w.key \notin {"state", "all"} => Stored(w).state = store.state
           /\ w.key \notin {"count", "all"} => Stored(w).count = store.count
           /\ w.key \notin {"scheduledAt", "all"}
                 => Stored(w).scheduledAt = store.scheduledAt
           /\ w.key = "state" => Stored(w).state = w.val /\ w.val \in SUBSET Ids
           /\ w.key = "count" => Stored(w).count = w.val /\ w.val \in 0 .. MaxCount
           /\ w.key = "scheduledAt" =>
                 Stored(w).scheduledAt = w.val /\ w.val \in {Absent, TRUE}
<1>1. store \in StoreState
  BY DEF DataOK
<1>2. CASE w.key \in {"all", "alarm", "event"}
  BY <1>2 DEF Stored
<1>3. CASE w.key = "status"
  <2>1. w.val = "running"
    BY <1>3 DEF Writes
  <2>2. Stored(w) = IF store.meta = Absent THEN store ELSE [store EXCEPT !.meta = "running"]
    BY <1>3, <2>1 DEF Stored
  <2> QED
    BY <1>1, <1>3, <2>2 DEF StoreState
<1>4. CASE w.key \notin {"all", "alarm", "event", "status"}
  <2>1. Stored(w) = [store EXCEPT ![w.key] = w.val]
    BY <1>4 DEF Stored
  <2>2. \/ w.key = "meta" /\ w.val = "initializing"
        \/ w.key = "state" /\ w.val \in SUBSET Ids
        \/ w.key = "count" /\ w.val \in 0 .. MaxCount
        \/ w.key \in {"attempt", "age", "other"}
        \/ w.key = "scheduledAt" /\ w.val \in {Absent, TRUE}
    BY <1>4 DEF Writes
  <2> QED
    BY <1>1, <1>4, <2>1, <2>2 DEF StoreState
<1> QED
  BY <1>2, <1>3, <1>4

LEMMA PerformingGuards ==
    ASSUME DataOK, HandlersOK, WritesOK, GuardOK, NEW h \in Handlers, Performs(h)
    PROVE  GuardOK'
<1> DEFINE w == write(h, 1)
<1>1. /\ Drops(h, 1) /\ w \in Writes /\ hs[h].todo # <<>>
      /\ 1 \in DOMAIN hs[h].todo /\ hs[h].todo[1] = w /\ Active(h)
      /\ \A g \in Handlers : g # h => hs'[g] = hs[g]
      /\ hs'[h].pc = hs[h].pc /\ hs'[h].created = hs[h].created
      /\ hs'[h].result = hs[h].result /\ def' = def
      /\ \A k : Pending(h, k) /\ k # w.key => Pending(h, k)'
  BY Performing DEF write
<1>2. w.key # "alarm" /\ Sets(h) => Sets(h)'
  BY Performing DEF Sets, write
<1>3. /\ store' = Stored(w) /\ hist'.half = hist.half
      /\ alarm' = IF w.key = "alarm" THEN w.val ELSE alarm
  BY DEF Performs
<1>4. Ordered(h)
  BY Orders
<1> SUFFICES ASSUME Guarded' PROVE GuardKept'
  BY GuardIsNext
<1>5. def.type \in {"continuous", "debounce"} /\ ~hist.half /\ store'.meta # Absent
  BY <1>1, <1>3 DEF Guarded
<1> HIDE DEF w
<1>6. CASE w.key = "meta"
  <2>1. /\ hs[h].created
        /\ def.type = "continuous" => hs[h].pc = "started" /\ Pending(h, "state")
                                      /\ Pending(h, "status")
        /\ def.type = "debounce" => hs[h].pc \in {"reduce", "fail"}
    BY <1>1, <1>4, <1>6 DEF Ordered, write
  <2>2. Guards(h)' /\ Founds(h)'
    BY <1>1, <1>5, <1>6, <2>1 DEF Guards, Founds
  <2>3. def.type = "continuous" => Starts(h)'
    BY <1>1, <1>6, <2>1 DEF Starts
  <2> QED
    BY <1>1, <2>2, <2>3 DEF GuardKept
<1>7. CASE w.key = "all"
  <2>1. store' = Empty
    BY <1>1, <1>3, <1>7, StoredKeeps
  <2> QED
    BY <1>5, <2>1 DEF Empty
<1>8. CASE w.key \notin {"meta", "all"}
  <2>1. store.meta # Absent
    BY <1>1, <1>3, <1>5, <1>8, StoredKeeps
  <2>2. GuardKept
    BY <1>5, <2>1, GuardIs DEF Guarded
  <2>3. \A g \in Handlers : g # h =>
           /\ Guards(g) => Guards(g)'
           /\ Founds(g) => Founds(g)'
           /\ Starts(g) => Starts(g)'
    BY <1>1, SameGuard
  <2>4. Pending(h, "all") => Pending(h, "all")'
    BY <1>1, <1>8
  <2>5. Guards(h) => Guards(h)' \/ (w.key = "alarm" /\ w.val # Absent)
    <3>1. CASE w.key # "alarm"
      BY <1>1, <1>2, <2>4, <3>1 DEF Guards
    <3>2. CASE w.key = "alarm" /\ w.val = Absent
      <4>1. Pending(h, "all")
        BY <1>1, <1>4, <1>5, <3>2 DEF Ordered, write
      <4> QED
        BY <2>4, <4>1 DEF Guards
    <3> QED
      BY <3>1, <3>2
  <2>6. Founds(h) => Founds(h)' \/ w.key = "state"
    <3>1. CASE w.key \notin {"alarm", "state"}
      <4>1. Guards(h) => Guards(h)'
        BY <2>5, <3>1
      <4> QED
        BY <1>1, <3>1, <4>1 DEF Founds
    <3>2. CASE w.key = "alarm"
      <4>1. ~Pending(h, "state")
        <5>1. \A j \in DOMAIN hs[h].todo : j = 1 \/ j > 1
          BY Performing
        <5> QED
          BY <1>1, <1>4, <1>5, <3>2, <5>1 DEF Ordered, write, Pending
      <4> QED
        BY <1>1, <4>1 DEF Founds, Guards
    <3> QED
      BY <3>1, <3>2
  <2>7. Starts(h) => Starts(h)' \/ w.key = "status"
    BY <1>1 DEF Starts
  <2>8. alarm' = Absent => (\E g \in Handlers : Guards(g))'
    <3> SUFFICES ASSUME alarm' = Absent PROVE (\E g \in Handlers : Guards(g))'
      OBVIOUS
    <3>1. CASE w.key = "alarm"
      <4>1. Pending(h, "all")
        BY <1>1, <1>3, <1>4, <1>5, <3>1 DEF Ordered, write
      <4>2. Guards(h)'
        BY <2>4, <4>1 DEF Guards
      <4> QED
        BY <4>2
    <3>2. CASE w.key # "alarm"
      BY <1>3, <2>2, <2>3, <2>5, <3>2 DEF GuardKept
    <3> QED
      BY <3>1, <3>2
  <2>9. store'.state = Absent => (\E g \in Handlers : Founds(g))'
    <3>1. CASE w.key = "state"
      <4>1. store'.state \in SUBSET Ids
        BY <1>1, <1>3, <3>1, StoredKeeps
      <4> QED
        BY <4>1, AbsentIsNoValue DEF AbsentIsNoValue, Ids
    <3>2. CASE w.key # "state"
      <4>1. store'.state = store.state
        BY <1>1, <1>3, <1>8, <3>2, StoredKeeps
      <4> QED
        BY <2>2, <2>3, <2>6, <3>2, <4>1 DEF GuardKept
    <3> QED
      BY <3>1, <3>2
  <2>10. def'.type = "continuous" /\ store'.meta = "initializing"
            => (\E g \in Handlers : Starts(g))'
    <3>1. CASE w.key = "status"
      BY <1>1, <1>3, <2>1, <3>1, StoredKeeps
    <3>2. CASE w.key # "status"
      <4>1. store'.meta = store.meta
        BY <1>1, <1>3, <1>8, <3>2, StoredKeeps
      <4> QED
        BY <1>1, <2>2, <2>3, <2>7, <3>2, <4>1 DEF GuardKept
    <3> QED
      BY <3>1, <3>2
  <2> QED
    BY <2>8, <2>9, <2>10 DEF GuardKept
<1> QED
  BY <1>6, <1>7, <1>8

LEMMA SkippingGuards ==
    ASSUME DataOK, HandlersOK, WritesOK, GuardOK, NEW h \in Handlers,
           NEW n \in 1 .. Len(hs[h].todo), Skips(h, n)
    PROVE  GuardOK'
<1>1. /\ Drops(h, n) /\ store' = store /\ alarm' = alarm /\ def' = def
      /\ SoftUpTo(hs[h].todo, n)
      /\ hist.half => hist'.half
      /\ (\E i \in DOMAIN hs[h].todo : write(h, i).soft /\ write(h, i).key = "all")
            => hist'.half
      /\ \A g \in Handlers : g # h => hs'[g] = hs[g]
      /\ hs'[h].pc = hs[h].pc /\ hs'[h].created = hs[h].created
      /\ hs'[h].result = hs[h].result
  BY DEF Skips, Faulty, Halves, Drops
<1> SUFFICES ASSUME Guarded' PROVE GuardKept'
  BY GuardIsNext
<1>2. GuardKept
  BY <1>1, GuardIs DEF Guarded
<1>3. \A i \in DOMAIN hs[h].todo :
         ~write(h, i).soft => \E j \in DOMAIN hs'[h].todo : hs'[h].todo[j] = hs[h].todo[i]
  BY <1>1, PendsOn DEF SoftUpTo, write
<1>4. \A i \in DOMAIN hs[h].todo :
         /\ write(h, i) \in Writes
         /\ write(h, i).soft => write(h, i).val = Absent
  BY Typed, Members, Orders DEF Ordered, write
<1>5. \A i \in DOMAIN hs[h].todo :
         write(h, i).key \in {"state", "status", "all"} => ~write(h, i).soft
  <2>1. \A i \in DOMAIN hs[h].todo : write(h, i).key = "all" => ~write(h, i).soft
    BY <1>1 DEF Guarded
  <2>2. \A i \in DOMAIN hs[h].todo : write(h, i).key = "status" => ~write(h, i).soft
    <3>1. Absent # "running"
      BY AbsentIsNoValue DEF AbsentIsNoValue
    <3>2. \A w \in Writes : w.key = "status" => w.val = "running"
      BY DEF Writes
    <3> QED
      BY <1>4, <3>1, <3>2
  <2>3. \A i \in DOMAIN hs[h].todo : write(h, i).key = "state" => ~write(h, i).soft
    <3>1. Absent \notin SUBSET Ids
      BY AbsentIsNoValue DEF AbsentIsNoValue, Ids
    <3>2. \A w \in Writes : w.key = "state" => w.val \in SUBSET Ids
      BY DEF Writes
    <3> QED
      BY <1>4, <3>1, <3>2
  <2> QED
    BY <2>1, <2>2, <2>3
<1>6. \A k \in {"state", "status", "all"} : Pending(h, k) => Pending(h, k)'
  BY <1>3, <1>5 DEF Pending, write
<1>7. Sets(h) => Sets(h)'
  BY <1>3, <1>4 DEF Sets, write
<1>8. /\ Guards(h) => Guards(h)'
      /\ Founds(h) => Founds(h)'
      /\ Starts(h) => Starts(h)'
  BY <1>1, <1>6, <1>7 DEF Guards, Founds, Starts
<1>9. \A g \in Handlers : g # h =>
         /\ Guards(g) => Guards(g)'
         /\ Founds(g) => Founds(g)'
         /\ Starts(g) => Starts(g)'
  BY <1>1, SameGuard
<1> QED
  BY <1>1, <1>2, <1>8, <1>9 DEF GuardKept

LEMMA LeavingGuards ==
    ASSUME DataOK, HandlersOK, GuardOK, NEW h \in Handlers,
           Returns(h) \/ Fails(h) \/ Breaks(h)
    PROVE  GuardOK'
<1>1. /\ store' = store /\ def' = def /\ \A g \in Handlers : g # h => hs'[g] = hs[g]
      /\ hist.half => hist'.half
  BY DEF Returns, Fails, Breaks, Leaves, Halves
<1> SUFFICES ASSUME Guarded' PROVE GuardKept'
  BY GuardIsNext
<1>2. GuardKept
  BY <1>1, GuardIs DEF Guarded
<1>3. \A g \in Handlers : g # h =>
         /\ Guards(g) => Guards(g)'
         /\ Founds(g) => Founds(g)'
         /\ Starts(g) => Starts(g)'
  BY <1>1, SameGuard
<1>4. h # "alarm" => ~Guards(h)
  <2> SUFFICES ASSUME h # "alarm", Guards(h) PROVE FALSE
    OBVIOUS
  <2>1. CASE Returns(h)
    BY <2>1, NoWrites DEF Returns, Guards
  <2>2. CASE Fails(h)
    <3>1. hs[h].created
      BY <2>2, NoWrites DEF Fails, Guards
    <3> QED
      BY <2>2, <3>1 DEF Fails, Halves, Halfway, Guarded
  <2>3. CASE Breaks(h)
    BY <2>3 DEF Breaks, Halves, Halfway, Guarded, Guards, Pending, write
  <2> QED
    BY <2>1, <2>2, <2>3
<1>5. ~Founds(h) /\ ~Starts(h)
  <2>1. hs[h].created => h # "alarm"
    BY HandlerKinds DEF HandlersOK
  <2> QED
    BY <1>4, <2>1 DEF Founds, Starts, Guards
<1>6. h = "alarm" => \/ alarm' # Absent \/ (alarm' = alarm /\ ~Guards(h))
  <2>1. 0 # Absent
    BY AbsentIsNoValue DEF AbsentIsNoValue
  <2>2. Returns(h) => alarm' = alarm /\ ~Guards(h)
    BY NoWrites DEF Returns, Guards
  <2> QED
    BY <2>1, <2>2 DEF Fails, Breaks, Redelivered
<1>7. h # "alarm" => alarm' = alarm
  BY DEF Returns, Fails, Breaks, Redelivered
<1> QED
  BY <1>1, <1>2, <1>3, <1>4, <1>5, <1>6, <1>7 DEF GuardKept

LEMMA GuardStays ==
    ASSUME DataOK, HandlersOK, WritesOK, GuardOK, Changes
    PROVE  GuardOK'
<1>1. ASSUME AlarmIsLost PROVE GuardOK'
  BY <1>1 DEF AlarmIsLost, GuardOK
<1>2. ASSUME Crashes PROVE GuardOK'
  <2>1. /\ store' = store /\ def' = def /\ (hist.half => hist'.half)
        /\ (\E h \in Handlers : Halfway(h)) => hist'.half
        /\ alarm' = IF Active("alarm") THEN Redelivered("alarm") ELSE alarm
    BY <1>2 DEF Crashes, Faulty, Halves
  <2> SUFFICES ASSUME Guarded' PROVE GuardKept'
    BY GuardIsNext
  <2>2. GuardKept
    BY <2>1, GuardIs DEF Guarded
  <2>3. \A h \in Handlers : h # "alarm" => ~Guards(h)
    BY <2>1 DEF Halfway, Guarded, Guards, Pending, write
  <2>4. \A h \in Handlers : hs[h].created => h # "alarm"
    BY HandlerKinds DEF HandlersOK
  <2>5. \A h \in Handlers : ~Founds(h) /\ ~Starts(h)
    BY <2>3, <2>4 DEF Founds, Starts, Guards
  <2>6. Guards("alarm") => Active("alarm")
    BY HandlerKinds, IdleIs, NoWrites DEF Guards, HandlersOK, Active
  <2>7. alarm' = Absent => alarm = Absent /\ ~Active("alarm")
    <3>1. 0 # Absent
      BY AbsentIsNoValue DEF AbsentIsNoValue
    <3> QED
      BY <2>1, <3>1 DEF Redelivered
  <2> QED
    BY <2>1, <2>2, <2>3, <2>5, <2>6, <2>7 DEF GuardKept
<1>3. ASSUME Ticks PROVE GuardOK'
  <2>1. /\ hs' = hs /\ hist' = hist /\ def' = def
        /\ store'.meta = store.meta /\ store'.state = store.state
        /\ alarm' = Absent <=> alarm = Absent
    BY <1>3 DEF Ticks, DataOK, StoreState
  <2> SUFFICES ASSUME Guarded PROVE GuardKept'
    BY <2>1, GuardIsNext DEF Guarded
  <2>2. GuardKept
    BY GuardIs
  <2>3. \A g \in Handlers :
           /\ Guards(g) => Guards(g)'
           /\ Founds(g) => Founds(g)'
           /\ Starts(g) => Starts(g)'
    BY <2>1, SameGuard
  <2> QED
    BY <2>1, <2>2, <2>3 DEF GuardKept
<1> QED
  BY <1>1, <1>2, <1>3, GoingOnGuards, ComingGuards, PerformingGuards, SkippingGuards,
     LeavingGuards
  DEF Changes

-----------------------------------------------------------------------------
(* The first theorems. *)

Safe == DataOK /\ HandlersOK /\ WritesOK /\ GoneOK /\ GuardOK

LEMMA SafeAtFirst == Init => Safe
<1> SUFFICES ASSUME Init PROVE Safe
  OBVIOUS
<1>1. /\ def \in Definitions /\ store = Empty /\ alarm = Absent
      /\ \A h \in Handlers : hs[h] = Idle
      /\ hs \in [Handlers -> HandlerState]
  BY IdleIs DEF Init
<1>2. DataOK
  <2>1. Empty \in StoreState
    BY DEF Empty, StoreState
  <2> QED
    BY <1>1, <2>1, BoundsAreNumbers DEF Init, DataOK, History, BoundsAreNumbers
<1>3. \A h \in Handlers : ~Active(h) /\ hs[h].todo = <<>> /\ Placed(h) /\ Met(h)
  BY <1>1, IdleIs DEF Active, Placed, Met
<1>4. HandlersOK
  BY <1>1, <1>3, Places
<1>5. WritesOK
  <2>1. \A h \in Handlers : DOMAIN hs[h].todo = {}
    BY <1>2, <1>3, <1>4, Typed, Members
  <2> QED
    BY <2>1 DEF WritesOK
<1>6. GoneOK
  BY <1>1, <1>3 DEF GoneOK
<1>7. GuardOK
  BY <1>1 DEF GuardOK, Empty
<1> QED
  BY <1>2, <1>4, <1>5, <1>6, <1>7 DEF Safe

LEMMA StutteringJob ==
    ASSUME UNCHANGED vars
    PROVE  def' = def /\ store' = store /\ alarm' = alarm /\ hs' = hs
           /\ budget' = budget /\ hist' = hist
BY DEF vars

LEMMA SafeStays == Safe /\ [Next]_vars => Safe'
<1> SUFFICES ASSUME Safe, [Next]_vars PROVE Safe'
  OBVIOUS
<1>1. CASE Next
  BY <1>1, NextDoes, DataStays, HandlersStay, WritesStay, GoneStays, GuardStays DEF Safe
<1>2. CASE UNCHANGED vars
  <2>1. /\ def' = def /\ store' = store /\ alarm' = alarm /\ hs' = hs
        /\ budget' = budget /\ hist' = hist
    BY <1>2, StutteringJob
  <2>2. DataOK'
    BY <2>1 DEF Safe, DataOK, StoreState
  <2>3. HandlersOK'
    <3>1. \A h \in Handlers : Placed(h) /\ Met(h)
      BY Places DEF Safe
    <3>2. \A h \in Handlers : Placed(h)' /\ Met(h)'
      BY <2>1, <3>1 DEF Placed, Met, Active
    <3> QED
      BY <2>1, <3>2, PlacesNext DEF Safe, HandlersOK
  <2>4. WritesOK'
    <3>1. \A h \in Handlers : Ordered(h)
      BY Orders DEF Safe
    <3>2. \A h \in Handlers : Ordered(h)'
      BY <2>1, <3>1 DEF Ordered, write, Pending
    <3> QED
      BY <3>2, OrdersNext
  <2>5. GoneOK'
    <3>1. \A h \in Handlers : Quietly(h)'
      BY <2>1, StaysQuiet DEF Safe
    <3>2. Leaving'
      BY <2>1, Gones DEF Safe, Leaving
    <3> QED
      BY <3>1, <3>2, GonesNext
  <2>6. GuardOK'
    <3> SUFFICES ASSUME Guarded' PROVE GuardKept'
      BY GuardIsNext
    <3>1. GuardKept
      BY <2>1, GuardIs DEF Guarded, Safe
    <3>2. \A g \in Handlers :
             /\ Guards(g) => Guards(g)'
             /\ Founds(g) => Founds(g)'
             /\ Starts(g) => Starts(g)'
      BY <2>1, SameGuard
    <3> QED
      BY <2>1, <3>1, <3>2 DEF GuardKept
  <2> QED
    BY <2>2, <2>3, <2>4, <2>5, <2>6 DEF Safe
<1> QED
  BY <1>1, <1>2

(* The inductive invariant: where there is no metadata there is nothing,   *)
(* and a job that exists has an alarm, or a handler that sees to it.       *)
THEOREM JobIsSafe == Spec => []Safe
BY SafeAtFirst, SafeStays, PTL DEF Spec

(* A job that is gone has left nothing behind, unless a purge overtook a   *)
(* handler in flight.                                                      *)
THEOREM PurgedJobsAreEmpty == Spec => []PurgedMeansEmpty
<1>1. Safe => PurgedMeansEmpty
  BY DEF Safe, GoneOK, PurgedMeansEmpty
<1> QED
  BY <1>1, JobIsSafe, PTL

(* A continuous or debounce job that exists while nobody handles it has an *)
(* alarm, whatever failed, unless its creation or a purge was cut short.   *)
THEOREM AlarmsGuardJobs == Spec => []AlarmGuardsJob
<1>1. ASSUME Safe PROVE AlarmGuardsJob
  <2> SUFFICES ASSUME Quiet, ~hist.half
               PROVE  /\ Continuous /\ Told.status # "not_found"
                            => Told.nextRunAt # Absent
                      /\ Debounce /\ Told.status # "not_found"
                            => Told.willFlushAt # Absent
    BY DEF AlarmGuardsJob
  <2>1. /\ Continuous <=> def.type = "continuous"
        /\ Debounce <=> def.type = "debounce"
        /\ Task <=> def.type = "task"
    BY <1>1, DefinitionIs DEF Safe, DataOK
  <2>2. \A h \in Handlers : ~Guards(h)
    BY <1>1, IdleIs, NoWrites DEF Safe, Quiet, HandlersOK, Guards
  <2>3. def.type \in {"continuous", "debounce"} /\ store.meta # Absent
           => alarm # Absent
    BY <1>1, <2>2 DEF Safe, GuardOK
  <2>4. ASSUME Continuous
        PROVE  /\ Told.status = IF store.meta # Absent THEN store.meta ELSE "not_found"
               /\ Told.nextRunAt = IF store.meta # Absent THEN alarm ELSE Absent
    <3>1. Told = continuousRead("status")
      BY <2>1, <2>4 DEF Told, read
    <3> QED
      BY <3>1 DEF continuousRead
  <2>5. ASSUME Debounce
        PROVE  /\ store.meta = Absent => Told.status = "not_found"
               /\ store.meta # Absent => Told.willFlushAt = alarm
    <3>1. Told = debounceRead("status")
      BY <2>1, <2>5 DEF Told, read
    <3> QED
      BY <3>1 DEF debounceRead
  <2> QED
    BY <2>1, <2>3, <2>4, <2>5
<1> QED
  BY <1>1, JobIsSafe, PTL

-----------------------------------------------------------------------------
(* What was acknowledged is kept.                                          *)

(* The writes that a handler going on, or a new one, leaves behind it.     *)
Writing(h) ==
    \A i \in DOMAIN hs'[h].todo :
       /\ hs'[h].todo[i].key = "state" =>
             /\ RunEnds(h) \/ Reduces(h) \/ TaskSettles(h)
             /\ hs'[h].todo[i].val = Seen(h) \union ({hs'[h].id} \ {0})
       /\ hs'[h].todo[i].key = "all" => GivesUp(h) \/ FlushPurges(h)
       /\ hs'[h].todo[i].key = "count" => hs'[h].todo[i].val # 0

LEMMA ListMembers ==
    ASSUME NEW h, NEW S, hs'[h].todo \in Seq(S)
    PROVE  \A i \in DOMAIN hs'[h].todo : hs'[h].todo[i] \in S
BY Members

LEMMA EndingIs ==
    ASSUME NEW ws, Ending(ws)
    PROVE  \A i \in DOMAIN ws :
              \/ ws[i].key = "all" /\ i = Len(ws)
              \/ /\ ws[i].key = "alarm" /\ ws[i].val = Absent
                 /\ i = Len(ws) - 1 /\ i + 1 \in DOMAIN ws /\ ws[i + 1].key = "all"
              \/ ws[i] \in Note
<1>1. /\ ws \in Seq(Writes) /\ Len(ws) >= 2 /\ Len(ws) \in Nat /\ DOMAIN ws = 1 .. Len(ws)
      /\ ws[Len(ws)].key = "all"
      /\ ws[Len(ws) - 1].key = "alarm" /\ ws[Len(ws) - 1].val = Absent
      /\ \A i \in DOMAIN ws : i < Len(ws) - 1 => ws[i] \in Note
  BY Members DEF Ending
<1>2. \A i \in DOMAIN ws : i = Len(ws) \/ i = Len(ws) - 1 \/ i < Len(ws) - 1
  BY <1>1
<1> QED
  BY <1>1, <1>2

LEMMA GoesOnWrites ==
    ASSUME NEW h, GoesOn(h)
    PROVE  Writing(h)
<1>1. ASSUME hs'[h].todo \in Seq(Note \union Setting) PROVE Writing(h)
  BY <1>1, ListMembers, ListsAre DEF Writing
<1>2. Seq(Note) \subseteq Seq(Note \union Setting)
      /\ Seq(Setting) \subseteq Seq(Note \union Setting)
  BY Subseq
<1>3. CASE FirstRuns(h) \/ Loads(h) \/ FlushEnds(h) \/ WillRetry(h) \/ RunIsLost(h)
           \/ SchedulesNext(h)
  BY <1>1, <1>2, <1>3 DEF FirstRuns, Loads, FlushEnds, WillRetry, RunIsLost,
     SchedulesNext
<1>4. CASE Misses(h) \/ Concludes(h) \/ GoesIdle(h)
  <2>1. hs'[h].todo \in Seq(Note)
    BY <1>4, EmptySeq DEF Misses, Concludes, GoesIdle
  <2> QED
    BY <1>1, <1>2, <2>1
<1>5. CASE GivesUp(h) \/ FlushPurges(h)
  <2>1. Ending(hs'[h].todo)
    BY <1>5 DEF GivesUp, FlushPurges
  <2>2. \A i \in DOMAIN hs'[h].todo :
           hs'[h].todo[i].key \in {"all", "alarm"} \/ hs'[h].todo[i] \in Note
    BY <2>1, EndingIs
  <2> QED
    BY <1>5, <2>2, ListsAre DEF Writing
<1>6. CASE RunEnds(h)
  <2> DEFINE v == Seen(h) \union {NewId}
  <2>1. /\ hs'[h].todo \in Seq(Note \union Saving(v)) /\ hs'[h].id = NewId
        /\ NewId = 0 => hs'[h].todo \in Seq(Note)
    BY <1>6 DEF RunEnds, TakesIn
  <2> HIDE DEF v
  <2>2. \A i \in DOMAIN hs'[h].todo : hs'[h].todo[i] \in Note \union Saving(v)
    BY <2>1, ListMembers
  <2>3. CASE NewId = 0
    BY <1>1, <1>2, <2>1, <2>3
  <2>4. CASE NewId # 0
    <3>1. v = Seen(h) \union ({hs'[h].id} \ {0})
      BY <2>1, <2>4 DEF v
    <3> QED
      BY <1>6, <2>2, <3>1, ListsAre DEF Writing
  <2> QED
    BY <2>3, <2>4
<1>7. CASE Reduces(h)
  <2> DEFINE v == Seen(h) \union ({NewId} \ {0})
  <2>1. hs'[h].todo \in Seq(Note \union Saving(v) \union Setting) /\ hs'[h].id = NewId
    BY <1>7 DEF Reduces
  <2>2. \A i \in DOMAIN hs'[h].todo : hs'[h].todo[i] \in Note \union Saving(v) \union Setting
    BY <2>1, ListMembers
  <2> QED
    BY <1>7, <2>1, <2>2, ListsAre DEF Writing
<1>8. CASE FunctionReturns(h)
  BY <1>8, ListMembers, ListsAre DEF FunctionReturns, Writing
<1>9. CASE TaskSettles(h)
  <2> DEFINE v == Seen(h) \union {hs[h].id}
  <2>1. /\ hs'[h].todo \in Seq(Timing \union Saving(v)) /\ hs'[h].id = hs[h].id
        /\ hs[h].id = 0 => hs'[h].todo \in Seq(Timing)
    BY <1>9 DEF TaskSettles, Settled
  <2> HIDE DEF v
  <2>2. \A i \in DOMAIN hs'[h].todo : hs'[h].todo[i] \in Timing \union Saving(v)
    BY <2>1, ListMembers
  <2>3. CASE hs[h].id = 0
    BY <2>1, <2>3, ListMembers, ListsAre DEF Writing
  <2>4. CASE hs[h].id # 0
    <3>1. v = Seen(h) \union ({hs'[h].id} \ {0})
      BY <2>1, <2>4 DEF v
    <3> QED
      BY <1>9, <2>2, <3>1, ListsAre DEF Writing
  <2> QED
    BY <2>3, <2>4
<1> QED
  BY <1>3, <1>4, <1>5, <1>6, <1>7, <1>8, <1>9 DEF GoesOn

(* The same of a handler that begins.                                      *)
Bringing(h) ==
    \A i \in DOMAIN hs'[h].todo :
       /\ hs'[h].todo[i].key = "state" => CreatesNew(h) /\ hs'[h].todo[i].val = {}
       /\ hs'[h].todo[i].key = "all" => Purges(h)
       /\ hs'[h].todo[i].key = "count" => CreatesNew(h) \/ hs'[h].todo[i].val # 0
       /\ hs'[h].todo[i].key # "scheduledAt"
       /\ hs'[h].todo[i].key = "alarm" => Purges(h) /\ hs'[h].todo[i].val = Absent

LEMMA ComesWrites ==
    ASSUME NEW h, Comes(h)
    PROVE  Bringing(h)
<1>1. CASE AnswersOnly(h) \/ Refuses(h)
  <2>1. hs'[h].todo \in Seq(Note)
    BY <1>1, EmptySeq DEF AnswersOnly, Refuses
  <2> QED
    BY <2>1, ListMembers, ListsAre DEF Bringing
<1>2. CASE CreatesNew(h)
  BY <1>2 DEF CreatesNew, Bringing
<1>3. CASE WorksOn(h)
  BY <1>3, ListMembers, ListsAre DEF WorksOn, Bringing
<1>4. CASE Purges(h)
  <2>1. Ending(hs'[h].todo)
    BY <1>4 DEF Purges
  <2>2. \A i \in DOMAIN hs'[h].todo :
           \/ hs'[h].todo[i].key = "all"
           \/ hs'[h].todo[i].key = "alarm" /\ hs'[h].todo[i].val = Absent
           \/ hs'[h].todo[i] \in Note
    BY <2>1, EndingIs
  <2> QED
    BY <1>4, <2>2, ListsAre DEF Bringing
<1> QED
  BY <1>1, <1>2, <1>3, <1>4 DEF Comes

KeptThere ==
    /\ Unsettled \subseteq Contents
    /\ (store.meta = Absent \/ (def.type = "debounce" /\ Count = 0)) => Unsettled = {}

Keeps(h) ==
    /\ \A i \in DOMAIN hs[h].todo :
          /\ write(h, i).key = "state" => Unsettled \subseteq write(h, i).val
          /\ (\/ write(h, i).key = "all"
              \/ /\ write(h, i).key = "count" /\ write(h, i).val = 0
                 /\ def.type = "debounce")
             => Unsettled = {}
    /\ Holds(h) => Unsettled \subseteq Seen(h)
    /\ (def.type = "debounce" /\ hs[h].pc = "result" /\ hs[h].result = "success")
          => Unsettled = {}

LEMMA Keeping == KeptOK <=> KeptThere /\ \A h \in Handlers : Keeps(h)
BY DEF KeptOK, KeptThere, Keeps

LEMMA KeepingNext == KeptOK' <=> KeptThere' /\ \A h \in Handlers : Keeps(h)'
BY DEF KeptOK, KeptThere, Keeps

(* The handler g is not concerned by the step. *)
LEMMA KeepsOn ==
    ASSUME NEW g, Keeps(g), Unsettled' \subseteq Unsettled, def' = def,
           hs'[g].pc = hs[g].pc, hs'[g].result = hs[g].result, hs'[g].seen = hs[g].seen,
           \A i \in DOMAIN hs'[g].todo :
              \E j \in DOMAIN hs[g].todo : hs'[g].todo[i] = hs[g].todo[j]
    PROVE  Keeps(g)'
BY DEF Keeps, write, Holds, Seen

LEMMA KeepsSame ==
    ASSUME NEW g, Keeps(g), Unsettled' \subseteq Unsettled, def' = def,
           hs'[g].pc = hs[g].pc, hs'[g].result = hs[g].result, hs'[g].seen = hs[g].seen,
           hs'[g].todo = hs[g].todo
    PROVE  Keeps(g)'
BY KeepsOn

LEMMA KeepsIdle ==
    ASSUME NEW g, hs'[g] = Idle
    PROVE  Keeps(g)'
<1>1. DOMAIN Idle.todo = {} /\ Idle.pc = "idle"
  BY IdleIs, Members, EmptySeq
<1> QED
  BY <1>1 DEF Keeps, Holds

LEMMA GoingOnKeeps ==
    ASSUME DataOK, HandlersOK, KeptOK, NEW h \in Handlers, GoesOn(h)
    PROVE  KeptOK'
<1>1. /\ \A g \in Handlers : g # h => hs'[g] = hs[g]
      /\ store' = store /\ def' = def /\ hs[h].todo = <<>>
      /\ hs'[h].pc \in {hs'[h].pc}
      /\ Moves(h, hs[h].pc, hs'[h].pc)
  BY GoesOnMoves DEF Moves
<1>2. hist'.kept = hist.kept /\ hist.settled \subseteq hist'.settled
  BY DEF GoesOn, FirstRuns, Loads, Misses, GivesUp, RunEnds, FlushEnds, WillRetry,
     RunIsLost, SchedulesNext, FlushPurges, Concludes, Reduces, FunctionReturns,
     GoesIdle, TaskSettles, Unhistoric, Discards, Issues
<1>3. Unsettled' \subseteq Unsettled
  BY <1>2 DEF Unsettled
<1>4. KeptThere /\ Keeps(h)
  BY Keeping
<1>5. KeptThere'
  BY <1>1, <1>3, <1>4 DEF KeptThere, Contents, Count
<1>6. \A g \in Handlers : g # h => Keeps(g)'
  BY <1>1, <1>3, Keeping, KeepsSame
<1>7. Writing(h)
  BY GoesOnWrites
<1>8. /\ hs[h].pc \in {"run", "reduce", "settle", "idling"} => Unsettled \subseteq Seen(h)
      /\ Unsettled \subseteq Contents
  BY <1>4 DEF Keeps, Holds, KeptThere
<1>9. GivesUp(h) \/ FlushEnds(h) => Unsettled' = {}
  <2>1. CASE GivesUp(h)
    BY <1>2, <1>8, <2>1 DEF GivesUp, Discards, Unsettled
  <2>2. CASE FlushEnds(h)
    BY <1>2, <1>8, <2>2 DEF FlushEnds, Moves, Unsettled
  <2> QED
    BY <2>1, <2>2
<1>10. FlushPurges(h) => Unsettled' = {}
  BY <1>3, <1>4 DEF FlushPurges, Moves, Keeps
<1>11. RunEnds(h) \/ Reduces(h) \/ TaskSettles(h) => Unsettled' \subseteq Seen(h)
  BY <1>3, <1>8 DEF RunEnds, Reduces, TaskSettles, Moves
<1>12. Holds(h)' => Unsettled' \subseteq Seen(h)'
  <2>1. Holds(h)' => Loads(h) \/ FunctionReturns(h) \/ GoesIdle(h)
    BY DEF GoesOn, FirstRuns, Loads, Misses, GivesUp, RunEnds, FlushEnds, WillRetry,
       RunIsLost, SchedulesNext, FlushPurges, Concludes, Reduces, FunctionReturns,
       GoesIdle, TaskSettles, Moves, Holds
  <2>2. Loads(h) => Seen(h)' = Contents
    BY DEF Loads, Seen, Contents
  <2>3. FunctionReturns(h) \/ GoesIdle(h) => Seen(h)' = Seen(h) /\ Unsettled \subseteq Seen(h)
    BY <1>8 DEF FunctionReturns, GoesIdle, Rest, Moves, Seen
  <2> QED
    BY <1>3, <1>8, <2>1, <2>2, <2>3
<1>13. def'.type = "debounce" /\ hs'[h].pc = "result" /\ hs'[h].result = "success"
          => FlushEnds(h)
  <2> SUFFICES ASSUME def.type = "debounce", hs'[h].pc = "result",
                      hs'[h].result = "success"
               PROVE  FlushEnds(h)
    BY <1>1
  <2>1. ~(hs[h].pc \in {"settle", "idling"})
    BY DEF HandlersOK
  <2> QED
    BY <2>1 DEF GoesOn, FirstRuns, Loads, Misses, GivesUp, RunEnds, WillRetry,
       RunIsLost, SchedulesNext, FlushPurges, Concludes, Reduces, FunctionReturns,
       GoesIdle, TaskSettles, Moves, Over
<1>14. Keeps(h)'
  <2>1. ASSUME NEW i \in DOMAIN hs'[h].todo
        PROVE  /\ hs'[h].todo[i].key = "state" => Unsettled' \subseteq hs'[h].todo[i].val
               /\ hs'[h].todo[i].key = "all" => Unsettled' = {}
               /\ hs'[h].todo[i].key = "count" => hs'[h].todo[i].val # 0
    BY <1>7, <1>9, <1>10, <1>11, <2>1 DEF Writing
  <2> QED
    BY <1>9, <1>12, <1>13, <2>1 DEF Keeps, write
<1> QED
  BY <1>5, <1>6, <1>14, KeepingNext

LEMMA ComingKeeps ==
    ASSUME DataOK, HandlersOK, KeptOK, NEW h \in Handlers, Comes(h)
    PROVE  KeptOK'
<1>1. /\ Begins(h) /\ hist'.kept = hist.kept /\ hist.settled \subseteq hist'.settled
  BY ComesBegins DEF Comes, AnswersOnly, Refuses, CreatesNew, WorksOn, Purges,
     Unhistoric, Discards
<1>2. Unsettled' \subseteq Unsettled
  BY <1>1 DEF Unsettled
<1>3. KeptThere
  BY Keeping
<1>4. store' = store /\ def' = def
  BY <1>1 DEF Begins
<1>5. KeptThere'
  BY <1>2, <1>3, <1>4 DEF KeptThere, Contents, Count
<1>6. \A g \in Handlers : g # h => Keeps(g)'
  BY <1>1, <1>2, Keeping, KeepsSame DEF Begins
<1>7. CreatesNew(h) \/ Purges(h) => Unsettled' = {}
  <2>1. CreatesNew(h) => Unsettled' = {}
    BY <1>2, <1>3 DEF CreatesNew, KeptThere
  <2>2. Purges(h) /\ Discards(Contents) => Unsettled' = {}
    BY <1>3 DEF KeptThere, Discards, Unsettled
  <2>3. Purges(h) /\ ~Discards(Contents) => Unsettled' = {}
    BY <1>2, <1>3 DEF Purges, KeptThere
  <2> QED
    BY <2>1, <2>2, <2>3
<1>8. Bringing(h)
  BY ComesWrites
<1>9. Holds(h)' => Unsettled' \subseteq Seen(h)'
  <2>1. Holds(h)' => hs'[h].pc = "reduce" /\ hs'[h].seen = store.state
    BY DEF Comes, AnswersOnly, Refuses, CreatesNew, WorksOn, Purges, Holds
  <2>2. hs'[h].seen = store.state => Seen(h)' = Contents
    BY DEF Seen, Contents
  <2> QED
    BY <1>2, <1>3, <2>1, <2>2 DEF KeptThere
<1>10. hs'[h].result # "success"
  BY <1>1 DEF Begins
<1>11. Keeps(h)'
  <2>1. ASSUME NEW i \in DOMAIN hs'[h].todo
        PROVE  /\ hs'[h].todo[i].key = "state" => Unsettled' = {}
               /\ hs'[h].todo[i].key = "all" => Unsettled' = {}
               /\ hs'[h].todo[i].key = "count" => hs'[h].todo[i].val # 0 \/ Unsettled' = {}
    BY <1>7, <1>8, <2>1 DEF Bringing
  <2> QED
    BY <1>9, <1>10, <2>1 DEF Keeps, write
<1> QED
  BY <1>5, <1>6, <1>11, KeepingNext

LEMMA AbsentNeither ==
    /\ Absent \notin SUBSET Ids /\ Absent \notin 0 .. MaxCount
    /\ Absent # "running" /\ Absent # "initializing" /\ Absent # TRUE
<1>1. Absent \notin SUBSET Ids
  BY AbsentIsNoValue DEF AbsentIsNoValue, Ids
<1>2. Absent \notin 0 .. MaxCount
  <2>1. \A n \in 0 .. MaxCount : n \in Nat
    BY BoundsAreNumbers DEF BoundsAreNumbers
  <2> QED
    BY <2>1, AbsentIsNoValue DEF AbsentIsNoValue
<1>3. Absent # "running" /\ Absent # "initializing" /\ Absent # TRUE
  BY AbsentIsNoValue DEF AbsentIsNoValue
<1> QED
  BY <1>1, <1>2, <1>3

(* The writes that are left are among those that were there. *)
LEMMA Remaining ==
    ASSUME NEW h, NEW n, Drops(h, n)
    PROVE  \A i \in DOMAIN hs'[h].todo :
              \E j \in DOMAIN hs[h].todo : hs'[h].todo[i] = hs[h].todo[j]
BY DEF Drops

LEMMA PerformingKeeps ==
    ASSUME DataOK, HandlersOK, KeptOK, NEW h \in Handlers, Performs(h)
    PROVE  KeptOK'
<1> DEFINE w == write(h, 1)
<1>1. /\ Drops(h, 1) /\ w \in Writes /\ 1 \in DOMAIN hs[h].todo
      /\ \A g \in Handlers : g # h => hs'[g] = hs[g]
      /\ def' = def
  BY Performing
<1>2. /\ hist'.kept = hist.kept /\ hist'.settled = hist.settled
      /\ store' = Stored(w)
  BY DEF Performs
<1>3. Unsettled' = Unsettled
  BY <1>2 DEF Unsettled
<1>4. KeptThere /\ Keeps(h)
  BY Keeping
<1>5. \A g \in Handlers : g # h => Keeps(g)'
  BY <1>1, <1>3, Keeping, KeepsSame
<1>6. Keeps(h)'
  BY <1>1, <1>3, <1>4, KeepsOn, Remaining DEF Drops
<1> HIDE DEF w
<1>7. /\ w.key = "state" => Unsettled \subseteq w.val
      /\ w.key = "all" => Unsettled = {}
      /\ w.key = "count" /\ w.val = 0 /\ def.type = "debounce" => Unsettled = {}
  BY <1>1, <1>4 DEF Keeps, w
<1>8. Absent \notin SUBSET Ids /\ Absent \notin 0 .. MaxCount /\ Absent # "running"
  BY AbsentNeither
<1>9. Unsettled \subseteq Contents'
  <2>1. CASE w.key = "all"
    BY <1>7, <2>1
  <2>2. CASE w.key = "state"
    <3>1. Stored(w).state = w.val /\ w.val \in SUBSET Ids
      BY <1>1, <2>2, StoredKeeps
    <3>2. Contents' = w.val
      BY <1>2, <1>8, <3>1 DEF Contents
    <3> QED
      BY <1>7, <2>2, <3>2
  <2>3. CASE w.key \notin {"all", "state"}
    <3>1. Contents' = Contents
      BY <1>1, <1>2, <2>3, StoredKeeps DEF Contents
    <3> QED
      BY <1>4, <3>1 DEF KeptThere
  <2> QED
    BY <2>1, <2>2, <2>3
<1>10. store'.meta = Absent => Unsettled = {}
  <2>1. CASE w.key = "all"
    BY <1>7, <2>1
  <2>2. CASE w.key # "all"
    <3>1. store'.meta = Absent => store.meta = Absent
      <4>1. w.key = "meta" => store'.meta # Absent
        BY <1>1, <1>2, StoredKeeps, AbsentIsNoValue DEF AbsentIsNoValue, DataOK, StoreState
      <4>2. w.key = "status" => (store'.meta = Absent => store.meta = Absent)
        BY <1>1, <1>2, <1>8, StoredKeeps
      <4>3. w.key \notin {"meta", "status", "all"} => store'.meta = store.meta
        BY <1>1, <1>2, StoredKeeps
      <4> QED
        BY <2>2, <4>1, <4>2, <4>3
    <3> QED
      BY <1>4, <3>1 DEF KeptThere
  <2> QED
    BY <2>1, <2>2
<1>11. def.type = "debounce" /\ Count' = 0 => Unsettled = {}
  <2>1. CASE w.key = "all"
    BY <1>7, <2>1
  <2>2. CASE w.key = "count"
    <3>1. Count' = w.val
      BY <1>1, <1>2, <1>8, <2>2, StoredKeeps DEF Count
    <3> QED
      BY <1>7, <2>2, <3>1
  <2>3. CASE w.key \notin {"all", "count"}
    <3>1. Count' = Count
      BY <1>1, <1>2, <2>3, StoredKeeps DEF Count
    <3> QED
      BY <1>4, <3>1 DEF KeptThere
  <2> QED
    BY <2>1, <2>2, <2>3
<1>12. KeptThere'
  BY <1>1, <1>3, <1>9, <1>10, <1>11 DEF KeptThere
<1> QED
  BY <1>5, <1>6, <1>12, KeepingNext

LEMMA KeepsWithout ==
    ASSUME KeptOK, def' = def, store'.meta = store.meta, store'.state = store.state,
           store'.count = store.count, hist'.kept = hist.kept,
           hist'.settled = hist.settled,
           \A h \in Handlers : hs'[h] = Idle \/ hs'[h] = hs[h]
    PROVE  KeptOK'
<1>1. Unsettled' = Unsettled
  BY DEF Unsettled
<1>2. KeptThere'
  BY <1>1, Keeping DEF KeptThere, Contents, Count
<1>3. \A h \in Handlers : Keeps(h)'
  BY <1>1, Keeping, KeepsIdle, KeepsSame
<1> QED
  BY <1>2, <1>3, KeepingNext

-----------------------------------------------------------------------------
(* What a handler that runs alone has taken in is its own.                 *)

Own(h) ==
    Active(h) /\ ~hs[h].shared /\ hs[h].id # 0 /\ hs[h].id \notin hist.settled

Owns(h) ==
    /\ \/ \E i \in DOMAIN hs[h].todo :
             write(h, i).key = "state" /\ hs[h].id \in write(h, i).val
       \/ hs[h].id \in Contents
       \/ hs[h].pc \in {"settle", "idling"}
    /\ def.type = "debounce" =>
          \/ \E i \in DOMAIN hs[h].todo :
                write(h, i).key = "count" /\ write(h, i).val # 0
          \/ Count # 0
    /\ ~Pending(h, "all") /\ store.meta # Absent
    /\ def.type = "debounce" /\ hs[h].pc = "run" => hs[h].id \in Seen(h)
    /\ ~(def.type = "debounce" /\ hs[h].pc = "result" /\ hs[h].result = "success")
    /\ \A i \in DOMAIN hs[h].todo :
          /\ write(h, i).key = "state" => hs[h].id \in write(h, i).val
          /\ write(h, i).key = "count" => write(h, i).val # 0

LEMMA Owning == OwnOK <=> \A h \in Handlers : Own(h) => Owns(h)
BY DEF OwnOK, Own, Owns

LEMMA OwningNext == OwnOK' <=> \A h \in Handlers : Own(h)' => Owns(h)'
BY DEF OwnOK, Own, Owns

(* Where h is active, any other handler is idle or shared.                 *)
LEMMA NotAlone ==
    ASSUME HandlersOK, NEW h \in Handlers, NEW g \in Handlers, g # h, Active(h)
    PROVE  hs[g] = Idle \/ (Active(g) /\ hs[g].shared)
BY DEF HandlersOK

LEMMA IdleNotOwn ==
    ASSUME NEW g, hs'[g] = Idle
    PROVE  ~Own(g)'
BY IdleIs DEF Own, Active

LEMMA GoingOnOwns ==
    ASSUME DataOK, HandlersOK, GoneOK, OwnOK, NEW h \in Handlers, GoesOn(h)
    PROVE  OwnOK'
<1>1. /\ \A g \in Handlers : g # h => hs'[g] = hs[g]
      /\ store' = store /\ def' = def /\ hs[h].todo = <<>>
      /\ hs'[h].shared = hs[h].shared
  BY GoesOnMoves DEF Moves
<1>2. Active(h) /\ DOMAIN hs[h].todo = {}
  <2>1. Active(h)
    BY GoesOnMoves DEF Active
  <2>2. DOMAIN hs[h].todo = {}
    BY <1>1, Typed, Members
  <2> QED
    BY <2>1, <2>2
<1>3. \A g \in Handlers : g # h => ~Own(g)'
  BY <1>1, <1>2, NotAlone, IdleNotOwn DEF Own
<1>4. hist.settled \subseteq hist'.settled
  BY DEF GoesOn, FirstRuns, Loads, Misses, GivesUp, RunEnds, FlushEnds, WillRetry,
     RunIsLost, SchedulesNext, FlushPurges, Concludes, Reduces, FunctionReturns,
     GoesIdle, TaskSettles, Unhistoric, Discards, Issues
<1> SUFFICES ASSUME Own(h)' PROVE Owns(h)'
  BY <1>3, OwningNext
<1>5. ~hs[h].shared /\ hs'[h].id # 0 /\ hs'[h].id \notin hist'.settled
  BY <1>1 DEF Own
<1>6. Own(h) => /\ hs[h].id \in Contents \/ hs[h].pc \in {"settle", "idling"}
                /\ def.type = "debounce" => Count # 0
                /\ store.meta # Absent
                /\ def.type = "debounce" /\ hs[h].pc = "run" => hs[h].id \in Seen(h)
                /\ ~(def.type = "debounce" /\ hs[h].pc = "result"
                       /\ hs[h].result = "success")
  BY <1>2, Owning DEF Owns
<1>7. hs'[h].id = hs[h].id => Own(h)
  BY <1>2, <1>4, <1>5 DEF Own
<1>8. hs[h].pc \in {"run", "reduce", "settle", "idling"} => store.meta # Absent
  BY <1>1, <1>2, <1>5 DEF GoneOK, Harmless, Creates
<1>9. hs[h].id # 0 /\ def.type # "debounce"
         => hs[h].pc \in {"settle", "idling", "result", "return"}
  BY DEF HandlersOK
<1>10. Contents' = Contents /\ Count' = Count
  BY <1>1 DEF Contents, Count
<1>11. Writing(h)
  BY GoesOnWrites
<1>12. ~GivesUp(h) /\ ~FlushEnds(h) /\ ~FlushPurges(h) /\ ~Misses(h) /\ ~FirstRuns(h)
  <2>1. ~GivesUp(h)
    <3> SUFFICES ASSUME GivesUp(h) PROVE FALSE
      OBVIOUS
    <3>1. hs'[h].id = hs[h].id /\ Own(h) /\ hs[h].id # 0 /\ hs[h].id \notin hist'.settled
      BY <1>5, <1>7 DEF GivesUp
    <3>2. CASE hs[h].pc = "execute" /\ Discards(Contents)
      BY <1>6, <3>1, <3>2 DEF Discards
    <3>3. CASE hs[h].pc = "run" /\ def.type # "task" /\ Discards(Seen(h))
      BY <1>6, <1>9, <3>1, <3>3 DEF Discards
    <3>4. CASE Discards(Seen(h) \union ({hs[h].id} \ {0}))
      BY <3>1, <3>4 DEF Discards
    <3> QED
      BY <3>2, <3>3, <3>4 DEF GivesUp
  <2>2. ~FlushEnds(h)
    <3> SUFFICES ASSUME FlushEnds(h) PROVE FALSE
      OBVIOUS
    <3>1. hs'[h].id = hs[h].id /\ Own(h) /\ hs[h].pc = "run" /\ def.type = "debounce"
      BY <1>7 DEF FlushEnds, Moves
    <3> QED
      BY <1>5, <1>6, <3>1 DEF FlushEnds
  <2>3. ~FlushPurges(h)
    BY <1>6, <1>7 DEF FlushPurges, Rest, Moves
  <2>4. ~Misses(h)
    <3> SUFFICES ASSUME Misses(h) PROVE FALSE
      OBVIOUS
    <3>1. hs'[h].id = hs[h].id /\ Own(h) /\ hs[h].pc = "execute"
      BY <1>7 DEF Misses, Moves
    <3>2. Contents = {}
      BY DEF Misses, Contents
    <3> QED
      BY <1>6, <3>1, <3>2
  <2>5. ~FirstRuns(h)
    <3> SUFFICES ASSUME FirstRuns(h) PROVE FALSE
      OBVIOUS
    <3>1. hs[h].pc = "started" /\ hs[h].id # 0
      BY <1>5 DEF FirstRuns, Moves, Rest
    <3>2. def.type = "continuous"
      BY <3>1 DEF HandlersOK
    <3> QED
      BY <1>9, <3>1, <3>2
  <2> QED
    BY <2>1, <2>2, <2>3, <2>4, <2>5
<1>13. \A i \in DOMAIN hs'[h].todo :
          /\ hs'[h].todo[i].key # "all"
          /\ hs'[h].todo[i].key = "state" => hs'[h].id \in hs'[h].todo[i].val
          /\ hs'[h].todo[i].key = "count" => hs'[h].todo[i].val # 0
  BY <1>5, <1>11, <1>12 DEF Writing
<1>14. ~Pending(h, "all")'
  BY <1>13 DEF Pending
<1>15. /\ \/ \E i \in DOMAIN hs'[h].todo : hs'[h].todo[i].key = "state"
          \/ hs'[h].id \in Contents
          \/ hs'[h].pc \in {"settle", "idling"}
       /\ def.type = "debounce" =>
             \/ \E i \in DOMAIN hs'[h].todo : hs'[h].todo[i].key = "count"
             \/ Count # 0
       /\ store.meta # Absent
       /\ def.type = "debounce" /\ hs'[h].pc = "run" => hs'[h].id \in Seen(h)'
       /\ ~(def.type = "debounce" /\ hs'[h].pc = "result" /\ hs'[h].result = "success")
  <2>1. CASE Loads(h)
    <3>1. Own(h) /\ hs'[h].id = hs[h].id /\ hs[h].pc = "execute" /\ hs'[h].pc = "run"
      BY <1>7, <2>1 DEF Loads, Moves
    <3>2. Seen(h)' = Contents
      BY <2>1 DEF Loads, Seen, Contents
    <3> QED
      BY <1>6, <3>1, <3>2
  <2>2. CASE RunEnds(h)
    <3>1. /\ \E i \in DOMAIN hs'[h].todo : hs'[h].todo[i].key = "state"
          /\ hs[h].pc = "run" /\ hs'[h].pc = "result" /\ def.type = "continuous"
      BY <1>5, <2>2 DEF RunEnds, TakesIn, Moves
    <3> QED
      BY <1>8, <3>1
  <2>3. CASE WillRetry(h)
    <3>1. /\ Own(h) /\ hs'[h].id = hs[h].id /\ hs[h].pc = "run" /\ hs'[h].pc = "result"
          /\ hs'[h].result = "retryScheduled"
      BY <1>7, <2>3 DEF WillRetry, Moves, Over
    <3> QED
      BY <1>6, <3>1
  <2>4. CASE RunIsLost(h)
    <3>1. /\ Own(h) /\ hs'[h].id = hs[h].id /\ hs[h].pc = "run" /\ hs'[h].pc = "fail"
      BY <1>7, <2>4 DEF RunIsLost, Moves, Rest
    <3> QED
      BY <1>6, <3>1
  <2>5. CASE SchedulesNext(h) \/ Concludes(h)
    <3>1. /\ Own(h) /\ hs'[h].id = hs[h].id /\ hs[h].pc = "result" /\ hs'[h].pc = "return"
      BY <1>7, <2>5 DEF SchedulesNext, Concludes, Moves, Rest
    <3> QED
      BY <1>6, <3>1
  <2>6. CASE Reduces(h)
    <3>1. /\ \E i \in DOMAIN hs'[h].todo : hs'[h].todo[i].key = "state"
          /\ \E i \in DOMAIN hs'[h].todo : hs'[h].todo[i].key = "count"
          /\ hs[h].pc = "reduce" /\ hs'[h].pc \in {"execute", "return"}
      BY <2>6 DEF Reduces, Moves
    <3> QED
      BY <1>8, <3>1
  <2>7. CASE FunctionReturns(h)
    <3>1. hs[h].pc = "run" /\ hs'[h].pc = "settle" /\ def.type = "task"
      BY <2>7 DEF FunctionReturns, Moves
    <3> QED
      BY <1>8, <3>1
  <2>8. CASE GoesIdle(h)
    <3>1. hs[h].pc = "settle" /\ hs'[h].pc = "idling" /\ def.type = "task"
      BY <2>8 DEF GoesIdle, Moves, HandlersOK
    <3> QED
      BY <1>8, <3>1
  <2>9. CASE TaskSettles(h)
    <3>1. /\ hs[h].pc \in {"settle", "idling"} /\ hs'[h].pc = "result"
          /\ \E i \in DOMAIN hs'[h].todo : hs'[h].todo[i].key = "state"
      BY <1>5, <2>9 DEF TaskSettles, Settled, Moves
    <3>2. def.type = "task"
      BY <3>1 DEF HandlersOK
    <3> QED
      BY <1>8, <3>1, <3>2
  <2> QED
    BY <1>12, <2>1, <2>2, <2>3, <2>4, <2>5, <2>6, <2>7, <2>8, <2>9 DEF GoesOn
<1> QED
  BY <1>1, <1>10, <1>13, <1>14, <1>15 DEF Owns, write

LEMMA ComingOwns ==
    ASSUME DataOK, HandlersOK, OwnOK, NEW h \in Handlers, Comes(h)
    PROVE  OwnOK'
<1>1. Begins(h)
  BY ComesBegins
<1>2. \A g \in Handlers : g # h => hs'[g] = Idle \/ hs'[g].shared
  BY <1>1 DEF Begins, HandlersOK
<1>3. \A g \in Handlers : g # h => ~Own(g)'
  BY <1>2, IdleNotOwn DEF Own
<1>4. ~Own(h)'
  BY <1>1 DEF Begins, Own
<1> QED
  BY <1>3, <1>4, OwningNext

(* Nothing but what is soft is dropped; a write of the handler's own state *)
(* or count is not.                                                        *)
LEMMA PerformingOwns ==
    ASSUME DataOK, HandlersOK, OwnOK, NEW h \in Handlers, Performs(h)
    PROVE  OwnOK'
<1> DEFINE w == write(h, 1)
<1>1. /\ Drops(h, 1) /\ w \in Writes /\ 1 \in DOMAIN hs[h].todo /\ Active(h)
      /\ \A g \in Handlers : g # h => hs'[g] = hs[g]
      /\ def' = def
      /\ \A i \in DOMAIN hs[h].todo : i = 1 \/ i > 1
      /\ \A i \in DOMAIN hs[h].todo :
            i > 1 => \E j \in DOMAIN hs'[h].todo : hs'[h].todo[j] = hs[h].todo[i]
  BY Performing
<1>2. hist'.settled = hist.settled /\ store' = Stored(w)
  BY DEF Performs
<1>3. \A g \in Handlers : g # h => ~Own(g)'
  BY <1>1, NotAlone, IdleNotOwn DEF Own
<1> SUFFICES ASSUME Own(h)' PROVE Owns(h)'
  BY <1>3, OwningNext
<1>4. /\ hs'[h].pc = hs[h].pc /\ hs'[h].id = hs[h].id /\ hs'[h].seen = hs[h].seen
      /\ hs'[h].result = hs[h].result /\ hs'[h].shared = hs[h].shared
  BY <1>1 DEF Drops
<1>5. Own(h)
  BY <1>1, <1>2, <1>4 DEF Own
<1>6. Owns(h)
  BY <1>5, Owning
<1>7. /\ w.key = "state" => hs[h].id \in w.val
      /\ w.key = "count" => w.val # 0
      /\ w.key # "all"
  BY <1>1, <1>6 DEF Owns, Pending, write
<1> HIDE DEF w
<1>8. \A i \in DOMAIN hs'[h].todo : \E j \in DOMAIN hs[h].todo :
         hs'[h].todo[i] = hs[h].todo[j]
  BY <1>1, Remaining
<1>9. \/ \E i \in DOMAIN hs'[h].todo :
            hs'[h].todo[i].key = "state" /\ hs[h].id \in hs'[h].todo[i].val
      \/ hs[h].id \in Contents'
      \/ hs[h].pc \in {"settle", "idling"}
  <2>1. w.key = "state" => hs[h].id \in Contents'
    <3>1. w.key = "state" => Stored(w).state = w.val /\ w.val \in SUBSET Ids
      BY <1>1, StoredKeeps
    <3> QED
      BY <1>2, <1>7, <3>1, AbsentNeither DEF Contents
  <2>2. w.key # "state" => Contents' = Contents
    BY <1>1, <1>2, <1>7, StoredKeeps DEF Contents
  <2>3. \/ \E i \in DOMAIN hs[h].todo :
              hs[h].todo[i].key = "state" /\ hs[h].id \in hs[h].todo[i].val
        \/ hs[h].id \in Contents
        \/ hs[h].pc \in {"settle", "idling"}
    BY <1>6 DEF Owns, write
  <2>4. hs[h].todo[1] = w
    BY DEF w, write
  <2> QED
    BY <1>1, <2>1, <2>2, <2>3, <2>4
<1>10. def.type = "debounce" =>
          \/ \E i \in DOMAIN hs'[h].todo :
                hs'[h].todo[i].key = "count" /\ hs'[h].todo[i].val # 0
          \/ Count' # 0
  <2>1. w.key = "count" => Count' # 0
    <3>1. w.key = "count" => Stored(w).count = w.val /\ w.val \in 0 .. MaxCount
      BY <1>1, StoredKeeps
    <3> QED
      BY <1>2, <1>7, <3>1, AbsentNeither DEF Count
  <2>2. w.key # "count" => Count' = Count
    BY <1>1, <1>2, <1>7, StoredKeeps DEF Count
  <2>3. def.type = "debounce" =>
           \/ \E i \in DOMAIN hs[h].todo :
                 hs[h].todo[i].key = "count" /\ hs[h].todo[i].val # 0
           \/ Count # 0
    BY <1>6 DEF Owns, write
  <2>4. hs[h].todo[1] = w
    BY DEF w, write
  <2> QED
    BY <1>1, <2>1, <2>2, <2>3, <2>4
<1>11. store'.meta # Absent
  <2>1. w.key = "meta" => store'.meta # Absent
    BY <1>1, <1>2, StoredKeeps, AbsentNeither DEF DataOK, StoreState
  <2>2. store.meta # Absent
    BY <1>6 DEF Owns
  <2>3. w.key = "status" => store'.meta # Absent
    BY <1>1, <1>2, <2>2, StoredKeeps, AbsentNeither
  <2>4. w.key \notin {"meta", "status", "all"} => store'.meta = store.meta
    BY <1>1, <1>2, StoredKeeps
  <2> QED
    BY <1>7, <2>1, <2>2, <2>3, <2>4
<1>12. ~Pending(h, "all")'
  BY <1>6, <1>8 DEF Owns, Pending
<1>13. \A i \in DOMAIN hs'[h].todo :
          /\ hs'[h].todo[i].key = "state" => hs[h].id \in hs'[h].todo[i].val
          /\ hs'[h].todo[i].key = "count" => hs'[h].todo[i].val # 0
  BY <1>6, <1>8 DEF Owns, write
<1>14. /\ def.type = "debounce" /\ hs[h].pc = "run" => hs[h].id \in Seen(h)'
       /\ ~(def.type = "debounce" /\ hs[h].pc = "result" /\ hs[h].result = "success")
  BY <1>4, <1>6 DEF Owns, Seen
<1> QED
  BY <1>1, <1>4, <1>9, <1>10, <1>11, <1>12, <1>13, <1>14 DEF Owns, write

LEMMA SkippingOwns ==
    ASSUME DataOK, HandlersOK, WritesOK, OwnOK, NEW h \in Handlers,
           NEW n \in 1 .. Len(hs[h].todo), Skips(h, n)
    PROVE  OwnOK'
<1>1. /\ Drops(h, n) /\ store' = store /\ def' = def /\ hist'.settled = hist.settled
      /\ SoftUpTo(hs[h].todo, n)
      /\ \A g \in Handlers : g # h => hs'[g] = hs[g]
  BY DEF Skips, Faulty, Halves, Drops
<1>2. /\ hs'[h].pc = hs[h].pc /\ hs'[h].id = hs[h].id /\ hs'[h].seen = hs[h].seen
      /\ hs'[h].result = hs[h].result /\ hs'[h].shared = hs[h].shared
  BY <1>1 DEF Drops
<1>3. Active(h)
  <2>1. hs[h].todo # <<>>
    BY Typed, Members, EmptySeq
  <2> QED
    BY <2>1, IdleIs DEF HandlersOK
<1>4. \A g \in Handlers : g # h => ~Own(g)'
  BY <1>1, <1>3, NotAlone, IdleNotOwn DEF Own
<1> SUFFICES ASSUME Own(h)' PROVE Owns(h)'
  BY <1>4, OwningNext
<1>5. Owns(h)
  BY <1>1, <1>2, <1>3, Owning DEF Own
<1>6. \A i \in DOMAIN hs'[h].todo : \E j \in DOMAIN hs[h].todo :
         hs'[h].todo[i] = hs[h].todo[j]
  BY <1>1, Remaining
<1>7. \A i \in DOMAIN hs[h].todo :
         ~write(h, i).soft => \E j \in DOMAIN hs'[h].todo : hs'[h].todo[j] = hs[h].todo[i]
  BY <1>1, PendsOn DEF SoftUpTo, write
<1>8. \A i \in DOMAIN hs[h].todo :
         write(h, i).key \in {"state", "count"} => ~write(h, i).soft
  <2>1. \A i \in DOMAIN hs[h].todo :
           /\ write(h, i) \in Writes
           /\ write(h, i).soft => write(h, i).val = Absent
    BY Typed, Members, Orders DEF Ordered, write
  <2>2. \A w \in Writes : /\ w.key = "state" => w.val \in SUBSET Ids
                          /\ w.key = "count" => w.val \in 0 .. MaxCount
    BY DEF Writes
  <2> QED
    BY <2>1, <2>2, AbsentNeither
<1>9. Contents' = Contents /\ Count' = Count /\ Seen(h)' = Seen(h)
  BY <1>1, <1>2 DEF Contents, Count, Seen
<1>10. \/ \E i \in DOMAIN hs'[h].todo :
             hs'[h].todo[i].key = "state" /\ hs[h].id \in hs'[h].todo[i].val
       \/ hs[h].id \in Contents
       \/ hs[h].pc \in {"settle", "idling"}
  BY <1>5, <1>7, <1>8 DEF Owns, write
<1>11. def.type = "debounce" =>
          \/ \E i \in DOMAIN hs'[h].todo :
                hs'[h].todo[i].key = "count" /\ hs'[h].todo[i].val # 0
          \/ Count # 0
  BY <1>5, <1>7, <1>8 DEF Owns, write
<1>12. ~Pending(h, "all")' /\ store'.meta # Absent
  BY <1>1, <1>5, <1>6 DEF Owns, Pending
<1>13. \A i \in DOMAIN hs'[h].todo :
          /\ hs'[h].todo[i].key = "state" => hs[h].id \in hs'[h].todo[i].val
          /\ hs'[h].todo[i].key = "count" => hs'[h].todo[i].val # 0
  BY <1>5, <1>6 DEF Owns, write
<1>14. /\ def.type = "debounce" /\ hs[h].pc = "run" => hs[h].id \in Seen(h)
       /\ ~(def.type = "debounce" /\ hs[h].pc = "result" /\ hs[h].result = "success")
  BY <1>5 DEF Owns
<1> QED
  BY <1>1, <1>2, <1>9, <1>10, <1>11, <1>12, <1>13, <1>14 DEF Owns, write

LEMMA OwnsWithout ==
    ASSUME OwnOK, def' = def, store'.meta = store.meta, store'.state = store.state,
           store'.count = store.count, hist'.settled = hist.settled,
           \A h \in Handlers : hs'[h] = Idle \/ hs'[h] = hs[h]
    PROVE  OwnOK'
<1>1. Contents' = Contents /\ Count' = Count
  BY DEF Contents, Count
<1>2. ASSUME NEW h \in Handlers, hs'[h] = hs[h], Own(h)' PROVE Owns(h)'
  <2>1. Owns(h)
    BY <1>2, Owning DEF Own, Active
  <2>2. Seen(h)' = Seen(h) /\ (Pending(h, "all")' <=> Pending(h, "all"))
    BY <1>2 DEF Seen, Pending
  <2> QED
    BY <1>1, <1>2, <2>1, <2>2 DEF Owns, write
<1> QED
  BY <1>2, IdleNotOwn, OwningNext

(* Those steps in which handlers only end, and nothing is written.         *)
LEMMA EndsWrite ==
    ASSUME DataOK, Changes
    PROVE  \/ \E h \in Handlers :
                 \/ GoesOn(h) \/ Comes(h) \/ Performs(h)
                 \/ \E n \in 1 .. Len(hs[h].todo) : Skips(h, n)
                 \/ Returns(h)
           \/ /\ def' = def /\ store'.meta = store.meta /\ store'.state = store.state
              /\ store'.count = store.count /\ store'.scheduledAt = store.scheduledAt
              /\ hist'.settled = hist.settled
              /\ hist'.kept = hist.kept /\ hist'.issued = hist.issued
              /\ hist'.repeated = hist.repeated /\ hist'.raced = hist.raced
              /\ \A h \in Handlers : hs'[h] = Idle \/ hs'[h] = hs[h]
<1>1. ASSUME NEW h \in Handlers, Fails(h) \/ Breaks(h)
      PROVE  /\ def' = def /\ store' = store
             /\ hist'.settled = hist.settled
             /\ hist'.kept = hist.kept /\ hist'.issued = hist.issued
             /\ hist'.repeated = hist.repeated /\ hist'.raced = hist.raced
             /\ \A g \in Handlers : hs'[g] = Idle \/ hs'[g] = hs[g]
  BY <1>1 DEF Fails, Breaks, Leaves, Halves
<1>2. AlarmIsLost \/ Crashes =>
             /\ def' = def /\ store' = store
             /\ hist'.settled = hist.settled
             /\ hist'.kept = hist.kept /\ hist'.issued = hist.issued
             /\ hist'.repeated = hist.repeated /\ hist'.raced = hist.raced
             /\ \A g \in Handlers : hs'[g] = Idle \/ hs'[g] = hs[g]
  BY DEF AlarmIsLost, Crashes, Faulty, Halves
<1>3. Ticks => /\ def' = def /\ store'.meta = store.meta /\ store'.state = store.state
               /\ store'.count = store.count /\ store'.scheduledAt = store.scheduledAt
               /\ hist' = hist /\ hs' = hs
  BY DEF Ticks, DataOK, StoreState
<1> QED
  BY <1>1, <1>2, <1>3 DEF Changes

LEMMA OwnStays ==
    ASSUME DataOK, HandlersOK, WritesOK, GoneOK, OwnOK, Changes
    PROVE  OwnOK'
<1>1. ASSUME NEW h \in Handlers, Returns(h) PROVE OwnOK'
  BY <1>1, OwnsWithout DEF Returns, Leaves
<1> QED
  BY <1>1, EndsWrite, GoingOnOwns, ComingOwns, PerformingOwns, SkippingOwns, OwnsWithout

LEMMA KeptStays ==
    ASSUME DataOK, HandlersOK, KeptOK, OwnOK, Changes
    PROVE  KeptOK'
<1>1. ASSUME NEW h \in Handlers, NEW n \in 1 .. Len(hs[h].todo), Skips(h, n)
      PROVE  KeptOK'
  <2>1. /\ Drops(h, n) /\ store' = store /\ def' = def
        /\ hist'.kept = hist.kept /\ hist'.settled = hist.settled
        /\ \A g \in Handlers : g # h => hs'[g] = hs[g]
    BY <1>1 DEF Skips, Faulty, Halves, Drops
  <2>2. Unsettled' = Unsettled
    BY <2>1 DEF Unsettled
  <2>3. KeptThere'
    BY <2>1, <2>2, Keeping DEF KeptThere, Contents, Count
  <2>4. \A g \in Handlers : g # h => Keeps(g)'
    BY <2>1, <2>2, Keeping, KeepsSame
  <2>5. Keeps(h)'
    BY <2>1, <2>2, Keeping, KeepsOn, Remaining DEF Drops
  <2> QED
    BY <2>3, <2>4, <2>5, KeepingNext
<1>2. ASSUME NEW h \in Handlers, Returns(h) PROVE KeptOK'
  <2>1. /\ store' = store /\ def' = def /\ hist'.settled = hist.settled
        /\ \A g \in Handlers : hs'[g] = Idle \/ hs'[g] = hs[g]
        /\ hs'[h] = Idle /\ Active(h) /\ hs[h].todo = <<>> /\ hs[h].pc = "return"
    BY <1>2 DEF Returns, Leaves
  <2>2. CASE hist'.kept = hist.kept
    BY <2>1, <2>2, KeepsWithout
  <2>3. CASE hist'.kept # hist.kept
    <3>1. ~hs[h].shared /\ hs[h].id # 0 /\ hist'.kept = hist.kept \union {hs[h].id}
      BY <1>2, <2>3 DEF Returns
    <3>2. \A g \in Handlers : hs'[g] = Idle
      <4>1. \A g \in Handlers \ {h} : ~Active(g)
        BY <2>1, <3>1 DEF HandlersOK
      <4> QED
        BY <2>1, <4>1 DEF HandlersOK
    <3>3. \A g \in Handlers : Keeps(g)'
      BY <3>2, KeepsIdle
    <3>4. Contents' = Contents /\ Count' = Count
      BY <2>1 DEF Contents, Count
    <3>5. hs[h].id \notin hist.settled =>
             /\ hs[h].id \in Contents /\ store.meta # Absent
             /\ def.type = "debounce" => Count # 0
      <4>1. DOMAIN hs[h].todo = {}
        BY <2>1, Typed, Members
      <4> QED
        BY <2>1, <3>1, <4>1, Owning DEF Own, Owns
    <3>6. Unsettled' \subseteq Unsettled \union ({hs[h].id} \ hist.settled)
      BY <2>1, <3>1 DEF Unsettled
    <3>7. KeptThere
      BY Keeping
    <3>8. KeptThere'
      BY <2>1, <3>4, <3>5, <3>6, <3>7 DEF KeptThere
    <3> QED
      BY <3>3, <3>8, KeepingNext
  <2> QED
    BY <2>2, <2>3
<1> QED
  BY <1>1, <1>2, EndsWrite, GoingOnKeeps, ComingKeeps, PerformingKeeps, KeepsWithout

-----------------------------------------------------------------------------
(* Nothing is flushed twice.                                               *)

Numbers == 1 .. hist.issued

Numbered(h) ==
    /\ Seen(h) \subseteq Numbers /\ hs[h].id <= hist.issued
    /\ \A i \in DOMAIN hs[h].todo :
          write(h, i).key = "state" => write(h, i).val \subseteq Numbers

Stocked ==
    /\ hist.settled \subseteq Numbers /\ hist.kept \subseteq Numbers
    /\ Contents \subseteq Numbers

Unrepeated == hist.repeated => budget.faults > 0 \/ hist.raced

Untroubled == budget.faults = 0 /\ ~hist.raced /\ (\A h \in Handlers : ~Settles(h))

Unflushed(ids) == ids \intersect hist.settled = {}

Fresh(h) ==
    /\ Holds(h) => Unflushed(Seen(h))
    /\ hs[h].pc \in {"settle", "idling"} => Unflushed({hs[h].id} \ {0})
    /\ \A i \in DOMAIN hs[h].todo :
          write(h, i).key = "state" => Unflushed(write(h, i).val)

FlushedOK ==
    /\ Stocked /\ \A h \in Handlers : Numbered(h)
    /\ Unrepeated
    /\ Untroubled => Unflushed(Contents) /\ \A h \in Handlers : Fresh(h)

LEMMA Flushing ==
    ASSUME DataOK, HandlersOK
    PROVE  FlushOK <=> FlushedOK
<1>1. \A h \in Handlers : hs[h].id \in Nat
  <2>1. \A h \in Handlers : hs[h].id \in 0 .. MaxIds
    BY Typed
  <2> QED
    BY <2>1, BoundsAreNumbers DEF BoundsAreNumbers
<1>2. hist.issued \in Nat
  BY BoundsAreNumbers DEF DataOK, History, BoundsAreNumbers
<1>3. ASSUME FlushOK PROVE FlushedOK
  <2>1. Stocked /\ Unrepeated /\ \A h \in Handlers : Numbered(h)
    BY <1>3 DEF FlushOK, Stocked, Unrepeated, Numbered, Numbers
  <2>2. Untroubled => Unflushed(Contents) /\ \A h \in Handlers : Fresh(h)
    BY <1>3 DEF FlushOK, Untroubled, Fresh, Apart, Unflushed
  <2> QED
    BY <2>1, <2>2 DEF FlushedOK
<1>4. ASSUME FlushedOK PROVE FlushOK
  <2>1. Stocked /\ Unrepeated /\ \A h \in Handlers : Numbered(h)
    BY <1>4 DEF FlushedOK
  <2>2. \A h \in Handlers : {hs[h].id} \ {0} \subseteq Numbers
    BY <1>1, <1>2, <2>1 DEF Numbered, Numbers
  <2>3. ASSUME Untroubled
        PROVE  /\ Apart(Contents)
               /\ \A h \in Handlers :
                     /\ Holds(h) => Apart(Seen(h))
                     /\ hs[h].pc \in {"settle", "idling"} => Apart({hs[h].id} \ {0})
                     /\ \A i \in DOMAIN hs[h].todo :
                           write(h, i).key = "state" => Apart(write(h, i).val)
    BY <1>4, <2>1, <2>2, <2>3
    DEF FlushedOK, Fresh, Apart, Unflushed, Stocked, Numbered, Numbers
  <2> QED
    BY <2>1, <2>3 DEF FlushOK, Untroubled, Stocked, Unrepeated, Numbered, Numbers
<1> QED
  BY <1>3, <1>4

LEMMA FlushingNext ==
    ASSUME \A h \in Handlers : hs'[h].id \in Nat, hist'.issued \in Nat, FlushedOK'
    PROVE  FlushOK'
<1>1. Stocked' /\ Unrepeated' /\ \A h \in Handlers : Numbered(h)'
  BY DEF FlushedOK
<1>2. \A h \in Handlers : {hs'[h].id} \ {0} \subseteq Numbers'
  BY <1>1 DEF Numbered, Numbers
<1>3. ASSUME Untroubled'
      PROVE  /\ Apart(Contents)'
             /\ \A h \in Handlers :
                   /\ Holds(h)' => Apart(Seen(h))'
                   /\ hs'[h].pc \in {"settle", "idling"} => Apart({hs[h].id} \ {0})'
                   /\ \A i \in DOMAIN hs'[h].todo :
                         write(h, i)'.key = "state" => Apart(write(h, i).val)'
  BY <1>1, <1>2, <1>3
  DEF FlushedOK, Fresh, Apart, Unflushed, Stocked, Numbered, Numbers, write
<1> QED
  BY <1>1, <1>3 DEF FlushOK, Untroubled, Stocked, Unrepeated, Numbered, Numbers, write

(* What a handler going on makes of the numbers.                           *)
LEMMA GoesOnNumbers ==
    ASSUME DataOK, NEW h \in Handlers, GoesOn(h)
    PROVE  /\ hist.issued \in Nat /\ hist'.issued \in Nat /\ hist.issued <= hist'.issued
           /\ hist'.kept = hist.kept /\ hist'.raced = hist.raced
           /\ hs'[h].seen \in {Absent, store.state, hs[h].seen}
           /\ \/ hs'[h].id = hs[h].id
              \/ hs'[h].id = 0
              \/ hs'[h].id = hist.issued + 1 /\ hist'.issued = hist.issued + 1
           /\ hist'.settled \subseteq hist.settled \union Contents \union Seen(h)
                                        \union ({hs[h].id} \ {0})
           /\ hist'.settled = hist.settled \/ GivesUp(h) \/ FlushEnds(h)
           /\ hist'.repeated = hist.repeated \/ FlushEnds(h)
<1>1. hist.issued \in Nat
  BY BoundsAreNumbers DEF DataOK, History, BoundsAreNumbers
<1>2. CASE FirstRuns(h) \/ RunIsLost(h) \/ SchedulesNext(h) \/ FlushPurges(h)
           \/ Concludes(h) \/ GoesIdle(h)
  <2>1. Rest(h) /\ hist' = hist
    BY <1>2 DEF FirstRuns, RunIsLost, SchedulesNext, FlushPurges, Concludes, GoesIdle,
       Unhistoric
  <2> QED
    BY <1>1, <2>1 DEF Rest
<1>3. CASE Loads(h) \/ Misses(h) \/ WillRetry(h) \/ TaskSettles(h)
  <2>1. /\ hs'[h].seen \in {Absent, store.state} /\ hs'[h].id = hs[h].id
        /\ hist' = hist
    BY <1>3 DEF Loads, Misses, WillRetry, TaskSettles, Over, Unhistoric
  <2> QED
    BY <1>1, <2>1
<1>4. CASE GivesUp(h)
  <2>1. hs'[h].seen = Absent /\ hs'[h].id = hs[h].id
    BY <1>4 DEF GivesUp, Over
  <2>2. \/ Discards(Contents) \/ Discards(Seen(h))
        \/ Discards(Seen(h) \union ({hs[h].id} \ {0}))
    BY <1>4 DEF GivesUp
  <2> QED
    BY <1>1, <1>4, <2>1, <2>2 DEF Discards
<1>5. CASE FlushEnds(h)
  BY <1>1, <1>5 DEF FlushEnds, Over
<1>6. CASE RunEnds(h) \/ Reduces(h) \/ FunctionReturns(h)
  <2>1. /\ hs'[h].seen \in {Absent, hs[h].seen} /\ hs'[h].id = NewId /\ Issues
    BY <1>6 DEF RunEnds, Reduces, FunctionReturns, Over
  <2>2. /\ NewId # 0 => NewId = hist.issued + 1
        /\ hist'.issued = (IF NewId = 0 THEN hist.issued ELSE NewId)
        /\ hist'.settled = hist.settled /\ hist'.kept = hist.kept
        /\ hist'.repeated = hist.repeated /\ hist'.raced = hist.raced
    BY <2>1 DEF Issues
  <2> QED
    BY <1>1, <2>1, <2>2
<1> QED
  BY <1>2, <1>3, <1>4, <1>5, <1>6 DEF GoesOn

LEMMA NumberedOn ==
    ASSUME NEW g, Numbered(g), hist.issued \in Nat, hist'.issued \in Nat,
           hist.issued <= hist'.issued, hs[g].id \in Nat,
           hs'[g].id = hs[g].id, hs'[g].seen = hs[g].seen,
           \A i \in DOMAIN hs'[g].todo :
              \E j \in DOMAIN hs[g].todo : hs'[g].todo[i] = hs[g].todo[j]
    PROVE  Numbered(g)'
<1>1. Numbers \subseteq Numbers'
  BY DEF Numbers
<1> QED
  BY <1>1 DEF Numbered, write, Seen

LEMMA NumberedSame ==
    ASSUME NEW g, Numbered(g), hist.issued \in Nat, hist'.issued \in Nat,
           hist.issued <= hist'.issued, hs[g].id \in Nat,
           hs'[g].id = hs[g].id, hs'[g].seen = hs[g].seen, hs'[g].todo = hs[g].todo
    PROVE  Numbered(g)'
BY NumberedOn

LEMMA FreshOn ==
    ASSUME NEW g, Fresh(g), hist'.settled = hist.settled,
           hs'[g].pc = hs[g].pc, hs'[g].id = hs[g].id, hs'[g].seen = hs[g].seen,
           \A i \in DOMAIN hs'[g].todo :
              \E j \in DOMAIN hs[g].todo : hs'[g].todo[i] = hs[g].todo[j]
    PROVE  Fresh(g)'
BY DEF Fresh, write, Seen, Holds, Unflushed

LEMMA FreshSame ==
    ASSUME NEW g, Fresh(g), hist'.settled = hist.settled,
           hs'[g].pc = hs[g].pc, hs'[g].id = hs[g].id, hs'[g].seen = hs[g].seen,
           hs'[g].todo = hs[g].todo
    PROVE  Fresh(g)'
BY FreshOn

LEMMA SettlesOn ==
    ASSUME NEW g, def' = def, hs'[g].pc = hs[g].pc, hs'[g].result = hs[g].result,
           hs'[g].todo = hs[g].todo
    PROVE  Settles(g)' <=> Settles(g)
BY DEF Settles, Pending

LEMMA IdleFlushes ==
    ASSUME NEW g, hs'[g] = Idle, hist'.issued \in Nat
    PROVE  Numbered(g)' /\ Fresh(g)' /\ ~Settles(g)'
<1>1. DOMAIN Idle.todo = {} /\ Idle.pc = "idle" /\ Idle.seen = Absent /\ Idle.id = 0
  BY IdleIs, Members, EmptySeq
<1> QED
  BY <1>1 DEF Numbered, Fresh, Settles, Pending, Holds, Seen

LEMMA HistoryIs ==
    ASSUME DataOK
    PROVE  hist.issued \in Nat /\ \A h \in Handlers : HandlersOK => hs[h].id \in Nat
<1>1. HandlersOK => \A h \in Handlers : hs[h].id \in 0 .. MaxIds
  BY Typed
<1> QED
  BY <1>1, BoundsAreNumbers DEF DataOK, History, BoundsAreNumbers

LEMMA GoingOnFlushes ==
    ASSUME DataOK, HandlersOK, FlushOK, NEW h \in Handlers, GoesOn(h)
    PROVE  FlushedOK'
<1>1. /\ \A g \in Handlers : g # h => hs'[g] = hs[g]
      /\ store' = store /\ def' = def /\ hs[h].todo = <<>>
      /\ budget'.faults = budget.faults
      /\ hs'[h].shared = hs[h].shared
  BY GoesOnMoves DEF Moves
<1>2. /\ hist.issued \in Nat /\ hist'.issued \in Nat /\ hist.issued <= hist'.issued
      /\ hist'.kept = hist.kept /\ hist'.raced = hist.raced
      /\ hs'[h].seen \in {Absent, store.state, hs[h].seen}
      /\ \/ hs'[h].id = hs[h].id
         \/ hs'[h].id = 0
         \/ hs'[h].id = hist.issued + 1 /\ hist'.issued = hist.issued + 1
      /\ hist'.settled \subseteq hist.settled \union Contents \union Seen(h)
                                   \union ({hs[h].id} \ {0})
      /\ hist'.settled = hist.settled \/ GivesUp(h) \/ FlushEnds(h)
      /\ hist'.repeated = hist.repeated \/ FlushEnds(h)
  BY GoesOnNumbers
<1>3. /\ FlushedOK
      /\ \A g \in Handlers : hs[g].id \in Nat
  BY Flushing, HistoryIs
<1>4. Contents' = Contents
  BY <1>1 DEF Contents
<1>5. Stocked /\ Unrepeated /\ \A g \in Handlers : Numbered(g)
  BY <1>3 DEF FlushedOK
<1>6. Numbers \subseteq Numbers' /\ ({hs[h].id} \ {0}) \subseteq Numbers
      /\ ({hs'[h].id} \ {0}) \subseteq Numbers'
  BY <1>2, <1>3, <1>5 DEF Numbers, Numbered
<1>7. Writing(h)
  BY GoesOnWrites
<1>8. Stocked'
  BY <1>2, <1>4, <1>5, <1>6 DEF Stocked, Numbered
<1>9. Seen(h)' \subseteq Contents \union Seen(h)
  BY <1>2 DEF Seen, Contents
<1>10. Numbered(h)'
  <2>1. Seen(h)' \subseteq Numbers'
    BY <1>5, <1>6, <1>9 DEF Stocked, Numbered
  <2>2. hs'[h].id <= hist'.issued
    BY <1>2, <1>3, <1>5 DEF Numbered
  <2>3. \A i \in DOMAIN hs'[h].todo :
           hs'[h].todo[i].key = "state" => hs'[h].todo[i].val \subseteq Numbers'
    BY <1>5, <1>6, <1>7 DEF Writing, Numbered
  <2> QED
    BY <2>1, <2>2, <2>3 DEF Numbered, write
<1>11. \A g \in Handlers : Numbered(g)'
  BY <1>1, <1>2, <1>3, <1>5, <1>10, NumberedSame
<1>12. \A g \in Handlers : g # h => (Settles(g)' <=> Settles(g))
  BY <1>1, SettlesOn
<1>13. Settles(h) => Settles(h)'
  <2>1. ~Pending(h, "all")
    BY <1>1, NoWrites
  <2>2. SUFFICES ASSUME def.type = "debounce", hs[h].pc = "result",
                        hs[h].result = "success"
                 PROVE  Settles(h)'
    BY <2>1 DEF Settles
  <2>3. FlushPurges(h)
    BY <2>2 DEF GoesOn, FirstRuns, Loads, Misses, GivesUp, RunEnds, FlushEnds, WillRetry,
       RunIsLost, SchedulesNext, Concludes, Reduces, FunctionReturns,
       GoesIdle, TaskSettles, Moves
  <2> QED
    BY <2>3, EndingPends DEF FlushPurges, Settles
<1>14. GivesUp(h) \/ FlushEnds(h) => Settles(h)'
  <2>1. GivesUp(h) => Settles(h)'
    BY EndingPends DEF GivesUp, Settles
  <2>2. FlushEnds(h) => Settles(h)'
    BY DEF FlushEnds, Moves, Over, Settles
  <2> QED
    BY <2>1, <2>2
<1>15. Untroubled' => Untroubled /\ hist'.settled = hist.settled
  BY <1>1, <1>2, <1>12, <1>13, <1>14 DEF Untroubled
<1>16. Unrepeated'
  <2>1. CASE hist'.repeated = hist.repeated
    BY <1>1, <1>2, <1>5, <2>1 DEF Unrepeated
  <2>2. CASE FlushEnds(h)
    <3> SUFFICES ASSUME hist'.repeated, ~(budget.faults > 0 \/ hist.raced)
                 PROVE  FALSE
      BY <1>1, <1>2 DEF Unrepeated
    <3>0. budget.faults = 0 /\ ~hist.raced /\ ~hist.repeated
      BY <1>5 DEF DataOK, Unrepeated
    <3>1. ~hs[h].shared /\ ~Unflushed(Seen(h)) /\ hs[h].pc = "run"
      BY <2>2, <3>0 DEF FlushEnds, Unflushed, Moves
    <3>2. \A g \in Handlers : g # h => hs[g] = Idle
      <4>1. Active(h)
        BY <3>1 DEF Active
      <4> QED
        BY <3>1, <4>1 DEF HandlersOK
    <3>3. \A g \in Handlers : g # h => ~Settles(g)
      <4>1. DOMAIN Idle.todo = {} /\ Idle.pc = "idle"
        BY IdleIs, Members, EmptySeq
      <4> QED
        BY <3>2, <4>1 DEF Settles, Pending
    <3>4. ~Settles(h)
      BY <1>1, <3>1, NoWrites DEF Settles
    <3>5. Untroubled
      BY <3>0, <3>3, <3>4 DEF Untroubled
    <3>6. Fresh(h)
      BY <1>3, <3>5 DEF FlushedOK
    <3> QED
      BY <3>1, <3>6 DEF Fresh, Holds
  <2> QED
    BY <1>2, <2>1, <2>2
<1>17. ASSUME Untroubled' PROVE Unflushed(Contents)' /\ \A g \in Handlers : Fresh(g)'
  <2>1. Untroubled /\ hist'.settled = hist.settled
    BY <1>15, <1>17
  <2>2. Unflushed(Contents) /\ \A g \in Handlers : Fresh(g)
    BY <1>3, <2>1 DEF FlushedOK
  <2>3. Unflushed(Contents)'
    BY <1>4, <2>1, <2>2 DEF Unflushed
  <2>4. \A g \in Handlers : g # h => Fresh(g)'
    BY <1>1, <2>1, <2>2, FreshSame
  <2>5. ~GivesUp(h) /\ ~FlushEnds(h)
    BY <1>14, <1>17 DEF Untroubled
  <2>6. hs[h].pc \in {"run", "reduce", "settle", "idling"} => Unflushed(Seen(h))
    BY <2>2 DEF Fresh, Holds
  <2>7. hs'[h].id # hs[h].id => Unflushed({hs'[h].id} \ {0})
    BY <1>2, <1>5 DEF Stocked, Unflushed, Numbers
  <2>8. Fresh(h)'
    <3>1. Holds(h)' => Unflushed(Seen(h)')
      <4>1. Holds(h)' => Loads(h) \/ FunctionReturns(h) \/ GoesIdle(h)
        BY DEF GoesOn, FirstRuns, Loads, Misses, GivesUp, RunEnds, FlushEnds, WillRetry,
           RunIsLost, SchedulesNext, FlushPurges, Concludes, Reduces, FunctionReturns,
           GoesIdle, TaskSettles, Moves, Holds
      <4>2. Loads(h) => Seen(h)' = Contents
        BY DEF Loads, Seen, Contents
      <4>3. FunctionReturns(h) \/ GoesIdle(h) =>
               Seen(h)' = Seen(h) /\ hs[h].pc \in {"run", "settle"}
        BY DEF FunctionReturns, GoesIdle, Rest, Moves, Seen
      <4> QED
        BY <2>2, <2>6, <4>1, <4>2, <4>3
    <3>2. hs'[h].pc \in {"settle", "idling"} => Unflushed({hs'[h].id} \ {0})
      <4>1. hs'[h].pc \in {"settle", "idling"} =>
               \/ FunctionReturns(h)
               \/ GoesIdle(h) /\ hs'[h].id = hs[h].id /\ hs[h].pc = "settle"
        BY DEF GoesOn, FirstRuns, Loads, Misses, GivesUp, RunEnds, FlushEnds, WillRetry,
           RunIsLost, SchedulesNext, FlushPurges, Concludes, Reduces,
           GoesIdle, Rest, TaskSettles, Moves
      <4>2. FunctionReturns(h) => Unflushed({hs'[h].id} \ {0})
        <5>1. FunctionReturns(h) => hs'[h].id = NewId
          BY DEF FunctionReturns
        <5>2. NewId # 0 => NewId = hist.issued + 1
          BY Typed
        <5> QED
          BY <1>2, <1>5, <5>1, <5>2 DEF Stocked, Unflushed, Numbers
      <4> QED
        BY <2>2, <4>1, <4>2 DEF Fresh
    <3>3. ASSUME NEW i \in DOMAIN hs'[h].todo, hs'[h].todo[i].key = "state"
          PROVE  Unflushed(hs'[h].todo[i].val)
      <4>1. /\ RunEnds(h) \/ Reduces(h) \/ TaskSettles(h)
            /\ hs'[h].todo[i].val = Seen(h) \union ({hs'[h].id} \ {0})
        BY <1>7, <3>3 DEF Writing
      <4>2. Unflushed(Seen(h))
        BY <2>6, <4>1 DEF RunEnds, Reduces, TaskSettles, Moves
      <4>3. Unflushed({hs'[h].id} \ {0})
        <5>1. CASE TaskSettles(h)
          BY <2>2, <5>1 DEF Fresh, TaskSettles, Moves
        <5>2. CASE RunEnds(h) \/ Reduces(h)
          <6>1. hs'[h].id = NewId
            BY <5>2 DEF RunEnds, Reduces
          <6>2. NewId # 0 => NewId = hist.issued + 1
            BY Typed
          <6> QED
            BY <1>2, <1>5, <6>1, <6>2 DEF Stocked, Unflushed, Numbers
        <5> QED
          BY <4>1, <5>1, <5>2
      <4> QED
        BY <4>1, <4>2, <4>3 DEF Unflushed
    <3> QED
      BY <2>1, <3>1, <3>2, <3>3 DEF Fresh, write, Unflushed
  <2> QED
    BY <2>3, <2>4, <2>8
<1> QED
  BY <1>8, <1>11, <1>16, <1>17 DEF FlushedOK

LEMMA ComingFlushes ==
    ASSUME DataOK, HandlersOK, FlushOK, NEW h \in Handlers, Comes(h)
    PROVE  FlushedOK'
<1>1. /\ Begins(h)
      /\ hist'.kept = hist.kept /\ hist'.issued = hist.issued
      /\ hist'.repeated = hist.repeated /\ hist'.raced = hist.raced
      /\ \/ hist'.settled = hist.settled
         \/ hist'.settled = hist.settled \union Contents /\ Purges(h)
  BY ComesBegins DEF Comes, AnswersOnly, Refuses, CreatesNew, WorksOn, Purges,
     Unhistoric, Discards
<1>2. /\ store' = store /\ def' = def /\ budget'.faults = budget.faults /\ hs[h] = Idle
      /\ hs'[h].id = 0 /\ hs'[h].result = "none"
      /\ \A g \in Handlers : g # h =>
            /\ hs'[g].pc = hs[g].pc /\ hs'[g].todo = hs[g].todo
            /\ hs'[g].seen = hs[g].seen /\ hs'[g].id = hs[g].id
            /\ hs'[g].result = hs[g].result
  BY <1>1 DEF Begins
<1>3. /\ FlushedOK /\ hist.issued \in Nat
      /\ \A g \in Handlers : hs[g].id \in Nat
  BY Flushing, HistoryIs
<1>4. Contents' = Contents
  BY <1>2 DEF Contents
<1>5. Stocked /\ Unrepeated /\ \A g \in Handlers : Numbered(g)
  BY <1>3 DEF FlushedOK
<1>6. Stocked' /\ Unrepeated' /\ Numbers' = Numbers
  BY <1>1, <1>2, <1>4, <1>5 DEF Stocked, Unrepeated, Numbers
<1>7. Bringing(h)
  BY ComesWrites
<1>8. hs'[h].seen \in {Absent, store.state}
  BY DEF Comes, AnswersOnly, Refuses, CreatesNew, WorksOn, Purges
<1>9. Seen(h)' \subseteq Contents
  BY <1>8 DEF Seen, Contents
<1>10. Numbered(h)'
  <2>1. \A i \in DOMAIN hs'[h].todo :
           hs'[h].todo[i].key = "state" => hs'[h].todo[i].val = {}
    BY <1>7 DEF Bringing
  <2> QED
    BY <1>1, <1>2, <1>3, <1>5, <1>6, <1>9, <2>1 DEF Numbered, Stocked, write
<1>11. \A g \in Handlers : g # h => Numbered(g)'
  BY <1>1, <1>2, <1>3, <1>5, NumberedSame
<1>12. \A g \in Handlers : g # h => (Settles(g)' <=> Settles(g))
  BY <1>2, SettlesOn
<1>13. ~Settles(h)
  <2>1. DOMAIN Idle.todo = {} /\ Idle.pc = "idle"
    BY IdleIs, Members, EmptySeq
  <2> QED
    BY <1>2, <2>1 DEF Settles, Pending
<1>14. Purges(h) => Settles(h)'
  BY EndingPends DEF Purges, Settles
<1>15. ASSUME Untroubled' PROVE Unflushed(Contents)' /\ \A g \in Handlers : Fresh(g)'
  <2>1. Untroubled /\ hist'.settled = hist.settled
    BY <1>1, <1>2, <1>12, <1>13, <1>14, <1>15 DEF Untroubled
  <2>2. Unflushed(Contents) /\ \A g \in Handlers : Fresh(g)
    BY <1>3, <2>1 DEF FlushedOK
  <2>3. Unflushed(Contents)'
    BY <1>4, <2>1, <2>2 DEF Unflushed
  <2>4. \A g \in Handlers : g # h => Fresh(g)'
    BY <1>2, <2>1, <2>2, FreshSame
  <2>5. Unflushed(Seen(h)') /\ Unflushed({})
    BY <1>9, <2>2 DEF Unflushed
  <2>6. \A i \in DOMAIN hs'[h].todo :
           hs'[h].todo[i].key = "state" => hs'[h].todo[i].val = {}
    BY <1>7 DEF Bringing
  <2>7. Fresh(h)'
    BY <1>2, <2>1, <2>5, <2>6 DEF Fresh, write, Unflushed
  <2> QED
    BY <2>3, <2>4, <2>7
<1> QED
  BY <1>6, <1>10, <1>11, <1>15 DEF FlushedOK

LEMMA PerformingFlushes ==
    ASSUME DataOK, HandlersOK, WritesOK, FlushOK, NEW h \in Handlers, Performs(h)
    PROVE  FlushedOK'
<1> DEFINE w == write(h, 1)
<1>1. /\ Drops(h, 1) /\ w \in Writes /\ 1 \in DOMAIN hs[h].todo
      /\ \A g \in Handlers : g # h => hs'[g] = hs[g]
      /\ def' = def /\ hs'[h].result = hs[h].result /\ hs'[h].pc = hs[h].pc
      /\ \A k : Pending(h, k) /\ k # w.key => Pending(h, k)'
  BY Performing
<1>2. /\ hist'.kept = hist.kept /\ hist'.settled = hist.settled
      /\ hist'.issued = hist.issued /\ hist'.repeated = hist.repeated
      /\ hist.raced => hist'.raced
      /\ w.key = "all" /\ Others(h) # {} => hist'.raced
      /\ store' = Stored(w) /\ budget' = budget
  BY DEF Performs
<1>3. /\ FlushedOK /\ hist.issued \in Nat
      /\ \A g \in Handlers : hs[g].id \in Nat
  BY Flushing, HistoryIs
<1>4. Stocked /\ Unrepeated /\ \A g \in Handlers : Numbered(g)
  BY <1>3 DEF FlushedOK
<1>5. hs'[h].id = hs[h].id /\ hs'[h].seen = hs[h].seen
  BY <1>1 DEF Drops
<1>6. \A i \in DOMAIN hs'[h].todo : \E j \in DOMAIN hs[h].todo :
         hs'[h].todo[i] = hs[h].todo[j]
  BY <1>1, Remaining
<1>7. \A g \in Handlers : Numbered(g)'
  BY <1>1, <1>2, <1>3, <1>4, <1>5, <1>6, NumberedOn, NumberedSame
<1>8. \/ w.key = "state" /\ Contents' = w.val
      \/ w.key = "all" /\ Contents' = {}
      \/ w.key \notin {"state", "all"} /\ Contents' = Contents
  <2> HIDE DEF w
  <2>1. CASE w.key = "state"
    BY ZenonT(60), <1>1, <1>2, <2>1, StoredKeeps, AbsentNeither DEF Contents
  <2>2. CASE w.key = "all"
    <3>1. store' = Empty
      BY <1>1, <1>2, <2>2, StoredKeeps
    <3>2. store'.state = Absent
      BY <3>1 DEF Empty
    <3> QED
      BY <2>2, <3>2 DEF Contents
  <2>3. CASE w.key \notin {"state", "all"}
    BY <1>1, <1>2, <2>3, StoredKeeps DEF Contents
  <2> QED
    BY <2>1, <2>2, <2>3
<1>9. w.key = "state" => w.val \subseteq Numbers
  BY <1>1, <1>4 DEF Numbered
<1> HIDE DEF w
<1>10. Stocked' /\ Unrepeated'
  BY <1>2, <1>4, <1>8, <1>9 DEF Stocked, Unrepeated, Numbers
<1>11. ASSUME Untroubled', w.key = "all"
       PROVE  Unflushed(Contents)' /\ \A g \in Handlers : Fresh(g)'
  <2>1. Others(h) = {}
    BY <1>2, <1>11 DEF Untroubled
  <2>2. \A g \in Handlers : g # h => hs'[g] = Idle
    BY <1>1, <2>1 DEF Others, HandlersOK
  <2>3. \A g \in Handlers : g # h => Fresh(g)'
    BY <1>2, <1>3, <2>2, IdleFlushes
  <2>4. 1 = Len(hs[h].todo) /\ hs[h].pc \in {"return", "result"}
    BY <1>1, <1>11, Orders DEF Ordered, w
  <2>5. DOMAIN hs'[h].todo = {}
    <3>1. Len(hs'[h].todo) = 0 /\ hs'[h].todo \in Seq(Writes)
      BY <1>1, <2>4 DEF Drops, HandlerState
    <3> QED
      BY <3>1, Members
  <2>6. Fresh(h)'
    BY <1>1, <2>4, <2>5 DEF Fresh, Holds
  <2>7. Unflushed(Contents)'
    BY <1>8, <1>11 DEF Unflushed
  <2> QED
    BY <2>3, <2>6, <2>7
<1>12. ASSUME Untroubled', w.key # "all"
       PROVE  Unflushed(Contents)' /\ \A g \in Handlers : Fresh(g)'
  <2>1. \A g \in Handlers : g # h => (Settles(g)' <=> Settles(g))
    BY <1>1, SettlesOn
  <2>2. Settles(h) => Settles(h)'
    BY <1>1, <1>12 DEF Settles
  <2>3. Untroubled
    BY <1>2, <1>12, <2>1, <2>2 DEF Untroubled
  <2>4. Unflushed(Contents) /\ \A g \in Handlers : Fresh(g)
    BY <1>3, <2>3 DEF FlushedOK
  <2>5. \A g \in Handlers : Fresh(g)'
    BY <1>1, <1>2, <1>5, <1>6, <2>4, FreshOn, FreshSame
  <2>6. w.key = "state" => Unflushed(w.val)
    BY <1>1, <2>4 DEF Fresh, w
  <2>7. Unflushed(Contents)'
    BY <1>2, <1>8, <1>12, <2>4, <2>6 DEF Unflushed
  <2> QED
    BY <2>5, <2>7
<1> QED
  BY <1>7, <1>10, <1>11, <1>12 DEF FlushedOK

(* After a fault, only the numbers matter.                                 *)
LEMMA SkippingFlushes ==
    ASSUME DataOK, HandlersOK, FlushOK, NEW h \in Handlers,
           NEW n \in 1 .. Len(hs[h].todo), Skips(h, n)
    PROVE  FlushedOK'
<1>1. /\ Drops(h, n) /\ store' = store /\ def' = def /\ budget'.faults > 0
      /\ \A g \in Handlers : g # h => hs'[g] = hs[g]
      /\ hist'.settled = hist.settled /\ hist'.kept = hist.kept
      /\ hist'.issued = hist.issued
      /\ hs'[h].id = hs[h].id /\ hs'[h].seen = hs[h].seen
  BY DEF Skips, Faulty, Halves, Drops
<1>2. /\ FlushedOK /\ hist.issued \in Nat
      /\ \A g \in Handlers : hs[g].id \in Nat
  BY Flushing, HistoryIs
<1>3. \A i \in DOMAIN hs'[h].todo : \E j \in DOMAIN hs[h].todo :
         hs'[h].todo[i] = hs[h].todo[j]
  BY <1>1, Remaining
<1>4. \A g \in Handlers : Numbered(g)'
  BY <1>1, <1>2, <1>3, NumberedOn, NumberedSame DEF FlushedOK
<1>5. Stocked' /\ Unrepeated'
  BY <1>1, <1>2 DEF FlushedOK, Stocked, Unrepeated, Numbers, Contents
<1>6. ~Untroubled'
  BY <1>1 DEF Untroubled
<1> QED
  BY <1>4, <1>5, <1>6 DEF FlushedOK

(* A handler that ends has nothing to settle any more, or a fault ends it. *)
LEMMA EndingSettles ==
    ASSUME DataOK, HandlersOK, Changes,
           ~\E h \in Handlers :
               \/ GoesOn(h) \/ Comes(h) \/ Performs(h)
               \/ \E n \in 1 .. Len(hs[h].todo) : Skips(h, n)
    PROVE  \/ budget'.faults > 0
           \/ /\ budget'.faults = budget.faults
              /\ \A h \in Handlers : hs'[h] = hs[h] \/ ~Settles(h)
<1>1. ASSUME NEW h \in Handlers, Returns(h) \/ Fails(h)
      PROVE  /\ budget' = budget
             /\ \A g \in Handlers : hs'[g] = hs[g] \/ ~Settles(g)
  <2>1. /\ budget' = budget /\ \A g \in Handlers : g # h => hs'[g] = hs[g]
        /\ hs[h].todo = <<>> /\ hs[h].pc \in {"return", "fail"}
    BY <1>1 DEF Returns, Fails, Leaves
  <2>2. ~Settles(h)
    BY <2>1, NoWrites DEF Settles
  <2> QED
    BY <2>1, <2>2
<1>2. ASSUME NEW h \in Handlers, Breaks(h) PROVE budget'.faults > 0
  BY <1>2 DEF Breaks, Faulty
<1>3. Crashes => budget'.faults > 0
  BY DEF Crashes, Faulty
<1>4. AlarmIsLost \/ Ticks => budget' = budget /\ hs' = hs
  BY DEF AlarmIsLost, Ticks
<1> QED
  BY <1>1, <1>2, <1>3, <1>4 DEF Changes

LEMMA EndingFlushes ==
    ASSUME DataOK, HandlersOK, FlushOK, Changes,
           ~\E h \in Handlers :
               \/ GoesOn(h) \/ Comes(h) \/ Performs(h)
               \/ \E n \in 1 .. Len(hs[h].todo) : Skips(h, n)
    PROVE  FlushedOK'
<1>1. /\ FlushedOK /\ hist.issued \in Nat
      /\ \A g \in Handlers : hs[g].id \in Nat
  BY Flushing, HistoryIs
<1>2. /\ def' = def /\ store'.state = store.state
      /\ hist'.settled = hist.settled /\ hist'.issued = hist.issued
      /\ hist'.repeated = hist.repeated /\ hist'.raced = hist.raced
      /\ \A h \in Handlers : hs'[h] = Idle \/ hs'[h] = hs[h]
      /\ hist'.kept \subseteq Numbers
  <2>1. ASSUME NEW h \in Handlers, Returns(h)
        PROVE  /\ def' = def /\ store'.state = store.state
               /\ hist'.settled = hist.settled /\ hist'.issued = hist.issued
               /\ hist'.repeated = hist.repeated /\ hist'.raced = hist.raced
               /\ \A g \in Handlers : hs'[g] = Idle \/ hs'[g] = hs[g]
               /\ hist'.kept \subseteq Numbers
    <3>1. /\ def' = def /\ store'.state = store.state
          /\ hist'.settled = hist.settled /\ hist'.issued = hist.issued
          /\ hist'.repeated = hist.repeated /\ hist'.raced = hist.raced
          /\ \A g \in Handlers : hs'[g] = Idle \/ hs'[g] = hs[g]
      BY <2>1 DEF Returns, Leaves
    <3>2. hist'.kept \subseteq hist.kept \union ({hs[h].id} \ {0})
      BY <2>1 DEF Returns
    <3>3. hist.kept \subseteq Numbers /\ hs[h].id <= hist.issued
      BY <1>1 DEF FlushedOK, Stocked, Numbered
    <3>4. ({hs[h].id} \ {0}) \subseteq Numbers
      BY <1>1, <3>3 DEF Numbers
    <3> QED
      BY <3>1, <3>2, <3>3, <3>4
  <2>2. hist.kept \subseteq Numbers
    BY <1>1 DEF FlushedOK, Stocked
  <2> QED
    BY <2>1, <2>2, EndsWrite
<1>3. Contents' = Contents /\ Numbers' = Numbers
  BY <1>2 DEF Contents, Numbers
<1>4. Stocked'
  BY <1>1, <1>2, <1>3 DEF FlushedOK, Stocked
<1>5. \A g \in Handlers : Numbered(g)'
  BY <1>1, <1>2, NumberedSame, IdleFlushes DEF FlushedOK
<1>6. CASE budget'.faults > 0
  BY <1>4, <1>5, <1>6 DEF FlushedOK, Unrepeated, Untroubled
<1>7. CASE /\ budget'.faults = budget.faults
           /\ \A h \in Handlers : hs'[h] = hs[h] \/ ~Settles(h)
  <2>1. Unrepeated'
    BY <1>1, <1>2, <1>7 DEF FlushedOK, Unrepeated
  <2>2. \A h \in Handlers : Settles(h) => Settles(h)'
    BY <1>2, <1>7, SettlesOn
  <2>3. Untroubled' => Untroubled
    BY <1>2, <1>7, <2>2 DEF Untroubled
  <2>4. Untroubled => Unflushed(Contents)' /\ \A g \in Handlers : Fresh(g)'
    <3> SUFFICES ASSUME Untroubled
                 PROVE  Unflushed(Contents)' /\ \A g \in Handlers : Fresh(g)'
      OBVIOUS
    <3>1. Unflushed(Contents) /\ \A g \in Handlers : Fresh(g)
      BY <1>1 DEF FlushedOK
    <3>2. Unflushed(Contents)'
      BY <1>2, <1>3, <3>1 DEF Unflushed
    <3>3. \A g \in Handlers : Fresh(g)'
      BY <1>1, <1>2, <3>1, FreshSame, IdleFlushes
    <3> QED
      BY <3>2, <3>3
  <2> QED
    BY <1>4, <1>5, <2>1, <2>3, <2>4 DEF FlushedOK
<1> QED
  BY <1>6, <1>7, EndingSettles

LEMMA FlushStays ==
    ASSUME DataOK, HandlersOK, WritesOK, FlushOK, Changes
    PROVE  FlushOK'
<1>1. FlushedOK'
  BY GoingOnFlushes, ComingFlushes, PerformingFlushes, SkippingFlushes, EndingFlushes
<1>2. DataOK' /\ HandlersOK'
  BY DataStays, HandlersStay
<1>3. hist'.issued \in Nat /\ \A h \in Handlers : hs'[h].id \in Nat
  <2>1. /\ hist'.issued \in 0 .. MaxIds
        /\ \A h \in Handlers : hs'[h] \in HandlerState' /\ hs'[h].id \in 0 .. MaxIds
    BY <1>2 DEF DataOK, History, HandlersOK, HandlerState
  <2> QED
    BY <2>1, BoundsAreNumbers DEF BoundsAreNumbers
<1> QED
  BY <1>1, <1>3, FlushingNext

-----------------------------------------------------------------------------
(* A task's alarm is recorded.                                             *)

Scheduled ==
    NothingFailed =>
       /\ alarm # Absent =>
             \/ store.scheduledAt # Absent
             \/ \E h \in Handlers : NextIs(h, "scheduledAt")
                                      /\ Head(hs[h].todo).val # Absent
       /\ hs["alarm"].pc # "fail"

InPairs(h) ==
    \A i \in DOMAIN hs[h].todo :
       /\ write(h, i).key = "alarm" =>
             \/ write(h, i).val = Absent /\ Pending(h, "all")
             \/ /\ i < Len(hs[h].todo)
                /\ write(h, i + 1).key = "scheduledAt"
       /\ write(h, i).key = "scheduledAt" /\ i > 1 =>
             /\ write(h, i - 1).key = "alarm" /\ ~write(h, i - 1).soft
             /\ write(h, i - 1).val = Absent <=> write(h, i).val = Absent

RecordsNext(h) ==
    NextIs(h, "scheduledAt") => (Head(hs[h].todo).val = Absent <=> alarm = Absent)

Cancels(h) ==
    hs[h].pc = "settle" /\ hs[h].plan = "cancel" =>
       /\ ~Pending(h, "event") /\ ~Sets(h)
       /\ alarm = Absent \/ \E i \in DOMAIN hs[h].todo :
                               /\ write(h, i).key = "alarm"
                               /\ write(h, i).val = Absent
                               /\ ~write(h, i).soft

Records(h) == InPairs(h) /\ RecordsNext(h) /\ Cancels(h)

LEMMA Recording ==
    RecordOK <=> (def.type = "task" => Scheduled /\ \A h \in Handlers : Records(h))
BY DEF RecordOK, Scheduled, Records, InPairs, RecordsNext, Cancels

LEMMA RecordingNext ==
    RecordOK' <=> (def'.type = "task" => Scheduled' /\ \A h \in Handlers : Records(h)')
BY DEF RecordOK, Scheduled, Records, InPairs, RecordsNext, Cancels

LEMMA HeadIs ==
    ASSUME DataOK, HandlersOK, NEW h \in Handlers
    PROVE  /\ hs[h].todo # <<>> => /\ 1 \in DOMAIN hs[h].todo
                                   /\ Head(hs[h].todo) = write(h, 1)
           /\ hs[h].todo = <<>> => DOMAIN hs[h].todo = {}
           /\ Len(hs[h].todo) \in Nat /\ DOMAIN hs[h].todo = 1 .. Len(hs[h].todo)
BY Typed, Members DEF write

LEMMA RecordsIdle ==
    ASSUME NEW g, hs'[g] = Idle
    PROVE  Records(g)' /\ ~NextIs(g, "scheduledAt")' /\ hs'[g].pc # "fail"
<1>1. DOMAIN Idle.todo = {} /\ Idle.pc = "idle" /\ Idle.todo = <<>>
  BY IdleIs, Members, EmptySeq
<1> QED
  BY <1>1 DEF Records, InPairs, RecordsNext, Cancels, NextIs

(* Who waits while h has its turn is neither about to record an alarm nor  *)
(* to cancel one.                                                          *)
LEMMA WaitingRecords ==
    ASSUME DataOK, HandlersOK, NEW h, NEW g \in Handlers, g # h, Turn(h), Records(g)
    PROVE  ~NextIs(g, "scheduledAt") /\ ~(hs[g].pc = "settle" /\ hs[g].plan = "cancel")
<1>1. /\ \/ hs[g] = Idle
         \/ hs[g].todo = <<>> /\ hs[g].pc \in InUserCode
         \/ Active(g) /\ 1 \in DOMAIN hs[g].todo /\ write(g, 1).key = "event"
      /\ hs[g].todo = <<>> \/ (1 \in DOMAIN hs[g].todo /\ write(g, 1).key = "event")
  BY Waiting
<1>2. ~NextIs(g, "scheduledAt")
  BY <1>1, HeadIs DEF NextIs
<1>3. ~(hs[g].pc = "settle" /\ hs[g].plan = "cancel")
  <2>1. hs[g] = Idle => hs[g].pc = "idle"
    BY IdleIs
  <2>2. hs[g].pc = "settle" /\ hs[g].plan = "cancel" => ~Pending(g, "event")
    BY DEF Records, Cancels
  <2> QED
    BY <1>1, <2>1, <2>2 DEF InUserCode, Pending, write
<1> QED
  BY <1>2, <1>3

LEMMA RecordsWaiting ==
    ASSUME DataOK, HandlersOK, NEW h, NEW g \in Handlers, g # h, Turn(h), Records(g),
           hs'[g].pc = hs[g].pc, hs'[g].plan = hs[g].plan, hs'[g].todo = hs[g].todo
    PROVE  Records(g)' /\ ~NextIs(g, "scheduledAt")'
<1>1. ~NextIs(g, "scheduledAt") /\ ~(hs[g].pc = "settle" /\ hs[g].plan = "cancel")
  BY WaitingRecords
<1>2. InPairs(g)'
  <2>1. InPairs(g)
    BY DEF Records
  <2> QED
    BY <2>1 DEF InPairs, write, Pending
<1>3. ~NextIs(g, "scheduledAt")'
  BY <1>1 DEF NextIs
<1> QED
  BY <1>1, <1>2, <1>3 DEF Records, RecordsNext, Cancels

(* As long as h has its turn and is not about to record an alarm, the one  *)
(* that is set is recorded.                                                *)
LEMMA IsRecorded ==
    ASSUME DataOK, HandlersOK, RecordOK, def.type = "task", NothingFailed,
           NEW h \in Handlers, Turn(h), ~NextIs(h, "scheduledAt")
    PROVE  /\ alarm # Absent => store.scheduledAt # Absent
           /\ hs["alarm"].pc # "fail"
<1>1. Scheduled /\ \A g \in Handlers : Records(g)
  BY Recording
<1>2. \A g \in Handlers : ~NextIs(g, "scheduledAt")
  BY <1>1, WaitingRecords
<1> QED
  BY <1>1, <1>2 DEF Scheduled

(* New lists. *)
LEMMA NewPairs ==
    ASSUME NEW h, hs'[h].todo \in Seq(Writes),
           Recorded(hs'[h].todo) \/ Ending(hs'[h].todo)
    PROVE  InPairs(h)' /\ ~NextIs(h, "scheduledAt")'
<1> DEFINE ws == hs'[h].todo
<1>1. /\ Len(ws) \in Nat /\ DOMAIN ws = 1 .. Len(ws)
      /\ ws # <<>> => 1 \in DOMAIN ws /\ Head(ws) = ws[1]
  BY Members
<1>2. CASE Recorded(ws)
  <2>1. \A i \in DOMAIN ws :
           /\ ws[i].key = "alarm" => i < Len(ws) /\ ws[i + 1].key = "scheduledAt"
           /\ ws[i].key = "scheduledAt" =>
                 /\ i # 1
                 /\ ws[i - 1].key = "alarm" /\ ~ws[i - 1].soft
                 /\ ws[i - 1].val = Absent <=> ws[i].val = Absent
    <3> SUFFICES ASSUME NEW i \in DOMAIN ws
                 PROVE  /\ ws[i].key = "alarm" =>
                              i < Len(ws) /\ ws[i + 1].key = "scheduledAt"
                        /\ ws[i].key = "scheduledAt" =>
                              /\ i # 1
                              /\ ws[i - 1].key = "alarm" /\ ~ws[i - 1].soft
                              /\ ws[i - 1].val = Absent <=> ws[i].val = Absent
      OBVIOUS
    <3> HIDE DEF ws
    <3>1. ws[i].key = "alarm" => i + 1 \in DOMAIN ws /\ ws[i + 1].key = "scheduledAt"
      BY <1>2 DEF Recorded
    <3>2. ws[i].key = "scheduledAt" => i - 1 \in DOMAIN ws /\ ws[i - 1].key = "alarm"
      BY <1>2 DEF Recorded
    <3>3. i - 1 \in DOMAIN ws /\ ws[i - 1].key = "alarm" =>
             ~ws[i - 1].soft /\ (ws[i - 1].val = Absent <=> ws[(i - 1) + 1].val = Absent)
      BY <1>2 DEF Recorded
    <3>4. i \in Nat /\ (i - 1) + 1 = i
      BY <1>1
    <3> QED
      BY <1>1, <3>1, <3>2, <3>3, <3>4
  <2> QED
    BY <1>1, <2>1 DEF InPairs, NextIs, write
<1>3. CASE Ending(ws)
  <2>1. \A i \in DOMAIN ws :
           \/ ws[i].key = "all"
           \/ ws[i].key = "alarm" /\ ws[i].val = Absent
           \/ ws[i] \in Note
    BY <1>3, EndingIs
  <2>2. \A i \in DOMAIN ws : /\ ws[i].key # "scheduledAt"
                             /\ ws[i].key = "alarm" => ws[i].val = Absent
    BY <2>1, ListsAre
  <2>3. Pending(h, "all")'
    BY <1>3, EndingPends
  <2> QED
    BY <1>1, <2>2, <2>3 DEF InPairs, NextIs, write
<1> QED
  BY <1>2, <1>3

LEMMA NothingTimed ==
    ASSUME NEW ws, \A i \in DOMAIN ws : ws[i].key \notin {"alarm", "scheduledAt"}
    PROVE  Recorded(ws)
BY DEF Recorded

LEMMA GoesOnPairs ==
    ASSUME DataOK, HandlersOK, def.type = "task", NEW h \in Handlers, GoesOn(h)
    PROVE  Recorded(hs'[h].todo) \/ Ending(hs'[h].todo)
<1>1. hs[h].pc # "started" /\ hs[h].pc # "reduce"
  BY DEF HandlersOK
<1>2. ASSUME hs'[h].todo \in Seq(Note) PROVE Recorded(hs'[h].todo)
  BY <1>2, ListMembers, ListsAre, NothingTimed
<1>3. CASE Loads(h) \/ RunIsLost(h)
  BY <1>2, <1>3 DEF Loads, RunIsLost
<1>4. CASE Misses(h) \/ Concludes(h) \/ GoesIdle(h)
  BY <1>2, <1>4, EmptySeq DEF Misses, Concludes, GoesIdle
<1>5. CASE GivesUp(h) \/ FunctionReturns(h) \/ TaskSettles(h)
  BY <1>5 DEF GivesUp, FunctionReturns, TaskSettles, Settled
<1>6. ~(RunEnds(h) \/ FlushEnds(h) \/ WillRetry(h) \/ SchedulesNext(h) \/ FlushPurges(h))
  BY DEF RunEnds, FlushEnds, WillRetry, SchedulesNext, FlushPurges
<1>7. ~(FirstRuns(h) \/ Reduces(h))
  BY <1>1 DEF FirstRuns, Reduces, Moves
<1> QED
  BY <1>3, <1>4, <1>5, <1>6, <1>7 DEF GoesOn

LEMMA GoingOnRecords ==
    ASSUME DataOK, HandlersOK, RecordOK, NEW h \in Handlers, GoesOn(h)
    PROVE  RecordOK'
<1>1. /\ \A g \in Handlers : g # h => hs'[g] = hs[g]
      /\ store' = store /\ alarm' = alarm /\ def' = def /\ hs[h].todo = <<>> /\ Turn(h)
      /\ hs' \in [Handlers -> HandlerState]
      /\ budget' \in [calls : Nat, failures : Nat, faults : Nat]
      /\ budget'.faults = budget.faults /\ budget'.failures >= budget.failures
  BY GoesOnMoves DEF Moves
<1> SUFFICES ASSUME def.type = "task"
             PROVE  Scheduled' /\ \A g \in Handlers : Records(g)'
  BY <1>1, RecordingNext
<1>2. \A g \in Handlers : Records(g)
  BY Recording
<1>3. \A g \in Handlers : g # h => Records(g)'
  BY <1>1, <1>2, RecordsWaiting
<1>4. hs'[h].todo \in Seq(Writes)
  BY <1>1 DEF HandlerState
<1>5. InPairs(h)' /\ ~NextIs(h, "scheduledAt")'
  BY <1>4, GoesOnPairs, NewPairs
<1>6. Cancels(h)'
  <2>1. hs'[h].pc = "settle" => FunctionReturns(h)
    BY <1>1 DEF GoesOn, FirstRuns, Loads, Misses, GivesUp, RunEnds, FlushEnds, WillRetry,
       RunIsLost, SchedulesNext, FlushPurges, Concludes, Reduces, GoesIdle,
       TaskSettles, Moves
  <2>2. hs'[h].pc = "settle" /\ hs'[h].plan = "cancel" => Cancelling(hs'[h].todo)
    BY <2>1 DEF FunctionReturns
  <2> QED
    BY <2>2 DEF Cancels, Cancelling, Pending, Sets, write
<1>7. Records(h)'
  BY <1>5, <1>6 DEF Records, RecordsNext
<1>8. Scheduled'
  <2> SUFFICES ASSUME NothingFailed'
               PROVE  /\ alarm # Absent => store.scheduledAt # Absent
                      /\ hs'["alarm"].pc # "fail"
    BY <1>1 DEF Scheduled
  <2>1. NothingFailed /\ budget'.failures = budget.failures
    BY <1>1 DEF NothingFailed, DataOK
  <2>2. ~NextIs(h, "scheduledAt")
    BY <1>1 DEF NextIs
  <2>3. /\ alarm # Absent => store.scheduledAt # Absent
        /\ hs["alarm"].pc # "fail"
    BY <1>1, <2>1, <2>2, IsRecorded
  <2>4. hs'[h].pc # "fail"
    <3>1. ~RunIsLost(h)
      BY <1>1, <2>1 DEF RunIsLost, DataOK
    <3> QED
      BY <3>1 DEF GoesOn, FirstRuns, Loads, Misses, GivesUp, RunEnds, FlushEnds,
         WillRetry, SchedulesNext, FlushPurges, Concludes, Reduces, FunctionReturns,
         GoesIdle, TaskSettles, Moves
  <2> QED
    BY <1>1, <2>3, <2>4, HandlerKinds
<1> QED
  BY <1>3, <1>7, <1>8

LEMMA ComingRecords ==
    ASSUME DataOK, HandlersOK, RecordOK, NEW h \in Handlers, Comes(h)
    PROVE  RecordOK'
<1>1. Begins(h)
  BY ComesBegins
<1>2. /\ store' = store /\ def' = def /\ hs[h] = Idle /\ Turn(h)
      /\ hs' \in [Handlers -> HandlerState]
      /\ budget'.faults = budget.faults /\ budget'.failures = budget.failures
      /\ alarm' = alarm \/ alarm' = Absent
      /\ hs'[h].plan = "none"
      /\ \A g \in Handlers : g # h =>
            /\ hs'[g].pc = hs[g].pc /\ hs'[g].todo = hs[g].todo
            /\ hs'[g].plan = hs[g].plan
  BY <1>1 DEF Begins
<1> SUFFICES ASSUME def.type = "task"
             PROVE  Scheduled' /\ \A g \in Handlers : Records(g)'
  BY <1>2, RecordingNext
<1>3. \A g \in Handlers : Records(g)
  BY Recording
<1>4. \A g \in Handlers : g # h => Records(g)'
  BY <1>2, <1>3, RecordsWaiting
<1>5. hs'[h].todo \in Seq(Writes)
  BY <1>2 DEF HandlerState
<1>6. Recorded(hs'[h].todo) \/ Ending(hs'[h].todo)
  <2>1. CASE Purges(h)
    BY <2>1 DEF Purges
  <2>2. CASE ~Purges(h)
    BY <2>2, ComesWrites, NothingTimed DEF Bringing
  <2> QED
    BY <2>1, <2>2
<1>7. InPairs(h)' /\ ~NextIs(h, "scheduledAt")'
  BY <1>5, <1>6, NewPairs
<1>8. Records(h)'
  BY <1>2, <1>7 DEF Records, RecordsNext, Cancels
<1>9. Scheduled'
  <2> SUFFICES ASSUME NothingFailed'
               PROVE  /\ alarm' # Absent => store.scheduledAt # Absent
                      /\ hs'["alarm"].pc # "fail"
    BY <1>2 DEF Scheduled
  <2>1. NothingFailed
    BY <1>2 DEF NothingFailed
  <2>2. ~NextIs(h, "scheduledAt")
    BY <1>2, IdleIs DEF NextIs
  <2>3. /\ alarm # Absent => store.scheduledAt # Absent
        /\ hs["alarm"].pc # "fail"
    BY <1>2, <2>1, <2>2, IsRecorded
  <2>4. h = "alarm" => hs'[h].pc # "fail"
    BY HandlerKinds DEF Comes, AnswersOnly, Refuses, CreatesNew, WorksOn, Purges
  <2> QED
    BY <1>2, <2>3, <2>4, HandlerKinds
<1> QED
  BY <1>4, <1>8, <1>9

(* The pairs that are left are those that were there; what is recorded     *)
(* next is what was set just before.                                       *)
LEMMA PairsDrop ==
    ASSUME DataOK, HandlersOK, WritesOK, NEW h \in Handlers,
           NEW n \in 1 .. Len(hs[h].todo), Drops(h, n), InPairs(h)
    PROVE  /\ InPairs(h)'
           /\ NextIs(h, "scheduledAt")' =>
                 /\ write(h, n).key = "alarm" /\ ~write(h, n).soft
                 /\ write(h, n).val = Absent <=> Head(hs'[h].todo).val = Absent
<1> DEFINE ws == hs[h].todo
           rest == hs'[h].todo
<1>1. ws \in Seq(Writes) /\ rest \in Seq(Writes)'
  <2>1. hs'[h] \in HandlerState /\ def' = def
    BY DEF Drops
  <2> QED
    BY <2>1, Typed DEF HandlerState, Writes
<1>2. /\ Len(ws) \in Nat /\ DOMAIN ws = 1 .. Len(ws)
      /\ Len(rest) \in Nat /\ DOMAIN rest = 1 .. Len(rest)
      /\ n \in Nat /\ n >= 1
  BY <1>1, Members
<1>3. /\ Len(rest) = Len(ws) - n
      /\ rest # <<>> => Head(rest) = ws[n + 1]
      /\ \A i \in DOMAIN rest : i + n \in DOMAIN ws /\ rest[i] = ws[i + n]
      /\ \A i \in DOMAIN ws : i > n => i - n \in DOMAIN rest /\ rest[i - n] = ws[i]
  BY DEF Drops
<1>4. \A i \in DOMAIN ws :
         /\ ws[i].key = "alarm" =>
               \/ ws[i].val = Absent /\ Pending(h, "all")
               \/ /\ i < Len(ws)
                  /\ ws[i + 1].key = "scheduledAt"
         /\ ws[i].key = "scheduledAt" /\ i > 1 =>
               /\ ws[i - 1].key = "alarm" /\ ~ws[i - 1].soft
               /\ ws[i - 1].val = Absent <=> ws[i].val = Absent
  BY DEF InPairs, write
<1>5. Pending(h, "all") => Len(ws) \in DOMAIN ws /\ ws[Len(ws)].key = "all"
  BY DEF Pending, WritesOK, write
<1>6. Pending(h, "all")' <=> \E i \in DOMAIN rest : rest[i].key = "all"
  BY DEF Pending
<1> HIDE DEF ws, rest
<1>7. ASSUME NEW i \in DOMAIN rest
      PROVE  /\ rest[i].key = "alarm" =>
                   \/ rest[i].val = Absent /\ Pending(h, "all")'
                   \/ /\ i < Len(rest)
                      /\ rest[i + 1].key = "scheduledAt"
             /\ rest[i].key = "scheduledAt" /\ i > 1 =>
                   /\ rest[i - 1].key = "alarm" /\ ~rest[i - 1].soft
                   /\ rest[i - 1].val = Absent <=> rest[i].val = Absent
  <2>1. i \in Nat /\ i >= 1 /\ i + n \in DOMAIN ws /\ rest[i] = ws[i + n]
        /\ i + n <= Len(ws)
    BY <1>2, <1>3
  <2>2. CASE rest[i].key = "alarm" /\ i + n < Len(ws) /\ ws[i + n + 1].key = "scheduledAt"
    <3>1. i + 1 \in DOMAIN rest /\ (i + 1) + n = i + n + 1
      BY <1>2, <1>3, <2>1, <2>2
    <3>2. rest[i + 1] = ws[i + n + 1]
      BY <1>3, <3>1
    <3> QED
      BY <1>2, <2>2, <3>1, <3>2
  <2>3. CASE rest[i].key = "alarm" /\ rest[i].val = Absent /\ Pending(h, "all")
    <3>1. Len(ws) \in DOMAIN ws /\ ws[Len(ws)].key = "all" /\ Len(ws) > n
      BY <1>2, <1>5, <2>1, <2>3
    <3>2. Pending(h, "all")'
      BY <1>3, <1>6, <3>1
    <3> QED
      BY <2>3, <3>2
  <2>4. CASE rest[i].key = "scheduledAt" /\ i > 1
    <3>1. /\ i - 1 \in DOMAIN rest /\ (i - 1) + n = (i + n) - 1 /\ i + n > 1
      BY <1>2, <2>1, <2>4
    <3>2. rest[i - 1] = ws[(i + n) - 1]
      BY <1>3, <3>1
    <3>3. /\ ws[(i + n) - 1].key = "alarm" /\ ~ws[(i + n) - 1].soft
          /\ ws[(i + n) - 1].val = Absent <=> ws[i + n].val = Absent
      BY <1>4, <2>1, <2>4, <3>1
    <3> QED
      BY <2>1, <2>4, <3>2, <3>3
  <2>5. rest[i].key = "alarm" =>
           \/ rest[i].val = Absent /\ Pending(h, "all")
           \/ i + n < Len(ws) /\ ws[i + n + 1].key = "scheduledAt"
    BY <1>4, <2>1
  <2> QED
    BY <2>2, <2>3, <2>4, <2>5
<1>8. ASSUME rest # <<>>, Head(rest).key = "scheduledAt"
      PROVE  /\ ws[n].key = "alarm" /\ ~ws[n].soft
             /\ ws[n].val = Absent <=> Head(rest).val = Absent
  <2>1. Len(rest) # 0
    BY <1>1, <1>8, EmptySeq
  <2>2. n + 1 \in DOMAIN ws /\ n + 1 > 1 /\ (n + 1) - 1 = n
    <3>1. Len(rest) = Len(ws) - n
      BY <1>3
    <3>2. \A a, b, c \in Nat : a # 0 /\ a = b - c => c + 1 <= b
      OBVIOUS
    <3>3. n + 1 <= Len(ws)
      BY <1>2, <2>1, <3>1, <3>2, Zenon
    <3> QED
      BY <1>2, <3>3
  <2> QED
    BY <1>3, <1>4, <1>8, <2>2
<1> USE DEF ws, rest
<1>9. InPairs(h)'
  BY <1>7 DEF InPairs, write
<1> QED
  BY <1>8, <1>9 DEF NextIs, write

LEMMA PerformingRecords ==
    ASSUME DataOK, HandlersOK, WritesOK, RecordOK, NEW h \in Handlers, Performs(h)
    PROVE  RecordOK'
<1> DEFINE w == write(h, 1)
<1>1. /\ Drops(h, 1) /\ w \in Writes /\ 1 \in DOMAIN hs[h].todo /\ hs[h].todo # <<>>
      /\ Head(hs[h].todo) = w /\ Turn(h)
      /\ \A g \in Handlers : g # h => hs'[g] = hs[g]
      /\ hs'[h].pc = hs[h].pc /\ hs'[h].plan = hs[h].plan /\ def' = def
      /\ \A i \in DOMAIN hs[h].todo : i = 1 \/ i > 1
      /\ \A i \in DOMAIN hs[h].todo :
            i > 1 => \E j \in DOMAIN hs'[h].todo : hs'[h].todo[j] = hs[h].todo[i]
  BY Performing DEF Drops
<1>2. /\ store' = Stored(w) /\ budget' = budget
      /\ alarm' = IF w.key = "alarm" THEN w.val ELSE alarm
  BY DEF Performs
<1>3. 1 \in 1 .. Len(hs[h].todo) /\ Len(hs[h].todo) \in Nat
  BY <1>1, Typed, Members
<1> SUFFICES ASSUME def.type = "task"
             PROVE  Scheduled' /\ \A g \in Handlers : Records(g)'
  BY <1>1, RecordingNext
<1>4. Scheduled /\ \A g \in Handlers : Records(g)
  BY Recording
<1>5. \A g \in Handlers : g # h => Records(g)'
  BY <1>1, <1>4, RecordsWaiting
<1>6. /\ InPairs(h)'
      /\ NextIs(h, "scheduledAt")' =>
            /\ w.key = "alarm" /\ ~w.soft
            /\ w.val = Absent <=> Head(hs'[h].todo).val = Absent
  BY <1>1, <1>3, <1>4, PairsDrop DEF Records
<1>7. RecordsNext(h)'
  BY <1>2, <1>6 DEF RecordsNext
<1>8. Cancels(h)'
  <2> SUFFICES ASSUME hs[h].pc = "settle", hs[h].plan = "cancel"
               PROVE  /\ ~Pending(h, "event")' /\ ~Sets(h)'
                      /\ alarm' = Absent \/ \E i \in DOMAIN hs'[h].todo :
                                               /\ hs'[h].todo[i].key = "alarm"
                                               /\ hs'[h].todo[i].val = Absent
                                               /\ ~hs'[h].todo[i].soft
    BY <1>1 DEF Cancels, write
  <2>1. /\ ~Pending(h, "event") /\ ~Sets(h)
        /\ alarm = Absent \/ \E i \in DOMAIN hs[h].todo :
                                /\ hs[h].todo[i].key = "alarm"
                                /\ hs[h].todo[i].val = Absent
                                /\ ~hs[h].todo[i].soft
    BY <1>4 DEF Records, Cancels, write
  <2>2. \A i \in DOMAIN hs'[h].todo :
           \E j \in DOMAIN hs[h].todo : hs'[h].todo[i] = hs[h].todo[j]
    BY <1>1, Remaining
  <2>3. ~Pending(h, "event")' /\ ~Sets(h)'
    BY <2>1, <2>2 DEF Pending, Sets, write
  <2>4. CASE w.key = "alarm"
    <3>1. w.val = Absent
      BY <1>1, <2>1, <2>4 DEF Sets
    <3> QED
      BY <1>2, <2>3, <2>4, <3>1
  <2>5. CASE w.key # "alarm"
    <3>1. hs[h].todo[1].key # "alarm" /\ alarm' = alarm
      BY <1>2, <2>5 DEF write
    <3> QED
      BY <1>1, <2>1, <2>3, <3>1
  <2> QED
    BY <2>4, <2>5
<1>9. Records(h)'
  BY <1>6, <1>7, <1>8 DEF Records
<1>10. Scheduled'
  <2> SUFFICES ASSUME NothingFailed'
               PROVE  /\ alarm' # Absent =>
                            \/ store'.scheduledAt # Absent
                            \/ NextIs(h, "scheduledAt")' /\ Head(hs'[h].todo).val # Absent
                      /\ hs'["alarm"].pc # "fail"
    BY DEF Scheduled
  <2>1. NothingFailed
    BY <1>2 DEF NothingFailed
  <2>2. hs'["alarm"].pc # "fail"
    <3>1. hs["alarm"].pc # "fail"
      BY <1>4, <2>1 DEF Scheduled
    <3> QED
      BY <1>1, <3>1, HandlerKinds
  <2> SUFFICES ASSUME alarm' # Absent
               PROVE  \/ store'.scheduledAt # Absent
                      \/ NextIs(h, "scheduledAt")' /\ Head(hs'[h].todo).val # Absent
    BY <2>2
  <2>3. CASE w.key = "alarm"
    <3>1. w.val # Absent
      BY <1>2, <2>3
    <3>2. 1 < Len(hs[h].todo) /\ hs[h].todo[2].key = "scheduledAt"
      BY <1>1, <1>4, <2>3, <3>1 DEF Records, InPairs, write
    <3>3. 2 \in DOMAIN hs[h].todo /\ 2 > 1
      BY <1>3, <3>2, Typed, Members
    <3>4. hs[h].todo[1].val = Absent <=> hs[h].todo[2].val = Absent
      BY SMTT(30), <1>4, <3>2, <3>3 DEF Records, InPairs, write
    <3>5. hs'[h].todo # <<>>
      <4>1. 2 - 1 \in DOMAIN hs'[h].todo
        BY <1>1, <3>3 DEF Drops
      <4> QED
        BY <4>1, EmptySeq
    <3>6. Head(hs'[h].todo) = hs[h].todo[1 + 1]
      BY <1>1, <3>5 DEF Drops
    <3> QED
      BY <3>1, <3>2, <3>4, <3>5, <3>6 DEF NextIs, write
  <2>4. CASE w.key = "scheduledAt"
    <3>1. alarm' = alarm /\ w.val # Absent
      BY <1>1, <1>2, <1>4, <2>4 DEF Records, RecordsNext, NextIs
    <3> QED
      BY <1>1, <1>2, <2>4, <3>1, StoredKeeps
  <2>5. CASE w.key = "all"
    <3>1. alarm = Absent
      BY <1>1, <2>5 DEF WritesOK
    <3> QED
      BY <1>2, <2>5, <3>1
  <2>6. CASE w.key \notin {"alarm", "scheduledAt", "all"}
    <3>1. ~NextIs(h, "scheduledAt") /\ alarm' = alarm
      BY <1>1, <1>2, <2>6 DEF NextIs
    <3>2. store.scheduledAt # Absent
      BY <1>1, <2>1, <3>1, IsRecorded
    <3> QED
      BY <1>1, <1>2, <2>6, <3>2, StoredKeeps
  <2> QED
    BY <2>3, <2>4, <2>5, <2>6
<1> QED
  BY <1>5, <1>9, <1>10

LEMMA SameRecords ==
    ASSUME RecordOK, hs' = hs, def' = def, budget' = budget,
           store'.scheduledAt = store.scheduledAt,
           alarm' = Absent <=> alarm = Absent
    PROVE  RecordOK'
<1> SUFFICES ASSUME def.type = "task"
             PROVE  Scheduled' /\ \A g \in Handlers : Records(g)'
  BY RecordingNext
<1>1. Scheduled /\ \A g \in Handlers : Records(g)
  BY Recording
<1>2. \A g \in Handlers : Records(g)'
  BY <1>1 DEF Records, InPairs, RecordsNext, Cancels, NextIs, write, Pending, Sets
<1>3. Scheduled'
  BY <1>1 DEF Scheduled, NothingFailed, NextIs
<1> QED
  BY <1>2, <1>3

LEMMA SkippingRecords ==
    ASSUME DataOK, HandlersOK, WritesOK, RecordOK, NEW h \in Handlers,
           NEW n \in 1 .. Len(hs[h].todo), Skips(h, n)
    PROVE  RecordOK'
<1>1. /\ Drops(h, n) /\ def' = def /\ alarm' = alarm /\ Turn(h)
      /\ SoftUpTo(hs[h].todo, n)
      /\ \A g \in Handlers : g # h => hs'[g] = hs[g]
      /\ hs'[h].pc = hs[h].pc /\ hs'[h].plan = hs[h].plan
  BY DEF Skips, Drops
<1> SUFFICES ASSUME def.type = "task"
             PROVE  Scheduled' /\ \A g \in Handlers : Records(g)'
  BY <1>1, RecordingNext
<1>2. \A g \in Handlers : Records(g)
  BY Recording
<1>3. \A g \in Handlers : g # h => Records(g)'
  BY <1>1, <1>2, RecordsWaiting
<1>4. write(h, n).soft
  <2>1. n \in 1 .. n
    BY Typed, Members
  <2> QED
    BY <1>1, <2>1 DEF SoftUpTo, write
<1>5. InPairs(h)' /\ ~NextIs(h, "scheduledAt")'
  BY <1>1, <1>2, <1>4, PairsDrop DEF Records
<1>6. Cancels(h)'
  <2>1. \A i \in DOMAIN hs'[h].todo :
           \E j \in DOMAIN hs[h].todo : hs'[h].todo[i] = hs[h].todo[j]
    BY <1>1, Remaining
  <2>2. \A i \in DOMAIN hs[h].todo :
           ~write(h, i).soft
              => \E j \in DOMAIN hs'[h].todo : hs'[h].todo[j] = hs[h].todo[i]
    BY <1>1, PendsOn DEF SoftUpTo, write
  <2>3. Cancels(h)
    BY <1>2 DEF Records
  <2>4. /\ Pending(h, "event")' => Pending(h, "event")
        /\ Sets(h)' => Sets(h)
    BY <2>1 DEF Pending, Sets, write
  <2> QED
    BY <1>1, <2>2, <2>3, <2>4 DEF Cancels, write
<1>7. Records(h)'
  BY <1>5, <1>6 DEF Records, RecordsNext
<1>8. ~NothingFailed'
  BY DEF Skips, Faulty, NothingFailed
<1> QED
  BY <1>3, <1>7, <1>8 DEF Scheduled

(* Handlers end, and nothing is written.                                   *)
LEMMA EndingRecords ==
    ASSUME DataOK, HandlersOK, RecordOK,
           (\E h \in Handlers : Returns(h) \/ Fails(h) \/ Breaks(h))
              \/ AlarmIsLost \/ Crashes \/ Ticks
    PROVE  RecordOK'
<1>1. ASSUME NEW h \in Handlers, Returns(h) \/ Fails(h) \/ Breaks(h)
      PROVE  RecordOK'
  <2>1. /\ Active(h) /\ Turn(h) /\ hs'[h] = Idle /\ def' = def /\ store' = store
        /\ \A g \in Handlers : g # h => hs'[g] = hs[g]
    BY <1>1 DEF Returns, Fails, Breaks, Leaves
  <2> SUFFICES ASSUME def.type = "task"
               PROVE  Scheduled' /\ \A g \in Handlers : Records(g)'
    BY <2>1, RecordingNext
  <2>2. \A g \in Handlers : Records(g)
    BY Recording
  <2>3. \A g \in Handlers : Records(g)' /\ ~NextIs(g, "scheduledAt")'
    BY <2>1, <2>2, RecordsWaiting, RecordsIdle
  <2>4. Scheduled'
    <3> SUFFICES ASSUME NothingFailed'
                 PROVE  /\ alarm' # Absent => store.scheduledAt # Absent
                        /\ hs'["alarm"].pc # "fail"
      BY <2>1 DEF Scheduled
    <3>1. ~Breaks(h)
      BY DEF Breaks, Faulty, NothingFailed
    <3>2. NothingFailed /\ hs[h].todo = <<>>
      BY <1>1, <3>1 DEF Returns, Fails, NothingFailed
    <3>3. /\ alarm # Absent => store.scheduledAt # Absent
          /\ hs["alarm"].pc # "fail"
      BY <2>1, <3>2, IsRecorded DEF NextIs
    <3>4. hs'["alarm"].pc # "fail"
      BY <2>1, <3>3, RecordsIdle, HandlerKinds
    <3>5. alarm' = alarm
      BY <1>1, <3>1, <3>3 DEF Returns, Fails, Redelivered
    <3> QED
      BY <3>3, <3>4, <3>5
  <2> QED
    BY <2>3, <2>4
<1>2. ASSUME AlarmIsLost PROVE RecordOK'
  <2>1. /\ hs' = hs /\ def' = def /\ store' = store /\ budget' = budget
        /\ alarm' = Absent /\ Turn("alarm") /\ hs["alarm"] = Idle
    BY <1>2, HandlerKinds DEF AlarmIsLost, HandlersOK
  <2> SUFFICES ASSUME def.type = "task"
               PROVE  Scheduled' /\ \A g \in Handlers : Records(g)'
    BY <2>1, RecordingNext
  <2>2. \A g \in Handlers : Records(g)
    BY Recording
  <2>3. \A g \in Handlers : Records(g)'
    BY <2>1, <2>2, RecordsWaiting, RecordsIdle
  <2>4. Scheduled'
    BY <2>1, RecordsIdle DEF Scheduled
  <2> QED
    BY <2>3, <2>4
<1>3. ASSUME Crashes PROVE RecordOK'
  <2>1. \A g \in Handlers : hs'[g] = Idle
    BY <1>3 DEF Crashes
  <2>2. ~NothingFailed'
    BY <1>3 DEF Crashes, Faulty, NothingFailed
  <2>3. \A g \in Handlers : Records(g)'
    BY <2>1, RecordsIdle
  <2> QED
    BY <2>2, <2>3, RecordingNext DEF Scheduled
<1>4. ASSUME Ticks PROVE RecordOK'
  <2>1. /\ hs' = hs /\ def' = def /\ budget' = budget
        /\ store'.scheduledAt = store.scheduledAt
        /\ alarm' = Absent <=> alarm = Absent
    BY <1>4 DEF Ticks, DataOK, StoreState
  <2> QED
    BY <2>1, SameRecords
<1> QED
  BY <1>1, <1>2, <1>3, <1>4

LEMMA RecordStays ==
    ASSUME DataOK, HandlersOK, WritesOK, RecordOK, Changes
    PROVE  RecordOK'
BY GoingOnRecords, ComingRecords, PerformingRecords, SkippingRecords, EndingRecords
DEF Changes

-----------------------------------------------------------------------------
(* What lasts, and what it says of the job.                                *)

Lasting == Safe /\ KeptOK /\ OwnOK /\ FlushOK /\ RecordOK

LEMMA LastingAtFirst == Init => Lasting
<1> SUFFICES ASSUME Init PROVE Lasting
  OBVIOUS
<1>1. Safe /\ DataOK /\ HandlersOK
  BY SafeAtFirst DEF Safe
<1>2. /\ store = Empty /\ alarm = Absent /\ hist.kept = {} /\ hist.settled = {}
      /\ hist.repeated = FALSE /\ \A h \in Handlers : hs[h] = Idle
  BY DEF Init
<1>3. /\ Contents = {} /\ Unsettled = {}
  BY <1>2 DEF Contents, Unsettled, Empty
<1>4. \A h \in Handlers : /\ DOMAIN hs[h].todo = {} /\ hs[h].todo = <<>>
                          /\ hs[h].pc = "idle" /\ hs[h].id = 0 /\ hs[h].seen = Absent
                          /\ ~Active(h)
  BY <1>2, IdleIs, Members, EmptySeq DEF Active
<1>5. KeptOK
  BY <1>3, <1>4 DEF KeptOK, Holds
<1>6. OwnOK
  BY <1>4 DEF OwnOK
<1>7. FlushOK
  <2>1. FlushedOK
    BY <1>1, <1>2, <1>3, <1>4, HistoryIs
    DEF FlushedOK, Stocked, Numbered, Unrepeated, Unflushed, Fresh, Holds, Seen
  <2> QED
    BY <1>1, <2>1, Flushing
<1>8. RecordOK
  <2>1. \A h \in Handlers : Records(h)
    BY <1>4 DEF Records, InPairs, RecordsNext, Cancels, NextIs
  <2>2. Scheduled
    BY <1>2, <1>4, HandlerKinds DEF Scheduled
  <2> QED
    BY <2>1, <2>2, Recording
<1> QED
  BY <1>1, <1>5, <1>6, <1>7, <1>8 DEF Lasting

LEMMA LastingStays == Lasting /\ [Next]_vars => Lasting'
<1> SUFFICES ASSUME Lasting, [Next]_vars PROVE Lasting'
  OBVIOUS
<1>1. Safe /\ Safe' /\ DataOK /\ HandlersOK /\ WritesOK /\ GoneOK
  BY SafeStays DEF Lasting, Safe
<1>2. CASE Next
  BY <1>1, <1>2, NextDoes, KeptStays, OwnStays, FlushStays, RecordStays DEF Lasting
<1>3. CASE UNCHANGED vars
  <2>1. /\ def' = def /\ store' = store /\ alarm' = alarm /\ hs' = hs
        /\ budget' = budget /\ hist' = hist
    BY <1>3, StutteringJob
  <2>2. KeptOK' /\ OwnOK'
    BY <2>1, KeepsWithout, OwnsWithout DEF Lasting
  <2>3. FlushOK'
    <3>1. FlushedOK
      BY <1>1, Flushing DEF Lasting
    <3>2. hist.issued \in Nat /\ \A h \in Handlers : hs[h].id \in Nat
      BY <1>1, HistoryIs
    <3>3. \A h \in Handlers : Numbered(h)'
      BY <2>1, <3>1, <3>2, NumberedSame DEF FlushedOK
    <3>4. \A h \in Handlers : Fresh(h) => Fresh(h)'
      BY <2>1, FreshSame
    <3>5. Untroubled' => Untroubled
      BY <2>1, SettlesOn DEF Untroubled
    <3>6. Stocked' /\ Unrepeated' /\ Contents' = Contents
      BY <2>1, <3>1 DEF FlushedOK, Stocked, Unrepeated, Contents, Numbers
    <3>7. FlushedOK'
      BY <2>1, <3>1, <3>3, <3>4, <3>5, <3>6 DEF FlushedOK, Unflushed
    <3> QED
      BY <2>1, <3>2, <3>7, FlushingNext
  <2>4. RecordOK'
    BY <2>1, SameRecords DEF Lasting
  <2> QED
    BY <1>1, <2>2, <2>3, <2>4 DEF Lasting
<1> QED
  BY <1>2, <1>3

(* What the handlers in flight are going to write leaves acknowledged work *)
(* where it is, flushes nothing twice and records a task's alarm.          *)
THEOREM JobLasts == Spec => []Lasting
BY LastingAtFirst, LastingStays, PTL DEF Spec

(* What a handler that ran alone took in and acknowledged is in the state, *)
(* or was flushed or discarded, whatever overlaps and fails afterwards.    *)
THEOREM AcknowledgedWorkIsKept == Spec => []WorkIsKept
<1>1. Lasting => WorkIsKept
  BY DEF Lasting, KeptOK, Unsettled, WorkIsKept
<1> QED
  BY <1>1, JobLasts, PTL

(* An event is flushed twice only after a fault or an overtaking purge.    *)
THEOREM EventsAreFlushedOnce == Spec => []FlushedOnce
<1>1. Lasting => FlushedOnce
  BY DEF Lasting, FlushOK, FlushedOnce
<1> QED
  BY <1>1, JobLasts, PTL

(* A task nobody handles is not called idle while it has an alarm, as long *)
(* as nothing fails.                                                       *)
THEOREM TasksAlarmIsRecorded == Spec => []AlarmIsRecorded
<1>1. ASSUME Lasting PROVE AlarmIsRecorded
  <2> SUFFICES ASSUME Quiet, Task, alarm # Absent, NothingFailed
               PROVE  Told.status # "idle"
    BY DEF AlarmIsRecorded
  <2>1. DataOK /\ HandlersOK /\ RecordOK
    BY <1>1 DEF Lasting, Safe
  <2>2. /\ Continuous <=> def.type = "continuous"
        /\ Debounce <=> def.type = "debounce"
        /\ Task <=> def.type = "task"
    BY <2>1, DefinitionIs DEF DataOK
  <2>3. \A h \in Handlers : hs[h].todo = <<>>
    BY <2>1, IdleIs DEF Quiet, HandlersOK
  <2>4. store.scheduledAt # Absent
    BY <2>1, <2>2, <2>3, Recording DEF Scheduled, NextIs
  <2>5. Told = taskRead("status")
    BY <2>2 DEF Told, read
  <2> QED
    BY <2>4, <2>5 DEF taskRead
<1> QED
  BY <1>1, JobLasts, PTL

(* Only a task that has nothing scheduled goes idle. *)
LEMMA GoesIdleOnly ==
    ASSUME DataOK, HandlersOK, Changes, NEW h \in Handlers,
           hs[h].pc = "settle", hs'[h].pc = "idling"
    PROVE  GoesIdle(h)
<1>1. Idle.pc # "settle" /\ Idle.pc # "idling"
  BY IdleIs
<1>2. ASSUME NEW g \in Handlers, GoesOn(g) PROVE GoesIdle(h)
  <2>1. /\ \A f \in Handlers : f # g => hs'[f] = hs[f]
    BY <1>2, GoesOnMoves DEF Moves
  <2>2. g = h
    BY <2>1
  <2> QED
    BY <1>2, <2>2 DEF GoesOn, FirstRuns, Loads, Misses, GivesUp, RunEnds, FlushEnds,
       WillRetry, RunIsLost, SchedulesNext, FlushPurges, Concludes, Reduces,
       FunctionReturns, TaskSettles, Moves
<1>3. ASSUME NEW g \in Handlers, Comes(g) PROVE FALSE
  <2>1. Begins(g)
    BY <1>3, ComesBegins
  <2> QED
    BY <1>1, <2>1 DEF Begins
<1>4. ASSUME NEW g \in Handlers,
             Performs(g) \/ \E n \in 1 .. Len(hs[g].todo) : Skips(g, n)
      PROVE  FALSE
  <2>1. \E n : Drops(g, n)
    BY <1>4 DEF Performs, Skips
  <2> QED
    BY <2>1 DEF Drops
<1>5. ASSUME NEW g \in Handlers, Returns(g) \/ Fails(g) \/ Breaks(g) PROVE FALSE
  <2>1. Leaves(g)
    BY <1>5 DEF Returns, Fails, Breaks
  <2> QED
    BY <1>1, <2>1 DEF Leaves
<1>6. ~(AlarmIsLost \/ Crashes \/ Ticks)
  BY <1>1 DEF AlarmIsLost, Crashes, Ticks
<1> QED
  BY <1>2, <1>3, <1>4, <1>5, <1>6 DEF Changes

(* onIdle is called only while no alarm is pending, as long as nothing     *)
(* fails: a handler that finds nothing scheduled is not out of date.       *)
THEOREM IdleTasksAreUnscheduled == Spec => IdleMeansUnscheduled
<1> DEFINE Rightly == \A h \in Handlers :
                         hs[h].pc = "settle" /\ hs'[h].pc = "idling" /\ NothingFailed
                            => alarm = Absent
<1>1. ASSUME Lasting, [Next]_vars PROVE [Rightly]_vars
  <2> SUFFICES ASSUME Next, NEW h \in Handlers,
                      hs[h].pc = "settle", hs'[h].pc = "idling", NothingFailed
               PROVE  alarm = Absent
    BY <1>1
  <2>1. DataOK /\ HandlersOK /\ RecordOK
    BY <1>1 DEF Lasting, Safe
  <2>2. GoesIdle(h)
    BY <2>1, NextDoes, GoesIdleOnly
  <2>3. hs[h].todo = <<>> /\ Turn(h) /\ Unscheduled(h) /\ def.type = "task"
    BY <2>1, <2>2 DEF GoesIdle, Moves, HandlersOK
  <2>4. CASE hs[h].plan = "cancel"
    <3>1. DOMAIN hs[h].todo = {}
      BY <2>1, <2>3, Typed, Members
    <3>2. Cancels(h)
      BY <2>1, <2>3, Recording DEF Records
    <3> QED
      BY <2>4, <3>1, <3>2 DEF Cancels
  <2>5. CASE store.scheduledAt = Absent
    BY <2>1, <2>3, <2>5, IsRecorded DEF NextIs
  <2> QED
    BY <2>3, <2>4, <2>5 DEF Unscheduled
<1> QED
  BY <1>1, JobLasts, PTL DEF Spec, IdleMeansUnscheduled

-----------------------------------------------------------------------------
(* What a request that is answered is told.                                *)

(* What a new handler of a request sets out from. *)
AsksFor(h, o, p) == hs'[h].op = o /\ hs'[h].pc = p

(* It has something to write, or nothing is there. *)
Unless(h) == store.meta = Absent \/ hs'[h].todo # <<>>

AsksContinuous(h) ==
    \/ AsksFor(h, "start", "started") /\ hs'[h].created
    \/ AsksFor(h, "start", "return") /\ hs'[h].todo = <<>> /\ store.meta # Absent
    \/ AsksFor(h, "trigger", "return") /\ ~hs'[h].found /\ store.meta = Absent
    \/ AsksFor(h, "trigger", "execute") /\ hs'[h].found /\ store.meta # Absent
    \/ AsksFor(h, "terminate", "return") /\ Unless(h)

AsksDebounce(h) ==
    \/ \E p \in {"reduce", "fail"} : AsksFor(h, "add", p)
    \/ AsksFor(h, "flush", "return") /\ Unless(h)
    \/ AsksFor(h, "flush", "execute") /\ store.meta # Absent
    \/ AsksFor(h, "clear", "return") /\ Unless(h)

AsksTask(h) ==
    \/ \E p \in {"execute", "fail"} : AsksFor(h, "send", p)
    \/ AsksFor(h, "trigger", "return") /\ ~hs'[h].found /\ store.meta = Absent
    \/ AsksFor(h, "trigger", "execute") /\ hs'[h].found /\ store.meta # Absent
    \/ AsksFor(h, "terminate", "return") /\ Unless(h)

Asked(h) ==
    \/ def.type = "continuous" /\ AsksContinuous(h)
    \/ def.type = "debounce" /\ AsksDebounce(h)
    \/ def.type = "task" /\ AsksTask(h)

LEMMA BeginsAs ==
    ASSUME NEW h \in Handlers, NEW r, DOMAIN r = DOMAIN Idle, Begin(h, r)
    PROVE  /\ hs'[h].op = r.op /\ hs'[h].found = r.found /\ hs'[h].pc = r.pc
           /\ hs'[h].created = r.created /\ hs'[h].todo = r.todo
           /\ AsksFor(h, r.op, r.pc)
<1>1. DOMAIN Idle = {"op", "pc", "todo", "seen", "id", "attempt", "count", "result",
                     "plan", "found", "created", "shared"}
  BY DEF Idle
<1> HIDE DEF Handlers
<1>2. hs'[h] = [r EXCEPT !.shared = Others(h) # {}]
  BY DEF Begin
<1> QED
  BY <1>1, <1>2 DEF AsksFor

LEMMA EndingsAreWrites ==
    ASSUME NEW ws, Ending(ws)
    PROVE  ws # <<>>
BY EmptySeq DEF Ending

(* A handler that begins with the record r. *)
LEMMA AskingNothing ==
    ASSUME NEW h \in Handlers, NEW o,
           Begin(h, [Idle EXCEPT !.op = o, !.pc = "return"])
    PROVE  AsksFor(h, o, "return") /\ ~hs'[h].found
<1> DEFINE r == [Idle EXCEPT !.op = o, !.pc = "return"]
<1>1. DOMAIN r = DOMAIN Idle /\ r.op = o /\ r.pc = "return" /\ r.found = Idle.found
  BY IdleIs DEF HandlerState
<1>2. Idle.found = FALSE
  BY DEF Idle
<1> HIDE DEF r
<1>3. Begin(h, r)
  BY DEF r
<1> QED
  BY <1>1, <1>2, <1>3, BeginsAs

LEMMA AskingFound ==
    ASSUME NEW h \in Handlers, NEW o, NEW p, NEW ws,
           Begin(h, [Idle EXCEPT !.op = o, !.found = TRUE, !.pc = p, !.todo = ws])
    PROVE  AsksFor(h, o, p) /\ hs'[h].found /\ hs'[h].todo = ws
<1> DEFINE r == [Idle EXCEPT !.op = o, !.found = TRUE, !.pc = p, !.todo = ws]
<1>1. /\ DOMAIN r = DOMAIN Idle /\ r.op = o /\ r.pc = p /\ r.found = TRUE
      /\ r.todo = ws
  BY IdleIs DEF HandlerState
<1> HIDE DEF r
<1>3. Begin(h, r)
  BY DEF r
<1> QED
  BY <1>1, <1>3, BeginsAs

LEMMA ContinuousAsks ==
    ASSUME DataOK, NEW h \in Handlers, NEW o, handleContinuous(h, o)
    PROVE  AsksContinuous(h)
<1>1. CASE StartExisting(h)
  <2> DEFINE r == [Idle EXCEPT !.op = "start", !.found = TRUE, !.pc = "return"]
  <2>1. Begin(h, r) /\ store.meta # Absent
    BY <1>1 DEF StartExisting
  <2>2. DOMAIN r = DOMAIN Idle /\ r.op = "start" /\ r.pc = "return" /\ r.todo = <<>>
    BY IdleIs DEF HandlerState
  <2> HIDE DEF r
  <2> QED
    BY <2>1, <2>2, BeginsAs DEF AsksContinuous
<1>2. CASE StartNew(h)
  <2> DEFINE ws == initialize \o emitEvent("job.started") \o Put("state", {})
                     \o Put("count", 0) \o updateStatus("running")
             r == [Idle EXCEPT !.op = "start", !.created = TRUE, !.pc = "started",
                               !.todo = ws]
  <2>1. Begin(h, r)
    BY <1>2 DEF StartNew
  <2> HIDE DEF ws
  <2>2. /\ DOMAIN r = DOMAIN Idle /\ r.op = "start" /\ r.pc = "started"
        /\ r.created = TRUE
    BY IdleIs DEF HandlerState
  <2> HIDE DEF r
  <2>3. AsksFor(h, "start", "started") /\ hs'[h].created
    BY <2>1, <2>2, BeginsAs
  <2> QED
    BY <2>3 DEF AsksContinuous
<1>3. CASE TriggerNothing(h)
  <2>1. AsksFor(h, "trigger", "return") /\ ~hs'[h].found /\ store.meta = Absent
    BY <1>3, AskingNothing DEF TriggerNothing
  <2> QED
    BY <2>1 DEF AsksContinuous
<1>4. CASE Trigger(h)
  <2>1. AsksFor(h, "trigger", "execute") /\ hs'[h].found /\ store.meta # Absent
    BY <1>4, AskingFound DEF Trigger
  <2> QED
    BY <2>1 DEF AsksContinuous
<1>5. CASE TerminateNothing(h)
  <2>1. AsksFor(h, "terminate", "return") /\ store.meta = Absent
    BY <1>5, AskingNothing DEF TerminateNothing
  <2> QED
    BY <2>1 DEF AsksContinuous, Unless
<1>6. CASE Terminate(h)
  <2>1. Ending(emitEvent("job.terminated") \o purge)
    BY GivingUp, Events
  <2>2. AsksFor(h, "terminate", "return") /\ hs'[h].todo # <<>>
    BY <1>6, <2>1, AskingFound, EndingsAreWrites DEF Terminate
  <2> QED
    BY <2>2 DEF AsksContinuous, Unless
<1> QED
  BY <1>1, <1>2, <1>3, <1>4, <1>5, <1>6 DEF handleContinuous

LEMMA DebounceAsks ==
    ASSUME DataOK, NEW h \in Handlers, NEW o, handleDebounce(h, o)
    PROVE  AsksDebounce(h)
<1>1. ASSUME NEW valid \in BOOLEAN, Add(h, valid) PROVE AsksDebounce(h)
  <2> DEFINE created == store.meta = Absent
             p == IF valid THEN "reduce" ELSE "fail"
             n == IF created THEN 0 ELSE Count
             ws == IF created
                   THEN initialize \o updateStatus("running")
                          \o Put("other", TRUE) \o Put("count", 0)
                   ELSE <<>>
             r == [Idle EXCEPT !.op = "add", !.created = created, !.pc = p,
                               !.seen = store.state, !.count = n, !.todo = ws]
  <2>1. Begin(h, r)
    BY <1>1 DEF Add
  <2>2. p \in {"reduce", "fail"}
    OBVIOUS
  <2> HIDE DEF created, p, n, ws
  <2>3. DOMAIN r = DOMAIN Idle /\ r.op = "add" /\ r.pc = p
    BY IdleIs DEF HandlerState
  <2> HIDE DEF r
  <2>4. AsksFor(h, "add", p)
    BY <2>1, <2>3, BeginsAs
  <2> QED
    BY <2>2, <2>4 DEF AsksDebounce
<1>2. CASE FlushNothing(h)
  <2>1. AsksFor(h, "flush", "return") /\ store.meta = Absent
    BY <1>2, AskingNothing DEF FlushNothing
  <2> QED
    BY <2>1 DEF AsksDebounce, Unless
<1>3. CASE Flush(h)
  <2>1. Begin(h, handleFlush("flush", <<>>)) /\ store.meta # Absent
    BY <1>3 DEF Flush
  <2>2. CASE Count = 0
    <3> DEFINE w == <<>> \o purge
               r == [Idle EXCEPT !.op = "flush", !.pc = "return", !.todo = w]
    <3>1. Begin(h, r)
      BY <2>1, <2>2 DEF handleFlush
    <3>2. Ending(w)
      BY NoteLists, Ends
    <3>3. w # <<>>
      BY <3>2, EndingsAreWrites
    <3> HIDE DEF w
    <3>4. DOMAIN r = DOMAIN Idle /\ r.op = "flush" /\ r.pc = "return" /\ r.todo = w
      BY IdleIs DEF HandlerState
    <3> HIDE DEF r
    <3>5. AsksFor(h, "flush", "return") /\ hs'[h].todo # <<>>
      BY <3>1, <3>3, <3>4, BeginsAs
    <3> QED
      BY <3>5 DEF AsksDebounce, Unless
  <2>3. CASE Count # 0
    <3> DEFINE w == <<>>
               r == [Idle EXCEPT !.op = "flush", !.pc = "execute", !.todo = w]
    <3>1. Begin(h, r)
      BY <2>1, <2>3 DEF handleFlush
    <3> HIDE DEF w
    <3>2. DOMAIN r = DOMAIN Idle /\ r.op = "flush" /\ r.pc = "execute"
      BY IdleIs DEF HandlerState
    <3> HIDE DEF r
    <3>3. AsksFor(h, "flush", "execute")
      BY <3>1, <3>2, BeginsAs
    <3> QED
      BY <2>1, <3>3 DEF AsksDebounce
  <2> QED
    BY <2>2, <2>3
<1>4. CASE ClearNothing(h)
  <2>1. AsksFor(h, "clear", "return") /\ store.meta = Absent
    BY <1>4, AskingNothing DEF ClearNothing
  <2> QED
    BY <2>1 DEF AsksDebounce, Unless
<1>5. CASE Clear(h)
  <2>1. AsksFor(h, "clear", "return") /\ hs'[h].todo # <<>>
    BY <1>5, GivingUp, AskingFound, EndingsAreWrites DEF Clear
  <2> QED
    BY <2>1 DEF AsksDebounce, Unless
<1> QED
  BY <1>1, <1>2, <1>3, <1>4, <1>5 DEF handleDebounce

LEMMA TaskAsks ==
    ASSUME DataOK, NEW h \in Handlers, NEW o, handleTask(h, o)
    PROVE  AsksTask(h)
<1>1. ASSUME NEW valid \in BOOLEAN, Send(h, valid) PROVE AsksTask(h)
  <2> DEFINE created == store.meta = Absent
             p == IF valid THEN "execute" ELSE "fail"
             ws == IF created
                   THEN initialize \o updateStatus("running") \o Put("other", TRUE)
                          \o Put("count", 0) \o incrementEventCount(0)
                   ELSE incrementEventCount(Count)
             r == [Idle EXCEPT !.op = "send", !.created = created, !.pc = p,
                               !.todo = ws]
  <2>1. Begin(h, r)
    BY <1>1 DEF Send
  <2>2. p \in {"execute", "fail"}
    OBVIOUS
  <2> HIDE DEF created, p, ws
  <2>3. DOMAIN r = DOMAIN Idle /\ r.op = "send" /\ r.pc = p
    BY IdleIs DEF HandlerState
  <2> HIDE DEF r
  <2>4. AsksFor(h, "send", p)
    BY <2>1, <2>3, BeginsAs
  <2> QED
    BY <2>2, <2>4 DEF AsksTask
<1>2. CASE TaskTrigger(h)
  <2>1. AsksFor(h, "trigger", "execute") /\ hs'[h].found /\ store.meta # Absent
    BY <1>2, AskingFound DEF TaskTrigger
  <2> QED
    BY <2>1 DEF AsksTask
<1>3. CASE TaskNothing(h, "trigger")
  <2>1. AsksFor(h, "trigger", "return") /\ ~hs'[h].found /\ store.meta = Absent
    BY <1>3, AskingNothing DEF TaskNothing
  <2> QED
    BY <2>1 DEF AsksTask
<1>4. CASE TaskTerminate(h)
  <2>1. AsksFor(h, "terminate", "return") /\ hs'[h].todo # <<>>
    BY <1>4, GivingUp, AskingFound, EndingsAreWrites DEF TaskTerminate
  <2> QED
    BY <2>1 DEF AsksTask, Unless
<1>5. CASE TaskNothing(h, "terminate")
  <2>1. AsksFor(h, "terminate", "return") /\ store.meta = Absent
    BY <1>5, AskingNothing DEF TaskNothing
  <2> QED
    BY <2>1 DEF AsksTask, Unless
<1> QED
  BY <1>1, <1>2, <1>3, <1>4, <1>5 DEF handleTask

LEMMA CallAsks ==
    ASSUME DataOK, NEW h \in Requests, call(h), def.type # "workerPool"
    PROVE  Asked(h)
<1>1. PICK request \in createJobsClient(def.type) : handle(h, request)
  BY DEF call
<1>2. def.type \in {"continuous", "debounce", "task"} /\ h \in Handlers
  BY DefinitionIs, HandlerKinds DEF DataOK
<1>3. CASE def.type = "continuous"
  <2>1. request.type = "continuous"
    BY <1>3 DEF createJobsClient, continuous
  <2>2. handleContinuous(h, request.action)
    BY <1>1, <2>1 DEF handle
  <2> QED
    BY <1>2, <1>3, <2>2, ContinuousAsks DEF Asked
<1>4. CASE def.type = "debounce"
  <2>1. request.type = "debounce"
    BY <1>4 DEF createJobsClient, debounce
  <2>2. handleDebounce(h, request.action)
    BY <1>1, <2>1 DEF handle
  <2> QED
    BY <1>2, <1>4, <2>2, DebounceAsks DEF Asked
<1>5. CASE def.type = "task"
  <2>1. request.type = "task"
    BY <1>5 DEF createJobsClient, task
  <2>2. handleTask(h, request.action)
    BY <1>1, <2>1 DEF handle
  <2> QED
    BY <1>2, <1>5, <2>2, TaskAsks DEF Asked
<1> QED
  BY <1>2, <1>3, <1>4, <1>5

(* A step in which a handler begins, and all other steps.                  *)
Arrives(h) == Comes(h) /\ (h \in Requests /\ def.type # "workerPool" => Asked(h))

Elsewise ==
    \/ \E h \in Handlers :
          \/ GoesOn(h) \/ Performs(h)
          \/ \E n \in 1 .. Len(hs[h].todo) : Skips(h, n)
          \/ Returns(h) \/ Fails(h) \/ Breaks(h)
    \/ AlarmIsLost \/ Crashes \/ Ticks

Steps == Elsewise \/ \E h \in Handlers : Arrives(h)

LEMMA NextSteps ==
    ASSUME DataOK, HandlersOK, Next
    PROVE  Changes /\ Steps
<1>1. ASSUME NEW h \in Requests, call(h) PROVE Steps
  BY <1>1, CallDoes, CallAsks, HandlerKinds DEF Steps, Arrives, Comes
<1>2. ASSUME handleAlarm PROVE Steps
  <2>1. "alarm" \in Handlers /\ "alarm" \notin Requests
    BY HandlerKinds
  <2> QED
    BY <1>2, <2>1, AlarmDoes DEF Steps, Arrives, Elsewise, Comes
<1>3. ASSUME NEW h \in Handlers, Step(h) PROVE Steps
  BY <1>3, PerformDoes, ReturnDoes, FailDoes, GoingOn DEF Step, Steps, Elsewise
<1>4. ASSUME Tick PROVE Steps
  BY <1>4, TickDoes DEF Steps, Elsewise
<1>5. ASSUME Failure PROVE Steps
  BY <1>5, CrashDoes, FaultDoes DEF Failure, Steps, Elsewise
<1> QED
  BY <1>1, <1>2, <1>3, <1>4, <1>5, NextDoes DEF Next

Requesting(o) == [type |-> def.type, action |-> o] \in JobRequest /\ o \notin Reads

LEMMA IsRequest ==
    /\ \A o \in {"start", "trigger", "terminate"} :
          def.type = "continuous" => Requesting(o)
    /\ \A o \in {"add", "flush", "clear"} : def.type = "debounce" => Requesting(o)
    /\ \A o \in {"send", "trigger", "terminate"} : def.type = "task" => Requesting(o)
BY DEF Requesting, JobRequest, ContinuousRequest, DebounceRequest, TaskRequest, Reads,
       ContinuousClient, DebounceClient, TaskClient

(* A request that is told that the job is there, because it is.            *)
Finds(h) == hs[h].op = "start" /\ ~hs[h].created

Serves(h) ==
    Active(h) /\ def.type # "workerPool" =>
       /\ Requesting(hs[h].op)
       /\ hs[h].created => hs[h].op \in ForNew
       /\ hs[h].pc = "started" => hs[h].op = "start"
       /\ hs[h].pc = "reduce" => hs[h].op = "add"
       /\ hs[h].result # "none" => hs[h].pc \in {"result", "return"}
       /\ Pending(h, "meta") => hs[h].pc \in {"started", "reduce", "execute", "fail"}
       /\ Finds(h) => /\ hs[h].pc = "return" /\ hs[h].todo = <<>>
                      /\ hs[h].result = "none" /\ store.meta # Absent

LEMMA Serving == ServesOK <=> \A h \in Requests : Serves(h)
BY DEF ServesOK, Serves, Requesting, Finds

LEMMA ServingNext == ServesOK' <=> \A h \in Requests : Serves(h)'
BY DEF ServesOK, Serves, Requesting, Finds

LEMMA ServesOn ==
    ASSUME NEW g, Serves(g), def' = def, hs'[g].pc = hs[g].pc,
           hs'[g].todo = hs[g].todo, hs'[g].op = hs[g].op,
           hs'[g].created = hs[g].created, hs'[g].result = hs[g].result,
           store'.meta = store.meta \/ ~Finds(g)
    PROVE  Serves(g)'
<1>1. Pending(g, "meta")' <=> Pending(g, "meta")
  BY DEF Pending
<1>2. Requesting(hs[g].op)' <=> Requesting(hs[g].op)
  BY DEF Requesting
<1>3. Finds(g)' <=> Finds(g)
  BY DEF Finds
<1> QED
  BY <1>1, <1>2, <1>3 DEF Serves, Active, Requesting

LEMMA GoesOnKeys ==
    ASSUME NEW h, GoesOn(h)
    PROVE  ~Pending(h, "meta")'
<1>1. ASSUME NEW S, hs'[h].todo \in Seq(S), \A w \in S : w.key # "meta"
      PROVE  ~Pending(h, "meta")'
  BY <1>1, ListMembers DEF Pending
<1>2. \A v : \A w \in Note \union Saving(v) \union Setting \union Timing : w.key # "meta"
  BY ListsAre
<1>3. CASE GivesUp(h) \/ FlushPurges(h)
  <2>1. Ending(hs'[h].todo)
    BY <1>3 DEF GivesUp, FlushPurges
  <2>2. \A i \in DOMAIN hs'[h].todo :
           hs'[h].todo[i].key \in {"all", "alarm"} \/ hs'[h].todo[i] \in Note
    BY <2>1, EndingIs
  <2> QED
    BY <2>2, ListsAre DEF Pending
<1>4. CASE FirstRuns(h)
  BY <1>1, <1>2, <1>4 DEF FirstRuns
<1>5. CASE Loads(h) \/ FlushEnds(h) \/ RunIsLost(h)
  BY <1>1, <1>2, <1>5 DEF Loads, FlushEnds, RunIsLost
<1>6. CASE WillRetry(h) \/ SchedulesNext(h)
  BY <1>1, <1>2, <1>6 DEF WillRetry, SchedulesNext
<1>7. CASE Misses(h) \/ Concludes(h) \/ GoesIdle(h)
  <2>1. hs'[h].todo \in Seq({})
    BY <1>7, EmptySeq DEF Misses, Concludes, GoesIdle
  <2> QED
    BY <1>1, <2>1
<1>8. CASE RunEnds(h)
  <2> DEFINE v == Seen(h) \union {NewId}
  <2>1. hs'[h].todo \in Seq(Note \union Saving(v))
    BY <1>8 DEF RunEnds, TakesIn
  <2> HIDE DEF v
  <2> QED
    BY <1>1, <1>2, <2>1
<1>9. CASE Reduces(h)
  <2> DEFINE v == Seen(h) \union ({NewId} \ {0})
  <2>1. hs'[h].todo \in Seq(Note \union Saving(v) \union Setting)
    BY <1>9 DEF Reduces
  <2> HIDE DEF v
  <2> QED
    BY <1>1, <1>2, <2>1
<1>10. CASE FunctionReturns(h)
  BY <1>1, <1>2, <1>10 DEF FunctionReturns
<1>11. CASE TaskSettles(h)
  <2> DEFINE v == Seen(h) \union {hs[h].id}
  <2>1. hs'[h].todo \in Seq(Timing \union Saving(v))
    BY <1>11 DEF TaskSettles, Settled
  <2> HIDE DEF v
  <2> QED
    BY <1>1, <1>2, <2>1
<1> QED
  BY <1>3, <1>4, <1>5, <1>6, <1>7, <1>8, <1>9, <1>10, <1>11 DEF GoesOn

(* Only a handler that has come to its result has one.                     *)
LEMMA ResultsLast ==
    ASSUME NEW h \in Requests, Serves(h), Active(h), def.type # "workerPool", GoesOn(h)
    PROVE  hs'[h].result # "none" => hs'[h].pc \in {"result", "return"}
<1>1. hs[h].result # "none" => hs[h].pc \in {"result", "return"}
  BY DEF Serves
<1>2. CASE hs'[h].pc \in {"result", "return"}
  BY <1>2
<1>3. CASE hs'[h].pc \notin {"result", "return"}
  <2>1. /\ FirstRuns(h) \/ Loads(h) \/ RunIsLost(h) \/ Reduces(h) \/ FunctionReturns(h)
           \/ GoesIdle(h)
    BY <1>3 DEF GoesOn, FirstRuns, Loads, Misses, GivesUp, RunEnds, FlushEnds,
       WillRetry, RunIsLost, SchedulesNext, FlushPurges, Concludes, Reduces,
       FunctionReturns, GoesIdle, TaskSettles, Moves
  <2>2. /\ hs'[h].result = hs[h].result
        /\ hs[h].pc \in {"started", "execute", "run", "reduce", "settle"}
    BY <2>1 DEF FirstRuns, Loads, RunIsLost, Reduces, FunctionReturns, GoesIdle, Moves,
       Rest
  <2> QED
    BY <1>1, <2>2
<1> QED
  BY <1>2, <1>3

LEMMA ComingServes ==
    ASSUME NEW h \in Requests, Begins(h), Comes(h), Asked(h), def.type # "workerPool"
    PROVE  Serves(h)'
<1>1. def' = def /\ store' = store /\ hs'[h].result = "none"
  BY DEF Begins
<1>2. /\ Requesting(hs'[h].op)
      /\ hs'[h].pc = "started" => hs'[h].op = "start"
      /\ hs'[h].pc = "reduce" => hs'[h].op = "add"
      /\ hs'[h].op = "start" /\ ~hs'[h].created =>
            hs'[h].pc = "return" /\ hs'[h].todo = <<>> /\ store.meta # Absent
  <2>1. CASE def.type = "continuous" /\ AsksContinuous(h)
    BY <2>1, IsRequest DEF AsksContinuous, AsksFor
  <2>2. CASE def.type = "debounce" /\ AsksDebounce(h)
    BY <2>2, IsRequest DEF AsksDebounce, AsksFor
  <2>3. CASE def.type = "task" /\ AsksTask(h)
    BY <2>3, IsRequest DEF AsksTask, AsksFor
  <2> QED
    BY <2>1, <2>2, <2>3 DEF Asked
<1>3. hs'[h].created => hs'[h].op \in ForNew
  <2> SUFFICES ASSUME hs'[h].created PROVE hs'[h].op \in ForNew
    OBVIOUS
  <2>1. CreatesNew(h)
    BY DEF Comes, AnswersOnly, Refuses, WorksOn, Purges
  <2>2. store.meta = Absent /\ hs'[h].pc # "return"
    BY <2>1 DEF CreatesNew
  <2> QED
    BY <2>2 DEF Asked, AsksContinuous, AsksDebounce, AsksTask, AsksFor, ForNew
<1>4. Pending(h, "meta")' => hs'[h].pc \in {"started", "reduce", "execute", "fail"}
  <2>1. hs'[h].pc \in {"started", "execute", "reduce", "fail", "return"}
    BY ComesBegins
  <2>2. CASE AnswersOnly(h) \/ Purges(h)
    <3>1. hs'[h].todo = <<>> \/ Ending(hs'[h].todo)
      BY <2>2 DEF AnswersOnly, Purges
    <3>2. CASE hs'[h].todo = <<>>
      BY <3>2, EmptySeq DEF Pending
    <3>3. CASE Ending(hs'[h].todo)
      <4>1. \A i \in DOMAIN hs'[h].todo :
               hs'[h].todo[i].key \in {"all", "alarm"} \/ hs'[h].todo[i] \in Note
        BY <3>3, EndingIs
      <4> QED
        BY <4>1, ListsAre DEF Pending
    <3> QED
      BY <3>1, <3>2, <3>3
  <2>3. CASE Refuses(h) \/ CreatesNew(h) \/ WorksOn(h)
    <3>1. hs'[h].pc # "return"
      BY <2>3 DEF Refuses, CreatesNew, WorksOn
    <3> QED
      BY <2>1, <3>1
  <2> QED
    BY <2>2, <2>3 DEF Comes
<1>5. Finds(h)' <=> hs'[h].op = "start" /\ ~hs'[h].created
  BY DEF Finds
<1>6. Requesting(hs[h].op)' <=> Requesting(hs'[h].op)
  BY <1>1 DEF Requesting
<1> QED
  BY <1>1, <1>2, <1>3, <1>4, <1>5, <1>6 DEF Serves, Requesting

LEMMA ServesStays ==
    ASSUME DataOK, HandlersOK, ServesOK, Steps
    PROVE  ServesOK'
<1>1. \A g \in Requests : g \in Handlers /\ Serves(g)
  BY Serving, HandlerKinds
<1>2. ASSUME NEW h \in Handlers, GoesOn(h) PROVE ServesOK'
  <2>1. /\ Moves(h, hs[h].pc, hs'[h].pc)
        /\ hs[h].pc \in {"started", "execute", "run", "result", "reduce", "settle",
                         "idling"}
        /\ hs'[h].pc \in {"execute", "run", "result", "return", "fail", "settle",
                          "idling"}
    BY <1>2, GoesOnMoves
  <2>2. \A g \in Requests : g # h => Serves(g)'
    BY <1>1, <2>1, ServesOn DEF Moves
  <2>3. ASSUME h \in Requests PROVE Serves(h)'
    <3> SUFFICES ASSUME def.type # "workerPool" PROVE Serves(h)'
      BY <2>1 DEF Moves, Serves
    <3>1. Active(h) /\ Serves(h)
      BY <1>1, <2>1, <2>3 DEF Active
    <3>2. hs'[h].result # "none" => hs'[h].pc \in {"result", "return"}
      BY <1>2, <2>3, <3>1, ResultsLast
    <3>3. ~Pending(h, "meta")'
      BY <1>2, GoesOnKeys
    <3>4. ~Finds(h)
      BY <2>1, <3>1 DEF Serves
    <3>5. ~Finds(h)'
      BY <2>1, <3>4 DEF Finds, Moves
    <3>6. Requesting(hs[h].op)'
      BY <2>1, <3>1 DEF Serves, Requesting, Moves
    <3> QED
      BY <2>1, <3>1, <3>2, <3>3, <3>5, <3>6 DEF Serves, Moves
  <2> QED
    BY <2>2, <2>3, ServingNext
<1>3. ASSUME NEW h \in Handlers, Arrives(h) PROVE ServesOK'
  <2>1. Begins(h) /\ Comes(h)
    BY <1>3, ComesBegins DEF Arrives
  <2>2. \A g \in Requests : g # h => Serves(g)'
    BY <1>1, <2>1, ServesOn DEF Begins
  <2>3. ASSUME h \in Requests PROVE Serves(h)'
    <3>1. CASE def.type = "workerPool"
      BY <2>1, <3>1 DEF Begins, Serves
    <3>2. CASE def.type # "workerPool"
      BY <1>3, <2>1, <2>3, <3>2, ComingServes DEF Arrives
    <3> QED
      BY <3>1, <3>2
  <2> QED
    BY <2>2, <2>3, ServingNext
<1>4. ASSUME NEW h \in Handlers, NEW n \in 1 .. Len(hs[h].todo), Drops(h, n)
      PROVE  ServesOK'
  <2>1. ASSUME NEW g \in Requests, g # h PROVE Serves(g)'
    <3>1. g \in Handlers /\ Serves(g)
      BY <1>1
    <3>2. ~(Active(g) /\ Finds(g) /\ def.type # "workerPool")
      <4>1. Turn(h)
        BY <1>4 DEF Drops
      <4>2. Yielding(g)
        BY <2>1, <3>1, <4>1 DEF Turn
      <4> QED
        BY <3>1, <4>2 DEF Serves, Yielding, Active, InUserCode
    <3>3. CASE Active(g) /\ def.type # "workerPool"
      BY <1>4, <2>1, <3>1, <3>2, <3>3, ServesOn DEF Drops
    <3>4. CASE ~(Active(g) /\ def.type # "workerPool")
      BY <1>4, <2>1, <3>1, <3>4 DEF Drops, Serves, Active
    <3> QED
      BY <3>3, <3>4
  <2>2. ASSUME h \in Requests PROVE Serves(h)'
    <3> SUFFICES ASSUME Active(h), def.type # "workerPool" PROVE Serves(h)'
      BY <1>4 DEF Drops, Serves, Active
    <3>1. Serves(h)
      BY <1>1, <2>2
    <3>2. ~Finds(h)
      <4>1. hs[h].todo # <<>>
        BY <1>4, Typed, Members, EmptySeq
      <4> QED
        BY <3>1, <4>1 DEF Serves
    <3>3. ~Finds(h)'
      BY <1>4, <3>2 DEF Drops, Finds
    <3>4. Pending(h, "meta")' => Pending(h, "meta")
      BY <1>4 DEF Drops, Pending
    <3>5. Requesting(hs[h].op)'
      BY <1>4, <3>1 DEF Serves, Requesting, Drops
    <3> QED
      BY <1>4, <3>1, <3>3, <3>4, <3>5 DEF Serves, Drops
  <2> QED
    BY <2>1, <2>2, ServingNext
<1>5. ASSUME NEW h \in Handlers, Leaves(h) PROVE ServesOK'
  <2>1. \A g \in Requests : g # h => Serves(g)'
    BY <1>1, <1>5, ServesOn DEF Leaves
  <2>2. Serves(h)'
    BY <1>5, IdleIs DEF Leaves, Serves, Active
  <2> QED
    BY <2>1, <2>2, ServingNext
<1>6. ASSUME AlarmIsLost \/ Ticks PROVE ServesOK'
  <2>1. hs' = hs /\ def' = def /\ store'.meta = store.meta
    BY <1>6 DEF AlarmIsLost, Ticks, DataOK, StoreState
  <2> QED
    BY <1>1, <2>1, ServesOn, ServingNext
<1>7. ASSUME Crashes PROVE ServesOK'
  <2>1. \A g \in Handlers : ~Active(g)'
    BY <1>7, IdleIs DEF Crashes, Active
  <2> QED
    BY <1>1, <2>1, ServingNext DEF Serves
<1>8. CASE Elsewise
  <2>1. ASSUME NEW h \in Handlers,
               Performs(h) \/ \E n \in 1 .. Len(hs[h].todo) : Skips(h, n)
        PROVE  \E n \in 1 .. Len(hs[h].todo) : Drops(h, n)
    BY <2>1 DEF Performs, Skips, Drops
  <2> QED
    BY <1>2, <1>4, <1>5, <1>6, <1>7, <1>8, <2>1 DEF Elsewise, Returns, Fails, Breaks
<1> QED
  BY <1>3, <1>8 DEF Steps

-----------------------------------------------------------------------------
(* What will be so when the writes of a request that runs alone are made.  *)

Unarmed == store.meta = Absent /\ Undisturbed => alarm = Absent

Lonely(h) ==
    /\ Undisturbed /\ ~hist.half /\ def.type # "workerPool"
    /\ Active(h) /\ ~hs[h].shared

WillEnd(h) == MustEnd(h) => Pending(h, "all") \/ store.meta = Absent

WillStay(h) ==
    MustStay(h) => ~Pending(h, "all") /\ (store.meta # Absent \/ Creates(h))

WillTry(h) ==
    hs[h].result = "retryScheduled" =>
       /\ store.attempt # Absent \/ \E i \in DOMAIN hs[h].todo : Counts(h, i)
       /\ \A i \in DOMAIN hs[h].todo :
             /\ write(h, i).key = "attempt" => Counts(h, i)
             /\ write(h, i).key # "all"

Tells(h) == WillEnd(h) /\ WillStay(h) /\ WillTry(h)

LEMMA Telling == AnswerOK <=> Unarmed /\ \A h \in Requests : Lonely(h) => Tells(h)
BY DEF AnswerOK, Unarmed, Lonely, Tells, WillEnd, WillStay, WillTry

LEMMA TellingNext ==
    AnswerOK' <=> Unarmed' /\ \A h \in Requests : Lonely(h)' => Tells(h)'
BY DEF AnswerOK, Unarmed, Lonely, Tells, WillEnd, WillStay, WillTry

(* What making a write does to the metadata and to the attempt.            *)
LEMMA MetaStays ==
    ASSUME DataOK, HandlersOK, NEW h \in Handlers, Performs(h)
    PROVE  /\ 1 \in DOMAIN hs[h].todo /\ hs[h].todo # <<>> /\ Active(h)
           /\ Head(hs[h].todo) = write(h, 1)
           /\ write(h, 1).key = "meta" => store'.meta # Absent
           /\ write(h, 1).key # "all" /\ store.meta # Absent => store'.meta # Absent
           /\ write(h, 1).key \notin {"all", "meta"} /\ store.meta = Absent
                 => store'.meta = Absent
           /\ write(h, 1).key = "all" => store'.meta = Absent
           /\ write(h, 1).key = "attempt" => store'.attempt = write(h, 1).val
           /\ write(h, 1).key \notin {"all", "attempt"}
                 => store'.attempt = store.attempt
<1> DEFINE w == write(h, 1)
<1>1. /\ w \in Writes /\ hs[h].todo # <<>> /\ 1 \in DOMAIN hs[h].todo
      /\ Head(hs[h].todo) = w /\ Active(h)
  <2>1. Drops(h, 1) /\ hs[h].todo \in Seq(Writes)
    BY Typed DEF Performs
  <2>2. hs[h].todo # <<>>
    BY <2>1, Members, EmptySeq DEF Drops
  <2> QED
    BY <2>1, <2>2, Members, IdleIs DEF write, HandlersOK
<1>2. store' = Stored(w) /\ store \in StoreState
  BY DEF Performs, DataOK
<1>3. "running" # Absent /\ "initializing" # Absent
  BY AbsentIsNoValue DEF AbsentIsNoValue
<1>4. /\ w.key = "meta" => w.val = "initializing"
      /\ w.key = "status" => w.val = "running"
  BY <1>1 DEF Writes
<1> HIDE DEF w
<1>5. CASE w.key = "all"
  <2>1. store' = Empty
    BY <1>2, <1>5 DEF Stored
  <2> QED
    BY <1>1, <1>5, <2>1 DEF Empty, w
<1>6. CASE w.key \in {"alarm", "event"}
  <2>1. store' = store
    BY <1>2, <1>6 DEF Stored
  <2> QED
    BY <1>1, <1>6, <2>1 DEF w
<1>7. CASE w.key = "status"
  <2>1. store' = IF store.meta = Absent THEN store ELSE [store EXCEPT !.meta = "running"]
    BY <1>2, <1>4, <1>7 DEF Stored
  <2>2. /\ store'.attempt = store.attempt
        /\ store'.meta = IF store.meta = Absent THEN Absent ELSE "running"
    BY <1>2, <2>1 DEF StoreState
  <2> QED
    BY <1>1, <1>3, <1>7, <2>2 DEF w
<1>8. CASE w.key \notin {"all", "alarm", "event", "status"}
  <2>1. store' = [store EXCEPT ![w.key] = w.val]
    BY <1>2, <1>8 DEF Stored
  <2>2. /\ store'.attempt = IF w.key = "attempt" THEN w.val ELSE store.attempt
        /\ store'.meta = IF w.key = "meta" THEN w.val ELSE store.meta
    BY <1>2, <2>1 DEF StoreState
  <2> QED
    BY <1>1, <1>3, <1>4, <1>8, <2>2 DEF w
<1> QED
  BY <1>5, <1>6, <1>7, <1>8

LEMMA UnarmedStays ==
    ASSUME DataOK, HandlersOK, WritesOK, GoneOK, Unarmed, Changes
    PROVE  Unarmed'
<1> SUFFICES ASSUME store'.meta = Absent, Undisturbed' PROVE alarm' = Absent
  BY DEF Unarmed
<1>1. store.meta = Absent /\ Undisturbed => alarm = Absent
  BY DEF Unarmed
<1>2. ASSUME NEW h \in Handlers, GoesOn(h) PROVE alarm' = Absent
  <2>1. Moves(h, hs[h].pc, hs'[h].pc) /\ hist'.raced = hist.raced
    BY <1>2, GoesOnMoves DEF Unhistoric, Discards, Issues, FlushEnds
  <2> QED
    BY <1>1, <2>1 DEF Moves, Undisturbed
<1>3. ASSUME NEW h \in Handlers, Comes(h) PROVE alarm' = Absent
  <2>1. Begins(h) /\ hist'.raced = hist.raced
    BY <1>3, ComesBegins DEF Unhistoric, Discards
  <2> QED
    BY <1>1, <2>1 DEF Begins, Undisturbed
<1>4. ASSUME NEW h \in Handlers, Performs(h) PROVE alarm' = Absent
  <2>1. /\ Undisturbed /\ ~hist.raced
        /\ alarm' = IF write(h, 1).key = "alarm" THEN write(h, 1).val ELSE alarm
    BY <1>4 DEF Performs, Undisturbed
  <2>2. CASE write(h, 1).key = "all"
    <3>1. 1 \in DOMAIN hs[h].todo /\ Ordered(h)
      BY <1>4, MetaStays, Orders
    <3>2. alarm = Absent
      BY <2>2, <3>1 DEF Ordered
    <3> QED
      BY <2>1, <2>2, <3>2
  <2>3. CASE write(h, 1).key # "all"
    <3>1. store.meta = Absent /\ Active(h) /\ hs[h].todo # <<>>
      BY <1>4, <2>3, MetaStays
    <3>2. Creates(h)
      BY <2>1, <3>1, Gones DEF Quietly, Harmless
    <3>3. write(h, 1).key = "meta"
      BY <1>4, <3>2, MetaStays DEF Creates
    <3> QED
      BY <1>4, <3>3, MetaStays
  <2> QED
    BY <2>2, <2>3
<1>5. ASSUME Faulty PROVE FALSE
  BY <1>5 DEF Faulty, Undisturbed
<1>6. ASSUME NEW h \in Handlers, Returns(h) PROVE alarm' = Absent
  BY <1>1, <1>6 DEF Returns, Leaves, Undisturbed
<1>7. ASSUME NEW h \in Handlers, Fails(h) PROVE alarm' = Absent
  <2>1. /\ store.meta = Absent /\ Undisturbed /\ ~hist.raced /\ Active(h)
        /\ hs[h].pc = "fail" /\ hs[h].todo = <<>> /\ alarm' = Redelivered(h)
    BY <1>7 DEF Fails, Leaves, Halves, Undisturbed
  <2>2. h \in Requests
    BY <2>1, Gones DEF Quietly, Harmless, Creates
  <2>3. h # "alarm"
    BY <2>2, HandlerKinds
  <2> QED
    BY <1>1, <2>1, <2>3 DEF Redelivered
<1>8. ASSUME AlarmIsLost PROVE alarm' = Absent
  BY <1>8 DEF AlarmIsLost
<1>9. ASSUME Ticks PROVE alarm' = Absent
  <2>1. /\ store'.meta = store.meta /\ budget' = budget /\ hist' = hist
        /\ alarm' = Absent <=> alarm = Absent
    BY <1>9 DEF Ticks, DataOK, StoreState
  <2> QED
    BY <1>1, <2>1 DEF Undisturbed
<1> QED
  BY <1>2, <1>3, <1>4, <1>5, <1>6, <1>7, <1>8, <1>9 DEF Changes, Skips, Breaks, Crashes

(* A handler that runs alone finds what is stored, or the job is gone.     *)
LEMMA MissedIsGone ==
    ASSUME DataOK, HandlersOK, GuardOK, NEW h \in Handlers, Misses(h),
           ~hist.half, ~hs[h].shared
    PROVE  store.meta = Absent
<1>1. /\ hs[h].pc = "execute" /\ hs[h].todo = <<>> /\ store.state = Absent
      /\ def.type # "task"
  BY DEF Misses, Moves
<1>2. def.type \in {"continuous", "debounce"}
  BY <1>1, DefinitionIs DEF DataOK, HandlersOK
<1> SUFFICES ASSUME store.meta # Absent PROVE FALSE
  OBVIOUS
<1>3. Guarded
  BY <1>2 DEF Guarded
<1>4. PICK f \in Handlers : Founds(f)
  BY <1>1, <1>3, GuardIs DEF GuardKept
<1>5. f # h
  BY <1>1, <1>4, NoWrites DEF Founds
<1>6. Active(f)
  BY <1>4, IdleIs DEF Founds, HandlersOK
<1>7. Active(h)
  BY <1>1 DEF Active
<1> QED
  BY <1>5, <1>6, <1>7, Places DEF Met

(* While a handler runs alone, no other does.                              *)
LEMMA OnlyOne ==
    ASSUME HandlersOK, NEW g \in Handlers, Active(g), ~hs[g].shared,
           NEW h \in Handlers, Active(h)
    PROVE  g = h
BY DEF HandlersOK

LEMMA GoingOnEnds ==
    ASSUME DataOK, HandlersOK, GuardOK, NEW g \in Requests, GoesOn(g), Lonely(g),
           Serves(g), WillEnd(g)
    PROVE  WillEnd(g)'
<1>1. /\ Moves(g, hs[g].pc, hs'[g].pc) /\ hs[g].todo = <<>> /\ g \in Handlers
      /\ store' = store /\ hs'[g].op = hs[g].op /\ hs'[g].found = hs[g].found
  BY GoesOnMoves, HandlerKinds DEF Moves
<1> SUFFICES ASSUME MustEnd(g)', ~Pending(g, "all")' PROVE store.meta = Absent
  BY <1>1 DEF WillEnd
<1>2. MustEnd(g) => store.meta = Absent
  BY <1>1, NoWrites DEF WillEnd
<1>3. hs[g].result = "terminated" => MustEnd(g)
  BY DEF MustEnd
<1>4. CASE Misses(g)
  BY <1>1, <1>4, MissedIsGone DEF Lonely
<1>5. CASE GivesUp(g) \/ FlushPurges(g)
  BY <1>5, EndingPends DEF GivesUp, FlushPurges
<1>6. CASE Concludes(g)
  <2>1. /\ hs[g].pc = "result" /\ hs'[g].pc = "return" /\ hs'[g].result = hs[g].result
        /\ hs[g].result # "success" \/ def.type = "task" \/ def.type = "continuous"
    BY <1>6 DEF Concludes, Moves, Rest
  <2>2. hs[g].result \in {"success", "retryScheduled", "terminated"}
    BY <1>1, <2>1, Typed DEF HandlersOK, HandlerState
  <2>3. hs[g].op \in {"flush", "add"} => def.type = "debounce"
    <3>1. Requesting(hs[g].op)
      BY DEF Serves, Lonely
    <3> QED
      BY <3>1 DEF Requesting, JobRequest, ContinuousRequest, DebounceRequest,
         TaskRequest, WorkerPoolRequest, ContinuousClient, DebounceClient, TaskClient,
         WorkerPoolClient
  <2> QED
    BY <1>1, <1>2, <1>3, <2>1, <2>2, <2>3 DEF MustEnd
<1>7. CASE FirstRuns(g)
  <2>1. hs[g].op = "start" /\ hs[g].result = hs'[g].result
    BY <1>7 DEF FirstRuns, Moves, Rest, Serves, Lonely
  <2> QED
    BY <1>1, <1>2, <1>3, <2>1 DEF MustEnd
<1>8. CASE SchedulesNext(g)
  <2>1. def.type = "continuous" /\ hs[g].result = "success" /\ hs'[g].result = "success"
    BY <1>8 DEF SchedulesNext, Rest
  <2>2. hs[g].op \notin {"flush", "add"}
    <3>1. Requesting(hs[g].op)
      BY DEF Serves, Lonely
    <3> QED
      BY <2>1, <3>1 DEF Requesting, JobRequest, ContinuousRequest, DebounceRequest,
         TaskRequest, WorkerPoolRequest, ContinuousClient
  <2> QED
    BY <1>1, <1>2, <2>1, <2>2 DEF MustEnd
<1>9. CASE Reduces(g)
  <2>1. hs[g].op = "add" /\ hs'[g].result = hs[g].result /\ hs[g].result = "none"
    BY <1>9 DEF Reduces, Moves, Serves, Lonely
  <2> QED
    BY <1>1, <1>2, <2>1 DEF MustEnd
<1>10. CASE \/ Loads(g) \/ RunEnds(g) \/ FlushEnds(g) \/ WillRetry(g) \/ RunIsLost(g)
            \/ FunctionReturns(g) \/ GoesIdle(g) \/ TaskSettles(g)
  <2>1. /\ hs'[g].pc # "return"
        /\ hs'[g].result \in {hs[g].result, "success", "retryScheduled"}
    BY <1>10 DEF Loads, RunEnds, FlushEnds, WillRetry, RunIsLost, FunctionReturns,
       GoesIdle, TaskSettles, Moves, Over, Rest
  <2> QED
    BY <1>1, <1>2, <1>3, <2>1 DEF MustEnd
<1> QED
  BY <1>4, <1>5, <1>6, <1>7, <1>8, <1>9, <1>10 DEF GoesOn

(* What is set is kept until the end.                                      *)
LEMMA ResultHolds ==
    ASSUME NEW g, GoesOn(g), Lonely(g), Serves(g), hs[g].result # "none"
    PROVE  \/ SchedulesNext(g) /\ hs[g].result = "success"
           \/ FlushPurges(g) /\ hs[g].result = "success"
           \/ Concludes(g) /\ hs'[g].result = hs[g].result /\ hs'[g].todo = <<>>
<1>1. hs[g].pc \in {"result", "return"}
  BY DEF Serves, Lonely
<1> QED
  BY ZenonT(60), <1>1 DEF GoesOn, FirstRuns, Loads, Misses, GivesUp, RunEnds, FlushEnds,
     WillRetry, RunIsLost, SchedulesNext, FlushPurges, Concludes, Reduces,
     FunctionReturns, GoesIdle, TaskSettles, Moves, Rest

LEMMA GoingOnTells ==
    ASSUME DataOK, HandlersOK, GuardOK, NEW g \in Requests, GoesOn(g), Lonely(g),
           Serves(g), Tells(g)
    PROVE  Tells(g)'
<1>1. /\ Moves(g, hs[g].pc, hs'[g].pc) /\ hs[g].todo = <<>> /\ g \in Handlers
      /\ store' = store /\ hs'[g].op = hs[g].op /\ hs'[g].found = hs[g].found
      /\ def' = def /\ hs' \in [Handlers -> HandlerState]
  BY GoesOnMoves, HandlerKinds DEF Moves
<1>2. WillEnd(g)'
  BY GoingOnEnds DEF Tells
<1>3. WillStay(g)'
  <2> SUFFICES ASSUME MustStay(g)' PROVE ~Pending(g, "all")' /\ store.meta # Absent
    BY <1>1 DEF WillStay
  <2>1. def.type = "continuous" /\ hs'[g].result # "terminated"
    BY <1>1 DEF MustStay
  <2>2. hs[g].result # "terminated"
    BY <2>1, ResultHolds
  <2>3. MustStay(g)
    BY <1>1, <2>1, <2>2 DEF MustStay
  <2>4. store.meta # Absent
    BY <1>1, <2>3 DEF Tells, WillStay, Creates
  <2>5. ~GivesUp(g) /\ ~FlushPurges(g)
    BY <2>1 DEF GivesUp, FlushPurges, Over
  <2>6. ~Pending(g, "all")'
    BY <2>5, GoesOnWrites DEF Writing, Pending
  <2> QED
    BY <2>4, <2>6
<1>4. WillTry(g)'
  <2> SUFFICES ASSUME hs'[g].result = "retryScheduled"
               PROVE  /\ store.attempt # Absent
                           \/ \E i \in DOMAIN hs'[g].todo : Counts(g, i)'
                      /\ \A i \in DOMAIN hs'[g].todo :
                            /\ write(g, i)'.key = "attempt" => Counts(g, i)'
                            /\ write(g, i)'.key # "all"
    BY <1>1 DEF WillTry
  <2>1. CASE WillRetry(g)
    <3>1. hs'[g].todo \in Seq(Note \union Setting) /\ Counting(hs'[g].todo)
      BY <2>1 DEF WillRetry
    <3>2. \A i \in DOMAIN hs'[g].todo : hs'[g].todo[i].key # "all"
      BY <3>1, ListMembers, ListsAre
    <3>3. \A i \in DOMAIN hs'[g].todo :
             /\ write(g, i)' = hs'[g].todo[i]
             /\ Counts(g, i)' <=> /\ hs'[g].todo[i].key = "attempt"
                                  /\ hs'[g].todo[i].val # Absent
      BY DEF write, Counts
    <3> QED
      BY <3>1, <3>2, <3>3 DEF Counting
  <2>2. CASE ~WillRetry(g)
    <3>1. hs[g].result = "retryScheduled"
      <4>1. \/ Misses(g) \/ GivesUp(g) \/ RunEnds(g) \/ FlushEnds(g) \/ TaskSettles(g)
            \/ hs'[g].result = hs[g].result
        BY <2>2 DEF GoesOn, FirstRuns, Loads, RunIsLost, SchedulesNext, FlushPurges,
           Concludes, Reduces, FunctionReturns, GoesIdle, Rest
      <4> QED
        BY <4>1 DEF Misses, GivesUp, RunEnds, FlushEnds, TaskSettles, Over
    <3>2. hs'[g].todo = <<>>
      BY <3>1, ResultHolds
    <3>3. DOMAIN hs'[g].todo = {} /\ DOMAIN hs[g].todo = {}
      BY <1>1, <3>2, EmptySeq
    <3>4. store.attempt # Absent
      BY <3>1, <3>3 DEF Tells, WillTry
    <3> QED
      BY <3>3, <3>4
  <2> QED
    BY <2>1, <2>2
<1> QED
  BY <1>2, <1>3, <1>4 DEF Tells

LEMMA ComingTells ==
    ASSUME NEW g \in Requests, Comes(g), Asked(g)
    PROVE  Tells(g)'
<1>1. Begins(g) /\ store' = store /\ def' = def /\ hs'[g].result = "none"
  BY ComesBegins DEF Begins
<1>2. WillEnd(g)'
  <2> SUFFICES ASSUME MustEnd(g)', store.meta # Absent PROVE Pending(g, "all")'
    BY <1>1 DEF WillEnd
  <2>1. \/ hs'[g].op \in {"terminate", "clear"}
        \/ hs'[g].op = "trigger" /\ ~hs'[g].found
        \/ hs'[g].pc = "return" /\ hs'[g].op = "flush"
    BY <1>1 DEF MustEnd
  <2>2. hs'[g].pc = "return" /\ hs'[g].todo # <<>>
    BY <2>1 DEF Asked, AsksContinuous, AsksDebounce, AsksTask, AsksFor, Unless
  <2>3. Purges(g)
    BY <2>2 DEF Comes, AnswersOnly, Refuses, CreatesNew, WorksOn
  <2> QED
    BY <2>3, EndingPends DEF Purges
<1>3. WillStay(g)'
  <2> SUFFICES ASSUME MustStay(g)'
               PROVE  ~Pending(g, "all")' /\ (store.meta # Absent \/ Creates(g)')
    BY <1>1 DEF WillStay
  <2>1. /\ def.type = "continuous"
        /\ hs'[g].op = "start" \/ (hs'[g].op = "trigger" /\ hs'[g].found)
    BY <1>1 DEF MustStay
  <2>2. \/ hs'[g].pc = "started" /\ hs'[g].created
        \/ hs'[g].pc = "return" /\ hs'[g].todo = <<>> /\ store.meta # Absent
        \/ hs'[g].pc = "execute" /\ store.meta # Absent
    BY <2>1 DEF Asked, AsksContinuous, AsksFor
  <2>3. CASE Purges(g)
    <3>1. hs'[g].pc = "return" /\ Ending(hs'[g].todo)
      BY <2>3 DEF Purges
    <3> QED
      BY <2>2, <3>1, EndingsAreWrites
  <2>4. CASE ~Purges(g)
    <3>1. ~Pending(g, "all")'
      BY <2>4, ComesWrites DEF Bringing, Pending
    <3>2. CASE store.meta # Absent
      BY <3>1, <3>2
    <3>3. CASE store.meta = Absent
      <4>1. CreatesNew(g)
        BY <2>2, <2>4, <3>3 DEF Comes, AnswersOnly, Refuses, WorksOn
      <4>2. /\ hs'[g].todo \in Seq(Writes) /\ hs'[g].todo # <<>>
            /\ hs'[g].todo[1].key = "meta"
        BY <4>1 DEF CreatesNew
      <4>3. Creates(g)'
        BY <4>2, Members DEF Creates
      <4> QED
        BY <3>1, <4>3
    <3> QED
      BY <3>2, <3>3
  <2> QED
    BY <2>3, <2>4
<1>4. WillTry(g)'
  BY <1>1 DEF WillTry
<1> QED
  BY <1>2, <1>3, <1>4 DEF Tells

LEMMA PerformingTells ==
    ASSUME DataOK, HandlersOK, WritesOK, GoneOK, NEW g \in Requests, Performs(g),
           Lonely(g), Serves(g), Tells(g)
    PROVE  Tells(g)'
<1> DEFINE w == write(g, 1)
<1>1. /\ g \in Handlers /\ Drops(g, 1) /\ 1 \in DOMAIN hs[g].todo /\ hs[g].todo # <<>>
      /\ Head(hs[g].todo) = w
      /\ hs'[g].op = hs[g].op /\ hs'[g].found = hs[g].found
      /\ hs'[g].pc = hs[g].pc /\ hs'[g].result = hs[g].result /\ def' = def
  BY HandlerKinds, MetaStays DEF Performs, Drops
<1>2. \A i \in DOMAIN hs[g].todo : 
         i = 1 \/ \E j \in DOMAIN hs'[g].todo : hs'[g].todo[j] = hs[g].todo[i]
  <2>1. \A i \in DOMAIN hs[g].todo : i \in 1 .. 1 \/ i > 1
    BY <1>1, PendsOn
  <2> QED
    BY <1>1, <2>1, PendsOn
<1>3. \A j \in DOMAIN hs'[g].todo : 
         \E i \in DOMAIN hs[g].todo : hs'[g].todo[j] = hs[g].todo[i]
  BY <1>1 DEF Drops
<1>4. store.meta = Absent => w.key = "meta"
  <2> SUFFICES ASSUME store.meta = Absent PROVE w.key = "meta"
    OBVIOUS
  <2>1. Active(g) /\ ~hs[g].shared
    BY DEF Lonely
  <2>2. Quietly(g)
    BY <1>1, Gones
  <2>3. Creates(g)
    BY <1>1, <2>1, <2>2 DEF Quietly, Harmless
  <2> QED
    BY <1>1, <2>3 DEF Creates
<1>5. w.key = "all" => store'.meta = Absent
  BY <1>1, MetaStays
<1>6. w.key # "all" => store'.meta # Absent
  BY <1>1, <1>4, MetaStays
<1>7. WillEnd(g)'
  <2> SUFFICES ASSUME MustEnd(g)' PROVE Pending(g, "all")' \/ store'.meta = Absent
    BY DEF WillEnd
  <2>1. MustEnd(g)
    BY <1>1 DEF MustEnd
  <2>2. store.meta # Absent
    <3> SUFFICES ASSUME store.meta = Absent PROVE FALSE
      OBVIOUS
    <3>1. w.key = "meta" /\ hs[g].created
      BY <1>1, <1>4, Orders DEF Ordered
    <3>2. Pending(g, "meta")
      BY <1>1, <3>1 DEF Pending, write
    <3> QED
      BY <2>1, <3>1, <3>2 DEF Serves, Lonely, MustEnd, ForNew
  <2>3. Pending(g, "all")
    BY <2>1, <2>2 DEF Tells, WillEnd
  <2>4. PICK i \in DOMAIN hs[g].todo : hs[g].todo[i].key = "all"
    BY <2>3 DEF Pending
  <2>5. CASE i = 1
    BY <1>5, <2>4, <2>5 DEF write
  <2>6. CASE i # 1
    BY <1>2, <2>4, <2>6 DEF Pending
  <2> QED
    BY <2>5, <2>6
<1>8. WillStay(g)'
  <2> SUFFICES ASSUME MustStay(g)' PROVE ~Pending(g, "all")' /\ store'.meta # Absent
    BY DEF WillStay
  <2>1. MustStay(g)
    BY <1>1 DEF MustStay
  <2>2. ~Pending(g, "all")
    BY <2>1 DEF Tells, WillStay
  <2>3. w.key # "all" /\ ~Pending(g, "all")'
    BY <1>1, <1>3, <2>2 DEF Pending, write
  <2> QED
    BY <1>6, <2>3
<1>9. WillTry(g)'
  <2> SUFFICES ASSUME hs'[g].result = "retryScheduled"
               PROVE  /\ store'.attempt # Absent
                           \/ \E i \in DOMAIN hs'[g].todo : Counts(g, i)'
                      /\ \A i \in DOMAIN hs'[g].todo :
                            /\ write(g, i)'.key = "attempt" => Counts(g, i)'
                            /\ write(g, i)'.key # "all"
    BY DEF WillTry
  <2>1. /\ store.attempt # Absent \/ \E i \in DOMAIN hs[g].todo : Counts(g, i)
        /\ \A i \in DOMAIN hs[g].todo :
              /\ hs[g].todo[i].key = "attempt" => hs[g].todo[i].val # Absent
              /\ hs[g].todo[i].key # "all"
    BY <1>1 DEF Tells, WillTry, Counts, write
  <2>2. \A i \in DOMAIN hs'[g].todo :
           /\ hs'[g].todo[i].key = "attempt" => hs'[g].todo[i].val # Absent
           /\ hs'[g].todo[i].key # "all"
    BY <1>3, <2>1
  <2>3. \A i \in DOMAIN hs'[g].todo :
           /\ write(g, i)' = hs'[g].todo[i]
           /\ Counts(g, i)' <=> /\ hs'[g].todo[i].key = "attempt"
                                /\ hs'[g].todo[i].val # Absent
    BY DEF write, Counts
  <2>4. \A i \in DOMAIN hs[g].todo :
           Counts(g, i) => i = 1 \/ \E j \in DOMAIN hs'[g].todo : Counts(g, j)'
    BY <1>2, <2>3 DEF Counts, write
  <2>5. w.key # "all" /\ (w.key = "attempt" => w.val # Absent)
    BY <1>1, <2>1 DEF write
  <2>6. /\ w.key = "attempt" => store'.attempt = w.val
        /\ w.key # "attempt" => store'.attempt = store.attempt
    BY <1>1, <2>5, MetaStays
  <2>7. Counts(g, 1) => w.key = "attempt"
    BY DEF Counts
  <2> QED
    BY <2>1, <2>2, <2>3, <2>4, <2>5, <2>6, <2>7
<1> QED
  BY <1>7, <1>8, <1>9 DEF Tells

LEMMA TellsOn ==
    ASSUME NEW g, Tells(g), def' = def, hs'[g] = hs[g],
           store'.meta = store.meta, store'.attempt = store.attempt
    PROVE  Tells(g)'
<1>1. /\ Pending(g, "all")' <=> Pending(g, "all")
      /\ Creates(g)' <=> Creates(g)
      /\ MustEnd(g)' <=> MustEnd(g)
      /\ MustStay(g)' <=> MustStay(g)
      /\ \A i : write(g, i)' = write(g, i) /\ (Counts(g, i)' <=> Counts(g, i))
  BY DEF Pending, Creates, MustEnd, MustStay, write, Counts
<1> QED
  BY <1>1 DEF Tells, WillEnd, WillStay, WillTry

LEMMA AnswerStays ==
    ASSUME DataOK, HandlersOK, WritesOK, GoneOK, GuardOK, ServesOK, AnswerOK,
           HandlersOK', Changes, Steps
    PROVE  AnswerOK'
<1>1. Unarmed'
  BY UnarmedStays, Telling
<1> SUFFICES ASSUME NEW g \in Requests, Lonely(g)' PROVE Tells(g)'
  BY <1>1, TellingNext
<1>2. g \in Handlers /\ Serves(g) /\ (Lonely(g) => Tells(g))
  BY Serving, Telling, HandlerKinds
<1>3. ~Faulty
  BY DEF Faulty, Lonely, Undisturbed
<1>4. ASSUME NEW h \in Handlers, GoesOn(h) PROVE Tells(g)'
  <2>1. /\ Moves(h, hs[h].pc, hs'[h].pc) /\ hist'.raced = hist.raced
        /\ hist'.half = hist.half /\ Active(h) /\ Active(h)'
    BY <1>4, GoesOnMoves DEF Unhistoric, Discards, Issues, FlushEnds, Active
  <2>2. g = h
    BY <1>2, <2>1, OnlyOne DEF Lonely, HandlersOK
  <2>3. Lonely(g)
    BY <2>1, <2>2 DEF Lonely, Undisturbed, Moves
  <2> QED
    BY <1>2, <1>4, <2>2, <2>3, GoingOnTells
<1>5. ASSUME NEW h \in Handlers, Arrives(h) PROVE Tells(g)'
  <2>1. Begins(h) /\ Comes(h)
    BY <1>5, ComesBegins DEF Arrives
  <2>2. g = h
    BY <1>2, <2>1 DEF Begins, Lonely, Active
  <2>3. def.type # "workerPool"
    BY <2>1 DEF Begins, Lonely
  <2> QED
    BY <1>5, <2>1, <2>2, <2>3, ComingTells DEF Arrives
<1>6. ASSUME NEW h \in Handlers, Performs(h) PROVE Tells(g)'
  <2>1. /\ Drops(h, 1) /\ hist'.half = hist.half /\ (hist.raced => hist'.raced)
        /\ budget' = budget /\ Active(h)
    BY <1>6, MetaStays DEF Performs
  <2>2. g = h
    <3>1. Active(h)'
      BY <2>1 DEF Drops, Active
    <3> QED
      BY <1>2, <3>1 DEF Lonely, HandlersOK
  <2>3. Lonely(g)
    BY <2>1, <2>2 DEF Lonely, Undisturbed, Drops, Active
  <2> QED
    BY <1>2, <1>6, <2>2, <2>3, PerformingTells
<1>7. ASSUME NEW h \in Handlers, Leaves(h) PROVE Tells(g)'
  <2>1. Active(h) /\ ~Active(h)'
    BY <1>7, IdleIs DEF Leaves, Active
  <2>2. g # h /\ hs'[g] = hs[g]
    BY <1>2, <1>7, <2>1 DEF Lonely, Leaves
  <2> QED
    BY <1>2, <2>1, <2>2, OnlyOne DEF Lonely, Active
<1>8. ASSUME AlarmIsLost \/ Ticks PROVE Tells(g)'
  <2>1. /\ hs' = hs /\ hist' = hist /\ budget' = budget /\ def' = def
        /\ store'.meta = store.meta /\ store'.attempt = store.attempt
    BY <1>8 DEF AlarmIsLost, Ticks, DataOK, StoreState
  <2>2. Lonely(g)
    BY <2>1 DEF Lonely, Undisturbed, Active
  <2> QED
    BY <1>2, <2>1, <2>2, TellsOn
<1>9. CASE Elsewise
  BY <1>3, <1>4, <1>6, <1>7, <1>8, <1>9
  DEF Elsewise, Skips, Returns, Fails, Breaks, Crashes
<1> QED
  BY <1>5, <1>9 DEF Steps

-----------------------------------------------------------------------------
(* The answers are true.                                                   *)

Answering == Lasting /\ ServesOK /\ AnswerOK

LEMMA AnsweringAtFirst == Init => Answering
<1> SUFFICES ASSUME Init PROVE Answering
  OBVIOUS
<1>1. Lasting
  BY LastingAtFirst
<1>2. alarm = Absent /\ \A h \in Handlers : ~Active(h)
  BY IdleIs DEF Init, Active
<1>3. \A h \in Requests : ~Active(h)
  BY <1>2, HandlerKinds
<1>4. ServesOK
  BY <1>3 DEF ServesOK
<1>5. AnswerOK
  BY <1>2, <1>3 DEF AnswerOK
<1> QED
  BY <1>1, <1>4, <1>5 DEF Answering

LEMMA AnsweringStays == Answering /\ [Next]_vars => Answering'
<1> SUFFICES ASSUME Answering, [Next]_vars PROVE Answering'
  OBVIOUS
<1>1. /\ Lasting' /\ HandlersOK' /\ DataOK /\ HandlersOK /\ WritesOK /\ GoneOK
      /\ GuardOK /\ ServesOK /\ AnswerOK
  BY LastingStays DEF Answering, Lasting, Safe
<1>2. CASE Next
  <2>1. Changes /\ Steps
    BY <1>1, <1>2, NextSteps
  <2> QED
    BY <1>1, <2>1, ServesStays, AnswerStays DEF Answering
<1>3. CASE UNCHANGED vars
  <2>1. /\ def' = def /\ store' = store /\ alarm' = alarm /\ hs' = hs
        /\ budget' = budget /\ hist' = hist
    BY <1>3, StutteringJob
  <2>2. ServesOK'
    BY <1>1, <2>1, Serving, ServingNext, ServesOn
  <2>3. AnswerOK'
    <3>1. Unarmed' /\ \A h \in Requests : Lonely(h)' => Lonely(h)
      BY <1>1, <2>1, Telling DEF Unarmed, Undisturbed, Lonely, Active
    <3>2. \A h \in Requests : Tells(h) => Tells(h)'
      BY <2>1, TellsOn
    <3> QED
      BY <1>1, <3>1, <3>2, Telling, TellingNext
  <2> QED
    BY <1>1, <2>2, <2>3 DEF Answering
<1> QED
  BY <1>2, <1>3

(* What a request asked for is what it is told about, and a request that   *)
(* runs alone leaves the job as its answer will say, once its writes are   *)
(* made.                                                                   *)
THEOREM JobAnswers == Spec => []Answering
BY AnsweringAtFirst, AnsweringStays, PTL DEF Spec

(* The requests that come to an answer, by the type of the job.            *)
LEMMA AnswersTo ==
    ASSUME DataOK, HandlersOK, ServesOK, NEW g \in Requests, Answers(g)
    PROVE  /\ def.type = "continuous" => hs[g].op \in {"start", "trigger", "terminate"}
           /\ def.type = "debounce" => hs[g].op \in {"add", "flush", "clear"}
           /\ def.type = "task" => hs[g].op \in {"send", "trigger", "terminate"}
           /\ def.type # "workerPool" /\ Active(g) /\ hs[g].todo = <<>>
           /\ hs[g].op = "start" /\ ~hs[g].created
                 => store.meta # Absent /\ hs[g].result = "none"
<1>1. Active(g) /\ hs[g].todo = <<>> /\ hs[g].pc = "return"
  BY DEF Answers, Active
<1>2. def.type # "workerPool"
  BY <1>1, HandlerKinds DEF HandlersOK
<1>3. Serves(g)
  BY Serving
<1>4. Requesting(hs[g].op) /\ (Finds(g) => store.meta # Absent /\ hs[g].result = "none")
  BY <1>1, <1>2, <1>3 DEF Serves
<1> QED
  BY <1>1, <1>2, <1>4
  DEF Finds, Requesting, JobRequest, ContinuousRequest, DebounceRequest, TaskRequest,
      WorkerPoolRequest, ContinuousClient, DebounceClient, TaskClient, Reads

(* What is so when a request answers that ran alone, while nothing failed. *)
AnswerTrue(g) ==
    /\ store.meta = Absent => Gone
    /\ MustEnd(g) => Gone
    /\ MustStay(g) => store.meta # Absent
    /\ def.type \in {"continuous", "debounce"} /\ store.meta # Absent => alarm # Absent
    /\ def.type = "continuous" /\ store.meta # Absent => store.meta = "running"
    /\ hs[g].result = "retryScheduled" => store.attempt # Absent /\ store.meta # Absent
    /\ def.type = "task" /\ NothingFailed /\ alarm # Absent => store.scheduledAt # Absent

LEMMA AnswersWell ==
    ASSUME Answering, NEW g \in Requests, Answers(g), ~hs[g].shared, Undisturbed,
           ~hist.half
    PROVE  AnswerTrue(g)
<1>1. /\ DataOK /\ HandlersOK /\ GoneOK /\ GuardOK /\ RecordOK /\ ServesOK /\ AnswerOK
      /\ g \in Handlers /\ ~hist.raced
  BY HandlerKinds DEF Answering, Lasting, Safe, Undisturbed
<1>2. /\ def.type # "workerPool" /\ Active(g) /\ hs[g].todo = <<>>
      /\ hs[g].pc = "return"
  BY <1>1, AnswersTo DEF Answers
<1>3. \A h \in Handlers : h # g => hs[h] = Idle
  BY <1>1, <1>2 DEF HandlersOK
<1>4. \A h \in Handlers : hs[h].todo = <<>>
  BY <1>2, <1>3, IdleIs
<1>5. \A h \in Handlers : ~Guards(h)
  <2> TAKE h \in Handlers
  <2>1. ~Pending(h, "all") /\ ~Sets(h)
    BY <1>1, <1>4, NoWrites
  <2>2. hs[h].pc \in {"return", "idle"}
    BY <1>2, <1>3, IdleIs
  <2> QED
    BY <2>1, <2>2 DEF Guards
<1>6. \A h \in Handlers : ~Starts(h)
  BY <1>2, <1>3, IdleIs DEF Starts
<1>7. /\ store.meta = Absent => store = Empty /\ alarm = Absent
      /\ Lonely(g)
  BY <1>1, <1>2, Telling, Gones DEF Leaving, Unarmed, Lonely
<1>8. Tells(g) /\ ~Pending(g, "all") /\ DOMAIN hs[g].todo = {}
  BY <1>1, <1>2, <1>7, Telling, NoWrites, EmptySeq
<1>9. /\ MustEnd(g) => store.meta = Absent
      /\ MustStay(g) => store.meta # Absent
      /\ hs[g].result = "retryScheduled" => store.attempt # Absent
  BY <1>2, <1>8 DEF Tells, WillEnd, WillStay, WillTry, Creates
<1>10. Empty.attempt = Absent
  BY DEF Empty
<1>11. /\ def.type \in {"continuous", "debounce"} /\ store.meta # Absent
              => alarm # Absent
       /\ def.type = "continuous" /\ store.meta # Absent => store.meta # "initializing"
  BY <1>1, <1>5, <1>6, <1>7, GuardIs DEF Guarded, GuardKept, Lonely
<1>12. store.meta \in {Absent, "initializing", "running"}
  BY <1>1 DEF DataOK, StoreState
<1>13. def.type = "task" /\ NothingFailed /\ alarm # Absent => store.scheduledAt # Absent
  BY <1>1, <1>4 DEF RecordOK, NextIs
<1> QED
  BY <1>7, <1>9, <1>10, <1>11, <1>12, <1>13 DEF AnswerTrue, Gone

LEMMA ContinuousAnswers ==
    ASSUME DataOK, HandlersOK, ServesOK, def.type = "continuous", Continuous,
           NEW g \in Requests, Answers(g), AnswerTrue(g)
    PROVE  ContinuousAnswer(continuousResponse(g))
<1> DEFINE r == continuousResponse(g)
<1>1. /\ hs[g].op \in {"start", "trigger", "terminate"}
      /\ hs[g].op = "start" /\ ~hs[g].created
            => store.meta # Absent /\ hs[g].result = "none"
  BY AnswersTo
<1>2. Told = continuousRead("status")
  BY DefinitionIs DEF DataOK, Told, read
<1>3. /\ Told.status = IF store.meta # Absent THEN store.meta ELSE "not_found"
      /\ Told.nextRunAt = IF store.meta # Absent THEN alarm ELSE Absent
  BY <1>2 DEF continuousRead
<1>4. CASE hs[g].op = "start"
  <2>1. /\ r.action = "start"
        /\ r.status = IF hs[g].result = "terminated" THEN "terminated"
                      ELSE IF hs[g].created THEN "running" ELSE store.meta
    BY <1>4 DEF continuousResponse
  <2> HIDE DEF r
  <2>2. CASE hs[g].result = "terminated"
    <3>1. MustEnd(g)
      BY <2>2 DEF MustEnd
    <3> QED
      BY <2>1, <2>2, <3>1 DEF ContinuousAnswer, AnswerTrue, r
  <2>3. CASE hs[g].result # "terminated"
    <3>1. MustStay(g)
      BY <1>4, <2>3 DEF MustStay
    <3>2. store.meta = "running" /\ alarm # Absent /\ store.meta # Absent
      BY <3>1 DEF AnswerTrue
    <3>3. r.status = "running"
      BY <2>1, <2>3, <3>2
    <3> QED
      BY <1>3, <2>1, <3>2, <3>3 DEF ContinuousAnswer, r
  <2> QED
    BY <2>2, <2>3 DEF r
<1>5. CASE hs[g].op = "trigger"
  <2>1. /\ r.action = "trigger" /\ (r.triggered <=> hs[g].found)
        /\ r.terminated <=> hs[g].result = "terminated"
        /\ r.retryScheduled <=> hs[g].result = "retryScheduled"
    BY <1>5 DEF continuousResponse
  <2> HIDE DEF r
  <2>2. /\ hs[g].found /\ hs[g].result # "terminated" => MustStay(g)
        /\ ~hs[g].found \/ hs[g].result = "terminated" => MustEnd(g)
    BY <1>5 DEF MustStay, MustEnd
  <2>3. /\ r.triggered /\ ~r.terminated => alarm # Absent
        /\ r.retryScheduled => store.attempt # Absent
        /\ ~r.triggered \/ r.terminated => Gone
    BY <2>1, <2>2 DEF AnswerTrue
  <2> QED
    BY <2>1, <2>3 DEF ContinuousAnswer, r
<1>6. CASE hs[g].op = "terminate"
  <2>1. r.action = "terminate" /\ MustEnd(g)
    BY <1>6 DEF continuousResponse, MustEnd
  <2> QED
    BY <2>1 DEF ContinuousAnswer, AnswerTrue
<1> QED
  BY <1>1, <1>4, <1>5, <1>6

LEMMA DebounceAnswers ==
    ASSUME DataOK, HandlersOK, ServesOK, def.type = "debounce",
           NEW g \in Requests, Answers(g), AnswerTrue(g)
    PROVE  DebounceAnswer(debounceResponse(g))
<1> DEFINE r == debounceResponse(g)
<1>1. hs[g].op \in {"add", "flush", "clear"} /\ hs[g].pc = "return"
  BY AnswersTo DEF Answers
<1>2. hs[g].result \in {"none", "success", "retryScheduled", "terminated"}
  BY HandlerKinds DEF HandlersOK, HandlerState
<1>3. CASE hs[g].op = "add"
  <2>1. /\ r.action = "add"
        /\ r.retryScheduled <=> hs[g].result = "retryScheduled"
        /\ r.willFlushAt = IF hs[g].result # "none" /\ hs[g].result # "retryScheduled"
                           THEN Absent ELSE alarm
    BY <1>3 DEF debounceResponse
  <2> HIDE DEF r
  <2>2. r.retryScheduled => store.attempt # Absent /\ alarm # Absent
    BY <2>1 DEF AnswerTrue
  <2>3. ASSUME r.willFlushAt = Absent PROVE Gone
    <3>1. CASE hs[g].result \in {"success", "terminated"}
      <4>1. MustEnd(g)
        BY <1>1, <1>3, <3>1 DEF MustEnd
      <4> QED
        BY <4>1 DEF AnswerTrue
    <3>2. CASE hs[g].result \in {"none", "retryScheduled"}
      BY <2>1, <2>3, <3>2 DEF AnswerTrue
    <3> QED
      BY <1>2, <3>1, <3>2
  <2> QED
    BY <2>1, <2>2, <2>3 DEF DebounceAnswer, r
<1>4. CASE hs[g].op = "flush"
  <2>1. r.action = "flush" /\ (r.retryScheduled <=> hs[g].result = "retryScheduled")
    BY <1>4 DEF debounceResponse
  <2> HIDE DEF r
  <2>2. hs[g].result # "retryScheduled" => MustEnd(g)
    BY <1>1, <1>4 DEF MustEnd
  <2>3. IF r.retryScheduled THEN store.attempt # Absent /\ alarm # Absent ELSE Gone
    BY <2>1, <2>2 DEF AnswerTrue
  <2> QED
    BY <2>1, <2>3 DEF DebounceAnswer, r
<1>5. CASE hs[g].op = "clear"
  <2>1. r.action = "clear" /\ MustEnd(g)
    BY <1>5 DEF debounceResponse, MustEnd
  <2> QED
    BY <2>1 DEF DebounceAnswer, AnswerTrue
<1> QED
  BY <1>1, <1>3, <1>4, <1>5

LEMMA TaskAnswers ==
    ASSUME DataOK, HandlersOK, ServesOK, def.type = "task",
           NEW g \in Requests, Answers(g), AnswerTrue(g)
    PROVE  TaskAnswer(taskResponse(g))
<1> DEFINE r == taskResponse(g)
<1>1. hs[g].op \in {"send", "trigger", "terminate"}
  BY AnswersTo
<1>2. CASE hs[g].op = "send"
  <2>1. r.action = "send" /\ r.scheduledAt = store.scheduledAt
    BY <1>2 DEF taskResponse
  <2> HIDE DEF r
  <2> QED
    BY <2>1 DEF TaskAnswer, AnswerTrue, r
<1>3. CASE hs[g].op = "trigger"
  <2>1. r.action = "trigger" /\ (r.triggered <=> hs[g].found)
    BY <1>3 DEF taskResponse
  <2> HIDE DEF r
  <2>2. ~hs[g].found => MustEnd(g)
    BY <1>3 DEF MustEnd
  <2>3. r.triggered \/ Gone
    BY <2>1, <2>2 DEF AnswerTrue
  <2> QED
    BY <2>1, <2>3 DEF TaskAnswer, r
<1>4. CASE hs[g].op = "terminate"
  <2>1. r.action = "terminate" /\ MustEnd(g)
    BY <1>4 DEF taskResponse, MustEnd
  <2> QED
    BY <2>1 DEF TaskAnswer, AnswerTrue
<1> QED
  BY <1>1, <1>2, <1>3, <1>4

(* The answer of a request that ran alone is true when it is given, unless *)
(* something failed or a purge overtook a handler: the continuousResponse, *)
(* debounceResponse and taskResponse of a job that is said to run, to be   *)
(* tried again, or to be gone.                                             *)
THEOREM AnswersHold == Spec => []AnswersAreTrue
<1>1. ASSUME Answering PROVE AnswersAreTrue
  <2> SUFFICES ASSUME NEW g \in Requests, Answers(g), ~hs[g].shared, Undisturbed,
                      ~hist.half
               PROVE  CASE Continuous -> ContinuousAnswer(response(g))
                        [] Debounce   -> DebounceAnswer(response(g))
                        [] Task       -> TaskAnswer(response(g))
    BY DEF AnswersAreTrue, Undisturbed
  <2>1. DataOK /\ HandlersOK /\ ServesOK
    BY <1>1 DEF Answering, Lasting, Safe
  <2>2. AnswerTrue(g)
    BY <1>1, AnswersWell
  <2>3. /\ Continuous <=> def.type = "continuous"
        /\ Debounce <=> def.type = "debounce"
        /\ Task <=> def.type = "task"
        /\ def.type \in {"continuous", "debounce", "task", "workerPool"}
    BY <2>1, DefinitionIs DEF DataOK
  <2>4. def.type # "workerPool"
    BY <2>1, AnswersTo
  <2>5. CASE def.type = "continuous"
    <3>1. response(g) = continuousResponse(g)
      BY <2>3, <2>5 DEF response
    <3>2. ContinuousAnswer(continuousResponse(g))
      BY <2>1, <2>2, <2>3, <2>5, ContinuousAnswers
    <3> QED
      BY <2>3, <2>5, <3>1, <3>2
  <2>6. CASE def.type = "debounce"
    <3>1. response(g) = debounceResponse(g)
      BY <2>3, <2>6 DEF response
    <3>2. DebounceAnswer(debounceResponse(g))
      BY <2>1, <2>2, <2>6, DebounceAnswers
    <3> QED
      BY <2>3, <2>6, <3>1, <3>2
  <2>7. CASE def.type = "task"
    <3>1. response(g) = taskResponse(g)
      BY <2>3, <2>7 DEF response
    <3>2. TaskAnswer(taskResponse(g))
      BY <2>1, <2>2, <2>7, TaskAnswers
    <3> QED
      BY <2>3, <2>7, <3>1, <3>2
  <2> QED
    BY <2>3, <2>4, <2>5, <2>6, <2>7
<1> QED
  BY <1>1, JobAnswers, PTL

-----------------------------------------------------------------------------
(* Types.                                                                  *)

(* What is stored, as it is read.                                          *)
LEMMA StoredTypes ==
    ASSUME DataOK
    PROVE  /\ store.meta \in {Absent, "initializing", "running"}
           /\ store.state \in {Absent} \union SUBSET Ids
           /\ store.state \in Maybe(SUBSET Nat)
           /\ store.count \in {Absent} \union 0 .. MaxCount
           /\ store.attempt \in {Absent} \union 2 .. def.retry.maxAttempts
           /\ store.age \in {Absent} \union 0 .. def.retry.maxDuration
           /\ store.scheduledAt \in Maybe({TRUE}) /\ store.other \in Maybe({TRUE})
           /\ alarm \in Maybe(Nat) /\ Count \in Nat
<1>1. store \in StoreState /\ (alarm = Absent \/ alarm \in Nat)
  BY DEF DataOK
<1>2. /\ store.meta \in {Absent, "initializing", "running"}
      /\ store.state \in {Absent} \union SUBSET Ids
      /\ store.count \in {Absent} \union 0 .. MaxCount
      /\ store.attempt \in {Absent} \union 2 .. def.retry.maxAttempts
      /\ store.age \in {Absent} \union 0 .. def.retry.maxDuration
      /\ store.scheduledAt \in {Absent, TRUE} /\ store.other \in {Absent, TRUE}
  BY <1>1 DEF StoreState
<1>3. Ids \subseteq Nat
  BY BoundsAreNumbers DEF BoundsAreNumbers, Ids
<1>4. store.state \in Maybe(SUBSET Nat)
  BY <1>2, <1>3 DEF Maybe
<1>5. Count \in Nat
  <2>1. 0 .. MaxCount \subseteq Nat
    BY BoundsAreNumbers DEF BoundsAreNumbers
  <2> QED
    BY <1>2, <2>1 DEF Count
<1> QED
  BY <1>1, <1>2, <1>4, <1>5 DEF Maybe

LEMMA ReadsAreAnswers ==
    ASSUME DataOK, def.type # "workerPool"
    PROVE  \A action \in Reads : read(action) \in JobResponse
<1>1. /\ store.meta \in {Absent, "initializing", "running"}
      /\ store.state \in Maybe(SUBSET Nat) /\ store.scheduledAt \in Maybe({TRUE})
      /\ alarm \in Maybe(Nat) /\ Count \in Maybe(Nat) /\ Absent \in Maybe(Nat)
      /\ Absent \in Maybe({TRUE}) /\ Absent \in Maybe(SUBSET Nat)
  BY StoredTypes DEF Maybe
<1>2. /\ Continuous <=> def.type = "continuous"
      /\ Debounce <=> def.type = "debounce"
      /\ Task <=> def.type = "task"
      /\ def.type \in {"continuous", "debounce", "task", "workerPool"}
  BY DefinitionIs DEF DataOK
<1>3. CASE def.type = "continuous"
  <2>1. \A action : read(action) = continuousRead(action)
    BY <1>2, <1>3 DEF read
  <2>2. continuousRead("status") \in ContinuousResponse
    BY <1>1 DEF continuousRead, ContinuousResponse, JobStatus
  <2>3. continuousRead("getState") \in ContinuousResponse
    BY <1>1 DEF continuousRead, ContinuousResponse
  <2> QED
    BY <2>1, <2>2, <2>3 DEF Reads, JobResponse
<1>4. CASE def.type = "debounce"
  <2>1. \A action : read(action) = debounceRead(action)
    BY <1>2, <1>4 DEF read
  <2>2. debounceRead("status") \in DebounceResponse
    BY <1>1 DEF debounceRead, DebounceResponse
  <2>3. debounceRead("getState") \in DebounceResponse
    BY <1>1 DEF debounceRead, DebounceResponse
  <2> QED
    BY <2>1, <2>2, <2>3 DEF Reads, JobResponse
<1>5. CASE def.type = "task"
  <2>1. \A action : read(action) = taskRead(action)
    BY <1>2, <1>5 DEF read
  <2>2. taskRead("status") \in TaskResponse
    BY <1>1 DEF taskRead, TaskResponse
  <2>3. taskRead("getState") \in TaskResponse
    BY <1>1 DEF taskRead, TaskResponse
  <2> QED
    BY <2>1, <2>2, <2>3 DEF Reads, JobResponse
<1> QED
  BY <1>2, <1>3, <1>4, <1>5

LEMMA AnswersAreAnswers ==
    ASSUME DataOK, HandlersOK, ServesOK, NEW g \in Requests, Answers(g)
    PROVE  /\ response(g) \in JobResponse
           /\ response(g).type = def.type /\ response(g).action = hs[g].op
<1>1. /\ def.type = "continuous" => hs[g].op \in {"start", "trigger", "terminate"}
      /\ def.type = "debounce" => hs[g].op \in {"add", "flush", "clear"}
      /\ def.type = "task" => hs[g].op \in {"send", "trigger", "terminate"}
      /\ def.type # "workerPool"
      /\ hs[g].op = "start" /\ ~hs[g].created => store.meta # Absent
  BY AnswersTo
<1>2. hs[g].found \in BOOLEAN /\ hs[g].created \in BOOLEAN
  BY HandlerKinds DEF HandlersOK, HandlerState
<1>3. /\ store.meta \in {Absent, "initializing", "running"}
      /\ store.scheduledAt \in Maybe({TRUE})
      /\ alarm \in Maybe(Nat) /\ Absent \in Maybe(Nat)
  BY StoredTypes DEF Maybe
<1>4. /\ Continuous <=> def.type = "continuous"
      /\ Debounce <=> def.type = "debounce"
      /\ Task <=> def.type = "task"
      /\ def.type \in {"continuous", "debounce", "task", "workerPool"}
  BY DefinitionIs DEF DataOK
<1>5. CASE def.type = "continuous"
  <2>1. response(g) = continuousResponse(g)
    BY <1>4, <1>5 DEF response
  <2>2. CASE hs[g].op = "start"
    BY <1>1, <1>2, <1>3, <1>5, <2>1, <2>2
    DEF continuousResponse, ContinuousResponse, JobResponse, JobStatus
  <2>3. CASE hs[g].op = "trigger"
    BY <1>2, <1>5, <2>1, <2>3 DEF continuousResponse, ContinuousResponse, JobResponse
  <2>4. CASE hs[g].op = "terminate"
    BY <1>2, <1>5, <2>1, <2>4 DEF continuousResponse, ContinuousResponse, JobResponse
  <2> QED
    BY <1>1, <1>5, <2>2, <2>3, <2>4
<1>6. CASE def.type = "debounce"
  <2>1. response(g) = debounceResponse(g)
    BY <1>4, <1>6 DEF response
  <2>2. CASE hs[g].op = "add"
    BY <1>2, <1>3, <1>6, <2>1, <2>2 DEF debounceResponse, DebounceResponse, JobResponse
  <2>3. CASE hs[g].op = "flush"
    BY <1>2, <1>6, <2>1, <2>3 DEF debounceResponse, DebounceResponse, JobResponse
  <2>4. CASE hs[g].op = "clear"
    BY <1>2, <1>6, <2>1, <2>4 DEF debounceResponse, DebounceResponse, JobResponse
  <2> QED
    BY <1>1, <1>6, <2>2, <2>3, <2>4
<1>7. CASE def.type = "task"
  <2>1. response(g) = taskResponse(g)
    BY <1>4, <1>7 DEF response
  <2>2. CASE hs[g].op = "send"
    BY <1>2, <1>3, <1>7, <2>1, <2>2 DEF taskResponse, TaskResponse, JobResponse
  <2>3. CASE hs[g].op = "trigger"
    BY <1>2, <1>7, <2>1, <2>3 DEF taskResponse, TaskResponse, JobResponse
  <2>4. CASE hs[g].op = "terminate"
    BY <1>2, <1>7, <2>1, <2>4 DEF taskResponse, TaskResponse, JobResponse
  <2> QED
    BY <1>1, <1>7, <2>2, <2>3, <2>4
<1> QED
  BY <1>1, <1>4, <1>5, <1>6, <1>7

(* Every variable of the jobs model keeps to its type, and what a job      *)
(* answers, status and getState included, is an answer of its own kind to  *)
(* the request that was made: the client's narrowResponse never fails.     *)
THEOREM JobTypes == Spec => []TypeOK
<1>1. ASSUME Answering PROVE TypeOK
  <2>1. DataOK /\ HandlersOK /\ ServesOK /\ def \in Definitions
    BY <1>1 DEF Answering, Lasting, Safe, DataOK
  <2>2. \A h \in Handlers :
           /\ hs[h].id \in 0 .. MaxIds
           /\ hs[h].plan \in Plans
           /\ hs[h].result \in {"none", "success", "retryScheduled", "terminated"}
    BY <2>1 DEF HandlersOK, HandlerState
  <2>3. ASSUME NEW h \in Handlers, NEW i \in DOMAIN hs[h].todo,
               hs[h].todo[i].key = "event"
        PROVE  hs[h].todo[i].val \in JobEvent
    <3>1. hs[h].todo[i] \in Writes
      BY <2>1, Typed, Members
    <3> QED
      BY <2>3, <3>1 DEF Writes
  <2>4. ASSUME NEW h \in Requests, Answers(h)
        PROVE  /\ response(h) \in JobResponse
               /\ narrowResponse(response(h), [type |-> def.type, action |-> hs[h].op])
    BY <2>1, <2>4, AnswersAreAnswers DEF narrowResponse
  <2>5. def.type # "workerPool" => \A action \in Reads : read(action) \in JobResponse
    BY <2>1, ReadsAreAnswers
  <2>6. /\ store.meta \in {Absent, "initializing", "running"}
        /\ store.state = Absent \/ store.state \in SUBSET Ids
        /\ store.count = Absent \/ store.count \in 0 .. MaxCount
        /\ store.attempt = Absent \/ store.attempt \in 2 .. def.retry.maxAttempts
        /\ store.age = Absent \/ store.age \in 0 .. def.retry.maxDuration
        /\ {store.scheduledAt, store.other} \subseteq {Absent, TRUE}
        /\ alarm = Absent \/ alarm \in Nat
    BY <2>1, StoredTypes DEF Maybe
  <2> QED
    BY <2>1, <2>2, <2>3, <2>4, <2>5, <2>6 DEF TypeOK
<1> QED
  BY <1>1, JobAnswers, PTL

=============================================================================
