-------------------------- MODULE TaskGroup_proofs --------------------------
(***************************************************************************)
(* The safety of a task instance, for any requests, times and bounds.      *)
(***************************************************************************)
EXTENDS TaskGroupProperties, SequenceTheorems, TLAPS

(* What one write and two writes look like as sequences.                   *)
LEMMA OneWrite ==
  ASSUME NEW k, NEW v
  PROVE  /\ set(k, v) # <<>> /\ Tail(set(k, v)) = <<>>
         /\ Head(set(k, v)) = [key |-> k, val |-> v]
         /\ Head(set(k, v)).key = k /\ Head(set(k, v)).val = v
  BY DEF set

LEMMA TwoWrites ==
  ASSUME NEW k, NEW v, NEW l, NEW u
  PROVE  /\ set(k, v) \o set(l, u) # <<>>
         /\ Tail(set(k, v) \o set(l, u)) = set(l, u)
         /\ Head(set(k, v) \o set(l, u)) = [key |-> k, val |-> v]
         /\ Head(set(k, v) \o set(l, u)).key = k
         /\ Head(set(k, v) \o set(l, u)).val = v
<1> DEFINE a == [key |-> k, val |-> v]
           b == [key |-> l, val |-> u]
<1> HIDE DEF a, b
<1>1. <<a>> \o <<b>> = <<a, b>>
  <2>1. <<a>> \in Seq({a, b}) /\ <<b>> \in Seq({a, b}) /\ <<a, b>> \in Seq({a, b})
    OBVIOUS
  <2>2. /\ <<a>> \o <<b>> \in Seq({a, b}) /\ Len(<<a>> \o <<b>>) = 2
        /\ (<<a>> \o <<b>>)[1] = a /\ (<<a>> \o <<b>>)[2] = b
    BY <2>1, ConcatProperties
  <2>3. /\ Len(<<a, b>>) = 2 /\ <<a, b>>[1] = a /\ <<a, b>>[2] = b
    OBVIOUS
  <2>4. Len(<<a>> \o <<b>>) = Len(<<a, b>>)
    BY <2>2, <2>3
  <2>5. \A i \in 1 .. Len(<<a>> \o <<b>>) : (<<a>> \o <<b>>)[i] = <<a, b>>[i]
    BY <2>2, <2>3
  <2> HIDE DEF a, b
  <2> QED BY <2>1, <2>2, <2>4, <2>5, SeqEqual, Zenon
<1>2. Tail(<<a, b>>) = <<b>> /\ Head(<<a, b>>) = a /\ <<a, b>> # <<>>
  OBVIOUS
<1>3. set(k, v) = <<a>> /\ set(l, u) = <<b>>
  BY DEF set, a, b
<1>4. a.key = k /\ a.val = v /\ a = [key |-> k, val |-> v]
  BY DEF a
<1> QED BY <1>1, <1>2, <1>3, <1>4

LEMMA WritesTyped ==
  ASSUME NEW k, NEW v, [key |-> k, val |-> v] \in Writes
  PROVE  set(k, v) \in Seq(Writes)
  BY DEF set

LEMMA TwoTyped ==
  ASSUME NEW k, NEW v, [key |-> k, val |-> v] \in Writes,
         NEW l, NEW u, [key |-> l, val |-> u] \in Writes
  PROVE  set(k, v) \o set(l, u) \in Seq(Writes)
  BY WritesTyped, ConcatProperties

(* The writes of every operation. *)
LEMMA OperationsTyped ==
  /\ <<>> \in Seq(Writes)
  /\ Routing \in Seq(Writes) /\ cleanup \in Seq(Writes) /\ cancel \in Seq(Writes)
  /\ delete("alarmAt") \in Seq(Writes)
  /\ \A t \in AlarmTimes : /\ set("alarmAt", t) \in Seq(Writes)
                          /\ set("alarm", t) \o set("alarmAt", t) \in Seq(Writes)
  /\ \A s \in States : set("state", s) \in Seq(Writes) /\ set("update", s) \in Seq(Writes)
<1>1. /\ \A k \in {"name", "id"} : [key |-> k, val |-> TRUE] \in Writes
      /\ \A k \in {"alarm", "alarmAt"}, t \in AlarmTimes : [key |-> k, val |-> t] \in Writes
      /\ \A k \in {"state", "update"}, s \in States : [key |-> k, val |-> s] \in Writes
      /\ [key |-> "all", val |-> Absent] \in Writes
  BY DEF Writes
<1>2. Absent \in AlarmTimes
  BY DEF AlarmTimes
<1>3. <<>> \in Seq(Writes)
  OBVIOUS
<1>4. Routing \in Seq(Writes)
  BY <1>1, TwoTyped DEF Routing
<1>5. cancel \in Seq(Writes) /\ delete("alarmAt") \in Seq(Writes)
  BY <1>1, <1>2, WritesTyped DEF cancel, delete
<1>6. cleanup \in Seq(Writes)
  BY <1>1, <1>2, TwoTyped DEF cleanup, deleteAll, cancel
<1>7. \A t \in AlarmTimes : /\ set("alarmAt", t) \in Seq(Writes)
                           /\ set("alarm", t) \o set("alarmAt", t) \in Seq(Writes)
  BY <1>1, WritesTyped, TwoTyped
<1>8. \A s \in States : set("state", s) \in Seq(Writes) /\ set("update", s) \in Seq(Writes)
  BY <1>1, WritesTyped
<1> QED BY <1>3, <1>4, <1>5, <1>6, <1>7, <1>8

(* A handler changes to a state of its own. *)
HandlersOK ==
  /\ hs \in [Handlers -> HandlerState]
  /\ \A h \in Requests : ~hs[h].retry
  /\ Active("alarm") => hs["alarm"].at # Absent
  /\ \A h \in Handlers : ~Active(h) => hs[h] = Idle

LEMMA HandlerChanges ==
  ASSUME HandlersOK, NEW h \in Handlers, NEW r \in HandlerState,
         hs' = [hs EXCEPT ![h] = r],
         h # "alarm" => ~r.retry,
         h = "alarm" /\ r.pc # "idle" => r.at # Absent,
         r.pc = "idle" => r = Idle
  PROVE  HandlersOK'
<1>1. hs' \in [Handlers -> HandlerState]
  BY DEF HandlersOK
<1>2. hs'[h] = r /\ \A g \in Handlers \ {h} : hs'[g] = hs[g]
  BY DEF HandlersOK
<1>3. "alarm" \in Handlers /\ Requests \subseteq Handlers /\ "alarm" \notin Requests
  BY AlarmIsNoRequest DEF AlarmIsNoRequest, Handlers
<1>4. \A g \in Requests : ~hs'[g].retry
  BY <1>2, <1>3 DEF HandlersOK
<1>5. Active("alarm")' => hs'["alarm"].at # Absent
  BY <1>2, <1>3 DEF HandlersOK, Active
<1>6. \A g \in Handlers : ~Active(g)' => hs'[g] = Idle
  BY <1>2 DEF HandlersOK, Active
<1> QED BY <1>1, <1>4, <1>5, <1>6 DEF HandlersOK

LEMMA IdleTyped == Idle \in HandlerState /\ Idle.pc = "idle" /\ ~Idle.retry
  BY OperationsTyped DEF Idle, HandlerState, AlarmTimes

(* The handler goes on in its function or at its end. *)
LEMMA GoesOn ==
  ASSUME HandlersOK, NEW h \in Handlers, Active(h), NEW p \in {"handler", "onError", "done", "fail"},
         NEW ws \in Seq(Writes), Goto(h, p, ws)
  PROVE  HandlersOK'
<1> DEFINE r == [hs[h] EXCEPT !.pc = p, !.todo = ws]
<1>1. r \in HandlerState /\ r.retry = hs[h].retry /\ r.at = hs[h].at /\ r.pc # "idle"
  BY DEF HandlersOK, HandlerState
<1>2. hs' = [hs EXCEPT ![h] = r]
  BY DEF Goto, HandlersOK
<1>3. h # "alarm" => h \in Requests
  BY DEF Handlers
<1> HIDE DEF r
<1> QED BY <1>1, <1>2, <1>3, HandlerChanges DEF HandlersOK, Active

LEMMA UsesContext ==
  ASSUME HandlersOK, NEW h \in Handlers, Active(h), NEW ws \in Seq(Writes),
         NEW s \in {Absent} \union States,
         \/ hs' = Using(h, ws)
         \/ hs' = [Using(h, ws) EXCEPT ![h].seen = s]
  PROVE  HandlersOK'
<1> DEFINE q == [hs[h] EXCEPT !.todo = ws, !.began = TRUE]
           r == [hs[h] EXCEPT !.todo = ws, !.began = TRUE, !.seen = s]
<1>0. hs[h] \in HandlerState /\ hs[h].pc # "idle"
  BY DEF HandlersOK, Active
<1>1. /\ r \in HandlerState /\ r.retry = hs[h].retry /\ r.at = hs[h].at
      /\ q \in HandlerState /\ q.retry = hs[h].retry /\ q.at = hs[h].at
      /\ q.pc # "idle" /\ r.pc # "idle"
  BY <1>0 DEF HandlerState
<1>2. \/ hs' = [hs EXCEPT ![h] = r] \/ hs' = [hs EXCEPT ![h] = q]
  BY DEF Using, HandlersOK, HandlerState
<1>3. h # "alarm" => h \in Requests
  BY DEF Handlers
<1> HIDE DEF q, r
<1> QED BY <1>1, <1>2, <1>3, HandlerChanges DEF HandlersOK, Active

-----------------------------------------------------------------------------
(* Type correctness. *)
DataOK ==
  /\ storage \in [name : BOOLEAN, id : BOOLEAN,
                  state : {Absent} \union States, alarmAt : AlarmTimes]
  /\ alarm \in [at : AlarmTimes, retry : BOOLEAN]
  /\ alarm.retry => alarm.at # Absent
  /\ systemFailure \in BOOLEAN
  /\ hist \in [issued : 0 .. MaxIds, updated : States, raced : BOOLEAN,
               fired : BOOLEAN, cut : SUBSET {"purge", "cancel", "schedule"}]

LEMMA Types == TypeOK <=> DataOK /\ HandlersOK
  BY DEF TypeOK, DataOK, HandlersOK

LEMMA SameData ==
  ASSUME DataOK, UNCHANGED <<storage, alarm, systemFailure, hist>>
  PROVE  DataOK'
  BY DEF DataOK

LEMMA HandlerKinds ==
  /\ "alarm" \in Handlers /\ Requests \subseteq Handlers
  /\ \A h \in Handlers : h # "alarm" <=> h \in Requests
  BY AlarmIsNoRequest DEF AlarmIsNoRequest, Handlers

LEMMA NoAlarmTyped == NoAlarm \in [at : AlarmTimes, retry : BOOLEAN] /\ ~NoAlarm.retry
  BY DEF NoAlarm, AlarmTimes

LEMMA RedeliveryTyped ==
  ASSUME DataOK, HandlersOK, NEW h \in Handlers, Active(h)
  PROVE  /\ Redelivered(h) \in [at : AlarmTimes, retry : BOOLEAN]
         /\ Redelivered(h).retry => Redelivered(h).at # Absent
         /\ h = "alarm" => Redelivered(h).at # Absent
         /\ h # "alarm" => Redelivered(h) = alarm
         /\ alarm.at # Absent => Redelivered(h) = alarm
         /\ h = "alarm" /\ alarm.at = Absent => Redelivered(h).retry
<1>1. hs[h].at \in AlarmTimes
  BY DEF HandlersOK, HandlerState
<1> QED BY <1>1 DEF Redelivered, DataOK, HandlersOK

LEMMA CutTyped ==
  ASSUME NEW h
  PROVE  Cut(h) \in SUBSET {"purge", "cancel", "schedule"}
  BY DEF Cut

(* A new id is one of the states' ids. *)
LEMMA NewIdTyped ==
  ASSUME DataOK, Issue
  PROVE  /\ NewId \in 1 .. MaxIds
         /\ hist' \in [issued : 0 .. MaxIds, updated : States, raced : BOOLEAN,
                       fired : BOOLEAN, cut : SUBSET {"purge", "cancel", "schedule"}]
         /\ UNCHANGED <<hist.updated, hist.raced, hist.fired, hist.cut>>
<1>1. NewId \in 1 .. MaxIds
  BY BoundsAreNumbers DEF BoundsAreNumbers, Issue, NewId, DataOK
<1>2. hist' = [hist EXCEPT !.issued = NewId]
  BY DEF Issue
<1> HIDE DEF NewId
<1>3. NewId \in 0 .. MaxIds
  BY <1>1
<1> QED BY <1>1, <1>2, <1>3 DEF DataOK

LEMMA IdsTyped ==
  ASSUME NEW s \in {Absent} \union States
  PROVE  Ids(s) \in States
  BY DEF Ids, States

LEMMA TypeInit == Init => TypeOK
<1> SUFFICES ASSUME Init PROVE TypeOK
  OBVIOUS
<1>1. DataOK
  <2>1. /\ storage \in [name : BOOLEAN, id : BOOLEAN,
                        state : {Absent} \union States, alarmAt : AlarmTimes]
        /\ systemFailure \in BOOLEAN
    BY DEF Init, Empty, AlarmTimes
  <2>2. alarm \in [at : AlarmTimes, retry : BOOLEAN] /\ ~alarm.retry
    BY NoAlarmTyped DEF Init
  <2>3. {} \in States /\ 0 \in 0 .. MaxIds
    BY BoundsAreNumbers DEF States, BoundsAreNumbers
  <2>4. hist \in [issued : 0 .. MaxIds, updated : States, raced : BOOLEAN,
                  fired : BOOLEAN, cut : SUBSET {"purge", "cancel", "schedule"}]
    BY <2>3 DEF Init
  <2> QED BY <2>1, <2>2, <2>4 DEF DataOK
<1>2. HandlersOK
  BY IdleTyped, HandlerKinds DEF Init, HandlersOK, Active
<1> QED BY <1>1, <1>2, Types

LEMMA TypePerform ==
  ASSUME DataOK, HandlersOK, NEW h \in Handlers, Perform(h)
  PROVE  DataOK' /\ HandlersOK'
<1> DEFINE w == Head(hs[h].todo)
           r == [hs[h] EXCEPT !.todo = Tail(hs[h].todo)]
<1>1. hs[h].todo \in Seq(Writes) /\ hs[h].todo # <<>> /\ Active(h)
  BY DEF Perform, HandlersOK, HandlerState, Idle
<1>2. w \in Writes /\ Tail(hs[h].todo) \in Seq(Writes)
  BY <1>1, HeadTailProperties
<1>3. HandlersOK'
  <2>1. r \in HandlerState /\ r.retry = hs[h].retry /\ r.at = hs[h].at /\ r.pc = hs[h].pc
    BY <1>2 DEF HandlersOK, HandlerState
  <2>2. hs' = [hs EXCEPT ![h] = r]
    BY DEF Perform, HandlersOK
  <2> HIDE DEF r
  <2> QED BY <1>1, <2>1, <2>2, HandlerKinds, HandlerChanges DEF HandlersOK, Active
<1>4. /\ storage' = Stored(w) /\ systemFailure' = systemFailure
      /\ alarm' = IF w.key = "alarm" THEN [at |-> w.val, retry |-> FALSE] ELSE alarm
      /\ hist' = [hist EXCEPT
                    !.raced = hist.raced
                      \/ (w.key = "all" /\ \E g \in Handlers \ {h} : Active(g)),
                    !.updated = CASE w.key = "update" -> hist.updated \union w.val
                                  [] w.key = "state"  -> hist.updated \intersect w.val
                                  [] w.key = "all"    -> {}
                                  [] OTHER            -> hist.updated]
  BY DEF Perform
<1> HIDE DEF w
<1>5. storage' \in [name : BOOLEAN, id : BOOLEAN,
                    state : {Absent} \union States, alarmAt : AlarmTimes]
  BY <1>2, <1>4 DEF Writes, Stored, Empty, DataOK, AlarmTimes
<1>6. alarm' \in [at : AlarmTimes, retry : BOOLEAN] /\ (alarm'.retry => alarm'.at # Absent)
  BY <1>2, <1>4 DEF Writes, DataOK, AlarmTimes
<1>7. hist' \in [issued : 0 .. MaxIds, updated : States, raced : BOOLEAN,
                 fired : BOOLEAN, cut : SUBSET {"purge", "cancel", "schedule"}]
  <2>1. (CASE w.key = "update" -> hist.updated \union w.val
           [] w.key = "state"  -> hist.updated \intersect w.val
           [] w.key = "all"    -> {}
           [] OTHER            -> hist.updated) \in States
    BY <1>2 DEF Writes, DataOK, States
  <2> QED BY <1>4, <2>1 DEF DataOK
<1> QED BY <1>3, <1>4, <1>5, <1>6, <1>7 DEF DataOK

(* A function that goes on to one of its ends, or fails. *)
LEMMA TypeFunction ==
  ASSUME DataOK, HandlersOK, NEW h \in Handlers, Function(h)
  PROVE  DataOK' /\ HandlersOK'
<1>1. UNCHANGED <<storage, alarm, systemFailure>>
  BY DEF Function, recall, save, update, cancelSchedule, scheduleAt, purge, Returns,
         Throws, Uses
<1>2. Active(h) /\ HandlersOK
  BY DEF Function, recall, save, update, cancelSchedule, scheduleAt, purge, Returns,
         Throws, Uses, InFunction, Active
<1>3. storage.state \in {Absent} \union States /\ hs[h].seen \in {Absent} \union States
  BY DEF DataOK, HandlersOK, HandlerState
<1>4. CASE recall(h)
  <2>1. HandlersOK'
    BY <1>2, <1>3, <1>4, OperationsTyped, UsesContext DEF recall
  <2> QED BY <1>1, <1>4, <2>1, SameData DEF recall
<1>5. CASE save(h)
  <2> DEFINE s == Ids(hs[h].seen) \union {NewId}
  <2>1. NewId \in 1 .. MaxIds /\ Ids(hs[h].seen) \in States
    BY <1>3, <1>5, NewIdTyped, IdsTyped DEF save
  <2>2. s \in States
    BY <2>1 DEF States
  <2>3. hs' = Using(h, set("state", s))
    BY <1>5 DEF save
  <2> HIDE DEF s
  <2>4. set("state", s) \in Seq(Writes)
    BY <2>2, OperationsTyped
  <2>5. HandlersOK'
    BY <1>2, <1>3, <2>3, <2>4, UsesContext
  <2> QED BY <1>1, <1>5, <2>5, NewIdTyped DEF save, DataOK
<1>6. CASE update(h)
  <2> DEFINE s == storage.state \union {NewId}
  <2>1. NewId \in 1 .. MaxIds /\ storage.state \in States
    BY <1>3, <1>6, NewIdTyped DEF update
  <2>2. s \in States
    BY <2>1 DEF States
  <2>3. hs' = Using(h, set("update", s))
    BY <1>6 DEF update
  <2> HIDE DEF s
  <2>4. set("update", s) \in Seq(Writes)
    BY <2>2, OperationsTyped
  <2>5. HandlersOK'
    BY <1>2, <1>3, <2>3, <2>4, UsesContext
  <2> QED BY <1>1, <1>6, <2>5, NewIdTyped DEF update, DataOK
<1>7. CASE cancelSchedule(h)
  <2>1. cancel \o delete("alarmAt") \in Seq(Writes)
    BY OperationsTyped, ConcatProperties
  <2>2. hs' = Using(h, cancel \o delete("alarmAt")) /\ UNCHANGED hist
    BY <1>7 DEF cancelSchedule
  <2>3. HandlersOK'
    BY <1>2, <1>3, <2>1, <2>2, UsesContext
  <2> QED BY <1>1, <2>2, <2>3, SameData
<1>8. CASE \E t \in Times : scheduleAt(h, t)
  <2>1. PICK t \in Times : scheduleAt(h, t)
    BY <1>8
  <2>2. set("alarm", t) \o set("alarmAt", t) \in Seq(Writes)
    BY OperationsTyped DEF AlarmTimes
  <2>3. hs' = Using(h, set("alarm", t) \o set("alarmAt", t)) /\ UNCHANGED hist
    BY <2>1 DEF scheduleAt
  <2>4. HandlersOK'
    BY <1>2, <1>3, <2>2, <2>3, UsesContext
  <2> QED BY <1>1, <2>3, <2>4, SameData
<1>9. CASE purge(h) \/ Returns(h) \/ Throws(h)
  <2>1. \E p \in {"handler", "onError", "done", "fail"}, ws \in Seq(Writes) : Goto(h, p, ws)
    BY <1>9, OperationsTyped DEF purge, Returns, Throws, handleError
  <2>2. HandlersOK'
    BY <1>2, <2>1, GoesOn
  <2>3. UNCHANGED hist
    BY <1>9 DEF purge, Returns, Throws
  <2> QED BY <1>1, <2>2, <2>3, SameData
<1> QED BY <1>4, <1>5, <1>6, <1>7, <1>8, <1>9 DEF Function

(* A handler that begins: its record is typed. *)
LEMMA ContextTyped ==
  ASSUME NEW op \in {"event", "fireAlarm", "alarm"}, NEW failure \in BOOLEAN
  PROVE  LET c == makeHandlerContext(op, failure)
         IN  /\ c \in HandlerState /\ ~c.retry /\ c.pc = "handler"
             /\ c.failure = failure /\ ~c.began /\ c.todo = <<>>
  BY IdleTyped DEF makeHandlerContext, Idle, HandlerState

LEMMA AlarmContextTyped ==
  ASSUME NEW op \in {"event", "fireAlarm", "alarm"}, NEW failure \in BOOLEAN
  PROVE  LET c == handleAlarm(op, failure)
         IN  /\ c \in HandlerState /\ ~c.retry /\ c.pc = "handler"
             /\ c.failure = failure /\ ~c.began /\ c.todo = delete("alarmAt")
<1> DEFINE c == makeHandlerContext(op, failure)
           ws == delete("alarmAt")
<1>1. c \in HandlerState /\ ~c.retry /\ c.pc = "handler" /\ c.failure = failure /\ ~c.began
  BY ContextTyped
<1>2. ws \in Seq(Writes)
  BY OperationsTyped
<1>3. handleAlarm(op, failure) = [c EXCEPT !.todo = ws]
  BY DEF handleAlarm
<1> HIDE DEF c, ws
<1>4. /\ [c EXCEPT !.todo = ws] \in HandlerState
      /\ [c EXCEPT !.todo = ws].todo = ws /\ ~[c EXCEPT !.todo = ws].retry
      /\ [c EXCEPT !.todo = ws].pc = "handler" /\ ~[c EXCEPT !.todo = ws].began
      /\ [c EXCEPT !.todo = ws].failure = failure
  BY <1>1, <1>2 DEF HandlerState
<1> QED BY <1>3, <1>4 DEF ws

LEMMA TypeCall ==
  ASSUME DataOK, HandlersOK, NEW h \in Requests, Call(h)
  PROVE  DataOK' /\ HandlersOK'
<1>1. h \in Handlers /\ h # "alarm" /\ systemFailure \in BOOLEAN
  BY HandlerKinds DEF DataOK
<1>2. CASE fireAlarm(h)
  <2> DEFINE r == handleAlarm("fireAlarm", systemFailure)
  <2>1. r \in HandlerState /\ ~r.retry /\ r.pc = "handler"
    BY <1>1, AlarmContextTyped
  <2>2. hs' = [hs EXCEPT ![h] = r]
    BY <1>2 DEF fireAlarm
  <2> HIDE DEF r
  <2>3. HandlersOK'
    BY <1>1, <2>1, <2>2, HandlerChanges
  <2>4. DataOK'
    BY <1>2 DEF fireAlarm, DataOK
  <2> QED BY <2>3, <2>4
<1>3. CASE \E valid \in BOOLEAN : handleEvent(h, valid)
  <2>1. PICK valid \in BOOLEAN : handleEvent(h, valid)
    BY <1>3
  <2> DEFINE r == [makeHandlerContext("event", systemFailure) EXCEPT
                     !.todo = Routing, !.pc = IF valid THEN "handler" ELSE "fail"]
  <2>2. r \in HandlerState /\ ~r.retry /\ r.pc # "idle"
    <3> DEFINE c == makeHandlerContext("event", systemFailure)
    <3>1. c \in HandlerState /\ ~c.retry
      BY <1>1, ContextTyped
    <3>2. Routing \in Seq(Writes)
      BY OperationsTyped
    <3> HIDE DEF c
    <3>3. r = [c EXCEPT !.todo = Routing, !.pc = IF valid THEN "handler" ELSE "fail"]
      BY DEF c
    <3> QED BY <3>1, <3>2, <3>3 DEF HandlerState
  <2>3. hs' = [hs EXCEPT ![h] = r]
    BY <2>1 DEF handleEvent, Routing
  <2> HIDE DEF r
  <2>4. HandlersOK'
    BY <1>1, <2>2, <2>3, HandlerChanges
  <2> QED BY <2>1, <2>4, SameData DEF handleEvent
<1> QED BY <1>2, <1>3 DEF Call

LEMMA TypeAlarm ==
  ASSUME DataOK, HandlersOK, AlarmRuns \/ AlarmIgnored
  PROVE  DataOK' /\ HandlersOK'
<1>1. DataOK'
  BY NoAlarmTyped DEF AlarmRuns, AlarmIgnored, DataOK
<1>2. CASE AlarmRuns
  <2> DEFINE r == [handleAlarm("alarm", systemFailure') EXCEPT
                     !.at = alarm.at, !.retry = alarm.retry]
  <2>1. alarm.at \in AlarmTimes /\ alarm.at # Absent /\ alarm.retry \in BOOLEAN
        /\ systemFailure' \in BOOLEAN
    BY <1>1, <1>2 DEF AlarmRuns, DataOK
  <2>2. handleAlarm("alarm", systemFailure') \in HandlerState
        /\ handleAlarm("alarm", systemFailure').pc = "handler"
    BY <2>1, AlarmContextTyped
  <2>3. r \in HandlerState /\ r.at = alarm.at /\ r.pc # "idle"
    BY <2>1, <2>2 DEF HandlerState
  <2>4. hs' = [hs EXCEPT !["alarm"] = r]
    BY <1>2 DEF AlarmRuns
  <2> HIDE DEF r
  <2> QED BY <1>1, <2>1, <2>3, <2>4, HandlerKinds, HandlerChanges
<1>3. CASE AlarmIgnored
  BY <1>1, <1>3 DEF AlarmIgnored, HandlersOK, Active
<1> QED BY <1>2, <1>3

LEMMA TypeEnd ==
  ASSUME DataOK, HandlersOK, NEW h \in Handlers, Succeed(h) \/ Fail(h)
  PROVE  DataOK' /\ HandlersOK'
<1>1. hs' = [hs EXCEPT ![h] = Idle] /\ Active(h)
  BY DEF Succeed, Fail, At, Active
<1>2. HandlersOK'
  BY <1>1, IdleTyped, HandlerChanges
<1>3. DataOK'
  BY <1>1, RedeliveryTyped DEF Succeed, Fail, DataOK
<1> QED BY <1>2, <1>3

LEMMA TypeFault ==
  ASSUME DataOK, HandlersOK, NEW h \in Handlers, Fault(h)
  PROVE  DataOK' /\ HandlersOK'
<1> Active(h)
  BY DEF Fault, HandlersOK, Idle
<1>1. \E p \in {"handler", "onError", "done", "fail"} : Goto(h, p, <<>>)
  BY DEF Fault, InOperation, InFunction, handleError
<1>2. HandlersOK'
  BY <1>1, OperationsTyped, GoesOn
<1>3. hist.cut \union Cut(h) \in SUBSET {"purge", "cancel", "schedule"}
  BY CutTyped DEF DataOK
<1>4. DataOK'
  BY <1>3 DEF Fault, DataOK
<1> QED BY <1>2, <1>4

LEMMA TypeCrash ==
  ASSUME DataOK, HandlersOK, Crash
  PROVE  DataOK' /\ HandlersOK'
<1>1. HandlersOK'
  BY IdleTyped, HandlerKinds DEF Crash, HandlersOK, Active
<1>2. hist.cut \union UNION {Cut(h) : h \in Handlers} \in SUBSET {"purge", "cancel", "schedule"}
  BY CutTyped DEF DataOK
<1>3. alarm' \in [at : AlarmTimes, retry : BOOLEAN] /\ (alarm'.retry => alarm'.at # Absent)
  BY RedeliveryTyped, HandlerKinds DEF Crash, DataOK
<1>4. DataOK'
  BY <1>2, <1>3 DEF Crash, DataOK
<1> QED BY <1>1, <1>4

LEMMA TypeStep == TypeOK /\ [Next]_vars => TypeOK'
<1> SUFFICES ASSUME DataOK, HandlersOK, [Next]_vars PROVE DataOK' /\ HandlersOK'
  BY Types DEF TypeOK, DataOK, HandlersOK
<1>1. CASE \E h \in Requests : Call(h)
  BY <1>1, TypeCall
<1>2. CASE AlarmRuns \/ AlarmIgnored
  BY <1>2, TypeAlarm
<1>3. CASE \E h \in Handlers : Step(h)
  BY <1>3, TypePerform, TypeFunction, TypeEnd DEF Step
<1>4. CASE \E h \in Handlers : Fault(h)
  BY <1>4, TypeFault
<1>5. CASE Crash
  BY <1>5, TypeCrash
<1>6. CASE Evict
  BY <1>6 DEF Evict, DataOK, HandlersOK, Active
<1>7. CASE UNCHANGED vars
  BY <1>7 DEF vars, DataOK, HandlersOK, Active
<1> QED BY <1>1, <1>2, <1>3, <1>4, <1>5, <1>6, <1>7 DEF Next

(* The values of the variables, for any requests, times and bounds.        *)
THEOREM TypeCorrect == Spec => []TypeOK
  BY TypeInit, TypeStep, PTL DEF Spec

-----------------------------------------------------------------------------
(* The routing keys. *)
LEMMA RoutingShape ==
  /\ Routing # <<>> /\ Tail(Routing) = set("id", TRUE)
  /\ Head(Routing).key = "name" /\ Head(Routing).val = TRUE
  /\ set("id", TRUE) # <<>> /\ Tail(set("id", TRUE)) = <<>>
  /\ Head(set("id", TRUE)).key = "id" /\ Head(set("id", TRUE)).val = TRUE
<1> DEFINE yes == TRUE
<1> HIDE DEF yes
<1>1. /\ set("name", yes) \o set("id", yes) # <<>>
      /\ Tail(set("name", yes) \o set("id", yes)) = set("id", yes)
      /\ Head(set("name", yes) \o set("id", yes)).key = "name"
      /\ Head(set("name", yes) \o set("id", yes)).val = yes
  BY TwoWrites
<1>2. /\ set("id", yes) # <<>> /\ Tail(set("id", yes)) = <<>>
      /\ Head(set("id", yes)).key = "id" /\ Head(set("id", yes)).val = yes
  BY OneWrite
<1> QED BY <1>1, <1>2, Zenon DEF Routing, yes

(* What the writes to come tell apart.                                     *)
LEMMA Shapes ==
  /\ cancel # <<>> /\ Head(cancel).key = "alarm" /\ Head(cancel).val = Absent
  /\ Tail(cancel) = <<>>
  /\ delete("alarmAt") = set("alarmAt", Absent) /\ cancel = set("alarm", Absent)
  /\ cleanup # <<>> /\ Head(cleanup).key = "all" /\ Tail(cleanup) = cancel
  /\ \A k, v : /\ set(k, v) # <<>> /\ Tail(set(k, v)) = <<>>
               /\ Head(set(k, v)).key = k /\ Head(set(k, v)).val = v
  /\ \A t : LET ws == set("alarm", t) \o set("alarmAt", t)
            IN  /\ ws # <<>> /\ Tail(ws) = set("alarmAt", t)
                /\ Head(ws).key = "alarm" /\ Head(ws).val = t
<1>1. \A k, v : /\ set(k, v) # <<>> /\ Tail(set(k, v)) = <<>>
                /\ Head(set(k, v)).key = k /\ Head(set(k, v)).val = v
  BY OneWrite
<1>2. \A k, v, l, u : /\ set(k, v) \o set(l, u) # <<>>
                      /\ Tail(set(k, v) \o set(l, u)) = set(l, u)
                      /\ Head(set(k, v) \o set(l, u)).key = k
                      /\ Head(set(k, v) \o set(l, u)).val = v
  BY TwoWrites
<1>3. delete("alarmAt") = set("alarmAt", Absent) /\ cancel = set("alarm", Absent)
  BY DEF delete, cancel
<1>4. cleanup = set("all", Absent) \o set("alarm", Absent)
  BY DEF cleanup, deleteAll, cancel
<1>6. /\ cancel # <<>> /\ Head(cancel).key = "alarm" /\ Head(cancel).val = Absent
      /\ Tail(cancel) = <<>>
  BY <1>1, <1>3
<1>7. cleanup # <<>> /\ Head(cleanup).key = "all" /\ Tail(cleanup) = cancel
  BY <1>2, <1>3, <1>4
<1>9. \A t : LET ws == set("alarm", t) \o set("alarmAt", t)
             IN  /\ ws # <<>> /\ Tail(ws) = set("alarmAt", t)
                 /\ Head(ws).key = "alarm" /\ Head(ws).val = t
  BY <1>2
<1> QED BY <1>1, <1>3, <1>6, <1>7, <1>9

LEMMA FirstKeys ==
  /\ Head(Routing).key = "name" /\ Head(set("id", TRUE)).key = "id"
  /\ Head(cancel).key = "alarm" /\ Head(delete("alarmAt")).key = "alarmAt"
  /\ \A t : Head(set("alarmAt", t)).key = "alarmAt"
<1>1. Head(Routing).key = "name" /\ Head(set("id", TRUE)).key = "id"
  BY RoutingShape, Zenon
<1>2. \A t : Head(set("alarmAt", t)).key = "alarmAt"
  BY Shapes, Zenon
<1>3. Head(delete("alarmAt")).key = "alarmAt"
  BY <1>2, Zenon DEF delete
<1>4. Head(cancel).key = "alarm"
  BY Shapes, Zenon
<1> QED BY <1>1, <1>2, <1>3, <1>4

(* In its turn a handler is the only one with writes to come, and the only *)
(* one at its end: the invariant is about it alone.                        *)
KnownBy(h) ==
  Undisturbed /\ hist.cut = {} /\ ~alarm.retry =>
     \/ storage.alarmAt = alarm.at
     \/ hs[h].todo = cancel
     \/ \E t \in AlarmTimes : hs[h].todo = set("alarmAt", t)
     \/ h = "alarm" /\ hs[h].pc = "fail" /\ alarm.at = Absent

PromisedBy(h) ==
  Undisturbed /\ "cancel" \notin hist.cut /\ storage.alarmAt # Absent =>
     \/ alarm.at # Absent
     \/ hs[h].todo = delete("alarmAt")
     \/ h = "alarm" /\ hs[h].pc = "fail"

RoutedBy(h) ==
  /\ storage.id => storage.name
  /\ Undisturbed /\ ~storage.id =>
       /\ storage.state = Absent /\ storage.alarmAt = Absent
       /\ InFunction(h) => hs[h].todo \in {Routing, set("id", TRUE)}
       /\ \A g \in Handlers \ {h} : ~InFunction(g)
       /\ alarm.at = Absent \/ AfterPurge \/ hs[h].todo = cancel

Own(h) ==
  /\ PendingOK(h) /\ RoutedBy(h) /\ KnownBy(h) /\ PromisedBy(h)
  /\ UpdatesAreKept /\ RetryKnown

LEMMA Alone ==
  ASSUME HandlersOK, NEW h \in Handlers, Turn(h), NEW g \in Handlers \ {h}
  PROVE  hs[g].todo = <<>> /\ hs[g].pc \notin {"done", "fail"}
  BY DEF HandlersOK, Turn, Idle, InFunction, Active

LEMMA Before ==
  ASSUME HandlersOK, Serving, NEW h \in Handlers, Turn(h)
  PROVE  Own(h)
<1>1. \A g \in Handlers \ {h} : hs[g].todo = <<>> /\ hs[g].pc \notin {"done", "fail"}
  BY Alone
<1>2. "alarm" \in Handlers
  BY HandlerKinds
<1>3. KnownBy(h)
  BY <1>1, <1>2, Shapes, RoutingShape DEF Serving, AlarmKnown, KnownBy, AlarmFails
<1>4. PromisedBy(h)
  BY <1>1, <1>2, Shapes, RoutingShape DEF Serving, AlarmPromised, PromisedBy, AlarmFails
<1>5. RoutedBy(h)
  BY <1>1, Shapes, RoutingShape, ZenonT(40) DEF Serving, Unrouted, RoutedBy
<1> QED BY <1>3, <1>4, <1>5 DEF Serving, Own

LEMMA After ==
  ASSUME HandlersOK', NEW h \in Handlers, Turn(h)', Own(h)'
  PROVE  Serving'
<1>1. \A g \in Handlers \ {h} : (hs[g].todo = <<>>)'
  BY DEF HandlersOK, Turn, Idle, InFunction, Active
<1>2. \A g \in Handlers : PendingOK(g)'
  BY <1>1 DEF Own, PendingOK
<1>3. AlarmKnown'
  BY DEF Own, AlarmKnown, KnownBy, AlarmFails
<1>4. AlarmPromised'
  BY DEF Own, AlarmPromised, PromisedBy, AlarmFails
<1>5. Unrouted'
  BY DEF Own, Unrouted, RoutedBy
<1> QED BY <1>2, <1>3, <1>4, <1>5 DEF Serving, Own

LEMMA TurnStays ==
  ASSUME HandlersOK, NEW h \in Handlers, Turn(h), NEW r, hs' = [hs EXCEPT ![h] = r]
  PROVE  Turn(h)' /\ hs'[h] = r /\ \A g \in Handlers \ {h} : hs'[g] = hs[g]
  BY DEF HandlersOK, Turn, Active, InFunction

(* What the properties read of the history is as it was. *)
SameHistory ==
  /\ hist'.updated = hist.updated /\ hist'.raced = hist.raced
  /\ hist'.fired = hist.fired /\ hist'.cut = hist.cut

(* A function that goes on, to a next operation or to its end. *)
LEMMA FunctionGoesOn ==
  ASSUME HandlersOK, HandlersOK', Serving, NEW h \in Handlers,
         InFunction(h), hs[h].todo = <<>>, Turn(h),
         UNCHANGED <<storage, alarm>>, SameHistory,
         NEW r, hs' = [hs EXCEPT ![h] = r],
         r.retry = hs[h].retry, r.failure = hs[h].failure, PendingOK(h)'
  PROVE  Serving'
<1>1. Own(h)
  BY Before
<1>2. Turn(h)' /\ hs'[h] = r /\ \A g \in Handlers \ {h} : hs'[g] = hs[g]
  BY TurnStays
<1>3. RoutedBy(h)'
  BY <1>1, <1>2, Shapes, RoutingShape DEF Own, RoutedBy, SameHistory, Undisturbed
<1>4. KnownBy(h)'
  BY <1>1, <1>2, Shapes, RoutingShape DEF Own, KnownBy, SameHistory, Undisturbed, InFunction
<1>5. PromisedBy(h)'
  BY <1>1, <1>2, Shapes, RoutingShape DEF Own, PromisedBy, SameHistory, Undisturbed, InFunction
<1>6. UpdatesAreKept'
  BY <1>1 DEF Own, UpdatesAreKept, Ids, SameHistory
<1>7. RetryKnown'
  BY <1>1, <1>2, HandlerKinds DEF Own, RetryKnown
<1> QED BY <1>2, <1>3, <1>4, <1>5, <1>6, <1>7, After DEF Own

LEMMA ServingFunction ==
  ASSUME DataOK, HandlersOK, HandlersOK', Serving, NEW h \in Handlers, Function(h)
  PROVE  Serving'
<1>1. InFunction(h) /\ hs[h].todo = <<>> /\ Turn(h) /\ UNCHANGED <<storage, alarm>>
  BY DEF Function, recall, save, update, cancelSchedule, scheduleAt, purge, Returns,
         Throws, Uses
<1>2. hs[h] \in HandlerState /\ hs \in [Handlers -> HandlerState]
  BY DEF HandlersOK
<1>3. SameHistory
  BY DEF Function, recall, save, update, cancelSchedule, scheduleAt, purge, Returns,
         Throws, Issue, SameHistory, DataOK
<1>4. ASSUME NEW ws, hs' = Using(h, ws) \/ hs' = [Using(h, ws) EXCEPT ![h].seen = storage.state],
             \/ ws = <<>>
             \/ \E t \in AlarmTimes : ws = set("alarm", t) \o set("alarmAt", t)
             \/ \E s \in States : \/ ws = set("state", s)
                                  \/ ws = set("update", s) /\ Ids(storage.state) \subseteq s
      PROVE  Serving'
  <2> DEFINE q == [hs[h] EXCEPT !.todo = ws, !.began = TRUE]
             r == [hs[h] EXCEPT !.todo = ws, !.began = TRUE, !.seen = storage.state]
  <2>1. \/ hs' = [hs EXCEPT ![h] = q] \/ hs' = [hs EXCEPT ![h] = r]
    BY <1>2, <1>4 DEF Using, HandlerState
  <2>2. /\ r.retry = hs[h].retry /\ r.failure = hs[h].failure /\ r.todo = ws /\ r.pc = hs[h].pc
        /\ r.began
        /\ q.retry = hs[h].retry /\ q.failure = hs[h].failure /\ q.todo = ws /\ q.pc = hs[h].pc
        /\ q.began
    BY <1>2 DEF HandlerState
  <2> HIDE DEF q, r
  <2>3. hs'[h] = q \/ hs'[h] = r
    BY <1>2, <2>1
  <2>4. PendingOK(h)'
    <3>1. hs'[h].todo = ws /\ hs'[h].began /\ InFunction(h)'
      BY <1>1, <2>2, <2>3 DEF InFunction
    <3>2. CASE ws = <<>>
      BY <3>1, <3>2 DEF PendingOK
    <3>3. CASE \E t \in AlarmTimes : ws = set("alarm", t) \o set("alarmAt", t)
      BY <3>1, <3>3 DEF PendingOK, InOperation
    <3>4. CASE \E s \in States : \/ ws = set("state", s)
                                 \/ ws = set("update", s) /\ Ids(storage.state) \subseteq s
      BY <1>1, <3>1, <3>4 DEF PendingOK, InOperation, Ids
    <3> QED BY <1>4, <3>2, <3>3, <3>4
  <2> QED BY <1>1, <1>3, <2>1, <2>2, <2>4, FunctionGoesOn
<1>5. ASSUME NEW p, NEW ws, Goto(h, p, ws), ws = <<>> \/ (p = "done" /\ ws = cleanup)
      PROVE  Serving'
  <2> DEFINE r == [hs[h] EXCEPT !.pc = p, !.todo = ws]
  <2>1. hs' = [hs EXCEPT ![h] = r]
    BY <1>2, <1>5 DEF Goto, HandlerState
  <2>2. r.retry = hs[h].retry /\ r.failure = hs[h].failure /\ r.todo = ws /\ r.pc = p
    BY <1>2 DEF HandlerState
  <2> HIDE DEF r
  <2>3. hs'[h].todo = ws /\ hs'[h].pc = p
    BY <1>2, <2>1, <2>2
  <2>4. PendingOK(h)'
    BY <1>5, <2>3 DEF PendingOK
  <2> QED BY <1>1, <1>3, <2>1, <2>2, <2>4, FunctionGoesOn
<1>6. CASE recall(h)
  BY <1>4, <1>6 DEF recall
<1>7. CASE save(h)
  <2> DEFINE s == Ids(hs[h].seen) \union {NewId}
  <2>1. NewId \in 1 .. MaxIds /\ Ids(hs[h].seen) \in States
    BY <1>2, <1>7, NewIdTyped, IdsTyped DEF save, HandlerState
  <2>2. s \in States
    BY <2>1 DEF States
  <2>3. hs' = Using(h, set("state", s))
    BY <1>7 DEF save
  <2> HIDE DEF s
  <2> QED BY <1>4, <2>2, <2>3
<1>8. CASE update(h)
  <2> DEFINE s == storage.state \union {NewId}
  <2>1. NewId \in 1 .. MaxIds /\ storage.state \in States
    BY <1>8, NewIdTyped DEF update, DataOK
  <2>2. s \in States /\ Ids(storage.state) \subseteq s
    BY <2>1 DEF States, Ids
  <2>3. hs' = Using(h, set("update", s))
    BY <1>8 DEF update
  <2> HIDE DEF s
  <2> QED BY <1>4, <2>2, <2>3
<1>9. CASE cancelSchedule(h)
  <2>1. hs' = Using(h, set("alarm", Absent) \o set("alarmAt", Absent)) /\ Absent \in AlarmTimes
    BY <1>9 DEF cancelSchedule, cancel, delete, AlarmTimes
  <2> QED BY <1>4, <2>1
<1>10. CASE \E t \in Times : scheduleAt(h, t)
  BY <1>4, <1>10 DEF scheduleAt, AlarmTimes
<1>11. CASE purge(h) \/ Returns(h) \/ Throws(h)
  BY <1>5, <1>11 DEF purge, Returns, Throws
<1> QED BY <1>6, <1>7, <1>8, <1>9, <1>10, <1>11 DEF Function

(* A handler that begins. *)
LEMMA ServingCall ==
  ASSUME DataOK, HandlersOK, HandlersOK', Serving, NEW h \in Requests, Call(h)
  PROVE  Serving'
<1>1. h \in Handlers /\ h # "alarm" /\ systemFailure \in BOOLEAN
  BY HandlerKinds DEF DataOK
<1>2. Turn(h) /\ ~Active(h)
  BY DEF Call, fireAlarm, handleEvent, Receive
<1>3. Own(h)
  BY <1>1, <1>2, Before
<1>4. hs[h].todo = <<>> /\ ~InFunction(h)
  BY <1>1, <1>2 DEF HandlersOK, Idle, InFunction, Active
<1>5. CASE fireAlarm(h)
  <2> DEFINE r == handleAlarm("fireAlarm", systemFailure)
  <2>1. r.pc = "handler" /\ ~r.began /\ r.todo = delete("alarmAt")
    BY <1>1, AlarmContextTyped
  <2>2. hs' = [hs EXCEPT ![h] = r] /\ UNCHANGED <<storage, alarm>>
    BY <1>5 DEF fireAlarm
  <2> HIDE DEF r
  <2>3. Turn(h)' /\ hs'[h] = r /\ \A g \in Handlers \ {h} : hs'[g] = hs[g]
    BY <1>1, <1>2, <2>2, TurnStays
  <2>4. hist'.fired /\ hist'.updated = hist.updated
    BY <1>5 DEF fireAlarm, DataOK
  <2>5. PendingOK(h)'
    BY <1>1, <2>1, <2>3, <2>4 DEF PendingOK
  <2>6. RoutedBy(h)' /\ KnownBy(h)' /\ PromisedBy(h)'
    BY <1>3, <2>2, <2>4 DEF Own, RoutedBy, KnownBy, PromisedBy, Undisturbed
  <2>7. UpdatesAreKept' /\ RetryKnown'
    BY <1>1, <1>3, <2>2, <2>3, <2>4, HandlerKinds DEF Own, UpdatesAreKept, RetryKnown, Ids
  <2> QED BY <1>1, <2>3, <2>5, <2>6, <2>7, After DEF Own
<1>6. CASE \E valid \in BOOLEAN : handleEvent(h, valid)
  <2>1. PICK valid \in BOOLEAN : handleEvent(h, valid)
    BY <1>6
  <2> DEFINE c == makeHandlerContext("event", systemFailure)
             r == [c EXCEPT !.todo = Routing, !.pc = IF valid THEN "handler" ELSE "fail"]
  <2>2. c \in HandlerState /\ ~c.began
    BY <1>1, ContextTyped
  <2>3. hs' = [hs EXCEPT ![h] = r] /\ UNCHANGED <<storage, alarm, hist>>
    BY <2>1 DEF handleEvent, Routing
  <2> HIDE DEF c
  <2>4. r.pc \in {"handler", "fail"} /\ ~r.began /\ r.todo = Routing
    BY <2>2 DEF HandlerState
  <2> HIDE DEF r
  <2>5. Turn(h)' /\ hs'[h] = r /\ \A g \in Handlers \ {h} : hs'[g] = hs[g]
    BY <1>1, <1>2, <2>3, TurnStays
  <2>6. PendingOK(h)'
    <3>1. Tail(Routing) # <<>> /\ Tail(set("id", TRUE)) = <<>>
      BY Shapes, RoutingShape
    <3> QED BY <2>4, <2>5, <3>1 DEF PendingOK
  <2>7. RoutedBy(h)'
    BY <1>3, <1>4, <2>3, <2>4, <2>5, Shapes, RoutingShape DEF Own, RoutedBy, Undisturbed, InFunction, AfterPurge
  <2>8. KnownBy(h)' /\ PromisedBy(h)'
    BY <1>1, <1>3, <1>4, <2>3, <2>4, <2>5, Shapes, RoutingShape DEF Own, KnownBy, PromisedBy, Undisturbed
  <2>9. UpdatesAreKept' /\ RetryKnown'
    BY <1>1, <1>3, <2>3, <2>5, HandlerKinds DEF Own, UpdatesAreKept, RetryKnown, Ids
  <2> QED BY <1>1, <2>5, <2>6, <2>7, <2>8, <2>9, After DEF Own
<1> QED BY <1>5, <1>6 DEF Call

LEMMA ServingAlarm ==
  ASSUME DataOK, HandlersOK, HandlersOK', Serving, AlarmRuns \/ AlarmIgnored
  PROVE  Serving'
<1>1. "alarm" \in Handlers /\ Turn("alarm") /\ ~Active("alarm")
  BY HandlerKinds DEF AlarmRuns, AlarmIgnored
<1>2. Own("alarm")
  BY <1>1, Before
<1>3. hs["alarm"].todo = <<>> /\ ~InFunction("alarm") /\ ~hs["alarm"].retry
  BY <1>1 DEF HandlersOK, Idle, InFunction, Active
<1>4. UNCHANGED <<storage, hist>> /\ alarm' = NoAlarm
  BY DEF AlarmRuns, AlarmIgnored
<1>5. alarm'.at = Absent /\ UpdatesAreKept'
  BY <1>2, <1>4 DEF NoAlarm, Own, UpdatesAreKept, Ids
<1>6. CASE AlarmRuns
  <2> DEFINE c == handleAlarm("alarm", systemFailure')
             r == [c EXCEPT !.at = alarm.at, !.retry = alarm.retry]
  <2>1. systemFailure' = (systemFailure \/ alarm.retry) /\ storage.id /\ storage.name
    BY <1>6 DEF AlarmRuns
  <2>2. systemFailure' \in BOOLEAN /\ alarm.retry \in BOOLEAN
    BY <2>1 DEF DataOK
  <2>3. /\ c \in HandlerState /\ c.pc = "handler" /\ ~c.began /\ c.todo = delete("alarmAt")
        /\ c.failure = systemFailure'
    BY <2>2, AlarmContextTyped
  <2>4. hs' = [hs EXCEPT !["alarm"] = r]
    BY <1>6 DEF AlarmRuns
  <2> HIDE DEF c
  <2>5. /\ r.pc = "handler" /\ ~r.began /\ r.todo = delete("alarmAt")
        /\ r.retry = alarm.retry /\ r.failure = systemFailure'
    BY <2>3 DEF HandlerState
  <2> HIDE DEF r
  <2>6. Turn("alarm")' /\ hs'["alarm"] = r
    BY <1>1, <2>4, TurnStays
  <2>7. PendingOK("alarm")'
    BY <1>5, <2>5, <2>6 DEF PendingOK
  <2>8. RoutedBy("alarm")'
    BY <1>4, <2>1 DEF RoutedBy
  <2>9. KnownBy("alarm")' /\ PromisedBy("alarm")'
    BY <2>5, <2>6, Shapes, RoutingShape DEF KnownBy, PromisedBy, AlarmTimes
  <2>10. RetryKnown'
    BY <2>1, <2>5, <2>6 DEF RetryKnown
  <2> QED BY <1>1, <1>5, <2>6, <2>7, <2>8, <2>9, <2>10, After DEF Own
<1>7. CASE AlarmIgnored
  <2>1. hs' = hs /\ ~storage.id
    BY <1>2, <1>7 DEF AlarmIgnored, Own, RoutedBy
  <2>2. Turn("alarm")'
    BY <1>1, <2>1 DEF Turn, Active, InFunction
  <2>3. PendingOK("alarm")' /\ RetryKnown'
    BY <1>3, <2>1 DEF PendingOK, RetryKnown
  <2>4. RoutedBy("alarm")'
    BY <1>2, <1>4, <1>5, <2>1 DEF Own, RoutedBy, Undisturbed, InFunction
  <2>5. KnownBy("alarm")' /\ PromisedBy("alarm")'
    BY <1>2, <1>4, <1>5, <2>1 DEF Own, RoutedBy, KnownBy, PromisedBy, Undisturbed
  <2> QED BY <1>1, <1>5, <2>2, <2>3, <2>4, <2>5, After DEF Own
<1> QED BY <1>6, <1>7

(* A handler that ends, well or not. *)
LEMMA ServingEnd ==
  ASSUME DataOK, HandlersOK, HandlersOK', Serving, NEW h \in Handlers, Succeed(h) \/ Fail(h)
  PROVE  Serving'
<1>1. /\ hs' = [hs EXCEPT ![h] = Idle] /\ hs[h].todo = <<>> /\ Turn(h)
      /\ hs[h].pc \in {"done", "fail"} /\ UNCHANGED <<storage, hist>>
      /\ alarm' = alarm \/ (hs[h].pc = "fail" /\ alarm' = Redelivered(h))
      /\ hs[h].pc = "fail" => alarm' = Redelivered(h)
  BY DEF Succeed, Fail, At
<1>2. Own(h) /\ Active(h) /\ ~InFunction(h)
  BY <1>1, Before DEF Active, InFunction
<1>3. Turn(h)' /\ hs'[h] = Idle /\ \A g \in Handlers \ {h} : hs'[g] = hs[g]
  BY <1>1, TurnStays
<1>4. Idle.todo = <<>> /\ Idle.pc = "idle" /\ ~Idle.retry
  BY DEF Idle
<1>5. \/ alarm' = alarm /\ ~(h = "alarm" /\ hs[h].pc = "fail" /\ alarm.at = Absent)
      \/ alarm'.retry /\ alarm'.at # Absent
  BY <1>1, <1>2, RedeliveryTyped
<1>6. PendingOK(h)'
  BY <1>3, <1>4 DEF PendingOK
<1>7. RoutedBy(h)'
  BY <1>1, <1>2, <1>3, <1>4, <1>5, Shapes, RoutingShape DEF Own, RoutedBy, Undisturbed, InFunction, AfterPurge
<1>8. KnownBy(h)'
  BY <1>1, <1>2, <1>5, Shapes, RoutingShape DEF Own, KnownBy, Undisturbed
<1>9. PromisedBy(h)'
  BY <1>1, <1>2, <1>5, Shapes, RoutingShape DEF Own, PromisedBy, Undisturbed
<1>10. UpdatesAreKept' /\ RetryKnown'
  BY <1>1, <1>2, <1>3, <1>4, HandlerKinds DEF Own, UpdatesAreKept, RetryKnown, Ids
<1> QED BY <1>3, <1>6, <1>7, <1>8, <1>9, <1>10, After DEF Own

(* What a handler may be about to write, told apart by the first write.    *)
LEMMA Pending ==
  ASSUME Serving, NEW h \in Handlers, hs[h].todo # <<>>
  PROVE  LET ws == hs[h].todo
             w  == Head(ws)
         IN  \/ /\ hs[h].pc \in {"handler", "fail"} /\ ~hs[h].began
                /\ ws = Routing \/ (ws = set("id", TRUE) /\ storage.name)
             \/ /\ InOperation(h)
                /\ \E t \in AlarmTimes :
                     \/ ws = set("alarm", t) \o set("alarmAt", t)
                     \/ ws = set("alarmAt", t) /\ alarm.at = t
             \/ /\ hs[h].pc = "handler" /\ ~hs[h].began /\ ws = delete("alarmAt")
                /\ IF h = "alarm" THEN alarm.at = Absent ELSE hist.fired
             \/ /\ InOperation(h)
                /\ \E s \in States :
                     \/ ws = set("state", s)
                     \/ ws = set("update", s) /\ Ids(storage.state) \subseteq s
             \/ hs[h].pc = "done" /\ ws = cleanup
             \/ hs[h].pc = "done" /\ ws = cancel /\ storage = Empty
  BY DEF Serving, PendingOK

(* A write is performed. *)
LEMMA ServingPerform ==
  ASSUME DataOK, HandlersOK, HandlersOK', Serving, NEW h \in Handlers, Perform(h)
  PROVE  Serving'
<1> DEFINE w == Head(hs[h].todo)
           r == [hs[h] EXCEPT !.todo = Tail(hs[h].todo)]
<1>1. hs[h] \in HandlerState /\ hs[h].todo # <<>> /\ Turn(h)
  BY DEF HandlersOK, Perform
<1>2. Own(h)
  BY <1>1, Before
<1>3. hs' = [hs EXCEPT ![h] = r]
  BY DEF Perform, HandlersOK
<1>4. /\ r.todo = Tail(hs[h].todo) /\ r.pc = hs[h].pc /\ r.began = hs[h].began
      /\ r.retry = hs[h].retry /\ r.failure = hs[h].failure
  BY <1>1 DEF HandlerState
<1> HIDE DEF r
<1>5. Turn(h)' /\ hs'[h] = r /\ \A g \in Handlers \ {h} : hs'[g] = hs[g]
  BY <1>1, <1>3, TurnStays
<1>6. /\ hs'[h].todo = Tail(hs[h].todo) /\ hs'[h].pc = hs[h].pc
      /\ InFunction(h)' = InFunction(h) /\ InOperation(h)' = InOperation(h)
  BY <1>4, <1>5 DEF InFunction, InOperation
<1>7. /\ storage' = Stored(w)
      /\ alarm' = IF w.key = "alarm" THEN [at |-> w.val, retry |-> FALSE] ELSE alarm
      /\ hist'.fired = hist.fired /\ hist'.cut = hist.cut
      /\ hist'.raced = (hist.raced \/ (w.key = "all" /\ \E g \in Handlers \ {h} : Active(g)))
      /\ hist'.updated = CASE w.key = "update" -> hist.updated \union w.val
                           [] w.key = "state"  -> hist.updated \intersect w.val
                           [] w.key = "all"    -> {}
                           [] OTHER            -> hist.updated
  BY DEF Perform, DataOK
<1>8. RetryKnown'
  BY <1>2, <1>4, <1>5, HandlerKinds DEF Own, RetryKnown
<1>9. Undisturbed' => Undisturbed
  BY <1>7 DEF Undisturbed
<1>10. storage \in [name : BOOLEAN, id : BOOLEAN,
                    state : {Absent} \union States, alarmAt : AlarmTimes]
  BY DEF DataOK
<1>11. SUFFICES PendingOK(h)' /\ RoutedBy(h)' /\ KnownBy(h)' /\ PromisedBy(h)' /\ UpdatesAreKept'
  BY <1>5, <1>8, After DEF Own
<1> HIDE DEF w
<1>12. InFunction(h) /\ hs[h].todo \notin {Routing, set("id", TRUE)}
         => (Undisturbed => storage.id)
  BY <1>2 DEF Own, RoutedBy
<1>13. CASE hs[h].todo = Routing /\ hs[h].pc \in {"handler", "fail"} /\ ~hs[h].began
  <2>1. w.key = "name" /\ w.val = TRUE /\ hs'[h].todo = set("id", TRUE)
    BY <1>6, <1>13, RoutingShape DEF w
  <2>2. storage' = [storage EXCEPT !.name = TRUE] /\ alarm' = alarm /\ hist'.updated = hist.updated
    BY <1>7, <2>1 DEF Stored
  <2>3. /\ storage'.name /\ storage'.id = storage.id /\ storage'.state = storage.state
        /\ storage'.alarmAt = storage.alarmAt
    BY <1>10, <2>2
  <2>4. PendingOK(h)'
    BY <1>4, <1>5, <1>6, <1>13, <2>1, <2>3 DEF PendingOK
  <2>5. /\ hs[h].todo # cancel /\ hs[h].todo # delete("alarmAt")
        /\ \A t : hs[h].todo # set("alarmAt", t)
    BY <1>13, Shapes, RoutingShape
  <2>6. RoutedBy(h)'
    BY <1>2, <1>5, <1>6, <1>7, <1>9, <2>1, <2>2, <2>3, <2>5 DEF Own, RoutedBy, AfterPurge, InFunction
  <2>7. KnownBy(h)' /\ PromisedBy(h)'
    BY <1>2, <1>6, <1>7, <1>9, <2>2, <2>3, <2>5 DEF Own, KnownBy, PromisedBy
  <2>8. UpdatesAreKept'
    BY <1>2, <2>2, <2>3 DEF Own, UpdatesAreKept, Ids
  <2> QED BY <2>4, <2>6, <2>7, <2>8
<1>14. CASE hs[h].todo = set("id", TRUE) /\ storage.name
  <2>1. w.key = "id" /\ w.val = TRUE /\ hs'[h].todo = <<>>
    BY <1>6, <1>14, RoutingShape DEF w
  <2>2. storage' = [storage EXCEPT !.id = TRUE] /\ alarm' = alarm /\ hist'.updated = hist.updated
    BY <1>7, <2>1 DEF Stored
  <2>3. /\ storage'.name /\ storage'.id /\ storage'.state = storage.state
        /\ storage'.alarmAt = storage.alarmAt
    BY <1>10, <1>14, <2>2
  <2>4. /\ hs[h].todo # cancel /\ hs[h].todo # delete("alarmAt")
        /\ \A t : hs[h].todo # set("alarmAt", t)
    <3>1. Head(hs[h].todo).key = "id"
      BY <1>14, Shapes, RoutingShape
    <3> QED BY <3>1, Shapes, RoutingShape
  <2>5. PendingOK(h)' /\ RoutedBy(h)'
    BY <2>1, <2>3 DEF PendingOK, RoutedBy
  <2>6. KnownBy(h)' /\ PromisedBy(h)'
    BY <1>2, <1>6, <1>7, <1>9, <2>2, <2>3, <2>4 DEF Own, KnownBy, PromisedBy
  <2>7. UpdatesAreKept'
    BY <1>2, <2>2, <2>3 DEF Own, UpdatesAreKept, Ids
  <2> QED BY <2>5, <2>6, <2>7
<1>15. ASSUME NEW t \in AlarmTimes, InOperation(h),
              hs[h].todo = set("alarm", t) \o set("alarmAt", t)
       PROVE  PendingOK(h)' /\ RoutedBy(h)' /\ KnownBy(h)' /\ PromisedBy(h)' /\ UpdatesAreKept'
  <2>1. w.key = "alarm" /\ w.val = t /\ hs'[h].todo = set("alarmAt", t)
    BY <1>6, <1>15, Shapes, RoutingShape DEF w
  <2>2. storage' = storage /\ alarm' = [at |-> t, retry |-> FALSE] /\ hist'.updated = hist.updated
    BY <1>7, <2>1 DEF Stored
  <2>3. PendingOK(h)'
    BY <1>6, <1>15, <2>1, <2>2 DEF PendingOK
  <2>4. hs[h].todo \notin {Routing, set("id", TRUE)}
    <3>1. Head(hs[h].todo).key = "alarm"
      BY <1>15, Shapes, RoutingShape
    <3> QED BY <3>1, Shapes, RoutingShape
  <2>5. RoutedBy(h)'
    BY <1>2, <1>9, <1>12, <1>15, <2>2, <2>4 DEF Own, RoutedBy, InOperation
  <2>6. KnownBy(h)' /\ PromisedBy(h)'
    BY <2>1, <2>2, Shapes, RoutingShape DEF KnownBy, PromisedBy
  <2>7. UpdatesAreKept'
    BY <1>2, <2>2 DEF Own, UpdatesAreKept, Ids
  <2> QED BY <2>3, <2>5, <2>6, <2>7
<1>16. ASSUME NEW t \in AlarmTimes, InFunction(h), hs[h].todo = set("alarmAt", t),
              ~Undisturbed \/ alarm.at = t
       PROVE  PendingOK(h)' /\ RoutedBy(h)' /\ KnownBy(h)' /\ PromisedBy(h)' /\ UpdatesAreKept'
  <2>1. w.key = "alarmAt" /\ w.val = t /\ hs'[h].todo = <<>>
    BY <1>6, <1>16, Shapes, RoutingShape DEF w
  <2>2. storage' = [storage EXCEPT !.alarmAt = t] /\ alarm' = alarm /\ hist'.updated = hist.updated
    BY <1>7, <2>1 DEF Stored
  <2>3. /\ storage'.alarmAt = t /\ storage'.id = storage.id /\ storage'.name = storage.name
        /\ storage'.state = storage.state
    BY <1>10, <2>2
  <2>4. hs[h].todo \notin {Routing, set("id", TRUE)}
    <3>1. Head(hs[h].todo).key = "alarmAt"
      BY <1>16, Shapes, RoutingShape
    <3> QED BY <3>1, Shapes, RoutingShape
  <2>5. PendingOK(h)' /\ RoutedBy(h)'
    BY <1>2, <1>9, <1>12, <1>16, <2>1, <2>3, <2>4 DEF Own, PendingOK, RoutedBy
  <2>6. KnownBy(h)' /\ PromisedBy(h)'
    BY <1>9, <1>16, <2>2, <2>3 DEF KnownBy, PromisedBy
  <2>7. UpdatesAreKept'
    BY <1>2, <2>2, <2>3 DEF Own, UpdatesAreKept, Ids
  <2> QED BY <2>5, <2>6, <2>7
<1>17. ASSUME NEW s \in States, InOperation(h),
              \/ hs[h].todo = set("state", s)
              \/ hs[h].todo = set("update", s) /\ Ids(storage.state) \subseteq s
       PROVE  PendingOK(h)' /\ RoutedBy(h)' /\ KnownBy(h)' /\ PromisedBy(h)' /\ UpdatesAreKept'
  <2>1. w.key \in {"state", "update"} /\ w.val = s /\ hs'[h].todo = <<>>
    BY <1>6, <1>17, Shapes, RoutingShape DEF w
  <2>2. storage' = [storage EXCEPT !.state = s] /\ alarm' = alarm
    BY <1>7, <2>1 DEF Stored
  <2>3. /\ storage'.alarmAt = storage.alarmAt /\ storage'.id = storage.id
        /\ storage'.name = storage.name /\ storage'.state = s
    BY <1>10, <2>2
  <2>4. /\ hs[h].todo \notin {Routing, set("id", TRUE), cancel, delete("alarmAt")}
        /\ \A t : hs[h].todo # set("alarmAt", t)
    <3>1. Head(hs[h].todo).key \in {"state", "update"}
      BY <1>17, Shapes, RoutingShape
    <3>2. /\ Head(Routing).key = "name" /\ Head(set("id", TRUE)).key = "id"
          /\ Head(cancel).key = "alarm" /\ Head(delete("alarmAt")).key = "alarmAt"
          /\ \A t : Head(set("alarmAt", t)).key = "alarmAt"
      BY FirstKeys, Zenon
    <3> QED BY <3>1, <3>2
  <2>5. PendingOK(h)' /\ RoutedBy(h)'
    BY <1>2, <1>9, <1>12, <1>17, <2>1, <2>3, <2>4 DEF Own, PendingOK, RoutedBy, InOperation
  <2>6. KnownBy(h)' /\ PromisedBy(h)'
    BY <1>2, <1>6, <1>7, <1>9, <2>2, <2>3, <2>4 DEF Own, KnownBy, PromisedBy
  <2>7. UpdatesAreKept'
    <3>1. s # Absent
      BY AbsentIsNoValue DEF AbsentIsNoValue
    <3>2. CASE hs[h].todo = set("state", s)
      <4>1. w.key = "state"
        BY <3>2, Shapes, RoutingShape DEF w
      <4> QED BY <1>7, <2>1, <2>3, <3>1, <4>1 DEF UpdatesAreKept, Ids
    <3>3. CASE hs[h].todo = set("update", s) /\ Ids(storage.state) \subseteq s
      <4>1. w.key = "update"
        BY <3>3, Shapes, RoutingShape DEF w
      <4>2. hist.updated \subseteq s
        BY <1>2, <3>3 DEF Own, UpdatesAreKept
      <4> QED BY <1>7, <2>1, <2>3, <3>1, <4>1, <4>2 DEF UpdatesAreKept, Ids
    <3> QED BY <1>17, <3>2, <3>3
  <2> QED BY <2>5, <2>6, <2>7
<1>18. CASE hs[h].pc = "done" /\ hs[h].todo = cleanup
  <2>1. w.key = "all" /\ hs'[h].todo = cancel
    BY <1>6, <1>18, Shapes, RoutingShape DEF w
  <2>2. storage' = Empty /\ alarm' = alarm /\ hist'.updated = {}
    BY <1>7, <2>1 DEF Stored
  <2>3. ~storage'.id /\ storage'.state = Absent /\ storage'.alarmAt = Absent
    BY <2>2 DEF Empty
  <2>4. Undisturbed' => \A g \in Handlers \ {h} : ~InFunction(g)'
    BY <1>5, <1>7, <2>1 DEF Undisturbed, Active, InFunction
  <2>5. PendingOK(h)' /\ RoutedBy(h)'
    BY <1>6, <1>18, <2>1, <2>2, <2>3, <2>4 DEF PendingOK, RoutedBy, InFunction
  <2>6. KnownBy(h)' /\ PromisedBy(h)' /\ UpdatesAreKept'
    BY <2>1, <2>2, <2>3 DEF KnownBy, PromisedBy, UpdatesAreKept
  <2> QED BY <2>5, <2>6
<1>19. CASE hs[h].pc = "done" /\ hs[h].todo = cancel /\ storage = Empty
  <2>1. w.key = "alarm" /\ w.val = Absent /\ hs'[h].todo = <<>>
    BY <1>6, <1>19, Shapes, RoutingShape DEF w
  <2>2. storage' = storage /\ alarm'.at = Absent /\ hist'.updated = hist.updated
    BY <1>7, <2>1 DEF Stored
  <2>3. ~storage.id /\ storage.state = Absent /\ storage.alarmAt = Absent
    BY <1>19 DEF Empty
  <2>4. PendingOK(h)' /\ RoutedBy(h)'
    BY <1>2, <1>5, <1>6, <1>9, <1>19, <2>1, <2>2, <2>3 DEF Own, PendingOK, RoutedBy, InFunction
  <2>5. KnownBy(h)' /\ PromisedBy(h)'
    BY <2>2, <2>3 DEF KnownBy, PromisedBy
  <2>6. UpdatesAreKept'
    BY <1>2, <2>2 DEF Own, UpdatesAreKept, Ids
  <2> QED BY <2>4, <2>5, <2>6
<1>20. Absent \in AlarmTimes /\ delete("alarmAt") = set("alarmAt", Absent)
  BY Shapes, RoutingShape DEF AlarmTimes
<1> QED BY <1>1, <1>13, <1>14, <1>15, <1>16, <1>17, <1>18, <1>19, <1>20, Pending
        DEF InOperation, InFunction, Undisturbed

(* A write fails: the operation is cut and recorded as such. *)
LEMMA ServingFault ==
  ASSUME DataOK, HandlersOK, HandlersOK', Serving, NEW h \in Handlers, Fault(h)
  PROVE  Serving'
<1>1. hs[h] \in HandlerState /\ hs[h].todo # <<>> /\ Turn(h) /\ UNCHANGED <<storage, alarm>>
  BY DEF HandlersOK, Fault
<1>2. Own(h)
  BY <1>1, Before
<1>3. PICK p \in IF InOperation(h) THEN {hs[h].pc, handleError(h)} ELSE {"fail"} : Goto(h, p, <<>>)
  BY DEF Fault
<1> DEFINE r == [hs[h] EXCEPT !.pc = p, !.todo = <<>>]
<1>4. hs' = [hs EXCEPT ![h] = r]
  BY <1>1, <1>3 DEF Goto, HandlersOK, HandlerState
<1>5. r.todo = <<>> /\ r.pc = p /\ r.retry = hs[h].retry /\ r.failure = hs[h].failure
  BY <1>1 DEF HandlerState
<1> HIDE DEF r
<1>6. Turn(h)' /\ hs'[h] = r /\ \A g \in Handlers \ {h} : hs'[g] = hs[g]
  BY <1>1, <1>4, TurnStays
<1>7. hs'[h].todo = <<>> /\ hs'[h].pc = p
  BY <1>5, <1>6
<1>8. /\ hist'.updated = hist.updated /\ hist'.raced = hist.raced /\ hist'.fired = hist.fired
      /\ hist'.cut = hist.cut \union Cut(h)
  BY DEF Fault, DataOK
<1>9. PendingOK(h)' /\ UpdatesAreKept' /\ RetryKnown'
  BY <1>1, <1>2, <1>5, <1>6, <1>7, <1>8, HandlerKinds
     DEF Own, PendingOK, UpdatesAreKept, RetryKnown, Ids
<1>10. SUFFICES RoutedBy(h)' /\ KnownBy(h)' /\ PromisedBy(h)'
  BY <1>6, <1>9, After DEF Own
<1>11. Undisturbed' = Undisturbed /\ (hist'.cut = {} => hist.cut = {} /\ Cut(h) = {})
  BY <1>8 DEF Undisturbed
<1>12. ASSUME InFunction(h), hs[h].todo # Routing, hs[h].todo # set("id", TRUE)
       PROVE  RoutedBy(h)'
  BY <1>1, <1>2, <1>11, <1>12 DEF Own, RoutedBy
<1>13. CASE /\ hs[h].pc \in {"handler", "fail"} /\ ~hs[h].began
            /\ hs[h].todo = Routing \/ hs[h].todo = set("id", TRUE)
  <2>1. p = "fail"
    BY <1>3, <1>13 DEF InOperation
  <2>2. Head(hs[h].todo).key \in {"name", "id"}
    BY <1>13, RoutingShape
  <2>3. /\ hs[h].todo # cancel /\ hs[h].todo # delete("alarmAt")
        /\ \A t : hs[h].todo # set("alarmAt", t)
    BY <2>2, Shapes
  <2>4. RoutedBy(h)'
    BY <1>1, <1>2, <1>6, <1>7, <1>8, <1>11, <2>1, <2>3 DEF Own, RoutedBy, AfterPurge, InFunction
  <2>5. KnownBy(h)' /\ PromisedBy(h)'
    BY <1>1, <1>2, <1>7, <1>8, <1>11, <2>1, <2>3 DEF Own, KnownBy, PromisedBy
  <2> QED BY <2>4, <2>5
<1>14. ASSUME NEW t \in AlarmTimes, InOperation(h),
              hs[h].todo = set("alarm", t) \o set("alarmAt", t)
       PROVE  RoutedBy(h)' /\ KnownBy(h)' /\ PromisedBy(h)'
  <2>1. /\ Head(hs[h].todo).key = "alarm" /\ Tail(hs[h].todo) # <<>>
    BY <1>14, Shapes
  <2>2. /\ hs[h].todo \notin {Routing, set("id", TRUE), cancel, delete("alarmAt")}
        /\ \A u : hs[h].todo # set("alarmAt", u)
    <3>1. Head(Routing).key = "name" /\ Head(set("id", TRUE)).key = "id"
      BY RoutingShape
    <3>2. Tail(cancel) = <<>>
      BY Shapes
    <3>3. \A u : Tail(set("alarmAt", u)) = <<>>
      BY Shapes
    <3>4. Tail(delete("alarmAt")) = <<>>
      BY <3>3, Shapes
    <3> QED BY <2>1, <3>1, <3>2, <3>3, <3>4
  <2>3. hs[h].pc # "fail"
    BY <1>14 DEF InOperation, InFunction
  <2>4. RoutedBy(h)'
    BY <1>12, <1>14, <2>2 DEF InOperation
  <2>5. KnownBy(h)' /\ PromisedBy(h)'
    BY <1>1, <1>2, <1>8, <1>11, <2>2, <2>3 DEF Own, KnownBy, PromisedBy
  <2> QED BY <2>4, <2>5
<1>15. ASSUME NEW t \in AlarmTimes, InOperation(h), hs[h].todo = set("alarmAt", t), alarm.at = t
       PROVE  RoutedBy(h)' /\ KnownBy(h)' /\ PromisedBy(h)'
  <2>1. Head(hs[h].todo).key = "alarmAt" /\ Head(hs[h].todo).val = t
    BY <1>15, Shapes
  <2>2. hs[h].todo # Routing /\ hs[h].todo # set("id", TRUE)
    BY <2>1, RoutingShape
  <2>3. Cut(h) = {IF t = Absent THEN "cancel" ELSE "schedule"}
    BY <1>1, <1>15, <2>1 DEF Cut
  <2>4. RoutedBy(h)'
    BY <1>12, <1>15, <2>2 DEF InOperation
  <2>5. KnownBy(h)'
    BY <1>11, <2>3 DEF KnownBy
  <2>6. PromisedBy(h)'
    BY <1>1, <1>8, <1>15, <2>3 DEF PromisedBy
  <2> QED BY <2>4, <2>5, <2>6
<1>16. CASE /\ hs[h].pc = "handler" /\ ~hs[h].began /\ hs[h].todo = delete("alarmAt")
            /\ IF h = "alarm" THEN alarm.at = Absent ELSE hist.fired
  <2>1. p = "fail"
    BY <1>3, <1>16 DEF InOperation
  <2>2. Head(hs[h].todo).key = "alarmAt"
    BY <1>16, Shapes
  <2>3. hs[h].todo # Routing /\ hs[h].todo # set("id", TRUE)
    BY <2>2, RoutingShape
  <2>4. RoutedBy(h)'
    BY <1>12, <1>16, <2>3 DEF InFunction
  <2>5. KnownBy(h)' /\ PromisedBy(h)'
    BY <1>1, <1>7, <1>11, <1>16, <2>1 DEF KnownBy, PromisedBy, Undisturbed
  <2> QED BY <2>4, <2>5
<1>17. ASSUME NEW s \in States, InOperation(h),
              hs[h].todo = set("state", s) \/ hs[h].todo = set("update", s)
       PROVE  RoutedBy(h)' /\ KnownBy(h)' /\ PromisedBy(h)'
  <2>1. Head(hs[h].todo).key \in {"state", "update"}
    BY <1>17, Shapes
  <2>2. /\ Head(Routing).key = "name" /\ Head(set("id", TRUE)).key = "id"
        /\ Head(cancel).key = "alarm" /\ Head(delete("alarmAt")).key = "alarmAt"
        /\ \A t : Head(set("alarmAt", t)).key = "alarmAt"
    BY FirstKeys, Zenon
  <2>3. hs[h].todo # Routing /\ hs[h].todo # set("id", TRUE)
        /\ hs[h].todo # cancel /\ hs[h].todo # delete("alarmAt")
        /\ \A t : hs[h].todo # set("alarmAt", t)
    BY <2>1, <2>2
  <2>4. hs[h].pc # "fail"
    BY <1>17 DEF InOperation, InFunction
  <2>5. RoutedBy(h)'
    BY <1>12, <1>17, <2>3 DEF InOperation
  <2>6. KnownBy(h)' /\ PromisedBy(h)'
    BY <1>1, <1>2, <1>8, <1>11, <2>3, <2>4 DEF Own, KnownBy, PromisedBy
  <2> QED BY <2>5, <2>6
<1>18. CASE hs[h].pc = "done" /\ hs[h].todo = cleanup
  <2>1. Head(hs[h].todo).key = "all" /\ p = "fail"
    BY <1>3, <1>18, Shapes DEF InOperation, InFunction
  <2>2. /\ hs[h].todo # cancel /\ hs[h].todo # delete("alarmAt")
        /\ \A t : hs[h].todo # set("alarmAt", t)
    BY <2>1, Shapes
  <2>3. RoutedBy(h)'
    BY <1>1, <1>2, <1>6, <1>7, <1>8, <1>11, <1>18, <2>1, <2>2
       DEF Own, RoutedBy, AfterPurge, InFunction
  <2>4. KnownBy(h)' /\ PromisedBy(h)'
    BY <1>1, <1>2, <1>8, <1>11, <1>18, <2>2 DEF Own, KnownBy, PromisedBy
  <2> QED BY <2>3, <2>4
<1>19. CASE hs[h].pc = "done" /\ hs[h].todo = cancel /\ storage = Empty
  <2>1. Head(hs[h].todo).key = "alarm" /\ p = "fail"
    BY <1>3, <1>19, Shapes DEF InOperation, InFunction
  <2>2. Cut(h) = {"purge"}
    BY <1>1, <1>19, <2>1 DEF Cut
  <2>3. storage'.alarmAt = Absent /\ storage'.state = Absent /\ ~storage'.id
    BY <1>1, <1>19 DEF Empty
  <2>4. RoutedBy(h)'
    BY <1>1, <1>2, <1>6, <1>7, <1>8, <1>11, <1>19, <2>1, <2>2, <2>3
       DEF Own, RoutedBy, AfterPurge, InFunction
  <2>5. KnownBy(h)' /\ PromisedBy(h)'
    BY <1>8, <2>2, <2>3 DEF KnownBy, PromisedBy
  <2> QED BY <2>4, <2>5
<1> QED BY <1>1, <1>13, <1>14, <1>15, <1>16, <1>17, <1>18, <1>19, Pending

(* A crash cuts what every handler was doing, and the alarm comes again.   *)
LEMMA ServingCrash ==
  ASSUME DataOK, HandlersOK, HandlersOK', Serving, Crash
  PROVE  Serving'
<1>1. /\ \A h \in Handlers : hs'[h] = Idle
      /\ storage' = storage /\ hist'.updated = hist.updated /\ hist'.raced = hist.raced
      /\ hist'.fired = hist.fired /\ hist.cut \subseteq hist'.cut
      /\ \A h \in Handlers : Cut(h) \subseteq hist'.cut
  BY DEF Crash, DataOK
<1>2. Idle.todo = <<>> /\ Idle.pc = "idle" /\ ~Idle.retry
  BY DEF Idle
<1>3. \/ alarm' = alarm /\ ~(Active("alarm") /\ alarm.at = Absent)
      \/ Active("alarm") /\ alarm.at = Absent /\ alarm'.retry /\ alarm'.at # Absent
  BY RedeliveryTyped, HandlerKinds DEF Crash
<1>4. \A h \in Handlers : hs[h].todo = cancel => "purge" \in Cut(h)
  <2> SUFFICES ASSUME NEW h \in Handlers, hs[h].todo = cancel PROVE "purge" \in Cut(h)
    OBVIOUS
  <2>1. hs[h].todo # <<>> /\ Head(hs[h].todo).key = "alarm" /\ Tail(hs[h].todo) = <<>>
    BY Shapes
  <2>2. /\ Head(Routing).key = "name" /\ Head(set("id", TRUE)).key = "id"
    BY RoutingShape
  <2>3. \A t : Head(set("alarmAt", t)).key = "alarmAt"
    BY Shapes
  <2>4. Head(delete("alarmAt")).key = "alarmAt"
    BY <2>3, Shapes
  <2>5. \A t : Tail(set("alarm", t) \o set("alarmAt", t)) # <<>>
    BY Shapes
  <2>6. \A s : Head(set("state", s)).key = "state" /\ Head(set("update", s)).key = "update"
    BY Shapes
  <2>7. hs[h].pc = "done"
    <3> SUFFICES ASSUME hs[h].pc # "done" PROVE FALSE
      OBVIOUS
    <3>1. hs[h].todo # Routing /\ hs[h].todo # set("id", TRUE) /\ hs[h].todo # delete("alarmAt")
      BY <2>1, <2>2, <2>4
    <3>2. \A t : /\ hs[h].todo # set("alarmAt", t)
                 /\ hs[h].todo # set("alarm", t) \o set("alarmAt", t)
      BY <2>1, <2>3, <2>5
    <3>3. \A s : hs[h].todo # set("state", s) /\ hs[h].todo # set("update", s)
      BY <2>1, <2>6
    <3> QED BY <2>1, <3>1, <3>2, <3>3, Pending
  <2> QED BY <2>1, <2>7 DEF Cut
<1>5. \A h \in Handlers, t \in AlarmTimes : hs[h].todo = set("alarmAt", t) =>
         \/ Cut(h) = {IF t = Absent THEN "cancel" ELSE "schedule"}
         \/ hist.fired
         \/ Active("alarm") /\ alarm.at = Absent
  <2> SUFFICES ASSUME NEW h \in Handlers, NEW t \in AlarmTimes, hs[h].todo = set("alarmAt", t)
               PROVE  \/ Cut(h) = {IF t = Absent THEN "cancel" ELSE "schedule"}
                      \/ hist.fired
                      \/ Active("alarm") /\ alarm.at = Absent
    OBVIOUS
  <2>1. /\ hs[h].todo # <<>> /\ Head(hs[h].todo).key = "alarmAt" /\ Head(hs[h].todo).val = t
    BY Shapes
  <2>2. InOperation(h) \/ (hs[h].pc = "handler" /\ IF h = "alarm" THEN alarm.at = Absent ELSE hist.fired)
    BY <2>1, Pending, Shapes, RoutingShape
  <2>3. CASE InOperation(h)
    BY <2>1, <2>3 DEF Cut, InOperation, InFunction
  <2> QED BY <2>2, <2>3 DEF Active
<1>6. AlarmFails => Active("alarm")
  BY DEF AlarmFails, Active
<1>7. \A h \in Handlers : PendingOK(h)'
  BY <1>1, <1>2 DEF PendingOK
<1>8. Unrouted'
  <2>1. storage'.id => storage'.name
    BY <1>1 DEF Serving, Unrouted
  <2>2. ASSUME Undisturbed', ~storage'.id
        PROVE  /\ storage'.state = Absent /\ storage'.alarmAt = Absent
               /\ (alarm.at = Absent \/ AfterPurge)'
    <3>1. /\ storage.state = Absent /\ storage.alarmAt = Absent
          /\ alarm.at = Absent \/ AfterPurge \/ \E h \in Handlers : hs[h].todo = cancel
      BY <1>1, <2>2 DEF Serving, Unrouted, Undisturbed
    <3> QED BY <1>1, <1>3, <1>4, <3>1 DEF AfterPurge
  <2>3. \A h \in Handlers : ~InFunction(h)'
    BY <1>1, <1>2 DEF InFunction
  <2> QED BY <2>1, <2>2, <2>3 DEF Unrouted
<1>9. AlarmKnown'
  <2> SUFFICES ASSUME Undisturbed', hist'.cut = {}, ~alarm'.retry
               PROVE  storage'.alarmAt = alarm'.at
    BY DEF AlarmKnown
  <2>1. Undisturbed /\ hist.cut = {} /\ alarm' = alarm /\ ~(Active("alarm") /\ alarm.at = Absent)
    BY <1>1, <1>3 DEF Undisturbed
  <2>2. ~\E h \in Handlers : hs[h].todo = cancel
    BY <1>1, <1>4
  <2>3. ~\E h \in Handlers, t \in AlarmTimes : hs[h].todo = set("alarmAt", t)
    BY <1>1, <1>5, <2>1 DEF Undisturbed
  <2> QED BY <1>1, <1>6, <2>1, <2>2, <2>3 DEF Serving, AlarmKnown
<1>10. AlarmPromised'
  <2> SUFFICES ASSUME Undisturbed', "cancel" \notin hist'.cut, storage'.alarmAt # Absent,
                      alarm'.at = Absent
               PROVE  FALSE
    BY DEF AlarmPromised
  <2>1. /\ Undisturbed /\ "cancel" \notin hist.cut /\ alarm.at = Absent /\ ~Active("alarm")
    BY <1>1, <1>3 DEF Undisturbed
  <2>2. ~\E h \in Handlers : hs[h].todo = delete("alarmAt")
    <3>1. Absent \in AlarmTimes /\ delete("alarmAt") = set("alarmAt", Absent)
      BY Shapes DEF AlarmTimes
    <3> QED BY <1>1, <1>5, <2>1, <3>1 DEF Undisturbed
  <2> QED BY <1>1, <1>6, <2>1, <2>2 DEF Serving, AlarmPromised
<1>11. UpdatesAreKept' /\ RetryKnown'
  BY <1>1, <1>2, HandlerKinds DEF Serving, UpdatesAreKept, RetryKnown, Ids
<1> QED BY <1>7, <1>8, <1>9, <1>10, <1>11 DEF Serving

-----------------------------------------------------------------------------
LEMMA ServingInit == Init => Serving
<1> SUFFICES ASSUME Init PROVE Serving
  OBVIOUS
<1>1. /\ \A h \in Handlers : hs[h].todo = <<>> /\ hs[h].pc = "idle" /\ ~hs[h].retry
      /\ storage.alarmAt = Absent /\ storage.state = Absent /\ ~storage.id
      /\ alarm.at = Absent /\ hist.updated = {}
  BY DEF Init, Idle, Empty, NoAlarm
<1> QED BY <1>1, HandlerKinds
        DEF Serving, PendingOK, Unrouted, AlarmKnown, AlarmPromised, UpdatesAreKept,
            RetryKnown, InFunction

(* The values of the variables and what is true between the writes, in     *)
(* every reachable state.                                                  *)
THEOREM Serves == Spec => [](TypeOK /\ Serving)
<1>1. Init => TypeOK /\ Serving
  BY TypeInit, ServingInit
<1>2. TypeOK /\ Serving /\ [Next]_vars => TypeOK' /\ Serving'
  <2> SUFFICES ASSUME TypeOK, Serving, [Next]_vars PROVE TypeOK' /\ Serving'
    OBVIOUS
  <2>1. DataOK /\ HandlersOK
    BY Types
  <2>2. TypeOK' /\ HandlersOK'
    BY TypeStep DEF TypeOK, HandlersOK
  <2>3. CASE \E h \in Requests : Call(h)
    BY <2>1, <2>2, <2>3, ServingCall
  <2>4. CASE AlarmRuns \/ AlarmIgnored
    BY <2>1, <2>2, <2>4, ServingAlarm
  <2>5. CASE \E h \in Handlers : Step(h)
    BY <2>1, <2>2, <2>5, ServingPerform, ServingFunction, ServingEnd DEF Step
  <2>6. CASE \E h \in Handlers : Fault(h)
    BY <2>1, <2>2, <2>6, ServingFault
  <2>7. CASE Crash
    BY <2>1, <2>2, <2>7, ServingCrash
  <2>8. CASE Evict \/ UNCHANGED vars
    <3>1. UNCHANGED <<storage, alarm, hs, hist>>
      BY <2>8 DEF Evict, vars
    <3>2. \A h \in Handlers : PendingOK(h)'
      BY <3>1, ZenonT(40) DEF Serving, PendingOK, InOperation, InFunction, Ids
    <3>3. Unrouted' /\ AlarmKnown' /\ AlarmPromised'
      BY <3>1 DEF Serving, Unrouted, AlarmKnown, AlarmPromised, Undisturbed, AfterPurge,
             InFunction, AlarmFails
    <3> QED BY <2>2, <3>1, <3>2, <3>3 DEF Serving, UpdatesAreKept, RetryKnown, Ids
  <2> QED BY <2>2, <2>3, <2>4, <2>5, <2>6, <2>7, <2>8 DEF Next
<1> QED BY <1>1, <1>2, PTL DEF Spec

(* No handler has a write to come, or fails, when all is quiet. *)
LEMMA QuietHandlers ==
  ASSUME TypeOK, Quiet
  PROVE  /\ \A h \in Handlers : hs[h].todo = <<>> /\ ~InFunction(h) /\ hs[h].pc = "idle"
         /\ "alarm" \in Handlers
  BY HandlerKinds DEF TypeOK, Quiet, Active, Idle, InFunction

(* nextAlarm() tells when the object will wake up: scheduleAt,             *)
(* cancelSchedule, handleAlarm and the clean-up keep the stored time and   *)
(* the object's alarm together.                                            *)
THEOREM NextAlarm == Spec => []NextAlarmTells
<1>1. TypeOK /\ Serving => NextAlarmTells
  BY QuietHandlers, Shapes DEF NextAlarmTells, Serving, AlarmKnown, AlarmFails
<1> QED BY <1>1, Serves, PTL

(* An alarm that nextAlarm() promises is set, whatever crashes, unless its *)
(* cancellation was cut: the order of the two writes.                      *)
THEOREM PromiseKept == Spec => []PromisedAlarmIsSet
<1>1. TypeOK /\ Serving => PromisedAlarmIsSet
  BY QuietHandlers, Shapes DEF PromisedAlarmIsSet, Serving, AlarmPromised, AlarmFails
<1> QED BY <1>1, Serves, PTL

(* The clean-up of a purge leaves nothing of the instance.                 *)
THEOREM PurgeLeavesNothing == Spec => []PurgedMeansGone
<1>1. TypeOK /\ Serving => PurgedMeansGone
  <2> SUFFICES ASSUME TypeOK, Serving, Quiet, Undisturbed, ~storage.name
               PROVE  storage = Empty /\ (alarm.at = Absent \/ AfterPurge)
    BY DEF PurgedMeansGone
  <2>1. /\ ~storage.id /\ storage.state = Absent /\ storage.alarmAt = Absent
        /\ alarm.at = Absent \/ AfterPurge
    BY QuietHandlers, Shapes DEF Serving, Unrouted
  <2> QED BY <2>1 DEF TypeOK, Empty
<1> QED BY <1>1, Serves, PTL

(* update() recalls and saves in one: handlers in flight together do not   *)
(* lose each other's updates.                                              *)
THEOREM UpdatesLast == Spec => []UpdatesAreKept
<1>1. TypeOK /\ Serving => UpdatesAreKept
  BY DEF Serving
<1> QED BY <1>1, Serves, PTL

(* The context of a retried alarm knows the failure.                       *)
THEOREM RetriesKnow == Spec => []RetryKnowsFailure
<1>1. TypeOK /\ Serving => RetryKnowsFailure
  BY DEF Serving, RetryKnown, RetryKnowsFailure
<1> QED BY <1>1, Serves, PTL

(* No alarm of a task that is there is ignored: the routing keys are       *)
(* written before a handler can schedule, and deleted with the alarm.      *)
THEOREM NoAlarmIsLost == Spec => AlarmsAreHeard
<1>1. TypeOK /\ Serving /\ [Next]_vars => [AlarmIgnored => ~Undisturbed \/ AfterPurge]_vars
  <2> SUFFICES ASSUME TypeOK, Serving, AlarmIgnored, Undisturbed PROVE AfterPurge
    OBVIOUS
  <2>1. "alarm" \in Handlers /\ Turn("alarm") /\ ~Active("alarm") /\ HandlersOK
    BY HandlerKinds, Types DEF AlarmIgnored
  <2>2. RoutedBy("alarm") /\ hs["alarm"].todo = <<>>
    BY <2>1, Before DEF Own, HandlersOK, Idle
  <2> QED BY <2>2, Shapes DEF AlarmIgnored, RoutedBy
<1> QED BY <1>1, Serves, PTL DEF Spec, AlarmsAreHeard

=============================================================================
