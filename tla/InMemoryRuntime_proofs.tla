----------------------- MODULE InMemoryRuntime_proofs -----------------------
(***************************************************************************)
(* Theorems about the in-memory runtime: its types, that nextAlarm() tells *)
(* the truth, that updates are kept and instances apart, and that neither  *)
(* an injected failure nor an alarm is lost.                               *)
(***************************************************************************)
EXTENDS InMemoryRuntime, SequenceTheorems, TLAPS

USE TimesAreNumbers, AbsentIsNothing, MaxIdsIsNumber

-----------------------------------------------------------------------------
(* The handlers in flight are a stack. *)

(* The innermost handler is one of them, on a stack of the others. *)
LEMMA TopAndBelow ==
    ASSUME TypeOK, stack # <<>>
    PROVE  /\ Top \in Frames /\ 1 \in 1 .. Len(stack) /\ Top = stack[1]
           /\ Below \in Seq(Frames)
           /\ \A n \in 1 .. Len(Below) :
                 n + 1 \in 1 .. Len(stack) /\ Below[n] = stack[n + 1]
  <1> DEFINE frames == Frames
  <1>1. stack \in Seq(frames)
    BY DEF TypeOK
  <1> HIDE DEF frames
  <1>2. /\ stack[1] \in frames /\ 1 \in 1 .. Len(stack)
        /\ Tail(stack) \in Seq(frames)
        /\ \A n \in 1 .. Len(Tail(stack)) :
              n + 1 \in 1 .. Len(stack) /\ Tail(stack)[n] = stack[n + 1]
    BY <1>1
  <1> QED
    BY <1>2 DEF frames, Top, Below

(* A handler that has started is on top of those there were. *)
LEMMA EnteredIsOnTop ==
    ASSUME TypeOK, NEW f \in Frames, Enter(f)
    PROVE  /\ stack' \in Seq(Frames)
           /\ \A n \in 1 .. Len(stack') :
                 \/ stack'[n] = f
                 \/ n - 1 \in 1 .. Len(stack) /\ stack'[n] = stack[n - 1]
  <1> DEFINE frames == Frames
  <1>1. stack \in Seq(frames) /\ stack' = <<f>> \o stack /\ f \in frames
    BY DEF Enter, TypeOK
  <1> HIDE DEF frames
  <1>2. /\ stack' \in Seq(frames)
        /\ \A n \in 1 .. Len(stack') :
              \/ stack'[n] = f
              \/ n - 1 \in 1 .. Len(stack) /\ stack'[n] = stack[n - 1]
    BY <1>1
  <1> QED
    BY <1>2 DEF frames

(* A context is made of what is known of its instance. *)
LEMMA ContextIsAFrame ==
    ASSUME TypeOK, NEW i \in Instances
    PROVE  /\ makeHandlerContext(i) \in Frames
           /\ makeHandlerContext(i).inst = i
           /\ makeHandlerContext(i).at = place[i]
           /\ makeHandlerContext(i).seen = Absent
           /\ makeHandlerContext(i).failure = systemFailure[i]
  BY DEF makeHandlerContext, Frames, TypeOK

(* Telling a handler of a failure changes nothing else. *)
LEMMA TellingIsHistory ==
    ASSUME TypeOK, NEW f \in Frames
    PROVE  /\ Seen(f) \in Histories
           /\ \A j \in Instances : Seen(f).unseen[j] =>
                 hist.unseen[j] /\ (j = f.inst => ~f.failure)
           /\ Seen(f).issued = hist.issued /\ Seen(f).saved = hist.saved
           /\ Seen(f).updated = hist.updated /\ Seen(f).due = hist.due
           /\ Seen(f).fired = hist.fired /\ Seen(f).cancelled = hist.cancelled
  <1> DEFINE told == hist.unseen[f.inst] /\ ~f.failure
             unseen == [hist.unseen EXCEPT ![f.inst] = told]
             histories == Histories
  <1>1. f.inst \in Instances /\ hist \in histories
    BY DEF Frames, TypeOK
  <1>2. hist.unseen \in [Instances -> BOOLEAN] /\ told \in BOOLEAN
    BY <1>1 DEF Histories
  <1>3. Seen(f) = [hist EXCEPT !.unseen = unseen]
    BY DEF Seen
  <1>4. /\ unseen \in [Instances -> BOOLEAN]
        /\ \A j \in Instances : unseen[j] = IF j = f.inst THEN told ELSE hist.unseen[j]
    <2> HIDE DEF told
    <2> QED
      BY <1>1, <1>2
  <1>5. \A j \in Instances : unseen[j] => hist.unseen[j] /\ (j = f.inst => ~f.failure)
    BY <1>4, Zenon
  <1> HIDE DEF unseen
  <1>6. /\ Seen(f) \in Histories /\ Seen(f).unseen = unseen
        /\ Seen(f).issued = hist.issued /\ Seen(f).saved = hist.saved
        /\ Seen(f).updated = hist.updated /\ Seen(f).due = hist.due
        /\ Seen(f).fired = hist.fired /\ Seen(f).cancelled = hist.cancelled
    BY <1>1, <1>3, <1>4 DEF Histories
  <1> QED
    BY <1>5, <1>6

(* The same for the alarm's handler, which counts as fired. *)
LEMMA FiringIsHistory ==
    ASSUME TypeOK, NEW f \in Frames
    PROVE  /\ Fired(f) \in Histories
           /\ \A j \in Instances : Fired(f).unseen[j] =>
                 hist.unseen[j] /\ (j = f.inst => ~f.failure)
           /\ Fired(f).issued = hist.issued /\ Fired(f).saved = hist.saved
           /\ Fired(f).updated = hist.updated /\ Fired(f).due = hist.due
           /\ Fired(f).fired = hist.fired \union {f.inst}
           /\ Fired(f).cancelled = hist.cancelled
  <1> DEFINE seen == Seen(f)
  <1>1. /\ seen \in Histories /\ f.inst \in Instances
        /\ Fired(f) = [seen EXCEPT !.fired = @ \union {f.inst}]
    BY TellingIsHistory DEF Fired, Frames
  <1>2. /\ \A j \in Instances : seen.unseen[j] =>
              hist.unseen[j] /\ (j = f.inst => ~f.failure)
        /\ seen.issued = hist.issued /\ seen.saved = hist.saved
        /\ seen.updated = hist.updated /\ seen.due = hist.due
        /\ seen.fired = hist.fired /\ seen.cancelled = hist.cancelled
    BY TellingIsHistory
  <1> HIDE DEF seen
  <1>3. /\ Fired(f) \in Histories
        /\ Fired(f).unseen = seen.unseen
        /\ Fired(f).issued = seen.issued /\ Fired(f).saved = seen.saved
        /\ Fired(f).updated = seen.updated /\ Fired(f).due = seen.due
        /\ Fired(f).fired = seen.fired \union {f.inst}
        /\ Fired(f).cancelled = seen.cancelled
    BY <1>1 DEF Histories
  <1> QED
    BY <1>2, <1>3

-----------------------------------------------------------------------------
(* Types. *)

(* Times, states and what is no longer set are what places may hold. *)
LEMMA Setting ==
    ASSUME TypeOK, NEW p \in Instances, NEW t \in AlarmTimes
    PROVE  /\ [alarm EXCEPT ![p] = t] \in [Instances -> AlarmTimes]
           /\ [storage EXCEPT ![p].alarmAt = t] \in
                 [Instances -> [state : {Absent} \union States, alarmAt : AlarmTimes]]
  BY DEF TypeOK

(* The contexts of handlers called from outside keep the types. *)
LEMMA EnteringKeepsTypes ==
    ASSUME TypeOK, NEW i \in Instances
    PROVE  /\ Enter(makeHandlerContext(i)) => stack' \in Seq(Frames)
           /\ Seen(makeHandlerContext(i)) \in Histories
           /\ Fired(makeHandlerContext(i)) \in Histories
  BY ContextIsAFrame, EnteredIsOnTop, TellingIsHistory, FiringIsHistory

(* A stack whose top is changed is a stack of handlers. *)
LEMMA ChangingTheTop ==
    ASSUME TypeOK, stack # <<>>, NEW f \in Frames, stack' = [stack EXCEPT ![1] = f]
    PROVE  /\ stack' \in Seq(Frames) /\ Len(stack') = Len(stack)
           /\ stack'[1] = f
           /\ \A n \in 1 .. Len(stack') : n # 1 => stack'[n] = stack[n]
  <1> DEFINE frames == Frames
  <1>1. stack \in Seq(frames) /\ f \in frames
    BY DEF TypeOK
  <1> HIDE DEF frames
  <1>2. stack' \in Seq(frames) /\ Len(stack') = Len(stack) /\ stack'[1] = f
    BY <1>1
  <1> QED
    BY <1>1, <1>2 DEF frames

(* The types are kept by what is done from outside ... *)
LEMMA OutsideKeepsTypes ==
    ASSUME TypeOK, Outside
    PROVE  TypeOK'
  <1>1. ASSUME NEW i \in Instances, handleEvent(i)
        PROVE  TypeOK'
    BY <1>1, EnteringKeepsTypes DEF TypeOK, handleEvent, Calls
  <1>2. ASSUME NEW i \in Instances, fireAlarm(i)
        PROVE  TypeOK'
    <2>1. place[i] \in Instances /\ Absent \in AlarmTimes
      BY DEF TypeOK, AlarmTimes
    <2>2. /\ alarm' \in [Instances -> AlarmTimes]
          /\ storage' \in
               [Instances -> [state : {Absent} \union States, alarmAt : AlarmTimes]]
      BY <1>2, <2>1, Setting DEF fireAlarm, handleAlarm
    <2> QED
      BY <1>2, <2>2, EnteringKeepsTypes DEF TypeOK, fireAlarm, handleAlarm, Calls
  <1>3. ASSUME NEW i \in Instances, injectSystemFailure(i)
        PROVE  TypeOK'
    <2>1. [hist EXCEPT !.unseen[i] = TRUE] \in Histories
      BY DEF TypeOK, Histories
    <2> QED
      BY <1>3, <2>1 DEF TypeOK, injectSystemFailure, Calls
  <1>4. ASSUME NEW t \in Times, tick(t)
        PROVE  TypeOK'
    <2>1. Due(t) \subseteq Instances
      BY DEF Due
    <2>2. hist' \in Histories
      BY <1>4, <2>1 DEF TypeOK, Histories, tick
    <2> QED
      BY <1>4, <2>1, <2>2 DEF TypeOK, tick, Calls
  <1> QED
    BY <1>1, <1>2, <1>3, <1>4 DEF Outside

(* ... by the tick ... *)
LEMMA TickingKeepsTypes ==
    ASSUME TypeOK, Ticking
    PROVE  TypeOK'
  <1>1. CASE TickEnds
    BY <1>1 DEF TypeOK, TickEnds
  <1>2. ASSUME NEW i \in Instances, TickFires(i)
        PROVE  TypeOK'
    <2>1. place[i] \in Instances /\ Absent \in AlarmTimes
      BY DEF TypeOK, AlarmTimes
    <2>2. /\ alarm' \in [Instances -> AlarmTimes]
          /\ storage' \in
               [Instances -> [state : {Absent} \union States, alarmAt : AlarmTimes]]
      BY <1>2, <2>1, Setting DEF TickFires, handleAlarm
    <2> QED
      BY <1>2, <2>2, EnteringKeepsTypes DEF TypeOK, TickFires, handleAlarm
  <1> QED
    BY <1>1, <1>2 DEF Ticking

(* ... and by the innermost handler. *)
LEMMA HandlerKeepsTypes ==
    ASSUME TypeOK, Handler
    PROVE  TypeOK'
  <1>1. stack # <<>>
    BY DEF Handler, recall, save, update, cancelSchedule, purge, Returns,
           Throws, scheduleAt, send, Uses
  <1>2. /\ Top \in Frames /\ Top = stack[1] /\ Below \in Seq(Frames)
        /\ Top.at \in Instances /\ Top.inst \in Instances
        /\ Top.seen \in {Absent} \union States
    BY <1>1, TopAndBelow DEF Frames
  <1>3. /\ storage[Top.at].state \in {Absent} \union States
        /\ Ids(storage[Top.at].state) \in States /\ Ids(Top.seen) \in States
    BY <1>2 DEF TypeOK, Ids, States
  <1>4. CASE recall
    <2>1. [Top EXCEPT !.seen = storage[Top.at].state] \in Frames
      BY <1>2, <1>3 DEF Frames
    <2>2. stack' = [stack EXCEPT ![1] = [Top EXCEPT !.seen = storage[Top.at].state]]
      BY <1>2, <1>4 DEF recall
    <2>3. stack' \in Seq(Frames)
      BY <1>1, <2>1, <2>2, ChangingTheTop
    <2> QED
      BY <1>1, <1>4, <2>3 DEF TypeOK, recall, Uses
  <1>5. ASSUME NEW s \in States, Uses, Store(s),
               NEW u \in States,
               hist' = [Issued EXCEPT !.updated[Top.at] = u]
        PROVE  TypeOK'
    <2>1. NewId \in 1 .. MaxIds
      BY <1>5 DEF NewId, Store, TypeOK, Histories
    <2>2. hist' \in Histories
      <3>1. Issued \in Histories
        <4> DEFINE saved == [hist.saved EXCEPT ![Top.inst] = @ \union {NewId}]
        <4>1. saved \in [Instances -> States]
          BY <1>2, <2>1 DEF TypeOK, Histories, States
        <4>2. Issued = [[hist EXCEPT !.issued = NewId] EXCEPT !.saved = saved]
          BY DEF Issued
        <4>3. NewId \in 0 .. MaxIds
          BY <2>1
        <4> HIDE DEF saved
        <4> QED
          BY <4>1, <4>2, <4>3 DEF TypeOK, Histories
      <3> QED
        BY <1>2, <1>5, <3>1 DEF Histories
    <2>3. storage' \in [Instances -> [state : {Absent} \union States, alarmAt : AlarmTimes]]
      BY <1>2, <1>5, <2>1 DEF Store, TypeOK, States
    <2> QED
      BY <1>1, <1>5, <2>2, <2>3 DEF TypeOK, Uses, Store
  <1>6. CASE save
    <2>1. hist.updated[Top.at] \intersect Ids(Top.seen) \in States
      BY <1>2, <1>3 DEF States
    <2>2. hist' = [Issued EXCEPT !.updated[Top.at] =
                                    hist.updated[Top.at] \intersect Ids(Top.seen)]
      BY <1>6 DEF save, Issued, TypeOK, Histories
    <2> QED
      BY <1>3, <1>5, <1>6, <2>1, <2>2 DEF save
  <1>7. CASE update
    <2>1. NewId \in 1 .. MaxIds /\ storage[Top.at].state \in States
      BY <1>3, <1>7 DEF update, NewId, Store, TypeOK, Histories
    <2>2. hist.updated[Top.at] \union storage[Top.at].state \union {NewId} \in States
      BY <1>2, <2>1 DEF States, TypeOK, Histories
    <2>3. hist' = [Issued EXCEPT !.updated[Top.at] =
                     hist.updated[Top.at] \union storage[Top.at].state \union {NewId}]
      BY <1>7 DEF update, Issued, TypeOK, Histories
    <2> QED
      BY <1>5, <1>7, <2>1, <2>2, <2>3 DEF update
  <1>8. ASSUME NEW t \in AlarmTimes, Uses,
               alarm' = [alarm EXCEPT ![Top.at] = t],
               storage' = [storage EXCEPT ![Top.at].alarmAt = t],
               stack' = stack, hist' \in Histories
        PROVE  TypeOK'
    <2>1. /\ alarm' \in [Instances -> AlarmTimes]
          /\ storage' \in
               [Instances -> [state : {Absent} \union States, alarmAt : AlarmTimes]]
      BY <1>2, <1>8, Setting
    <2> QED
      BY <1>8, <2>1 DEF TypeOK, Uses
  <1>9. Cancelled \in Histories
    BY <1>2 DEF Cancelled, TypeOK, Histories
  <1>10. CASE cancelSchedule
    BY <1>8, <1>9, <1>10 DEF cancelSchedule, AlarmTimes
  <1>11. ASSUME NEW t \in Times, scheduleAt(t)
         PROVE  TypeOK'
    BY <1>8, <1>11 DEF scheduleAt, AlarmTimes, TypeOK
  <1>12. ASSUME NEW j \in Instances, send(j)
         PROVE  TypeOK'
    BY <1>1, <1>12, EnteringKeepsTypes DEF TypeOK, send, Uses
  <1>13. ASSUME Succeeds, hist' \in Histories,
                alarm' \in [Instances -> AlarmTimes],
                storage' \in
                  [Instances -> [state : {Absent} \union States, alarmAt : AlarmTimes]]
         PROVE  TypeOK'
    <2>1. CASE Below = <<>>
      BY <1>2, <1>13, <2>1 DEF TypeOK, Succeeds
    <2>2. CASE Below # <<>>
      BY <1>1, <1>2, <1>13, <2>2 DEF TypeOK, Succeeds
    <2> QED
      BY <2>1, <2>2
  <1>14. CASE Returns
    BY <1>13, <1>14 DEF Returns, TypeOK
  <1>15. CASE purge
    <2>1. hist' \in Histories
      BY <1>2, <1>9, <1>15 DEF purge, Histories, States
    <2>2. storage' \in [Instances -> [state : {Absent} \union States, alarmAt : AlarmTimes]]
      BY <1>2, <1>15 DEF purge, TypeOK, Empty, AlarmTimes
    <2>3. alarm' \in [Instances -> AlarmTimes]
      BY <1>2, <1>15 DEF purge, TypeOK, AlarmTimes
    <2> QED
      BY <1>13, <1>15, <2>1, <2>2, <2>3 DEF purge
  <1>16. CASE Throws
    <2>1. [Top EXCEPT !.phase = "onError"] \in Frames
      BY <1>2 DEF Frames
    <2>2. CASE stack' = [stack EXCEPT ![1] = [Top EXCEPT !.phase = "onError"]]
      <3>1. stack' \in Seq(Frames)
        BY <1>1, <2>1, <2>2, ChangingTheTop
      <3> QED
        BY <1>1, <1>16, <2>2, <3>1 DEF TypeOK, Throws
    <2>3. CASE stack' = Below
      BY <1>1, <1>2, <1>16, <2>3 DEF TypeOK, Throws
    <2> QED
      BY <1>2, <1>16, <2>2, <2>3 DEF Throws
  <1> QED
    BY <1>4, <1>6, <1>7, <1>10, <1>11, <1>12, <1>14, <1>15, <1>16 DEF Handler

(* The variables keep their types. *)
THEOREM TypeCorrect == Spec => []TypeOK
  <1>1. Init => TypeOK
    <2> SUFFICES ASSUME Init PROVE TypeOK
      OBVIOUS
    <2>1. place \in [Instances -> Instances]
      BY DEF Init, Own, Shared
    <2>2. hist \in Histories
      BY DEF Init, Histories, States
    <2> QED
      BY <2>1, <2>2 DEF Init, TypeOK, Empty, AlarmTimes
  <1>2. TypeOK /\ [Next]_vars => TypeOK'
    <2>1. TypeOK /\ UNCHANGED vars => TypeOK'
      BY DEF TypeOK, vars
    <2> QED
      BY <2>1, OutsideKeepsTypes, TickingKeepsTypes, HandlerKeepsTypes DEF Next
  <1> QED
    BY <1>1, <1>2, PTL DEF Spec

-----------------------------------------------------------------------------
(* The inductive invariant. *)
Known ==
    /\ TypeOK
    /\ NextAlarmTells /\ UpdatesAreKept /\ StatesAreSeparate
    /\ FailureIsKnown /\ TickLosesNoAlarm /\ HandlersKnow

(* A handler that starts knows of its instance's failure. *)
LEMMA EnteringKnows ==
    ASSUME Known, TypeOK', NEW i \in Instances, Enter(makeHandlerContext(i)),
           hist' = Seen(makeHandlerContext(i)) \/ hist' = Fired(makeHandlerContext(i)),
           place' = place, systemFailure' = systemFailure
    PROVE  FailureIsKnown' /\ HandlersKnow'
  <1> DEFINE f == makeHandlerContext(i)
  <1>1. /\ f \in Frames /\ f.inst = i /\ f.at = place[i] /\ f.seen = Absent
        /\ f.failure = systemFailure[i]
    BY ContextIsAFrame DEF Known
  <1> HIDE DEF f
  <1>2. /\ \A j \in Instances : hist'.unseen[j] =>
              hist.unseen[j] /\ (j = i => ~systemFailure[i])
        /\ hist'.saved = hist.saved /\ hist'.due = hist.due
    BY <1>1, TellingIsHistory, FiringIsHistory DEF Known, f
  <1>3. FailureIsKnown'
    BY <1>2 DEF Known, FailureIsKnown
  <1>4. ~hist'.unseen[i]
    BY <1>2 DEF Known, FailureIsKnown
  <1>5. place = Own => place[i] = i
    BY DEF Own
  <1>6. Ids(Absent) = {}
    BY DEF Ids
  <1>8. ASSUME NEW n \in 1 .. Len(stack), stack[n] \in Frames
        PROVE  ~hist'.unseen[stack[n].inst] /\ (place = Own =>
                  /\ stack[n].at = stack[n].inst
                  /\ Ids(stack[n].seen) \subseteq hist'.saved[stack[n].inst])
    BY <1>2, <1>8 DEF Known, HandlersKnow, Frames
  <1>9. ASSUME NEW n \in 1 .. Len(stack')
        PROVE  ~hist'.unseen[stack'[n].inst] /\ (place = Own =>
                  /\ stack'[n].at = stack'[n].inst
                  /\ Ids(stack'[n].seen) \subseteq hist'.saved[stack'[n].inst])
    <2>1. \/ stack'[n] = f
          \/ n - 1 \in 1 .. Len(stack) /\ stack'[n] = stack[n - 1]
      BY <1>1, EnteredIsOnTop DEF Known, f
    <2>2. CASE stack'[n] = f
      BY <1>1, <1>4, <1>5, <1>6, <2>2
    <2>3. CASE n - 1 \in 1 .. Len(stack) /\ stack'[n] = stack[n - 1]
      <3>1. stack[n - 1] \in Frames
        BY <2>3 DEF Known, TypeOK
      <3> QED
        BY <1>8, <2>3, <3>1
    <2> QED
      BY <2>1, <2>2, <2>3
  <1> QED
    BY <1>2, <1>3, <1>9 DEF Known, HandlersKnow

(* The handlers go on knowing what they knew, as the innermost one works   *)
(* and more is saved.                                                      *)
LEMMA StillKnowing ==
    ASSUME Known, TypeOK', place' = place,
           hist'.unseen = hist.unseen, hist'.due = hist.due,
           \A j \in Instances : hist.saved[j] \subseteq hist'.saved[j],
           \A n \in 1 .. Len(stack') :
              \/ \E m \in 1 .. Len(stack) : stack'[n] = stack[m]
              \/ /\ stack # <<>>
                 /\ stack'[n].inst = Top.inst /\ stack'[n].at = Top.at
                 /\ place = Own => Ids(stack'[n].seen) \subseteq hist.saved[Top.inst]
    PROVE  HandlersKnow'
  <1>1. ASSUME NEW m \in 1 .. Len(stack)
        PROVE  /\ stack[m].inst \in Instances /\ ~hist.unseen[stack[m].inst]
               /\ place = Own =>
                    /\ stack[m].at = stack[m].inst
                    /\ Ids(stack[m].seen) \subseteq hist.saved[stack[m].inst]
    <2>1. stack[m] \in Frames
      BY DEF Known, TypeOK
    <2> QED
      BY <2>1 DEF Known, HandlersKnow, Frames
  <1>2. stack # <<>> => 1 \in 1 .. Len(stack) /\ Top = stack[1]
    BY TopAndBelow DEF Known
  <1>3. ASSUME NEW n \in 1 .. Len(stack')
        PROVE  /\ ~hist'.unseen[stack'[n].inst]
               /\ place = Own =>
                    /\ stack'[n].at = stack'[n].inst
                    /\ Ids(stack'[n].seen) \subseteq hist'.saved[stack'[n].inst]
    <2>1. CASE \E m \in 1 .. Len(stack) : stack'[n] = stack[m]
      BY <1>1, <2>1
    <2>2. CASE /\ stack # <<>>
               /\ stack'[n].inst = Top.inst /\ stack'[n].at = Top.at
               /\ place = Own => Ids(stack'[n].seen) \subseteq hist.saved[Top.inst]
      BY <1>1, <1>2, <2>2
    <2> QED
      BY <2>1, <2>2
  <1> QED
    BY <1>3 DEF Known, HandlersKnow

(* Setting or clearing an alarm with its key is a step to know about only  *)
(* for those that were due.                                                *)
LEMMA SettingTells ==
    ASSUME Known, NEW p \in Instances, NEW t \in AlarmTimes,
           alarm' = [alarm EXCEPT ![p] = t],
           storage' = [storage EXCEPT ![p].alarmAt = t],
           place' = place, hist'.saved = hist.saved, hist'.updated = hist.updated
    PROVE  /\ NextAlarmTells' /\ UpdatesAreKept' /\ StatesAreSeparate'
           /\ alarm'[p] = t /\ \A q \in Instances : q # p => alarm'[q] = alarm[q]
  <1>1. \A q \in Instances :
          /\ storage'[q].state = storage[q].state
          /\ storage'[q].alarmAt = IF q = p THEN t ELSE storage[q].alarmAt
          /\ alarm'[q] = IF q = p THEN t ELSE alarm[q]
    BY DEF Known, TypeOK
  <1> QED
    BY <1>1 DEF Known, NextAlarmTells, UpdatesAreKept, StatesAreSeparate

(* An alarm that comes was due or is counted as fired. *)
LEMMA FiringLosesNoAlarm ==
    ASSUME Known, NEW i \in Instances, handleAlarm(i), place' = place,
           hist' = Fired(makeHandlerContext(i))
    PROVE  /\ NextAlarmTells' /\ UpdatesAreKept' /\ StatesAreSeparate'
           /\ TickLosesNoAlarm'
  <1>1. place[i] \in Instances /\ Absent \in AlarmTimes
    BY DEF Known, TypeOK, AlarmTimes
  <1>2. /\ hist'.saved = hist.saved /\ hist'.updated = hist.updated
        /\ hist'.due = hist.due /\ hist'.cancelled = hist.cancelled
        /\ hist'.fired = hist.fired \union {i} /\ hist.due \subseteq Instances
    BY ContextIsAFrame, FiringIsHistory, ZenonT(40) DEF Known, TypeOK, Histories
  <1>3. /\ NextAlarmTells' /\ UpdatesAreKept' /\ StatesAreSeparate'
        /\ \A q \in Instances : q # place[i] => alarm'[q] = alarm[q]
    BY <1>1, <1>2, SettingTells DEF handleAlarm
  <1>4. hist.due # {} => place[i] = i
    BY DEF Known, HandlersKnow, Own
  <1>5. TickLosesNoAlarm'
    BY <1>2, <1>3, <1>4 DEF Known, TickLosesNoAlarm
  <1> QED
    BY <1>3, <1>5

(* What is done from outside keeps the invariant ... *)
LEMMA OutsideKeepsKnown ==
    ASSUME Known, Outside
    PROVE  Known'
  <1>1. TypeOK'
    BY OutsideKeepsTypes DEF Known
  <1>2. ASSUME NEW i \in Instances, handleEvent(i)
        PROVE  Known'
    <2>1. FailureIsKnown' /\ HandlersKnow'
      BY <1>1, <1>2, EnteringKnows DEF handleEvent
    <2>2. /\ hist'.saved = hist.saved /\ hist'.updated = hist.updated
          /\ hist'.due = hist.due /\ hist'.cancelled = hist.cancelled
          /\ hist'.fired = hist.fired
      BY <1>2, ContextIsAFrame, TellingIsHistory DEF Known, handleEvent
    <2> QED
      BY <1>1, <1>2, <2>1, <2>2
      DEF Known, handleEvent, NextAlarmTells, UpdatesAreKept, StatesAreSeparate,
          TickLosesNoAlarm
  <1>3. ASSUME NEW i \in Instances, fireAlarm(i)
        PROVE  Known'
    <2>1. FailureIsKnown' /\ HandlersKnow'
      BY <1>1, <1>3, EnteringKnows DEF fireAlarm, handleAlarm
    <2> QED
      BY <1>1, <1>3, <2>1, FiringLosesNoAlarm DEF Known, fireAlarm
  <1>4. ASSUME NEW i \in Instances, injectSystemFailure(i)
        PROVE  Known'
    <2>1. /\ stack = <<>> /\ stack' = stack
          /\ hist'.saved = hist.saved /\ hist'.updated = hist.updated
          /\ hist'.due = hist.due /\ hist'.cancelled = hist.cancelled
          /\ hist'.fired = hist.fired
      BY <1>4 DEF Known, TypeOK, Histories, injectSystemFailure, Calls
    <2>2. FailureIsKnown'
      <3>1. \A j \in Instances :
              /\ hist'.unseen[j] = IF j = i THEN TRUE ELSE hist.unseen[j]
              /\ systemFailure'[j] = IF j = i THEN TRUE ELSE systemFailure[j]
        BY <1>4 DEF Known, TypeOK, Histories, injectSystemFailure
      <3> QED
        BY <3>1 DEF Known, FailureIsKnown
    <2>3. HandlersKnow'
      BY <1>4, <2>1 DEF Known, HandlersKnow, injectSystemFailure
    <2> QED
      BY <1>1, <1>4, <2>1, <2>2, <2>3
      DEF Known, injectSystemFailure, NextAlarmTells, UpdatesAreKept,
          StatesAreSeparate, TickLosesNoAlarm
  <1>5. ASSUME NEW t \in Times, tick(t)
        PROVE  Known'
    <2>1. /\ stack' = stack /\ hist'.unseen = hist.unseen
          /\ hist'.saved = hist.saved /\ hist'.updated = hist.updated
          /\ hist'.due = Due(t)
      BY <1>5 DEF Known, TypeOK, Histories, tick
    <2>2. TickLosesNoAlarm'
      BY <1>5, <2>1 DEF TickLosesNoAlarm, Due, tick
    <2>3. HandlersKnow'
      BY <1>5, <2>1 DEF Known, HandlersKnow, tick
    <2> QED
      BY <1>1, <1>5, <2>1, <2>2, <2>3
      DEF Known, tick, NextAlarmTells, UpdatesAreKept, StatesAreSeparate, FailureIsKnown
  <1> QED
    BY <1>2, <1>3, <1>4, <1>5 DEF Outside

(* ... and so does the tick ... *)
LEMMA TickingKeepsKnown ==
    ASSUME Known, Ticking
    PROVE  Known'
  <1>1. TypeOK'
    BY TickingKeepsTypes DEF Known
  <1>2. CASE TickEnds
    BY <1>1, <1>2
    DEF Known, TickEnds, NextAlarmTells, UpdatesAreKept, StatesAreSeparate,
        FailureIsKnown, TickLosesNoAlarm, HandlersKnow
  <1>3. ASSUME NEW i \in Instances, TickFires(i)
        PROVE  Known'
    <2>1. FailureIsKnown' /\ HandlersKnow'
      BY <1>1, <1>3, EnteringKnows DEF TickFires, handleAlarm
    <2> QED
      BY <1>1, <1>3, <2>1, FiringLosesNoAlarm DEF Known, TickFires
  <1> QED
    BY <1>2, <1>3 DEF Ticking

(* ... and the innermost handler. *)
LEMMA HandlerKeepsKnown ==
    ASSUME Known, Handler
    PROVE  Known'
  <1>1. TypeOK'
    BY HandlerKeepsTypes DEF Known
  <1>2. stack # <<>>
    BY DEF Handler, recall, save, update, cancelSchedule, purge, Returns,
           Throws, scheduleAt, send, Uses
  <1>3. /\ Top \in Frames /\ 1 \in 1 .. Len(stack) /\ Top = stack[1]
        /\ Top.at \in Instances /\ Top.inst \in Instances
        /\ \A n \in 1 .. Len(Below) :
              n + 1 \in 1 .. Len(stack) /\ Below[n] = stack[n + 1]
    BY <1>2, TopAndBelow DEF Known, Frames
  <1>4. /\ ~hist.unseen[Top.inst]
        /\ place = Own => /\ Top.at = Top.inst
                          /\ Ids(Top.seen) \subseteq hist.saved[Top.inst]
    BY <1>3 DEF Known, HandlersKnow
  <1>5. place' = place
    BY DEF Handler, recall, save, update, cancelSchedule, purge, Returns,
           Throws, scheduleAt, send, Uses, Succeeds
  (* The stack keeps what it held when the handler ends. *)
  <1>6. ASSUME stack' = Below \/ stack' = stack
        PROVE  \A n \in 1 .. Len(stack') :
                 \E m \in 1 .. Len(stack) : stack'[n] = stack[m]
    BY <1>3, <1>6
  <1>7. ASSUME NEW f \in Frames, stack' = [stack EXCEPT ![1] = f],
               f.inst = Top.inst, f.at = Top.at,
               place = Own => Ids(f.seen) \subseteq hist.saved[Top.inst],
               hist' = hist
        PROVE  HandlersKnow'
    <2>1. /\ Len(stack') = Len(stack) /\ stack'[1] = f
          /\ \A n \in 1 .. Len(stack') : n # 1 => stack'[n] = stack[n]
      BY <1>2, <1>7, ChangingTheTop DEF Known
    <2>2. ASSUME NEW n \in 1 .. Len(stack')
          PROVE  \/ \E m \in 1 .. Len(stack) : stack'[n] = stack[m]
                 \/ /\ stack # <<>>
                    /\ stack'[n].inst = Top.inst /\ stack'[n].at = Top.at
                    /\ place = Own => Ids(stack'[n].seen) \subseteq hist.saved[Top.inst]
      BY <1>2, <1>7, <2>1
    <2> QED
      BY <1>1, <1>5, <1>7, <2>2, StillKnowing
  <1>8. CASE recall
    <2> DEFINE f == [Top EXCEPT !.seen = storage[Top.at].state]
    <2>1. /\ f \in Frames /\ f.inst = Top.inst /\ f.at = Top.at
          /\ f.seen = storage[Top.at].state
      BY <1>3 DEF Known, TypeOK, Frames
    <2>2. stack' = [stack EXCEPT ![1] = f] /\ hist' = hist
      BY <1>3, <1>8 DEF recall
    <2>3. place = Own => Ids(f.seen) \subseteq hist.saved[Top.inst]
      BY <1>3, <1>4, <2>1 DEF Known, StatesAreSeparate
    <2> HIDE DEF f
    <2>4. HandlersKnow'
      BY <1>7, <2>1, <2>2, <2>3
    <2> QED
      BY <1>1, <1>8, <2>4
      DEF Known, recall, Uses, NextAlarmTells, UpdatesAreKept, StatesAreSeparate,
          FailureIsKnown, TickLosesNoAlarm
  (* The handler stores what its instance has saved, with something new. *)
  <1>9. ASSUME NEW s \in States, Uses, Store(s),
               place = Own => s \subseteq hist.saved[Top.inst],
               NEW u \in States, u \subseteq s \union {NewId},
               hist' = [Issued EXCEPT !.updated[Top.at] = u]
        PROVE  Known'
    <2>1. /\ hist'.unseen = hist.unseen /\ hist'.due = hist.due
          /\ hist'.fired = hist.fired /\ hist'.cancelled = hist.cancelled
          /\ \A j \in Instances :
                hist'.saved[j] = hist.saved[j] \union (IF j = Top.inst THEN {NewId} ELSE {})
          /\ \A p \in Instances :
                hist'.updated[p] = IF p = Top.at THEN u ELSE hist.updated[p]
      BY <1>3, <1>9 DEF Known, TypeOK, Histories, Issued
    <2>2. \A p \in Instances :
            /\ storage'[p].alarmAt = storage[p].alarmAt
            /\ Ids(storage'[p].state) =
                 IF p = Top.at THEN s \union {NewId} ELSE Ids(storage[p].state)
      <3>1. s \union {NewId} \in States
        BY <1>9 DEF Store, NewId, Known, TypeOK, Histories, States
      <3>2. \A p \in Instances :
              /\ storage'[p].alarmAt = storage[p].alarmAt
              /\ storage'[p].state =
                   IF p = Top.at THEN s \union {NewId} ELSE storage[p].state
        BY <1>3, <1>9 DEF Store, Known, TypeOK
      <3>3. Ids(s \union {NewId}) = s \union {NewId}
        BY <3>1 DEF Ids
      <3> QED
        BY <3>2, <3>3 DEF Ids
    <2>3. stack' = stack /\ alarm' = alarm /\ systemFailure' = systemFailure
      BY <1>9 DEF Store, Uses
    <2>4. HandlersKnow'
      BY <1>1, <1>5, <1>6, <2>1, <2>3, StillKnowing
    <2>5. NextAlarmTells' /\ FailureIsKnown' /\ TickLosesNoAlarm'
      BY <2>1, <2>2, <2>3 DEF Known, NextAlarmTells, FailureIsKnown, TickLosesNoAlarm
    <2>6. UpdatesAreKept'
      BY <1>9, <2>1, <2>2 DEF Known, UpdatesAreKept
    <2>7. StatesAreSeparate'
      <3>1. SUFFICES ASSUME place = Own, NEW j \in Instances
                     PROVE  Ids(storage'[j].state) \subseteq hist'.saved[j]
        BY <1>5 DEF StatesAreSeparate
      <3>2. Ids(storage[j].state) \subseteq hist.saved[j]
        BY <3>1 DEF Known, StatesAreSeparate
      <3> QED
        BY <1>3, <1>4, <1>9, <2>1, <2>2, <3>1, <3>2
    <2> QED
      BY <1>1, <2>4, <2>5, <2>6, <2>7 DEF Known
  <1>10. /\ Ids(Top.seen) \in States
         /\ storage[Top.at].state \in {Absent} \union States
    BY <1>3 DEF Known, TypeOK, Ids, States, Frames
  <1>11. CASE save
    <2>1. hist.updated[Top.at] \intersect Ids(Top.seen) \in States
      BY <1>10 DEF States
    <2>2. hist' = [Issued EXCEPT !.updated[Top.at] =
                                    hist.updated[Top.at] \intersect Ids(Top.seen)]
      BY <1>11 DEF save, Issued, Known, TypeOK, Histories
    <2> QED
      BY <1>4, <1>9, <1>10, <1>11, <2>1, <2>2, ZenonT(40) DEF save
  <1>12. CASE update
    <2> DEFINE s == storage[Top.at].state
               u == hist.updated[Top.at] \union s \union {NewId}
    <2>1. NewId \in 1 .. MaxIds /\ s \in States /\ Ids(s) = s
      BY <1>10, <1>12 DEF update, NewId, Store, Known, TypeOK, Histories, Ids
    <2>2. hist.updated[Top.at] \subseteq s
      BY <1>3, <2>1 DEF Known, UpdatesAreKept
    <2>3. u \in States /\ u \subseteq s \union {NewId}
      BY <2>1, <2>2 DEF States
    <2>4. hist' = [Issued EXCEPT !.updated[Top.at] = u]
      BY <1>12 DEF update, Issued, Known, TypeOK, Histories
    <2>5. place = Own => s \subseteq hist.saved[Top.inst]
      BY <1>3, <1>4, <2>1 DEF Known, StatesAreSeparate
    <2>6. Uses /\ Store(s)
      BY <1>12 DEF update
    <2> HIDE DEF s, u
    <2> QED
      BY <1>9, <2>1, <2>3, <2>4, <2>5, <2>6
  (* The handler sets or clears its alarm. *)
  <1>13. ASSUME NEW t \in AlarmTimes, Uses,
                alarm' = [alarm EXCEPT ![Top.at] = t],
                storage' = [storage EXCEPT ![Top.at].alarmAt = t],
                stack' = stack,
                IF t = Absent THEN hist' = Cancelled ELSE hist' = hist
         PROVE  Known'
    <2>1. /\ hist'.unseen = hist.unseen /\ hist'.due = hist.due
          /\ hist'.fired = hist.fired /\ hist'.updated = hist.updated
          /\ hist'.saved = hist.saved
          /\ hist.cancelled \subseteq hist'.cancelled
          /\ t = Absent => Top.at \in hist'.cancelled
          /\ hist.due \subseteq Instances
      BY <1>13 DEF Cancelled, Known, TypeOK, Histories
    <2>2. /\ NextAlarmTells' /\ UpdatesAreKept' /\ StatesAreSeparate'
          /\ alarm'[Top.at] = t
          /\ \A q \in Instances : q # Top.at => alarm'[q] = alarm[q]
      BY <1>3, <1>5, <1>13, <2>1, SettingTells
    <2>3. TickLosesNoAlarm'
      BY <2>1, <2>2 DEF Known, TickLosesNoAlarm
    <2>4. HandlersKnow'
      BY <1>1, <1>5, <1>6, <1>13, <2>1, StillKnowing
    <2>5. FailureIsKnown'
      BY <1>13, <2>1 DEF Known, FailureIsKnown, Uses
    <2> QED
      BY <1>1, <2>2, <2>3, <2>4, <2>5 DEF Known
  <1>14. CASE cancelSchedule
    <2>1. Absent \in AlarmTimes
      BY DEF AlarmTimes
    <2>2. /\ Uses /\ stack' = stack /\ hist' = Cancelled
          /\ alarm' = [alarm EXCEPT ![Top.at] = Absent]
          /\ storage' = [storage EXCEPT ![Top.at].alarmAt = Absent]
      BY <1>14 DEF cancelSchedule
    <2> QED
      BY <1>13, <2>1, <2>2
  <1>15. ASSUME NEW t \in Times, scheduleAt(t)
         PROVE  Known'
    <2>1. t \in AlarmTimes /\ t # Absent
      BY DEF AlarmTimes
    <2>2. /\ Uses /\ stack' = stack /\ hist' = hist
          /\ alarm' = [alarm EXCEPT ![Top.at] = t]
          /\ storage' = [storage EXCEPT ![Top.at].alarmAt = t]
      BY <1>15 DEF scheduleAt
    <2> QED
      BY <1>13, <2>1, <2>2
  <1>16. ASSUME NEW j \in Instances, send(j)
         PROVE  Known'
    <2>1. FailureIsKnown' /\ HandlersKnow'
      BY <1>1, <1>5, <1>16, EnteringKnows DEF send, Uses
    <2>2. /\ hist'.saved = hist.saved /\ hist'.updated = hist.updated
          /\ hist'.due = hist.due /\ hist'.cancelled = hist.cancelled
          /\ hist'.fired = hist.fired
      BY <1>16, ContextIsAFrame, TellingIsHistory DEF Known, send
    <2> QED
      BY <1>1, <1>5, <1>16, <2>1, <2>2
      DEF Known, send, NextAlarmTells, UpdatesAreKept, StatesAreSeparate, TickLosesNoAlarm
  (* A failure that is cleared has been seen by the handler that succeeds. *)
  <1>17. ASSUME Succeeds, hist'.unseen = hist.unseen
         PROVE  FailureIsKnown'
    <2>1. \A j \in Instances :
            systemFailure'[j] = systemFailure[j] \/ (j = Top.inst /\ ~systemFailure'[j])
      BY <1>3, <1>17 DEF Succeeds, Known, TypeOK
    <2> QED
      BY <1>4, <1>17, <2>1 DEF Known, FailureIsKnown
  <1>18. CASE Returns
    <2>1. HandlersKnow'
      BY <1>1, <1>5, <1>6, <1>18, StillKnowing DEF Returns, Succeeds
    <2> QED
      BY <1>1, <1>5, <1>17, <1>18, <2>1
      DEF Known, Returns, NextAlarmTells, UpdatesAreKept, StatesAreSeparate, TickLosesNoAlarm
  <1>19. CASE purge
    <2>1. /\ hist'.unseen = hist.unseen /\ hist'.due = hist.due
          /\ hist'.fired = hist.fired /\ hist'.saved = hist.saved
          /\ hist'.cancelled = hist.cancelled \union {Top.at}
          /\ hist.due \subseteq Instances
          /\ \A p \in Instances :
                hist'.updated[p] = IF p = Top.at THEN {} ELSE hist.updated[p]
      BY <1>3, <1>19 DEF purge, Cancelled, Known, TypeOK, Histories
    <2>2. \A p \in Instances :
            /\ p = Top.at => storage'[p] = Empty /\ alarm'[p] = Absent
            /\ p # Top.at => storage'[p] = storage[p] /\ alarm'[p] = alarm[p]
      BY <1>3, <1>19 DEF purge, Known, TypeOK
    <2>3. Empty.alarmAt = Absent /\ Ids(Empty.state) = {}
      BY DEF Empty, Ids
    <2>4. HandlersKnow'
      BY <1>1, <1>5, <1>6, <1>19, <2>1, StillKnowing DEF purge, Succeeds
    <2>5. FailureIsKnown'
      BY <1>17, <1>19, <2>1 DEF purge
    <2>6. NextAlarmTells' /\ UpdatesAreKept' /\ TickLosesNoAlarm'
      BY <2>1, <2>2, <2>3 DEF Known, NextAlarmTells, UpdatesAreKept, TickLosesNoAlarm
    <2>7. StatesAreSeparate'
      BY <1>5, <2>1, <2>2, <2>3 DEF Known, StatesAreSeparate
    <2> QED
      BY <1>1, <2>4, <2>5, <2>6, <2>7 DEF Known
  <1>20. CASE Throws
    <2> DEFINE f == [Top EXCEPT !.phase = "onError"]
    <2>1. f \in Frames /\ f.inst = Top.inst /\ f.at = Top.at /\ f.seen = Top.seen
      BY <1>3 DEF Frames
    <2>2. stack' = Below \/ stack' = [stack EXCEPT ![1] = f]
      BY <1>3, <1>20 DEF Throws
    <2>3. hist' = hist
      BY <1>20 DEF Throws
    <2> HIDE DEF f
    <2>4. HandlersKnow'
      <3>1. CASE stack' = Below
        BY <1>1, <1>5, <1>6, <2>3, <3>1, StillKnowing
      <3>2. CASE stack' = [stack EXCEPT ![1] = f]
        BY <1>4, <1>7, <2>1, <2>3, <3>2
      <3> QED
        BY <2>2, <3>1, <3>2
    <2> QED
      BY <1>1, <1>20, <2>4
      DEF Known, Throws, NextAlarmTells, UpdatesAreKept, StatesAreSeparate,
          FailureIsKnown, TickLosesNoAlarm
  <1> QED
    BY <1>8, <1>11, <1>12, <1>14, <1>15, <1>16, <1>18, <1>19, <1>20 DEF Handler

(* What it means for the runtime to keep its word, as one invariant. *)
THEOREM KeepsItsWord == Spec => []Known
  <1>1. Init => Known
    <2> SUFFICES ASSUME Init PROVE Known
      OBVIOUS
    <2>1. TypeOK
      <3>1. place \in [Instances -> Instances]
        BY DEF Init, Own, Shared
      <3>2. hist \in Histories
        BY DEF Init, Histories, States
      <3> QED
        BY <3>1, <3>2 DEF Init, TypeOK, Empty, AlarmTimes
    <2> QED
      BY <2>1
      DEF Init, Known, Empty, Ids, NextAlarmTells, UpdatesAreKept, StatesAreSeparate,
          FailureIsKnown, TickLosesNoAlarm, HandlersKnow
  <1>2. Known /\ [Next]_vars => Known'
    <2>1. Known /\ UNCHANGED vars => Known'
      BY DEF Known, TypeOK, NextAlarmTells, UpdatesAreKept, StatesAreSeparate,
             FailureIsKnown, TickLosesNoAlarm, HandlersKnow, vars
    <2> QED
      BY <2>1, OutsideKeepsKnown, TickingKeepsKnown, HandlerKeepsKnown DEF Next
  <1> QED
    BY <1>1, <1>2, PTL DEF Spec

(* nextAlarm() tells what is scheduled, for any number of instances,       *)
(* handlers nested in handlers and ticks.                                  *)
THEOREM NextAlarm == Spec => []NextAlarmTells
  BY KeepsItsWord, PTL DEF Known

(* update() loses nothing that another update() wrote, nested as their     *)
(* handlers may be.                                                        *)
THEOREM UpdatesLast == Spec => []UpdatesAreKept
  BY KeepsItsWord, PTL DEF Known

(* The in-memory runtime gives every instance a state of its own. *)
THEOREM InstancesAreApart == Spec => []StatesAreSeparate
  BY KeepsItsWord, PTL DEF Known

(* An injected failure stays until a handler of its instance has been told. *)
THEOREM FailuresAreTold == Spec => []FailureIsKnown
  BY KeepsItsWord, PTL DEF Known

(* A tick loses no alarm but those it fires, wherever it fails. *)
THEOREM AlarmsAreKept == Spec => []TickLosesNoAlarm
  BY KeepsItsWord, PTL DEF Known

(* Handlers in flight know their instance, its failure and its state. *)
THEOREM HandlersAreTold == Spec => []HandlersKnow
  BY KeepsItsWord, PTL DEF Known

=============================================================================
