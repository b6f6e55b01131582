------------------------ MODULE TaskGroupProperties ------------------------
(* What must hold of a task instance of a task group on its object.        *)
EXTENDS TaskGroup

Undisturbed == ~hist.raced /\ ~hist.fired

(* The alarm outlived a purge that was cut, or is the redelivery of one    *)
(* whose handler had purged.                                               *)
AfterPurge == alarm.retry \/ "purge" \in hist.cut

AlarmTimes == Times \union {Absent}

Writes ==
    [key : {"name", "id"}, val : {TRUE}]
      \union [key : {"alarm", "alarmAt"}, val : AlarmTimes]
      \union [key : {"state", "update"}, val : States]
      \union [key : {"all"}, val : {Absent}]

HandlerState ==
    [op : {"none", "event", "fireAlarm", "alarm"},
     pc : {"idle", "handler", "onError", "done", "fail"},
     todo : Seq(Writes), seen : {Absent} \union States, failure : BOOLEAN,
     retry : BOOLEAN, at : AlarmTimes, began : BOOLEAN]

(* The values every variable may take; a retry is an alarm's, and its      *)
(* handler knows the time it was set for.                                  *)
TypeOK ==
    /\ storage \in [name : BOOLEAN, id : BOOLEAN,
                    state : {Absent} \union States, alarmAt : AlarmTimes]
    /\ alarm \in [at : AlarmTimes, retry : BOOLEAN]
    /\ alarm.retry => alarm.at # Absent
    /\ systemFailure \in BOOLEAN
    /\ hs \in [Handlers -> HandlerState]
    /\ \A h \in Requests : ~hs[h].retry
    /\ Active("alarm") => hs["alarm"].at # Absent
    /\ \A h \in Handlers : ~Active(h) => hs[h] = Idle
    /\ hist \in [issued : 0 .. MaxIds, updated : States, raced : BOOLEAN,
                 fired : BOOLEAN, cut : SUBSET {"purge", "cancel", "schedule"}]

(* nextAlarm() tells when the object will wake up, once the handlers are   *)
(* done and as long as no operation was cut between its two writes and no  *)
(* alarm is being retried.  scheduleIn, cancelSchedule, handleAlarm.       *)
NextAlarmTells ==
    Quiet /\ Undisturbed /\ hist.cut = {} /\ ~alarm.retry
        => storage.alarmAt = alarm.at

(* Whatever crashes, an alarm that nextAlarm() promises is set, unless its *)
(* cancellation was cut: the order of the writes, in every operation and   *)
(* in the clean-up.                                                        *)
PromisedAlarmIsSet ==
    Quiet /\ Undisturbed /\ "cancel" \notin hist.cut /\ storage.alarmAt # Absent
        => alarm.at # Absent

(* A task that was purged has left nothing, neither state nor an alarm,    *)
(* unless the purge overtook a handler in flight; of one that was cut the  *)
(* alarm may remain.                                                       *)
PurgedMeansGone ==
    Quiet /\ Undisturbed /\ ~storage.name
        => storage = Empty /\ (alarm.at = Absent \/ AfterPurge)

(* What update() wrote is there until a save or a purge takes it away: two *)
(* updates of handlers in flight together do not lose each other's work.   *)
UpdatesAreKept == hist.updated \subseteq Ids(storage.state)

(* The function run by the redelivery of a failed alarm sees a failure,    *)
(* whatever other handlers have succeeded meanwhile.                       *)
RetryKnowsFailure ==
    InFunction("alarm") /\ hs["alarm"].retry => hs["alarm"].failure

(* An alarm that is delivered reaches the task's handler, unless it is the *)
(* rest of a purge.  The routing keys of handleEvent.                      *)
AlarmsAreHeard ==
    [][AlarmIgnored => ~Undisturbed \/ AfterPurge]_vars

-----------------------------------------------------------------------------
(* What makes these invariants inductive: the handlers' operations between *)
(* their writes.                                                           *)

Routing == set("name", TRUE) \o set("id", TRUE)

(* What a handler that is not done with its writes is about to do, and     *)
(* what it has done.  No other handler goes on before it has.              *)
PendingOK(h) ==
    \/ hs[h].todo = <<>>
    \/ /\ hs[h].pc \in {"handler", "fail"} /\ ~hs[h].began
       /\ hs[h].todo \in {Routing, set("id", TRUE)}
       /\ hs[h].todo = set("id", TRUE) => storage.name
    \/ /\ InOperation(h)
       /\ \E t \in AlarmTimes :
            \/ hs[h].todo = set("alarm", t) \o set("alarmAt", t)
            \/ hs[h].todo = set("alarmAt", t) /\ alarm.at = t
    \/ /\ hs[h].pc = "handler" /\ ~hs[h].began
       /\ hs[h].todo = delete("alarmAt")
       /\ IF h = "alarm" THEN alarm.at = Absent ELSE hist.fired
    \/ /\ InOperation(h)
       /\ \E s \in States :
            \/ hs[h].todo = set("state", s)
            \/ hs[h].todo = set("update", s) /\ Ids(storage.state) \subseteq s
    \/ hs[h].pc = "done" /\ hs[h].todo = cleanup
    \/ hs[h].pc = "done" /\ hs[h].todo = cancel /\ storage = Empty

(* An instance without an id is new or purged: it has nothing else, and    *)
(* runs no function.                                                       *)
Unrouted ==
    /\ storage.id => storage.name
    /\ Undisturbed /\ ~storage.id =>
         /\ storage.state = Absent /\ storage.alarmAt = Absent
         /\ \A h \in Handlers :
               InFunction(h) => hs[h].todo \in {Routing, set("id", TRUE)}
         /\ \/ alarm.at = Absent \/ AfterPurge
            \/ \E h \in Handlers : hs[h].todo = cancel

AlarmFails == hs["alarm"].pc = "fail"

(* What nextAlarm() tells is true, is about to be, or belongs to an alarm  *)
(* that is going to be retried.                                            *)
AlarmKnown ==
    Undisturbed /\ hist.cut = {} /\ ~alarm.retry =>
       \/ storage.alarmAt = alarm.at
       \/ \E h \in Handlers :
             \/ hs[h].todo = cancel
             \/ \E t \in AlarmTimes : hs[h].todo = set("alarmAt", t)
       \/ AlarmFails /\ alarm.at = Absent

AlarmPromised ==
    Undisturbed /\ "cancel" \notin hist.cut /\ storage.alarmAt # Absent =>
       \/ alarm.at # Absent
       \/ \E h \in Handlers : hs[h].todo = delete("alarmAt")
       \/ AlarmFails

RetryKnown == hs["alarm"].retry => hs["alarm"].failure

Serving ==
    /\ \A h \in Handlers : PendingOK(h)
    /\ Unrouted /\ AlarmKnown /\ AlarmPromised
    /\ UpdatesAreKept /\ RetryKnown

=============================================================================
