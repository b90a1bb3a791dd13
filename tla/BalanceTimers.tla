---------------------------- MODULE BalanceTimers ----------------------------
(***************************************************************************)
(* The balance game of one room: the game service's start monitor inserts  *)
(* a form when the room's timer has expired and lists it with a timer of   *)
(* its own, and the finish monitor publishes its result when that has      *)
(* expired.  Both read and change Redis and Mongo in separate calls.  The  *)
(* chat service deletes the forms some time after the room is over.        *)
(*                                                                         *)
(* Time is a clock, because the delays are what keeps the finish monitor   *)
(* from a form that is deleted.  A key that expires at t has a remaining   *)
(* time while now < t; a key that does not exist is one that expires at 0. *)
(***************************************************************************)
EXTENDS Naturals

CONSTANTS
  StartDelay,    \* BalanceGameStartTimer
  FinishDelay,   \* BalanceGameEndTimer
  RoomLife,      \* GameRunningTime
  CleanupDelay,  \* RemoveRoomDataTimer
  MaxForms,      \* bound: forms inserted
  MaxFaults,     \* bound: failed calls and crashes
  MaxLate,       \* bound: until when the clock may pass work that is due
  MaxTime        \* bound: the clock

ASSUME ConstantsAssumption ==
  /\ StartDelay \in Nat /\ FinishDelay \in Nat /\ RoomLife \in Nat /\ CleanupDelay \in Nat
  /\ MaxForms \in Nat /\ MaxFaults \in Nat /\ MaxLate \in Nat /\ MaxTime \in Nat

\* A form that starts and finishes in time has finished before it can be deleted.
ASSUME DelaysAssumption == StartDelay + FinishDelay < RoomLife + CleanupDelay

VARIABLES
  now,       \* the clock
  listed,    \* the room is in rooms:balance_game
  timer,     \* when balance_game_timer:{room} expires
  doc,       \* the forms in balance_forms
  finList,   \* forms:balance_game_finish
  finTimer,  \* when balance_game_finish:{form} expires
  start,     \* position of the start monitor
  cur,       \* the form it has inserted
  finish,    \* position of the finish monitor
  fin,       \* the form it finishes
  made,      \* history: forms inserted, which are numbered
  bornAt,    \* history: when
  results,   \* history: form results published
  panicked,  \* history: the finish monitor has dereferenced a form that was deleted
  late,      \* history: the clock has passed work that was due
  faults     \* history: faults so far

startVars == <<listed, timer, start, cur>>
finVars   == <<finish, fin, results, panicked>>

vars == <<now, startVars, finVars, doc, finList, finTimer, made, bornAt, late, faults>>

-----------------------------------------------------------------------------
Forms == 1..MaxForms

\* Mutant: a timer counts only at the minute of its expiry.
ExpiredThisMinute(t) == t = now

\* The remaining time of a key, GetBalanceGame(Finish)RemainingTime, is not positive.
Expired(t) == t <= now

StartPcs == {"idle", "insert", "read", "publish", "del", "srem", "set", "sadd"}

FinishPcs == {"idle", "load", "publish", "del", "srem"}

TypeOK ==
  /\ now \in Nat
  /\ listed \in BOOLEAN
  /\ timer \in Nat
  /\ doc \in [Forms -> {"none", "live", "deleted"}]
  /\ finList \subseteq Forms
  /\ finTimer \in [Forms -> Nat]
  /\ start \in StartPcs
  /\ cur \in Forms \cup {0}
  /\ finish \in FinishPcs
  /\ fin \in Forms \cup {0}
  /\ made \in 0..MaxForms
  /\ bornAt \in [Forms -> Nat]
  /\ results \in [Forms -> Nat]
  /\ panicked \in BOOLEAN
  /\ late \in BOOLEAN
  /\ faults \in Nat

\* CreateRoom has called SetBalanceGameTimer.
Init ==
  /\ now = 0
  /\ listed = TRUE
  /\ timer = StartDelay
  /\ doc = [f \in Forms |-> "none"]
  /\ finList = {}
  /\ finTimer = [f \in Forms |-> 0]
  /\ start = "idle"
  /\ cur = 0
  /\ finish = "idle"
  /\ fin = 0
  /\ made = 0
  /\ bornAt = [f \in Forms |-> 0]
  /\ results = [f \in Forms |-> 0]
  /\ panicked = FALSE
  /\ late = FALSE
  /\ faults = 0

-----------------------------------------------------------------------------
\* MonitorBalanceGameStartTimer.

StartGoto(from, to) == start = from /\ start' = to

\* The room is listed and its timer has expired ...
StartFindExpired ==
  /\ listed /\ Expired(timer)
  /\ StartGoto("idle", "insert")
  /\ UNCHANGED <<now, listed, timer, cur, finVars, doc, finList, finTimer, made, bornAt, late, faults>>

\* InsertBalanceForm.
InsertBalanceForm(f) ==
  /\ made < MaxForms /\ f = made + 1
  /\ made' = f
  /\ doc' = [doc EXCEPT ![f] = "live"]
  /\ bornAt' = [bornAt EXCEPT ![f] = now]

\* ... a form is inserted before anything else is done ...
StartInsert ==
  /\ StartGoto("insert", "read")
  /\ \E f \in Forms : InsertBalanceForm(f) /\ cur' = f
  /\ UNCHANGED <<now, listed, timer, finVars, finList, finTimer, late, faults>>

\* ... the room's users are read ...
StartRead ==
  /\ StartGoto("read", "publish")
  /\ UNCHANGED <<now, listed, timer, cur, finVars, doc, finList, finTimer, made, bornAt, late, faults>>

\* ... and told of the form, which a failure does not stop ...
StartPublish ==
  /\ StartGoto("publish", "del")
  /\ \/ UNCHANGED faults
     \/ faults < MaxFaults /\ faults' = faults + 1
  /\ UNCHANGED <<now, listed, timer, cur, finVars, doc, finList, finTimer, made, bornAt, late>>

\* ... RemoveBalanceGameRoom deletes the timer ...
StartDel ==
  /\ StartGoto("del", "srem")
  /\ timer' = 0
  /\ UNCHANGED <<now, listed, cur, finVars, doc, finList, finTimer, made, bornAt, late, faults>>

\* Mutant: the timer is deleted, and the room stays listed.
StartKeepListed ==
  /\ StartGoto("srem", "set")
  /\ UNCHANGED <<now, listed, timer, cur, finVars, doc, finList, finTimer, made, bornAt, late, faults>>

\* ... and takes the room off the list ...
StartSRem ==
  /\ StartGoto("srem", "set")
  /\ listed' = FALSE
  /\ UNCHANGED <<now, timer, cur, finVars, doc, finList, finTimer, made, bornAt, late, faults>>

\* ... SetBalanceGameFinishTimer sets the form's timer ...
StartSetTimer ==
  /\ StartGoto("set", "sadd")
  /\ finTimer' = [finTimer EXCEPT ![cur] = now + FinishDelay]
  /\ UNCHANGED <<now, listed, timer, cur, finVars, doc, finList, made, bornAt, late, faults>>

\* Mutant: the room is listed for its form to finish, not the form.
StartListNothing ==
  /\ StartGoto("sadd", "idle")
  /\ cur' = 0
  /\ UNCHANGED <<now, listed, timer, finVars, doc, finList, finTimer, made, bornAt, late, faults>>

\* ... and lists the form.
StartListForm ==
  /\ StartGoto("sadd", "idle")
  /\ finList' = finList \cup {cur}
  /\ cur' = 0
  /\ UNCHANGED <<now, listed, timer, finVars, doc, finTimer, made, bornAt, late, faults>>

MonitorBalanceGameStartTimer ==
  \/ StartFindExpired \/ StartInsert \/ StartRead \/ StartPublish
  \/ StartDel \/ StartSRem \/ StartSetTimer \/ StartListForm

-----------------------------------------------------------------------------
\* MonitorBalanceGameFinishTimer.

FinishGoto(from, to) == finish = from /\ finish' = to

\* A listed form's timer has expired ...
FinishFindExpired ==
  /\ FinishGoto("idle", "load")
  /\ \E f \in finList : Expired(finTimer[f]) /\ fin' = f
  /\ UNCHANGED <<now, startVars, results, panicked, doc, finList, finTimer, made, bornAt, late, faults>>

\* ... the form is read; GetBalanceFormByID gives nil for one that is gone ...
FinishLoad ==
  /\ FinishGoto("load", "publish")
  /\ doc[fin] = "live"
  /\ UNCHANGED <<now, startVars, fin, results, panicked, doc, finList, finTimer, made, bornAt, late, faults>>

\* ... and nil is dereferenced: the process dies with both monitors and starts again.
FinishLoadPanic ==
  /\ FinishGoto("load", "idle")
  /\ doc[fin] # "live"
  /\ panicked' = TRUE
  /\ start' = "idle"
  /\ cur' = 0
  /\ fin' = 0
  /\ UNCHANGED <<now, listed, timer, results, doc, finList, finTimer, made, bornAt, late, faults>>

\* ... the room's users are read and told the result, which a failure does not stop ...
FinishPublish ==
  /\ FinishGoto("publish", "del")
  /\ \/ /\ results' = [results EXCEPT ![fin] = @ + 1]
        /\ UNCHANGED faults
     \/ /\ faults < MaxFaults
        /\ faults' = faults + 1
        /\ UNCHANGED results
  /\ UNCHANGED <<now, startVars, fin, panicked, doc, finList, finTimer, made, bornAt, late>>

\* ... RemoveBalanceGameFinishForm deletes the timer ...
FinishDel ==
  /\ FinishGoto("del", "srem")
  /\ finTimer' = [finTimer EXCEPT ![fin] = 0]
  /\ UNCHANGED <<now, startVars, fin, results, panicked, doc, finList, made, bornAt, late, faults>>

\* ... and takes the form off the list.
FinishSRem ==
  /\ FinishGoto("srem", "idle")
  /\ finList' = finList \ {fin}
  /\ fin' = 0
  /\ UNCHANGED <<now, startVars, results, panicked, doc, finTimer, made, bornAt, late, faults>>

MonitorBalanceGameFinishTimer ==
  \/ FinishFindExpired \/ FinishLoad \/ FinishLoadPanic
  \/ FinishPublish \/ FinishDel \/ FinishSRem

-----------------------------------------------------------------------------
\* The chat service and the clock.

\* Mutant: the data are deleted as soon as the room is over.
CleanupAtOnce ==
  /\ now >= RoomLife
  /\ doc' = [f \in Forms |-> IF doc[f] = "live" THEN "deleted" ELSE doc[f]]
  /\ UNCHANGED <<now, startVars, finVars, finList, finTimer, made, bornAt, late, faults>>

\* cleanupRoomData, some time after the room is over and as often as it ends.
Cleanup ==
  /\ now >= RoomLife + CleanupDelay
  /\ doc' = [f \in Forms |-> IF doc[f] = "live" THEN "deleted" ELSE doc[f]]
  /\ UNCHANGED <<now, startVars, finVars, finList, finTimer, made, bornAt, late, faults>>

\* A monitor is at work or would find work at its next tick, in three seconds.
Due ==
  \/ start # "idle" \/ (listed /\ Expired(timer))
  \/ finish # "idle" \/ (\E f \in finList : Expired(finTimer[f]))

\* A minute passes.  That it passes work that is due takes a game service that is down
\* or cannot reach its stores for long.
Tick ==
  /\ now < MaxTime
  /\ Due => now < MaxLate
  /\ now' = now + 1
  /\ late' = (late \/ Due)
  /\ UNCHANGED <<startVars, finVars, doc, finList, finTimer, made, bornAt, faults>>

-----------------------------------------------------------------------------
\* Faults.

\* Before the publication a failed call ends the pass for the room.  An insertion that
\* reports an error may have happened.
StartReadFails ==
  /\ start \in {"insert", "read"}
  /\ faults < MaxFaults
  /\ start' = "idle"
  /\ cur' = 0
  /\ faults' = faults + 1
  /\ \/ UNCHANGED <<made, doc, bornAt>>
     \/ start = "insert" /\ \E f \in Forms : InsertBalanceForm(f)
  /\ UNCHANGED <<now, listed, timer, finVars, finList, finTimer, late>>

\* After it, a failed call only ends the two calls that it is one of.
StartRemoveFails ==
  /\ start \in {"del", "srem"}
  /\ faults < MaxFaults
  /\ start' = "set"
  /\ faults' = faults + 1
  /\ UNCHANGED <<now, listed, timer, cur, finVars, doc, finList, finTimer, made, bornAt, late>>

StartSetFails ==
  /\ start \in {"set", "sadd"}
  /\ faults < MaxFaults
  /\ start' = "idle"
  /\ cur' = 0
  /\ faults' = faults + 1
  /\ UNCHANGED <<now, listed, timer, finVars, doc, finList, finTimer, made, bornAt, late>>

\* Any failed call but the publication ends the finish monitor's pass for the form.
FinishFails ==
  /\ finish \in {"load", "publish", "del", "srem"}
  /\ faults < MaxFaults
  /\ finish' = "idle"
  /\ fin' = 0
  /\ faults' = faults + 1
  /\ UNCHANGED <<now, startVars, results, panicked, doc, finList, finTimer, made, bornAt, late>>

\* The game service dies and starts again.
Crash ==
  /\ faults < MaxFaults
  /\ start' = "idle"
  /\ cur' = 0
  /\ finish' = "idle"
  /\ fin' = 0
  /\ faults' = faults + 1
  /\ UNCHANGED <<now, listed, timer, results, panicked, doc, finList, finTimer, made, bornAt, late>>

Next ==
  \/ MonitorBalanceGameStartTimer
  \/ MonitorBalanceGameFinishTimer
  \/ Cleanup
  \/ Tick
  \/ StartReadFails \/ StartRemoveFails \/ StartSetFails \/ FinishFails \/ Crash

Spec == Init /\ [][Next]_vars

\* Both monitors look every three seconds, and time passes.
Fairness ==
  /\ WF_vars(MonitorBalanceGameStartTimer)
  /\ WF_vars(MonitorBalanceGameFinishTimer)
  /\ WF_vars(Tick)

FairSpec == Spec /\ Fairness

-----------------------------------------------------------------------------
\* Properties.

Round == INSTANCE VotingRound WITH
  opened <- made,
  openedAt <- bornAt,
  told <- results,
  slack <- faults,
  broken <- panicked

\* Two monitors that look at keys and lists every three seconds, and repeat a pass that
\* fails from wherever it was, give a room the games that VotingRound promises: not
\* before their time, no result before its voting time is over, and nothing twice that
\* no fault has paid for.
ImplementsVotingRound == Round!Spec

\* A room gets one form, and one more for every fault: a pass that fails after the
\* insertion, or does not take the room off its list, is repeated from the start.  (So
\* is one that the finish monitor's panic has cut off.)
FormsBounded == ~panicked => made <= 1 + faults

\* A form's result is published no earlier than its voting time after the insertion,
\* whatever fails and whichever monitor is faster.
VotingWindowKept == \A f \in Forms : results[f] > 0 => bornAt[f] + FinishDelay <= now

\* It is published once, and once more for every fault.
ResultsBounded == \A f \in Forms : results[f] <= 1 + faults

\* Without faults a form that has no result yet is held by the start monitor or listed.
FormNotForgotten ==
  faults = 0 /\ ~panicked =>
    \A f \in Forms : doc[f] = "live" /\ results[f] = 0 => f = cur \/ f \in finList

\* The game service dies over a deleted form only after it has been late: faults and
\* crashes alone, which the monitors repair at their next ticks, do not suffice.
PanicNeedsLateness == panicked => late

\* However late the monitors are, without faults every form gets its result, unless it
\* was deleted before.
FormIsFinished ==
  \A f \in Forms : doc[f] = "live" ~> results[f] > 0 \/ doc[f] = "deleted" \/ faults > 0
=============================================================================
