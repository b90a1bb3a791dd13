------------------------- MODULE BalanceTimersProofs -------------------------
(***************************************************************************)
(* Theorems of BalanceTimers, for all delays that DelaysAssumption admits  *)
(* and any number of forms and faults.                                     *)
(***************************************************************************)
EXTENDS BalanceTimers, TLAPS

-----------------------------------------------------------------------------
\* The strengthening.

\* What the monitors hold at each of their positions.
HoldInv ==
  /\ start \in {"idle", "insert"} <=> cur = 0
  /\ finish = "idle" <=> fin = 0
  /\ start \in {"insert", "read", "publish", "del", "srem"} => listed
  /\ fin # 0 => fin \in finList
  /\ cur # 0 => cur \notin finList
  /\ timer \in {0, StartDelay}

\* A form that is not inserted yet is nowhere, and one that is held or listed is.
NumberInv ==
  \A f \in Forms :
    /\ f > made => doc[f] = "none" /\ f \notin finList /\ f # cur /\ f # fin /\ results[f] = 0
    /\ f <= made => doc[f] # "none"

\* A listed room that has no form from this pass yet is still owed one.
OwedInv ==
  ~panicked =>
    made + (IF listed /\ start \notin {"read", "publish", "del", "srem"} THEN 1 ELSE 0)
      <= 1 + faults

Passed(f) == bornAt[f] + FinishDelay <= now

\* A form whose voting time is not over is listed with a timer that is not over.
WindowInv ==
  /\ \A f \in Forms : bornAt[f] <= now
  /\ \A f \in finList : Passed(f) \/ finTimer[f] >= bornAt[f] + FinishDelay
  /\ start = "sadd" => finTimer[cur] >= bornAt[cur] + FinishDelay
  /\ fin # 0 => Passed(fin)
  /\ \A f \in Forms : results[f] > 0 => Passed(f)

\* A result that may be published yet, in the present pass or a later one.
Pending(f) ==
  /\ f > made \/ f = cur \/ f \in finList
  /\ f = fin => finish \notin {"del", "srem"}

\* ... is paid for like those that were.
PaidInv == \A f \in Forms : results[f] + (IF Pending(f) THEN 1 ELSE 0) <= 1 + faults

\* A form whose timer is being removed has its result.
ToldInv == faults = 0 /\ finish \in {"del", "srem"} => results[fin] > 0

\* As long as nothing was late, whoever has work to do still has the time for it, and
\* what he works on is there.
TimelyInv ==
  ~late =>
    /\ listed \/ start # "idle" => now <= StartDelay
    /\ finList # {} => now <= StartDelay + FinishDelay
    /\ \A f \in finList : finTimer[f] <= StartDelay + FinishDelay /\ doc[f] = "live"
    /\ start = "sadd" => finTimer[cur] <= StartDelay + FinishDelay
    /\ cur # 0 => doc[cur] = "live"

\* The start monitor's pass begins when the room's timer has expired, and only then
\* deletes it.
DelayInv == start # "idle" \/ timer # StartDelay => StartDelay <= now

IInv ==
  /\ TypeOK
  /\ HoldInv
  /\ NumberInv
  /\ OwedInv
  /\ WindowInv
  /\ PaidInv
  /\ ToldInv
  /\ FormNotForgotten
  /\ TimelyInv
  /\ PanicNeedsLateness
  /\ DelayInv

-----------------------------------------------------------------------------
\* The parts, one at a time.

\* Every step of monitors, clean-up, clock and faults keeps the types.
LEMMA TypeNext == TypeOK /\ HoldInv /\ [Next]_vars => TypeOK'
<1> SUFFICES ASSUME TypeOK, HoldInv, [Next]_vars PROVE TypeOK'
  OBVIOUS
<1> USE ConstantsAssumption DEF TypeOK, Forms, StartPcs, FinishPcs, vars, startVars, finVars
<1>1. CASE StartFindExpired
  BY <1>1 DEF StartFindExpired, StartGoto
<1>2. CASE StartInsert
  BY <1>2 DEF StartInsert, StartGoto, InsertBalanceForm
<1>3. CASE StartRead
  BY <1>3 DEF StartRead, StartGoto
<1>20. CASE StartPublish
  <2>1. faults' \in Nat
    BY <1>20 DEF StartPublish
  <2> QED
    BY <1>20, <2>1 DEF StartPublish, StartGoto
<1>21. CASE StartDel
  BY <1>21 DEF StartDel, StartGoto
<1>4. CASE StartSRem
  BY <1>4 DEF StartSRem, StartGoto
<1>5. CASE StartSetTimer
  <2>1. cur \in Forms
    BY <1>5 DEF StartSetTimer, StartGoto, HoldInv
  <2>2. now + FinishDelay \in Nat
    OBVIOUS
  <2>3. finTimer' \in [Forms -> Nat]
    BY <1>5, <2>1, <2>2 DEF StartSetTimer
  <2> QED
    BY <1>5, <2>3 DEF StartSetTimer, StartGoto
<1>6. CASE StartListForm
  <2>1. cur \in Forms
    BY <1>6 DEF StartListForm, StartGoto, HoldInv
  <2> QED
    BY <1>6, <2>1 DEF StartListForm, StartGoto
<1>7. CASE FinishFindExpired
  BY <1>7 DEF FinishFindExpired, FinishGoto
<1>8. CASE FinishLoad
  BY <1>8 DEF FinishLoad, FinishGoto
<1>9. CASE FinishLoadPanic
  BY <1>9 DEF FinishLoadPanic, FinishGoto
<1>10. CASE FinishPublish
  <2>1. faults' \in Nat
    BY <1>10 DEF FinishPublish
  <2>2. fin \in Forms /\ results[fin] + 1 \in Nat
    BY <1>10 DEF FinishPublish, FinishGoto, HoldInv
  <2>3. [results EXCEPT ![fin] = @ + 1] \in [Forms -> Nat]
    BY <2>2
  <2>4. results' \in [Forms -> Nat]
    BY <1>10, <2>3 DEF FinishPublish
  <2> QED
    BY <1>10, <2>1, <2>4 DEF FinishPublish, FinishGoto
<1>11. CASE FinishDel
  BY <1>11 DEF FinishDel, FinishGoto
<1>12. CASE FinishSRem
  BY <1>12 DEF FinishSRem, FinishGoto
<1>13. CASE Cleanup
  BY <1>13 DEF Cleanup
<1>14. CASE Tick
  BY <1>14 DEF Tick, Due
<1>15. CASE StartReadFails
  <2>1. CASE UNCHANGED <<made, doc, bornAt>>
    BY <1>15, <2>1 DEF StartReadFails
  <2>2. CASE start = "insert" /\ \E f \in Forms : InsertBalanceForm(f)
    <3>1. PICK f \in Forms : InsertBalanceForm(f)
      BY <2>2
    <3>2. made' \in 0..MaxForms
      BY <3>1 DEF InsertBalanceForm
    <3>3. doc' \in [Forms -> {"none", "live", "deleted"}]
      BY <3>1 DEF InsertBalanceForm
    <3>4. bornAt' \in [Forms -> Nat]
      BY <3>1 DEF InsertBalanceForm
    <3> QED
      BY <1>15, <3>2, <3>3, <3>4 DEF StartReadFails
  <2> QED
    BY <1>15, <2>1, <2>2 DEF StartReadFails
<1>16. CASE StartRemoveFails
  BY <1>16 DEF StartRemoveFails
<1>22. CASE StartSetFails
  BY <1>22 DEF StartSetFails
<1>17. CASE FinishFails
  BY <1>17 DEF FinishFails
<1>18. CASE Crash
  BY <1>18 DEF Crash
<1>19. CASE UNCHANGED vars
  BY <1>19
<1> QED
  BY <1>1, <1>2, <1>3, <1>4, <1>5, <1>6, <1>7, <1>8, <1>9, <1>10, <1>11, <1>12, <1>13, <1>14, <1>15, <1>16, <1>17, <1>18, <1>19, <1>20, <1>21, <1>22
  DEF Next, MonitorBalanceGameStartTimer, MonitorBalanceGameFinishTimer

\* The monitors hold what their positions say.
LEMMA HoldNext == TypeOK /\ HoldInv /\ NumberInv /\ [Next]_vars => HoldInv'
<1> SUFFICES ASSUME TypeOK, HoldInv, NumberInv, [Next]_vars PROVE HoldInv'
  OBVIOUS
<1> USE ConstantsAssumption DEF TypeOK, Forms, StartPcs, FinishPcs, vars, startVars, finVars, HoldInv, NumberInv
<1>1. CASE StartFindExpired
  BY <1>1 DEF StartFindExpired, StartGoto
<1>2. CASE StartInsert
  BY <1>2 DEF StartInsert, StartGoto, InsertBalanceForm
<1>3. CASE StartRead
  BY <1>3 DEF StartRead, StartGoto
<1>20. CASE StartPublish
  BY <1>20 DEF StartPublish, StartGoto
<1>21. CASE StartDel
  BY <1>21 DEF StartDel, StartGoto
<1>4. CASE StartSRem
  BY <1>4 DEF StartSRem, StartGoto
<1>5. CASE StartSetTimer
  BY <1>5 DEF StartSetTimer, StartGoto
<1>6. CASE StartListForm
  BY <1>6 DEF StartListForm, StartGoto
<1>7. CASE FinishFindExpired
  BY <1>7 DEF FinishFindExpired, FinishGoto
<1>8. CASE FinishLoad
  BY <1>8 DEF FinishLoad, FinishGoto
<1>9. CASE FinishLoadPanic
  BY <1>9 DEF FinishLoadPanic, FinishGoto
<1>10. CASE FinishPublish
  BY <1>10 DEF FinishPublish, FinishGoto
<1>11. CASE FinishDel
  BY <1>11 DEF FinishDel, FinishGoto
<1>12. CASE FinishSRem
  BY <1>12 DEF FinishSRem, FinishGoto
<1>13. CASE Cleanup
  BY <1>13 DEF Cleanup
<1>14. CASE Tick
  BY <1>14 DEF Tick, Due
<1>15. CASE StartReadFails
  <2>1. CASE UNCHANGED <<made, doc, bornAt>>
    BY <1>15, <2>1 DEF StartReadFails
  <2>2. CASE start = "insert" /\ \E f \in Forms : InsertBalanceForm(f)
    <3>1. PICK f \in Forms : InsertBalanceForm(f)
      BY <2>2
    <3> QED
      BY <1>15, <2>2, <3>1 DEF StartReadFails, InsertBalanceForm
  <2> QED
    BY <1>15, <2>1, <2>2 DEF StartReadFails
<1>16. CASE StartRemoveFails
  BY <1>16 DEF StartRemoveFails
<1>22. CASE StartSetFails
  BY <1>22 DEF StartSetFails
<1>17. CASE FinishFails
  BY <1>17 DEF FinishFails
<1>18. CASE Crash
  BY <1>18 DEF Crash
<1>19. CASE UNCHANGED vars
  BY <1>19
<1> QED
  BY <1>1, <1>2, <1>3, <1>4, <1>5, <1>6, <1>7, <1>8, <1>9, <1>10, <1>11, <1>12, <1>13, <1>14, <1>15, <1>16, <1>17, <1>18, <1>19, <1>20, <1>21, <1>22
  DEF Next, MonitorBalanceGameStartTimer, MonitorBalanceGameFinishTimer

\* Forms are numbered as they are inserted.
LEMMA NumberNext == TypeOK /\ HoldInv /\ NumberInv /\ [Next]_vars => NumberInv'
<1> SUFFICES ASSUME TypeOK, HoldInv, NumberInv, [Next]_vars PROVE NumberInv'
  OBVIOUS
<1> USE ConstantsAssumption DEF TypeOK, Forms, StartPcs, FinishPcs, vars, startVars, finVars, HoldInv, NumberInv
<1>1. CASE StartFindExpired
  BY <1>1 DEF StartFindExpired, StartGoto
<1>2. CASE StartInsert
  BY <1>2 DEF StartInsert, StartGoto, InsertBalanceForm
<1>3. CASE StartRead
  BY <1>3 DEF StartRead, StartGoto
<1>20. CASE StartPublish
  BY <1>20 DEF StartPublish, StartGoto
<1>21. CASE StartDel
  BY <1>21 DEF StartDel, StartGoto
<1>4. CASE StartSRem
  BY <1>4 DEF StartSRem, StartGoto
<1>5. CASE StartSetTimer
  BY <1>5 DEF StartSetTimer, StartGoto
<1>6. CASE StartListForm
  BY <1>6 DEF StartListForm, StartGoto
<1>7. CASE FinishFindExpired
  BY <1>7 DEF FinishFindExpired, FinishGoto
<1>8. CASE FinishLoad
  BY <1>8 DEF FinishLoad, FinishGoto
<1>9. CASE FinishLoadPanic
  BY <1>9 DEF FinishLoadPanic, FinishGoto
<1>10. CASE FinishPublish
  BY <1>10 DEF FinishPublish, FinishGoto
<1>11. CASE FinishDel
  BY <1>11 DEF FinishDel, FinishGoto
<1>12. CASE FinishSRem
  BY <1>12 DEF FinishSRem, FinishGoto
<1>13. CASE Cleanup
  BY <1>13 DEF Cleanup
<1>14. CASE Tick
  BY <1>14 DEF Tick, Due
<1>15. CASE StartReadFails
  <2>1. CASE UNCHANGED <<made, doc, bornAt>>
    BY <1>15, <2>1 DEF StartReadFails
  <2>2. CASE start = "insert" /\ \E f \in Forms : InsertBalanceForm(f)
    <3>1. PICK f \in Forms : InsertBalanceForm(f)
      BY <2>2
    <3>2. made' = f /\ f = made + 1 /\ doc' = [doc EXCEPT ![f] = "live"]
      BY <3>1 DEF InsertBalanceForm
    <3>3. cur' = 0 /\ UNCHANGED <<finList, fin, results>>
      BY <1>15 DEF StartReadFails
    <3>4. \A g \in Forms : g > made' => doc'[g] = doc[g]
      BY <3>2
    <3>5. \A g \in Forms : g <= made' => doc'[g] # "none"
      BY <3>2
    <3> QED
      BY <3>2, <3>3, <3>4, <3>5
  <2> QED
    BY <1>15, <2>1, <2>2 DEF StartReadFails
<1>16. CASE StartRemoveFails
  BY <1>16 DEF StartRemoveFails
<1>22. CASE StartSetFails
  BY <1>22 DEF StartSetFails
<1>17. CASE FinishFails
  BY <1>17 DEF FinishFails
<1>18. CASE Crash
  BY <1>18 DEF Crash
<1>19. CASE UNCHANGED vars
  BY <1>19
<1> QED
  BY <1>1, <1>2, <1>3, <1>4, <1>5, <1>6, <1>7, <1>8, <1>9, <1>10, <1>11, <1>12, <1>13, <1>14, <1>15, <1>16, <1>17, <1>18, <1>19, <1>20, <1>21, <1>22
  DEF Next, MonitorBalanceGameStartTimer, MonitorBalanceGameFinishTimer

\* Only a fault or a panic makes a room be owed a second form.
LEMMA OwedNext == TypeOK /\ HoldInv /\ OwedInv /\ [Next]_vars => OwedInv'
<1> SUFFICES ASSUME TypeOK, HoldInv, OwedInv, [Next]_vars PROVE OwedInv'
  OBVIOUS
<1> USE ConstantsAssumption DEF TypeOK, Forms, StartPcs, FinishPcs, vars, startVars, finVars, HoldInv, OwedInv
<1>1. CASE StartFindExpired
  BY <1>1 DEF StartFindExpired, StartGoto
<1>2. CASE StartInsert
  BY <1>2 DEF StartInsert, StartGoto, InsertBalanceForm
<1>3. CASE StartRead
  BY <1>3 DEF StartRead, StartGoto
<1>20. CASE StartPublish
  BY <1>20 DEF StartPublish, StartGoto
<1>21. CASE StartDel
  BY <1>21 DEF StartDel, StartGoto
<1>4. CASE StartSRem
  BY <1>4 DEF StartSRem, StartGoto
<1>5. CASE StartSetTimer
  BY <1>5 DEF StartSetTimer, StartGoto
<1>6. CASE StartListForm
  BY <1>6 DEF StartListForm, StartGoto
<1>7. CASE FinishFindExpired
  BY <1>7 DEF FinishFindExpired, FinishGoto
<1>8. CASE FinishLoad
  BY <1>8 DEF FinishLoad, FinishGoto
<1>9. CASE FinishLoadPanic
  BY <1>9 DEF FinishLoadPanic, FinishGoto
<1>10. CASE FinishPublish
  BY <1>10 DEF FinishPublish, FinishGoto
<1>11. CASE FinishDel
  BY <1>11 DEF FinishDel, FinishGoto
<1>12. CASE FinishSRem
  BY <1>12 DEF FinishSRem, FinishGoto
<1>13. CASE Cleanup
  BY <1>13 DEF Cleanup
<1>14. CASE Tick
  BY <1>14 DEF Tick, Due
<1>15. CASE StartReadFails
  <2>1. CASE UNCHANGED <<made, doc, bornAt>>
    BY <1>15, <2>1 DEF StartReadFails
  <2>2. CASE start = "insert" /\ \E f \in Forms : InsertBalanceForm(f)
    <3>1. PICK f \in Forms : InsertBalanceForm(f)
      BY <2>2
    <3>2. made' = made + 1 /\ faults' = faults + 1 /\ (panicked' <=> panicked)
      <4>1. made' = made + 1
        BY <3>1 DEF InsertBalanceForm
      <4>2. faults' = faults + 1
        BY <1>15 DEF StartReadFails
      <4>3. panicked' = panicked
        BY <1>15 DEF StartReadFails
      <4> QED
        BY <4>1, <4>2, <4>3
    <3>3. listed /\ (~panicked => made + 1 <= 1 + faults)
      BY <2>2
    <3>4. ~panicked => made' + 1 <= 1 + faults'
      BY <3>2, <3>3
    <3> QED
      BY <3>2, <3>4
  <2> QED
    BY <1>15, <2>1, <2>2 DEF StartReadFails
<1>16. CASE StartRemoveFails
  BY <1>16 DEF StartRemoveFails
<1>22. CASE StartSetFails
  BY <1>22 DEF StartSetFails
<1>17. CASE FinishFails
  BY <1>17 DEF FinishFails
<1>18. CASE Crash
  BY <1>18 DEF Crash
<1>19. CASE UNCHANGED vars
  BY <1>19
<1> QED
  BY <1>1, <1>2, <1>3, <1>4, <1>5, <1>6, <1>7, <1>8, <1>9, <1>10, <1>11, <1>12, <1>13, <1>14, <1>15, <1>16, <1>17, <1>18, <1>19, <1>20, <1>21, <1>22
  DEF Next, MonitorBalanceGameStartTimer, MonitorBalanceGameFinishTimer

\* A result follows the voting time.
LEMMA WindowNext == TypeOK /\ HoldInv /\ NumberInv /\ WindowInv /\ [Next]_vars => WindowInv'
<1> SUFFICES ASSUME TypeOK, HoldInv, NumberInv, WindowInv, [Next]_vars PROVE WindowInv'
  OBVIOUS
<1> USE ConstantsAssumption DEF TypeOK, Forms, StartPcs, FinishPcs, vars, startVars, finVars, HoldInv, NumberInv, WindowInv, Passed, Expired
<1>1. CASE StartFindExpired
  BY <1>1 DEF StartFindExpired, StartGoto
<1>2. CASE StartInsert
  BY <1>2 DEF StartInsert, StartGoto, InsertBalanceForm
<1>3. CASE StartRead
  BY <1>3 DEF StartRead, StartGoto
<1>20. CASE StartPublish
  BY <1>20 DEF StartPublish, StartGoto
<1>21. CASE StartDel
  BY <1>21 DEF StartDel, StartGoto
<1>4. CASE StartSRem
  BY <1>4 DEF StartSRem, StartGoto
<1>5. CASE StartSetTimer
  <2>1. cur \in Forms /\ cur \notin finList /\ finTimer'[cur] = now + FinishDelay
    BY <1>5 DEF StartSetTimer, StartGoto
  <2>2. bornAt[cur] <= now
    BY <1>5, <2>1 DEF StartSetTimer
  <2>3. \A f \in finList : finTimer'[f] = finTimer[f]
    BY <1>5, <2>1 DEF StartSetTimer
  <2> QED
    BY <1>5, <2>1, <2>2, <2>3 DEF StartSetTimer, StartGoto
<1>6. CASE StartListForm
  BY <1>6 DEF StartListForm, StartGoto
<1>7. CASE FinishFindExpired
  BY <1>7 DEF FinishFindExpired, FinishGoto
<1>8. CASE FinishLoad
  BY <1>8 DEF FinishLoad, FinishGoto
<1>9. CASE FinishLoadPanic
  BY <1>9 DEF FinishLoadPanic, FinishGoto
<1>10. CASE FinishPublish
  BY <1>10 DEF FinishPublish, FinishGoto
<1>11. CASE FinishDel
  BY <1>11 DEF FinishDel, FinishGoto
<1>12. CASE FinishSRem
  BY <1>12 DEF FinishSRem, FinishGoto
<1>13. CASE Cleanup
  BY <1>13 DEF Cleanup
<1>14. CASE Tick
  <2>1. now' = now + 1
    BY <1>14 DEF Tick
  <2>2. UNCHANGED <<start, cur, fin, finList, finTimer, bornAt, results>>
    BY <1>14 DEF Tick
  <2>3. ASSUME NEW f \in Forms PROVE bornAt[f] <= now' /\ (Passed(f) => Passed(f)')
    <3>1. bornAt[f] \in Nat /\ now \in Nat /\ bornAt[f] <= now
      OBVIOUS
    <3>2. Passed(f)' <=> bornAt[f] + FinishDelay <= now'
      BY <2>2
    <3> HIDE DEF TypeOK, HoldInv, NumberInv, WindowInv
    <3> QED
      BY <2>1, <3>1, <3>2
  <2> QED
    BY <2>2, <2>3
<1>15. CASE StartReadFails
  <2>1. CASE UNCHANGED <<made, doc, bornAt>>
    BY <1>15, <2>1 DEF StartReadFails
  <2>2. CASE start = "insert" /\ \E f \in Forms : InsertBalanceForm(f)
    <3>1. PICK f \in Forms : InsertBalanceForm(f)
      BY <2>2
    <3> QED
      BY <1>15, <2>2, <3>1 DEF StartReadFails, InsertBalanceForm
  <2> QED
    BY <1>15, <2>1, <2>2 DEF StartReadFails
<1>16. CASE StartRemoveFails
  BY <1>16 DEF StartRemoveFails
<1>22. CASE StartSetFails
  BY <1>22 DEF StartSetFails
<1>17. CASE FinishFails
  BY <1>17 DEF FinishFails
<1>18. CASE Crash
  BY <1>18 DEF Crash
<1>19. CASE UNCHANGED vars
  BY <1>19
<1> QED
  BY <1>1, <1>2, <1>3, <1>4, <1>5, <1>6, <1>7, <1>8, <1>9, <1>10, <1>11, <1>12, <1>13, <1>14, <1>15, <1>16, <1>17, <1>18, <1>19, <1>20, <1>21, <1>22
  DEF Next, MonitorBalanceGameStartTimer, MonitorBalanceGameFinishTimer

\* Only a fault pays for a second result.
LEMMA PaidNext == TypeOK /\ HoldInv /\ NumberInv /\ PaidInv /\ [Next]_vars => PaidInv'
<1> SUFFICES ASSUME TypeOK, HoldInv, NumberInv, PaidInv, [Next]_vars, NEW g \in Forms
    PROVE (results[g] + (IF Pending(g) THEN 1 ELSE 0) <= 1 + faults)'
  BY DEF PaidInv, Forms
<1> USE ConstantsAssumption DEF TypeOK, Forms, StartPcs, FinishPcs, vars, startVars, finVars, HoldInv, NumberInv, Pending
<1>0. /\ results[g] \in Nat
      /\ results[g] + (IF Pending(g) THEN 1 ELSE 0) <= 1 + faults
  BY DEF PaidInv
<1>1. CASE StartFindExpired
  BY <1>0, <1>1 DEF StartFindExpired, StartGoto
<1>2. CASE StartInsert
  BY <1>0, <1>2 DEF StartInsert, StartGoto, InsertBalanceForm
<1>3. CASE StartRead
  BY <1>0, <1>3 DEF StartRead, StartGoto
<1>20. CASE StartPublish
  <2>1. faults' \in Nat /\ faults <= faults'
    BY <1>20 DEF StartPublish
  <2>2. results'[g] = results[g] /\ (Pending(g)' <=> Pending(g))
    BY <1>20 DEF StartPublish, StartGoto
  <2> QED
    BY <1>0, <2>1, <2>2
<1>21. CASE StartDel
  BY <1>0, <1>21 DEF StartDel, StartGoto
<1>4. CASE StartSRem
  BY <1>0, <1>4 DEF StartSRem, StartGoto
<1>5. CASE StartSetTimer
  BY <1>0, <1>5 DEF StartSetTimer, StartGoto
<1>6. CASE StartListForm
  BY <1>0, <1>6 DEF StartListForm, StartGoto
<1>7. CASE FinishFindExpired
  BY <1>0, <1>7 DEF FinishFindExpired, FinishGoto
<1>8. CASE FinishLoad
  BY <1>0, <1>8 DEF FinishLoad, FinishGoto
<1>9. CASE FinishLoadPanic
  BY <1>0, <1>9 DEF FinishLoadPanic, FinishGoto
<1>10. CASE FinishPublish
  <2>1. fin \in Forms /\ finish = "publish" /\ finish' = "del" /\ fin \in finList
    BY <1>10 DEF FinishPublish, FinishGoto
  <2>2. fin' = fin /\ cur' = cur /\ finList' = finList /\ made' = made
    BY <1>10 DEF FinishPublish
  <2>3. faults' \in Nat /\ faults <= faults'
    BY <1>10 DEF FinishPublish
  <2>4. CASE g = fin
    <3>1. Pending(g) /\ ~Pending(g)'
      BY <2>1, <2>2, <2>4
    <3>2. results'[g] <= results[g] + 1 /\ results'[g] \in Nat
      <4>1. results' = [results EXCEPT ![fin] = @ + 1] \/ results' = results
        BY <1>10 DEF FinishPublish
      <4>2. results'[g] = results[g] + 1 \/ results'[g] = results[g]
        BY <4>1, <2>4
      <4> HIDE DEF TypeOK, HoldInv, NumberInv
      <4> QED
        BY <4>2, <1>0
    <3> QED
      BY <1>0, <2>3, <3>1, <3>2
  <2>5. CASE g # fin
    <3>1. results'[g] = results[g]
      BY <1>10, <2>5 DEF FinishPublish
    <3>2. Pending(g)' <=> Pending(g)
      BY <2>2, <2>5
    <3> QED
      BY <1>0, <2>3, <3>1, <3>2
  <2> QED
    BY <2>4, <2>5
<1>11. CASE FinishDel
  BY <1>0, <1>11 DEF FinishDel, FinishGoto
<1>12. CASE FinishSRem
  BY <1>0, <1>12 DEF FinishSRem, FinishGoto
<1>13. CASE Cleanup
  BY <1>0, <1>13 DEF Cleanup
<1>14. CASE Tick
  BY <1>0, <1>14 DEF Tick, Due
<1>15. CASE StartReadFails
  <2>1. CASE UNCHANGED <<made, doc, bornAt>>
    BY <1>0, <1>15, <2>1 DEF StartReadFails
  <2>2. CASE start = "insert" /\ \E f \in Forms : InsertBalanceForm(f)
    <3>1. PICK f \in Forms : InsertBalanceForm(f)
      BY <2>2
    <3> QED
      BY <1>0, <1>15, <2>2, <3>1 DEF StartReadFails, InsertBalanceForm
  <2> QED
    BY <1>0, <1>15, <2>1, <2>2 DEF StartReadFails
<1>16. CASE StartRemoveFails
  <2>1. results' = results /\ faults' = faults + 1 /\ faults \in Nat
    BY <1>16 DEF StartRemoveFails
  <2> HIDE DEF TypeOK, HoldInv, NumberInv, Pending
  <2> QED
    BY <1>0, <2>1
<1>22. CASE StartSetFails
  <2>1. results' = results /\ faults' = faults + 1 /\ faults \in Nat
    BY <1>22 DEF StartSetFails
  <2> HIDE DEF TypeOK, HoldInv, NumberInv, Pending
  <2> QED
    BY <1>0, <2>1
<1>17. CASE FinishFails
  <2>1. results' = results /\ faults' = faults + 1 /\ faults \in Nat
    BY <1>17 DEF FinishFails
  <2> HIDE DEF TypeOK, HoldInv, NumberInv, Pending
  <2> QED
    BY <1>0, <2>1
<1>18. CASE Crash
  <2>1. results' = results /\ faults' = faults + 1 /\ faults \in Nat
    BY <1>18 DEF Crash
  <2> HIDE DEF TypeOK, HoldInv, NumberInv, Pending
  <2> QED
    BY <1>0, <2>1
<1>19. CASE UNCHANGED vars
  BY <1>0, <1>19
<1> QED
  BY <1>1, <1>2, <1>3, <1>4, <1>5, <1>6, <1>7, <1>8, <1>9, <1>10, <1>11, <1>12, <1>13, <1>14, <1>15, <1>16, <1>17, <1>18, <1>19, <1>20, <1>21, <1>22
  DEF Next, MonitorBalanceGameStartTimer, MonitorBalanceGameFinishTimer

\* A form is taken off the list after its result.
LEMMA ToldNext == TypeOK /\ HoldInv /\ ToldInv /\ [Next]_vars => ToldInv'
<1> SUFFICES ASSUME TypeOK, HoldInv, ToldInv, [Next]_vars PROVE ToldInv'
  OBVIOUS
<1> USE ConstantsAssumption DEF TypeOK, Forms, StartPcs, FinishPcs, vars, startVars, finVars, HoldInv, ToldInv
<1>1. CASE StartFindExpired
  BY <1>1 DEF StartFindExpired, StartGoto
<1>2. CASE StartInsert
  BY <1>2 DEF StartInsert, StartGoto, InsertBalanceForm
<1>3. CASE StartRead
  BY <1>3 DEF StartRead, StartGoto
<1>20. CASE StartPublish
  BY <1>20 DEF StartPublish, StartGoto
<1>21. CASE StartDel
  BY <1>21 DEF StartDel, StartGoto
<1>4. CASE StartSRem
  BY <1>4 DEF StartSRem, StartGoto
<1>5. CASE StartSetTimer
  BY <1>5 DEF StartSetTimer, StartGoto
<1>6. CASE StartListForm
  BY <1>6 DEF StartListForm, StartGoto
<1>7. CASE FinishFindExpired
  BY <1>7 DEF FinishFindExpired, FinishGoto
<1>8. CASE FinishLoad
  BY <1>8 DEF FinishLoad, FinishGoto
<1>9. CASE FinishLoadPanic
  BY <1>9 DEF FinishLoadPanic, FinishGoto
<1>10. CASE FinishPublish
  BY <1>10 DEF FinishPublish, FinishGoto
<1>11. CASE FinishDel
  BY <1>11 DEF FinishDel, FinishGoto
<1>12. CASE FinishSRem
  BY <1>12 DEF FinishSRem, FinishGoto
<1>13. CASE Cleanup
  BY <1>13 DEF Cleanup
<1>14. CASE Tick
  BY <1>14 DEF Tick, Due
<1>15. CASE StartReadFails
  <2>1. CASE UNCHANGED <<made, doc, bornAt>>
    BY <1>15, <2>1 DEF StartReadFails
  <2>2. CASE start = "insert" /\ \E f \in Forms : InsertBalanceForm(f)
    <3>1. PICK f \in Forms : InsertBalanceForm(f)
      BY <2>2
    <3> QED
      BY <1>15, <2>2, <3>1 DEF StartReadFails, InsertBalanceForm
  <2> QED
    BY <1>15, <2>1, <2>2 DEF StartReadFails
<1>16. CASE StartRemoveFails
  BY <1>16 DEF StartRemoveFails
<1>22. CASE StartSetFails
  BY <1>22 DEF StartSetFails
<1>17. CASE FinishFails
  BY <1>17 DEF FinishFails
<1>18. CASE Crash
  BY <1>18 DEF Crash
<1>19. CASE UNCHANGED vars
  BY <1>19
<1> QED
  BY <1>1, <1>2, <1>3, <1>4, <1>5, <1>6, <1>7, <1>8, <1>9, <1>10, <1>11, <1>12, <1>13, <1>14, <1>15, <1>16, <1>17, <1>18, <1>19, <1>20, <1>21, <1>22
  DEF Next, MonitorBalanceGameStartTimer, MonitorBalanceGameFinishTimer

\* A form passes from the start monitor to the list and stays there.
LEMMA ForgottenNext == TypeOK /\ HoldInv /\ NumberInv /\ ToldInv /\ FormNotForgotten /\ [Next]_vars => FormNotForgotten'
<1> SUFFICES ASSUME TypeOK, HoldInv, NumberInv, ToldInv, FormNotForgotten, [Next]_vars PROVE FormNotForgotten'
  OBVIOUS
<1> USE ConstantsAssumption DEF TypeOK, Forms, StartPcs, FinishPcs, vars, startVars, finVars, HoldInv, NumberInv, ToldInv, FormNotForgotten
<1>1. CASE StartFindExpired
  BY <1>1 DEF StartFindExpired, StartGoto
<1>2. CASE StartInsert
  BY <1>2 DEF StartInsert, StartGoto, InsertBalanceForm
<1>3. CASE StartRead
  BY <1>3 DEF StartRead, StartGoto
<1>20. CASE StartPublish
  BY <1>20 DEF StartPublish, StartGoto
<1>21. CASE StartDel
  BY <1>21 DEF StartDel, StartGoto
<1>4. CASE StartSRem
  BY <1>4 DEF StartSRem, StartGoto
<1>5. CASE StartSetTimer
  BY <1>5 DEF StartSetTimer, StartGoto
<1>6. CASE StartListForm
  BY <1>6 DEF StartListForm, StartGoto
<1>7. CASE FinishFindExpired
  BY <1>7 DEF FinishFindExpired, FinishGoto
<1>8. CASE FinishLoad
  BY <1>8 DEF FinishLoad, FinishGoto
<1>9. CASE FinishLoadPanic
  BY <1>9 DEF FinishLoadPanic, FinishGoto
<1>10. CASE FinishPublish
  BY <1>10 DEF FinishPublish, FinishGoto
<1>11. CASE FinishDel
  BY <1>11 DEF FinishDel, FinishGoto
<1>12. CASE FinishSRem
  BY <1>12 DEF FinishSRem, FinishGoto
<1>13. CASE Cleanup
  BY <1>13 DEF Cleanup
<1>14. CASE Tick
  BY <1>14 DEF Tick, Due
<1>15. CASE StartReadFails
  <2>1. CASE UNCHANGED <<made, doc, bornAt>>
    BY <1>15, <2>1 DEF StartReadFails
  <2>2. CASE start = "insert" /\ \E f \in Forms : InsertBalanceForm(f)
    <3>1. PICK f \in Forms : InsertBalanceForm(f)
      BY <2>2
    <3> QED
      BY <1>15, <2>2, <3>1 DEF StartReadFails, InsertBalanceForm
  <2> QED
    BY <1>15, <2>1, <2>2 DEF StartReadFails
<1>16. CASE StartRemoveFails
  BY <1>16 DEF StartRemoveFails
<1>22. CASE StartSetFails
  BY <1>22 DEF StartSetFails
<1>17. CASE FinishFails
  BY <1>17 DEF FinishFails
<1>18. CASE Crash
  BY <1>18 DEF Crash
<1>19. CASE UNCHANGED vars
  BY <1>19
<1> QED
  BY <1>1, <1>2, <1>3, <1>4, <1>5, <1>6, <1>7, <1>8, <1>9, <1>10, <1>11, <1>12, <1>13, <1>14, <1>15, <1>16, <1>17, <1>18, <1>19, <1>20, <1>21, <1>22
  DEF Next, MonitorBalanceGameStartTimer, MonitorBalanceGameFinishTimer

\* Work that is due holds the clock, unless it is late.
LEMMA TimelyNext == TypeOK /\ HoldInv /\ NumberInv /\ TimelyInv /\ [Next]_vars => TimelyInv'
<1> SUFFICES ASSUME TypeOK, HoldInv, NumberInv, TimelyInv, [Next]_vars PROVE TimelyInv'
  OBVIOUS
<1> USE ConstantsAssumption, DelaysAssumption DEF TypeOK, Forms, StartPcs, FinishPcs, vars, startVars, finVars, HoldInv, NumberInv, TimelyInv, Expired
<1>1. CASE StartFindExpired
  BY <1>1 DEF StartFindExpired, StartGoto
<1>2. CASE StartInsert
  BY <1>2 DEF StartInsert, StartGoto, InsertBalanceForm
<1>3. CASE StartRead
  BY <1>3 DEF StartRead, StartGoto
<1>20. CASE StartPublish
  BY <1>20 DEF StartPublish, StartGoto
<1>21. CASE StartDel
  BY <1>21 DEF StartDel, StartGoto
<1>4. CASE StartSRem
  BY <1>4 DEF StartSRem, StartGoto
<1>5. CASE StartSetTimer
  <2>1. start = "set" /\ start' = "sadd" /\ cur \in Forms /\ cur \notin finList
    BY <1>5 DEF StartSetTimer, StartGoto
  <2>2. finTimer' = [finTimer EXCEPT ![cur] = now + FinishDelay]
    BY <1>5 DEF StartSetTimer
  <2>3. UNCHANGED <<now, late, listed, cur, doc, finList>>
    BY <1>5 DEF StartSetTimer
  <2>4. finTimer'[cur] = now + FinishDelay /\ \A f \in finList : finTimer'[f] = finTimer[f]
    BY <2>1, <2>2
  <2>5. ~late => finTimer'[cur] <= StartDelay + FinishDelay
    BY <2>1, <2>4
  <2> QED
    BY <2>1, <2>3, <2>4, <2>5
<1>6. CASE StartListForm
  BY <1>6 DEF StartListForm, StartGoto
<1>7. CASE FinishFindExpired
  BY <1>7 DEF FinishFindExpired, FinishGoto
<1>8. CASE FinishLoad
  BY <1>8 DEF FinishLoad, FinishGoto
<1>9. CASE FinishLoadPanic
  BY <1>9 DEF FinishLoadPanic, FinishGoto
<1>10. CASE FinishPublish
  BY <1>10 DEF FinishPublish, FinishGoto
<1>11. CASE FinishDel
  <2>1. fin \in finList /\ fin # cur
    BY <1>11 DEF FinishDel, FinishGoto
  <2>2. finTimer' = [finTimer EXCEPT ![fin] = 0]
    BY <1>11 DEF FinishDel
  <2>3. UNCHANGED <<now, late, listed, start, cur, doc, finList>>
    BY <1>11 DEF FinishDel
  <2>4. ASSUME NEW f \in Forms PROVE finTimer'[f] = IF f = fin THEN 0 ELSE finTimer[f]
    BY <2>2
  <2>5. ~late => \A f \in finList : finTimer'[f] <= StartDelay + FinishDelay
    BY <2>4
  <2>6. ~late /\ start = "sadd" => finTimer'[cur] <= StartDelay + FinishDelay
    BY <2>1, <2>4
  <2> QED
    BY <2>3, <2>5, <2>6
<1>12. CASE FinishSRem
  BY <1>12 DEF FinishSRem, FinishGoto
<1>13. CASE Cleanup
  BY <1>13 DEF Cleanup
<1>14. CASE Tick
  <2> SUFFICES ASSUME ~late' PROVE TimelyInv'
    OBVIOUS
  <2>1. ~late /\ ~Due /\ now' = now + 1
    BY <1>14 DEF Tick
  <2>2. UNCHANGED <<listed, timer, start, cur, doc, finList, finTimer>>
    BY <1>14 DEF Tick
  <2>3. start = "idle" /\ (listed => now' <= StartDelay)
    BY <2>1 DEF Due
  <2>4. finList # {} => now' <= StartDelay + FinishDelay
    <3> SUFFICES ASSUME NEW f \in finList PROVE now + 1 <= StartDelay + FinishDelay
      BY <2>1
    <3>1. finTimer[f] \in Nat /\ ~(finTimer[f] <= now)
      BY <2>1 DEF Due
    <3>2. finTimer[f] <= StartDelay + FinishDelay
      BY <2>1
    <3> QED
      BY <3>1, <3>2
  <2> QED
    BY <2>1, <2>2, <2>3, <2>4
<1>15. CASE StartReadFails
  <2>1. CASE UNCHANGED <<made, doc, bornAt>>
    BY <1>15, <2>1 DEF StartReadFails
  <2>2. CASE start = "insert" /\ \E f \in Forms : InsertBalanceForm(f)
    <3>1. PICK f \in Forms : InsertBalanceForm(f)
      BY <2>2
    <3> QED
      BY <1>15, <2>2, <3>1 DEF StartReadFails, InsertBalanceForm
  <2> QED
    BY <1>15, <2>1, <2>2 DEF StartReadFails
<1>16. CASE StartRemoveFails
  BY <1>16 DEF StartRemoveFails
<1>22. CASE StartSetFails
  BY <1>22 DEF StartSetFails
<1>17. CASE FinishFails
  BY <1>17 DEF FinishFails
<1>18. CASE Crash
  BY <1>18 DEF Crash
<1>19. CASE UNCHANGED vars
  BY <1>19
<1> QED
  BY <1>1, <1>2, <1>3, <1>4, <1>5, <1>6, <1>7, <1>8, <1>9, <1>10, <1>11, <1>12, <1>13, <1>14, <1>15, <1>16, <1>17, <1>18, <1>19, <1>20, <1>21, <1>22
  DEF Next, MonitorBalanceGameStartTimer, MonitorBalanceGameFinishTimer

\* A listed form is there, unless something was late.
LEMMA PanicNext == TypeOK /\ HoldInv /\ TimelyInv /\ PanicNeedsLateness /\ [Next]_vars => PanicNeedsLateness'
<1> SUFFICES ASSUME TypeOK, HoldInv, TimelyInv, PanicNeedsLateness, [Next]_vars PROVE PanicNeedsLateness'
  OBVIOUS
<1> USE ConstantsAssumption DEF TypeOK, Forms, StartPcs, FinishPcs, vars, startVars, finVars, HoldInv, TimelyInv, PanicNeedsLateness
<1>1. CASE StartFindExpired
  BY <1>1 DEF StartFindExpired, StartGoto
<1>2. CASE StartInsert
  BY <1>2 DEF StartInsert, StartGoto, InsertBalanceForm
<1>3. CASE StartRead
  BY <1>3 DEF StartRead, StartGoto
<1>20. CASE StartPublish
  BY <1>20 DEF StartPublish, StartGoto
<1>21. CASE StartDel
  BY <1>21 DEF StartDel, StartGoto
<1>4. CASE StartSRem
  BY <1>4 DEF StartSRem, StartGoto
<1>5. CASE StartSetTimer
  BY <1>5 DEF StartSetTimer, StartGoto
<1>6. CASE StartListForm
  BY <1>6 DEF StartListForm, StartGoto
<1>7. CASE FinishFindExpired
  BY <1>7 DEF FinishFindExpired, FinishGoto
<1>8. CASE FinishLoad
  BY <1>8 DEF FinishLoad, FinishGoto
<1>9. CASE FinishLoadPanic
  BY <1>9 DEF FinishLoadPanic, FinishGoto
<1>10. CASE FinishPublish
  BY <1>10 DEF FinishPublish, FinishGoto
<1>11. CASE FinishDel
  BY <1>11 DEF FinishDel, FinishGoto
<1>12. CASE FinishSRem
  BY <1>12 DEF FinishSRem, FinishGoto
<1>13. CASE Cleanup
  BY <1>13 DEF Cleanup
<1>14. CASE Tick
  BY <1>14 DEF Tick, Due
<1>15. CASE StartReadFails
  <2>1. CASE UNCHANGED <<made, doc, bornAt>>
    BY <1>15, <2>1 DEF StartReadFails
  <2>2. CASE start = "insert" /\ \E f \in Forms : InsertBalanceForm(f)
    <3>1. PICK f \in Forms : InsertBalanceForm(f)
      BY <2>2
    <3> QED
      BY <1>15, <2>2, <3>1 DEF StartReadFails, InsertBalanceForm
  <2> QED
    BY <1>15, <2>1, <2>2 DEF StartReadFails
<1>16. CASE StartRemoveFails
  BY <1>16 DEF StartRemoveFails
<1>22. CASE StartSetFails
  BY <1>22 DEF StartSetFails
<1>17. CASE FinishFails
  BY <1>17 DEF FinishFails
<1>18. CASE Crash
  BY <1>18 DEF Crash
<1>19. CASE UNCHANGED vars
  BY <1>19
<1> QED
  BY <1>1, <1>2, <1>3, <1>4, <1>5, <1>6, <1>7, <1>8, <1>9, <1>10, <1>11, <1>12, <1>13, <1>14, <1>15, <1>16, <1>17, <1>18, <1>19, <1>20, <1>21, <1>22
  DEF Next, MonitorBalanceGameStartTimer, MonitorBalanceGameFinishTimer

\* The start monitor does nothing before the room's timer has expired.
LEMMA DelayNext == TypeOK /\ HoldInv /\ DelayInv /\ [Next]_vars => DelayInv'
<1> SUFFICES ASSUME TypeOK, HoldInv, DelayInv, [Next]_vars PROVE DelayInv'
  OBVIOUS
<1> USE ConstantsAssumption DEF TypeOK, Expired, vars, startVars, finVars, HoldInv, DelayInv
<1>1. CASE StartFindExpired
  BY <1>1 DEF StartFindExpired, StartGoto
<1>2. CASE StartInsert
  BY <1>2 DEF StartInsert, StartGoto, InsertBalanceForm
<1>3. CASE StartRead
  BY <1>3 DEF StartRead, StartGoto
<1>20. CASE StartPublish
  BY <1>20 DEF StartPublish, StartGoto
<1>21. CASE StartDel
  BY <1>21 DEF StartDel, StartGoto
<1>4. CASE StartSRem
  BY <1>4 DEF StartSRem, StartGoto
<1>5. CASE StartSetTimer
  BY <1>5 DEF StartSetTimer, StartGoto
<1>6. CASE StartListForm
  BY <1>6 DEF StartListForm, StartGoto
<1>7. CASE FinishFindExpired
  BY <1>7 DEF FinishFindExpired, FinishGoto
<1>8. CASE FinishLoad
  BY <1>8 DEF FinishLoad, FinishGoto
<1>9. CASE FinishLoadPanic
  BY <1>9 DEF FinishLoadPanic, FinishGoto
<1>10. CASE FinishPublish
  BY <1>10 DEF FinishPublish, FinishGoto
<1>11. CASE FinishDel
  BY <1>11 DEF FinishDel, FinishGoto
<1>12. CASE FinishSRem
  BY <1>12 DEF FinishSRem, FinishGoto
<1>13. CASE Cleanup
  BY <1>13 DEF Cleanup
<1>14. CASE Tick
  BY <1>14 DEF Tick, Due
<1>15. CASE StartReadFails
  BY <1>15 DEF StartReadFails
<1>16. CASE StartRemoveFails
  BY <1>16 DEF StartRemoveFails
<1>22. CASE StartSetFails
  BY <1>22 DEF StartSetFails
<1>17. CASE FinishFails
  BY <1>17 DEF FinishFails
<1>18. CASE Crash
  BY <1>18 DEF Crash
<1>19. CASE UNCHANGED vars
  BY <1>19
<1> QED
  BY <1>1, <1>2, <1>3, <1>4, <1>5, <1>6, <1>7, <1>8, <1>9, <1>10, <1>11, <1>12, <1>13, <1>14, <1>15, <1>16, <1>17, <1>18, <1>19, <1>20, <1>21, <1>22
  DEF Next, MonitorBalanceGameStartTimer, MonitorBalanceGameFinishTimer

-----------------------------------------------------------------------------
\* The theorems.

\* The conjunction is inductive.
THEOREM Invariance == Spec => []IInv
<1>1. Init => IInv
  <2> SUFFICES ASSUME Init PROVE IInv
    OBVIOUS
  <2> USE ConstantsAssumption DEF Init, Forms
  <2>1. TypeOK
    <3>1. doc \in [Forms -> {"none", "live", "deleted"}]
      OBVIOUS
    <3>2. finTimer \in [Forms -> Nat] /\ bornAt \in [Forms -> Nat] /\ results \in [Forms -> Nat]
      OBVIOUS
    <3>3. listed \in BOOLEAN /\ panicked \in BOOLEAN /\ late \in BOOLEAN
      BY Zenon
    <3>4. now \in Nat /\ timer \in Nat /\ faults \in Nat /\ made \in 0..MaxForms
      OBVIOUS
    <3>5. start \in StartPcs /\ cur \in Forms \cup {0} /\ finish \in FinishPcs /\ fin \in Forms \cup {0}
      BY DEF StartPcs, FinishPcs
    <3>6. finList \subseteq Forms
      OBVIOUS
    <3> QED
      BY <3>1, <3>2, <3>3, <3>4, <3>5, <3>6, Zenon DEF TypeOK
  <2>2. HoldInv
    BY DEF HoldInv
  <2>3. NumberInv
    BY DEF NumberInv
  <2>4. OwedInv
    BY DEF OwedInv
  <2>5. WindowInv
    BY DEF WindowInv, Passed
  <2>6. PaidInv
    BY DEF PaidInv
  <2>7. ToldInv /\ FormNotForgotten
    BY DEF ToldInv, FormNotForgotten
  <2>8. TimelyInv /\ PanicNeedsLateness
    BY DEF TimelyInv, PanicNeedsLateness
  <2>9. DelayInv
    BY DEF DelayInv
  <2> QED
    BY <2>1, <2>2, <2>3, <2>4, <2>5, <2>6, <2>7, <2>8, <2>9 DEF IInv
<1>2. IInv /\ [Next]_vars => IInv'
  BY TypeNext, HoldNext, NumberNext, OwedNext, WindowNext, PaidNext, ToldNext, ForgottenNext,
     TimelyNext, PanicNext, DelayNext
  DEF IInv
<1> QED
  BY <1>1, <1>2, PTL DEF Spec

\* Every variable keeps its type, whatever the monitors, the clean-up and faults do.
THEOREM TypeCorrect == Spec => []TypeOK
  BY Invariance, PTL DEF IInv

\* A room gets a form, and one for every fault, as long as no panic cuts off a pass.
THEOREM FormsAreBounded == Spec => []FormsBounded
<1>1. IInv => FormsBounded
  BY DEF IInv, OwedInv, FormsBounded, TypeOK
<1> QED
  BY <1>1, Invariance, PTL

\* No result is published before its form's voting time is over, whatever fails.
THEOREM WindowIsKept == Spec => []VotingWindowKept
<1>1. IInv => VotingWindowKept
  BY DEF IInv, WindowInv, Passed, VotingWindowKept
<1> QED
  BY <1>1, Invariance, PTL

\* A form has one result, and one for every fault.
THEOREM ResultsAreBounded == Spec => []ResultsBounded
<1>1. IInv => ResultsBounded
  BY DEF IInv, TypeOK, PaidInv, ResultsBounded
<1> QED
  BY <1>1, Invariance, PTL

\* Without a fault or panic a form without result is held or listed.
THEOREM FormsAreNotForgotten == Spec => []FormNotForgotten
  BY Invariance, PTL DEF IInv

\* For all delays with StartDelay + FinishDelay < RoomLife + CleanupDelay, the finish
\* monitor meets a deleted form only after the game service was late.
THEOREM PanicsNeedLateness == Spec => []PanicNeedsLateness
  BY Invariance, PTL DEF IInv

-----------------------------------------------------------------------------
\* The games of VotingRound.

\* Every step of the monitors, the clean-up, the clock or a fault is one of the games of
\* the room, or none.
LEMMA RoundStep ==
  /\ TypeOK /\ HoldInv /\ NumberInv /\ OwedInv /\ WindowInv /\ PaidInv /\ DelayInv
  /\ [Next]_vars
  => [Round!Next]_(Round!vars)
<1> SUFFICES ASSUME TypeOK, HoldInv, NumberInv, OwedInv, WindowInv, PaidInv, DelayInv,
                    [Next]_vars
             PROVE  [Round!Next]_(Round!vars)
  OBVIOUS
<1> USE DEF vars, startVars, finVars
\* A form is inserted in a pass that is owed one.
<1>1. ASSUME NEW f \in Forms, start = "insert", InsertBalanceForm(f),
             faults' \in {faults, faults + 1}, UNCHANGED <<now, results, panicked>>
      PROVE  [Round!Next]_(Round!vars)
  <2>1. f = made + 1 /\ made' = f /\ bornAt' = [bornAt EXCEPT ![f] = now]
    BY <1>1 DEF InsertBalanceForm
  <2>2. StartDelay <= now
    BY <1>1 DEF DelayInv
  <2>3. made < 1 + faults \/ panicked
    BY <1>1 DEF OwedInv, HoldInv, TypeOK
  <2>4. Round!Open(f)
    BY <1>1, <2>1, <2>2, <2>3 DEF Round!Open
  <2> QED
    BY <2>4 DEF Round!Next
<1>2. CASE StartInsert
  <2>1. PICK f \in Forms : InsertBalanceForm(f)
    BY <1>2 DEF StartInsert
  <2> QED
    BY <1>1, <1>2, <2>1 DEF StartInsert, StartGoto
<1>3. CASE StartReadFails
  <2>1. CASE UNCHANGED <<made, doc, bornAt>>
    <3>1. Round!Slip
      BY <1>3, <2>1 DEF StartReadFails, Round!Slip
    <3> QED
      BY <3>1 DEF Round!Next
  <2>2. CASE start = "insert" /\ \E f \in Forms : InsertBalanceForm(f)
    <3>1. PICK f \in Forms : InsertBalanceForm(f)
      BY <2>2
    <3> QED
      BY <1>1, <1>3, <2>2, <3>1 DEF StartReadFails
  <2> QED
    BY <1>3, <2>1, <2>2 DEF StartReadFails
\* The form of a pass that has not told its result yet has waited, and is paid for.
<1>4. CASE FinishPublish
  <2>1. finish = "publish" /\ UNCHANGED <<now, made, bornAt, panicked>>
    BY <1>4 DEF FinishPublish, FinishGoto
  <2>2. fin \in Forms /\ fin \in finList /\ fin <= made
    BY <2>1 DEF HoldInv, NumberInv, TypeOK, Forms
  <2>3. bornAt[fin] + FinishDelay <= now
    BY <2>1, <2>2 DEF HoldInv, WindowInv, Passed
  <2>4. results[fin] < 1 + faults
    <3>1. Pending(fin)
      BY <2>1, <2>2 DEF Pending
    <3>2. results[fin] + 1 <= 1 + faults
      BY <2>2, <3>1 DEF PaidInv
    <3> QED
      BY <2>2, <3>2 DEF TypeOK
  <2>5. CASE results' = [results EXCEPT ![fin] = @ + 1] /\ UNCHANGED faults
    <3>1. Round!Tell(fin)
      BY <2>1, <2>2, <2>3, <2>4, <2>5 DEF Round!Tell
    <3> QED
      BY <2>2, <3>1 DEF Round!Next
  <2>6. CASE faults' = faults + 1 /\ UNCHANGED results
    <3>1. Round!Slip
      BY <2>1, <2>6 DEF Round!Slip
    <3> QED
      BY <3>1 DEF Round!Next
  <2> QED
    BY <1>4, <2>5, <2>6 DEF FinishPublish
<1>5. CASE FinishLoadPanic
  <2>1. Round!Break
    BY <1>5 DEF FinishLoadPanic, Round!Break
  <2> QED
    BY <2>1 DEF Round!Next
<1>6. CASE Tick
  <2>1. Round!Pass
    BY <1>6 DEF Tick, Round!Pass
  <2> QED
    BY <2>1 DEF Round!Next
<1>7. CASE StartPublish \/ StartRemoveFails \/ StartSetFails \/ FinishFails \/ Crash
  <2>1. UNCHANGED <<now, made, bornAt, results, panicked>> /\ faults' \in {faults, faults + 1}
    BY <1>7 DEF StartPublish, StartRemoveFails, StartSetFails, FinishFails, Crash
  <2>2. CASE faults' = faults
    BY <2>1, <2>2 DEF Round!vars
  <2>3. CASE faults' = faults + 1
    <3>1. Round!Slip
      BY <2>1, <2>3 DEF Round!Slip
    <3> QED
      BY <3>1 DEF Round!Next
  <2> QED
    BY <2>1, <2>2, <2>3
\* Reads, keys, lists and deleted documents are no concern of the room's.
<1>8. CASE \/ StartFindExpired \/ StartRead \/ StartDel \/ StartSRem
           \/ StartSetTimer \/ StartListForm
  BY <1>8 DEF StartFindExpired, StartRead, StartDel, StartSRem, StartSetTimer, StartListForm,
     Round!vars
<1>9. CASE FinishFindExpired \/ FinishLoad \/ FinishDel \/ FinishSRem \/ Cleanup \/ UNCHANGED vars
  BY <1>9 DEF FinishFindExpired, FinishLoad, FinishDel, FinishSRem, Cleanup, Round!vars
<1> QED
  BY <1>2, <1>3, <1>4, <1>5, <1>6, <1>7, <1>8, <1>9
  DEF Next, MonitorBalanceGameStartTimer, MonitorBalanceGameFinishTimer

\* For all delays, and however often the monitors fail and begin again, the room has the
\* games that VotingRound promises.
THEOREM TimersAreVotingRound == Spec => ImplementsVotingRound
<1>1. Init => Round!Init
  BY DEF Init, Round!Init
<1>2. IInv /\ [Next]_vars => [Round!Next]_(Round!vars)
  BY RoundStep DEF IInv
<1> QED
  BY <1>1, <1>2, Invariance, PTL DEF Spec, ImplementsVotingRound, Round!Spec
=============================================================================
