--------------------------- MODULE TaskMeta_proofs ---------------------------
(***************************************************************************)
(* Safety of a fiber's control block, for every number of other threads,   *)
(* of versions and of calls.  The invariant follows the two things that    *)
(* may be taken away from a blocked fiber while it is interrupted: the     *)
(* right to make it ready after a sleep (SleepInv) and the pointer to its  *)
(* butex waiter (WaiterInv).                                               *)
(***************************************************************************)
EXTENDS TaskMeta, TLAPS

\* The right to resume the latest sleep is in one place: with _add_sleep_event
\* before it has called schedule(), with the timer while it is armed, or in a run
\* queue.  An id that was stored, or taken from current_sleep by an interrupter,
\* is one whose _add_sleep_event has finished.
SleepInv ==
    /\ \A n \in armed : n = nsleep /\ fiber = "asleep" /\ ready = 0
                        /\ adding[n] \notin {"none", "schedule"}
    /\ \A n \in Sleeps : adding[n] = "schedule" => n = nsleep /\ fiber = "asleep" /\ ready = 0
    /\ \A n \in Sleeps : n > nsleep => adding[n] = "none"
    /\ \A n \in Sleeps : ~early /\ adding[n] \in {"store", "unschedule"} => n \in armed
    /\ fiber = "asleep" => nsleep # 0
    /\ curSleep # 0 => adding[curSleep] = "done"
    /\ \A t \in Others : pc[t] = "unschedule" =>
                            arg[t].sleep # 0 /\ adding[arg[t].sleep] = "done"

Blocked == fiber \in {"waiting", "erased", "waited"}
Holders == {t \in Others : pc[t] \in {"erase", "putback"}}

\* While a fiber is in butex_wait its waiter is either in current_waiter or held by
\* one interrupter, which will put it back; the fiber does not leave butex_wait, so
\* its version does not change, before that.
WaiterInv ==
    /\ Blocked <=> (curWaiter \/ Holders # {})
    /\ curWaiter => Holders = {}
    /\ \A t \in Holders : arg[t].ver = version
    /\ \A t, u \in Holders : t = u

IInv == TypeOK /\ ResumedOnce /\ SleepIdLive /\ MarksOwn /\ SleepInv /\ WaiterInv

\* What the steps below use of the constants.
LEMMA Constants ==
  /\ MaxVersion \in Nat /\ MaxVersion > 0 /\ FirstVersion \in 1..MaxVersion
  /\ MaxStarts \in Nat /\ MaxSleeps \in Nat /\ MaxCalls \in Nat
BY BoundsAssumption

\* A slot that no fiber has used yet satisfies the invariant.
LEMMA InitInv == Init => IInv
<1> SUFFICES ASSUME Init PROVE IInv
  OBVIOUS
<1> USE Constants DEF Init, Versions, Sleeps, NoArg
<1>1. TypeOK
  <2>1. /\ version \in Versions \ {0} /\ stop \in Versions /\ interrupted \in Versions
        /\ curSleep \in 0..MaxSleeps /\ ready \in 0..2 /\ nsleep \in 0..MaxSleeps
        /\ starts \in 0..MaxStarts /\ calls \in 0..MaxCalls
    OBVIOUS
  <2>2. /\ sleepVer \in [Sleeps -> Versions]
        /\ arg \in [Others -> [ver : Versions, sleep : 0..MaxSleeps]]
    OBVIOUS
  <2> QED
    BY <2>1, <2>2 DEF TypeOK
<1>2. ResumedOnce /\ SleepIdLive /\ MarksOwn
  BY DEF ResumedOnce, Suspended, SleepIdLive, MarksOwn
<1>3. SleepInv
  BY DEF SleepInv
<1>4. WaiterInv
  BY DEF WaiterInv, Blocked, Holders
<1> QED
  BY <1>1, <1>2, <1>3, <1>4 DEF IInv

\* Every step of the fiber, of its timers and of the other threads preserves it.
LEMMA NextInv == IInv /\ [Next]_vars => IInv'
<1> SUFFICES ASSUME IInv, [Next]_vars PROVE IInv'
  OBVIOUS
<1> USE Constants DEF IInv, Versions, Sleeps, metaVars, sleepVars, otherVars
<1>1. CASE Start
  <2>1. TypeOK'
    BY <1>1 DEF Start, TypeOK, ResumedOnce, SleepInv, Suspended
  <2>2. ResumedOnce' /\ MarksOwn'
    BY <1>1 DEF Start, TypeOK, ResumedOnce, MarksOwn, SleepInv, Suspended
  <2>3. SleepInv'
    BY <1>1 DEF Start, TypeOK, ResumedOnce, SleepInv, Suspended
  <2>4. WaiterInv'
    BY <1>1 DEF Start, TypeOK, WaiterInv, Blocked, Holders
  <2>5. SleepIdLive'
    BY <1>1 DEF Start, TypeOK, SleepIdLive, SleepInv, WaiterInv, Blocked, Holders
  <2> QED
    BY <2>1, <2>2, <2>3, <2>4, <2>5
<1>2. CASE Run
  <2>0. /\ ready = 1 /\ ready' = 0 /\ Suspended
        /\ fiber = "asleep" => fiber' = "woken"
        /\ fiber = "erased" => fiber' = "waited"
        /\ fiber = "started" => fiber' = "run"
        /\ UNCHANGED <<metaVars, sleepVars, otherVars, starts, early>>
    BY <1>2 DEF Run, TypeOK, ResumedOnce, Suspended
  <2>1. TypeOK'
    BY <2>0 DEF TypeOK, Suspended
  <2>2. ResumedOnce' /\ MarksOwn'
    BY <2>0 DEF ResumedOnce, MarksOwn, Suspended
  <2>3. SleepInv'
    <3>1. armed = {} /\ \A n \in Sleeps : adding[n] # "schedule"
      BY <2>0 DEF SleepInv
    <3> QED
      BY <2>0, <3>1 DEF SleepInv, Suspended
  <2>4. WaiterInv'
    BY <2>0 DEF WaiterInv, Blocked, Holders, Suspended
  <2>5. SleepIdLive'
    BY <2>0 DEF SleepIdLive, Suspended
  <2> QED
    BY <2>1, <2>2, <2>3, <2>4, <2>5
<1>3. CASE Usleep
  <2>1. TypeOK'
    BY <1>3 DEF Usleep, TypeOK, ResumedOnce, SleepInv, Suspended
  <2>2. ResumedOnce' /\ MarksOwn'
    BY <1>3 DEF Usleep, TypeOK, ResumedOnce, MarksOwn, SleepInv, Suspended
  <2>3. SleepInv'
    BY <1>3 DEF Usleep, TypeOK, ResumedOnce, SleepInv, Suspended
  <2>4. WaiterInv'
    BY <1>3 DEF Usleep, TypeOK, WaiterInv, Blocked, Holders
  <2>5. SleepIdLive'
    BY <1>3 DEF Usleep, TypeOK, SleepIdLive, SleepInv, WaiterInv, Blocked, Holders
  <2> QED
    BY <2>1, <2>2, <2>3, <2>4, <2>5
<1>4. CASE UsleepWoken
  <2>1. TypeOK'
    BY <1>4 DEF UsleepWoken, TypeOK, ResumedOnce, SleepInv, Suspended
  <2>2. ResumedOnce' /\ MarksOwn'
    BY <1>4 DEF UsleepWoken, TypeOK, ResumedOnce, MarksOwn, SleepInv, Suspended
  <2>3. SleepInv'
    BY <1>4 DEF UsleepWoken, TypeOK, ResumedOnce, SleepInv, Suspended
  <2>4. WaiterInv'
    BY <1>4 DEF UsleepWoken, TypeOK, WaiterInv, Blocked, Holders
  <2>5. SleepIdLive'
    BY <1>4 DEF UsleepWoken, TypeOK, SleepIdLive, SleepInv, WaiterInv, Blocked, Holders
  <2> QED
    BY <2>1, <2>2, <2>3, <2>4, <2>5
<1>5. CASE UsleepReturn
  <2>1. TypeOK'
    BY <1>5 DEF UsleepReturn, TypeOK, ResumedOnce, SleepInv, Suspended
  <2>2. ResumedOnce' /\ MarksOwn'
    BY <1>5 DEF UsleepReturn, TypeOK, ResumedOnce, MarksOwn, SleepInv, Suspended
  <2>3. SleepInv'
    BY <1>5 DEF UsleepReturn, TypeOK, ResumedOnce, SleepInv, Suspended
  <2>4. WaiterInv'
    BY <1>5 DEF UsleepReturn, TypeOK, WaiterInv, Blocked, Holders
  <2>5. SleepIdLive'
    BY <1>5 DEF UsleepReturn, TypeOK, SleepIdLive, SleepInv, WaiterInv, Blocked, Holders
  <2> QED
    BY <2>1, <2>2, <2>3, <2>4, <2>5
<1>6. CASE ButexWait
  <2>1. TypeOK'
    BY <1>6 DEF ButexWait, TypeOK, ResumedOnce, SleepInv, Suspended
  <2>2. ResumedOnce' /\ MarksOwn'
    BY <1>6 DEF ButexWait, TypeOK, ResumedOnce, MarksOwn, SleepInv, Suspended
  <2>3. SleepInv'
    BY <1>6 DEF ButexWait, TypeOK, ResumedOnce, SleepInv, Suspended
  <2>4. WaiterInv'
    BY <1>6 DEF ButexWait, TypeOK, WaiterInv, Blocked, Holders
  <2>5. SleepIdLive'
    BY <1>6 DEF ButexWait, TypeOK, SleepIdLive, SleepInv, WaiterInv, Blocked, Holders
  <2> QED
    BY <2>1, <2>2, <2>3, <2>4, <2>5
<1>7. CASE ButexWoken
  <2>1. TypeOK'
    BY <1>7 DEF ButexWoken, TypeOK, ResumedOnce, SleepInv, Suspended
  <2>2. ResumedOnce' /\ MarksOwn'
    BY <1>7 DEF ButexWoken, TypeOK, ResumedOnce, MarksOwn, SleepInv, Suspended
  <2>3. SleepInv'
    BY <1>7 DEF ButexWoken, TypeOK, ResumedOnce, SleepInv, Suspended
  <2>4. WaiterInv'
    BY <1>7 DEF ButexWoken, TypeOK, WaiterInv, Blocked, Holders
  <2>5. SleepIdLive'
    BY <1>7 DEF ButexWoken, TypeOK, SleepIdLive, SleepInv, WaiterInv, Blocked, Holders
  <2> QED
    BY <2>1, <2>2, <2>3, <2>4, <2>5
<1>8. CASE ButexWaitReturn
  <2>1. TypeOK'
    <3>1. curWaiter' \in BOOLEAN
      BY <1>8, Zenon DEF ButexWaitReturn
    <3>2. /\ interrupted' = 0 /\ fiber' = "run"
          /\ UNCHANGED <<version, stop, curSleep, ready, nsleep, adding, sleepVer, armed, pc, arg,
                         calls, starts, early>>
      BY <1>8 DEF ButexWaitReturn
    <3> QED
      BY <3>1, <3>2 DEF TypeOK
  <2>2. ResumedOnce' /\ MarksOwn'
    BY <1>8 DEF ButexWaitReturn, TypeOK, ResumedOnce, MarksOwn, SleepInv, Suspended
  <2>3. SleepInv'
    BY <1>8 DEF ButexWaitReturn, TypeOK, ResumedOnce, SleepInv, Suspended
  <2>4. WaiterInv'
    BY <1>8 DEF ButexWaitReturn, TypeOK, WaiterInv, Blocked, Holders
  <2>5. SleepIdLive'
    BY <1>8 DEF ButexWaitReturn, TypeOK, SleepIdLive, SleepInv, WaiterInv, Blocked, Holders
  <2> QED
    BY <2>1, <2>2, <2>3, <2>4, <2>5
<1>9. CASE End
  <2>1. TypeOK'
    BY <1>9 DEF End, NextVersion, TypeOK, ResumedOnce, SleepInv, Suspended
  <2>2. ResumedOnce' /\ MarksOwn'
    BY <1>9 DEF End, NextVersion, TypeOK, ResumedOnce, MarksOwn, SleepInv, Suspended
  <2>3. SleepInv'
    BY <1>9 DEF End, NextVersion, TypeOK, ResumedOnce, SleepInv, Suspended
  <2>4. WaiterInv'
    BY <1>9 DEF End, NextVersion, TypeOK, WaiterInv, Blocked, Holders
  <2>5. SleepIdLive'
    BY <1>9 DEF End, NextVersion, TypeOK, SleepIdLive, SleepInv, WaiterInv, Blocked, Holders
  <2> QED
    BY <2>1, <2>2, <2>3, <2>4, <2>5
<1>10. CASE WakeJoiners
  <2>1. TypeOK'
    BY <1>10 DEF WakeJoiners, TypeOK, ResumedOnce, SleepInv, Suspended
  <2>2. ResumedOnce' /\ MarksOwn'
    BY <1>10 DEF WakeJoiners, TypeOK, ResumedOnce, MarksOwn, SleepInv, Suspended
  <2>3. SleepInv'
    BY <1>10 DEF WakeJoiners, TypeOK, ResumedOnce, SleepInv, Suspended
  <2>4. WaiterInv'
    BY <1>10 DEF WakeJoiners, TypeOK, WaiterInv, Blocked, Holders
  <2>5. SleepIdLive'
    BY <1>10 DEF WakeJoiners, TypeOK, SleepIdLive, SleepInv, WaiterInv, Blocked, Holders
  <2> QED
    BY <2>1, <2>2, <2>3, <2>4, <2>5
<1>11. CASE ReleaseLastContext
  <2>1. TypeOK'
    BY <1>11 DEF ReleaseLastContext, TypeOK, ResumedOnce, SleepInv, Suspended
  <2>2. ResumedOnce' /\ MarksOwn'
    BY <1>11 DEF ReleaseLastContext, TypeOK, ResumedOnce, MarksOwn, SleepInv, Suspended
  <2>3. SleepInv'
    BY <1>11 DEF ReleaseLastContext, TypeOK, ResumedOnce, SleepInv, Suspended
  <2>4. WaiterInv'
    BY <1>11 DEF ReleaseLastContext, TypeOK, WaiterInv, Blocked, Holders
  <2>5. SleepIdLive'
    BY <1>11 DEF ReleaseLastContext, TypeOK, SleepIdLive, SleepInv, WaiterInv, Blocked, Holders
  <2> QED
    BY <2>1, <2>2, <2>3, <2>4, <2>5
<1>12. ASSUME NEW n \in Sleeps, AddSchedule(n) PROVE IInv'
  <2>0. n = nsleep /\ fiber = "asleep" /\ ready = 0 /\ armed = {}
    BY <1>12 DEF AddSchedule, SleepInv
  <2>1. TypeOK'
    BY <1>12, <2>0 DEF AddSchedule, TypeOK
  <2>2. ResumedOnce' /\ MarksOwn'
    BY <1>12 DEF AddSchedule, TypeOK, ResumedOnce, MarksOwn, SleepInv, Suspended
  <2>3. SleepInv'
    <3>1. CASE /\ armed' = armed \cup {n} /\ UNCHANGED ready
               /\ adding' = [adding EXCEPT ![n] = "store"]
      BY <1>12, <2>0, <3>1 DEF AddSchedule, TypeOK, SleepInv
    <3>2. CASE /\ adding' = [adding EXCEPT ![n] = "done"]
               /\ ready' = ready + 1 /\ UNCHANGED armed
      BY <1>12, <2>0, <3>2 DEF AddSchedule, TypeOK, SleepInv
    <3> QED
      BY <1>12, <3>1, <3>2 DEF AddSchedule
  <2>4. WaiterInv'
    BY <1>12 DEF AddSchedule, TypeOK, WaiterInv, Blocked, Holders
  <2>5. SleepIdLive'
    BY <1>12 DEF AddSchedule, TypeOK, SleepIdLive, SleepInv, WaiterInv, Blocked, Holders
  <2> QED
    BY <2>1, <2>2, <2>3, <2>4, <2>5
<1>13. ASSUME NEW n \in Sleeps, AddStore(n) PROVE IInv'
  <2>1. TypeOK'
    BY <1>13 DEF AddStore, TypeOK
  <2>2. ResumedOnce' /\ MarksOwn'
    BY <1>13 DEF AddStore, TypeOK, ResumedOnce, MarksOwn, SleepInv, Suspended
  <2>3. SleepInv'
    BY <1>13 DEF AddStore, TypeOK, ResumedOnce, SleepInv, Suspended
  <2>4. WaiterInv'
    BY <1>13 DEF AddStore, TypeOK, WaiterInv, Blocked, Holders
  <2>5. SleepIdLive'
    BY <1>13 DEF AddStore, TypeOK, SleepIdLive, SleepInv, WaiterInv, Blocked, Holders
  <2> QED
    BY <2>1, <2>2, <2>3, <2>4, <2>5
<1>14. ASSUME NEW n \in Sleeps, AddUnschedule(n) PROVE IInv'
  <2>1. TypeOK'
    BY <1>14 DEF AddUnschedule, Unschedule, TypeOK, ResumedOnce, SleepInv, Suspended
  <2>2. ResumedOnce' /\ MarksOwn'
    BY <1>14 DEF AddUnschedule, Unschedule, TypeOK, ResumedOnce, MarksOwn, SleepInv, Suspended
  <2>3. SleepInv'
    BY <1>14 DEF AddUnschedule, Unschedule, TypeOK, ResumedOnce, SleepInv, Suspended
  <2>4. WaiterInv'
    BY <1>14 DEF AddUnschedule, Unschedule, TypeOK, WaiterInv, Blocked, Holders
  <2>5. SleepIdLive'
    BY <1>14 DEF AddUnschedule, Unschedule, TypeOK, SleepIdLive, SleepInv, WaiterInv, Blocked,
         Holders
  <2> QED
    BY <2>1, <2>2, <2>3, <2>4, <2>5
<1>15. ASSUME NEW n \in Sleeps, TimerRuns(n) PROVE IInv'
  <2>1. TypeOK'
    BY <1>15 DEF TimerRuns, TypeOK, ResumedOnce, SleepInv, Suspended
  <2>2. ResumedOnce' /\ MarksOwn'
    BY <1>15 DEF TimerRuns, TypeOK, ResumedOnce, MarksOwn, SleepInv, Suspended
  <2>3. SleepInv'
    BY <1>15 DEF TimerRuns, TypeOK, ResumedOnce, SleepInv, Suspended
  <2>4. WaiterInv'
    BY <1>15 DEF TimerRuns, TypeOK, WaiterInv, Blocked, Holders
  <2>5. SleepIdLive'
    BY <1>15 DEF TimerRuns, TypeOK, SleepIdLive, SleepInv, WaiterInv, Blocked, Holders
  <2> QED
    BY <2>1, <2>2, <2>3, <2>4, <2>5
<1>16. ASSUME NEW t \in Others, NEW v \in Versions,
           NEW l \in {"stop", "interrupt", "join"}, Call(t, v, l)
     PROVE  IInv'
  <2>1. TypeOK'
    BY <1>16 DEF Call, Idle, Goto, TypeOK, ResumedOnce, SleepInv, Suspended
  <2>2. ResumedOnce' /\ MarksOwn'
    BY <1>16 DEF Call, Idle, Goto, TypeOK, ResumedOnce, MarksOwn, SleepInv, Suspended
  <2>3. SleepInv'
    BY <1>16 DEF Call, Idle, Goto, TypeOK, ResumedOnce, SleepInv, Suspended
  <2>4. WaiterInv'
    BY <1>16 DEF Call, Idle, Goto, TypeOK, WaiterInv, Blocked, Holders
  <2>5. SleepIdLive'
    BY <1>16 DEF Call, Idle, Goto, TypeOK, SleepIdLive, SleepInv, WaiterInv, Blocked, Holders
  <2> QED
    BY <2>1, <2>2, <2>3, <2>4, <2>5
<1>17. ASSUME NEW t \in Others, SetStopped(t) PROVE IInv'
  <2>1. TypeOK'
    BY <1>17 DEF SetStopped, Goto, TypeOK, ResumedOnce, SleepInv, Suspended
  <2>2. ResumedOnce' /\ MarksOwn'
    BY <1>17 DEF SetStopped, Goto, TypeOK, ResumedOnce, MarksOwn, SleepInv, Suspended
  <2>3. SleepInv'
    BY <1>17 DEF SetStopped, Goto, TypeOK, ResumedOnce, SleepInv, Suspended
  <2>4. WaiterInv'
    BY <1>17 DEF SetStopped, Goto, TypeOK, WaiterInv, Blocked, Holders
  <2>5. SleepIdLive'
    BY <1>17 DEF SetStopped, Goto, TypeOK, SleepIdLive, SleepInv, WaiterInv, Blocked, Holders
  <2> QED
    BY <2>1, <2>2, <2>3, <2>4, <2>5
<1>18. ASSUME NEW t \in Others, Interrupt(t) PROVE IInv'
  <2>0. UNCHANGED <<version, stop, fiber, ready, sleepVars, calls, starts, early>>
    BY <1>18 DEF Interrupt
  <2>1. CASE arg[t].ver # version
    <3>1. /\ pc' = [pc EXCEPT ![t] = "idle"] /\ pc[t] = "interrupt"
          /\ UNCHANGED <<interrupted, curSleep, curWaiter, arg>>
      BY <1>18, <2>1 DEF Interrupt, Goto
    <3>2. TypeOK' /\ ResumedOnce' /\ MarksOwn' /\ SleepIdLive'
      BY <2>0, <3>1 DEF TypeOK, ResumedOnce, MarksOwn, SleepIdLive, Suspended
    <3>3. SleepInv'
      BY <2>0, <3>1 DEF TypeOK, SleepInv
    <3>4. Holders' = Holders
      BY <3>1 DEF TypeOK, Holders
    <3>5. WaiterInv'
      BY <2>0, <3>1, <3>4 DEF TypeOK, WaiterInv, Blocked
    <3> QED
      BY <3>2, <3>3, <3>5
  <2>2. CASE arg[t].ver = version
    <3>1. /\ pc[t] = "interrupt" /\ interrupted' = version /\ curSleep' = 0 /\ ~curWaiter'
          /\ curWaiter' \in BOOLEAN /\ arg' = [arg EXCEPT ![t].sleep = curSleep]
          /\ \A u \in Others \ {t} : pc'[u] = pc[u]
      BY <1>18, <2>2 DEF Interrupt, Goto, TypeOK
    <3>2. /\ pc' \in [Others -> {"idle", "stop", "interrupt", "unschedule", "erase", "putback",
                                 "join", "joining"}]
          /\ curWaiter => pc'[t] = "erase"
          /\ ~curWaiter /\ curSleep # 0 => pc'[t] = "unschedule"
          /\ ~curWaiter /\ curSleep = 0 => pc'[t] = "idle"
      <4> DEFINE next == IF curWaiter THEN "erase"
                         ELSE IF curSleep # 0 THEN "unschedule" ELSE "idle"
      <4>1. /\ curWaiter => next = "erase"
            /\ ~curWaiter /\ curSleep # 0 => next = "unschedule"
            /\ ~curWaiter /\ curSleep = 0 => next = "idle"
        OBVIOUS
      <4>2. pc' = [pc EXCEPT ![t] = next]
        BY <1>18, <2>2 DEF Interrupt, Goto
      <4> QED
        BY <4>1, <4>2 DEF TypeOK
    <3>3. /\ arg' \in [Others -> [ver : Versions, sleep : 0..MaxSleeps]]
          /\ \A u \in Others : arg'[u].ver = arg[u].ver
          /\ arg'[t].sleep = curSleep /\ \A u \in Others \ {t} : arg'[u] = arg[u]
      BY <3>1 DEF TypeOK
    <3>4. TypeOK'
      BY <2>0, <3>1, <3>2, <3>3 DEF TypeOK
    <3>5. ResumedOnce' /\ MarksOwn' /\ SleepIdLive'
      BY <2>0, <3>1 DEF ResumedOnce, MarksOwn, SleepIdLive, Suspended
    <3>6. SleepInv'
      BY <2>0, <3>1, <3>2, <3>3 DEF SleepInv
    <3>7. CASE curWaiter
      <4>1. Holders' = {t}
        BY <3>1, <3>2, <3>7 DEF WaiterInv, Holders
      <4> QED
        BY <2>0, <2>2, <3>1, <3>3, <3>4, <3>5, <3>6, <3>7, <4>1 DEF WaiterInv, Blocked
    <3>8. CASE ~curWaiter
      <4>1. Holders' = Holders
        BY <3>1, <3>2, <3>8 DEF Holders
      <4> QED
        BY <2>0, <3>1, <3>3, <3>4, <3>5, <3>6, <3>8, <4>1 DEF WaiterInv, Blocked, Holders
    <3> QED
      BY <3>7, <3>8
  <2> QED
    BY <2>1, <2>2
<1>19. ASSUME NEW t \in Others, InterruptSleep(t) PROVE IInv'
  <2>1. TypeOK'
    <3>1. ready' \in 0..2
      BY <1>19 DEF InterruptSleep, Unschedule, ResumedOnce, TypeOK
    <3> QED
      BY <1>19, <3>1 DEF InterruptSleep, Goto, Unschedule, TypeOK
  <2>2. ResumedOnce' /\ MarksOwn'
    BY <1>19 DEF InterruptSleep, Goto, Unschedule, TypeOK, ResumedOnce, MarksOwn, SleepInv,
         Suspended
  <2>3. SleepInv'
    BY <1>19 DEF InterruptSleep, Goto, Unschedule, TypeOK, ResumedOnce, SleepInv, Suspended
  <2>4. WaiterInv'
    BY <1>19 DEF InterruptSleep, Goto, Unschedule, TypeOK, WaiterInv, Blocked, Holders
  <2>5. SleepIdLive'
    BY <1>19 DEF InterruptSleep, Goto, Unschedule, TypeOK, SleepIdLive, SleepInv, WaiterInv,
         Blocked, Holders
  <2> QED
    BY <2>1, <2>2, <2>3, <2>4, <2>5
<1>20. ASSUME NEW t \in Others, InterruptErase(t) PROVE IInv'
  <2>1. TypeOK'
    BY <1>20 DEF InterruptErase, Goto, TypeOK, ResumedOnce, SleepInv, Suspended
  <2>2. ResumedOnce' /\ MarksOwn'
    BY <1>20 DEF InterruptErase, Goto, TypeOK, ResumedOnce, MarksOwn, SleepInv, Suspended
  <2>3. SleepInv'
    BY <1>20 DEF InterruptErase, Goto, TypeOK, ResumedOnce, SleepInv, Suspended
  <2>4. WaiterInv'
    BY <1>20 DEF InterruptErase, Goto, TypeOK, WaiterInv, Blocked, Holders
  <2>5. SleepIdLive'
    BY <1>20 DEF InterruptErase, Goto, TypeOK, SleepIdLive, SleepInv, WaiterInv, Blocked, Holders
  <2> QED
    BY <2>1, <2>2, <2>3, <2>4, <2>5
<1>21. ASSUME NEW t \in Others, InterruptPutBack(t) PROVE IInv'
  <2>1. TypeOK'
    BY <1>21 DEF InterruptPutBack, Goto, TypeOK, ResumedOnce, SleepInv, Suspended
  <2>2. ResumedOnce' /\ MarksOwn'
    BY <1>21 DEF InterruptPutBack, Goto, TypeOK, ResumedOnce, MarksOwn, SleepInv, Suspended
  <2>3. SleepInv'
    BY <1>21 DEF InterruptPutBack, Goto, TypeOK, ResumedOnce, SleepInv, Suspended
  <2>4. WaiterInv'
    BY <1>21 DEF InterruptPutBack, Goto, TypeOK, WaiterInv, Blocked, Holders
  <2>5. SleepIdLive'
    BY <1>21 DEF InterruptPutBack, Goto, TypeOK, SleepIdLive, SleepInv, WaiterInv, Blocked, Holders
  <2> QED
    BY <2>1, <2>2, <2>3, <2>4, <2>5
<1>22. ASSUME NEW t \in Others, JoinWait(t) PROVE IInv'
  <2>1. TypeOK'
    BY <1>22 DEF JoinWait, Goto, TypeOK, ResumedOnce, SleepInv, Suspended
  <2>2. ResumedOnce' /\ MarksOwn'
    BY <1>22 DEF JoinWait, Goto, TypeOK, ResumedOnce, MarksOwn, SleepInv, Suspended
  <2>3. SleepInv'
    BY <1>22 DEF JoinWait, Goto, TypeOK, ResumedOnce, SleepInv, Suspended
  <2>4. WaiterInv'
    BY <1>22 DEF JoinWait, Goto, TypeOK, WaiterInv, Blocked, Holders
  <2>5. SleepIdLive'
    BY <1>22 DEF JoinWait, Goto, TypeOK, SleepIdLive, SleepInv, WaiterInv, Blocked, Holders
  <2> QED
    BY <2>1, <2>2, <2>3, <2>4, <2>5
<1>23. ASSUME NEW t \in Others, JoinInterrupted(t) PROVE IInv'
  <2>1. TypeOK'
    BY <1>23 DEF JoinInterrupted, Goto, TypeOK, ResumedOnce, SleepInv, Suspended
  <2>2. ResumedOnce' /\ MarksOwn'
    BY <1>23 DEF JoinInterrupted, Goto, TypeOK, ResumedOnce, MarksOwn, SleepInv, Suspended
  <2>3. SleepInv'
    BY <1>23 DEF JoinInterrupted, Goto, TypeOK, ResumedOnce, SleepInv, Suspended
  <2>4. WaiterInv'
    BY <1>23 DEF JoinInterrupted, Goto, TypeOK, WaiterInv, Blocked, Holders
  <2>5. SleepIdLive'
    BY <1>23 DEF JoinInterrupted, Goto, TypeOK, SleepIdLive, SleepInv, WaiterInv, Blocked, Holders
  <2> QED
    BY <2>1, <2>2, <2>3, <2>4, <2>5
<1>24. CASE UNCHANGED vars
  BY <1>24 DEF vars, TypeOK, ResumedOnce, Suspended, SleepIdLive, MarksOwn, SleepInv,
               WaiterInv, Blocked, Holders
<1> QED
  BY <1>1, <1>2, <1>3, <1>4, <1>5, <1>6, <1>7, <1>8, <1>9, <1>10, <1>11, <1>12, <1>13, <1>14,
       <1>15, <1>16, <1>17, <1>18, <1>19, <1>20, <1>21, <1>22, <1>23, <1>24
     DEF Next, FiberStep, AddStep, OtherStep

\* IInv is an invariant, and inductive.
LEMMA SpecInv == Spec => []IInv
BY InitInv, NextInv, PTL DEF Spec

\* The variables have their types: the version of the slot (*version_butex) is never
\* 0, also when it wraps, and the fiber is never in more than two run queues.
THEOREM TypeCorrect == Spec => []TypeOK
BY SpecInv, PTL DEF IInv

\* Of ready_to_run_from_timer_thread, interrupt() and _add_sleep_event exactly one
\* makes a sleeping fiber ready, and while no timer has run before its id was
\* stored, current_sleep names the sleep the fiber is in.
THEOREM SleepCorrect == Spec => []SleepSound
BY SpecInv, PTL DEF IInv, SleepSound

\* set_stopped and interrupt_and_consume_waiters mark the fiber whose version they
\* were given and never the next one in the slot.
THEOREM MarksCorrect == Spec => []MarksOwn
BY SpecInv, PTL DEF IInv

\* The spin for current_waiter at the end of butex_wait has somebody to wait for: a
\* waiter that is not in current_waiter is held by exactly one interrupter that was
\* given the version of this very fiber, and that has yet to put it back.
THEOREM WaiterCorrect == Spec => []WaiterInv
BY SpecInv, PTL DEF IInv

=============================================================================
