-------------------------- MODULE OfflineManageProofs --------------------------
(***************************************************************************)
(* Safety of OfflineManage for every table of events, every period, offline *)
(* and protection time, and every delay of the supervision task.           *)
(***************************************************************************)
EXTENDS OfflineManage, TLAPS

(***************************************************************************)
(* The inductive invariant.                                                *)
(***************************************************************************)
InScan == pc \in {"scan", "decide"}

\* Where the clocks stand to each other.
Clock ==
  /\ now <= time /\ trigger <= time
  /\ \A e \in Events : last_time[e] <= time
  /\ wake >= Period
  /\ pc # "reboot" => /\ now < RebootAfter
                      /\ wake < RebootAfter + Period /\ wake <= now + Period
                      /\ time <= wake + Slack \/ time <= now + Slack
  /\ pc = "reboot" => /\ now < RebootAfter + Period + Slack
                      /\ time <= now + RebootDelay + Slack
  /\ InScan => 0 < now /\ time <= now + Slack
  /\ pc = "decide" => i = NumEvents + 1

\* How late the sample of a scan can be after the last stamp, and the trigger
\* time after that.
Noticed(e) ==
  /\ protect = "online" => now <= last_time[e] + OfflineTime + Period + Slack
  /\ protect = "offline" => trigger <= last_time[e] + OfflineTime + Period + 2 * Slack
  /\ pc = "sleep" /\ protect = "online" => now <= last_time[e] + OfflineTime
  /\ InScan /\ e < i /\ last_time[e] + OfflineTime < now => error_seen

\* How long the protection can last.
Deadline ==
  protect = "offline" =>
    /\ now <= trigger + ProtectTime + Period + Slack
    /\ pc = "sleep" => /\ now <= trigger + ProtectTime
                       /\ time <= wake + Slack \/ time <= trigger + ProtectTime

\* A scan that finds an alarm without silence has been raced, or will turn out
\* to be.
Raced == error_seen \/ \E e \in Critical : e >= i /\ now < last_time[e]

\* n scans are no further apart than this.
Reach(n) == n * (Period + Slack)

\* Each scan of a protection that has no cause took a race of its own.
Paid ==
  /\ \A e \in Critical : time <= last_time[e] + OfflineTime
  /\ pc = "sleep" /\ protect = "offline" => races >= 1 /\ now <= trigger + Reach(races - 1)
  /\ InScan /\ Raced => races >= 1
  /\ InScan /\ protect = "offline" =>
       /\ ~Raced => races >= 1 /\ now <= trigger + Reach(races)
       /\ Raced => races >= 2 /\ now <= trigger + Reach(races - 1)

IInv ==
  /\ TypeOK /\ Clock /\ TriggerAgrees /\ Deadline
  /\ watching => \A e \in Critical : Noticed(e)
  /\ ~silent => Paid

(***************************************************************************)
(* The steps.                                                              *)
(***************************************************************************)
\* The constants, as the provers need them.
LEMMA Numbers ==
  /\ NumEvents \in Nat /\ OfflineTime \in Nat /\ ProtectTime \in Nat
  /\ Slack \in Nat /\ RebootDelay \in Nat /\ MaxRaces \in Nat
  /\ Period \in Nat /\ Period > 0 /\ RebootAfter \in Nat /\ RebootAfter > 0
  /\ TickMod \in Nat /\ TickMod > RebootAfter + RebootDelay + Period + 2 * Slack
  /\ TickMod > OfflineTime + Slack + 1
  /\ Critical \subseteq Events /\ Events \subseteq Nat \ {0}
  /\ \A e \in Events : e <= NumEvents
BY OfflineAssumption DEF OfflineAssumption, Events

\* A step keeps the clocks in order.
LEMMA ClockKept ==
  ASSUME TypeOK, Clock, [Next]_vars
  PROVE  Clock'
<1> USE Numbers DEF TypeOK, Clock, InScan, scanVars, protectVars
<1>1. CASE Tick
  <2>1. time' = time + 1 /\ UNCHANGED <<last_time, pc, wake, now, i, trigger>>
    BY <1>1 DEF Tick
  <2>2. /\ pc = "sleep" => time < wake + Slack
        /\ pc \in {"scan", "decide"} => time < now + Slack
        /\ pc = "reboot" => time < now + RebootDelay + Slack
    BY <1>1 DEF Tick, OnTime
  <2> QED BY <2>1, <2>2
<1>2. CASE WakeUp
  BY <1>2 DEF WakeUp
<1>3. CASE Reboot
  BY <1>3 DEF Reboot
<1>4. CASE ScanEvent
  BY <1>4 DEF ScanEvent, LastEvent
<1>5. CASE ProtectBegins
  BY <1>5 DEF ProtectBegins
<1>6. CASE ProtectLasts
  BY <1>6 DEF ProtectLasts, TriggerTime
<1>7. CASE ProtectEnds
  BY <1>7 DEF ProtectEnds
<1>8. ASSUME NEW e \in Events, Stamp(e) PROVE Clock'
  BY <1>8 DEF Stamp
<1>9. CASE OtaStart \/ OtaUnsolicited \/ UNCHANGED vars
  BY <1>9 DEF OtaStart, OtaUnsolicited, vars
<1> QED BY <1>1, <1>2, <1>3, <1>4, <1>5, <1>6, <1>7, <1>8, <1>9
        DEF Next, Supervise, AutoReboot, ProtectResets, OtaReboot

\* A step keeps the types.
LEMMA TypeKept ==
  ASSUME TypeOK, Clock, [Next]_vars
  PROVE  TypeOK'
<1> USE Numbers DEF TypeOK, scanVars, protectVars
<1>0. Clock'
  BY ClockKept
<1>1. CASE Tick
  BY <1>0, <1>1 DEF Tick, Clock
<1>2. CASE WakeUp
  <2>1. /\ wake' \in Nat /\ now' \in 0 .. TickMod - 1 /\ i' \in 1 .. NumEvents + 1
        /\ pc' \in {"scan", "reboot"} /\ error_seen' \in BOOLEAN
    <3>1. CASE pc' = "reboot" /\ UNCHANGED <<i, error_seen>>
      BY <1>2, <3>1 DEF WakeUp
    <3>2. CASE pc' = "scan" /\ now' = time /\ i' = 1 /\ error_seen' = FALSE
      <4>1. wake' \in Nat
        BY <1>2 DEF WakeUp
      <4>2. 1 \in 1 .. NumEvents + 1
        OBVIOUS
      <4> QED BY <3>2, <4>1, <4>2
    <3> QED BY <1>2, <3>1, <3>2 DEF WakeUp
  <2> QED BY <1>2, <2>1 DEF WakeUp
<1>3. CASE Reboot
  <2>1. last_time' \in [Events -> 0 .. TickMod - 1]
    BY <1>3 DEF Reboot
  <2>2. 0 \in 0 .. TickMod - 1 /\ 0 \in 0 .. MaxRaces /\ 1 \in 1 .. NumEvents + 1
    OBVIOUS
  <2> QED BY <1>3, <2>1, <2>2 DEF Reboot
<1>4. CASE ScanEvent
  BY <1>4 DEF ScanEvent, LastEvent
<1>5. CASE ProtectBegins
  BY <1>5 DEF ProtectBegins
<1>6. CASE ProtectLasts
  BY <1>6 DEF ProtectLasts, TriggerTime
<1>7. CASE ProtectEnds
  BY <1>7 DEF ProtectEnds
<1>8. ASSUME NEW e \in Events, Stamp(e) PROVE TypeOK'
  <2>1. races' \in 0 .. MaxRaces
    BY <1>8 DEF Stamp
  <2> QED BY <1>8, <2>1 DEF Stamp
<1>9. CASE OtaStart \/ OtaUnsolicited
  BY <1>9 DEF OtaStart, OtaUnsolicited
<1>10. CASE UNCHANGED vars
  BY <1>10 DEF vars
<1> QED BY <1>1, <1>2, <1>3, <1>4, <1>5, <1>6, <1>7, <1>8, <1>9, <1>10
        DEF Next, Supervise, AutoReboot, ProtectResets, OtaReboot

\* A step keeps the trigger time with the protection.
LEMMA TriggerKept ==
  ASSUME TypeOK, Clock, TriggerAgrees, [Next]_vars
  PROVE  TriggerAgrees'
<1> USE DEF TypeOK, TriggerAgrees, scanVars, protectVars
<1>1. CASE Tick \/ WakeUp \/ ScanEvent
  BY <1>1 DEF Tick, WakeUp, ScanEvent
<1>2. CASE Reboot
  BY <1>2 DEF Reboot
<1>3. CASE ProtectBegins
  BY <1>3 DEF ProtectBegins, Clock, InScan
<1>4. CASE ProtectLasts
  BY <1>4 DEF ProtectLasts, TriggerTime
<1>5. CASE ProtectEnds
  BY <1>5 DEF ProtectEnds
<1>6. CASE OtaStart \/ OtaUnsolicited \/ UNCHANGED vars \/ \E e \in Events : Stamp(e)
  BY <1>6 DEF OtaStart, OtaUnsolicited, vars, Stamp
<1> QED BY <1>1, <1>2, <1>3, <1>4, <1>5, <1>6
        DEF Next, Supervise, AutoReboot, ProtectResets, OtaReboot

\* A step keeps the protection within its time.
LEMMA DeadlineKept ==
  ASSUME TypeOK, Clock, TriggerAgrees, Deadline, [Next]_vars
  PROVE  Deadline'
<1> USE Numbers DEF TypeOK, Clock, Deadline, InScan, scanVars, protectVars
<1>1. CASE Tick
  <2>1. time' = time + 1 /\ UNCHANGED <<pc, wake, now, trigger, protect>>
    BY <1>1 DEF Tick
  <2>2. pc = "sleep" => time < wake + Slack
    BY <1>1 DEF Tick, OnTime
  <2> QED BY <2>1, <2>2
<1>2. CASE WakeUp
  BY <1>2 DEF WakeUp
<1>3. CASE Reboot
  BY <1>3 DEF Reboot
<1>4. CASE ScanEvent
  BY <1>4 DEF ScanEvent
<1>5. CASE ProtectBegins
  BY <1>5 DEF ProtectBegins
<1>6. CASE ProtectLasts
  BY <1>6 DEF ProtectLasts, TriggerTime, TriggerAgrees
<1>7. CASE ProtectEnds
  BY <1>7 DEF ProtectEnds
<1>8. CASE OtaStart \/ OtaUnsolicited \/ UNCHANGED vars \/ \E e \in Events : Stamp(e)
  BY <1>8 DEF OtaStart, OtaUnsolicited, vars, Stamp
<1> QED BY <1>1, <1>2, <1>3, <1>4, <1>5, <1>6, <1>7, <1>8
        DEF Next, Supervise, AutoReboot, ProtectResets, OtaReboot

\* A step keeps the time in which silence is noticed.
LEMMA NoticedKept ==
  ASSUME IInv, [Next]_vars, watching', NEW e \in Critical
  PROVE  Noticed(e)'
<1> USE Numbers DEF IInv, TypeOK, Clock, InScan, scanVars, protectVars
<1>1. CASE Reboot
  BY <1>1 DEF Reboot, Noticed
<1>2. ASSUME ~Reboot PROVE watching /\ Noticed(e)
  BY <1>2 DEF Next, Supervise, AutoReboot, ProtectResets, OtaReboot, Tick, WakeUp, ScanEvent,
              ProtectBegins, ProtectLasts, ProtectEnds, Stamp, OtaStart, OtaUnsolicited, vars
<1>3. CASE Tick
  BY <1>2, <1>3 DEF Tick, Noticed
<1>4. CASE WakeUp
  BY <1>2, <1>4 DEF WakeUp, Noticed
<1>5. CASE ScanEvent
  <2> SUFFICES ASSUME ~Reboot PROVE Noticed(e)'
    BY <1>1
  <2>1. ASSUME i = e, last_time[e] + OfflineTime < now PROVE error_seen'
    <3>1. Elapsed(e) = now - last_time[e]
      BY <2>1 DEF Elapsed
    <3>2. watching /\ i \in Critical /\ Elapsed(i) > OfflineTime
      BY <1>2, <2>1, <3>1
    <3> QED BY <1>5, <3>2 DEF ScanEvent
  <2> QED BY <1>2, <1>5, <2>1 DEF ScanEvent, Noticed, LastEvent
<1>6. CASE ProtectBegins
  BY <1>2, <1>6 DEF ProtectBegins, Noticed
<1>7. CASE ProtectLasts
  BY <1>2, <1>7 DEF ProtectLasts, TriggerTime, TriggerAgrees, Noticed
<1>8. CASE ProtectEnds
  BY <1>2, <1>8 DEF ProtectEnds, Alarm, Noticed
<1>9. ASSUME NEW f \in Events, Stamp(f) PROVE Noticed(e)'
  <2>1. UNCHANGED <<time, now, pc, i, error_seen, protect, trigger>>
    BY <1>9 DEF Stamp
  <2>2. last_time'[e] = last_time[e] \/ last_time'[e] = time
    BY <1>9 DEF Stamp
  <2> QED BY <1>1, <1>2, <2>1, <2>2 DEF Noticed
<1>10. CASE OtaStart \/ OtaUnsolicited \/ UNCHANGED vars
  BY <1>1, <1>2, <1>10 DEF OtaStart, OtaUnsolicited, vars, Noticed
<1> QED BY <1>1, <1>3, <1>4, <1>5, <1>6, <1>7, <1>8, <1>9, <1>10
        DEF Next, Supervise, AutoReboot, ProtectResets, OtaReboot

(***************************************************************************)
(* Alarms that races raise.                                                *)
(***************************************************************************)
\* One scan more or less.
LEMMA ReachNext ==
  ASSUME NEW n \in Int
  PROVE  /\ Reach(n) \in Int
         /\ Reach(n + 1) = Reach(n) + Period + Slack
         /\ Reach(n - 1) = Reach(n) - Period - Slack
<1> USE Numbers DEF Reach
<1>1. (n + 1) * (Period + Slack) = n * (Period + Slack) + (Period + Slack)
  OBVIOUS
<1>2. (n - 1) * (Period + Slack) = n * (Period + Slack) - (Period + Slack)
  OBVIOUS
<1> QED BY <1>1, <1>2

\* A step keeps the account of the races.
LEMMA PaidKept ==
  ASSUME IInv, [Next]_vars, ~silent'
  PROVE  Paid'
<1> USE Numbers DEF IInv, TypeOK, Clock, InScan, scanVars, protectVars
<1>0. /\ Reach(races) \in Int /\ Reach(races - 1) = Reach(races) - Period - Slack
      /\ Reach(races - 1) \in Int /\ Reach(0) = 0
  BY ReachNext DEF Reach
<1>1. CASE Reboot
  BY <1>1 DEF Reboot, Paid
<1>2. ASSUME ~Reboot PROVE ~silent /\ Paid
  BY <1>2 DEF Next, Supervise, AutoReboot, ProtectResets, OtaReboot, Tick, WakeUp, ScanEvent,
              ProtectBegins, ProtectLasts, ProtectEnds, Stamp, OtaStart, OtaUnsolicited, vars
<1> SUFFICES ASSUME ~Reboot PROVE Paid'
  BY <1>1
<1>3. ~silent /\ Paid
  BY <1>2
<1>4. CASE Tick
  <2>1. UNCHANGED <<last_time, pc, now, i, error_seen, protect, trigger, races>>
    BY <1>4 DEF Tick
  <2>2. Raced' <=> Raced
    BY <2>1 DEF Raced
  <2>3. \A e \in Critical : time' <= last_time'[e] + OfflineTime
    <3> SUFFICES ASSUME NEW e \in Critical, time' - last_time[e] > OfflineTime PROVE FALSE
      BY <2>1, <1>4 DEF Tick
    <3> QED BY <1>4 DEF Tick
  <2> QED BY <1>3, <2>1, <2>2, <2>3 DEF Paid, Reach
<1>5. CASE WakeUp
  <2>1. CASE pc' = "reboot"
    BY <1>3, <1>5, <2>1 DEF WakeUp, Paid
  <2>2. CASE pc' = "scan" /\ now' = time /\ i' = 1 /\ error_seen' = FALSE
    <3>1. UNCHANGED <<time, last_time, protect, trigger, races>> /\ pc = "sleep"
      BY <1>5 DEF WakeUp
    <3>2. ~Raced'
      BY <2>2, <3>1 DEF Raced
    <3>3. protect = "offline" => races >= 1 /\ time <= trigger + Reach(races)
      BY <1>0, <1>3, <3>1 DEF Paid
    <3>4. Reach(races)' = Reach(races)
      BY <3>1 DEF Reach
    <3> QED BY <1>3, <2>2, <3>1, <3>2, <3>3, <3>4 DEF Paid
  <2> QED BY <1>5, <2>1, <2>2 DEF WakeUp
<1>6. CASE ScanEvent
  <2>1. UNCHANGED <<time, last_time, now, protect, trigger, races>> /\ InScan /\ InScan'
    BY <1>6 DEF ScanEvent
  <2>2. ASSUME Raced' PROVE Raced
    <3>1. CASE error_seen' /\ ~error_seen
      <4>1. i \in Critical /\ Elapsed(i) > OfflineTime
        BY <1>6, <3>1 DEF ScanEvent
      <4>2. now < last_time[i]
        <5>1. SUFFICES ASSUME last_time[i] <= now PROVE FALSE
          BY <4>1
        <5>2. Elapsed(i) = now - last_time[i]
          BY <4>1, <5>1 DEF Elapsed
        <5>3. time <= last_time[i] + OfflineTime
          BY <1>3, <4>1 DEF Paid
        <5> QED BY <4>1, <5>2, <5>3
      <4> QED BY <4>1, <4>2 DEF Raced
    <3>2. CASE error_seen
      BY <3>2 DEF Raced
    <3>3. CASE ~error_seen'
      BY <1>6, <2>1, <2>2, <3>3 DEF Raced, ScanEvent
    <3> QED BY <3>1, <3>2, <3>3
  <2>3. Reach(races)' = Reach(races) /\ Reach(races - 1)' = Reach(races - 1)
    BY <2>1 DEF Reach
  <2> QED BY <1>0, <1>3, <2>1, <2>2, <2>3 DEF Paid
<1>7. CASE ProtectBegins
  <2>1. /\ error_seen /\ InScan /\ trigger' = time /\ pc' = "sleep"
        /\ UNCHANGED <<time, last_time, now, races>>
    BY <1>7 DEF ProtectBegins, Alarm
  <2>2. races >= 1
    BY <1>3, <2>1 DEF Paid, Raced
  <2>3. Reach(races - 1)' \in Int /\ Reach(races - 1)' >= 0
    BY <2>1, <2>2 DEF Reach
  <2>4. races' >= 1 /\ now' <= trigger' + Reach(races - 1)'
    BY <2>1, <2>2, <2>3
  <2> QED BY <1>3, <2>1, <2>4 DEF Paid
<1>8. CASE ProtectLasts
  <2>1. /\ error_seen /\ InScan /\ pc' = "sleep"
        /\ UNCHANGED <<time, last_time, now, races, protect, trigger>>
    BY <1>8 DEF ProtectLasts, Alarm, TriggerTime, TriggerAgrees
  <2>2. Raced /\ protect = "offline"
    BY <1>8, <2>1 DEF Raced, ProtectLasts
  <2>3. Reach(races - 1)' = Reach(races - 1)
    BY <2>1 DEF Reach
  <2> QED BY <1>3, <2>1, <2>2, <2>3 DEF Paid
<1>9. CASE ProtectEnds
  BY <1>3, <1>9 DEF ProtectEnds, Paid
<1>10. ASSUME NEW e \in Events, Stamp(e) PROVE Paid'
  <2>1. UNCHANGED <<time, now, pc, i, error_seen, protect, trigger>>
    BY <1>10 DEF Stamp
  <2>2. last_time' = [last_time EXCEPT ![e] = time]
    BY <1>10 DEF Stamp
  <2>3. \A f \in Critical : time' <= last_time'[f] + OfflineTime
    BY <1>3, <2>1, <2>2 DEF Paid
  <2>4. CASE pc = "scan" /\ e >= i /\ time > now /\ e \in Critical
    <3>1. races' = races + 1
      BY <1>10, <2>4 DEF Stamp
    <3>2. Raced' /\ InScan'
      BY <2>1, <2>2, <2>4 DEF Raced
    <3>3. Reach(races - 1)' = Reach(races)
      BY <3>1 DEF Reach
    <3> QED BY <1>0, <1>3, <2>1, <2>3, <2>4, <3>1, <3>2, <3>3 DEF Paid
  <2>5. CASE ~(pc = "scan" /\ e >= i /\ time > now /\ e \in Critical)
    <3>1. races' = races
      BY <1>10, <2>5 DEF Stamp
    <3>2. InScan => (Raced' <=> Raced)
      BY <2>1, <2>2, <2>5 DEF Raced
    <3>3. Reach(races)' = Reach(races) /\ Reach(races - 1)' = Reach(races - 1)
      BY <3>1 DEF Reach
    <3> QED BY <1>0, <1>3, <2>1, <2>3, <3>1, <3>2, <3>3 DEF Paid
  <2> QED BY <2>4, <2>5
<1>11. CASE OtaStart \/ OtaUnsolicited \/ UNCHANGED vars
  <2>1. UNCHANGED <<time, last_time, now, pc, i, error_seen, protect, trigger, races>>
    BY <1>11 DEF OtaStart, OtaUnsolicited, vars
  <2>2. Raced' <=> Raced
    BY <2>1 DEF Raced
  <2> QED BY <1>3, <2>1, <2>2 DEF Paid, Reach
<1> QED BY <1>4, <1>5, <1>6, <1>7, <1>8, <1>9, <1>10, <1>11
        DEF Next, Supervise, AutoReboot, ProtectResets, OtaReboot

(***************************************************************************)
(* The theorems.                                                           *)
(***************************************************************************)

\* The invariant holds in every state of every behaviour.
THEOREM Inductive == Spec => []IInv
<1>1. ASSUME Init PROVE IInv
  <2> USE <1>1, Numbers DEF Init
  <2>1. TypeOK
    <3>1. last_time \in [Events -> 0 .. TickMod - 1]
      OBVIOUS
    <3>2. /\ 0 \in 0 .. TickMod - 1 /\ 0 \in 0 .. MaxRaces /\ 1 \in 1 .. NumEvents + 1
          /\ Period \in Nat
      OBVIOUS
    <3> QED BY <3>1, <3>2 DEF TypeOK
  <2>2. Clock /\ TriggerAgrees /\ Deadline
    BY DEF Clock, TriggerAgrees, Deadline, InScan
  <2>3. \A e \in Critical : Noticed(e)
    BY DEF Noticed, InScan
  <2>4. Paid
    BY DEF Paid, InScan
  <2> QED BY <2>1, <2>2, <2>3, <2>4 DEF IInv
<1>2. ASSUME IInv, [Next]_vars PROVE IInv'
  <2>1. TypeOK' /\ Clock' /\ TriggerAgrees' /\ Deadline'
    BY <1>2, TypeKept, ClockKept, TriggerKept, DeadlineKept DEF IInv
  <2>2. watching' => \A e \in Critical : Noticed(e)'
    BY <1>2, NoticedKept
  <2>3. ~silent' => Paid'
    BY <1>2, PaidKept
  <2> QED BY <2>1, <2>2, <2>3 DEF IInv
<1> QED BY <1>1, <1>2, PTL DEF Spec

\* Type correctness: the twelve-hour reboot comes before the tick count wraps,
\* however late the task is (offline_manage_task).
THEOREM TypeCorrect == Spec => []TypeOK
<1>1. IInv => TypeOK
  BY DEF IInv
<1> QED BY <1>1, Inductive, PTL

\* The trigger time and SYSTEM_PROTECT's state agree
\* (system_protect_offline_first, offline_event_callback).
THEOREM TriggerCorrect == Spec => []TriggerAgrees
<1>1. IInv => TriggerAgrees
  BY DEF IInv
<1> QED BY <1>1, Inductive, PTL

\* A critical event that is silent resets the system in bounded time
\* (update_offline_manage, system_protect_offline).
THEOREM SilenceBounded == Spec => []SilentIsReset
<1>1. ASSUME IInv PROVE SilentIsReset
  <2> USE Numbers DEF IInv, TypeOK, Clock, InScan
  <2> SUFFICES ASSUME watching, NEW e \in Critical
               PROVE  SilentFor(e) <= OfflineTime + ProtectTime + 2 * Period + 4 * Slack
                                        + (IF pc = "reboot" THEN RebootDelay + Slack ELSE 0)
    BY DEF SilentIsReset
  <2>1. Noticed(e)
    BY <1>1
  <2>2. CASE protect = "online"
    BY <1>1, <2>1, <2>2 DEF Noticed, SilentFor
  <2>3. CASE protect = "offline"
    BY <1>1, <2>1, <2>3 DEF Noticed, Deadline, SilentFor
  <2> QED BY <1>1, <2>2, <2>3
<1> QED BY <1>1, Inductive, PTL

\* A device whose producers were never silent is not reset by the protection,
\* unless more stamps slip into scans than scans fit into the protection time
\* (update_offline_manage).
THEOREM HealthyKeepsRunning ==
  ASSUME Reach(MaxRaces - 1) + Slack <= ProtectTime
  PROVE  Spec => HealthyNeverReset
<1>1. ASSUME IInv, [Next]_vars PROVE [ProtectResets => silent]_vars
  <2> SUFFICES ASSUME ProtectResets, ~silent PROVE FALSE
    OBVIOUS
  <2> USE Numbers DEF IInv, TypeOK, Clock, InScan
  <2>1. Paid /\ InScan /\ error_seen /\ protect = "offline" /\ time - trigger > ProtectTime
    BY <1>1 DEF ProtectResets, Alarm, TriggerTime, TriggerAgrees
  <2>2. races >= 2 /\ now <= trigger + Reach(races - 1)
    BY <2>1 DEF Paid, Raced
  <2>3. Reach(races - 1) \in Int /\ Reach(races - 1) <= Reach(MaxRaces - 1)
    BY <1>1, <2>2 DEF Reach
  <2>4. time \in Nat /\ now \in Nat /\ trigger \in Nat /\ time <= now + Slack
    BY <1>1, <2>1
  <2>5. Reach(MaxRaces - 1) \in Int
    BY ReachNext
  <2> QED BY <2>1, <2>2, <2>3, <2>4, <2>5
<1> QED BY <1>1, Inductive, PTL DEF Spec, HealthyNeverReset
===============================================================================
