---------------------------- MODULE OfflineManage ----------------------------
(***************************************************************************)
(* The offline supervision (application/offline_manage_task.c and          *)
(* offline_event_table.c): the producer tasks stamp their events with the  *)
(* tick count, the supervision task scans the stamps every Period, and a   *)
(* critical event that stays silent long enough resets the system.         *)
(*                                                                         *)
(* The scan samples the tick once and then looks at one event after the    *)
(* other; producers of the same or a higher priority stamp their events    *)
(* between any two of its steps.  Ticks are counted from the boot and      *)
(* wrap at TickMod as a uint32_t does; the twelve-hour reboot comes first. *)
(* OTASTART switches the supervision off until the next boot.              *)
(***************************************************************************)
EXTENDS Integers

CONSTANTS
  NumEvents,    \* events 1 .. NumEvents, SYSTEM_PROTECT is event 0
  Critical,     \* the enabled events with OFFLINE_ERROR_LEVEL
  OfflineTime,  \* offline_time of every event of the table
  ProtectTime,  \* ten minutes, system_protect_offline
  Period,       \* OFFLINE_TASK_PERIOD_MS
  RebootAfter,  \* OFFLINE_AUTO_REBOOT_MS
  RebootDelay,  \* three seconds, from the decision to reboot to the reset
  TickMod,      \* values of the tick count
  Slack,        \* ticks the supervision task can be held up
  MaxRaces      \* stamps that may fall between the sample of a scan and its use

Events == 1 .. NumEvents

ASSUME OfflineAssumption ==
  /\ NumEvents \in Nat /\ Critical \subseteq Events
  /\ {OfflineTime, ProtectTime, RebootDelay, Slack, MaxRaces} \subseteq Nat
  /\ Period \in Nat /\ Period > 0
  /\ RebootAfter \in Nat /\ RebootAfter > 0
  /\ TickMod \in Nat /\ TickMod > RebootAfter + RebootDelay + Period + 2 * Slack
  /\ TickMod > OfflineTime + Slack + 1

VARIABLES
  time,          \* osKernelGetTickCount
  last_time,     \* the stamp of each event
  pc,            \* of the supervision task
  wake,          \* the tick vTaskDelayUntil waits for
  now,           \* the tick sampled before a scan or the reboot
  i,             \* the event the scan looks at next
  error_seen,    \* the scan found a critical event offline
  protect,       \* SYSTEM_PROTECT's last_state: "online" or "offline"
  trigger,       \* protect_trigger_time, 0 when there is none
  watching,      \* the events' enable flags, all set or all cleared together
  ota,           \* "idle", or "busy" once g_ota.state has left IDLE
  races,         \* history: stamps newer than the sample that was compared
  silent         \* history: a critical event was really silent for too long

scanVars == <<pc, wake, now, i, error_seen>>
protectVars == <<protect, trigger>>
vars == <<time, last_time, scanVars, protectVars, watching, ota, races, silent>>

\* setup_offline_manage: every event is stamped, all are online.
Init ==
  /\ time = 0 /\ last_time = [e \in Events |-> 0]
  /\ pc = "sleep" /\ wake = Period /\ now = 0 /\ i = 1 /\ error_seen = FALSE
  /\ protect = "online" /\ trigger = 0
  /\ watching = TRUE /\ ota = "idle" /\ races = 0 /\ silent = FALSE

\* A reset, whoever asks for it.
Reboot ==
  /\ time' = 0 /\ last_time' = [e \in Events |-> 0]
  /\ pc' = "sleep" /\ wake' = Period /\ now' = 0 /\ i' = 1 /\ error_seen' = FALSE
  /\ protect' = "online" /\ trigger' = 0
  /\ watching' = TRUE /\ ota' = "idle" /\ races' = 0 /\ silent' = FALSE

SilentFor(e) == time - last_time[e]

\* The supervision task is never held up for more than Slack, neither at its
\* wake-up, nor from the sample to the end of the scan, nor after the delay
\* before the reboot.
OnTime ==
  /\ pc = "sleep" => time < wake + Slack
  /\ pc \in {"scan", "decide"} => time < now + Slack
  /\ pc = "reboot" => time < now + RebootDelay + Slack

Tick ==
  /\ OnTime
  /\ time' = time + 1
  /\ silent' = (silent \/ \E e \in Critical : time' - last_time[e] > OfflineTime)
  /\ UNCHANGED <<last_time, scanVars, protectVars, watching, ota, races>>

\* offline_manage_update_event, called by the task the event stands for.  Each
\* of them stops doing so while an update is under way; whether one is alive is
\* open anyway, so its loop is not modelled.
Stamp(e) ==
  /\ last_time[e] # time
  /\ IF pc = "scan" /\ e >= i /\ time > now /\ e \in Critical
     THEN races < MaxRaces /\ races' = races + 1
     ELSE UNCHANGED races
  /\ last_time' = [last_time EXCEPT ![e] = time]
  /\ UNCHANGED <<time, scanVars, protectVars, watching, ota, silent>>

\* The loop of offline_manage_task up to the scan.
WakeUp ==
  /\ pc = "sleep" /\ time >= wake
  /\ wake' = wake + Period /\ now' = time
  /\ \/ time >= RebootAfter /\ pc' = "reboot" /\ UNCHANGED <<i, error_seen>>
     \/ time < RebootAfter /\ pc' = "scan" /\ i' = 1 /\ error_seen' = FALSE
  /\ UNCHANGED <<time, last_time, protectVars, watching, ota, races, silent>>

RebootDue == pc = "reboot" /\ time >= now + RebootDelay

\* Mutant: no reboot while an update is under way.
AutoRebootIfIdle == RebootDue /\ ota = "idle" /\ Reboot

\* After twelve hours and the delay: board_system_reset_force.
AutoReboot == RebootDue /\ Reboot

\* Mutant: the operands of the subtraction are exchanged.
ElapsedSwapped(e) == (last_time[e] - now) % TickMod

\* now - last_time, unsigned: a stamp newer than now is nearly TickMod ago.
Elapsed(e) == (now - last_time[e]) % TickMod

\* Mutant: the loop runs to the size of the table, counted without event 0.
LastEventOff == NumEvents + 1

LastEvent == NumEvents

\* update_offline_manage, one turn of its first loop.
ScanEvent ==
  /\ pc = "scan" /\ i <= LastEvent
  /\ error_seen' = (error_seen \/ (i \in Critical /\ watching /\ Elapsed(i) > OfflineTime))
  /\ i' = i + 1
  /\ pc' = IF i = LastEvent THEN "decide" ELSE "scan"
  /\ UNCHANGED <<time, last_time, wake, now, protectVars, watching, ota, races, silent>>

Alarm == error_seen /\ watching

\* Mutant: the callback does not record the state it has dealt with.
ProtectBeginsAgain ==
  /\ pc = "decide" /\ Alarm /\ protect = "online"
  /\ trigger' = time
  /\ pc' = "sleep"
  /\ UNCHANGED <<time, last_time, wake, now, i, error_seen, protect, watching, ota, races, silent>>

\* system_protect_offline_first, by way of offline_event_callback.
ProtectBegins ==
  /\ pc = "decide" /\ Alarm /\ protect = "online"
  /\ protect' = "offline" /\ trigger' = time
  /\ pc' = "sleep"
  /\ UNCHANGED <<time, last_time, wake, now, i, error_seen, watching, ota, races, silent>>

\* system_protect_offline takes the trigger time it finds missing.
TriggerTime == IF trigger = 0 THEN time ELSE trigger

\* system_protect_offline: it waits or, after ProtectTime, resets the system.
ProtectLasts ==
  /\ pc = "decide" /\ Alarm /\ protect = "offline"
  /\ time - TriggerTime <= ProtectTime
  /\ trigger' = TriggerTime
  /\ pc' = "sleep"
  /\ UNCHANGED <<time, last_time, wake, now, i, error_seen, protect, watching, ota, races, silent>>

ProtectResets ==
  /\ pc = "decide" /\ Alarm /\ protect = "offline"
  /\ time - TriggerTime > ProtectTime
  /\ Reboot

\* system_protect_online_first, if the state has changed.
ProtectEnds ==
  /\ pc = "decide" /\ ~Alarm
  /\ protect' = "online"
  /\ trigger' = IF protect = "offline" THEN 0 ELSE trigger
  /\ pc' = "sleep"
  /\ UNCHANGED <<time, last_time, wake, now, i, error_seen, watching, ota, races, silent>>

\* OTASTART: ota_start_transfer_callback calls offline_manage_disable_all_event.
OtaStart ==
  /\ ota = "idle"
  /\ ota' = "busy" /\ watching' = FALSE
  /\ UNCHANGED <<time, last_time, scanVars, protectVars, races, silent>>

\* A header nobody asked for starts a session too, and disables nothing.
OtaUnsolicited ==
  /\ ota = "idle"
  /\ ota' = "busy"
  /\ UNCHANGED <<time, last_time, scanVars, protectVars, watching, races, silent>>

\* A completed update restarts the device; a failed one leaves it "busy".
OtaReboot == ota = "busy" /\ Reboot

Supervise ==
  WakeUp \/ AutoReboot \/ ScanEvent \/ ProtectBegins \/ ProtectLasts \/ ProtectResets \/ ProtectEnds

Next ==
  \/ Tick \/ Supervise
  \/ \E e \in Events : Stamp(e)
  \/ OtaStart \/ OtaUnsolicited \/ OtaReboot

Spec == Init /\ [][Next]_vars

\* The tick interrupt fires, and the supervision task gets to run.
FairSpec == Spec /\ WF_vars(Tick) /\ WF_vars(Supervise)
-------------------------------------------------------------------------------
TypeOK ==
  /\ time \in 0 .. TickMod - 1 /\ last_time \in [Events -> 0 .. TickMod - 1]
  /\ pc \in {"sleep", "scan", "decide", "reboot"}
  /\ wake \in Nat /\ now \in 0 .. TickMod - 1 /\ i \in 1 .. NumEvents + 1
  /\ error_seen \in BOOLEAN /\ protect \in {"online", "offline"} /\ trigger \in 0 .. TickMod - 1
  /\ watching \in BOOLEAN /\ ota \in {"idle", "busy"} /\ races \in 0 .. MaxRaces
  /\ silent \in BOOLEAN

\* A device whose critical producers have always stamped in time is not reset
\* by the protection: stamps that slip into a scan, and look as if they were
\* nearly TickMod old, raise an alarm that ends before ProtectTime is over.
\* (MaxRaces is at most the number of scans of ProtectTime.)
HealthyNeverReset == [][ProtectResets => silent]_vars

\* OFFLINE_ERROR_LEVEL "triggers system reset": while the supervision is on, no
\* critical event is silent for longer than its offline time, the protection
\* time, and the scans and delays between them.  (In the seconds before the
\* twelve-hour reboot nothing is scanned.)
SilentIsReset ==
  watching => \A e \in Critical :
    SilentFor(e) <= OfflineTime + ProtectTime + 2 * Period + 4 * Slack
                      + (IF pc = "reboot" THEN RebootDelay + Slack ELSE 0)

\* The supervision's two records of an alarm agree: a trigger time is set
\* exactly while SYSTEM_PROTECT was offline at the last scan.
TriggerAgrees == trigger # 0 <=> protect = "offline"

\* Whatever an update leaves behind, supervision switched off and producers
\* gated, the device is back to its normal work some time, if only by the
\* twelve-hour reboot.
AlwaysRecovers == ota = "busy" ~> (ota = "idle" /\ watching)
===============================================================================
