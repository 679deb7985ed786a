--------------------------- MODULE WifiManagerProofs ---------------------------
(***************************************************************************)
(* Safety of the Wi-Fi manager, for every band selection, every threshold, *)
(* any number of strikes and reboots, any width of the counters and any    *)
(* number of events, faults and periods.                                   *)
(***************************************************************************)
EXTENDS WifiManager, TLAPS

Events == {"CONNECTED", "GOT_IP", "LOST_IP", "DISCONNECTED"}
Links  == {"off", "idle", "joining"} \cup Bands
Places == [pc : {"idle", "connected", "disconnected"},
           band : Bands \cup {"none"}, auto : BOOLEAN]
Notes  == [right : BOOLEAN, known : BOOLEAN, magic : BOOLEAN,
           wifi_reboots : Nat]
Creds  == [driver : BOOLEAN, manager : BOOLEAN]

\* The end of an attempt or of a connection is still to be handled.
Ending == \E i \in DOMAIN queue : queue[i] = "DISCONNECTED"

\* Something goes on that will set the state right.
Followed ==
  \/ link = "joining" \/ Ending \/ reconnect \/ timer = "resetting"

\* The callbacks that stop the driver find it stopped when they go on.
ResetIsOff == timer \in {"resetting", "stopped"} => link = "off"

\* Only the portal keeps the manager from reconnecting.
PortalAlone == app # "portal" => auto_reconnect

\* A report of a connection is of this one, or the report of its end follows.
HandledIsUp == handler.pc = "connected" => Up \/ Ending
QueuedIsUp ==
  \A i \in DOMAIN queue :
    queue[i] \in {"CONNECTED", "GOT_IP"} =>
      Up \/ \E j \in DOMAIN queue : i < j /\ queue[j] = "DISCONNECTED"

\* UpIsReal without the callbacks' states that need not help, and the same of
\* the answer wifi_manager_reconnect() has still to report.
SaysUp ==
  state = "CONNECTED" /\ ~Up => Followed \/ handler.pc = "disconnected"
FoundUp ==
  app = "found" /\ ~Up =>
    Followed \/ (handler.pc = "disconnected" /\ handler.auto)

\* Driven, in terms of Ending.
Pursued ==
  asked /\ ~Up =>
    \/ link = "joining" \/ Ending \/ watchdog # Off
    \/ timer \in {"stopped", "started", "rebooting"}

Safe ==
  /\ ResetIsOff /\ PortalAlone /\ HandledIsUp /\ QueuedIsUp
  /\ Pursued /\ SaysUp /\ FoundUp

WifiInv == TypeOK /\ Safe

USE SelectionAssumption, LimitAssumption, BoundsAssumption

-------------------------------------------------------------------------------
(***************************************************************************)
(* The queue of events.                                                    *)
(***************************************************************************)
\* The types of what the queue's lemmas and the steps speak of.
LEMMA Typing ==
  ASSUME TypeOK
  PROVE  /\ queue \in Seq(Events) /\ link \in Links /\ lease \in BOOLEAN
         /\ handler \in Places /\ nvs \in Notes /\ cred \in Creds
         /\ ip \in BOOLEAN /\ connectedBit \in BOOLEAN
         /\ auto_reconnect \in BOOLEAN /\ fallback \in BOOLEAN
         /\ reconnect \in BOOLEAN /\ had_connection \in BOOLEAN
         /\ asked \in BOOLEAN /\ watchdog \in Off .. Patience
BY DEF TypeOK, Events, Links, Places, Notes, Creds

\* Whatever the Kconfig choice, the band modes leave a band to use.
LEMMA BandModes ==
  /\ preferred_band_mode \in (SUBSET Bands) \ {{}}
  /\ fallback_band_mode \in (SUBSET Bands) \ {{}}
BY DEF preferred_band_mode, fallback_band_mode, Bands, Selections

\* An 8-bit counter that is counted up is one still.
LEMMA CountType ==
  ASSUME NEW n \in 0 .. CounterSize - 1
  PROVE  Counted(n) \in 0 .. CounterSize - 1
BY SMT DEF Counted

\* A step that leaves the queue alone and ends no connection.
LEMMA QuietStep ==
  ASSUME TypeOK, QueuedIsUp, queue' = queue, Up => Up'
  PROVE  /\ Ending' <=> Ending
         /\ QueuedIsUp'
BY DEF Ending, QueuedIsUp, Up

\* An event that the end of no connection is.
LEMMA AppendStep ==
  ASSUME TypeOK, QueuedIsUp, NEW e \in Events, queue' = Append(queue, e),
         Up'
  PROVE  /\ queue' \in Seq(Events)
         /\ Ending => Ending'
         /\ QueuedIsUp'
<1>1. queue \in Seq(Events)
  BY Typing
<1> QED BY <1>1 DEF Ending, QueuedIsUp, Up

\* Whatever ends a connection or an attempt posts the report of it behind all
\* others.
LEMMA DropStep ==
  ASSUME TypeOK, QueuedIsUp, NEW l \in {"off", "idle", "joining"}, DropTo(l)
  PROVE  /\ queue' \in Seq(Events) /\ link' = l /\ lease' = FALSE /\ ~Up'
         /\ Up \/ link = "joining" \/ Ending => Ending'
         /\ QueuedIsUp'
<1>1. queue \in Seq(Events)
  BY Typing
<1>2. link' = l /\ lease' = FALSE /\ ~Up'
  BY DEF DropTo, Up, Bands
<1>3. CASE Up \/ link = "joining"
  <2>1. queue' = Append(queue, "DISCONNECTED")
    BY <1>3 DEF DropTo, Drops
  <2>2. /\ queue' \in Seq(Events) /\ Len(queue') = Len(queue) + 1
        /\ queue'[Len(queue')] = "DISCONNECTED"
        /\ \A i \in DOMAIN queue' : i < Len(queue') \/ i = Len(queue')
        /\ Len(queue') \in DOMAIN queue'
    BY <1>1, <2>1 DEF Events
  <2> QED BY <1>2, <2>2 DEF Ending, QueuedIsUp
<1>4. CASE ~ (Up \/ link = "joining")
  <2>1. queue' = queue
    BY <1>4 DEF DropTo, Drops
  <2> QED BY <1>1, <1>2, <1>4, <2>1, QuietStep
<1> QED BY <1>3, <1>4

\* The event task takes the first report.
LEMMA TakeStep ==
  ASSUME TypeOK, QueuedIsUp, NEW e \in Events, Takes(e), link' = link
  PROVE  /\ queue' \in Seq(Events)
         /\ QueuedIsUp'
         /\ e # "DISCONNECTED" => (Ending' <=> Ending)
         /\ e \in {"CONNECTED", "GOT_IP"} => Up \/ Ending'
<1>1. queue \in Seq(Events) /\ queue # <<>> /\ Head(queue) = e
  BY Typing DEF Takes
<1>2. queue' = Tail(queue)
  BY DEF Takes
<1>3. /\ queue' \in Seq(Events) /\ Len(queue') = Len(queue) - 1
      /\ \A i \in 1 .. Len(queue) - 1 : queue'[i] = queue[i + 1]
      /\ queue[1] = e /\ Len(queue) \in Nat \ {0}
  BY <1>1, <1>2
<1>4. DOMAIN queue = 1 .. Len(queue) /\ DOMAIN queue' = 1 .. Len(queue) - 1
  BY <1>1, <1>3
<1>5. /\ 1 \in DOMAIN queue
      /\ \A i \in DOMAIN queue' :
           i \in Nat \ {0} /\ i + 1 \in DOMAIN queue /\ queue'[i] = queue[i + 1]
  BY <1>3, <1>4
<1>6. \A i \in DOMAIN queue \ {1} :
        /\ i \in Nat /\ 1 < i /\ i - 1 \in DOMAIN queue'
        /\ queue'[i - 1] = queue[i]
  <2> SUFFICES ASSUME NEW i \in 2 .. Len(queue)
               PROVE  /\ i \in Nat /\ 1 < i /\ i - 1 \in 1 .. Len(queue) - 1
                      /\ queue'[i - 1] = queue[i]
    BY <1>3, <1>4
  <2>1. i - 1 \in 1 .. Len(queue) - 1 /\ (i - 1) + 1 = i
    BY <1>3
  <2> QED BY <1>3, <2>1
<1>7. e # "DISCONNECTED" => (Ending' <=> Ending)
  BY <1>3, <1>5, <1>6 DEF Ending
<1>8. ASSUME e \in {"CONNECTED", "GOT_IP"}, ~Up PROVE Ending'
  <2>1. PICK j \in DOMAIN queue : 1 < j /\ queue[j] = "DISCONNECTED"
    BY <1>3, <1>5, <1>6, <1>8 DEF QueuedIsUp
  <2> QED BY <1>5, <1>6, <2>1 DEF Ending
<1>9. QueuedIsUp'
  <2> SUFFICES ASSUME NEW i \in DOMAIN queue',
                      queue'[i] \in {"CONNECTED", "GOT_IP"}, ~Up
               PROVE  \E j \in DOMAIN queue' :
                        i < j /\ queue'[j] = "DISCONNECTED"
    BY DEF QueuedIsUp, Up
  <2>1. PICK j \in DOMAIN queue : i + 1 < j /\ queue[j] = "DISCONNECTED"
    BY <1>5, <1>6 DEF QueuedIsUp
  <2>2. j \in DOMAIN queue \ {1}
    BY <1>5, <1>6, <2>1
  <2>3. j - 1 \in DOMAIN queue' /\ i < j - 1 /\ queue'[j - 1] = "DISCONNECTED"
    BY <1>5, <1>6, <2>1, <2>2
  <2> QED BY <2>3
<1> QED BY <1>3, <1>7, <1>8, <1>9

\* A station that is told to disconnect.
LEMMA DisconnectStep ==
  ASSUME TypeOK, QueuedIsUp, esp_wifi_disconnect
  PROVE  /\ queue' \in Seq(Events) /\ lease' = FALSE /\ ~Up'
         /\ link' = IF link = "off" THEN "off" ELSE "idle"
         /\ Up \/ link = "joining" \/ Ending => Ending'
         /\ QueuedIsUp'
BY DropStep DEF esp_wifi_disconnect

-------------------------------------------------------------------------------
(***************************************************************************)
(* Types: the flags, the values and the records apart, for each is proved  *)
(* from other parts of an action.                                          *)
(***************************************************************************)
Flags ==
  /\ lease \in BOOLEAN /\ ip \in BOOLEAN /\ connectedBit \in BOOLEAN
  /\ auto_reconnect \in BOOLEAN /\ fallback \in BOOLEAN
  /\ reconnect \in BOOLEAN /\ had_connection \in BOOLEAN /\ asked \in BOOLEAN
Values ==
  /\ aps \in SUBSET Bands /\ link \in Links
  /\ mode \in (SUBSET Bands) \ {{}}
  /\ queue \in Seq(Events)
  /\ state \in {"DISCONNECTED", "CONNECTING", "CONNECTED", "FAILED",
                "RECONNECTING"}
  /\ failures \in 0 .. CounterSize - 1
  /\ cooldown \in {"first", "ready", "behind", "running", "over"}
  /\ watchdog \in Off .. Patience
  /\ strikes \in 0 .. CounterSize - 1
  /\ timer \in {"idle", "resetting", "stopped", "started", "rebooting"}
  /\ app \in {"connect", "waiting", "portal", "running", "restored", "found",
               "cancelled"}
  /\ rebooted \in 0 .. MaxReboots + 1
  /\ faults \in 0 .. MaxFaults
Records ==
  /\ handler \in Places /\ nvs \in Notes /\ cred \in Creds
  /\ test \in [pc : {"none", "dropped", "waiting"}, right : BOOLEAN]

\* The three parts are TypeOK.
LEMMA Parts == TypeOK <=> Flags /\ Values /\ Records
BY DEF TypeOK, Flags, Values, Records, Events, Links, Places, Notes, Creds

\* What the event task notes of an event that it has begun to handle.
LEMMA HandlerTypes ==
  /\ Idle \in Places /\ Idle.pc = "idle"
  /\ \A b \in Bands \cup {"none"} :
       [Idle EXCEPT !.pc = "connected", !.band = b] \in Places
  /\ \A a \in BOOLEAN :
       [Idle EXCEPT !.pc = "disconnected", !.auto = a] \in Places
BY DEF Idle, Places

\* What is written to flash and to RTC memory.
LEMMA NoteTypes ==
  ASSUME nvs \in Notes
  PROVE  /\ Noted \in Notes
         /\ \A n \in Notes : Consumed(n) \in Notes
         /\ \A b \in BOOLEAN : [nvs EXCEPT !.right = b] \in Notes
         /\ \A b \in BOOLEAN : [nvs EXCEPT !.known = b] \in Notes
<1>1. Noted \in Notes
  <2>1. RebootCount \in Nat
    BY DEF RebootCount, Notes
  <2>2. PICK n \in Nat : n = RebootCount
    BY <2>1
  <2>3. \A b \in BOOLEAN, m \in Nat :
          [nvs EXCEPT !.magic = b, !.wifi_reboots = m] \in Notes
    BY DEF Notes
  <2>4. n + 1 \in Nat /\ TRUE \in BOOLEAN
    OBVIOUS
  <2> QED BY <2>2, <2>3, <2>4 DEF Noted
<1>2. \A n \in Notes : Consumed(n) \in Notes
  BY DEF Consumed, Notes
<1> QED BY <1>1, <1>2 DEF Notes

\* Every action keeps the flags ...
LEMMA FlagStep ==
  ASSUME TypeOK, QueuedIsUp, Next
  PROVE  Flags'
<1> USE Parts DEF Flags
<1>1. CASE wifi_manager_connect
  BY <1>1 DEF wifi_manager_connect, timers
<1>2. CASE StartupEnds
  BY <1>2 DEF StartupEnds, radio, manager, timers, history
<1>3. CASE StaConnected
  BY <1>3 DEF StaConnected, manager, timers, history
<1>4. CASE StaConnectedDone
  BY <1>4 DEF StaConnectedDone
<1>5. CASE StaDisconnected
  BY <1>5 DEF StaDisconnected, history
<1>6. CASE StaDisconnectedDone
  BY <1>6 DEF StaDisconnectedDone
<1>7. CASE StaGotIp
  BY <1>7 DEF StaGotIp, history
<1>8. CASE StaLostIp
  BY <1>8 DEF StaLostIp, timers, history
<1>9. CASE TimePasses
  BY <1>9 DEF TimePasses, radio, manager, history
<1>10. CASE ReconnectNotNeeded
  BY <1>10 DEF ReconnectNotNeeded, radio, history
<1>11. CASE reconnect_timer_callback
  BY <1>11, DropStep DEF reconnect_timer_callback
<1>12. CASE DriverReset
  BY <1>12 DEF DriverReset, manager, history
<1>13. CASE WatchdogNotNeeded
  BY <1>13 DEF WatchdogNotNeeded, radio, manager, history
<1>14. CASE wifi_watchdog_callback
  BY <1>14, DropStep DEF wifi_watchdog_callback, manager
<1>15. CASE WatchdogReboots
  BY <1>15 DEF WatchdogReboots, Restart
<1>16. CASE WatchdogStarts
  BY <1>16 DEF WatchdogStarts, manager, timers, history
<1>17. CASE WatchdogConnects
  BY <1>17 DEF WatchdogConnects
<1>18. CASE CooldownAges
  BY <1>18 DEF CooldownAges, radio, manager, history
<1>19. CASE wifi_manager_switch_band
  BY <1>19, DropStep DEF wifi_manager_switch_band, manager
<1>20. CASE captive_portal_start
  BY <1>20 DEF captive_portal_start, radio, timers, history
<1>21. CASE captive_portal_stop
  BY <1>21 DEF captive_portal_stop, radio, timers, history
<1>22. CASE connect_test_task
  BY <1>22, DisconnectStep DEF connect_test_task, manager, timers
<1>23. CASE TestConnects
  BY <1>23 DEF TestConnects, timers
<1>24. CASE TestSucceeds
  BY <1>24 DEF TestSucceeds, radio, manager, timers, Restart
<1>25. CASE TestFails
  BY <1>25, DisconnectStep DEF TestFails, manager, timers, history
<1>26. CASE LeavePairing
  BY <1>26 DEF LeavePairing, timers
<1>27. CASE wifi_manager_reconnect
  BY <1>27, DisconnectStep DEF wifi_manager_reconnect, timers, history
<1>28. CASE ReconnectReports
  BY <1>28 DEF ReconnectReports, radio, timers, history
<1>29. CASE ReconnectConnects
  BY <1>29 DEF ReconnectConnects, timers
<1>30. CASE AccessPointChanges
  BY <1>30 DEF AccessPointChanges, Beyond, manager, timers
<1>31. CASE JoinSucceeds
  BY <1>31 DEF JoinSucceeds, Beyond, manager, timers
<1>32. CASE JoinFails
  BY <1>32, DropStep DEF JoinFails, Beyond, manager, timers
<1>33. CASE LinkLost
  BY <1>33, DropStep DEF LinkLost, Beyond, manager, timers
<1>34. CASE LeaseGiven
  BY <1>34 DEF LeaseGiven, Beyond, manager, timers
<1>35. CASE LeaseLost
  BY <1>35 DEF LeaseLost, Beyond, manager, timers
<1> QED BY <1>1, <1>2, <1>3, <1>4, <1>5, <1>6, <1>7, <1>8, <1>9, <1>10, <1>11,
           <1>12, <1>13, <1>14, <1>15, <1>16, <1>17, <1>18, <1>19, <1>20,
           <1>21, <1>22, <1>23, <1>24, <1>25, <1>26, <1>27, <1>28, <1>29,
           <1>30, <1>31, <1>32, <1>33, <1>34, <1>35 DEF Next, EventTask,
           TimerTask, RssiMonitor, Main, Portal, TestTask, Lifecycle, Driver,
           World

\* ... the values ...
LEMMA ValueStep ==
  ASSUME TypeOK, QueuedIsUp, Next
  PROVE  Values'
<1> USE Parts DEF Values, Bands, Off, Links, Events
<1>1. CASE wifi_manager_connect
  BY <1>1, SMTT(60) DEF wifi_manager_connect, timers, esp_wifi_connect, Call, Fault,
     Joining
<1>2. CASE StartupEnds
  BY <1>2 DEF StartupEnds, radio, manager, timers, history
<1>3. CASE StaConnected
  BY <1>3, TakeStep, SMTT(60) DEF StaConnected, manager, timers, history
<1>4. CASE StaConnectedDone
  BY <1>4, BandModes, SMTT(60) DEF StaConnectedDone
<1>5. CASE StaDisconnected
  BY <1>5, TakeStep, SMTT(60) DEF StaDisconnected, history, Armed
<1>6. CASE StaDisconnectedDone
  <2>1. failures' \in 0 .. CounterSize - 1
    BY <1>6, CountType DEF StaDisconnectedDone
  <2>2. mode' \in {mode, fallback_band_mode} /\ faults' \in 0 .. MaxFaults
    BY <1>6, SMTT(60) DEF StaDisconnectedDone, Call, Fault
  <2> QED BY <1>6, <2>1, <2>2, BandModes, ZenonT(120) DEF StaDisconnectedDone, AfterLoss
<1>7. CASE StaGotIp
  BY <1>7, TakeStep, SMTT(60) DEF StaGotIp, places, history
<1>8. CASE StaLostIp
  BY <1>8, TakeStep, SMTT(60) DEF StaLostIp, timers, places, history
<1>9. CASE TimePasses
  BY <1>9, SMTT(60) DEF TimePasses, radio, manager, places, history
<1>10. CASE ReconnectNotNeeded
  BY <1>10 DEF ReconnectNotNeeded, radio, places, history
<1>11. CASE reconnect_timer_callback
  <2>1. /\ queue' \in Seq(Events) /\ link' \in Links
        /\ timer' \in {timer, "resetting"}
        /\ state' \in {state, "RECONNECTING"}
    BY <1>11, DropStep DEF reconnect_timer_callback, esp_wifi_connect, Joining
  <2>2. faults' \in 0 .. MaxFaults
    <3>1. Fault \/ UNCHANGED faults
      BY <1>11 DEF reconnect_timer_callback, esp_wifi_connect, Call
    <3> QED BY <3>1, SMTT(60) DEF Fault
  <2>3. failures' \in 0 .. CounterSize - 1
    BY <1>11, CountType DEF reconnect_timer_callback
  <2>4. mode' \in {mode, fallback_band_mode}
    BY <1>11 DEF reconnect_timer_callback
  <2> QED BY <1>11, <2>1, <2>2, <2>3, <2>4, BandModes, SMTT(60) DEF
             reconnect_timer_callback
<1>12. CASE DriverReset
  BY <1>12 DEF DriverReset, manager, history
<1>13. CASE WatchdogNotNeeded
  BY <1>13 DEF WatchdogNotNeeded, radio, manager, places, history
<1>14. CASE wifi_watchdog_callback
  <2>1. /\ queue' \in Seq(Events) /\ link' \in Links
        /\ timer' \in {"rebooting", "stopped"}
    BY <1>14, DropStep DEF wifi_watchdog_callback
  <2>2. rebooted' \in 0 .. MaxReboots + 1
    BY <1>14, SMTT(60) DEF wifi_watchdog_callback
  <2>3. strikes' \in 0 .. CounterSize - 1 /\ watchdog' = Off
    BY <1>14, CountType DEF wifi_watchdog_callback
  <2> QED BY <1>14, <2>1, <2>2, <2>3, SMTT(60) DEF wifi_watchdog_callback, manager
<1>15. CASE WatchdogReboots
  BY <1>15, BandModes, SMTT(60) DEF WatchdogReboots, Restart
<1>16. CASE WatchdogStarts
  BY <1>16 DEF WatchdogStarts, manager, timers, history
<1>17. CASE WatchdogConnects
  BY <1>17, SMTT(60) DEF WatchdogConnects, esp_wifi_connect, Call, Fault, Joining
<1>18. CASE CooldownAges
  BY <1>18 DEF CooldownAges, radio, manager, places, history, Aged
<1>19. CASE wifi_manager_switch_band
  <2>1. {Other} \in (SUBSET Bands) \ {{}}
    BY DEF Other
  <2>2. /\ queue' \in Seq(Events) /\ link' \in Links
        /\ faults' \in 0 .. MaxFaults
        /\ cooldown' \in {cooldown, "running"}
        /\ mode' = {Other} \/ mode' = Bands
    <3>1. /\ \/ DropTo("joining") \/ DropTo("idle")
             \/ UNCHANGED <<link, lease, queue>>
          /\ Fault \/ UNCHANGED faults
          /\ cooldown' \in {cooldown, "running"}
          /\ mode' = {Other} \/ mode' = Bands
      BY <1>19 DEF wifi_manager_switch_band
    <3>2. queue' \in Seq(Events) /\ link' \in Links
      BY <3>1, DropStep
    <3> QED BY <3>1, <3>2, SMTT(60) DEF Fault
  <2> QED BY <1>19, <2>1, <2>2, ZenonT(60) DEF wifi_manager_switch_band, manager, places
<1>20. CASE captive_portal_start
  BY <1>20 DEF captive_portal_start, radio, timers, history
<1>21. CASE captive_portal_stop
  BY <1>21 DEF captive_portal_stop, radio, timers, history
<1>22. CASE connect_test_task
  BY <1>22, DisconnectStep, SMTT(60) DEF connect_test_task, manager, timers, Fault
<1>23. CASE TestConnects
  BY <1>23, SMTT(60) DEF TestConnects, timers, Joining
<1>24. CASE TestSucceeds
  <2>1. CASE app = "portal"
    BY <1>24, <2>1, SMTT(60) DEF TestSucceeds, radio, manager, timers
  <2>2. CASE app # "portal"
    BY <1>24, <2>2, BandModes, SMTT(60) DEF TestSucceeds, Restart
  <2> QED BY <2>1, <2>2
<1>25. CASE TestFails
  BY <1>25, DisconnectStep, SMTT(60) DEF TestFails, manager, timers, history
<1>26. CASE LeavePairing
  BY <1>26, SMTT(60) DEF LeavePairing, timers, Fault
<1>27. CASE wifi_manager_reconnect
  <2>1. CASE Up
    BY <1>27, <2>1 DEF wifi_manager_reconnect, timers, history
  <2>2. CASE ~Up
    <3>1. esp_wifi_disconnect /\ failures' = 0 /\ app' = "cancelled"
      BY <1>27, <2>2 DEF wifi_manager_reconnect
    <3> QED BY <1>27, <3>1, DisconnectStep, SMTT(60) DEF wifi_manager_reconnect, timers,
               history
  <2> QED BY <2>1, <2>2
<1>28. CASE ReconnectReports
  BY <1>28 DEF ReconnectReports, radio, timers, history
<1>29. CASE ReconnectConnects
  BY <1>29, SMTT(120) DEF ReconnectConnects, timers, esp_wifi_connect, Call, Fault,
     Joining
<1>30. CASE AccessPointChanges
  BY <1>30, SMTT(60) DEF AccessPointChanges, Beyond, manager, timers, places, Fault
<1>31. CASE JoinSucceeds
  BY <1>31 DEF JoinSucceeds, Beyond, manager, timers, places, Joinable
<1>32. CASE JoinFails
  BY <1>32, DropStep, SMTT(60) DEF JoinFails, Beyond, manager, timers, places, Call,
     Fault
<1>33. CASE LinkLost
  BY <1>33, DropStep, SMTT(60) DEF LinkLost, Beyond, manager, timers, places, Fault
<1>34. CASE LeaseGiven
  BY <1>34, SMTT(60) DEF LeaseGiven, Beyond, manager, timers, places
<1>35. CASE LeaseLost
  BY <1>35, SMTT(60) DEF LeaseLost, Beyond, manager, timers, places, Fault
<1> QED BY <1>1, <1>2, <1>3, <1>4, <1>5, <1>6, <1>7, <1>8, <1>9, <1>10, <1>11,
           <1>12, <1>13, <1>14, <1>15, <1>16, <1>17, <1>18, <1>19, <1>20,
           <1>21, <1>22, <1>23, <1>24, <1>25, <1>26, <1>27, <1>28, <1>29,
           <1>30, <1>31, <1>32, <1>33, <1>34, <1>35 DEF Next, EventTask,
           TimerTask, RssiMonitor, Main, Portal, TestTask, Lifecycle, Driver,
           World

\* ... and the records.
LEMMA RecordStep ==
  ASSUME TypeOK, QueuedIsUp, Next
  PROVE  Records'
<1> USE Parts DEF Records, Creds
<1>1. CASE wifi_manager_connect
  <2>1. nvs.right \in BOOLEAN
    BY DEF Notes
  <2> QED BY <1>1, <2>1 DEF wifi_manager_connect
<1>2. CASE StartupEnds
  BY <1>2 DEF StartupEnds, memory
<1>3. CASE StaConnected
  <2>1. /\ (IF Up THEN link ELSE "none") \in Bands \cup {"none"}
        /\ (nvs.known \/ Up) \in BOOLEAN
    BY DEF Up
  <2>2. handler' \in Places
    BY <1>3, <2>1, HandlerTypes DEF StaConnected
  <2>3. nvs' \in Notes
    BY <1>3, <2>1, NoteTypes DEF StaConnected
  <2> QED BY <1>3, <2>2, <2>3 DEF StaConnected
<1>4. CASE StaConnectedDone
  BY <1>4, HandlerTypes DEF StaConnectedDone, Notes
<1>5. CASE StaDisconnected
  <2>1. handler' \in Places
    BY <1>5, HandlerTypes DEF StaDisconnected, Flags
  <2> QED BY <1>5, <2>1 DEF StaDisconnected, memory
<1>6. CASE StaDisconnectedDone
  BY <1>6, HandlerTypes DEF StaDisconnectedDone, memory
<1>7. CASE StaGotIp
  BY <1>7 DEF StaGotIp, places, memory
<1>8. CASE StaLostIp
  BY <1>8 DEF StaLostIp, places, memory
<1>9. CASE TimePasses
  BY <1>9 DEF TimePasses, places, memory
<1>10. CASE ReconnectNotNeeded
  BY <1>10 DEF ReconnectNotNeeded, places, memory
<1>11. CASE reconnect_timer_callback
  BY <1>11 DEF reconnect_timer_callback, memory
<1>12. CASE DriverReset
  BY <1>12 DEF DriverReset, memory
<1>13. CASE WatchdogNotNeeded
  BY <1>13 DEF WatchdogNotNeeded, places, memory
<1>14. CASE wifi_watchdog_callback
  BY <1>14, NoteTypes DEF wifi_watchdog_callback
<1>15. CASE WatchdogReboots
  BY <1>15, NoteTypes, HandlerTypes DEF WatchdogReboots, Restart, NoTest
<1>16. CASE WatchdogStarts
  BY <1>16 DEF WatchdogStarts, memory
<1>17. CASE WatchdogConnects
  BY <1>17 DEF WatchdogConnects, memory
<1>18. CASE CooldownAges
  BY <1>18 DEF CooldownAges, places, memory
<1>19. CASE wifi_manager_switch_band
  BY <1>19 DEF wifi_manager_switch_band, places, memory
<1>20. CASE captive_portal_start
  BY <1>20 DEF captive_portal_start, memory
<1>21. CASE captive_portal_stop
  BY <1>21 DEF captive_portal_stop, memory
<1>22. CASE connect_test_task
  BY <1>22 DEF connect_test_task, memory
<1>23. CASE TestConnects
  BY <1>23 DEF TestConnects
<1>24. CASE TestSucceeds
  <2>1. [nvs EXCEPT !.right = test.right] \in Notes
    BY NoteTypes
  <2>2. nvs' \in Notes
    BY <1>24, <2>1, NoteTypes DEF TestSucceeds, Restart
  <2>3. handler' \in Places /\ cred' \in Creds
    <3>1. handler' \in {handler, Idle}
      BY <1>24 DEF TestSucceeds, Restart
    <3>2. \/ cred' = cred
         \/ cred' = [driver |-> FALSE, manager |-> FALSE]
      BY <1>24 DEF TestSucceeds, Restart
    <3>3. handler' \in Places
      BY <3>1, HandlerTypes
    <3>4. \A a, b \in BOOLEAN : [driver |-> a, manager |-> b] \in Creds
      OBVIOUS
    <3>5. cred' \in Creds
      BY <3>2, <3>4
    <3> QED BY <3>3, <3>5
  <2>4. test' = NoTest
    BY <1>24 DEF TestSucceeds, Restart
  <2> QED BY <2>2, <2>3, <2>4 DEF NoTest
<1>25. CASE TestFails
  BY <1>25 DEF TestFails, memory, NoTest
<1>26. CASE LeavePairing
  BY <1>26 DEF LeavePairing, memory
<1>27. CASE wifi_manager_reconnect
  BY <1>27 DEF wifi_manager_reconnect, memory
<1>28. CASE ReconnectReports
  BY <1>28 DEF ReconnectReports, memory
<1>29. CASE ReconnectConnects
  BY <1>29 DEF ReconnectConnects
<1>30. CASE AccessPointChanges
  BY <1>30 DEF AccessPointChanges, Beyond, places, memory
<1>31. CASE JoinSucceeds
  BY <1>31 DEF JoinSucceeds, Beyond, places, memory
<1>32. CASE JoinFails
  BY <1>32 DEF JoinFails, Beyond, places, memory
<1>33. CASE LinkLost
  BY <1>33 DEF LinkLost, Beyond, places, memory
<1>34. CASE LeaseGiven
  BY <1>34 DEF LeaseGiven, Beyond, places, memory
<1>35. CASE LeaseLost
  BY <1>35 DEF LeaseLost, Beyond, places, memory
<1> QED BY <1>1, <1>2, <1>3, <1>4, <1>5, <1>6, <1>7, <1>8, <1>9, <1>10, <1>11,
           <1>12, <1>13, <1>14, <1>15, <1>16, <1>17, <1>18, <1>19, <1>20,
           <1>21, <1>22, <1>23, <1>24, <1>25, <1>26, <1>27, <1>28, <1>29,
           <1>30, <1>31, <1>32, <1>33, <1>34, <1>35 DEF Next, EventTask,
           TimerTask, RssiMonitor, Main, Portal, TestTask, Lifecycle, Driver,
           World

\* So every action keeps the types.
LEMMA TypeStep ==
  ASSUME TypeOK, QueuedIsUp, Next
  PROVE  TypeOK'
BY FlagStep, ValueStep, RecordStep
DEF TypeOK, Flags, Values, Records, Events, Links, Places, Notes, Creds

-------------------------------------------------------------------------------
(***************************************************************************)
(* Safety: each action first says what it does to the queue and the link,  *)
(* the rest follows from that.                                             *)
(***************************************************************************)

\* A restart leaves nothing to follow up.
LEMMA RestartStep ==
  ASSUME NEW n, Restart(n)
  PROVE  Safe'
<1>1. queue' = <<>> /\ ~asked' /\ timer' = "idle" /\ app' = "connect"
      /\ state' = "DISCONNECTED" /\ auto_reconnect' /\ handler'.pc = "idle"
  BY DEF Restart, Idle
<1>2. QueuedIsUp'
  BY <1>1 DEF QueuedIsUp
<1> QED BY <1>1, <1>2 DEF Safe, ResetIsOff, PortalAlone, HandledIsUp, Pursued,
           SaysUp, FoundUp

\* Every action keeps the station followed and its reports true.
LEMMA SafeStep ==
  ASSUME TypeOK, Safe, Next
  PROVE  Safe'
<1> USE DEF Safe, ResetIsOff, PortalAlone, HandledIsUp, Pursued, SaysUp,
            FoundUp, Followed, Off, Up, Bands
<1>0. Flags /\ Values
  BY Parts
<1> USE <1>0 DEF Flags, Values
<1>1. CASE wifi_manager_connect
  <2>1. /\ queue' = queue /\ (Up => Up')
        /\ asked' /\ ~Up' => link' = "joining"
        /\ link = "off" => link' = "off"
        /\ state' # "CONNECTED"
    BY <1>1 DEF wifi_manager_connect, esp_wifi_connect, Joining, Links
  <2>2. QueuedIsUp' /\ (Ending' <=> Ending)
    BY <2>1, QuietStep
  <2> QED BY <1>1, <2>1, <2>2 DEF wifi_manager_connect
<1>2. CASE StartupEnds
  <2>1. queue' = queue /\ (Up => Up')
    BY <1>2 DEF StartupEnds, radio
  <2>2. QueuedIsUp' /\ (Ending' <=> Ending)
    BY <2>1, QuietStep
  <2> QED BY <1>2, <2>1, <2>2 DEF StartupEnds, radio, manager, timers, history
<1>3. CASE StaConnected
  <2>1. Takes("CONNECTED") /\ link' = link
    BY <1>3 DEF StaConnected
  <2>2. /\ QueuedIsUp' /\ (Ending' <=> Ending)
        /\ Up \/ Ending'
    BY <2>1, TakeStep DEF Events
  <2> QED BY <1>3, <2>1, <2>2 DEF StaConnected, manager
<1>4. CASE StaConnectedDone
  <2>1. queue' = queue /\ (Up => Up')
    BY <1>4 DEF StaConnectedDone
  <2>2. QueuedIsUp' /\ (Ending' <=> Ending)
    BY <2>1, QuietStep
  <2> QED BY <1>4, <2>1, <2>2 DEF StaConnectedDone
<1>5. CASE StaDisconnected
  <2>1. Takes("DISCONNECTED") /\ link' = link /\ handler.pc = "idle"
    BY <1>5 DEF StaDisconnected, Takes
  <2>2. QueuedIsUp'
    BY <2>1, TakeStep DEF Events
  <2>3. watchdog' # Off
    BY <1>5 DEF StaDisconnected, Armed
  <2>4. /\ handler'.pc = "disconnected"
        /\ app # "portal" => handler'.auto
    BY <1>5 DEF StaDisconnected
  <2> QED BY <1>5, <2>1, <2>2, <2>3, <2>4 DEF StaDisconnected
<1>6. CASE StaDisconnectedDone
  <2>1. queue' = queue /\ (Up => Up')
    BY <1>6 DEF StaDisconnectedDone
  <2>2. QueuedIsUp' /\ (Ending' <=> Ending)
    BY <2>1, QuietStep
  <2> QED BY <1>6, <2>1, <2>2 DEF StaDisconnectedDone, AfterLoss, Idle
<1>7. CASE StaGotIp
  <2>1. Takes("GOT_IP") /\ link' = link
    BY <1>7 DEF StaGotIp
  <2>2. /\ QueuedIsUp' /\ (Ending' <=> Ending)
        /\ Up \/ Ending'
    BY <2>1, TakeStep DEF Events
  <2> QED BY <1>7, <2>1, <2>2 DEF StaGotIp, places
<1>8. CASE StaLostIp
  <2>1. Takes("LOST_IP") /\ link' = link
    BY <1>8 DEF StaLostIp
  <2>2. QueuedIsUp' /\ (Ending' <=> Ending)
    BY <2>1, TakeStep DEF Events
  <2> QED BY <1>8, <2>1, <2>2 DEF StaLostIp, timers, places, history
<1>9. CASE TimePasses
  <2>1. queue' = queue /\ (Up => Up')
    BY <1>9 DEF TimePasses, radio
  <2>2. QueuedIsUp' /\ (Ending' <=> Ending)
    BY <2>1, QuietStep
  <2> QED BY <1>9, <2>1, <2>2 DEF TimePasses, radio, manager, places
<1>10. CASE ReconnectNotNeeded
  <2>1. queue' = queue /\ (Up => Up')
    BY <1>10 DEF ReconnectNotNeeded, radio
  <2>2. QueuedIsUp' /\ (Ending' <=> Ending)
    BY <2>1, QuietStep
  <2> QED BY <1>10, <2>1, <2>2 DEF ReconnectNotNeeded, places
<1>11. CASE reconnect_timer_callback
  <2> USE DEF reconnect_timer_callback, memory
  <2>1. CASE esp_wifi_connect(TRUE) /\ state' = "RECONNECTING"
                /\ UNCHANGED <<queue, timer>>
    <3>1. queue' = queue /\ (Up' <=> Up) /\ link' = "joining"
      BY <1>11, <2>1 DEF esp_wifi_connect, Joining, Links
    <3>2. QueuedIsUp' /\ (Ending' <=> Ending)
      BY <3>1, QuietStep
    <3> QED BY <1>11, <2>1, <3>1, <3>2
  <2>2. CASE UNCHANGED <<timer, reconnect, link, lease, queue, state>>
    <3>1. QueuedIsUp' /\ (Ending' <=> Ending)
      BY <2>2, QuietStep
    <3> QED BY <1>11, <2>2, <3>1
  <2>3. CASE timer' = "resetting" /\ DropTo("off")
    <3>1. QueuedIsUp' /\ link' = "off" /\ ~Up'
          /\ (link = "joining" \/ Ending => Ending')
      BY <2>3, DropStep
    <3> QED BY <1>11, <2>3, <3>1
  <2> QED BY <1>11, <2>1, <2>2, <2>3
<1>12. CASE DriverReset
  <2>1. queue' = queue /\ (Up => Up')
    BY <1>12 DEF DriverReset
  <2>2. QueuedIsUp' /\ (Ending' <=> Ending)
    BY <2>1, QuietStep
  <2> QED BY <1>12, <2>1, <2>2 DEF DriverReset, manager, history
<1>13. CASE WatchdogNotNeeded
  <2>1. queue' = queue /\ (Up => Up')
    BY <1>13 DEF WatchdogNotNeeded, radio
  <2>2. QueuedIsUp' /\ (Ending' <=> Ending)
    BY <2>1, QuietStep
  <2> QED BY <1>13, <2>1, <2>2 DEF WatchdogNotNeeded, manager, places
<1>14. CASE wifi_watchdog_callback
  BY <1>14, DropStep, QuietStep DEF wifi_watchdog_callback, manager, Fires
<1>15. CASE WatchdogReboots
  BY <1>15, RestartStep DEF WatchdogReboots
<1>16. CASE WatchdogStarts
  <2>1. queue' = queue /\ (Up => Up')
    BY <1>16 DEF WatchdogStarts
  <2>2. QueuedIsUp' /\ (Ending' <=> Ending)
    BY <2>1, QuietStep
  <2> QED BY <1>16, <2>1, <2>2 DEF WatchdogStarts, manager, timers
<1>17. CASE WatchdogConnects
  <2>1. queue' = queue /\ (Up => Up')
    BY <1>17 DEF WatchdogConnects, esp_wifi_connect, Joining
  <2>2. QueuedIsUp' /\ (Ending' <=> Ending)
    BY <2>1, QuietStep
  <2> QED BY <1>17, <2>1, <2>2 DEF WatchdogConnects, esp_wifi_connect, Joining
<1>18. CASE CooldownAges
  <2>1. queue' = queue /\ (Up => Up')
    BY <1>18 DEF CooldownAges, radio
  <2>2. QueuedIsUp' /\ (Ending' <=> Ending)
    BY <2>1, QuietStep
  <2> QED BY <1>18, <2>1, <2>2 DEF CooldownAges, radio, manager, places,
             history
<1>19. CASE wifi_manager_switch_band
  BY <1>19, DropStep, QuietStep DEF wifi_manager_switch_band, manager, places
<1>20. CASE captive_portal_start
  <2>1. queue' = queue /\ (Up => Up')
    BY <1>20 DEF captive_portal_start, radio
  <2>2. QueuedIsUp' /\ (Ending' <=> Ending)
    BY <2>1, QuietStep
  <2> QED BY <1>20, <2>1, <2>2 DEF captive_portal_start, radio, timers, history
<1>21. CASE captive_portal_stop
  <2>1. queue' = queue /\ (Up => Up')
    BY <1>21 DEF captive_portal_stop, radio
  <2>2. QueuedIsUp' /\ (Ending' <=> Ending)
    BY <2>1, QuietStep
  <2> QED BY <1>21, <2>1, <2>2 DEF captive_portal_stop, radio, timers, history
<1>22. CASE connect_test_task
  BY <1>22, DisconnectStep DEF connect_test_task, manager, timers
<1>23. CASE TestConnects
  <2>1. queue' = queue /\ (Up => Up')
    BY <1>23 DEF TestConnects, Joining
  <2>2. QueuedIsUp' /\ (Ending' <=> Ending)
    BY <2>1, QuietStep
  <2> QED BY <1>23, <2>1, <2>2 DEF TestConnects, timers, Joining
<1>24. CASE TestSucceeds
  <2>1. CASE app = "portal"
    <3>1. queue' = queue /\ (Up => Up')
      BY <1>24, <2>1 DEF TestSucceeds, radio
    <3>2. QueuedIsUp' /\ (Ending' <=> Ending)
      BY <3>1, QuietStep
    <3> QED BY <1>24, <2>1, <3>1, <3>2 DEF TestSucceeds, radio, manager, timers
  <2>2. CASE app # "portal"
    BY <1>24, <2>2, RestartStep DEF TestSucceeds
  <2> QED BY <2>1, <2>2
<1>25. CASE TestFails
  BY <1>25, DisconnectStep DEF TestFails, manager, timers, history
<1>26. CASE LeavePairing
  <2>1. queue' = queue /\ (Up => Up')
    BY <1>26 DEF LeavePairing
  <2>2. QueuedIsUp' /\ (Ending' <=> Ending)
    BY <2>1, QuietStep
  <2> QED BY <1>26, <2>1, <2>2 DEF LeavePairing, timers
<1>27. CASE wifi_manager_reconnect
  BY <1>27, DisconnectStep, QuietStep DEF wifi_manager_reconnect, timers,
     history
<1>28. CASE ReconnectReports
  <2>1. queue' = queue /\ (Up => Up')
    BY <1>28 DEF ReconnectReports, radio
  <2>2. QueuedIsUp' /\ (Ending' <=> Ending)
    BY <2>1, QuietStep
  <2> QED BY <1>28, <2>1, <2>2 DEF ReconnectReports, radio, timers, history
<1>29. CASE ReconnectConnects
  <2>1. queue' = queue /\ (Up => Up')
    BY <1>29 DEF ReconnectConnects, esp_wifi_connect, Joining
  <2>2. QueuedIsUp' /\ (Ending' <=> Ending)
    BY <2>1, QuietStep
  <2> QED BY <1>29, <2>1, <2>2 DEF ReconnectConnects, timers, esp_wifi_connect
<1>30. CASE AccessPointChanges
  <2>1. queue' = queue /\ (Up => Up')
    BY <1>30 DEF AccessPointChanges
  <2>2. QueuedIsUp' /\ (Ending' <=> Ending)
    BY <2>1, QuietStep
  <2> QED BY <1>30, <2>1, <2>2 DEF AccessPointChanges, Beyond, manager, timers,
             places
<1>31. CASE JoinSucceeds
  <2>1. queue' = Append(queue, "CONNECTED") /\ Up'
    BY <1>31 DEF JoinSucceeds, Joinable
  <2>2. QueuedIsUp' /\ (Ending => Ending')
    BY <2>1, AppendStep DEF Events
  <2> QED BY <1>31, <2>1, <2>2 DEF JoinSucceeds, Beyond, manager, places
<1>32. CASE JoinFails
  BY <1>32, DropStep DEF JoinFails, Beyond, manager, places
<1>33. CASE LinkLost
  BY <1>33, DropStep DEF LinkLost, Beyond, manager, places
<1>34. CASE LeaseGiven
  <2>1. queue' = Append(queue, "GOT_IP") /\ Up'
    BY <1>34 DEF LeaseGiven
  <2>2. QueuedIsUp' /\ (Ending => Ending')
    BY <2>1, AppendStep DEF Events
  <2> QED BY <1>34, <2>1, <2>2 DEF LeaseGiven, Beyond, manager, places
<1>35. CASE LeaseLost
  <2>1. queue' = Append(queue, "LOST_IP") /\ Up'
    BY <1>35 DEF LeaseLost
  <2>2. QueuedIsUp' /\ (Ending => Ending')
    BY <2>1, AppendStep DEF Events
  <2> QED BY <1>35, <2>1, <2>2 DEF LeaseLost, Beyond, manager, places
<1> QED BY <1>1, <1>2, <1>3, <1>4, <1>5, <1>6, <1>7, <1>8, <1>9, <1>10, <1>11,
           <1>12, <1>13, <1>14, <1>15, <1>16, <1>17, <1>18, <1>19, <1>20,
           <1>21, <1>22, <1>23, <1>24, <1>25, <1>26, <1>27, <1>28, <1>29,
           <1>30, <1>31, <1>32, <1>33, <1>34, <1>35 DEF Next, EventTask,
           TimerTask, RssiMonitor, Main, Portal, TestTask, Lifecycle, Driver,
           World

-------------------------------------------------------------------------------
(***************************************************************************)
(* The theorems.                                                           *)
(***************************************************************************)
\* The invariant holds after start-up ...
LEMMA WifiInit == Init => WifiInv
<1> SUFFICES ASSUME Init PROVE WifiInv
  OBVIOUS
<1>1. queue = <<>> /\ queue \in Seq(Events) /\ link = "idle"
  BY DEF Init
<1>2. Idle \in Places /\ NoTest \in [pc : {"none", "dropped", "waiting"},
                                     right : BOOLEAN]
  BY HandlerTypes DEF NoTest
<1>3. nvs \in Notes
  <2>1. {FALSE} \subseteq BOOLEAN /\ {0} \subseteq Nat
    OBVIOUS
  <2>2. \A M \in SUBSET BOOLEAN, W \in SUBSET Nat :
          [right : BOOLEAN, known : BOOLEAN, magic : M, wifi_reboots : W]
            \subseteq Notes
    BY DEF Notes
  <2> QED BY <2>1, <2>2 DEF Init
<1>4. cred \in Creds
  BY DEF Init, Creds
<1>5. Flags
  BY DEF Init, Flags
<1>6. Values
  BY <1>1, BandModes DEF Init, Values, Links, Off
<1>7. Records
  BY <1>2, <1>3, <1>4 DEF Init, Records
<1>8. Safe
  BY <1>1 DEF Init, Idle, Safe, ResetIsOff, PortalAlone, HandledIsUp,
     QueuedIsUp, Pursued, SaysUp, FoundUp
<1> QED BY <1>5, <1>6, <1>7, <1>8, Parts DEF WifiInv

\* ... every step keeps it ...
LEMMA WifiStep == WifiInv /\ [Next]_vars => WifiInv'
<1> SUFFICES ASSUME WifiInv, [Next]_vars PROVE WifiInv'
  OBVIOUS
<1>1. CASE Next
  BY <1>1, TypeStep, SafeStep DEF WifiInv, Safe
<1>2. CASE UNCHANGED vars
  <2> USE <1>2 DEF vars, radio, manager, timers, places, memory, history
  <2>1. TypeOK'
    BY DEF WifiInv, TypeOK
  <2>2. Safe'
    BY DEF WifiInv, Safe, ResetIsOff, PortalAlone, HandledIsUp, QueuedIsUp,
       Pursued, SaysUp, FoundUp, Followed, Ending, Up
  <2> QED BY <2>1, <2>2 DEF WifiInv
<1> QED BY <1>1, <1>2

\* ... and so it holds for ever.
LEMMA WifiInvariant == Spec => []WifiInv
BY WifiInit, WifiStep, PTL DEF Spec

\* Every variable of the manager, of its timers and of those who drive it keeps
\* its type; the 8-bit counters stay in their range.
THEOREM TypeCorrect == Spec => []TypeOK
<1>1. WifiInv => TypeOK
  BY DEF WifiInv
<1> QED BY <1>1, WifiInvariant, PTL

\* Driven: a station that was asked to connect is never left alone, whatever the
\* order of the driver's events, the callbacks, the portal and the phase change.
THEOREM DrivenOn == Spec => []Driven
<1>1. WifiInv => Driven
  BY DEF WifiInv, Safe, Pursued, Ending, Driven
<1> QED BY <1>1, WifiInvariant, PTL

\* UpIsReal: a state that says CONNECTED of a station that is not connected is
\* about to be set right.
THEOREM StateIsSetRight == Spec => []UpIsReal
<1>1. WifiInv => UpIsReal
  BY DEF WifiInv, Safe, SaysUp, Followed, Ending, UpIsReal
<1> QED BY <1>1, WifiInvariant, PTL
================================================================================
