------------------------------ MODULE WifiManager ------------------------------
(***************************************************************************)
(* The Wi-Fi manager (src/main/wifi/wifi_manager.c) with those who drive   *)
(* it: start-up (main.c), the captive portal and its connection test       *)
(* (wifi_captive_portal.c), the end of the pairing phase                   *)
(* (lifecycle_manager.c) and the count of reboots in RTC memory            *)
(* (crash_reporter.c).                                                     *)
(*                                                                         *)
(* Four tasks and the driver work on one connection: the event task handles*)
(* the driver's events in order; the esp_timer task runs the reconnect, the*)
(* watchdog and the RSSI callbacks one at a time; the main task starts the *)
(* connection, waits and opens the portal; the portal's test task tries the*)
(* credentials a user typed.  A callback or a handler is cut where it      *)
(* sleeps, writes flash or publishes; between two such points nothing that *)
(* it works on can change under it.                                        *)
(*                                                                         *)
(* Delays are abstracted to what has become due: the backoff only says     *)
(* when the reconnect timer expires, which is any time here.  The watchdog *)
(* counts periods of the time it takes (Patience of them).                 *)
(***************************************************************************)
EXTENDS Integers, Sequences

CONSTANTS
  Selection,      \* the Kconfig choice WIFI_BAND_SELECTION
  Threshold,      \* WIFI_RECONNECT_FAIL_THRESHOLD
  MaxStrikes,     \* WIFI_MGR_WATCHDOG_MAX_STRIKES
  ColdStrikes,    \* WIFI_MGR_WATCHDOG_COLD_STRIKES
  MaxReboots,     \* WIFI_MGR_WATCHDOG_MAX_REBOOTS
  CounterSize,    \* consecutive_failures and s_watchdog_strikes are 8-bit: 2^8
  Patience,       \* the watchdog's five minutes, in periods
  MaxQueue,       \* bound: events the driver may have waiting
  MaxFaults       \* bound: what goes wrong or is asked for (see Fault)

Selections == {"BAND_AUTO", "PREFER_5GHZ", "FORCE_5GHZ", "FORCE_2GHZ"}

ASSUME SelectionAssumption == Selection \in Selections
ASSUME LimitAssumption ==
  /\ Threshold \in Nat \ {0} /\ MaxStrikes \in Nat \ {0}
  /\ ColdStrikes \in Nat \ {0} /\ MaxReboots \in Nat
  /\ CounterSize \in Nat \ {0} /\ Patience \in Nat \ {0}
ASSUME BoundsAssumption == MaxQueue \in Nat \ {0} /\ MaxFaults \in Nat

VARIABLES
  aps,            \* bands on which the access point can be heard
  link,           \* the station: "off", "idle", "joining" or its band
  lease,          \* it has an address
  mode,           \* band mode: the bands it may use
  queue,          \* events the driver has posted, not yet handled
  state, ip, connectedBit, auto_reconnect,
  failures,       \* consecutive_failures
  fallback,       \* band_fallback_active
  cooldown,       \* how uptime_seconds stands to last_band_switch_time
  reconnect,      \* the reconnect timer is armed
  watchdog,       \* periods until the watchdog fires; Off when not armed
  strikes, had_connection,
  handler,        \* where the event task is, and what it has read
  timer,          \* where the esp_timer task is
  app,            \* where start-up, the portal or the phase change is
  test,           \* where the portal's connection test is
  nvs,            \* flash: the stored credentials are right, the SSID is known
                  \* good; RTC memory: the note of the reboots
  cred,           \* whether the driver's and the manager's credentials are right
  asked,          \* history: the driver has been asked to connect since the boot
  rebooted,       \* history: reboots the watchdog ordered since a connection
  faults          \* how much of the bound is used

radio   == <<aps, link, lease, mode, queue>>
manager == <<state, ip, connectedBit, auto_reconnect, failures, fallback>>
timers  == <<reconnect, watchdog, strikes, had_connection, cooldown>>
places  == <<handler, timer, app, test>>
memory  == <<nvs, cred>>
history == <<asked, rebooted, faults>>
vars == <<radio, manager, timers, places, memory, history>>

Bands == {"2G", "5G"}
Up    == link \in Bands
Off   == -1

\* preferred_band_mode(), fallback_band_mode(): AUTO is both bands.
preferred_band_mode ==
  CASE Selection = "FORCE_2GHZ" -> {"2G"}
    [] Selection = "BAND_AUTO"  -> Bands
    [] OTHER                    -> {"5G"}
fallback_band_mode ==
  CASE Selection = "FORCE_5GHZ" -> {"5G"}
    [] Selection = "FORCE_2GHZ" -> {"2G"}
    [] OTHER                    -> Bands

Prefer5 == Selection = "PREFER_5GHZ"

TypeOK ==
  /\ aps \in SUBSET Bands
  /\ link \in {"off", "idle", "joining"} \cup Bands
  /\ lease \in BOOLEAN
  /\ mode \in (SUBSET Bands) \ {{}}
  /\ queue \in Seq({"CONNECTED", "GOT_IP", "LOST_IP", "DISCONNECTED"})
  /\ state \in {"DISCONNECTED", "CONNECTING", "CONNECTED", "FAILED",
                "RECONNECTING"}
  /\ ip \in BOOLEAN /\ connectedBit \in BOOLEAN
  /\ auto_reconnect \in BOOLEAN /\ fallback \in BOOLEAN
  /\ failures \in 0 .. CounterSize - 1
  /\ cooldown \in {"first", "ready", "behind", "running", "over"}
  /\ reconnect \in BOOLEAN
  /\ watchdog \in Off .. Patience
  /\ strikes \in 0 .. CounterSize - 1
  /\ had_connection \in BOOLEAN
  /\ handler \in [pc : {"idle", "connected", "disconnected"},
                  band : Bands \cup {"none"}, auto : BOOLEAN]
  /\ timer \in {"idle", "resetting", "stopped", "started", "rebooting"}
  /\ app \in {"connect", "waiting", "portal", "running", "restored", "found",
               "cancelled"}
  /\ test \in [pc : {"none", "dropped", "waiting"}, right : BOOLEAN]
  /\ nvs \in [right : BOOLEAN, known : BOOLEAN, magic : BOOLEAN,
              wifi_reboots : Nat]
  /\ cred \in [driver : BOOLEAN, manager : BOOLEAN]
  /\ asked \in BOOLEAN
  /\ rebooted \in 0 .. MaxReboots + 1
  /\ faults \in 0 .. MaxFaults

\* Something that need not happen: a lost link or lease, a failed call, a change
\* of the access point, a poor signal, a connection test, a phase change.
Fault == faults < MaxFaults /\ faults' = faults + 1

\* A call into the driver that succeeds, or fails for a reason of its own.
Call(ok) == IF ok THEN UNCHANGED faults ELSE Fault

\* esp_wifi_disconnect() and esp_wifi_stop(): a link or an attempt ends in an
\* event.
Drops == IF Up \/ link = "joining" THEN Append(queue, "DISCONNECTED") ELSE queue
DropTo(l) ==
  /\ link' = l
  /\ lease' = FALSE
  /\ queue' = Drops
esp_wifi_disconnect == DropTo(IF link = "off" THEN "off" ELSE "idle")

\* esp_wifi_connect() fails when the driver is stopped; otherwise an idle
\* station begins to join, and one that joins or has joined is left alone.
Joining(l) == IF l = "idle" THEN "joining" ELSE l
esp_wifi_connect(ok) ==
  /\ ok => link # "off"
  /\ link' = IF ok THEN Joining(link) ELSE link
  /\ IF link = "off" THEN UNCHANGED faults ELSE Call(ok)

\* consecutive_failures and s_watchdog_strikes are 8-bit counters.
\* Mutation: they do not wrap.
Counted_unwrapped(n) == n + 1
Counted(n) == (n + 1) % CounterSize
-------------------------------------------------------------------------------
(***************************************************************************)
(* Start-up: crash_reporter_init(), wifi_manager_init() and main's call of *)
(* wifi_manager_connect() with the stored credentials.                     *)
(***************************************************************************)

Idle == [pc |-> "idle", band |-> "none", auto |-> FALSE]
NoTest == [pc |-> "none", right |-> FALSE]

\* consume_wdt_breadcrumb() clears the mark that makes the note valid.
Consumed(n) == [n EXCEPT !.magic = FALSE]

Init ==
  /\ link = "idle" /\ lease = FALSE
  /\ mode = fallback_band_mode
  /\ queue = <<>>
  /\ state = "DISCONNECTED"
  /\ ip = FALSE /\ connectedBit = FALSE
  /\ auto_reconnect = TRUE
  /\ failures = 0 /\ fallback = FALSE
  /\ cooldown = "first"
  /\ reconnect = FALSE /\ watchdog = Off
  /\ strikes = 0 /\ had_connection = FALSE
  /\ handler = Idle /\ timer = "idle"
  /\ app = "connect" /\ test = NoTest
  /\ cred = [driver |-> FALSE, manager |-> FALSE]
  /\ asked = FALSE
  /\ aps \in SUBSET Bands
  /\ nvs \in [right : BOOLEAN, known : BOOLEAN, magic : {FALSE},
              wifi_reboots : {0}]
  /\ rebooted = 0
  /\ faults = 0

\* A restart ends as Init does, with what flash and RTC memory hold.
Restart(kept) ==
  /\ link' = "idle" /\ lease' = FALSE
  /\ mode' = fallback_band_mode
  /\ queue' = <<>>
  /\ state' = "DISCONNECTED"
  /\ ip' = FALSE /\ connectedBit' = FALSE
  /\ auto_reconnect' = TRUE
  /\ failures' = 0 /\ fallback' = FALSE
  /\ cooldown' = "first"
  /\ reconnect' = FALSE /\ watchdog' = Off
  /\ strikes' = 0 /\ had_connection' = FALSE
  /\ handler' = Idle /\ timer' = "idle"
  /\ app' = "connect" /\ test' = NoTest
  /\ cred' = [driver |-> FALSE, manager |-> FALSE]
  /\ asked' = FALSE
  /\ nvs' = Consumed(kept)
  /\ UNCHANGED aps

wifi_manager_connect ==
  \E ok \in BOOLEAN :
  /\ app = "connect"
  /\ app' = "waiting"
  /\ auto_reconnect' = TRUE
  /\ cred' = [driver |-> nvs.right, manager |-> nvs.right]
  /\ esp_wifi_connect(ok)
  /\ state' = IF ok THEN "CONNECTING" ELSE "FAILED"
  /\ asked' = ok
  /\ UNCHANGED <<aps, lease, mode, queue, ip, connectedBit, failures, fallback,
                 timers, handler, timer, test, nvs, rebooted>>

\* main waits for the connection; when it does not come, the portal opens unless
\* the SSID has been connected to before.
StartupEnds ==
  /\ app = "waiting"
  /\ connectedBit \/ nvs.known
  /\ app' = "running"
  /\ UNCHANGED <<radio, manager, timers, handler, timer, test, memory, history>>
-------------------------------------------------------------------------------
(***************************************************************************)
(* The event task: wifi_event_handler() and ip_event_handler().            *)
(***************************************************************************)

Takes(e) ==
  /\ handler.pc = "idle"
  /\ queue # <<>> /\ Head(queue) = e
  /\ queue' = Tail(queue)

\* STA_CONNECTED reads the band and records the SSID in flash ...
StaConnected ==
  /\ Takes("CONNECTED")
  /\ handler' = [Idle EXCEPT !.pc = "connected",
                             !.band = IF Up THEN link ELSE "none"]
  /\ nvs' = [nvs EXCEPT !.known = @ \/ Up]
  /\ UNCHANGED <<aps, link, lease, mode, manager, timers, timer, app, test, cred,
                 history>>

\* ... then stops the watchdog and resets what counts failures.
StaConnectedDone ==
  /\ handler.pc = "connected"
  /\ handler' = Idle
  /\ watchdog' = Off
  /\ strikes' = 0
  /\ had_connection' = TRUE
  /\ nvs' = IF nvs.magic THEN [nvs EXCEPT !.wifi_reboots = 0] ELSE nvs
  /\ failures' = 0
  /\ fallback' = (fallback /\ handler.band # "5G")
  /\ mode' = IF Prefer5 /\ handler.band = "5G" THEN preferred_band_mode ELSE mode
  /\ rebooted' = 0
  /\ UNCHANGED <<aps, link, lease, queue, state, ip, connectedBit,
                 auto_reconnect, reconnect, cooldown, timer, app, test, cred,
                 asked, faults>>

\* Mutations: the watchdog is armed only where a reconnect will be tried; it is
\* armed again with each failed attempt, as the code did once.
Armed_when_auto ==
  IF watchdog = Off /\ auto_reconnect THEN Patience ELSE watchdog
Armed_anew == Patience
Armed == IF watchdog = Off THEN Patience ELSE watchdog

\* STA_DISCONNECTED copies auto_reconnect and arms the watchdog, unless it runs
\* already, and publishes ...
StaDisconnected ==
  /\ Takes("DISCONNECTED")
  /\ handler' = [Idle EXCEPT !.pc = "disconnected", !.auto = auto_reconnect]
  /\ ip' = FALSE
  /\ connectedBit' = FALSE
  /\ watchdog' = Armed
  /\ UNCHANGED <<aps, link, lease, mode, state, auto_reconnect, failures,
                 fallback, reconnect, strikes, had_connection, cooldown, timer,
                 app, test, memory, history>>

\* Mutation: without a reconnect the state is left as it is.
AfterLoss_when_auto == IF handler.auto THEN "RECONNECTING" ELSE state
AfterLoss == IF handler.auto THEN "RECONNECTING" ELSE "DISCONNECTED"

\* ... then counts the failure, falls back to both bands and schedules the next
\* attempt by the copy.
StaDisconnectedDone ==
  \E ok \in BOOLEAN :
  /\ handler.pc = "disconnected"
  /\ handler' = Idle
  /\ failures' = Counted(failures)
  /\ IF Prefer5 /\ failures' >= Threshold /\ ~fallback
       THEN /\ Call(ok)
            /\ fallback' = ok
            /\ mode' = IF ok THEN fallback_band_mode ELSE mode
       ELSE ok /\ UNCHANGED <<fallback, mode, faults>>
  /\ state' = AfterLoss
  /\ reconnect' = (reconnect \/ handler.auto)
  /\ UNCHANGED <<aps, link, lease, queue, ip, connectedBit, auto_reconnect,
                 watchdog, strikes, had_connection, cooldown, timer, app, test,
                 memory, asked, rebooted>>

\* The uptime starts again at 0, so that a last_band_switch_time that is not 0
\* lies ahead of it.
StaGotIp ==
  /\ Takes("GOT_IP")
  /\ ip' = TRUE
  /\ connectedBit' = TRUE
  /\ state' = "CONNECTED"
  /\ cooldown' = IF cooldown \in {"first", "ready"} THEN "first" ELSE "behind"
  /\ UNCHANGED <<aps, link, lease, mode, auto_reconnect, failures, fallback,
                 reconnect, watchdog, strikes, had_connection, places, memory,
                 history>>

StaLostIp ==
  /\ Takes("LOST_IP")
  /\ ip' = FALSE
  /\ UNCHANGED <<aps, link, lease, mode, state, connectedBit, auto_reconnect,
                 failures, fallback, timers, places, memory, history>>
-------------------------------------------------------------------------------
(***************************************************************************)
(* The esp_timer task.                                                     *)
(***************************************************************************)

TimePasses ==
  /\ watchdog > 0
  /\ watchdog' = watchdog - 1
  /\ UNCHANGED <<radio, manager, reconnect, strikes, had_connection, cooldown,
                 places, memory, history>>

\* reconnect_timer_callback() on a station that is connected already.
ReconnectNotNeeded ==
  /\ timer = "idle" /\ reconnect /\ Up
  /\ reconnect' = FALSE
  /\ failures' = 0
  /\ fallback' = FALSE
  /\ UNCHANGED <<radio, state, ip, connectedBit, auto_reconnect, watchdog,
                 strikes, had_connection, cooldown, places, memory, history>>

\* On any other: fall back when there have been enough failures, then connect.
reconnect_timer_callback ==
  /\ timer = "idle" /\ reconnect /\ ~Up
  /\ LET falls == Prefer5 /\ failures >= Threshold /\ ~fallback
     IN  /\ fallback' = (fallback \/ falls)
         /\ mode' = IF falls THEN fallback_band_mode ELSE mode
  /\ \/ /\ esp_wifi_connect(TRUE)
        /\ state' = "RECONNECTING"
        /\ reconnect' = FALSE
        /\ UNCHANGED <<lease, queue, failures, timer>>
     \/ /\ Fault
        /\ failures' = Counted(failures)
        /\ IF failures' >= 2 * Threshold
             THEN timer' = "resetting" /\ reconnect' = FALSE /\ DropTo("off")
             ELSE UNCHANGED <<timer, reconnect, link, lease, queue>>
        /\ UNCHANGED state
  /\ UNCHANGED <<aps, ip, connectedBit, auto_reconnect, watchdog, strikes,
                 had_connection, cooldown, handler, app, test, memory, asked,
                 rebooted>>

\* Half a second later the driver is started again, and the timer with it.
DriverReset ==
  /\ timer = "resetting"
  /\ timer' = "idle"
  /\ link' = "idle"
  /\ reconnect' = TRUE
  /\ UNCHANGED <<aps, lease, mode, queue, manager, watchdog, strikes,
                 had_connection, cooldown, handler, app, test, memory, history>>

Fires == timer = "idle" /\ watchdog = 0 /\ Len(queue) < MaxQueue

WatchdogNotNeeded ==
  /\ Fires /\ Up
  /\ watchdog' = Off
  /\ strikes' = 0
  /\ UNCHANGED <<radio, manager, reconnect, had_connection, cooldown, places,
                 memory, history>>

\* crash_reporter_wifi_reboot_count(), crash_reporter_note_wifi_reboot()
RebootCount == IF nvs.magic THEN nvs.wifi_reboots ELSE 0
Noted == [nvs EXCEPT !.magic = TRUE, !.wifi_reboots = RebootCount + 1]
RebootAfter == IF had_connection THEN MaxStrikes ELSE ColdStrikes

wifi_watchdog_callback ==
  /\ Fires /\ ~Up
  /\ watchdog' = Off
  /\ strikes' = Counted(strikes)
  /\ IF RebootCount < MaxReboots /\ strikes' >= RebootAfter
       THEN /\ timer' = "rebooting"
            /\ nvs' = Noted
            /\ rebooted' = rebooted + (IF rebooted <= MaxReboots THEN 1 ELSE 0)
            /\ UNCHANGED <<link, lease, queue>>
       ELSE timer' = "stopped" /\ DropTo("off") /\ UNCHANGED <<nvs, rebooted>>
  /\ UNCHANGED <<aps, mode, manager, reconnect, had_connection, cooldown,
                 handler, app, test, cred, asked, faults>>

WatchdogReboots ==
  /\ timer = "rebooting"
  /\ Restart(nvs)
  /\ UNCHANGED <<rebooted, faults>>

WatchdogStarts ==
  /\ timer = "stopped"
  /\ timer' = "started"
  /\ link' = "idle"
  /\ UNCHANGED <<aps, lease, mode, queue, manager, timers, handler, app, test,
                 memory, history>>

WatchdogConnects ==
  \E ok \in BOOLEAN :
  /\ timer = "started"
  /\ timer' = "idle"
  /\ esp_wifi_connect(ok)
  /\ state' = IF ok THEN "RECONNECTING" ELSE state
  /\ failures' = 0
  /\ fallback' = FALSE
  /\ auto_reconnect' = TRUE
  /\ watchdog' = Patience
  /\ UNCHANGED <<aps, lease, mode, queue, ip, connectedBit, reconnect, strikes,
                 had_connection, cooldown, handler, app, test, memory, asked,
                 rebooted>>

\* uptime_timer_callback(): every ten seconds of a connection the signal is read
\* and the cooldown may have run on.
Aged == [first |-> "ready", behind |-> "running", running |-> "over"]

Monitored == timer = "idle" /\ connectedBit /\ state = "CONNECTED"

CooldownAges ==
  /\ Monitored
  /\ cooldown \in DOMAIN Aged
  /\ cooldown' = Aged[cooldown]
  /\ UNCHANGED <<radio, manager, reconnect, watchdog, strikes, had_connection,
                 places, memory, history>>

\* wifi_manager_check_band_switch(): the last of the poor readings in a row,
\* outside the cooldown, which a difference that wraps is.
MaySwitch == cooldown \in {"ready", "behind", "over"}
Other == CHOOSE b \in Bands : b # link

wifi_manager_switch_band ==
  /\ Monitored /\ Up
  /\ MaySwitch
  /\ \/ /\ DropTo("joining")
        /\ mode' = {Other}
        /\ cooldown' = "running"
        /\ UNCHANGED faults
     \/ /\ DropTo("idle")
        /\ mode' = Bands
        /\ cooldown' = "running"
        /\ Fault
     \/ /\ mode' = Bands
        /\ Fault
        /\ UNCHANGED <<link, lease, queue, cooldown>>
  /\ UNCHANGED <<aps, manager, reconnect, watchdog, strikes, had_connection,
                 places, memory, asked, rebooted>>
-------------------------------------------------------------------------------
(***************************************************************************)
(* The captive portal, and the test of the credentials typed into it.      *)
(***************************************************************************)

captive_portal_start ==
  /\ app = "waiting"
  /\ ~connectedBit /\ ~nvs.known
  /\ app' = "portal"
  /\ auto_reconnect' = FALSE
  /\ UNCHANGED <<radio, state, ip, connectedBit, failures, fallback, timers,
                 handler, timer, test, memory, history>>

\* By success, by its own timeout or by a failed start.
captive_portal_stop ==
  /\ app = "portal"
  /\ app' = "running"
  /\ auto_reconnect' = TRUE
  /\ UNCHANGED <<radio, state, ip, connectedBit, failures, fallback, timers,
                 handler, timer, test, memory, history>>

connect_test_task ==
  /\ app = "portal" /\ test = NoTest
  /\ Fault
  /\ test' \in [pc : {"dropped"}, right : BOOLEAN]
  /\ esp_wifi_disconnect
  /\ UNCHANGED <<aps, mode, manager, timers, handler, timer, app, memory, asked,
                 rebooted>>

\* A station that joins refuses the credentials, which the task does not notice.
TestConnects ==
  /\ test.pc = "dropped"
  /\ test' = [test EXCEPT !.pc = "waiting"]
  /\ connectedBit' = FALSE
  /\ cred' = IF link = "joining" THEN cred ELSE [cred EXCEPT !.driver = test.right]
  /\ link' = Joining(link)
  /\ UNCHANGED <<aps, lease, mode, queue, state, ip, auto_reconnect, failures,
                 fallback, timers, handler, timer, app, nvs, asked, rebooted,
                 faults>>

\* A success saves what was typed and is signalled through an event group that
\* captive_portal_stop() deletes: when it is gone, the task runs into an
\* assertion.
TestSucceeds ==
  /\ test.pc = "waiting" /\ connectedBit
  /\ LET saved == [nvs EXCEPT !.right = test.right]
     IN  IF app = "portal"
           THEN /\ test' = NoTest
                /\ nvs' = saved
                /\ UNCHANGED <<radio, manager, timers, handler, timer, app, cred,
                               asked>>
           ELSE Restart(saved)
  /\ UNCHANGED <<rebooted, faults>>

TestFails ==
  /\ test.pc = "waiting" /\ ~connectedBit
  /\ test' = NoTest
  /\ esp_wifi_disconnect
  /\ UNCHANGED <<aps, mode, manager, timers, handler, timer, app, memory, history>>
-------------------------------------------------------------------------------
(***************************************************************************)
(* The end of the pairing phase: lifecycle_set_phase() and                 *)
(* wifi_manager_reconnect().                                               *)
(***************************************************************************)

LeavePairing ==
  /\ app = "running"
  /\ Fault
  /\ auto_reconnect' = TRUE
  /\ mode' = IF Prefer5 THEN Bands ELSE mode
  /\ IF state = "CONNECTED"
       THEN UNCHANGED <<app, failures, fallback>>
       ELSE app' = "restored" /\ failures' = 0 /\ fallback' = FALSE
  /\ UNCHANGED <<aps, link, lease, queue, state, ip, connectedBit, timers,
                 handler, timer, test, memory, asked, rebooted>>

\* The station is asked whether it is connected; one that is not gives up its
\* attempt.
wifi_manager_reconnect ==
  /\ app = "restored"
  /\ \/ /\ Up
        /\ app' = "found"
        /\ UNCHANGED <<link, lease, queue, auto_reconnect, failures>>
     \/ /\ ~Up
        /\ app' = "cancelled"
        /\ failures' = 0
        /\ auto_reconnect' = TRUE
        /\ esp_wifi_disconnect
  /\ UNCHANGED <<aps, mode, state, ip, connectedBit, fallback, timers, handler,
                 timer, test, memory, history>>

\* The answer is reported, though the event task may have handled the end of
\* that connection since.
ReconnectReports ==
  /\ app = "found"
  /\ app' = "running"
  /\ state' = "CONNECTED"
  /\ UNCHANGED <<radio, ip, connectedBit, auto_reconnect, failures, fallback,
                 timers, handler, timer, test, memory, history>>

\* 50 ms later the credentials are set again, which a station that joins refuses,
\* and the connection is started.
ReconnectConnects ==
  /\ app = "cancelled"
  /\ app' = "running"
  /\ IF link = "joining"
       THEN UNCHANGED <<link, state, cred, faults>>
       ELSE /\ cred' = [cred EXCEPT !.driver = cred.manager]
            /\ state' = "RECONNECTING"
            /\ \E ok \in BOOLEAN : esp_wifi_connect(ok)
  /\ UNCHANGED <<aps, lease, mode, queue, ip, connectedBit, auto_reconnect,
                 failures, fallback, timers, handler, timer, test, nvs, asked,
                 rebooted>>
-------------------------------------------------------------------------------
(***************************************************************************)
(* The driver and the access point.                                        *)
(***************************************************************************)

Room == Len(queue) < MaxQueue
Beyond == <<manager, timers, places, memory, asked, rebooted>>

AccessPointChanges ==
  /\ Fault
  /\ aps' \in (SUBSET Bands) \ {aps}
  /\ UNCHANGED <<link, lease, mode, queue, Beyond>>

Joinable == IF cred.driver THEN aps \cap mode ELSE {}

JoinSucceeds ==
  /\ link = "joining" /\ Room
  /\ link' \in Joinable
  /\ queue' = Append(queue, "CONNECTED")
  /\ UNCHANGED <<aps, lease, mode, faults, Beyond>>

JoinFails ==
  /\ link = "joining" /\ Room
  /\ Call(Joinable = {})
  /\ DropTo("idle")
  /\ UNCHANGED <<aps, mode, Beyond>>

LinkLost ==
  /\ Up /\ Room
  /\ IF link \in aps THEN Fault ELSE UNCHANGED faults
  /\ DropTo("idle")
  /\ UNCHANGED <<aps, mode, Beyond>>

LeaseGiven ==
  /\ Up /\ ~lease /\ Room
  /\ lease' = TRUE
  /\ queue' = Append(queue, "GOT_IP")
  /\ UNCHANGED <<aps, link, mode, faults, Beyond>>

LeaseLost ==
  /\ Up /\ lease /\ Room
  /\ Fault
  /\ lease' = FALSE
  /\ queue' = Append(queue, "LOST_IP")
  /\ UNCHANGED <<aps, link, mode, Beyond>>
-------------------------------------------------------------------------------
EventTask ==
  \/ StaConnected \/ StaConnectedDone \/ StaDisconnected \/ StaDisconnectedDone
  \/ StaGotIp \/ StaLostIp

TimerTask ==
  \/ ReconnectNotNeeded \/ reconnect_timer_callback \/ DriverReset
  \/ WatchdogNotNeeded \/ wifi_watchdog_callback
  \/ WatchdogReboots \/ WatchdogStarts \/ WatchdogConnects

RssiMonitor == CooldownAges \/ wifi_manager_switch_band

Portal == captive_portal_start \/ captive_portal_stop
TestTask == TestConnects \/ TestSucceeds \/ TestFails
Main == wifi_manager_connect \/ StartupEnds \/ Portal
Lifecycle ==
  \/ wifi_manager_reconnect \/ ReconnectReports \/ ReconnectConnects

Driver == JoinSucceeds \/ JoinFails \/ LinkLost \/ LeaseGiven
World  == AccessPointChanges \/ LeaseLost \/ connect_test_task \/ LeavePairing

Next ==
  \/ EventTask \/ TimerTask \/ TimePasses \/ RssiMonitor \/ Main \/ TestTask
  \/ Lifecycle \/ Driver \/ World

Spec == Init /\ [][Next]_vars

\* Every task runs on; the driver ends an attempt, loses a link whose access
\* point is gone and asks for an address until it has one.
FairSpec ==
  /\ Spec
  /\ WF_vars(EventTask)
  /\ WF_vars(ReconnectNotNeeded \/ reconnect_timer_callback)
  /\ SF_vars(WatchdogNotNeeded \/ wifi_watchdog_callback)
  /\ WF_vars(DriverReset \/ WatchdogReboots \/ WatchdogStarts \/ WatchdogConnects)
  /\ WF_vars(TimePasses)
  /\ WF_vars(Main) /\ WF_vars(TestTask) /\ WF_vars(Lifecycle)
  /\ WF_vars(JoinSucceeds) /\ WF_vars(JoinFails)
  /\ WF_vars(LinkLost) /\ WF_vars(LeaseGiven)
-------------------------------------------------------------------------------
\* A station that has been asked to connect and is not connected is never left
\* alone: it is joining, or the end of an attempt is still to be handled, or the
\* watchdog is armed or at work -- whatever the order of the driver's events, of
\* wifi_event_handler(), of the two timer callbacks, of the portal and of the
\* phase change, and though auto_reconnect may be off.
Driven ==
  asked /\ ~Up =>
    \/ link = "joining"
    \/ \E i \in DOMAIN queue : queue[i] = "DISCONNECTED"
    \/ watchdog # Off
    \/ timer \in {"stopped", "started", "rebooting"}

\* A state that says CONNECTED of a station that is not connected does not stay:
\* an attempt or an event is under way, a timer is armed or a callback at work
\* that will set it right.  (It does occur: wifi_manager_reconnect() reports what
\* it read before the event task handled the disconnection.)
UpIsReal ==
  state = "CONNECTED" /\ ~Up =>
    \/ link = "joining"
    \/ \E i \in DOMAIN queue : queue[i] = "DISCONNECTED"
    \/ handler.pc = "disconnected"
    \/ reconnect
    \/ timer # "idle"

\* "Reboots the watchdog may order before it gives up on rebooting"
\* (wifi_manager.h:63): no more than that many without a connection in between.
RebootsBounded == rebooted <= MaxReboots

\* When the access point stays in reach and the stored credentials are right,
\* the station connects and has an address again and again, whatever went wrong
\* before: fallback, watchdog, driver restart or reboot get it there in the end.
Recovers == <>[](aps # {} /\ asked /\ nvs.right) => []<>(Up /\ lease)
===============================================================================
