------------------------------ MODULE Availability ------------------------------
(***************************************************************************)
(* The availability tracker (src/main/zigbee/zb_availability.c): mains     *)
(* powered devices are pinged, pings without an answer and deliveries that *)
(* fail are counted, and a device with MAX_FAILURES of them in a row is    *)
(* offline until a frame of it arrives.                                    *)
(*                                                                         *)
(* The data lies in the device records and no mutex guards it.  Four tasks *)
(* work on it: the tracker's own, once a second; the Zigbee task, with     *)
(* frames, failed deliveries, joins and leaves; the bridge's request task, *)
(* with manual checks; and the task that ends an interview.  Each reads    *)
(* and writes a record in one go here; set_device_state(), which publishes *)
(* and so may let any other task run, is taken apart.                      *)
(*                                                                         *)
(* Time is what has become due: nextDue when next_check has passed, and    *)
(* expired when a ping is older than ZB_AVAIL_PING_TIMEOUT_MS.  Both are   *)
(* measured with the wall clock, which SNTP may set at any moment.         *)
(***************************************************************************)
EXTENDS NetworkDevices, Integers, FiniteSets

CONSTANTS
  Mains,          \* those whose power descriptor says mains
  MaxFailures,    \* ZB_AVAIL_MAX_FAILURES
  MaxBackoff,     \* ZB_AVAIL_MAX_BACKOFF
  CounterSize,    \* consecutive_failures is an 8-bit counter: 2^8
  MaxEvents       \* bound: frames, failed deliveries, manual checks, failed
                  \* interviews, answers, leaves, stops, failed pings and
                  \* refused publications

ASSUME DeviceAssumption == Mains \subseteq Devices
ASSUME LimitAssumption ==
  /\ MaxFailures \in Nat \ {0}
  /\ CounterSize \in Nat /\ MaxFailures < CounterSize
  /\ MaxBackoff \in {1, 2, 4, 8}
ASSUME BoundsAssumption == MaxEvents \in Nat

VARIABLES
  known,          \* devices in the registry
  meta,           \* avail_meta of each device
  avail,          \* its availability
  told,           \* history: the availability last published of it
  job,            \* per task, how far its set_device_state() has come
  phase, todo,    \* the tracker's task: where it is, and the addresses it has
                  \* collected there
  bad,            \* history: failures of a device counted since its last frame
  forced,         \* history: devices set offline by a failed interview
  raced,          \* history: devices a task worked on while another one was in
                  \* the middle of a set_device_state() of theirs
  crossed,        \* history: devices of which two set_device_state() overlapped
  unheard,        \* history: devices whose last set_device_state() did not come
                  \* to publish: refused, or cut off by the stop
  answered,       \* history: devices that answered the last ping sent to them
  events          \* how much of the bound is used

tracker == <<phase, todo>>
history == <<bad, forced, raced, crossed, unheard, answered>>
vars == <<known, meta, avail, told, job, tracker, history, events>>

Tasks == {"tracker", "zigbee", "bridge", "interview"}

Untracked == [power |-> "mains", failures |-> 0, backoff |-> 0,
              pending |-> FALSE, expired |-> FALSE, nextDue |-> FALSE]
Idle      == [pc |-> "idle", dev |-> None, new |-> "unknown"]

Power(d)   == IF d \in Mains THEN "mains" ELSE "battery"
Tracked(d) == meta[d].backoff # 0

TypeOK ==
  /\ known \subseteq Devices
  /\ meta \in [Devices -> [power : {"mains", "battery", "unknown"},
                           failures : 0 .. CounterSize - 1,
                           backoff : {0, 1, 2, 4, 8} \cap 0 .. MaxBackoff,
                           pending : BOOLEAN, expired : BOOLEAN,
                           nextDue : BOOLEAN]]
  /\ avail \in [Devices -> {"unknown", "online", "offline"}]
  /\ told \in [Devices -> {"unknown", "online", "offline"}]
  /\ job \in [Tasks -> [pc : {"idle", "decided", "registry", "publish"},
                        dev : Devices \cup {None},
                        new : {"unknown", "online", "offline"}]]
  /\ phase \in {"sleep", "timeouts", "checks", "stopped"}
  /\ todo \subseteq Devices
  /\ bad \in [Devices -> 0 .. MaxFailures]
  /\ forced \subseteq Devices
  /\ raced \subseteq Devices
  /\ crossed \subseteq Devices
  /\ unheard \subseteq Devices
  /\ answered \subseteq Devices
  /\ events \in 0 .. MaxEvents

-------------------------------------------------------------------------------
Event == events < MaxEvents /\ events' = events + 1

\* A task is in the middle of a set_device_state() of a device.
Works(t, d) == job[t].dev = d

Meets(t, d) == \E u \in Tasks \ {t} : Works(u, d)

Touch(t, d) ==
  /\ raced' = IF Meets(t, d) THEN raced \cup {d} ELSE raced
  /\ crossed' = IF Meets(t, d) /\ job'[t].dev = d THEN crossed \cup {d}
                ELSE crossed

Free(t) == job[t].pc = "idle"

Decide(t, d, new) ==
  job' = [job EXCEPT ![t] = [pc |-> "decided", dev |-> d, new |-> new]]

\* calculate_next_check() moves next_check into the future.
Rescheduled(m) == [m EXCEPT !.nextDue = FALSE]

\* A failure is counted; MAX_FAILURES of them in a row make a device offline.
Count(n) == (n + 1) % CounterSize

\* Mutation: a device is offline one failure too early.
Enough_early(n) ==
  n >= MaxFailures - 1

Enough(n) == n >= MaxFailures

JudgeFailure(t, d) ==
  IF Enough(meta'[d].failures) /\ avail[d] # "offline"
  THEN Decide(t, d, "offline")
  ELSE UNCHANGED job

Counted(d) == bad' = [bad EXCEPT ![d] = IF @ < MaxFailures THEN @ + 1 ELSE @]

Heard(d) == /\ bad' = [bad EXCEPT ![d] = 0]
            /\ forced' = forced \ {d}

-------------------------------------------------------------------------------
(***************************************************************************)
(* set_device_state(): the record, the registry (which sets the record a   *)
(* second time) and the event, in this order.                              *)
(***************************************************************************)
WriteRecord(t) ==
  LET d == job[t].dev IN
  /\ job[t].pc = "decided"
  /\ IF avail[d] = job[t].new
     THEN job' = [job EXCEPT ![t] = Idle] /\ UNCHANGED avail
     ELSE /\ job' = [job EXCEPT ![t].pc = "registry"]
          /\ avail' = [avail EXCEPT ![d] = job[t].new]
  /\ Touch(t, d)
  /\ UNCHANGED <<known, meta, told, tracker, bad, forced, unheard, answered, events>>

\* Mutation: the registry is told that the device is online, whatever it is.
device_registry_set_online_always(t) ==
  /\ job[t].pc = "registry"
  /\ job' = [job EXCEPT ![t].pc = "publish"]
  /\ avail' = [avail EXCEPT ![job[t].dev] = "online"]
  /\ Touch(t, job[t].dev)
  /\ UNCHANGED <<known, meta, told, tracker, bad, forced, unheard, answered, events>>

device_registry_set_online(t) ==
  LET d == job[t].dev IN
  /\ job[t].pc = "registry"
  /\ job' = [job EXCEPT ![t].pc = "publish"]
  /\ avail' = [avail EXCEPT ![d] =
                 IF d \notin known THEN @
                 ELSE IF job[t].new = "online" THEN "online" ELSE "offline"]
  /\ Touch(t, d)
  /\ UNCHANGED <<known, meta, told, tracker, bad, forced, unheard, answered, events>>

\* Mutation: an event is published only for a device that comes online.
Publish_online_only(t) ==
  LET d == job[t].dev IN
  /\ job[t].pc = "publish"
  /\ job' = [job EXCEPT ![t] = Idle]
  /\ \/ /\ told' = [told EXCEPT ![d] = IF job[t].new = "online" THEN "online"
                                      ELSE @]
        /\ unheard' = unheard \ {d}
        /\ UNCHANGED events
     \/ Event /\ unheard' = unheard \cup {d} /\ UNCHANGED told
  /\ Touch(t, d)
  /\ UNCHANGED <<known, meta, avail, tracker, bad, forced, answered>>

\* The queue of the events may refuse it: that is not even logged, and nobody
\* tries again.
Publish(t) ==
  LET d == job[t].dev IN
  /\ job[t].pc = "publish"
  /\ job' = [job EXCEPT ![t] = Idle]
  /\ \/ /\ told' = [told EXCEPT ![d] = job[t].new]
        /\ unheard' = unheard \ {d}
        /\ UNCHANGED events
     \/ Event /\ unheard' = unheard \cup {d} /\ UNCHANGED told
  /\ Touch(t, d)
  /\ UNCHANGED <<known, meta, avail, tracker, bad, forced, answered>>

-------------------------------------------------------------------------------
(***************************************************************************)
(* zb_availability_add_device(): a device that is tracked already gets its *)
(* power type and nothing else; a new one starts online.                   *)
(***************************************************************************)
Fresh(power) == [Untracked EXCEPT !.power = power, !.backoff = 1]

AddDevice(d, power) ==
  IF Tracked(d)
  THEN meta' = [meta EXCEPT ![d].power = power] /\ UNCHANGED job
  ELSE meta' = [meta EXCEPT ![d] = Fresh(power)] /\ Decide("zigbee", d, "online")

\* A new device is in the registry before it is tracked.
Join(d) ==
  /\ Free("zigbee")
  /\ d \notin known
  /\ known' = known \cup {d}
  /\ meta' = [meta EXCEPT ![d] = Fresh("unknown")]
  /\ Decide("zigbee", d, "online")
  /\ Heard(d)
  /\ Touch("zigbee", d)
  /\ UNCHANGED <<avail, told, tracker, unheard, answered, events>>

\* The device comes back with another address; its record keeps avail_meta.
Rejoin(d) ==
  /\ Free("zigbee")
  /\ d \in known
  /\ meta[d].power # Power(d)
  /\ AddDevice(d, Power(d))
  /\ Touch("zigbee", d)
  /\ UNCHANGED <<known, avail, told, tracker, bad, forced, unheard, answered, events>>

OnFrame(m) ==
  Rescheduled([m EXCEPT !.failures = 0, !.backoff = 1, !.pending = FALSE,
                        !.expired = FALSE])

update_last_seen(d) ==
  /\ Free("zigbee")
  /\ d \in known
  /\ Event
  /\ IF Tracked(d)
     THEN /\ meta' = [meta EXCEPT ![d] = OnFrame(@)]
          /\ IF avail[d] # "online" THEN Decide("zigbee", d, "online")
             ELSE UNCHANGED job
     ELSE AddDevice(d, "unknown")
  /\ Heard(d)
  /\ Touch("zigbee", d)
  /\ UNCHANGED <<known, avail, told, tracker, unheard, answered>>

report_delivery_failure(d) ==
  /\ Free("zigbee")
  /\ d \in known
  /\ Tracked(d)
  /\ Event
  /\ meta' = [meta EXCEPT ![d].failures = Count(@)]
  /\ JudgeFailure("zigbee", d)
  /\ Counted(d)
  /\ Touch("zigbee", d)
  /\ UNCHANGED <<known, avail, told, tracker, forced, unheard, answered>>

\* A device leaves: its metadata and then its record are cleared.
Leave(d) ==
  /\ Free("zigbee")
  /\ d \in known
  /\ Event
  /\ known' = known \ {d}
  /\ meta' = [meta EXCEPT ![d] = Untracked]
  /\ avail' = [avail EXCEPT ![d] = "unknown"]
  /\ told' = [told EXCEPT ![d] = "unknown"]
  /\ unheard' = unheard \ {d}
  /\ Heard(d)
  /\ UNCHANGED <<job, tracker, answered>>
  /\ Touch("zigbee", d)

\* The answer to a ping goes to the retry table and the interview.
ReadResponse(d) ==
  /\ Free("zigbee")
  /\ d \in known
  /\ meta[d].pending
  /\ Event
  /\ answered' = answered \cup {d}
  /\ UNCHANGED <<known, meta, avail, told, job, tracker, bad, forced, raced,
                 crossed, unheard>>

mark_offline(d) ==
  /\ Free("interview")
  /\ d \in known
  /\ Event
  /\ Decide("interview", d, "offline")
  /\ forced' = forced \cup {d}
  /\ Touch("interview", d)
  /\ UNCHANGED <<known, meta, avail, told, tracker, bad, unheard, answered>>

-------------------------------------------------------------------------------
\* Mutation: the failures of the pings before are forgotten.
check_device_anew(d) ==
  IF d \in known /\ ~meta[d].pending
  THEN \/ /\ meta' = [meta EXCEPT ![d].pending = TRUE, ![d].expired = FALSE,
                                 ![d].failures = 0]
          /\ answered' = answered \ {d}
          /\ UNCHANGED events
       \/ UNCHANGED <<meta, answered>> /\ Event
  ELSE UNCHANGED <<meta, answered, events>>

\* zb_availability_check_device(): a ping that cannot be sent is not pending.
check_device(d) ==
  IF d \in known /\ ~meta[d].pending
  THEN \/ /\ meta' = [meta EXCEPT ![d].pending = TRUE, ![d].expired = FALSE]
          /\ answered' = answered \ {d}
          /\ UNCHANGED events
       \/ UNCHANGED <<meta, answered>> /\ Event
  ELSE UNCHANGED <<meta, answered, events>>

ManualCheck(d) ==
  /\ d \in known
  /\ ~meta[d].pending
  /\ Event
  /\ meta' = [meta EXCEPT ![d].pending = TRUE, ![d].expired = FALSE]
  /\ answered' = answered \ {d}
  /\ UNCHANGED <<known, avail, told, job, tracker, bad, forced, unheard>>
  /\ Touch("bridge", d)

(***************************************************************************)
(* zb_availability_task(): the addresses of expired pings are collected    *)
(* under the registry's mutex and handled after it is released; then those *)
(* of the devices that are to be pinged.                                   *)
(***************************************************************************)
CollectTimeouts ==
  /\ phase = "sleep"
  /\ phase' = "timeouts"
  /\ todo' = {d \in known : Tracked(d) /\ meta[d].pending /\ meta[d].expired}
  /\ UNCHANGED <<known, meta, avail, told, job, history, events>>

\* Mutation: the backoff is not limited.
NextBackoff_unlimited(b) ==
  IF b = 0 THEN 1 ELSE 2 * b

NextBackoff(b) == IF b = 0 THEN 1 ELSE IF b < MaxBackoff THEN 2 * b ELSE b

OnTimeout(m) ==
  Rescheduled([m EXCEPT !.failures = Count(@), !.backoff = NextBackoff(@),
                        !.pending = FALSE, !.expired = FALSE])

handle_timeout(d) ==
  /\ phase = "timeouts"
  /\ Free("tracker")
  /\ d \in todo
  /\ todo' = todo \ {d}
  /\ IF d \in known
     THEN /\ meta' = [meta EXCEPT ![d] = OnTimeout(@)]
          /\ JudgeFailure("tracker", d)
          /\ Counted(d)
     ELSE UNCHANGED <<meta, job, bad>>
  /\ Touch("tracker", d)
  /\ UNCHANGED <<known, avail, told, phase, forced, unheard, answered, events>>

ToCheck ==
  {d \in known : /\ Tracked(d)
                 /\ meta[d].power = "mains"
                 /\ ~meta[d].pending
                 /\ meta[d].nextDue}

CollectChecks ==
  /\ phase = "timeouts"
  /\ Free("tracker")
  /\ todo = {}
  /\ phase' = "checks"
  /\ todo' = ToCheck
  /\ UNCHANGED <<known, meta, avail, told, job, history, events>>

Ping(d) ==
  /\ phase = "checks"
  /\ d \in todo
  /\ todo' = todo \ {d}
  /\ check_device(d)
  /\ UNCHANGED <<known, avail, told, job, phase, bad, forced, raced, crossed, unheard>>

Sleep ==
  /\ phase = "checks"
  /\ todo = {}
  /\ phase' = "sleep"
  /\ UNCHANGED <<known, meta, avail, told, job, todo, history, events>>

\* zb_availability_stop() deletes the task wherever it is.
zb_availability_stop ==
  /\ phase # "stopped"
  /\ Event
  /\ phase' = "stopped"
  /\ todo' = {}
  /\ job' = [job EXCEPT !["tracker"] = Idle]
  /\ raced' = raced \cup ({job["tracker"].dev} \ {None})
  /\ unheard' = unheard \cup ({job["tracker"].dev} \ {None})
  /\ UNCHANGED <<known, meta, avail, told, bad, forced, crossed, answered>>

zb_availability_start ==
  /\ phase = "stopped"
  /\ phase' = "sleep"
  /\ UNCHANGED <<known, meta, avail, told, job, todo, history, events>>

-------------------------------------------------------------------------------
\* next_check is looked at for mains powered devices only.
CheckDue(d) ==
  /\ Tracked(d)
  /\ meta[d].power = "mains"
  /\ ~meta[d].nextDue
  /\ meta' = [meta EXCEPT ![d].nextDue = TRUE]
  /\ UNCHANGED <<known, avail, told, job, tracker, history, events>>

PingExpires(d) ==
  /\ meta[d].pending
  /\ ~meta[d].expired
  /\ meta' = [meta EXCEPT ![d].expired = TRUE]
  /\ UNCHANGED <<known, avail, told, job, tracker, history, events>>

-------------------------------------------------------------------------------
\* The devices restored at boot are tracked and taken to be online.
Init ==
  /\ known = Devices
  /\ meta = [d \in Devices |-> Fresh(Power(d))]
  /\ avail = [d \in Devices |-> "online"]
  /\ told = [d \in Devices |-> "online"]
  /\ job = [t \in Tasks |-> Idle]
  /\ phase = "sleep" /\ todo = {}
  /\ bad = [d \in Devices |-> 0]
  /\ forced = {} /\ raced = {} /\ answered = {}
  /\ crossed = {} /\ unheard = {}
  /\ events = 0

SetState(t) == WriteRecord(t) \/ device_registry_set_online(t) \/ Publish(t)

Zigbee(d) ==
  \/ Join(d) \/ Rejoin(d) \/ Leave(d)
  \/ update_last_seen(d) \/ report_delivery_failure(d) \/ ReadResponse(d)

Loop ==
  \/ CollectTimeouts \/ CollectChecks \/ Sleep
  \/ \E d \in Devices : handle_timeout(d) \/ Ping(d)

Next ==
  \/ \E t \in Tasks : SetState(t)
  \/ \E d \in Devices : Zigbee(d) \/ mark_offline(d) \/ ManualCheck(d)
  \/ Loop
  \/ zb_availability_stop \/ zb_availability_start
  \/ \E d \in Devices : CheckDue(d) \/ PingExpires(d)

Spec == Init /\ [][Next]_vars

(***************************************************************************)
(* The tasks are scheduled, time passes, and the lifecycle manager starts  *)
(* the tracker again after an update.                                      *)
(***************************************************************************)
Fairness ==
  /\ \A t \in Tasks : WF_vars(SetState(t))
  /\ WF_vars(Loop)
  /\ WF_vars(zb_availability_start)
  /\ \A d \in Devices : WF_vars(CheckDue(d)) /\ WF_vars(PingExpires(d))

FairSpec == Spec /\ Fairness

-------------------------------------------------------------------------------
\* Devices in the registry of which no set_device_state() is under way.
Steady(d) == d \in known /\ \A t \in Tasks : ~Works(t, d)

\* Those no task ever worked on in the middle of another one's.
Settled(d) == Steady(d) /\ d \notin raced

(***************************************************************************)
(* What was last published of a device is its availability, whatever       *)
(* frames, failures, leaves and joins came in the middle of a              *)
(* set_device_state(): unless two of them overlapped, or the last one was  *)
(* refused by the bus or cut off, and then until the next is published.    *)
(***************************************************************************)
PublishedMatches ==
  \A d \in Devices :
    Steady(d) /\ d \notin crossed \cup unheard => told[d] = avail[d]

(***************************************************************************)
(* A device is offline only when MAX_FAILURES failures were counted since  *)
(* its last frame, or its interview failed.                                *)
(***************************************************************************)
OfflineEarned ==
  \A d \in Devices :
    Settled(d) /\ avail[d] = "offline" /\ d \notin forced => bad[d] >= MaxFailures

(***************************************************************************)
(* A device that is offline comes back only by a frame of it.              *)
(***************************************************************************)
BackByFrame ==
  [][\A d \in known : avail[d] = "offline" /\ avail'[d] = "online" =>
       bad[d] = 0 \/ d \in raced']_vars

(***************************************************************************)
(* A mains powered device that stays silent is offline in the end, however *)
(* often its counter wraps and whatever the other tasks do.                *)
(***************************************************************************)
SilentGoesOffline ==
  \A d \in Devices :
    <>[](d \in known /\ meta[d].power = "mains" /\ phase # "stopped")
      => <>[](avail[d] = "offline")

(***************************************************************************)
(* "Should be called whenever any frame is received from a device": one    *)
(* that answered its last ping is not offline.                             *)
(***************************************************************************)
AnswersCount ==
  \A d \in Devices :
    Settled(d) /\ d \in answered \ forced => avail[d] # "offline"

-------------------------------------------------------------------------------
(***************************************************************************)
(* The inductive invariant behind the first three: what the one task at    *)
(* work on a device knows of it, and how the counter of its record keeps   *)
(* up with the failures since its last frame.                              *)
(***************************************************************************)
Deciding ==
  \A t \in Tasks :
    /\ job[t].pc = "idle" <=> job[t].dev = None
    /\ job[t].pc # "idle" => job[t].new \in {"online", "offline"}
    /\ job[t].pc # "idle" /\ job[t].new = "online" => t = "zigbee"

CountsInStep ==
  \A d \in Devices : bad[d] < MaxFailures => meta[d].failures <= bad[d]

Justified(d) == d \in forced \/ bad[d] = MaxFailures

\* What the one task at work on a device knows of its failures,
OneWorker(d) ==
  /\ \A t, u \in Tasks : Works(t, d) /\ Works(u, d) => t = u
  /\ \A t \in Tasks : Works(t, d) =>
       /\ job[t].pc # "decided" => avail[d] = job[t].new
       /\ IF job[t].new = "online" THEN bad[d] = 0 ELSE Justified(d)
  /\ avail[d] = "offline" =>
       Justified(d) \/ \E t \in Tasks : Works(t, d) /\ job[t].new = "online"

\* and what it is going to publish: of a device that left in the meantime, too.
OneSpeaker(d) ==
  /\ \A t, u \in Tasks : Works(t, d) /\ Works(u, d) => t = u
  /\ Works("zigbee", d) => d \in known
  /\ d \notin known => avail[d] # "online"
  /\ \A t \in Tasks : Works(t, d) =>
       IF job[t].pc = "decided"
       THEN avail[d] = job[t].new => told[d] = avail[d] \/ d \in unheard
       ELSE d \in known => avail[d] = job[t].new
  /\ Steady(d) => told[d] = avail[d] \/ d \in unheard

AvailInv ==
  /\ TypeOK
  /\ Deciding
  /\ \A d \in known : Tracked(d)
  /\ CountsInStep
  /\ \A d \in Devices \ raced : OneWorker(d)
  /\ \A d \in Devices \ crossed : OneSpeaker(d)
=============================================================================
