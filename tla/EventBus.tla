------------------------------- MODULE EventBus -------------------------------
(***************************************************************************)
(* The event bus (src/main/core/events/event_bus.c) with what it carries.  *)
(*                                                                         *)
(* Any task publishes: the event is copied and put in one of two queues,   *)
(* after a wait of up to 100 ms for room.  One dispatcher task takes the   *)
(* events out, copies the subscribers under the mutex, calls them without  *)
(* it, and frees the copy.  A handler may publish in turn, on the queues   *)
(* that only its own task empties: the discovery handler of Home Assistant *)
(* (ha_discovery_ng.c) does so for each entity of a device.                *)
(*                                                                         *)
(* An event of kind "publish" (EVT_HA_DISCOVERY_PUBLISH and                *)
(* EVT_BRIDGE_PUBLISH) carries two heap strings, allocated by its          *)
(* publisher, which belong to mqtt_event_handler.c once the event is       *)
(* accepted and to the publisher if it is not.                             *)
(***************************************************************************)
EXTENDS Integers, Sequences, FiniteSets, SequencesExt

CONSTANTS
  Publishers,     \* the tasks that publish, the dispatcher apart
  Dispatcher,     \* the dispatcher task
  QueueSize,      \* EVENT_QUEUE_SIZE
  HighQueueSize,  \* EVENT_HIGH_PRIO_QUEUE_SIZE
  MaxSubscribers, \* MAX_SUBSCRIBERS, for each kind of event
  MaxEvents       \* bound: events published

ASSUME TasksAssumption == Dispatcher \notin Publishers
ASSUME SizesAssumption ==
  /\ {QueueSize, HighQueueSize, MaxSubscribers} \subseteq Nat \ {0}
  /\ MaxEvents \in Nat

VARIABLES
  queue,          \* s_event_queue ("normal") and s_event_queue_high ("high")
  subscribers,    \* s_subscribers: the handlers of each kind, by slot
  job,            \* per task, the event its event_publish() waits with
  disp,           \* the dispatcher: where it is, its event, the handlers that
                  \* are still to be called
  data,           \* events whose copied data is allocated
  strings,        \* events whose strings are allocated
  last,           \* history: the last event each handler got of each task in
                  \* each queue
  passed,         \* history: normal events taken since an event entered the
                  \* high queue, 0 if it is not there
  events          \* how many events were published

memory == <<data, strings>>
history == <<last, passed>>
vars == <<queue, subscribers, job, disp, memory, history, events>>

Tasks    == Publishers \cup {Dispatcher}
Kinds    == {"device", "publish"}
Levels   == {"normal", "high"}
Handlers == {"discovery", "trace", "mqtt", "adapter"}
Ids      == 1 .. MaxEvents

Event    == [id : Ids, kind : Kinds, level : Levels, by : Tasks]
Nothing  == [id |-> 0, kind |-> "device", level |-> "normal", by |-> Dispatcher]

Size(l) == IF l = "high" THEN HighQueueSize ELSE QueueSize

TypeOK ==
  /\ queue \in [Levels -> Seq(Event)]
  /\ \A l \in Levels : Len(queue[l]) <= Size(l)
  /\ subscribers \in [Kinds -> Seq(Handlers)]
  /\ \A k \in Kinds : Len(subscribers[k]) <= MaxSubscribers
  /\ job \in [Tasks -> Event \cup {Nothing}]
  /\ disp \in [pc : {"high", "normal", "dispatch", "call"},
               event : Event \cup {Nothing}, todo : Seq(Handlers)]
  /\ data \subseteq Ids
  /\ strings \subseteq Ids
  /\ last \in [Handlers -> [Tasks -> [Levels -> Ids \cup {0}]]]
  /\ passed \in [Ids -> 0 .. MaxEvents]
  /\ events \in 0 .. MaxEvents

-------------------------------------------------------------------------------
\* event_subscribe_filtered(): a handler that starts later than the bus takes
\* the next slot, if there is one.  Handlers subscribe once, when they start.
event_subscribe(k, h) ==
  /\ h \notin ToSet(subscribers[k])
  /\ Len(subscribers[k]) < MaxSubscribers
  /\ subscribers' = [subscribers EXCEPT ![k] = Append(@, h)]
  /\ UNCHANGED <<queue, job, disp, memory, history, events>>

-------------------------------------------------------------------------------
\* Mutation: one event more than there is room for.
Room_beyond(l) ==
  Len(queue[l]) <= Size(l)

Room(l) == Len(queue[l]) < Size(l)

\* Mutation: an event goes to the head of its queue.
Queued_first(e) ==
  [queue EXCEPT ![e.level] = <<e>> \o @]

Queued(e) == [queue EXCEPT ![e.level] = Append(@, e)]

Owned(e) == IF e.kind = "publish" THEN {e.id} ELSE {}

(***************************************************************************)
(* event_publish_prio(): LOW and NORMAL go to one queue, HIGH and CRITICAL *)
(* to the other.  A publisher that cannot allocate frees what it has and   *)
(* returns: nothing is left of that.                                       *)
(***************************************************************************)
event_publish(t, k, l) ==
  LET e == [id |-> events + 1, kind |-> k, level |-> l, by |-> t] IN
  /\ job[t] = Nothing
  /\ events < MaxEvents
  /\ events' = events + 1
  /\ data' = data \cup {e.id}
  /\ strings' = strings \cup Owned(e)
  /\ IF Room(l)
     THEN queue' = Queued(e) /\ UNCHANGED job
     ELSE job' = [job EXCEPT ![t] = e] /\ UNCHANGED queue
  /\ UNCHANGED <<subscribers, disp, history>>

\* Mutation: the publisher frees its strings although the event was accepted.
Send_frees(t) ==
  LET e == job[t] IN
  /\ e # Nothing
  /\ Room(e.level)
  /\ queue' = Queued(e)
  /\ job' = [job EXCEPT ![t] = Nothing]
  /\ strings' = strings \ Owned(e)
  /\ UNCHANGED <<subscribers, disp, data, history, events>>

\* Any of the tasks that wait may get the room.
Send(t) ==
  LET e == job[t] IN
  /\ e # Nothing
  /\ Room(e.level)
  /\ queue' = Queued(e)
  /\ job' = [job EXCEPT ![t] = Nothing]
  /\ UNCHANGED <<subscribers, disp, memory, history, events>>

\* Mutation: the dispatcher waits without a limit.
GiveUp_publishers(t) ==
  LET e == job[t] IN
  /\ t # Dispatcher
  /\ e # Nothing
  /\ ~Room(e.level)
  /\ job' = [job EXCEPT ![t] = Nothing]
  /\ data' = data \ {e.id}
  /\ strings' = strings \ Owned(e)
  /\ UNCHANGED <<queue, subscribers, disp, history, events>>

\* After 100 ms: the bus frees the copy, and the publisher the strings.
GiveUp(t) ==
  LET e == job[t] IN
  /\ e # Nothing
  /\ ~Room(e.level)
  /\ job' = [job EXCEPT ![t] = Nothing]
  /\ data' = data \ {e.id}
  /\ strings' = strings \ Owned(e)
  /\ UNCHANGED <<queue, subscribers, disp, history, events>>

-------------------------------------------------------------------------------
(***************************************************************************)
(* event_dispatcher_task(): the high queue without waiting, and if it is   *)
(* empty the normal one for up to 100 ms.  A high event that arrives in    *)
(* the meantime does not end that wait.                                    *)
(***************************************************************************)
Take(l) ==
  /\ queue[l] # <<>>
  /\ queue' = [queue EXCEPT ![l] = Tail(@)]
  /\ disp' = [pc |-> "dispatch", event |-> Head(queue[l]), todo |-> <<>>]

\* The events in the high queue have let one more pass.
Waiting == {e.id : e \in ToSet(queue["high"])}

TakeHigh ==
  /\ disp.pc = "high"
  /\ IF queue["high"] # <<>>
     THEN /\ Take("high")
          /\ passed' = [passed EXCEPT ![Head(queue["high"]).id] = 0]
     ELSE disp' = [disp EXCEPT !.pc = "normal"] /\ UNCHANGED <<queue, passed>>
  /\ UNCHANGED <<subscribers, job, memory, last, events>>

TakeNormal ==
  /\ disp.pc = "normal"
  /\ IF queue["normal"] # <<>>
     THEN /\ Take("normal")
          /\ passed' = [i \in Ids |-> IF i \in Waiting THEN passed[i] + 1
                                      ELSE passed[i]]
     ELSE disp' = [disp EXCEPT !.pc = "high"] /\ UNCHANGED <<queue, passed>>
  /\ UNCHANGED <<subscribers, job, memory, last, events>>

\* event_dispatch(): the handlers are copied under the mutex.
event_dispatch ==
  /\ disp.pc = "dispatch"
  /\ disp' = [disp EXCEPT !.pc = "call", !.todo = subscribers[disp.event.kind]]
  /\ UNCHANGED <<queue, subscribers, job, memory, history, events>>

Got(h) == last' = [last EXCEPT ![h][disp.event.by][disp.event.level] = disp.event.id]

\* Mutation: nothing is freed while the broker is not connected.
mqtt_event_handler_cb_connected ==
  strings' \in {strings, strings \ Owned(disp.event)}

\* publish_ha_discovery() and publish_bridge_data() free the strings, whether
\* they can send them or not.
mqtt_event_handler_cb == strings' = strings \ Owned(disp.event)

\* A handler is called and returns.
Call ==
  /\ disp.pc = "call"
  /\ disp.todo # <<>>
  /\ job[Dispatcher] = Nothing
  /\ LET h == Head(disp.todo) IN
     /\ Got(h)
     /\ IF h = "mqtt" THEN mqtt_event_handler_cb ELSE UNCHANGED strings
  /\ disp' = [disp EXCEPT !.todo = Tail(@)]
  /\ UNCHANGED <<queue, subscribers, job, data, passed, events>>

\* device_event_handler() publishes, once or more, before it returns.
Announce ==
  /\ disp.pc = "call"
  /\ disp.todo # <<>>
  /\ Head(disp.todo) = "discovery"
  /\ event_publish(Dispatcher, "publish", "normal")

\* The dispatcher looks at the high queue first.
Ready == [pc |-> "high", event |-> Nothing, todo |-> <<>>]

\* event_process(): all handlers have returned.
event_process ==
  /\ disp.pc = "call"
  /\ disp.todo = <<>>
  /\ data' = data \ {disp.event.id}
  /\ disp' = Ready
  /\ UNCHANGED <<queue, subscribers, job, strings, history, events>>

-------------------------------------------------------------------------------
(***************************************************************************)
(* As main.c leaves it when it starts the MQTT client: discovery and trace *)
(* have subscribed in foundation_init.c, and then the MQTT bridge.  Nobody *)
(* publishes strings before MQTT is connected.                             *)
(***************************************************************************)
Init ==
  /\ queue = [l \in Levels |-> <<>>]
  /\ subscribers = [k \in Kinds |-> IF k = "device" THEN <<"discovery", "trace">>
                                    ELSE <<"trace", "mqtt">>]
  /\ job = [t \in Tasks |-> Nothing]
  /\ disp = Ready
  /\ data = {} /\ strings = {}
  /\ last = [h \in Handlers |-> [t \in Tasks |-> [l \in Levels |-> 0]]]
  /\ passed = [i \in Ids |-> 0]
  /\ events = 0

\* Strings are published at NORMAL only.
Publish(t) ==
  \/ \E l \in Levels : event_publish(t, "device", l)
  \/ event_publish(t, "publish", "normal")

Dispatch ==
  \/ TakeHigh \/ TakeNormal \/ event_dispatch \/ Call \/ Announce \/ event_process

Next ==
  \/ \E t \in Publishers : Publish(t)
  \/ \E t \in Tasks : Send(t) \/ GiveUp(t)
  \/ Dispatch
  \/ event_subscribe("device", "adapter")

Spec == Init /\ [][Next]_vars

(***************************************************************************)
(* The scheduler runs the dispatcher, which goes on when its handler does, *)
(* and wakes a task that waits when there is room or its time is over.     *)
(***************************************************************************)
Fairness ==
  /\ WF_vars(Dispatch)
  /\ \A t \in Tasks : WF_vars(Send(t) \/ GiveUp(t))

FairSpec == Spec /\ Fairness

-------------------------------------------------------------------------------
Held    == {job[t] : t \in Tasks} \ {Nothing}
InQueue == ToSet(queue["normal"]) \cup ToSet(queue["high"])
Current == {disp.event} \ {Nothing}

\* The events the MQTT handler is still to get of the dispatcher.
Due == {e \in Current : disp.pc = "dispatch" \/ "mqtt" \in ToSet(disp.todo)}

(***************************************************************************)
(* No handler gets the events of one task and one queue out of order, or   *)
(* one of them twice: what is still to come is newer than what it got.     *)
(***************************************************************************)
InOrder ==
  /\ \A e \in Held \cup InQueue, h \in Handlers : e.id > last[h][e.by][e.level]
  /\ \A e \in Current, h \in Handlers :
       disp.pc = "dispatch" \/ h \in ToSet(disp.todo)
         => e.id > last[h][e.by][e.level]

(***************************************************************************)
(* "If data is provided, it will be copied and freed after all handlers    *)
(* are called", and the strings of an event belong to its publisher until  *)
(* it is accepted and to the MQTT handler from then on: nothing stays      *)
(* allocated that nobody is going to free.                                 *)
(***************************************************************************)
NothingLeaks ==
  /\ data \subseteq {e.id : e \in Held \cup InQueue \cup Current}
  /\ strings \subseteq {e.id : e \in Held \cup InQueue \cup Due}

(***************************************************************************)
(* What a handler is going to read is allocated: the data of each event on *)
(* its way, and the strings until the MQTT handler has had them.           *)
(***************************************************************************)
ReadWhileLive ==
  /\ \A e \in Held \cup InQueue \cup Current : e.id \in data
  /\ \A e \in Held \cup InQueue \cup Due : Owned(e) \subseteq strings

(***************************************************************************)
(* An event in the high queue lets at most one normal event pass: the one  *)
(* the dispatcher was waiting for when it came.                            *)
(***************************************************************************)
OvertakenOnce == \A i \in Ids : passed[i] <= 1

(***************************************************************************)
(* Every publication ends, one by a handler on a full queue that only its  *)
(* own task could empty as well; and an event in the high queue is         *)
(* dispatched and freed, whatever is published after it.                   *)
(***************************************************************************)
EventsEnd ==
  /\ \A t \in Tasks : job[t] # Nothing ~> job[t] = Nothing
  /\ \A i \in Ids : i \in Waiting ~> i \notin data

-------------------------------------------------------------------------------
(***************************************************************************)
(* The inductive invariant behind the four: the dispatcher has an event    *)
(* from the queue to the end of its handlers, of which each is called      *)
(* once; no event is in two places, and those of one task are in the order *)
(* they were published in; and what is allocated belongs to an event that  *)
(* is on its way.                                                          *)
(***************************************************************************)
Flying == Held \cup InQueue \cup Current
Owing  == Held \cup InQueue \cup Due

Once(s) == \A i, j \in DOMAIN s : s[i] = s[j] => i = j

Dispatching ==
  /\ disp.pc \in {"high", "normal"} => disp.event = Nothing
  /\ disp.pc \in {"dispatch", "call"} => disp.event \in Event
  /\ disp.pc # "call" => disp.todo = <<>>
  /\ Once(disp.todo)
  /\ \A k \in Kinds : Once(subscribers[k])
  /\ "mqtt" \in ToSet(subscribers["publish"])

Before(e, f) == e.id # f.id /\ (e.by = f.by => e.id < f.id)

Ordered(s) == \A i, j \in DOMAIN s : i < j => Before(s[i], s[j])

Apart ==
  /\ \A e \in Flying : e.id <= events
  /\ \A t \in Tasks : job[t] # Nothing => job[t].by = t
  /\ \A l \in Levels : Ordered(queue[l]) /\ \A e \in ToSet(queue[l]) : e.level = l
  /\ \A e \in ToSet(queue["normal"]), f \in ToSet(queue["high"]) : e.id # f.id
  /\ \A e, f \in Held : e # f => e.id # f.id
  /\ \A e \in InQueue, f \in Held : Before(e, f)
  /\ \A e \in Current, f \in Held \cup InQueue :
       e.id # f.id /\ (e.by = f.by /\ e.level = f.level => e.id < f.id)

Accounted ==
  /\ \A i \in Ids : i \in data <=> \E e \in Flying : e.id = i
  /\ \A i \in Ids :
       i \in strings <=> \E e \in Owing : e.kind = "publish" /\ e.id = i

Patient ==
  /\ \A i \in Ids : i \notin Waiting => passed[i] = 0
  /\ \A i \in Ids : passed[i] # 0 => passed[i] = 1 /\ disp.pc # "normal"

Known ==
  \A h \in Handlers, t \in Tasks, l \in Levels : last[h][t][l] <= events

BusInv ==
  /\ TypeOK
  /\ Dispatching
  /\ Apart
  /\ Accounted
  /\ InOrder
  /\ Known
  /\ Patient
=============================================================================
