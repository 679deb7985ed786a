------------------------------- MODULE Interview -------------------------------
(***************************************************************************)
(* The interview of a Zigbee device (src/main/zigbee/zb_interview.c):      *)
(* which endpoints has it, what is on each of them, how is it powered, who *)
(* made it.  Up to MaxConcurrent interviews run at a time, each in a slot  *)
(* of s_contexts.                                                          *)
(*                                                                         *)
(* Four kinds of task meet in a slot, each of them under s_mutex only part *)
(* of the time: the tasks that start interviews, the Zigbee task that gets *)
(* the answers, the timer service task in the two timeout callbacks, and   *)
(* the short-lived tasks that complete an interview whose time is up.  An  *)
(* answer carries the device's short address and nothing that tells which  *)
(* interview, or which attempt of it, had asked.                           *)
(*                                                                         *)
(* An interview is started for an IEEE address, and at most one; all the   *)
(* rest of it goes by the short address, which two interviews can have in  *)
(* common when a device has left the network and another was given its     *)
(* address.  A descriptor is the number of the endpoint it describes.      *)
(*                                                                         *)
(* A request goes out after the mutex is given back, but in one step with  *)
(* what was done under it, unless its sender also changes the slot then.   *)
(* What a finished interview means to the device (its converter, its name, *)
(* the cached result) is left out: it changes no slot.                     *)
(***************************************************************************)
EXTENDS Integers, Sequences

CONSTANTS
  Devices,          \* IEEE addresses
  Addresses,        \* short addresses
  Coordinator,      \* the address 0, long and short, which is no device's
  Sleepy,           \* the devices whose model begins with "lumi."
  NumEndpoints,     \* endpoints that a device has at most
  MaxConcurrent,    \* ZB_INTERVIEW_MAX_CONCURRENT
  RetryCount,       \* s_config.retry_count
  FullRetryCount,   \* ZB_INTERVIEW_FULL_RETRY_COUNT
  MaxStarts,        \* bound: interviews started
  MaxFailures       \* bound: allocations, commands to a timer and waits for
                    \* the mutex that fail

ASSUME DeviceAssumption ==
  /\ Coordinator \notin Devices \cup Addresses
  /\ Sleepy \subseteq Devices
ASSUME CountAssumption ==
  /\ NumEndpoints \in Nat \ {0}
  /\ MaxConcurrent \in Nat \ {0}
  /\ RetryCount \in Nat
  /\ FullRetryCount \in Nat
  /\ MaxStarts \in Nat
  /\ MaxFailures \in Nat

Slots      == 1 .. MaxConcurrent
Attributes == {"manufacturer", "model"}
Status     == {"ACTIVE_ENDPOINTS", "SIMPLE_DESC", "BASIC_INFO"}
Timer      == {"none", "running", "expired"}
TimerKind  == {"timeout", "basic"}

\* What the gateway asks a device; endpoint is 0 where there is none.
Requests ==
  [addr : Addresses, kind : {"active", "power"} \cup Attributes, endpoint : {0}]
    \cup [addr : Addresses, kind : {"simple"}, endpoint : 1 .. NumEndpoints]

ActiveEp(x)      == [addr |-> x, kind |-> "active", endpoint |-> 0]
SimpleDesc(x, e) == [addr |-> x, kind |-> "simple", endpoint |-> e]
PowerDesc(x)     == [addr |-> x, kind |-> "power", endpoint |-> 0]
ReadAttr(x, a)   == [addr |-> x, kind |-> a, endpoint |-> 0]

VARIABLES
  contexts,   \* s_contexts
  zigbee,     \* where the Zigbee task is, and with which slot
  daemon,     \* where the timer service task is, and with which slot
  jobs,       \* per address, the tasks that are to finish its interview
  leaked,     \* per slot and kind, running timers with no handle left
  pending,    \* per request, how many of it are still to be answered
  known,      \* the addresses at which the registry has a sleepy device
  starts,     \* interviews started so far
  failures    \* failures so far

\* What became of the interviews, for the properties only.
VARIABLES
  spoilt,     \* the slots that a failure left with nothing to end them
  shared      \* the slots whose address another interview had as well

history == <<spoilt, shared>>

vars == <<contexts, zigbee, daemon, jobs, leaked, pending, known, starts,
          failures, history>>

\* A task is with a slot only between two of its visits to the mutex.
Idle == [at |-> "idle", slot |-> 0]
With(place, s) == [at |-> place, slot |-> s]

\* What memset() makes of a slot.  "none" stands for a NULL timer handle, and
\* "expired" for a timer that does not run; of the basic-read timer it only
\* matters whether it runs.
Zeroed ==
  [in_use |-> FALSE, dev |-> Coordinator, addr |-> Coordinator, status |-> "ACTIVE_ENDPOINTS",
   idx |-> 0, retry |-> 0, full_retry |-> 0, count |-> 0, endpoints |-> <<>>,
   timeout_timer |-> "none", basic_timer |-> FALSE, flags |-> {}]

Lowest(S) == CHOOSE s \in S : \A t \in S : s <= t

InterviewsOf(d)          == {s \in Slots : contexts[s].in_use /\ contexts[s].dev = d}
InterviewsAt(x)          == {s \in Slots : contexts[s].in_use /\ contexts[s].addr = x}
find_context_by_ieee(d)  == Lowest(InterviewsOf(d))
find_context_by_short(x) == Lowest(InterviewsAt(x))
FreeSlots                == {s \in Slots : ~ contexts[s].in_use}

Consumed(req)       == [pending EXCEPT ![req] = @ - 1]
Replaced(req, next) == [Consumed(req) EXCEPT ![next] = @ + 1]
Asked(reqs)         == [r \in Requests |->
                          IF r \in reqs THEN pending[r] + 1 ELSE pending[r]]

\* Some of what a step tries may fail, within the bound.
Fails(n) == failures + n <= MaxFailures /\ failures' = failures + n

\* A slot without a running timer is lost when what was to end it fails.
Unarmed(S) == {s \in S : contexts[s].timeout_timer # "running"}

\* interview_complete() as far as the slot is concerned: the result goes to
\* the cache or is freed, both timers are deleted, the slot is free.  Of what
\* stays in a free slot, late tasks read the address, the retries left and the
\* count of endpoints; the rest is zeroed here, though the code does so when
\* it allocates the slot again.
Released(s, c) ==
  IF s \notin {zigbee.slot, daemon.slot} THEN Zeroed ELSE
  [Zeroed EXCEPT !.addr = c.addr, !.full_retry = c.full_retry, !.count = c.count]

Running(c) ==
  {k \in TimerKind : IF k = "timeout" THEN c.timeout_timer = "running"
                                     ELSE c.basic_timer}

Leaking(s, kinds) ==
  [leaked EXCEPT ![s] = [k \in TimerKind |-> IF k \in kinds THEN @[k] + 1 ELSE @[k]]]

\* The queue of commands to the timers may be full, which leaves a timer to
\* run although its handle is gone, like those whose handle was lost before; n
\* is what has failed already.
complete_without(s, lost, n) ==
  /\ contexts' = [contexts EXCEPT ![s] = Released(s, @)]
  /\ \E left \in SUBSET (Running(contexts[s]) \ lost) :
       /\ Fails(IF left = {} THEN n ELSE n + 1)
       /\ leaked' = Leaking(s, lost \cup left)
  /\ spoilt' = spoilt \ {s}
  /\ shared' = shared \ {s}

interview_complete(s) == complete_without(s, {}, 0)

-----------------------------------------------------------------------------
Init ==
  /\ contexts = [s \in Slots |-> Zeroed]
  /\ zigbee = Idle
  /\ daemon = Idle
  /\ jobs = [x \in Addresses |-> 0]
  /\ leaked = [s \in Slots |-> [k \in TimerKind |-> 0]]
  /\ pending = [r \in Requests |-> 0]
  /\ known = {}
  /\ starts = 0
  /\ failures = 0
  /\ spoilt = {}
  /\ shared = {}

\* Mutation: a device that is being interviewed is not turned away.
Startable_again(d) == FreeSlots # {}

Startable(d) == InterviewsOf(d) = {} /\ FreeSlots # {}

\* A device announced itself, or a user or the start-up provisioning asks for
\* its interview.  memset() forgets the handle of a timer that
\* request_basic_cluster_attributes() may have left in the slot.  The new timer
\* may not be created, or not be started, and nothing asks whether it was.
zb_interview_start(d, x) ==
  /\ starts < MaxStarts
  /\ Startable(d)
  /\ \E t \in Timer :
       LET s == Lowest(FreeSlots) IN
       /\ Fails(IF t = "running" THEN 0 ELSE 1)
       /\ contexts' = [contexts EXCEPT ![s] =
            [Zeroed EXCEPT !.in_use = TRUE, !.dev = d, !.addr = x,
                           !.retry = RetryCount, !.full_retry = FullRetryCount,
                           !.timeout_timer = t]]
       /\ leaked' = Leaking(s, Running(contexts[s]))
       /\ spoilt' = IF t = "running" THEN spoilt ELSE spoilt \cup {s}
       /\ shared' = IF InterviewsAt(x) = {} THEN shared
                    ELSE shared \cup InterviewsAt(x) \cup {s}
  /\ pending' = Asked({ActiveEp(x)})
  /\ starts' = starts + 1
  /\ UNCHANGED <<zigbee, daemon, jobs, known>>

\* The device that the registry has at an address reports its model.  If it is
\* a sleepy one, its active interview is cancelled for the converter's sake, if
\* there is a converter.
handle_basic_cluster_report(d, x) ==
  /\ zigbee = Idle
  /\ known' = IF d \in Sleepy THEN known \cup {x} ELSE known \ {x}
  /\ \/ UNCHANGED <<contexts, leaked, failures, history>>
     \/ /\ d \in Sleepy
        /\ InterviewsOf(d) # {}
        /\ interview_complete(find_context_by_ieee(d))
  /\ UNCHANGED <<zigbee, daemon, jobs, pending, starts>>

-----------------------------------------------------------------------------
(***************************************************************************)
(* The Zigbee task gets an answer, an error among them; each request gets  *)
(* at most one.                                                            *)
(***************************************************************************)
Answered(req) == zigbee = Idle /\ pending[req] > 0

\* The checks with which a handler turns an answer away.
Wanted(req) ==
  /\ InterviewsAt(req.addr) # {}
  /\ LET c == contexts[find_context_by_short(req.addr)] IN
     /\ req.kind = "simple" =>
          c.status = "SIMPLE_DESC" /\ c.idx < Len(c.endpoints)
     /\ req.kind \in Attributes => c.status = "BASIC_INFO"

ignore_answer(req) ==
  /\ Answered(req)
  /\ ~ Wanted(req)
  /\ pending' = Consumed(req)
  /\ UNCHANGED <<contexts, zigbee, daemon, jobs, leaked, known, starts, failures,
                 history>>

\* Mutation: the retries left are not looked at.
MayRetry_always(c) == TRUE

MayRetry(c) == c.retry > 0

AskedAgain(c) == [c EXCEPT !.retry = @ - 1]

\* An error: ask again, or give up.
active_ep_failed(x) ==
  LET s == find_context_by_short(x) IN
  /\ Answered(ActiveEp(x))
  /\ Wanted(ActiveEp(x))
  /\ \/ /\ MayRetry(contexts[s])
        /\ contexts' = [contexts EXCEPT ![s] = AskedAgain(@)]
        /\ pending' = Replaced(ActiveEp(x), ActiveEp(x))
        /\ UNCHANGED <<leaked, failures, history>>
     \/ /\ ~ MayRetry(contexts[s])
        /\ interview_complete(s)
        /\ pending' = Consumed(ActiveEp(x))
  /\ UNCHANGED <<zigbee, daemon, jobs, known, starts>>

Listed(c, n) ==
  [c EXCEPT !.status = "SIMPLE_DESC", !.idx = 0, !.count = n, !.retry = RetryCount,
            !.endpoints = IF n > 0 THEN [i \in 1 .. n |-> 0] ELSE @]

\* The list of endpoints; nothing asks whether it is still waited for, and an
\* empty one leaves the descriptors of an earlier one where they are.
zb_interview_handle_active_ep_resp(x, n) ==
  LET s == find_context_by_short(x) IN
  /\ Answered(ActiveEp(x))
  /\ Wanted(ActiveEp(x))
  /\ pending' = Consumed(ActiveEp(x))
  /\ \/ /\ contexts' = [contexts EXCEPT ![s] = Listed(@, n)]
        /\ zigbee' = With("active", s)
        /\ UNCHANGED <<leaked, failures, history>>
     \/ /\ n > 0
        /\ complete_without(s, {}, 1)
        /\ UNCHANGED zigbee
  /\ UNCHANGED <<daemon, jobs, known, starts>>

\* The rest of that handler, without the mutex: the slot may be another's.
request_first_endpoint ==
  LET s == zigbee.slot
      c == contexts[s]
  IN
  /\ zigbee.at = "active"
  /\ zigbee' = Idle
  /\ \/ /\ c.count > 0
        /\ pending' = Asked({SimpleDesc(c.addr, 1)})
        /\ UNCHANGED <<contexts, leaked, failures, history>>
     \/ /\ c.count = 0
        /\ interview_complete(s)
        /\ UNCHANGED pending
  /\ UNCHANGED <<daemon, jobs, known, starts>>

\* On to the endpoint after the current one, or to the power descriptor.
NextRequest(c) ==
  IF c.idx + 1 < c.count THEN SimpleDesc(c.addr, c.idx + 2) ELSE PowerDesc(c.addr)

Skipped(c) == [c EXCEPT !.idx = @ + 1, !.retry = RetryCount]
Described(c, e) == [c EXCEPT !.endpoints[c.idx + 1] = e]

\* A descriptor, or a response without one; which endpoint it describes is
\* not compared with the one that was asked for last.
zb_interview_handle_simple_desc_resp(x, e) ==
  LET s == find_context_by_short(x)
      c == contexts[s]
  IN
  /\ Answered(SimpleDesc(x, e))
  /\ Wanted(SimpleDesc(x, e))
  /\ \E described \in {e, c.endpoints[c.idx + 1]} :
       contexts' = [contexts EXCEPT ![s] = Skipped(Described(@, described))]
  /\ pending' = Replaced(SimpleDesc(x, e), NextRequest(c))
  /\ UNCHANGED <<zigbee, daemon, jobs, leaked, known, starts, failures, history>>

\* An error: ask again, or skip the endpoint.
simple_desc_failed(x, e) ==
  LET s == find_context_by_short(x)
      c == contexts[s]
  IN
  /\ Answered(SimpleDesc(x, e))
  /\ Wanted(SimpleDesc(x, e))
  /\ \/ /\ MayRetry(c)
        /\ contexts' = [contexts EXCEPT ![s] = AskedAgain(@)]
        /\ pending' = Replaced(SimpleDesc(x, e), SimpleDesc(x, c.idx + 1))
     \/ /\ ~ MayRetry(c)
        /\ contexts' = [contexts EXCEPT ![s] = Skipped(@)]
        /\ pending' = Replaced(SimpleDesc(x, e), NextRequest(c))
  /\ UNCHANGED <<zigbee, daemon, jobs, leaked, known, starts, failures, history>>

\* The power descriptor or an error: on to the last phase, whatever the phase.
power_desc_callback(x) ==
  LET s == find_context_by_short(x) IN
  /\ Answered(PowerDesc(x))
  /\ Wanted(PowerDesc(x))
  /\ contexts' = [contexts EXCEPT ![s].status = "BASIC_INFO"]
  /\ zigbee' = With("basic", s)
  /\ pending' = Consumed(PowerDesc(x))
  /\ UNCHANGED <<daemon, jobs, leaked, known, starts, failures, history>>

\* The rest of that callback, without the mutex: the slot may be another's, or
\* free.  A timer it has already loses its handle, and goes on running.  The
\* new one may not start; without one the interview is over.
\* (zb_zcl_read_attr_with_lock() fails on bad addresses only.)
request_basic_cluster_attributes ==
  LET s == zigbee.slot
      c == contexts[s]
      lost == Running(c) \ {"timeout"}
  IN
  /\ zigbee.at = "basic"
  /\ zigbee' = Idle
  /\ pending' = Asked({ReadAttr(c.addr, a) : a \in Attributes})
  /\ \/ \E started \in BOOLEAN :
          /\ Fails(IF started THEN 0 ELSE 1)
          /\ contexts' = [contexts EXCEPT ![s] =
               [c EXCEPT !.flags = {}, !.basic_timer = started]]
          /\ leaked' = Leaking(s, lost)
          /\ UNCHANGED history
     \/ complete_without(s, lost, 1)
  /\ UNCHANGED <<daemon, jobs, known, starts>>

\* One attribute of the answer; it does not count when the read succeeded but
\* brought no value, or the device is not in the registry.
zb_interview_handle_read_attr_resp(x, a) ==
  LET s == find_context_by_short(x) IN
  /\ Answered(ReadAttr(x, a))
  /\ Wanted(ReadAttr(x, a))
  /\ \E flags \in {contexts[s].flags, contexts[s].flags \cup {a}} :
       \/ /\ flags # Attributes
          /\ contexts' = [contexts EXCEPT ![s].flags = flags]
          /\ UNCHANGED <<leaked, failures, history>>
       \/ flags = Attributes /\ interview_complete(s)
  /\ pending' = Consumed(ReadAttr(x, a))
  /\ UNCHANGED <<zigbee, daemon, jobs, known, starts>>

-----------------------------------------------------------------------------
(***************************************************************************)
(* The timer service task.  A timer that runs may expire at any time; the  *)
(* callback looks at in_use before it waits for the mutex.                 *)
(***************************************************************************)
Called(place, s) == IF contexts[s].in_use THEN With(place, s) ELSE Idle

\* The timer whose handle is in the slot.
own_timer_expires(s, kind) ==
  /\ kind \in Running(contexts[s])
  /\ contexts' = [contexts EXCEPT ![s] =
       IF kind = "timeout" THEN [@ EXCEPT !.timeout_timer = "expired"]
                           ELSE [@ EXCEPT !.basic_timer = FALSE]]
  /\ UNCHANGED leaked

\* One that was left running for an earlier interview in the slot.
leaked_timer_expires(s, kind) ==
  /\ leaked[s][kind] > 0
  /\ leaked' = [leaked EXCEPT ![s][kind] = @ - 1]
  /\ UNCHANGED contexts

timer_expires(s, kind) ==
  /\ daemon = Idle
  /\ own_timer_expires(s, kind) \/ leaked_timer_expires(s, kind)
  /\ daemon' = Called(kind, s)
  /\ UNCHANGED <<zigbee, jobs, pending, known, starts, failures, history>>

\* Under the mutex nothing looks at in_use again: the slot may have been
\* released, or be another's.
Retries(c) == c.full_retry > 0 /\ c.addr \notin known

\* Mutation: the attempts are not counted.
FromStart_uncounted(c) ==
  [c EXCEPT !.status = "ACTIVE_ENDPOINTS", !.idx = 0, !.retry = RetryCount]

\* Mutation: the data of the earlier attempt stays.
Emptied_not(c) == c

FromStart(c) ==
  [c EXCEPT !.full_retry = @ - 1, !.status = "ACTIVE_ENDPOINTS", !.idx = 0,
            !.retry = RetryCount]
Emptied(c)  == [c EXCEPT !.endpoints = <<>>, !.count = 0]
Rearmed(c)  == [c EXCEPT !.timeout_timer = "running"]

\* The command to start the timer again may fail; nothing asks whether it did.
timeout_retry ==
  LET s == daemon.slot
      c == contexts[s]
      restarted == Emptied(FromStart(c))
  IN
  /\ daemon.at = "timeout"
  /\ Retries(c)
  /\ c.timeout_timer # "none"
  /\ \/ /\ contexts' = [contexts EXCEPT ![s] = Rearmed(restarted)]
        /\ spoilt' = spoilt \ {s}
        /\ UNCHANGED failures
     \/ /\ Fails(1)
        /\ contexts' = [contexts EXCEPT ![s] = restarted]
        /\ spoilt' = spoilt \cup Unarmed({s})
  /\ daemon' = Idle
  /\ pending' = Asked({ActiveEp(c.addr)})
  /\ UNCHANGED <<zigbee, jobs, leaked, known, starts, shared>>

\* If the slot was released, or its timer never created, xTimerReset() gets
\* NULL and its assertion restarts the gateway.
timeout_panic ==
  /\ daemon.at = "timeout"
  /\ Retries(contexts[daemon.slot])
  /\ contexts[daemon.slot].timeout_timer = "none"
  /\ contexts' = [s \in Slots |-> Zeroed]
  /\ zigbee' = Idle
  /\ daemon' = Idle
  /\ jobs' = [x \in Addresses |-> 0]
  /\ leaked' = [s \in Slots |-> [k \in TimerKind |-> 0]]
  /\ pending' = [r \in Requests |-> 0]
  /\ spoilt' = {}
  /\ shared' = {}
  /\ UNCHANGED <<known, starts, failures>>

\* Mutation: the callback leaves the completion to nobody.
timeout_give_up_quietly ==
  /\ daemon.at = "timeout"
  /\ ~ Retries(contexts[daemon.slot])
  /\ daemon' = Idle
  /\ UNCHANGED <<contexts, zigbee, jobs, leaked, pending, known, starts, failures,
                 history>>

\* No retry is left, or the device is known to sleep.
timeout_give_up ==
  /\ daemon.at = "timeout"
  /\ ~ Retries(contexts[daemon.slot])
  /\ daemon' = With("defer", daemon.slot)
  /\ UNCHANGED <<contexts, zigbee, jobs, leaked, pending, known, starts, failures,
                 history>>

basic_read_timeout_callback ==
  LET c == contexts[daemon.slot] IN
  /\ daemon.at = "basic"
  /\ daemon' = IF c.in_use /\ c.status = "BASIC_INFO"
               THEN With("defer", daemon.slot) ELSE Idle
  /\ UNCHANGED <<contexts, zigbee, jobs, leaked, pending, known, starts, failures,
                 history>>

\* Without the mutex again.  If there is no memory for the task, nobody will
\* ever come back to the slot.
interview_finish_deferred ==
  LET s == daemon.slot IN
  /\ daemon.at = "defer"
  /\ daemon' = Idle
  /\ \/ /\ jobs' = [jobs EXCEPT ![contexts[s].addr] = @ + 1]
        /\ UNCHANGED <<failures, spoilt>>
     \/ /\ Fails(1)
        /\ spoilt' = spoilt \cup Unarmed({s})
        /\ UNCHANGED jobs
  /\ UNCHANGED <<contexts, zigbee, leaked, pending, known, starts, shared>>

\* Whichever interview has the address by now.  A task that does not get the
\* mutex gives up, and nobody comes back to the slot either.
interview_finish_task(x) ==
  /\ jobs[x] > 0
  /\ jobs' = [jobs EXCEPT ![x] = @ - 1]
  /\ \/ /\ InterviewsAt(x) # {}
        /\ interview_complete(find_context_by_short(x))
     \/ /\ InterviewsAt(x) = {}
        /\ UNCHANGED <<contexts, leaked, failures, history>>
     \/ /\ Fails(1)
        /\ spoilt' = spoilt \cup Unarmed(InterviewsAt(x))
        /\ UNCHANGED <<contexts, leaked, shared>>
  /\ UNCHANGED <<zigbee, daemon, pending, known, starts>>

-----------------------------------------------------------------------------
Answer ==
  \/ \E r \in Requests : ignore_answer(r)
  \/ \E x \in Addresses :
       \/ active_ep_failed(x)
       \/ \E n \in 0 .. NumEndpoints : zb_interview_handle_active_ep_resp(x, n)
       \/ power_desc_callback(x)
       \/ \E a \in Attributes : zb_interview_handle_read_attr_resp(x, a)
       \/ \E e \in 1 .. NumEndpoints :
            \/ zb_interview_handle_simple_desc_resp(x, e)
            \/ simple_desc_failed(x, e)

HandlerRest == request_first_endpoint \/ request_basic_cluster_attributes

TimerExpires == \E s \in Slots, k \in TimerKind : timer_expires(s, k)

Callback ==
  \/ timeout_retry
  \/ timeout_panic
  \/ timeout_give_up
  \/ basic_read_timeout_callback
  \/ interview_finish_deferred

Next ==
  \/ \E d \in Devices, x \in Addresses :
       \/ zb_interview_start(d, x)
       \/ handle_basic_cluster_report(d, x)
  \/ Answer
  \/ HandlerRest
  \/ TimerExpires
  \/ Callback
  \/ \E x \in Addresses : interview_finish_task(x)

Spec == Init /\ [][Next]_vars

\* Timers expire, and a task that has work gets the processor in the end.  No
\* device has to answer.
Work ==
  \/ TimerExpires
  \/ HandlerRest
  \/ Callback
  \/ \E x \in Addresses : interview_finish_task(x)

FairSpec == Spec /\ WF_vars(Work)

-----------------------------------------------------------------------------
Context ==
  [in_use : BOOLEAN, dev : Devices \cup {Coordinator},
   addr : Addresses \cup {Coordinator}, status : Status, idx : Nat,
   retry : 0 .. RetryCount, full_retry : 0 .. FullRetryCount,
   count : 0 .. NumEndpoints, endpoints : Seq(0 .. NumEndpoints),
   timeout_timer : Timer, basic_timer : BOOLEAN, flags : SUBSET Attributes]

\* Every variable has its type.
TypeOK ==
  /\ contexts \in [Slots -> Context]
  /\ zigbee \in {Idle} \cup {With(p, s) : p \in {"active", "basic"}, s \in Slots}
  /\ daemon \in {Idle} \cup
       {With(p, s) : p \in {"timeout", "basic", "defer"}, s \in Slots}
  /\ jobs \in [Addresses -> Nat]
  /\ leaked \in [Slots -> [TimerKind -> Nat]]
  /\ pending \in [Requests -> Nat]
  /\ known \subseteq Addresses
  /\ starts \in 0 .. MaxStarts
  /\ failures \in 0 .. MaxFailures
  /\ spoilt \subseteq Slots
  /\ shared \subseteq Slots

\* No device is interviewed in two slots at once: zb_interview_start() looks
\* for the device and takes the slot under one hold of the mutex.
OneInterviewPerDevice ==
  \A s, t \in Slots :
    /\ contexts[s].in_use
    /\ contexts[t].in_use
    /\ contexts[s].dev = contexts[t].dev
    => s = t

\* The handlers and interview_complete() index the list of descriptors by
\* counters kept beside it.  Late answers, those of another device at the same
\* address, retries and a restarted attempt leave them in step: the list is as
\* long as the count of endpoints says, and an attempt that starts over starts
\* from an empty list.  Only between the two halves of the handler of an empty
\* list of endpoints may there be descriptors of an earlier one.
InStep(c) ==
  /\ Len(c.endpoints) = c.count
  /\ c.idx <= c.count
  /\ c.status = "ACTIVE_ENDPOINTS" => c.count = 0

EmptyListCame(s) ==
  /\ zigbee = With("active", s)
  /\ contexts[s].count = 0
  /\ contexts[s].idx = 0

ListsInStep ==
  \A s \in Slots : contexts[s].in_use => InStep(contexts[s]) \/ EmptyListCame(s)

\* An interview is never forgotten: its timer runs, or the timer's callback is
\* at work on its slot, or a task is on its way to finish it.  The exceptions
\* are the interviews that lost just that to a failure nobody looks at (of the
\* timer's creation or its command, of the task's creation or its wait for the
\* mutex), and those that had their address in common with another, because
\* the task of one may finish the other.  A forgotten interview refuses every
\* later one of its device and keeps its slot until the gateway restarts.
NoneForgotten ==
  \A s \in Slots : contexts[s].in_use /\ s \notin spoilt \cup shared =>
    \/ contexts[s].timeout_timer = "running"
    \/ daemon \in {With("timeout", s), With("defer", s)}
    \/ jobs[contexts[s].addr] > 0

\* All of it is inductive together with the facts that an interview is that of
\* a device at an address, and that interviews with one address know of each
\* other.
Owned(c) == c.dev \in Devices /\ c.addr \in Addresses

AloneAtAddress ==
  \A s, t \in Slots :
    /\ contexts[s].in_use
    /\ contexts[t].in_use
    /\ contexts[s].addr = contexts[t].addr
    /\ s # t
    => s \in shared

InterviewInv ==
  /\ TypeOK
  /\ \A s \in Slots : contexts[s].in_use => Owned(contexts[s])
  /\ OneInterviewPerDevice
  /\ AloneAtAddress
  /\ ListsInStep
  /\ NoneForgotten

\* Every interview ends, even if the device never answers anything, but for
\* the same exceptions: one whose timer, or whose finishing task, was lost to a
\* failure, and one that had its address in common with another.
InterviewEnds ==
  \A s \in Slots :
    contexts[s].in_use ~> ~ contexts[s].in_use \/ s \in spoilt \cup shared

\* Without the exceptions: every slot comes back.
EverySlotComesBack == \A s \in Slots : contexts[s].in_use ~> ~ contexts[s].in_use

\* A late answer to a request of an earlier attempt is not taken for the
\* answer that is waited for: the place of an endpoint in the result holds
\* that endpoint's descriptor or none.
OwnDescriptors ==
  \A s \in Slots : contexts[s].in_use =>
    \A i \in DOMAIN contexts[s].endpoints : contexts[s].endpoints[i] \in {0, i}

\* A slot is not acted upon after it was released: whenever the timeout
\* callback may still reset its slot's timer, that timer exists.
TimerStillThere ==
  daemon.at = "timeout" /\ Retries(contexts[daemon.slot]) =>
    contexts[daemon.slot].timeout_timer # "none"
=============================================================================
