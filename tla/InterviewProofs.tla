---------------------------- MODULE InterviewProofs ----------------------------
(***************************************************************************)
(* Safety of the interviews, for any number of devices, slots, endpoints   *)
(* and retries.                                                            *)
(***************************************************************************)
EXTENDS Interview, TLAPS, WellFoundedInduction

USE DeviceAssumption, CountAssumption

\* A nonempty set of numbers has a least one: < is well-founded on Nat.
LEMMA LeastExists ==
  ASSUME NEW S \in SUBSET Nat, S # {}
  PROVE  \E k \in S : \A j \in S : k <= j
<1> DEFINE R == OpToRel(<, Nat)
<1>1. \A x, y \in Nat : x < y => <<x, y>> \in R
  BY DEF OpToRel
<1>2. IsWellFoundedOn(R, Nat)
  BY NatLessThanWellFounded
<1> HIDE DEF R
<1>3. PICK k \in S : \A j \in S : ~ (<<j, k>> \in R)
  BY <1>2, WFMin
<1>4. \A j \in S : ~ (j < k)
  BY <1>1, <1>3
<1> QED BY <1>4

\* The first slot that a search over s_contexts finds is one of those it looks
\* for.
LEMMA LowestIsMember ==
  ASSUME NEW S \in SUBSET Slots, S # {}
  PROVE  Lowest(S) \in S
<1>1. S \in SUBSET (0 .. MaxConcurrent) /\ MaxConcurrent \in Nat
  BY DEF Slots
<1>2. \E s \in S : \A t \in S : s <= t
  BY <1>1, LeastExists
<1> QED BY <1>2 DEF Lowest

\* A handler that finds an interview at its address finds a taken slot.
LEMMA FoundContext ==
  ASSUME NEW x, InterviewsAt(x) # {}
  PROVE  /\ find_context_by_short(x) \in Slots
         /\ contexts[find_context_by_short(x)].in_use
         /\ contexts[find_context_by_short(x)].addr = x
<1>1. InterviewsAt(x) \in SUBSET Slots
  BY DEF InterviewsAt
<1>2. find_context_by_short(x) \in InterviewsAt(x)
  BY <1>1, LowestIsMember DEF find_context_by_short
<1> QED BY <1>2 DEF InterviewsAt

\* What a step may leave in one slot that was taken: the slot free, or the
\* same interview, its timer as it was or running.
Continues(c, d) ==
  \/ ~ d.in_use
  \/ /\ d.in_use
     /\ c.in_use
     /\ d.dev = c.dev
     /\ d.addr = c.addr
     /\ d.timeout_timer \in {c.timeout_timer, "running"}

\* The history of a slot goes on, or ends with its interview.
Remembers(s, d) ==
  \/ UNCHANGED history
  \/ ~ d.in_use /\ spoilt' = spoilt \ {s} /\ shared' = shared \ {s}

\* A step that changes one slot, and leaves in it what Continues allows, its
\* counters in step, keeps the invariant.
LEMMA SlotStep ==
  ASSUME InterviewInv,
         NEW s \in Slots, NEW c \in Context,
         contexts' = [contexts EXCEPT ![s] = c],
         Continues(contexts[s], c),
         Remembers(s, c),
         c.in_use => InStep(c) \/ EmptyListCame(s)',
         zigbee' = zigbee \/ \A t \in Slots \ {s} : zigbee # With("active", t),
         UNCHANGED <<daemon, jobs, starts>>,
         known' \subseteq Addresses,
         zigbee' \in {zigbee, Idle} \cup {With(p, s) : p \in {"active", "basic"}},
         leaked' \in [Slots -> [TimerKind -> Nat]],
         pending' \in [Requests -> Nat],
         failures' \in 0 .. MaxFailures
  PROVE  InterviewInv'
<1> USE DEF InterviewInv
<1>1. contexts' \in [Slots -> Context]
  BY DEF TypeOK
<1>2. /\ spoilt' \subseteq Slots /\ shared' \subseteq Slots
      /\ spoilt' \in {spoilt, spoilt \ {s}}
      /\ shared' \in {shared, shared \ {s}}
      /\ c.in_use => spoilt' = spoilt /\ shared' = shared
  BY DEF TypeOK, Remembers, history
<1>3. \A t \in Slots : t # s => contexts'[t] = contexts[t]
  BY DEF TypeOK
<1>4. contexts'[s] = c
  BY DEF TypeOK
<1>5. (\A t \in Slots : contexts[t].in_use => Owned(contexts[t]))'
  BY <1>3, <1>4 DEF Owned, Continues
<1>6. OneInterviewPerDevice'
  BY <1>3, <1>4 DEF OneInterviewPerDevice, Continues
<1>7. AloneAtAddress'
  BY <1>2, <1>3, <1>4 DEF AloneAtAddress, Continues
<1>8. ListsInStep'
  <2> SUFFICES ASSUME NEW t \in Slots, contexts'[t].in_use
               PROVE  InStep(contexts'[t]) \/ EmptyListCame(t)'
    BY DEF ListsInStep
  <2>1. CASE t = s
    BY <2>1, <1>4
  <2>2. CASE t # s
    <3>1. contexts'[t] = contexts[t]
      BY <1>3, <2>2
    <3>2. InStep(contexts[t]) \/ EmptyListCame(t)
      BY <3>1 DEF ListsInStep
    <3> QED BY <2>2, <3>1, <3>2 DEF EmptyListCame
  <2> QED BY <2>1, <2>2
<1>9. NoneForgotten'
  BY <1>2, <1>3, <1>4 DEF NoneForgotten, Continues
<1>10. TypeOK'
  BY <1>1, <1>2 DEF TypeOK
<1> QED BY <1>5, <1>6, <1>7, <1>8, <1>9, <1>10

\* memset() leaves a free slot.
LEMMA ZeroedContext == Zeroed \in Context /\ ~ Zeroed.in_use
BY DEF Zeroed, Context, Status, Timer, Attributes

\* After zb_interview_init() every slot is free, and nothing is under way.
LEMMA InitInv == Init => InterviewInv
<1> SUFFICES ASSUME Init PROVE InterviewInv
  OBVIOUS
<1>1. Zeroed \in Context
  BY ZeroedContext
<1>2. \A s \in Slots : contexts[s] = Zeroed /\ ~ contexts[s].in_use
  BY DEF Init, Zeroed
<1>3. TypeOK
  BY <1>1 DEF Init, TypeOK, Idle
<1> QED BY <1>2, <1>3 DEF InterviewInv, OneInterviewPerDevice, AloneAtAddress,
                          ListsInStep, NoneForgotten

\* Taking one answer, and asking anew, keeps the requests counted.
LEMMA PendingStep ==
  ASSUME TypeOK, NEW req \in Requests, pending[req] > 0
  PROVE  /\ Consumed(req) \in [Requests -> Nat]
         /\ \A next : Replaced(req, next) \in [Requests -> Nat]
         /\ \A reqs : Asked(reqs) \in [Requests -> Nat]
<1>1. pending \in [Requests -> Nat]
  BY DEF TypeOK
<1>2. Consumed(req) \in [Requests -> Nat]
  BY <1>1 DEF Consumed
<1>3. ASSUME NEW next
      PROVE  Replaced(req, next) \in [Requests -> Nat]
  <2> DEFINE f == Consumed(req)
  <2>1. f \in [Requests -> Nat]
    BY <1>2
  <2> HIDE DEF f
  <2>2. [f EXCEPT ![next] = @ + 1] \in [Requests -> Nat]
    <3>1. CASE next \in Requests
      BY <2>1, <3>1
    <3>2. CASE next \notin Requests
      <4>1. [f EXCEPT ![next] = @ + 1] = f
        BY <2>1, <3>2, Zenon
      <4> QED BY <2>1, <4>1
    <3> QED BY <3>1, <3>2
  <2> QED BY <2>2 DEF Replaced, f
<1> QED BY <1>1, <1>2, <1>3 DEF Asked

\* So does asking without an answer.
LEMMA AskedStep ==
  ASSUME TypeOK, NEW reqs
  PROVE  Asked(reqs) \in [Requests -> Nat]
BY DEF TypeOK, Asked

\* What is counted of the leaked timers stays a number.
LEMMA LeakingType ==
  ASSUME TypeOK, NEW s \in Slots, NEW kinds
  PROVE  Leaking(s, kinds) \in [Slots -> [TimerKind -> Nat]]
<1>1. leaked \in [Slots -> [TimerKind -> Nat]]
  BY DEF TypeOK
<1>2. [k \in TimerKind |-> IF k \in kinds THEN leaked[s][k] + 1 ELSE leaked[s][k]]
        \in [TimerKind -> Nat]
  BY <1>1
<1> QED BY <1>1, <1>2 DEF Leaking

\* A failure is within the bound.
LEMMA FailsType ==
  ASSUME TypeOK, NEW n \in Nat, Fails(n)
  PROVE  failures' \in 0 .. MaxFailures
BY DEF TypeOK, Fails

\* interview_complete() leaves a free slot.
LEMMA ReleasedContext ==
  ASSUME NEW c \in Context, NEW s
  PROVE  Released(s, c) \in Context /\ ~ Released(s, c).in_use
<1>1. Zeroed \in Context /\ ~ Zeroed.in_use
  BY ZeroedContext
<1>2. /\ c.addr \in Addresses \cup {Coordinator}
      /\ c.full_retry \in 0 .. FullRetryCount
      /\ c.count \in 0 .. NumEndpoints
  BY DEF Context
<1> QED BY <1>1, <1>2 DEF Released, Context

\* What interview_complete() does, with or without a full queue of commands.
LEMMA Completion ==
  ASSUME TypeOK, NEW s \in Slots, NEW lost, NEW n \in Nat,
         complete_without(s, lost, n)
  PROVE  \E c \in Context :
         /\ ~ c.in_use
         /\ contexts' = [contexts EXCEPT ![s] = c]
         /\ leaked' \in [Slots -> [TimerKind -> Nat]]
         /\ failures' \in 0 .. MaxFailures
         /\ spoilt' = spoilt \ {s}
         /\ shared' = shared \ {s}
<1> DEFINE c == Released(s, contexts[s])
<1>1. contexts[s] \in Context
  BY DEF TypeOK
<1>2. c \in Context /\ ~ c.in_use
  BY <1>1, ReleasedContext
<1>3. /\ contexts' = [contexts EXCEPT ![s] = c]
      /\ spoilt' = spoilt \ {s}
      /\ shared' = shared \ {s}
  BY DEF complete_without
<1>4. PICK left \in SUBSET (Running(contexts[s]) \ lost) :
        /\ Fails(IF left = {} THEN n ELSE n + 1)
        /\ leaked' = Leaking(s, lost \cup left)
  BY DEF complete_without
<1>5. failures' \in 0 .. MaxFailures
  <2>1. PICK m \in Nat : Fails(m)
    BY <1>4
  <2> QED BY <2>1, FailsType
<1>6. leaked' \in [Slots -> [TimerKind -> Nat]]
  BY <1>4, LeakingType
<1> HIDE DEF c
<1> QED BY <1>2, <1>3, <1>5, <1>6

\* A step that completes an interview keeps the invariant.
LEMMA CompletionKeepsInv ==
  ASSUME InterviewInv,
         NEW s \in Slots, NEW lost, NEW n \in Nat, complete_without(s, lost, n),
         UNCHANGED <<daemon, jobs, starts>>,
         known' \subseteq Addresses,
         zigbee' = zigbee
           \/ (zigbee' = Idle /\ \A t \in Slots \ {s} : zigbee # With("active", t)),
         pending' \in [Requests -> Nat]
  PROVE  InterviewInv'
<1>1. TypeOK
  BY DEF InterviewInv
<1>2. PICK c \in Context :
        /\ ~ c.in_use
        /\ contexts' = [contexts EXCEPT ![s] = c]
        /\ leaked' \in [Slots -> [TimerKind -> Nat]]
        /\ failures' \in 0 .. MaxFailures
        /\ spoilt' = spoilt \ {s}
        /\ shared' = shared \ {s}
  BY <1>1, Completion
<1>3. Continues(contexts[s], c) /\ Remembers(s, c)
  BY <1>2 DEF Continues, Remembers
<1>4. zigbee' = zigbee \/ \A t \in Slots \ {s} : zigbee # With("active", t)
  OBVIOUS
<1>5. zigbee' \in {zigbee, Idle} \cup {With(p, s) : p \in {"active", "basic"}}
  OBVIOUS
<1>6. c.in_use => InStep(c) \/ EmptyListCame(s)'
  BY <1>2
<1> QED BY <1>2, <1>3, <1>4, <1>5, <1>6, SlotStep, ZenonT(60)

\* What the gateway asks a device is a request.
LEMMA RequestTypes ==
  ASSUME NEW x \in Addresses
  PROVE  /\ ActiveEp(x) \in Requests
         /\ PowerDesc(x) \in Requests
         /\ \A a \in Attributes : ReadAttr(x, a) \in Requests
         /\ \A e \in 1 .. NumEndpoints : SimpleDesc(x, e) \in Requests
BY DEF ActiveEp, PowerDesc, ReadAttr, SimpleDesc, Requests

-----------------------------------------------------------------------------
\* A report may complete the interview of its device.
LEMMA ReportKeepsInv ==
  ASSUME InterviewInv, NEW d \in Devices, NEW x \in Addresses,
         handle_basic_cluster_report(d, x)
  PROVE  InterviewInv'
<1>1. /\ zigbee' = zigbee /\ known' \subseteq Addresses
      /\ UNCHANGED <<daemon, jobs, pending, starts>>
  BY DEF handle_basic_cluster_report, InterviewInv, TypeOK
<1>2. CASE UNCHANGED <<contexts, leaked, failures, history>>
  BY <1>1, <1>2 DEF InterviewInv, TypeOK, OneInterviewPerDevice, AloneAtAddress,
     ListsInStep, EmptyListCame, NoneForgotten, Owned, history
<1>3. CASE InterviewsOf(d) # {} /\ interview_complete(find_context_by_ieee(d))
  <2>1. find_context_by_ieee(d) \in Slots
    <3>1. InterviewsOf(d) \in SUBSET Slots
      BY DEF InterviewsOf
    <3> QED BY <1>3, <3>1, LowestIsMember DEF find_context_by_ieee
  <2>2. complete_without(find_context_by_ieee(d), {}, 0)
    BY <1>3 DEF interview_complete
  <2>3. pending' \in [Requests -> Nat]
    BY <1>1 DEF InterviewInv, TypeOK
  <2>4. 0 \in Nat
    OBVIOUS
  <2> QED BY <1>1, <2>1, <2>2, <2>3, <2>4, CompletionKeepsInv, ZenonT(60)
<1> QED BY <1>1, <1>2, <1>3 DEF handle_basic_cluster_report

\* An answer nobody waits for changes no slot.
LEMMA IgnoreKeepsInv ==
  ASSUME InterviewInv, NEW r \in Requests, ignore_answer(r)
  PROVE  InterviewInv'
<1>1. pending' \in [Requests -> Nat]
  BY PendingStep DEF ignore_answer, Answered, InterviewInv
<1> QED BY <1>1 DEF ignore_answer, InterviewInv, TypeOK, OneInterviewPerDevice,
     AloneAtAddress, ListsInStep, EmptyListCame, NoneForgotten, Owned, history

\* What the handler of an answer knows of the slot it has found.
LEMMA HandlersContext ==
  ASSUME InterviewInv, NEW req \in Requests, Answered(req), Wanted(req)
  PROVE  LET s == find_context_by_short(req.addr) IN
         /\ s \in Slots
         /\ contexts[s] \in Context
         /\ contexts[s].in_use
         /\ contexts[s].addr = req.addr
         /\ InStep(contexts[s])
         /\ zigbee = Idle
         /\ \A t \in Slots : zigbee # With("active", t)
<1>1. InterviewsAt(req.addr) # {} /\ zigbee = Idle
  BY DEF Wanted, Answered
<1>2. \A t \in Slots : zigbee # With("active", t)
  BY <1>1 DEF Idle, With
<1> DEFINE s == find_context_by_short(req.addr)
<1>3. s \in Slots /\ contexts[s].in_use /\ contexts[s].addr = req.addr
  BY <1>1, FoundContext
<1> HIDE DEF s
<1>4. contexts[s] \in Context
  BY <1>3 DEF InterviewInv, TypeOK
<1>5. InStep(contexts[s])
  BY <1>2, <1>3 DEF InterviewInv, ListsInStep, EmptyListCame
<1> QED BY <1>1, <1>2, <1>3, <1>4, <1>5 DEF s

\* The handlers that leave the interview in its slot use one step.
LEMMA HandlerStep ==
  ASSUME InterviewInv, NEW req \in Requests, Answered(req), Wanted(req),
         NEW s, s = find_context_by_short(req.addr),
         NEW c \in Context,
         contexts' = [contexts EXCEPT ![s] = c],
         Continues(contexts[s], c),
         c.in_use => InStep(c) \/ EmptyListCame(s)',
         UNCHANGED <<daemon, jobs, leaked, known, starts, failures, history>>,
         zigbee' \in {Idle} \cup {With(p, s) : p \in {"active", "basic"}},
         pending' \in [Requests -> Nat]
  PROVE  InterviewInv'
<1>1. s \in Slots /\ zigbee = Idle /\ \A t \in Slots : zigbee # With("active", t)
  BY HandlersContext
<1>2. /\ known' \subseteq Addresses
      /\ leaked' \in [Slots -> [TimerKind -> Nat]]
      /\ failures' \in 0 .. MaxFailures
  BY DEF InterviewInv, TypeOK
<1>3. Remembers(s, c)
  BY DEF Remembers
<1>4. zigbee' = zigbee \/ \A t \in Slots \ {s} : zigbee # With("active", t)
  BY <1>1
<1>5. zigbee' \in {zigbee, Idle} \cup {With(p, s) : p \in {"active", "basic"}}
  OBVIOUS
<1> QED BY <1>1, <1>2, <1>3, <1>4, <1>5, SlotStep, ZenonT(60)

\* Those that complete it use another.
LEMMA HandlerCompletes ==
  ASSUME InterviewInv, NEW req \in Requests, Answered(req), Wanted(req),
         NEW s, s = find_context_by_short(req.addr),
         NEW n \in Nat, complete_without(s, {}, n),
         UNCHANGED <<zigbee, daemon, jobs, known, starts>>,
         pending' \in [Requests -> Nat]
  PROVE  InterviewInv'
<1>1. s \in Slots
  BY HandlersContext
<1>2. known' \subseteq Addresses
  BY DEF InterviewInv, TypeOK
<1> QED BY <1>1, <1>2, CompletionKeepsInv, ZenonT(60)

\* Another attempt at a request uses up a retry.
LEMMA AskedAgainContext ==
  ASSUME NEW c \in Context, c.in_use, InStep(c), MayRetry(c)
  PROVE  /\ AskedAgain(c) \in Context
         /\ Continues(c, AskedAgain(c))
         /\ InStep(AskedAgain(c))
<1>1. c.retry - 1 \in 0 .. RetryCount
  BY DEF Context, MayRetry
<1>2. AskedAgain(c) \in Context
  BY <1>1 DEF Context, AskedAgain
<1>3. Continues(c, AskedAgain(c)) /\ InStep(AskedAgain(c))
  BY DEF Continues, InStep, Context, AskedAgain
<1> QED BY <1>2, <1>3

\* The list of endpoints replaces whatever the slot held, and the counters
\* with it; an empty one only the counters.
LEMMA ListedContext ==
  ASSUME NEW c \in Context, c.in_use, NEW n \in 0 .. NumEndpoints
  PROVE  LET next == Listed(c, n) IN
         /\ next \in Context
         /\ Continues(c, next)
         /\ next.count = n
         /\ next.idx = 0
         /\ n > 0 => InStep(next)
<1> DEFINE e == IF n > 0 THEN [i \in 1 .. n |-> 0] ELSE c.endpoints
           next == [c EXCEPT !.status = "SIMPLE_DESC", !.idx = 0, !.count = n,
                             !.retry = RetryCount, !.endpoints = e]
<1>1. e \in Seq(0 .. NumEndpoints) /\ (n > 0 => Len(e) = n)
  <2>1. CASE n > 0
    BY <2>1
  <2>2. CASE n = 0
    BY <2>2 DEF Context
  <2> QED BY <2>1, <2>2
<1>2. Listed(c, n) = next
  BY DEF Listed
<1> HIDE DEF e
<1>3. "SIMPLE_DESC" \in Status /\ RetryCount \in 0 .. RetryCount /\ 0 \in Nat
  BY DEF Status
<1>4. next \in Context
  BY <1>1, <1>3 DEF Context
<1>5. Continues(c, next) /\ next.count = n /\ next.idx = 0
  BY DEF Continues, Context
<1>6. n > 0 => InStep(next)
  BY <1>1 DEF InStep, Context
<1> QED BY <1>2, <1>4, <1>5, <1>6

\* Going on to the next endpoint stays within the list.
LEMMA SkippedContext ==
  ASSUME NEW c \in Context, c.in_use, InStep(c),
         c.status = "SIMPLE_DESC", c.idx < Len(c.endpoints)
  PROVE  /\ Skipped(c) \in Context
         /\ Continues(c, Skipped(c))
         /\ InStep(Skipped(c))
<1>1. c.idx + 1 \in Nat /\ c.idx + 1 <= c.count /\ RetryCount \in 0 .. RetryCount
  BY DEF Context, InStep
<1>2. Skipped(c) \in Context
  BY <1>1 DEF Context, Skipped
<1>3. Continues(c, Skipped(c)) /\ InStep(Skipped(c))
  BY <1>1 DEF Continues, InStep, Context, Skipped
<1> QED BY <1>2, <1>3

\* A descriptor is stored within the list.
LEMMA DescribedContext ==
  ASSUME NEW c \in Context, c.in_use, InStep(c),
         c.status = "SIMPLE_DESC", c.idx < Len(c.endpoints),
         NEW e \in 0 .. NumEndpoints
  PROVE  LET next == Skipped(Described(c, e)) IN
         next \in Context /\ Continues(c, next) /\ InStep(next)
<1> DEFINE list == [c.endpoints EXCEPT ![c.idx + 1] = e]
           new == Described(c, e)
<1>1. list \in Seq(0 .. NumEndpoints) /\ Len(list) = Len(c.endpoints)
  BY SMTT(60) DEF Context
<1>2. new = [c EXCEPT !.endpoints = list]
  BY DEF Described, Context
<1> HIDE DEF list
<1>3. new \in Context
  BY <1>1, <1>2 DEF Context
<1>4. /\ new.in_use = c.in_use /\ new.dev = c.dev /\ new.addr = c.addr
      /\ new.count = c.count /\ new.status = c.status /\ new.idx = c.idx
      /\ new.timeout_timer = c.timeout_timer
      /\ Len(new.endpoints) = Len(c.endpoints)
  BY <1>1, <1>2 DEF Context
<1> HIDE DEF new
<1>5. InStep(new)
  BY <1>4 DEF InStep
<1>6. Skipped(new) \in Context /\ Continues(new, Skipped(new)) /\ InStep(Skipped(new))
  BY <1>3, <1>4, <1>5, SkippedContext
<1>7. Continues(c, Skipped(new))
  BY <1>4, <1>6 DEF Continues
<1> QED BY <1>6, <1>7 DEF new

\* An error instead of the list of endpoints.
LEMMA ActiveEpFailedKeepsInv ==
  ASSUME InterviewInv, NEW x \in Addresses, active_ep_failed(x)
  PROVE  InterviewInv'
<1> DEFINE req == ActiveEp(x)
<1>1. /\ Answered(req) /\ Wanted(req)
      /\ UNCHANGED <<zigbee, daemon, jobs, known, starts>>
  BY DEF active_ep_failed
<1>2. req \in Requests /\ req.addr = x
  BY RequestTypes DEF ActiveEp
<1>3. PICK s : s = find_context_by_short(x)
  OBVIOUS
<1>4. /\ s \in Slots /\ contexts[s] \in Context /\ contexts[s].in_use
      /\ InStep(contexts[s]) /\ zigbee = Idle
  BY <1>1, <1>2, <1>3, HandlersContext
<1>5. pending' \in [Requests -> Nat]
  BY <1>1, <1>2, PendingStep DEF active_ep_failed, Answered, InterviewInv
<1>6. CASE /\ MayRetry(contexts[s])
           /\ contexts' = [contexts EXCEPT ![s] = AskedAgain(@)]
           /\ UNCHANGED <<leaked, failures, history>>
  <2>1. PICK next \in Context :
          /\ next = AskedAgain(contexts[s])
          /\ Continues(contexts[s], next)
          /\ InStep(next)
    BY <1>4, <1>6, AskedAgainContext
  <2>2. contexts' = [contexts EXCEPT ![s] = next]
    BY <1>6, <2>1
  <2>3. zigbee' \in {Idle} \cup {With(p, s) : p \in {"active", "basic"}}
    BY <1>1, <1>4
  <2>4. /\ s = find_context_by_short(req.addr)
        /\ next.in_use => InStep(next) \/ EmptyListCame(s)'
        /\ UNCHANGED <<daemon, jobs, leaked, known, starts, failures, history>>
    BY <1>1, <1>2, <1>3, <1>6, <2>1
  <2> HIDE DEF req
  <2> QED BY <1>1, <1>2, <1>5, <2>1, <2>2, <2>3, <2>4, HandlerStep, ZenonT(60)
<1>7. CASE interview_complete(s)
  <2>1. complete_without(s, {}, 0) /\ 0 \in Nat
    BY <1>7 DEF interview_complete
  <2> HIDE DEF req
  <2> QED BY <1>1, <1>2, <1>3, <1>5, <2>1, HandlerCompletes, ZenonT(60)
<1> QED BY <1>3, <1>6, <1>7 DEF active_ep_failed

\* The list of endpoints, empty or not, wanted or late.
LEMMA ActiveEpKeepsInv ==
  ASSUME InterviewInv, NEW x \in Addresses, NEW n \in 0 .. NumEndpoints,
         zb_interview_handle_active_ep_resp(x, n)
  PROVE  InterviewInv'
<1> DEFINE req == ActiveEp(x)
<1>1. /\ Answered(req) /\ Wanted(req)
      /\ UNCHANGED <<daemon, jobs, known, starts>>
  BY DEF zb_interview_handle_active_ep_resp
<1>2. req \in Requests /\ req.addr = x
  BY RequestTypes DEF ActiveEp
<1>3. PICK s : s = find_context_by_short(x)
  OBVIOUS
<1>4. s \in Slots /\ contexts[s] \in Context /\ contexts[s].in_use
  BY <1>1, <1>2, <1>3, HandlersContext
<1>5. pending' \in [Requests -> Nat]
  BY <1>1, <1>2, PendingStep DEF zb_interview_handle_active_ep_resp, Answered,
     InterviewInv
<1>6. CASE /\ contexts' = [contexts EXCEPT ![s] = Listed(@, n)]
           /\ zigbee' = With("active", s)
           /\ UNCHANGED <<leaked, failures, history>>
  <2>1. PICK next \in Context :
          /\ next = Listed(contexts[s], n)
          /\ Continues(contexts[s], next)
          /\ next.count = n
          /\ next.idx = 0
          /\ n > 0 => InStep(next)
    BY <1>4, ListedContext
  <2>2. contexts' = [contexts EXCEPT ![s] = next]
    BY <1>6, <2>1
  <2>3. InStep(next) \/ EmptyListCame(s)'
    <3>1. contexts'[s] = next
      BY <1>4, <2>2 DEF InterviewInv, TypeOK
    <3> QED BY <1>6, <2>1, <3>1 DEF EmptyListCame
  <2>4. zigbee' \in {Idle} \cup {With(p, s) : p \in {"active", "basic"}}
    BY <1>6
  <2> HIDE DEF req
  <2> QED BY <1>1, <1>2, <1>3, <1>5, <1>6, <2>1, <2>2, <2>3, <2>4, HandlerStep,
            ZenonT(60)
<1>7. CASE complete_without(s, {}, 1) /\ UNCHANGED zigbee
  <2>1. 1 \in Nat
    OBVIOUS
  <2> HIDE DEF req
  <2> QED BY <1>1, <1>2, <1>3, <1>5, <1>7, <2>1, HandlerCompletes, ZenonT(60)
<1> QED BY <1>3, <1>6, <1>7 DEF zb_interview_handle_active_ep_resp

\* A descriptor of the endpoint that is waited for, or of another one.
LEMMA SimpleDescKeepsInv ==
  ASSUME InterviewInv, NEW x \in Addresses, NEW e \in 1 .. NumEndpoints,
         zb_interview_handle_simple_desc_resp(x, e)
  PROVE  InterviewInv'
<1> DEFINE req == SimpleDesc(x, e)
<1>1. PICK s : s = find_context_by_short(x)
  OBVIOUS
<1>2. PICK c : c = contexts[s]
  OBVIOUS
<1>3. /\ Answered(req) /\ Wanted(req) /\ pending' = Replaced(req, NextRequest(c))
      /\ UNCHANGED <<zigbee, daemon, jobs, leaked, known, starts, failures, history>>
  BY <1>1, <1>2 DEF zb_interview_handle_simple_desc_resp
<1>4. req \in Requests /\ req.addr = x /\ req.kind = "simple"
  BY RequestTypes DEF SimpleDesc
<1>5. s \in Slots /\ c \in Context /\ c.in_use /\ InStep(c) /\ zigbee = Idle
  BY <1>1, <1>2, <1>3, <1>4, HandlersContext
<1>6. c.status = "SIMPLE_DESC" /\ c.idx < Len(c.endpoints)
  BY <1>1, <1>2, <1>3, <1>4 DEF Wanted
<1>7. pending' \in [Requests -> Nat]
  BY <1>3, <1>4, PendingStep DEF Answered, InterviewInv
<1>8. PICK described \in {e, c.endpoints[c.idx + 1]} :
        contexts' = [contexts EXCEPT ![s] = Skipped(Described(@, described))]
  BY <1>1, <1>2 DEF zb_interview_handle_simple_desc_resp
<1>9. described \in 0 .. NumEndpoints
  <2>1. c.endpoints \in Seq(0 .. NumEndpoints) /\ c.idx + 1 \in DOMAIN c.endpoints
    BY <1>5, <1>6, SMTT(60) DEF Context
  <2> QED BY <2>1, SMTT(60)
<1>10. PICK next \in Context :
         /\ next = Skipped(Described(c, described))
         /\ Continues(c, next)
         /\ InStep(next)
  BY <1>5, <1>6, <1>9, DescribedContext
<1>11. contexts' = [contexts EXCEPT ![s] = next]
  BY <1>2, <1>8, <1>10
<1>12. zigbee' \in {Idle} \cup {With(p, s) : p \in {"active", "basic"}}
  BY <1>3, <1>5
<1> HIDE DEF req
<1> QED BY <1>1, <1>2, <1>3, <1>4, <1>7, <1>10, <1>11, <1>12, HandlerStep, ZenonT(60)

\* An error instead of a descriptor.
LEMMA SimpleDescFailedKeepsInv ==
  ASSUME InterviewInv, NEW x \in Addresses, NEW e \in 1 .. NumEndpoints,
         simple_desc_failed(x, e)
  PROVE  InterviewInv'
<1> DEFINE req == SimpleDesc(x, e)
<1>1. PICK s : s = find_context_by_short(x)
  OBVIOUS
<1>2. PICK c : c = contexts[s]
  OBVIOUS
<1>3. /\ Answered(req) /\ Wanted(req)
      /\ UNCHANGED <<zigbee, daemon, jobs, leaked, known, starts, failures, history>>
  BY DEF simple_desc_failed
<1>4. req \in Requests /\ req.addr = x /\ req.kind = "simple"
  BY RequestTypes DEF SimpleDesc
<1>5. s \in Slots /\ c \in Context /\ c.in_use /\ InStep(c) /\ zigbee = Idle
  BY <1>1, <1>2, <1>3, <1>4, HandlersContext
<1>6. c.status = "SIMPLE_DESC" /\ c.idx < Len(c.endpoints)
  BY <1>1, <1>2, <1>3, <1>4 DEF Wanted
<1>7. pending' \in [Requests -> Nat]
  BY <1>3, <1>4, PendingStep DEF simple_desc_failed, Answered, InterviewInv
<1>8. \/ MayRetry(c) /\ contexts' = [contexts EXCEPT ![s] = AskedAgain(c)]
      \/ contexts' = [contexts EXCEPT ![s] = Skipped(c)]
  BY <1>1, <1>2 DEF simple_desc_failed
<1>9. PICK next \in Context :
        /\ Continues(c, next)
        /\ InStep(next)
        /\ contexts' = [contexts EXCEPT ![s] = next]
  BY <1>5, <1>6, <1>8, AskedAgainContext, SkippedContext
<1>10. zigbee' \in {Idle} \cup {With(p, s) : p \in {"active", "basic"}}
  BY <1>3, <1>5
<1> HIDE DEF req
<1> QED BY <1>1, <1>2, <1>3, <1>4, <1>7, <1>9, <1>10, HandlerStep, ZenonT(60)

\* The power descriptor, in whatever phase it comes.
LEMMA PowerDescKeepsInv ==
  ASSUME InterviewInv, NEW x \in Addresses, power_desc_callback(x)
  PROVE  InterviewInv'
<1> DEFINE req == PowerDesc(x)
<1>1. PICK s : s = find_context_by_short(x)
  OBVIOUS
<1>2. PICK c : c = contexts[s]
  OBVIOUS
<1>3. /\ Answered(req) /\ Wanted(req)
      /\ pending' = Consumed(req) /\ zigbee' = With("basic", s)
      /\ UNCHANGED <<daemon, jobs, leaked, known, starts, failures, history>>
  BY <1>1 DEF power_desc_callback
<1>4. req \in Requests /\ req.addr = x
  BY RequestTypes DEF PowerDesc
<1>5. s \in Slots /\ c \in Context /\ c.in_use /\ InStep(c)
  BY <1>1, <1>2, <1>3, <1>4, HandlersContext
<1>6. pending' \in [Requests -> Nat]
  BY <1>3, <1>4, PendingStep DEF Answered, InterviewInv
<1>7. PICK next : next = [c EXCEPT !.status = "BASIC_INFO"]
  OBVIOUS
<1>8. contexts' = [contexts EXCEPT ![s] = next]
  BY <1>1, <1>2, <1>7 DEF power_desc_callback
<1>9. next \in Context /\ Continues(c, next) /\ InStep(next)
  BY <1>5, <1>7 DEF Context, Status, Continues, InStep
<1>10. zigbee' \in {Idle} \cup {With(p, s) : p \in {"active", "basic"}}
  BY <1>3
<1> HIDE DEF req
<1> QED BY <1>1, <1>2, <1>3, <1>4, <1>6, <1>8, <1>9, <1>10, HandlerStep, ZenonT(60)

\* An answer to the reads of the Basic cluster; the last one completes the
\* interview.
LEMMA ReadAttrKeepsInv ==
  ASSUME InterviewInv, NEW x \in Addresses, NEW a \in Attributes,
         zb_interview_handle_read_attr_resp(x, a)
  PROVE  InterviewInv'
<1> DEFINE req == ReadAttr(x, a)
<1>1. PICK s : s = find_context_by_short(x)
  OBVIOUS
<1>2. PICK c : c = contexts[s]
  OBVIOUS
<1>3. /\ Answered(req) /\ Wanted(req) /\ pending' = Consumed(req)
      /\ UNCHANGED <<zigbee, daemon, jobs, known, starts>>
  BY DEF zb_interview_handle_read_attr_resp
<1>4. req \in Requests /\ req.addr = x
  BY RequestTypes DEF ReadAttr
<1>5. s \in Slots /\ c \in Context /\ c.in_use /\ InStep(c) /\ zigbee = Idle
  BY <1>1, <1>2, <1>3, <1>4, HandlersContext
<1>6. pending' \in [Requests -> Nat]
  BY <1>3, <1>4, PendingStep DEF Answered, InterviewInv
<1>7. PICK flags \in {c.flags, c.flags \cup {a}} :
        \/ /\ contexts' = [contexts EXCEPT ![s].flags = flags]
           /\ UNCHANGED <<leaked, failures, history>>
        \/ interview_complete(s)
  BY <1>1, <1>2 DEF zb_interview_handle_read_attr_resp
<1>8. CASE /\ contexts' = [contexts EXCEPT ![s].flags = flags]
           /\ UNCHANGED <<leaked, failures, history>>
  <2>1. PICK next : next = [c EXCEPT !.flags = flags]
    OBVIOUS
  <2>2. contexts' = [contexts EXCEPT ![s] = next]
    BY <1>2, <1>8, <2>1
  <2>3. next \in Context /\ Continues(c, next) /\ InStep(next)
    BY <1>5, <2>1 DEF Context, Continues, InStep
  <2>4. zigbee' \in {Idle} \cup {With(p, s) : p \in {"active", "basic"}}
    BY <1>3, <1>5
  <2>5. /\ s = find_context_by_short(req.addr)
        /\ Continues(contexts[s], next)
        /\ next.in_use => InStep(next) \/ EmptyListCame(s)'
        /\ UNCHANGED <<daemon, jobs, leaked, known, starts, failures, history>>
    BY <1>1, <1>2, <1>3, <1>4, <1>8, <2>3
  <2>6. Answered(req) /\ Wanted(req) /\ next \in Context
    BY <1>3, <2>3
  <2> HIDE DEF req
  <2> QED BY <1>4, <1>6, <2>2, <2>4, <2>5, <2>6, HandlerStep, ZenonT(60)
<1>9. CASE interview_complete(s)
  <2>1. complete_without(s, {}, 0) /\ 0 \in Nat
    BY <1>9 DEF interview_complete
  <2> HIDE DEF req
  <2> QED BY <1>1, <1>3, <1>4, <1>6, <2>1, HandlerCompletes, ZenonT(60)
<1> QED BY <1>7, <1>8, <1>9

\* The rest of the handler of the list of endpoints, in a slot that may be
\* another interview's by then.
LEMMA FirstEndpointKeepsInv ==
  ASSUME InterviewInv, request_first_endpoint
  PROVE  InterviewInv'
<1>1. PICK s : s = zigbee.slot
  OBVIOUS
<1>2. /\ zigbee.at = "active" /\ zigbee' = Idle
      /\ UNCHANGED <<daemon, jobs, known, starts>>
  BY DEF request_first_endpoint
<1>3. s \in Slots /\ zigbee = With("active", s)
  BY <1>1, <1>2 DEF InterviewInv, TypeOK, Idle, With
<1>4. \A t \in Slots \ {s} : zigbee # With("active", t)
  BY <1>3 DEF With
<1>5. pending' \in [Requests -> Nat]
  BY AskedStep DEF request_first_endpoint, InterviewInv, TypeOK
<1>6. known' \subseteq Addresses
  BY <1>2 DEF InterviewInv, TypeOK
<1>7. CASE /\ contexts[s].count > 0
           /\ UNCHANGED <<contexts, leaked, failures, history>>
  <2>1. TypeOK'
    BY <1>2, <1>5, <1>7 DEF InterviewInv, TypeOK, history
  <2>2. ListsInStep'
    <3>1. \A t \in Slots : ~ EmptyListCame(t)
      BY <1>4, <1>7 DEF EmptyListCame
    <3> QED BY <1>7, <3>1 DEF InterviewInv, ListsInStep
  <2> QED BY <1>2, <1>7, <2>1, <2>2 DEF InterviewInv, OneInterviewPerDevice,
            AloneAtAddress, NoneForgotten, Owned, history
<1>8. CASE interview_complete(s)
  <2>1. complete_without(s, {}, 0) /\ 0 \in Nat
    BY <1>8 DEF interview_complete
  <2> QED BY <1>2, <1>3, <1>4, <1>5, <1>6, <2>1, CompletionKeepsInv, ZenonT(60)
<1> QED BY <1>1, <1>7, <1>8 DEF request_first_endpoint

\* The rest of the callback for the power descriptor, in a slot that may be
\* free by then.
LEMMA BasicAttributesKeepInv ==
  ASSUME InterviewInv, request_basic_cluster_attributes
  PROVE  InterviewInv'
<1>1. PICK s : s = zigbee.slot
  OBVIOUS
<1>2. PICK c : c = contexts[s]
  OBVIOUS
<1>3. PICK lost : lost = Running(c) \ {"timeout"}
  OBVIOUS
<1>4. /\ zigbee.at = "basic" /\ zigbee' = Idle
      /\ UNCHANGED <<daemon, jobs, known, starts>>
  BY DEF request_basic_cluster_attributes
<1>5. s \in Slots /\ c \in Context /\ zigbee = With("basic", s)
  BY <1>1, <1>2, <1>4 DEF InterviewInv, TypeOK, Idle, With
<1>6. \A t \in Slots : zigbee # With("active", t)
  BY <1>5 DEF With
<1>7. pending' \in [Requests -> Nat]
  BY AskedStep DEF request_basic_cluster_attributes, InterviewInv
<1>8. known' \subseteq Addresses
  BY <1>4 DEF InterviewInv, TypeOK
<1>9. ASSUME NEW started \in BOOLEAN,
             Fails(IF started THEN 0 ELSE 1),
             contexts' = [contexts EXCEPT ![s] =
               [c EXCEPT !.flags = {}, !.basic_timer = started]],
             leaked' = Leaking(s, lost),
             UNCHANGED history
      PROVE  InterviewInv'
  <2>1. PICK next : next = [c EXCEPT !.flags = {}, !.basic_timer = started]
    OBVIOUS
  <2>2. next \in Context /\ Continues(c, next)
    BY <1>5, <2>1 DEF Context, Attributes, Continues
  <2>3. next.in_use => InStep(next)
    <3>1. c.in_use => InStep(c)
      BY <1>2, <1>5, <1>6 DEF InterviewInv, ListsInStep, EmptyListCame
    <3> QED BY <1>5, <2>1, <3>1 DEF Context, InStep
  <2>4. failures' \in 0 .. MaxFailures
    <3>1. PICK n \in Nat : Fails(n)
      BY <1>9
    <3> QED BY <3>1, FailsType DEF InterviewInv
  <2>5. leaked' \in [Slots -> [TimerKind -> Nat]]
    BY <1>5, <1>9, LeakingType DEF InterviewInv
  <2>6. contexts' = [contexts EXCEPT ![s] = next]
    BY <1>9, <2>1
  <2>7. Remembers(s, next)
    BY <1>9 DEF Remembers
  <2>8. zigbee' \in {zigbee, Idle} \cup {With(p, s) : p \in {"active", "basic"}}
    BY <1>4
  <2>9. zigbee' = zigbee \/ \A t \in Slots \ {s} : zigbee # With("active", t)
    BY <1>6
  <2> QED BY <1>2, <1>4, <1>5, <1>7, <1>8, <2>2, <2>3, <2>4, <2>5, <2>6, <2>7, <2>8,
            <2>9, SlotStep, ZenonT(60)
<1>10. CASE complete_without(s, lost, 1)
  <2>1. 1 \in Nat
    OBVIOUS
  <2>2. zigbee' = Idle /\ \A t \in Slots \ {s} : zigbee # With("active", t)
    BY <1>4, <1>6
  <2> QED BY <1>4, <1>5, <1>7, <1>8, <1>10, <2>1, <2>2, CompletionKeepsInv, ZenonT(60)
<1> QED BY <1>1, <1>2, <1>3, <1>9, <1>10 DEF request_basic_cluster_attributes

-----------------------------------------------------------------------------
\* A new interview takes a free slot, its device has no other, and if its
\* address has, both know it.
LEMMA StartKeepsInv ==
  ASSUME InterviewInv, NEW d \in Devices, NEW x \in Addresses, zb_interview_start(d, x)
  PROVE  InterviewInv'
<1>1. PICK s : s = Lowest(FreeSlots)
  OBVIOUS
<1>2. /\ starts < MaxStarts /\ InterviewsOf(d) = {} /\ FreeSlots # {}
      /\ pending' = Asked({ActiveEp(x)}) /\ starts' = starts + 1
      /\ UNCHANGED <<zigbee, daemon, jobs, known>>
  BY DEF zb_interview_start, Startable
<1>3. PICK t \in Timer :
        /\ Fails(IF t = "running" THEN 0 ELSE 1)
        /\ contexts' = [contexts EXCEPT ![s] =
             [Zeroed EXCEPT !.in_use = TRUE, !.dev = d, !.addr = x,
                            !.retry = RetryCount, !.full_retry = FullRetryCount,
                            !.timeout_timer = t]]
        /\ leaked' = Leaking(s, Running(contexts[s]))
        /\ spoilt' = IF t = "running" THEN spoilt ELSE spoilt \cup {s}
        /\ shared' = IF InterviewsAt(x) = {} THEN shared
                     ELSE shared \cup InterviewsAt(x) \cup {s}
  BY <1>1 DEF zb_interview_start
<1>4. PICK new :
        new = [Zeroed EXCEPT !.in_use = TRUE, !.dev = d, !.addr = x,
                             !.retry = RetryCount, !.full_retry = FullRetryCount,
                             !.timeout_timer = t]
  OBVIOUS
<1>5. s \in Slots /\ ~ contexts[s].in_use
  <2>1. FreeSlots \in SUBSET Slots
    BY DEF FreeSlots
  <2>2. s \in FreeSlots
    BY <1>1, <1>2, <2>1, LowestIsMember
  <2> QED BY <2>2 DEF FreeSlots
<1>6. new \in Context
  <2>1. Zeroed \in Context
    BY ZeroedContext
  <2>2. RetryCount \in 0 .. RetryCount /\ FullRetryCount \in 0 .. FullRetryCount
    OBVIOUS
  <2> QED BY <1>4, <2>1, <2>2 DEF Context
<1>7. /\ new.in_use /\ new.dev = d /\ new.addr = x /\ InStep(new)
      /\ new.timeout_timer = t
  <2>1. /\ Zeroed \in Context /\ Zeroed.idx = 0 /\ Zeroed.count = 0
        /\ Zeroed.endpoints = <<>>
    BY ZeroedContext DEF Zeroed
  <2> QED BY <1>4, <2>1 DEF Context, InStep
<1>8. /\ contexts' \in [Slots -> Context]
      /\ contexts'[s] = new
      /\ \A u \in Slots : u # s => contexts'[u] = contexts[u]
  BY <1>3, <1>4, <1>5, <1>6 DEF InterviewInv, TypeOK
<1>9. /\ spoilt \subseteq spoilt' /\ shared \subseteq shared'
      /\ t # "running" => s \in spoilt'
      /\ InterviewsAt(x) # {} => InterviewsAt(x) \cup {s} \subseteq shared'
  BY <1>3
<1>10. TypeOK'
  <2>1. pending' \in [Requests -> Nat]
    BY <1>2, AskedStep DEF InterviewInv
  <2>2. leaked' \in [Slots -> [TimerKind -> Nat]]
    BY <1>3, <1>5, LeakingType DEF InterviewInv
  <2>3. starts' \in 0 .. MaxStarts
    BY <1>2 DEF InterviewInv, TypeOK
  <2>4. failures' \in 0 .. MaxFailures
    <3>1. PICK n \in Nat : Fails(n)
      BY <1>3
    <3> QED BY <3>1, FailsType DEF InterviewInv
  <2>5. spoilt' \subseteq Slots /\ shared' \subseteq Slots
    BY <1>3, <1>5 DEF InterviewInv, TypeOK, InterviewsAt
  <2>6. /\ zigbee' \in {Idle} \cup {With(p, u) : p \in {"active", "basic"}, u \in Slots}
        /\ daemon' \in {Idle} \cup
             {With(p, u) : p \in {"timeout", "basic", "defer"}, u \in Slots}
        /\ jobs' \in [Addresses -> Nat] /\ known' \subseteq Addresses
    BY <1>2 DEF InterviewInv, TypeOK
  <2> QED BY <1>8, <2>1, <2>2, <2>3, <2>4, <2>5, <2>6 DEF TypeOK
<1>11. (\A u \in Slots : contexts[u].in_use => Owned(contexts[u]))'
  BY <1>7, <1>8 DEF InterviewInv, Owned
<1>12. OneInterviewPerDevice'
  <2>1. \A u \in Slots : contexts[u].in_use => contexts[u].dev # d
    BY <1>2 DEF InterviewsOf
  <2> QED BY <1>5, <1>7, <1>8, <2>1 DEF InterviewInv, OneInterviewPerDevice
<1>13. AloneAtAddress'
  <2>1. \A u \in Slots : contexts[u].in_use /\ contexts[u].addr = x =>
          u \in shared' /\ s \in shared'
    BY <1>9 DEF InterviewsAt
  <2> QED BY <1>5, <1>7, <1>8, <1>9, <2>1 DEF InterviewInv, AloneAtAddress
<1>14. ListsInStep'
  BY <1>2, <1>7, <1>8 DEF InterviewInv, ListsInStep, EmptyListCame
<1>15. NoneForgotten'
  BY <1>2, <1>7, <1>8, <1>9 DEF InterviewInv, NoneForgotten
<1> QED BY <1>10, <1>11, <1>12, <1>13, <1>14, <1>15 DEF InterviewInv

\* When the timer of an interview goes off, its callback takes over; the timer
\* of the Basic cluster reads, or one that was leaked, is not missed.
LEMMA TimerKeepsInv ==
  ASSUME InterviewInv, NEW s \in Slots, NEW k \in TimerKind, timer_expires(s, k)
  PROVE  InterviewInv'
<1>1. /\ daemon = Idle /\ daemon' = Called(k, s)
      /\ UNCHANGED <<zigbee, jobs, pending, known, starts, failures, history>>
  BY DEF timer_expires
<1>2. contexts[s] \in Context
  BY DEF InterviewInv, TypeOK
<1>3. PICK next \in Context :
        /\ \/ /\ next = [contexts[s] EXCEPT !.timeout_timer = "expired"]
              /\ k = "timeout"
           \/ next = [contexts[s] EXCEPT !.basic_timer = FALSE]
           \/ next = contexts[s]
        /\ contexts' = [contexts EXCEPT ![s] = next]
  <2>1. CASE own_timer_expires(s, k)
    <3>1. CASE k = "timeout"
      <4>1. [contexts[s] EXCEPT !.timeout_timer = "expired"] \in Context
        BY <1>2 DEF Context, Timer
      <4> QED BY <2>1, <3>1, <4>1 DEF own_timer_expires
    <3>2. CASE k # "timeout"
      <4>1. [contexts[s] EXCEPT !.basic_timer = FALSE] \in Context
        BY <1>2 DEF Context
      <4> QED BY <2>1, <3>2, <4>1 DEF own_timer_expires
    <3> QED BY <3>1, <3>2
  <2>2. CASE leaked_timer_expires(s, k)
    <3>1. contexts' = contexts /\ contexts = [contexts EXCEPT ![s] = contexts[s]]
      BY <2>2 DEF leaked_timer_expires, InterviewInv, TypeOK
    <3> QED BY <1>2, <3>1
  <2> QED BY <2>1, <2>2 DEF timer_expires
<1>4. leaked' \in [Slots -> [TimerKind -> Nat]]
  <2>1. leaked \in [Slots -> [TimerKind -> Nat]]
    BY DEF InterviewInv, TypeOK
  <2>2. CASE leaked_timer_expires(s, k)
    <3>1. [leaked[s] EXCEPT ![k] = @ - 1] \in [TimerKind -> Nat]
      BY <2>1, <2>2 DEF leaked_timer_expires
    <3>2. leaked' = [leaked EXCEPT ![s] = [leaked[s] EXCEPT ![k] = @ - 1]]
      BY <2>1, <2>2 DEF leaked_timer_expires
    <3> QED BY <2>1, <3>1, <3>2
  <2> QED BY <2>1, <2>2 DEF timer_expires, own_timer_expires
<1>5. /\ contexts' \in [Slots -> Context]
      /\ contexts'[s] = next
      /\ \A u \in Slots : u # s => contexts'[u] = contexts[u]
  BY <1>3 DEF InterviewInv, TypeOK
<1>6. /\ next.in_use = contexts[s].in_use
      /\ next.dev = contexts[s].dev
      /\ next.addr = contexts[s].addr
      /\ next.count = contexts[s].count
      /\ next.idx = contexts[s].idx
      /\ next.status = contexts[s].status
      /\ next.endpoints = contexts[s].endpoints
      /\ next.timeout_timer = contexts[s].timeout_timer \/ k = "timeout"
  BY <1>2, <1>3, ZenonT(60) DEF Context
<1>7. daemon' = IF contexts[s].in_use THEN With(k, s) ELSE Idle
  BY <1>1 DEF Called
<1>8. TypeOK'
  BY <1>1, <1>4, <1>5, <1>7 DEF InterviewInv, TypeOK, TimerKind, history
<1>9. (\A u \in Slots : contexts[u].in_use => Owned(contexts[u]))'
  BY <1>5, <1>6 DEF InterviewInv, Owned
<1>10. OneInterviewPerDevice'
  BY <1>5, <1>6 DEF InterviewInv, OneInterviewPerDevice
<1>11. AloneAtAddress'
  BY <1>1, <1>5, <1>6 DEF InterviewInv, AloneAtAddress, history
<1>12. ListsInStep'
  BY <1>1, <1>5, <1>6 DEF InterviewInv, ListsInStep, InStep, EmptyListCame
<1>13. NoneForgotten'
  BY <1>1, <1>5, <1>6, <1>7 DEF InterviewInv, NoneForgotten, Idle, With, history
<1> QED BY <1>8, <1>9, <1>10, <1>11, <1>12, <1>13 DEF InterviewInv

\* An attempt that starts over starts with empty lists.
LEMMA RetriedContext ==
  ASSUME NEW c \in Context, Retries(c)
  PROVE  LET next == Emptied(FromStart(c)) IN
         /\ next \in Context
         /\ next.in_use = c.in_use
         /\ next.dev = c.dev
         /\ next.addr = c.addr
         /\ next.timeout_timer = c.timeout_timer
         /\ InStep(next)
<1>1. /\ c.full_retry - 1 \in 0 .. FullRetryCount /\ RetryCount \in 0 .. RetryCount
      /\ "ACTIVE_ENDPOINTS" \in Status
  BY DEF Context, Retries, Status
<1> DEFINE f == FromStart(c)
           e == Emptied(f)
<1>2. /\ f \in Context /\ f.in_use = c.in_use /\ f.dev = c.dev /\ f.addr = c.addr
      /\ f.idx = 0 /\ f.timeout_timer = c.timeout_timer
  BY <1>1 DEF FromStart, Context
<1> HIDE DEF f
<1>3. /\ e \in Context /\ e.in_use = c.in_use /\ e.dev = c.dev /\ e.addr = c.addr
      /\ e.timeout_timer = c.timeout_timer
      /\ e.idx = 0 /\ e.count = 0 /\ e.endpoints = <<>>
  <2>1. <<>> \in Seq(0 .. NumEndpoints)
    OBVIOUS
  <2>2. e = [f EXCEPT !.endpoints = <<>>, !.count = 0]
    BY DEF Emptied
  <2>3. 0 \in 0 .. NumEndpoints
    OBVIOUS
  <2> QED BY <1>2, <2>1, <2>2, <2>3 DEF Context
<1> HIDE DEF e
<1>4. InStep(e)
  BY <1>3 DEF InStep
<1> QED BY <1>3, <1>4 DEF e, f

\* The timeout callback starts the interview over, or what is in its slot, and
\* its timer with it, if the command comes through.
LEMMA TimeoutRetryKeepsInv ==
  ASSUME InterviewInv, timeout_retry
  PROVE  InterviewInv'
<1>1. PICK s : s = daemon.slot
  OBVIOUS
<1>2. PICK c : c = contexts[s]
  OBVIOUS
<1>3. /\ daemon.at = "timeout" /\ Retries(c) /\ daemon' = Idle
      /\ pending' = Asked({ActiveEp(c.addr)})
      /\ UNCHANGED <<zigbee, jobs, leaked, known, starts, shared>>
  BY <1>1, <1>2 DEF timeout_retry
<1>4. s \in Slots /\ c \in Context /\ daemon = With("timeout", s)
  BY <1>1, <1>2, <1>3 DEF InterviewInv, TypeOK, Idle, With
<1>5. PICK restarted \in Context :
        /\ restarted = Emptied(FromStart(c))
        /\ restarted.in_use = c.in_use
        /\ restarted.dev = c.dev
        /\ restarted.addr = c.addr
        /\ restarted.timeout_timer = c.timeout_timer
        /\ InStep(restarted)
  BY <1>3, <1>4, RetriedContext
<1>6. PICK next \in Context :
        /\ contexts' = [contexts EXCEPT ![s] = next]
        /\ next.in_use = c.in_use
        /\ next.dev = c.dev
        /\ next.addr = c.addr
        /\ InStep(next)
        /\ next.timeout_timer = "running" \/ s \in spoilt'
        /\ spoilt' \subseteq Slots
        /\ spoilt \ {s} \subseteq spoilt'
        /\ failures' \in 0 .. MaxFailures
  <2>1. CASE /\ contexts' = [contexts EXCEPT ![s] = Rearmed(restarted)]
             /\ spoilt' = spoilt \ {s}
             /\ UNCHANGED failures
    <3>1. /\ Rearmed(restarted) \in Context
          /\ Rearmed(restarted).in_use = c.in_use
          /\ Rearmed(restarted).dev = c.dev
          /\ Rearmed(restarted).addr = c.addr
          /\ Rearmed(restarted).timeout_timer = "running"
          /\ InStep(Rearmed(restarted))
      BY <1>5 DEF Rearmed, Context, Timer, InStep
    <3>2. spoilt' \subseteq Slots /\ failures' \in 0 .. MaxFailures
      BY <2>1 DEF InterviewInv, TypeOK
    <3> QED BY <2>1, <3>1, <3>2
  <2>2. CASE /\ Fails(1)
             /\ contexts' = [contexts EXCEPT ![s] = restarted]
             /\ spoilt' = spoilt \cup Unarmed({s})
    <3>1. failures' \in 0 .. MaxFailures
      BY <2>2, FailsType DEF InterviewInv
    <3>2. spoilt' \subseteq Slots /\ (c.timeout_timer = "running" \/ s \in spoilt')
      BY <1>2, <1>4, <2>2 DEF InterviewInv, TypeOK, Unarmed
    <3> QED BY <1>5, <2>2, <3>1, <3>2
  <2> QED BY <1>1, <1>2, <1>5, <2>1, <2>2 DEF timeout_retry
<1>7. /\ contexts' \in [Slots -> Context]
      /\ contexts'[s] = next
      /\ \A u \in Slots : u # s => contexts'[u] = contexts[u]
  BY <1>4, <1>6 DEF InterviewInv, TypeOK
<1>8. TypeOK'
  <2>1. pending' \in [Requests -> Nat]
    BY <1>3, AskedStep DEF InterviewInv
  <2>2. TypeOK
    BY DEF InterviewInv
  <2>3. /\ daemon' = Idle /\ zigbee' = zigbee /\ jobs' = jobs /\ leaked' = leaked
        /\ known' = known /\ starts' = starts /\ shared' = shared
        /\ spoilt' \subseteq Slots /\ failures' \in 0 .. MaxFailures
    BY <1>3, <1>6
  <2> QED BY <1>7, <2>1, <2>2, <2>3 DEF TypeOK
<1>9. (\A u \in Slots : contexts[u].in_use => Owned(contexts[u]))'
  BY <1>2, <1>6, <1>7 DEF InterviewInv, Owned
<1>10. OneInterviewPerDevice'
  BY <1>2, <1>6, <1>7 DEF InterviewInv, OneInterviewPerDevice
<1>11. AloneAtAddress'
  BY <1>2, <1>3, <1>6, <1>7 DEF InterviewInv, AloneAtAddress
<1>12. ListsInStep'
  BY <1>3, <1>6, <1>7 DEF InterviewInv, ListsInStep, EmptyListCame
<1>13. NoneForgotten'
  BY <1>3, <1>4, <1>6, <1>7 DEF InterviewInv, NoneForgotten, With
<1> QED BY <1>8, <1>9, <1>10, <1>11, <1>12, <1>13 DEF InterviewInv

\* A restart of the gateway frees every slot.
LEMMA PanicKeepsInv ==
  ASSUME InterviewInv, timeout_panic
  PROVE  InterviewInv'
<1>1. Zeroed \in Context /\ ~ Zeroed.in_use
  BY ZeroedContext
<1>2. /\ contexts' = [s \in Slots |-> Zeroed] /\ zigbee' = Idle /\ daemon' = Idle
      /\ jobs' = [x \in Addresses |-> 0]
      /\ leaked' = [s \in Slots |-> [k \in TimerKind |-> 0]]
      /\ pending' = [r \in Requests |-> 0]
      /\ spoilt' = {} /\ shared' = {}
      /\ UNCHANGED <<known, starts, failures>>
  BY DEF timeout_panic
<1>3. \A s \in Slots : ~ contexts'[s].in_use
  BY <1>1, <1>2
<1>4. TypeOK'
  BY <1>1, <1>2 DEF InterviewInv, TypeOK
<1> QED BY <1>3, <1>4 DEF InterviewInv, OneInterviewPerDevice, AloneAtAddress,
     ListsInStep, NoneForgotten

\* Both callbacks may leave the slot to interview_finish_deferred().
LEMMA GiveUpKeepsInv ==
  ASSUME InterviewInv, timeout_give_up \/ basic_read_timeout_callback
  PROVE  InterviewInv'
<1>1. PICK s : s = daemon.slot
  OBVIOUS
<1>2. UNCHANGED <<contexts, zigbee, jobs, leaked, pending, known, starts, failures,
                  history>>
  BY DEF timeout_give_up, basic_read_timeout_callback
<1>3. s \in Slots /\ daemon \in {With("timeout", s), With("basic", s)}
  BY <1>1 DEF timeout_give_up, basic_read_timeout_callback, InterviewInv, TypeOK, Idle,
              With
<1>4. \/ daemon' = With("defer", s)
      \/ daemon' = Idle /\ daemon = With("basic", s)
  BY <1>1, <1>3 DEF timeout_give_up, basic_read_timeout_callback, With
<1>5. TypeOK'
  BY <1>2, <1>3, <1>4 DEF InterviewInv, TypeOK, history
<1>6. NoneForgotten'
  BY <1>2, <1>3, <1>4 DEF InterviewInv, NoneForgotten, With, history
<1> QED BY <1>2, <1>5, <1>6 DEF InterviewInv, OneInterviewPerDevice, AloneAtAddress,
     ListsInStep, EmptyListCame, Owned, history

\* The task that will finish the interview at the slot's address is created, or
\* there is no memory for it.
LEMMA DeferredKeepsInv ==
  ASSUME InterviewInv, interview_finish_deferred
  PROVE  InterviewInv'
<1>1. PICK s : s = daemon.slot
  OBVIOUS
<1>2. PICK x : x = contexts[s].addr
  OBVIOUS
<1>3. /\ daemon.at = "defer" /\ daemon' = Idle
      /\ UNCHANGED <<contexts, zigbee, leaked, pending, known, starts, shared>>
  BY DEF interview_finish_deferred
<1>4. s \in Slots /\ daemon = With("defer", s)
  BY <1>1, <1>3 DEF InterviewInv, TypeOK, Idle, With
<1>5. \/ jobs' = [jobs EXCEPT ![x] = @ + 1] /\ UNCHANGED <<failures, spoilt>>
      \/ Fails(1) /\ spoilt' = spoilt \cup Unarmed({s}) /\ UNCHANGED jobs
  BY <1>1, <1>2 DEF interview_finish_deferred
<1>6. /\ jobs' \in [Addresses -> Nat]
      /\ failures' \in 0 .. MaxFailures
      /\ spoilt' \subseteq Slots
      /\ spoilt \subseteq spoilt'
      /\ \A y \in Addresses : jobs'[y] >= jobs[y]
      /\ \/ x \in Addresses => jobs'[x] > 0
         \/ contexts[s].timeout_timer = "running"
         \/ s \in spoilt'
  <2>1. jobs \in [Addresses -> Nat] /\ failures \in 0 .. MaxFailures
        /\ spoilt \subseteq Slots
    BY DEF InterviewInv, TypeOK
  <2>2. CASE Fails(1) /\ spoilt' = spoilt \cup Unarmed({s}) /\ UNCHANGED jobs
    <3>1. failures' \in 0 .. MaxFailures
      BY <2>2, FailsType DEF InterviewInv
    <3>2. \A y \in Addresses : jobs'[y] >= jobs[y]
      BY <2>1, <2>2
    <3> QED BY <1>4, <2>1, <2>2, <3>1, <3>2 DEF Unarmed
  <2>3. CASE jobs' = [jobs EXCEPT ![x] = @ + 1] /\ UNCHANGED <<failures, spoilt>>
    <3>1. CASE x \in Addresses
      BY <2>1, <2>3, <3>1
    <3>2. CASE x \notin Addresses
      <4>1. [jobs EXCEPT ![x] = @ + 1] = jobs
        BY <2>1, <3>2, Zenon
      <4>2. jobs' = jobs /\ failures' = failures /\ spoilt' = spoilt
        BY <2>3, <4>1, Zenon
      <4> QED BY <2>1, <3>2, <4>2
    <3> QED BY <3>1, <3>2
  <2> QED BY <1>5, <2>2, <2>3
<1>7. TypeOK'
  BY <1>3, <1>6 DEF InterviewInv, TypeOK
<1>8. NoneForgotten'
  <2> SUFFICES ASSUME NEW u \in Slots, contexts[u].in_use,
                      u \notin spoilt' \cup shared
               PROVE  contexts[u].timeout_timer = "running" \/ jobs'[contexts[u].addr] > 0
    BY <1>3 DEF NoneForgotten
  <2>1. contexts[u].addr \in Addresses
    BY DEF InterviewInv, Owned
  <2>2. \/ contexts[u].timeout_timer = "running" \/ u = s
        \/ jobs[contexts[u].addr] > 0
    BY <1>4, <1>6 DEF InterviewInv, NoneForgotten, With
  <2>3. jobs \in [Addresses -> Nat]
    BY DEF InterviewInv, TypeOK
  <2> QED BY <1>2, <1>6, <2>1, <2>2, <2>3
<1> QED BY <1>3, <1>7, <1>8 DEF InterviewInv, OneInterviewPerDevice, AloneAtAddress,
     ListsInStep, EmptyListCame, Owned

\* That task completes an interview at its address, the only one that does not
\* know of another there, or gives up and leaves what it was to end.
LEMMA FinishKeepsInv ==
  ASSUME InterviewInv, NEW x \in Addresses, interview_finish_task(x)
  PROVE  InterviewInv'
<1>1. /\ jobs[x] > 0 /\ jobs' = [jobs EXCEPT ![x] = @ - 1]
      /\ UNCHANGED <<zigbee, daemon, pending, known, starts>>
  BY DEF interview_finish_task
<1>2. /\ jobs' \in [Addresses -> Nat]
      /\ \A y \in Addresses : y # x => jobs'[y] = jobs[y]
  BY <1>1 DEF InterviewInv, TypeOK
<1>3. /\ contexts' \in [Slots -> Context]
      /\ leaked' \in [Slots -> [TimerKind -> Nat]]
      /\ failures' \in 0 .. MaxFailures
      /\ spoilt' \subseteq Slots
      /\ shared' \subseteq Slots
      /\ \A u \in Slots : contexts'[u].in_use =>
           /\ contexts'[u] = contexts[u]
           /\ u \in spoilt => u \in spoilt'
           /\ u \in shared => u \in shared'
           /\ \/ contexts[u].addr # x
              \/ contexts[u].timeout_timer = "running"
              \/ u \in spoilt' \cup shared'
  <2>1. /\ contexts \in [Slots -> Context]
        /\ leaked \in [Slots -> [TimerKind -> Nat]]
        /\ failures \in 0 .. MaxFailures
        /\ spoilt \subseteq Slots
        /\ shared \subseteq Slots
    BY DEF InterviewInv, TypeOK
  <2>2. CASE InterviewsAt(x) = {} /\ UNCHANGED <<contexts, leaked, failures, history>>
    BY <2>1, <2>2 DEF InterviewsAt, history
  <2>3. CASE /\ Fails(1)
             /\ spoilt' = spoilt \cup Unarmed(InterviewsAt(x))
             /\ UNCHANGED <<contexts, leaked, shared>>
    <3>1. failures' \in 0 .. MaxFailures
      BY <2>3, FailsType DEF InterviewInv
    <3> QED BY <2>1, <2>3, <3>1 DEF InterviewsAt, Unarmed
  <2>4. CASE InterviewsAt(x) # {} /\ interview_complete(find_context_by_short(x))
    <3>1. PICK s : s = find_context_by_short(x)
      OBVIOUS
    <3>2. s \in Slots /\ contexts[s].in_use /\ contexts[s].addr = x
      BY <2>4, <3>1, FoundContext
    <3>3. PICK c \in Context :
            /\ ~ c.in_use
            /\ contexts' = [contexts EXCEPT ![s] = c]
            /\ leaked' \in [Slots -> [TimerKind -> Nat]]
            /\ failures' \in 0 .. MaxFailures
            /\ spoilt' = spoilt \ {s}
            /\ shared' = shared \ {s}
      <4>1. complete_without(s, {}, 0) /\ 0 \in Nat /\ TypeOK
        BY <2>4, <3>1 DEF interview_complete, InterviewInv
      <4> QED BY <3>2, <4>1, Completion
    <3>4. \A u \in Slots : u # s /\ contexts[u].in_use /\ contexts[u].addr = x =>
            u \in shared
      BY <3>2 DEF InterviewInv, AloneAtAddress
    <3> QED BY <2>1, <3>2, <3>3, <3>4
  <2> QED BY <2>2, <2>3, <2>4 DEF interview_finish_task
<1>4. TypeOK'
  BY <1>1, <1>2, <1>3 DEF InterviewInv, TypeOK
<1>5. (\A u \in Slots : contexts[u].in_use => Owned(contexts[u]))'
  BY <1>3 DEF InterviewInv, Owned
<1>6. OneInterviewPerDevice'
  BY <1>3 DEF InterviewInv, OneInterviewPerDevice
<1>7. AloneAtAddress'
  BY <1>3 DEF InterviewInv, AloneAtAddress
<1>8. ListsInStep'
  BY <1>1, <1>3 DEF InterviewInv, ListsInStep, EmptyListCame
<1>9. NoneForgotten'
  <2>1. \A u \in Slots : contexts'[u].in_use => contexts[u].addr \in Addresses
    BY <1>3 DEF InterviewInv, Owned
  <2> QED BY <1>1, <1>2, <1>3, <2>1 DEF InterviewInv, NoneForgotten
<1> QED BY <1>4, <1>5, <1>6, <1>7, <1>8, <1>9 DEF InterviewInv

-----------------------------------------------------------------------------
\* Every step keeps the invariant.
LEMMA NextInv == InterviewInv /\ [Next]_vars => InterviewInv'
<1> SUFFICES ASSUME InterviewInv, [Next]_vars
             PROVE  InterviewInv'
  OBVIOUS
<1>1. ASSUME NEW d \in Devices, NEW x \in Addresses,
             zb_interview_start(d, x) \/ handle_basic_cluster_report(d, x)
      PROVE  InterviewInv'
  BY <1>1, StartKeepsInv, ReportKeepsInv
<1>2. CASE Answer
  <2>1. ASSUME NEW r \in Requests, ignore_answer(r)
        PROVE  InterviewInv'
    BY <2>1, IgnoreKeepsInv
  <2>2. ASSUME NEW x \in Addresses, active_ep_failed(x) \/ power_desc_callback(x)
        PROVE  InterviewInv'
    BY <2>2, ActiveEpFailedKeepsInv, PowerDescKeepsInv
  <2>3. ASSUME NEW x \in Addresses, NEW n \in 0 .. NumEndpoints,
               zb_interview_handle_active_ep_resp(x, n)
        PROVE  InterviewInv'
    BY <2>3, ActiveEpKeepsInv
  <2>4. ASSUME NEW x \in Addresses, NEW a \in Attributes,
               zb_interview_handle_read_attr_resp(x, a)
        PROVE  InterviewInv'
    BY <2>4, ReadAttrKeepsInv
  <2>5. ASSUME NEW x \in Addresses, NEW e \in 1 .. NumEndpoints,
               \/ zb_interview_handle_simple_desc_resp(x, e)
               \/ simple_desc_failed(x, e)
        PROVE  InterviewInv'
    BY <2>5, SimpleDescKeepsInv, SimpleDescFailedKeepsInv
  <2> QED BY <1>2, <2>1, <2>2, <2>3, <2>4, <2>5 DEF Answer
<1>3. CASE HandlerRest
  BY <1>3, FirstEndpointKeepsInv, BasicAttributesKeepInv DEF HandlerRest
<1>4. CASE TimerExpires
  BY <1>4, TimerKeepsInv DEF TimerExpires
<1>5. CASE Callback
  BY <1>5, TimeoutRetryKeepsInv, PanicKeepsInv, GiveUpKeepsInv, DeferredKeepsInv
  DEF Callback
<1>6. ASSUME NEW x \in Addresses, interview_finish_task(x)
      PROVE  InterviewInv'
  BY <1>6, FinishKeepsInv
<1>7. CASE UNCHANGED vars
  BY <1>7 DEF vars, history, InterviewInv, TypeOK, OneInterviewPerDevice,
     AloneAtAddress, ListsInStep, EmptyListCame, NoneForgotten, Owned
<1> QED BY <1>1, <1>2, <1>3, <1>4, <1>5, <1>6, <1>7 DEF Next

\* The facts about every slot hold throughout, whatever the order in which
\* answers, timeouts, retries, failures and deferred completions come.
THEOREM Invariance == Spec => []InterviewInv
<1> QED BY InitInv, NextInv, PTL DEF Spec

\* Each variable keeps its type; in particular no count of retries left, of
\* deferred completions or of unanswered requests ever goes below zero.
THEOREM TypeCorrect == Spec => []TypeOK
<1>1. InterviewInv => TypeOK
  BY DEF InterviewInv
<1> QED BY <1>1, Invariance, PTL

\* However many tasks ask for interviews, no device is in two slots.
THEOREM DevicesAreInterviewedOnce == Spec => []OneInterviewPerDevice
<1>1. InterviewInv => OneInterviewPerDevice
  BY DEF InterviewInv
<1> QED BY <1>1, Invariance, PTL

\* The list of descriptors is never indexed beyond its end, even by the answers
\* of another device that was given the address.
THEOREM ListsStayInStep == Spec => []ListsInStep
<1>1. InterviewInv => ListsInStep
  BY DEF InterviewInv
<1> QED BY <1>1, Invariance, PTL

\* Each interview has something that will end it, unless just that failed, or
\* another interview had its address.
THEOREM NoInterviewIsForgotten == Spec => []NoneForgotten
<1>1. InterviewInv => NoneForgotten
  BY DEF InterviewInv
<1> QED BY <1>1, Invariance, PTL
=============================================================================
