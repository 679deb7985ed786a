---------------------------- MODULE CmdRetryProofs ----------------------------
(***************************************************************************)
(* Safety of the command retry table, for any number of slots, devices,    *)
(* tasks and commands and any timeout that fits the tick counter.          *)
(***************************************************************************)
EXTENDS CmdRetry, TLAPS, WellFoundedInduction

USE SizesAssumption, TickAssumption, TaskAssumption

\* Remainders of numbers less than one round away, one round further, and of
\* negative numbers.
LEMMA ModSmall ==
  ASSUME NEW m \in Nat \ {0}, NEW x \in 0 .. m - 1
  PROVE  x % m = x
BY SMT

LEMMA ModWrap ==
  ASSUME NEW m \in Nat \ {0}, NEW x \in m .. 2 * m - 1
  PROVE  x % m = x - m
BY SMT

LEMMA ModNegative ==
  ASSUME NEW m \in Nat \ {0}, NEW x \in 1 - m .. -1
  PROVE  x % m = x + m
BY SMT

\* A nonempty set of numbers has a least one: < is well-founded on Nat.
LEMMA LeastExists ==
  ASSUME NEW S \in SUBSET Nat, S # {}
  PROVE  \E k \in S : \A j \in S : k <= j
<1> DEFINE R == OpToRel(<, Nat)
<1>1. \A x, y \in Nat : x < y => <<x, y>> \in R
  BY DEF OpToRel
<1>2. IsWellFoundedOn(R, Nat)
  BY NatLessThanWellFounded
<1> HIDE DEF R
<1>3. PICK k \in S : \A j \in S : ~ (<<j, k>> \in R)
  BY <1>2, WFMin
<1>4. \A j \in S : ~ (j < k)
  BY <1>1, <1>3
<1> QED BY <1>4

\* The age the code computes, without the remainder.
LEMMA TickDifference ==
  \A n, t \in Ticks : (n - t) % TickMod = IF n >= t THEN n - t
                                          ELSE n - t + TickMod
<1> TAKE n, t \in Ticks
<1>1. TickMod \in Nat \ {0}
  OBVIOUS
<1>2. CASE n >= t
  BY <1>1, <1>2, ModSmall DEF Ticks
<1>3. CASE ~ (n >= t)
  <2>1. n - t \in 1 - TickMod .. -1
    BY <1>3 DEF Ticks
  <2> QED BY <1>1, <1>3, <2>1, ModNegative
<1> QED BY <1>2, <1>3

\* The next tick is a tick, and every age that is not at the end of the
\* round grows by one with it.
LEMMA TickAges ==
  ASSUME NEW n \in Ticks, NEW t \in Ticks
  PROVE  /\ (n + 1) % TickMod \in Ticks
         /\ ((n - t) % TickMod) + 1 < TickMod =>
              (((n + 1) % TickMod) - t) % TickMod = ((n - t) % TickMod) + 1
<1>1. TickMod \in Nat \ {0} /\ TickMod > 2
  OBVIOUS
<1>2. CASE n + 1 < TickMod
  <2>1. (n + 1) % TickMod = n + 1
    BY <1>1, <1>2, ModSmall DEF Ticks
  <2>2. n + 1 \in Ticks
    BY <1>2 DEF Ticks
  <2>3. (n - t) % TickMod = IF n >= t THEN n - t ELSE n - t + TickMod
    BY TickDifference
  <2>4. PICK m \in Ticks : m = n + 1
    BY <2>2
  <2>5. (m - t) % TickMod = IF m >= t THEN m - t ELSE m - t + TickMod
    BY TickDifference
  <2>6. (((n + 1) % TickMod) - t) % TickMod = (m - t) % TickMod
    BY <2>1, <2>4
  <2>7. m >= t => n >= t \/ m = t
    BY <2>4 DEF Ticks
  <2> QED BY <2>1, <2>2, <2>3, <2>4, <2>5, <2>6, <2>7 DEF Ticks
<1>3. CASE ~ (n + 1 < TickMod)
  <2>1. (n + 1) % TickMod = 0
    BY <1>1, <1>3, ModWrap DEF Ticks
  <2>2. 0 \in Ticks
    BY DEF Ticks
  <2>3. (n - t) % TickMod = IF n >= t THEN n - t ELSE n - t + TickMod
    BY TickDifference
  <2>4. (0 - t) % TickMod = IF 0 >= t THEN 0 - t ELSE 0 - t + TickMod
    BY <2>2, TickDifference
  <2> QED BY <1>3, <2>1, <2>2, <2>3, <2>4 DEF Ticks
<1> QED BY <1>2, <1>3

\* The lowest of some slots is one of them.
LEMMA LowestIsMember ==
  ASSUME NEW S \in SUBSET Slots, S # {}
  PROVE  Lowest(S) \in S
<1>1. S \in SUBSET (0 .. MaxPending - 1) /\ MaxPending - 1 \in Nat
  BY DEF Slots
<1>2. \E i \in S : \A j \in S : i <= j
  BY <1>1, LeastExists
<1> QED BY <1>2 DEF Lowest

\* A task that has something to do has a next job.
LEMMA NextJobIsMember ==
  ASSUME TypeOK, NEW t \in Tasks, todo[t] # {}
  PROVE  NextJob(t) \in todo[t]
<1> DEFINE S == {j.slot : j \in todo[t]}
<1>1. todo[t] \subseteq Job
  BY DEF TypeOK
<1>2. S \in SUBSET (0 .. MaxPending - 1) /\ S # {} /\ MaxPending - 1 \in Nat
  BY <1>1 DEF Job, Slots
<1>3. \E k \in S : \A j \in S : k <= j
  <2> HIDE DEF S
  <2> QED BY <1>2, LeastExists
<1>4. \E j \in todo[t] : \A k \in todo[t] : j.slot <= k.slot
  BY <1>3
<1> QED BY <1>4 DEF NextJob

\* The slot a command is stored in is the only one its device has.
LEMMA AllocatedSlot ==
  ASSUME NEW d \in Devices, NEW k \in PendingOf(d), OneEntryPerDevice
  PROVE  find_or_alloc_slot(d) = k
<1>1. PendingOf(d) \in SUBSET Slots /\ PendingOf(d) # {}
  BY DEF PendingOf
<1>2. Lowest(PendingOf(d)) \in PendingOf(d)
  BY <1>1, LowestIsMember
<1>3. Lowest(PendingOf(d)) = k
  BY <1>2 DEF PendingOf, OneEntryPerDevice
<1> QED BY <1>1, <1>3 DEF find_or_alloc_slot

\* An active slot holds a whole entry.
LEMMA ActiveIsEntry ==
  ASSUME TypeOK, NEW i \in Slots, table[i].active
  PROVE  table[i] \in Entry
  BY DEF TypeOK, NoEntry

\* The invariant holds when the program starts.
LEMMA InitInv == Init => RetryInv
<1> SUFFICES ASSUME Init PROVE RetryInv
  OBVIOUS
<1>0. \A i \in Slots : table[i] = NoEntry /\ ~ table[i].active
  BY DEF Init, NoEntry
<1>1. TypeOK
  <2>1. initialized \in BOOLEAN
    BY Zenon DEF Init
  <2> QED BY <2>1 DEF Init, TypeOK
<1>2. OneEntryPerDevice /\ AgeBounded
  BY <1>0 DEF OneEntryPerDevice, AgeBounded
<1>3. \A t \in Tasks : todo[t] = {} /\ ~ onAir[t]
  BY DEF Init
<1>4. SingleHolder
  BY <1>0, <1>3 DEF SingleHolder
<1>5. JobsInOrder /\ KnownCommands /\ EmptyWhenDown
  BY <1>0, <1>3 DEF JobsInOrder, KnownCommands, EmptyWhenDown
<1> QED BY <1>1, <1>2, <1>4, <1>5 DEF RetryInv

\* Emptying slots, whatever else stays, keeps the table in order.
LEMMA ClearingKeeps ==
  ASSUME RetryInv, NEW S \in SUBSET Slots,
         table' = [i \in Slots |-> IF i \in S THEN NoEntry ELSE table[i]],
         UNCHANGED <<now, given>>,
         sinceCheck' = sinceCheck \/ S = TimedOut,
         sinceCheck' \in Nat
  PROVE  /\ table' \in [Slots -> Entry \cup {NoEntry}]
         /\ OneEntryPerDevice'
         /\ AgeBounded'
         /\ \A i \in Slots : table'[i].active =>
              i \notin S /\ table[i].active /\ table'[i] = table[i]
<1>1. table' \in [Slots -> Entry \cup {NoEntry}]
  BY DEF RetryInv, TypeOK
<1>2. \A i \in Slots : table'[i].active =>
        i \notin S /\ table[i].active /\ table'[i] = table[i]
  BY DEF NoEntry
<1>3. OneEntryPerDevice'
  BY <1>2 DEF RetryInv, OneEntryPerDevice
<1>4. AgeBounded'
  <2> SUFFICES ASSUME NEW i \in Slots, table'[i].active
               PROVE  Elapsed(i)' < Timeout + sinceCheck'
    BY DEF AgeBounded
  <2>1. i \notin S /\ table[i].active /\ table'[i] = table[i]
    BY <1>2
  <2>2. Elapsed(i)' = Elapsed(i)
    BY <2>1 DEF Elapsed
  <2>3. Elapsed(i) < Timeout + sinceCheck
    BY <2>1 DEF RetryInv, AgeBounded
  <2>4. Elapsed(i) \in Nat
    <3>1. table[i] \in Entry /\ now \in Ticks
      BY <2>1, ActiveIsEntry DEF RetryInv, TypeOK
    <3>2. table[i].timestamp \in Ticks
      BY <3>1 DEF Entry
    <3> DEFINE ts == table[i].timestamp
    <3>3. (now - ts) % TickMod = IF now >= ts THEN now - ts
                                 ELSE now - ts + TickMod
      BY <3>1, <3>2, TickDifference
    <3> QED BY <3>1, <3>2, <3>3 DEF Elapsed, Ticks
  <2>5. CASE S = TimedOut
    BY <2>1, <2>2, <2>4, <2>5 DEF TimedOut
  <2>6. CASE sinceCheck' = sinceCheck
    BY <2>2, <2>3, <2>6
  <2> QED BY <2>5, <2>6
<1> QED BY <1>1, <1>2, <1>3, <1>4

\* Taking entries out moves their commands from the table to an idle task.
LEMMA TakeOutKeeps ==
  ASSUME RetryInv, NEW t \in Tasks, todo[t] = {}, NEW S \in SUBSET Slots,
         \A i \in S : table[i].active,
         TakeOut(t, S),
         UNCHANGED <<initialized, now, onAir, given, sent, latest>>,
         sinceCheck' = sinceCheck \/ S = TimedOut,
         sinceCheck' \in 0 .. CheckPeriod
  PROVE  RetryInv'
<1>1. /\ table' = [i \in Slots |-> IF i \in S THEN NoEntry ELSE table[i]]
      /\ todo' = [todo EXCEPT ![t] = Copies(S)]
  BY DEF TakeOut, Cleared
<1>2. /\ table' \in [Slots -> Entry \cup {NoEntry}]
      /\ OneEntryPerDevice'
      /\ AgeBounded'
      /\ \A i \in Slots : table'[i].active =>
           i \notin S /\ table[i].active /\ table'[i] = table[i]
  BY <1>1, ClearingKeeps
<1>3. \A j \in Copies(S) : \E i \in S :
        /\ table[i].active /\ table[i] \in Entry
        /\ j.slot = i /\ j.short_addr = table[i].short_addr
        /\ j.cmd = table[i].cmd /\ j \in Job
  <2> SUFFICES ASSUME NEW j \in Copies(S)
               PROVE  \E i \in S :
                        /\ table[i].active /\ table[i] \in Entry
                        /\ j.slot = i /\ j.short_addr = table[i].short_addr
                        /\ j.cmd = table[i].cmd /\ j \in Job
    OBVIOUS
  <2>1. PICK i \in S : j = [slot |-> i, short_addr |-> table[i].short_addr,
                            cmd |-> table[i].cmd]
    BY DEF Copies
  <2>2. table[i].active /\ table[i] \in Entry
    BY ActiveIsEntry DEF RetryInv
  <2> QED BY <2>1, <2>2 DEF Entry, Job
<1>4. \A u \in Tasks : todo'[u] = IF u = t THEN Copies(S) ELSE todo[u]
  BY <1>1 DEF RetryInv, TypeOK
<1>5. TypeOK'
  <2>1. Copies(S) \in SUBSET Job
    BY <1>3
  <2>2. todo' \in [Tasks -> SUBSET Job]
    BY <1>1, <2>1 DEF RetryInv, TypeOK
  <2> QED BY <1>2, <2>2 DEF RetryInv, TypeOK
<1>6. SingleHolder'
  <2>1. ASSUME NEW i \in Slots, NEW k \in Slots, table'[i].active,
               table'[k].active, table'[i].cmd = table'[k].cmd
        PROVE  i = k
    BY <1>2, <2>1 DEF RetryInv, SingleHolder
  <2>2. ASSUME NEW u \in Tasks, NEW v \in Tasks, NEW j \in todo'[u],
               NEW k \in todo'[v], j.cmd = k.cmd
        PROVE  u = v /\ j = k
    <3>1. CASE u # t /\ v # t
      BY <1>4, <2>2, <3>1 DEF RetryInv, SingleHolder
    <3>2. CASE u = t /\ v # t
      <4>1. PICK i \in S : table[i].active /\ j.cmd = table[i].cmd
        BY <1>3, <1>4, <3>2
      <4>2. k \in todo[v]
        BY <1>4, <3>2
      <4> QED BY <2>2, <4>1, <4>2 DEF RetryInv, SingleHolder
    <3>3. CASE u # t /\ v = t
      <4>1. PICK i \in S : table[i].active /\ k.cmd = table[i].cmd
        BY <1>3, <1>4, <3>3
      <4>2. j \in todo[u]
        BY <1>4, <3>3
      <4> QED BY <2>2, <4>1, <4>2 DEF RetryInv, SingleHolder
    <3>4. CASE u = t /\ v = t
      <4>1. j \in Copies(S) /\ k \in Copies(S)
        BY <1>4, <3>4
      <4>2. PICK i \in S : j = [slot |-> i, short_addr |-> table[i].short_addr,
                                cmd |-> table[i].cmd]
        BY <4>1 DEF Copies
      <4>3. PICK h \in S : k = [slot |-> h, short_addr |-> table[h].short_addr,
                                cmd |-> table[h].cmd]
        BY <4>1 DEF Copies
      <4>4. i = h
        BY <2>2, <4>2, <4>3 DEF RetryInv, SingleHolder
      <4> QED BY <3>4, <4>2, <4>3, <4>4
    <3> QED BY <3>1, <3>2, <3>3, <3>4
  <2>3. ASSUME NEW i \in Slots, NEW u \in Tasks, NEW j \in todo'[u],
               table'[i].active
        PROVE  table'[i].cmd # j.cmd
    <3>1. i \notin S /\ table[i].active /\ table'[i] = table[i]
      BY <1>2, <2>3
    <3>2. CASE u = t
      <4>1. PICK h \in S : table[h].active /\ j.cmd = table[h].cmd
        BY <1>3, <1>4, <3>2
      <4> QED BY <3>1, <4>1 DEF RetryInv, SingleHolder
    <3>3. CASE u # t
      BY <1>4, <3>1, <3>3 DEF RetryInv, SingleHolder
    <3> QED BY <3>2, <3>3
  <2> QED BY <2>1, <2>2, <2>3 DEF SingleHolder
<1>7. JobsInOrder'
  <2>1. \A j, k \in Copies(S) : j.slot = k.slot => j = k
    BY DEF Copies
  <2>2. ~ onAir[t]
    BY DEF RetryInv, JobsInOrder
  <2> QED BY <1>4, <2>1, <2>2 DEF RetryInv, JobsInOrder
<1>8. KnownCommands'
  <2>1. \A i \in Slots : table'[i].active => table'[i].cmd <= given'
    BY <1>2 DEF RetryInv, KnownCommands
  <2>2. \A u \in Tasks : \A j \in todo'[u] : j.cmd <= given'
    BY <1>3, <1>4 DEF RetryInv, KnownCommands
  <2> QED BY <2>1, <2>2 DEF KnownCommands
<1>9. EmptyWhenDown'
  BY <1>2 DEF RetryInv, EmptyWhenDown
<1> QED BY <1>2, <1>5, <1>6, <1>7, <1>8, <1>9 DEF RetryInv
LEMMA SendKeeps ==
  ASSUME RetryInv, NEW t \in Tasks, command_send(t)
  PROVE  RetryInv'
<1>1. NextJob(t) \in todo[t] /\ NextJob(t) \in Job
  BY NextJobIsMember DEF RetryInv, TypeOK, command_send
<1>2. NextJob(t).cmd \in Commands /\ NextJob(t).short_addr \in Devices
  BY <1>1 DEF Job
<1>3. TypeOK'
  <2>1. Counted(NextJob(t).cmd) \in 0 .. MaxSent
    BY <1>2 DEF Counted, RetryInv, TypeOK
  <2>2. sent' \in [Commands -> 0 .. MaxSent]
    BY <1>2, <2>1 DEF RetryInv, TypeOK, command_send
  <2>3. latest' \in [Devices -> Commands \cup {0}]
    BY <1>2 DEF RetryInv, TypeOK, command_send
  <2> QED BY <2>2, <2>3 DEF RetryInv, TypeOK, command_send
<1>4. OneEntryPerDevice' /\ SingleHolder'
  BY DEF RetryInv, OneEntryPerDevice, SingleHolder, command_send
<1>5. AgeBounded'
  BY DEF RetryInv, AgeBounded, Elapsed, command_send
<1>6. JobsInOrder' /\ KnownCommands' /\ EmptyWhenDown'
  BY DEF RetryInv, TypeOK, JobsInOrder, KnownCommands, EmptyWhenDown,
         command_send
<1> QED BY <1>3, <1>4, <1>5, <1>6 DEF RetryInv

\* Storing a command moves it from the task that sent it to the table.
LEMMA StoreKeeps ==
  ASSUME RetryInv, NEW t \in Tasks, command_store(t)
  PROVE  RetryInv'
<1> DEFINE j0 == NextJob(t)
           d  == j0.short_addr
           s  == find_or_alloc_slot(d)
           e  == [short_addr |-> d, cmd |-> j0.cmd, retries |-> MaxAttempts,
                  timestamp |-> now, active |-> TRUE]
<1>1. j0 \in todo[t] /\ j0 \in Job
  BY NextJobIsMember DEF RetryInv, TypeOK, JobsInOrder, command_store
<1>2. e \in Entry /\ e.active /\ d \in Devices
  BY <1>1 DEF Entry, Job, RetryInv, TypeOK
<1>3. \/ s \in Slots /\ table' = [table EXCEPT ![s] = e] /\ initialized
      \/ table' = table
  BY DEF command_store, cmd_retry_store
<1>4. /\ todo' = [todo EXCEPT ![t] = @ \ {j0}]
      /\ onAir' = [onAir EXCEPT ![t] = FALSE]
      /\ UNCHANGED <<initialized, now, sinceCheck, given, sent, latest>>
  BY DEF command_store
<1>5. \A u \in Tasks : todo'[u] = IF u = t THEN todo[t] \ {j0} ELSE todo[u]
  BY <1>4 DEF RetryInv, TypeOK
<1>6. \A i \in Slots : table'[i].active =>
        \/ table[i].active /\ table'[i] = table[i]
        \/ i = s /\ table'[i] = e
  BY <1>2, <1>3 DEF RetryInv, TypeOK
<1>7. \A i \in Slots : table[i].active /\ table[i].short_addr = d => s = i
  <2> SUFFICES ASSUME NEW i \in Slots, table[i].active,
                      table[i].short_addr = d
               PROVE  s = i
    OBVIOUS
  <2>1. i \in PendingOf(d) /\ OneEntryPerDevice
    BY DEF PendingOf, RetryInv
  <2> HIDE DEF d
  <2> QED BY <1>2, <2>1, AllocatedSlot
<1> HIDE DEF j0, e, s
<1>8. TypeOK'
  BY <1>2, <1>3, <1>4 DEF RetryInv, TypeOK
<1>9. OneEntryPerDevice'
  <2> SUFFICES ASSUME NEW i \in Slots, NEW k \in Slots, table'[i].active,
                      table'[k].active,
                      table'[i].short_addr = table'[k].short_addr
               PROVE  i = k
    BY DEF OneEntryPerDevice
  <2>1. e.short_addr = d
    BY DEF e
  <2>2. CASE table'[i] = table[i] /\ table[i].active /\ table'[k] = table[k]
             /\ table[k].active
    BY <2>2 DEF RetryInv, OneEntryPerDevice
  <2>3. CASE i = s /\ table'[i] = e
    BY <1>6, <1>7, <2>1, <2>3
  <2>4. CASE k = s /\ table'[k] = e
    BY <1>6, <1>7, <2>1, <2>4
  <2> QED BY <1>6, <2>2, <2>3, <2>4
<1>10. SingleHolder'
  <2>1. e.cmd = j0.cmd
    BY DEF e
  <2>2. ASSUME NEW i \in Slots, NEW k \in Slots, table'[i].active,
               table'[k].active, table'[i].cmd = table'[k].cmd
        PROVE  i = k
    BY <1>1, <1>6, <2>1, <2>2 DEF RetryInv, SingleHolder
  <2>3. ASSUME NEW u \in Tasks, NEW v \in Tasks, NEW j \in todo'[u],
               NEW k \in todo'[v], j.cmd = k.cmd
        PROVE  u = v /\ j = k
    BY <1>5, <2>3 DEF RetryInv, SingleHolder
  <2>4. ASSUME NEW i \in Slots, NEW u \in Tasks, NEW j \in todo'[u],
               table'[i].active
        PROVE  table'[i].cmd # j.cmd
    <3>1. j \in todo[u] /\ j # j0
      <4>1. CASE u = t
        BY <1>5, <4>1
      <4>2. CASE u # t
        BY <1>1, <1>5, <4>2 DEF RetryInv, SingleHolder
      <4> QED BY <4>1, <4>2
    <3>2. j.cmd # j0.cmd
      BY <1>1, <3>1 DEF RetryInv, SingleHolder
    <3> QED BY <1>6, <2>1, <2>4, <3>1, <3>2 DEF RetryInv, SingleHolder
  <2> QED BY <2>2, <2>3, <2>4 DEF SingleHolder
<1>11. AgeBounded'
  <2> SUFFICES ASSUME NEW i \in Slots, table'[i].active
               PROVE  Elapsed(i)' < Timeout + sinceCheck'
    BY DEF AgeBounded
  <2>1. CASE table[i].active /\ table'[i] = table[i]
    BY <1>4, <2>1 DEF RetryInv, AgeBounded, Elapsed
  <2>2. CASE table'[i] = e
    <3>1. table'[i].timestamp = now /\ now' = now
      BY <1>4, <2>2 DEF e
    <3>2. Elapsed(i)' = 0
      <4>1. now \in Ticks
        BY DEF RetryInv, TypeOK
      <4>2. (now - now) % TickMod = IF now >= now THEN now - now
                                    ELSE now - now + TickMod
        BY <4>1, TickDifference
      <4> QED BY <3>1, <4>1, <4>2 DEF Elapsed, Ticks
    <3> QED BY <1>4, <3>2 DEF RetryInv, TypeOK
  <2> QED BY <1>6, <2>1, <2>2
<1>12. JobsInOrder'
  BY <1>4, <1>5 DEF RetryInv, TypeOK, JobsInOrder
<1>13. KnownCommands'
  <2>1. e.cmd = j0.cmd
    BY DEF e
  <2> QED BY <1>1, <1>4, <1>5, <1>6, <2>1 DEF RetryInv, KnownCommands
<1>14. EmptyWhenDown'
  BY <1>3, <1>4 DEF RetryInv, EmptyWhenDown
<1> QED BY <1>8, <1>9, <1>10, <1>11, <1>12, <1>13, <1>14 DEF RetryInv

\* A new command has a number nobody holds.
LEMMA GiveKeeps ==
  ASSUME RetryInv, NEW t \in Senders, NEW d \in Devices, Give(t, d)
  PROVE  RetryInv'
<1> DEFINE j0 == [slot |-> 0, short_addr |-> d, cmd |-> given + 1]
<1>1. /\ t \in Tasks /\ todo[t] = {} /\ given' = given + 1
      /\ given' \in Commands /\ given \in Nat
      /\ todo' = [todo EXCEPT ![t] = {j0}]
      /\ UNCHANGED <<table, initialized, now, sinceCheck, onAir, sent, latest>>
  BY DEF Give, Tasks, Commands, RetryInv, TypeOK
<1>2. j0 \in Job /\ j0.cmd = given + 1
  BY <1>1 DEF Job, Slots
<1> HIDE DEF j0
<1>3. \A u \in Tasks : todo'[u] = IF u = t THEN {j0} ELSE todo[u]
  BY <1>1 DEF RetryInv, TypeOK
<1>4. TypeOK'
  BY <1>1, <1>2 DEF RetryInv, TypeOK, Commands
<1>5. OneEntryPerDevice' /\ AgeBounded'
  BY <1>1 DEF RetryInv, OneEntryPerDevice, AgeBounded, Elapsed
<1>6. \A i \in Slots : table[i].active => table[i].cmd \in Nat
  BY ActiveIsEntry DEF RetryInv, Entry, Commands
<1>7. \A u \in Tasks : \A j \in todo[u] : j.cmd \in Nat
  BY DEF RetryInv, TypeOK, Job, Commands
<1>8. SingleHolder'
  <2>1. ASSUME NEW u \in Tasks, NEW v \in Tasks, NEW j \in todo'[u],
               NEW k \in todo'[v], j.cmd = k.cmd
        PROVE  u = v /\ j = k
    BY <1>1, <1>2, <1>3, <1>7, <2>1 DEF RetryInv, SingleHolder, KnownCommands
  <2>2. ASSUME NEW i \in Slots, NEW u \in Tasks, NEW j \in todo'[u],
               table'[i].active
        PROVE  table'[i].cmd # j.cmd
    BY <1>1, <1>2, <1>3, <1>6, <2>2 DEF RetryInv, SingleHolder, KnownCommands
  <2>3. \A i, k \in Slots :
          table'[i].active /\ table'[k].active /\ table'[i].cmd = table'[k].cmd
          => i = k
    BY <1>1 DEF RetryInv, SingleHolder
  <2> QED BY <2>1, <2>2, <2>3 DEF SingleHolder
<1>9. JobsInOrder'
  BY <1>1, <1>3 DEF RetryInv, JobsInOrder
<1>10. KnownCommands'
  BY <1>1, <1>2, <1>3, <1>6, <1>7 DEF RetryInv, KnownCommands
<1>11. EmptyWhenDown'
  BY <1>1 DEF RetryInv, EmptyWhenDown
<1> QED BY <1>4, <1>5, <1>8, <1>9, <1>10, <1>11 DEF RetryInv

\* Emptying slots without keeping a copy: confirm, init and deinit.
LEMMA DropKeeps ==
  ASSUME RetryInv, NEW S \in SUBSET Slots,
         table' = [i \in Slots |-> IF i \in S THEN NoEntry ELSE table[i]],
         initialized' \in BOOLEAN,
         initialized' \/ ~ initialized \/ S = Slots,
         UNCHANGED <<now, sinceCheck, todo, onAir, given, sent, latest>>
  PROVE  RetryInv'
<1>1. /\ table' \in [Slots -> Entry \cup {NoEntry}]
      /\ OneEntryPerDevice'
      /\ AgeBounded'
      /\ \A i \in Slots : table'[i].active =>
           i \notin S /\ table[i].active /\ table'[i] = table[i]
  <2>1. sinceCheck' \in Nat
    BY DEF RetryInv, TypeOK
  <2> QED BY <2>1, ClearingKeeps
<1>2. TypeOK'
  BY <1>1 DEF RetryInv, TypeOK
<1>3. SingleHolder'
  BY <1>1 DEF RetryInv, SingleHolder
<1>4. JobsInOrder' /\ KnownCommands'
  BY <1>1 DEF RetryInv, JobsInOrder, KnownCommands
<1>5. EmptyWhenDown'
  BY <1>1 DEF RetryInv, EmptyWhenDown
<1> QED BY <1>1, <1>2, <1>3, <1>4, <1>5 DEF RetryInv

\* The clock makes every entry older and sinceCheck larger by the same.
LEMMA TickKeeps ==
  ASSUME RetryInv, Tick
  PROVE  RetryInv'
<1>1. /\ now' = (now + 1) % TickMod /\ sinceCheck' = sinceCheck + 1
      /\ now \in Ticks /\ sinceCheck \in 0 .. CheckPeriod - 1
      /\ UNCHANGED <<table, initialized, todo, onAir, given, sent, latest>>
  BY DEF Tick, RetryInv, TypeOK
<1>2. now' \in Ticks
  <2>1. 0 \in Ticks
    BY DEF Ticks
  <2> QED BY <1>1, <2>1, TickAges
<1>3. TypeOK'
  BY <1>1, <1>2 DEF RetryInv, TypeOK
<1>4. AgeBounded'
  <2> SUFFICES ASSUME NEW i \in Slots, table[i].active
               PROVE  Elapsed(i)' < Timeout + sinceCheck'
    BY <1>1 DEF AgeBounded
  <2> DEFINE ts == table[i].timestamp
  <2>1. ts \in Ticks
    BY ActiveIsEntry DEF RetryInv, Entry
  <2>2. Elapsed(i) < Timeout + sinceCheck /\ Elapsed(i) = (now - ts) % TickMod
    BY DEF RetryInv, AgeBounded, Elapsed
  <2>3. (now - ts) % TickMod \in Nat
    <3>1. (now - ts) % TickMod = IF now >= ts THEN now - ts
                                 ELSE now - ts + TickMod
      BY <1>1, <2>1, TickDifference
    <3> QED BY <1>1, <2>1, <3>1 DEF Ticks
  <2>4. ((now - ts) % TickMod) + 1 < TickMod
    BY <1>1, <2>2, <2>3
  <2>5. (now' - ts) % TickMod = ((now - ts) % TickMod) + 1
    <3> HIDE DEF ts
    <3> QED BY <1>1, <2>1, <2>4, TickAges
  <2>6. Elapsed(i)' = (now' - ts) % TickMod
    BY <1>1 DEF Elapsed
  <2> HIDE DEF ts
  <2> QED BY <1>1, <2>2, <2>3, <2>5, <2>6
<1>5. OneEntryPerDevice' /\ SingleHolder' /\ JobsInOrder' /\ KnownCommands'
  BY <1>1 DEF RetryInv, OneEntryPerDevice, SingleHolder, JobsInOrder,
              KnownCommands
<1>6. EmptyWhenDown'
  BY <1>1 DEF RetryInv, EmptyWhenDown
<1> QED BY <1>3, <1>4, <1>5, <1>6 DEF RetryInv

\* Every step keeps the invariant.
LEMMA NextKeeps == RetryInv /\ [Next]_vars => RetryInv'
<1> SUFFICES ASSUME RetryInv, [Next]_vars PROVE RetryInv'
  OBVIOUS
<1>1. ASSUME NEW t \in Tasks, TaskStep(t) PROVE RetryInv'
  BY <1>1, SendKeeps, StoreKeeps DEF TaskStep
<1>2. ASSUME NEW t \in Senders, NEW d \in Devices, Give(t, d) PROVE RetryInv'
  BY <1>2, GiveKeeps
<1>3. CASE cmd_retry_init \/ cmd_retry_deinit
  <2>1. table' = [i \in Slots |-> IF i \in Slots THEN NoEntry ELSE table[i]]
    BY <1>3 DEF cmd_retry_init, cmd_retry_deinit
  <2>2. initialized' \in BOOLEAN
    BY <1>3, Zenon DEF cmd_retry_init, cmd_retry_deinit
  <2>3. UNCHANGED <<now, sinceCheck, todo, onAir, given, sent, latest>>
    BY <1>3 DEF cmd_retry_init, cmd_retry_deinit
  <2> QED BY <2>1, <2>2, <2>3, DropKeeps, Slots \in SUBSET Slots
<1>4. ASSUME NEW d \in Devices, cmd_retry_confirm(d) PROVE RetryInv'
  <2> DEFINE s == Lowest(PendingOf(d))
  <2>1. PendingOf(d) \in SUBSET Slots
    BY DEF PendingOf
  <2>2. s \in Slots
    BY <1>4, <2>1, LowestIsMember DEF cmd_retry_confirm
  <2>3. table' = [i \in Slots |-> IF i \in {s} THEN NoEntry ELSE table[i]]
    BY <1>4, <2>2 DEF cmd_retry_confirm, RetryInv, TypeOK
  <2>4. UNCHANGED <<initialized, now, sinceCheck, todo, onAir, given, sent, latest>>
    BY <1>4 DEF cmd_retry_confirm
  <2>5. initialized' \in BOOLEAN
    BY <2>4 DEF RetryInv, TypeOK
  <2>6. initialized' \/ ~ initialized
    BY <2>4
  <2> HIDE DEF s
  <2> QED BY <2>2, <2>3, <2>4, <2>5, <2>6, DropKeeps
<1>5. ASSUME NEW d \in Devices, cmd_retry_on_unavailable(d) PROVE RetryInv'
  <2> DEFINE s == Lowest(PendingOf(d))
  <2>1. PendingOf(d) \in SUBSET Slots
    BY DEF PendingOf
  <2>2. s \in PendingOf(d)
    BY <1>5, <2>1, LowestIsMember DEF cmd_retry_on_unavailable
  <2>3. s \in Slots /\ table[s].active
    BY <2>2 DEF PendingOf
  <2>4. /\ TakeOut(Zigbee, {s}) /\ todo[Zigbee] = {} /\ Zigbee \in Tasks
        /\ UNCHANGED <<initialized, now, onAir, given, sent, latest>>
        /\ sinceCheck' = sinceCheck
    BY <1>5 DEF cmd_retry_on_unavailable, Tasks
  <2>5. sinceCheck' \in 0 .. CheckPeriod
    BY <2>4 DEF RetryInv, TypeOK
  <2> HIDE DEF s
  <2> QED BY <2>3, <2>4, <2>5, TakeOutKeeps
<1>6. CASE cmd_retry_check_timeouts
  <2>1. /\ todo[Monitor] = {} /\ Monitor \in Tasks
        /\ UNCHANGED <<initialized, now, onAir, given, sent, latest>>
        /\ sinceCheck' = 0 /\ sinceCheck' \in 0 .. CheckPeriod
    BY <1>6 DEF cmd_retry_check_timeouts, Tasks
  <2>2. CASE initialized
    <3>1. TakeOut(Monitor, TimedOut)
      BY <1>6, <2>2 DEF cmd_retry_check_timeouts
    <3>2. TimedOut \in SUBSET Slots /\ \A i \in TimedOut : table[i].active
      BY DEF TimedOut
    <3> QED BY <2>1, <3>1, <3>2, TakeOutKeeps
  <2>3. CASE ~ initialized
    <3>1. UNCHANGED <<table, todo>>
      BY <1>6, <2>3 DEF cmd_retry_check_timeouts
    <3>2. \A i \in Slots : ~ table[i].active
      BY <2>3 DEF RetryInv, EmptyWhenDown
    <3>3. TypeOK' /\ AgeBounded' /\ EmptyWhenDown'
      BY <2>1, <3>1, <3>2 DEF RetryInv, TypeOK, AgeBounded, EmptyWhenDown
    <3>4. /\ OneEntryPerDevice' /\ SingleHolder'
          /\ JobsInOrder' /\ KnownCommands'
      BY <2>1, <3>1 DEF RetryInv, OneEntryPerDevice, SingleHolder, JobsInOrder,
                        KnownCommands
    <3> QED BY <3>3, <3>4 DEF RetryInv
  <2> QED BY <2>2, <2>3
<1>7. CASE Tick
  BY <1>7, TickKeeps
<1>8. CASE UNCHANGED vars
  BY <1>8 DEF vars, RetryInv, TypeOK, OneEntryPerDevice, SingleHolder,
              AgeBounded, Elapsed, JobsInOrder, KnownCommands, EmptyWhenDown
<1> QED BY <1>1, <1>2, <1>3, <1>4, <1>5, <1>6, <1>7, <1>8 DEF Next
(***************************************************************************)
(* The invariant of zb_cmd_retry.c holds in every reachable state.         *)
(***************************************************************************)
THEOREM Invariance == Spec => []RetryInv
  BY InitInv, NextKeeps, PTL DEF Spec

(***************************************************************************)
(* Type correctness: the copies a task makes under the mutex are commands  *)
(* that were given, whatever the other tasks did to the table.             *)
(***************************************************************************)
THEOREM TypeCorrect == Spec => []TypeOK
<1>1. RetryInv => TypeOK
  BY DEF RetryInv
<1> QED BY <1>1, Invariance, PTL

(***************************************************************************)
(* What confirm(), on_unavailable() and store rely on: a device never has  *)
(* two entries, in a table of any size used by any number of tasks.        *)
(***************************************************************************)
THEOREM OneEntry == Spec => []OneEntryPerDevice
<1>1. RetryInv => OneEntryPerDevice
  BY DEF RetryInv
<1> QED BY <1>1, Invariance, PTL

(***************************************************************************)
(* The copies on_unavailable() and check_timeouts() work on outside the    *)
(* mutex are exclusive: no two tasks repeat the same command.              *)
(***************************************************************************)
THEOREM RetryIsExclusive == Spec => []SingleHolder
<1>1. RetryInv => SingleHolder
  BY DEF RetryInv
<1> QED BY <1>1, Invariance, PTL

(***************************************************************************)
(* check_timeouts() finds every entry in time for every timeout and period *)
(* that together are shorter than a round of the tick counter.             *)
(***************************************************************************)
THEOREM TimeoutsAreMet == Spec => []AgeBounded
<1>1. RetryInv => AgeBounded
  BY DEF RetryInv
<1> QED BY <1>1, Invariance, PTL
=============================================================================
