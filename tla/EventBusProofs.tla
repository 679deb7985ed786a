---------------------------- MODULE EventBusProofs ----------------------------
(***************************************************************************)
(* Safety of the event bus, for any number of publishers and of events and *)
(* any size of the queues.                                                 *)
(***************************************************************************)
EXTENDS EventBus, TLAPS

USE TasksAssumption, SizesAssumption

-------------------------------------------------------------------------------
(***************************************************************************)
(* Sequences.                                                              *)
(***************************************************************************)
LEMMA AppendSet ==
  ASSUME NEW S, NEW s \in Seq(S), NEW e \in S
  PROVE  /\ Append(s, e) \in Seq(S) /\ Len(Append(s, e)) = Len(s) + 1
         /\ ToSet(Append(s, e)) = ToSet(s) \cup {e}
<1>1. /\ Append(s, e) \in Seq(S) /\ Len(Append(s, e)) = Len(s) + 1
      /\ \A i \in 1 .. Len(s) : Append(s, e)[i] = s[i]
      /\ Append(s, e)[Len(s) + 1] = e
  OBVIOUS
<1>2. ToSet(Append(s, e)) \subseteq ToSet(s) \cup {e}
  BY <1>1 DEF ToSet
<1>3. ToSet(s) \subseteq ToSet(Append(s, e))
  BY <1>1 DEF ToSet
<1>4. e \in ToSet(Append(s, e))
  BY <1>1 DEF ToSet
<1> QED BY <1>1, <1>2, <1>3, <1>4

LEMMA TailSet ==
  ASSUME NEW S, NEW s \in Seq(S), s # <<>>
  PROVE  /\ Head(s) \in S /\ Tail(s) \in Seq(S) /\ Len(Tail(s)) = Len(s) - 1
         /\ ToSet(s) = {Head(s)} \cup ToSet(Tail(s))
<1>1. /\ Head(s) \in S /\ Head(s) = s[1] /\ Len(s) \in Nat /\ Len(s) > 0
      /\ Tail(s) \in Seq(S) /\ Len(Tail(s)) = Len(s) - 1
      /\ \A i \in 1 .. Len(s) - 1 : Tail(s)[i] = s[i + 1]
  OBVIOUS
<1>2. ToSet(Tail(s)) \subseteq ToSet(s) /\ Head(s) \in ToSet(s)
  BY <1>1 DEF ToSet
<1>3. ASSUME NEW i \in 1 .. Len(s), i # 1
      PROVE  s[i] \in ToSet(Tail(s))
  <2>1. PICK j \in 1 .. Len(s) - 1 : i = j + 1
    <3>1. i - 1 \in 1 .. Len(s) - 1 /\ i = (i - 1) + 1
      BY <1>1, <1>3
    <3> QED BY <3>1
  <2>2. Tail(s)[j] = s[i] /\ j \in DOMAIN Tail(s)
    BY <1>1, <2>1
  <2> QED BY <2>2 DEF ToSet
<1>4. ToSet(s) \subseteq {Head(s)} \cup ToSet(Tail(s))
  BY <1>1, <1>3 DEF ToSet
<1> QED BY <1>1, <1>2, <1>4

LEMMA AppendOrdered ==
  ASSUME NEW s \in Seq(Event), NEW e \in Event, Ordered(s),
         \A f \in ToSet(s) : Before(f, e)
  PROVE  Ordered(Append(s, e))
<1>1. /\ Len(Append(s, e)) = Len(s) + 1 /\ Len(s) \in Nat
      /\ Append(s, e) \in Seq(Event)
      /\ \A i \in 1 .. Len(s) : Append(s, e)[i] = s[i] /\ s[i] \in ToSet(s)
      /\ Append(s, e)[Len(s) + 1] = e
  BY DEF ToSet
<1> SUFFICES ASSUME NEW i \in 1 .. Len(s) + 1, NEW j \in 1 .. Len(s) + 1, i < j
             PROVE  Before(Append(s, e)[i], Append(s, e)[j])
  BY <1>1 DEF Ordered
<1>2. i \in 1 .. Len(s)
  BY <1>1
<1>3. CASE j = Len(s) + 1
  BY <1>1, <1>2, <1>3
<1>4. CASE j # Len(s) + 1
  BY <1>1, <1>2, <1>4 DEF Ordered
<1> QED BY <1>3, <1>4

LEMMA TailOrdered ==
  ASSUME NEW s \in Seq(Event), s # <<>>, Ordered(s)
  PROVE  /\ Ordered(Tail(s))
         /\ \A f \in ToSet(Tail(s)) : Before(Head(s), f)
<1>1. /\ Head(s) = s[1] /\ Len(s) \in Nat /\ Len(s) > 0
      /\ Tail(s) \in Seq(Event) /\ Len(Tail(s)) = Len(s) - 1
      /\ \A i \in 1 .. Len(s) - 1 : Tail(s)[i] = s[i + 1]
  OBVIOUS
<1>2. ASSUME NEW i \in 1 .. Len(s), NEW j \in 1 .. Len(s), i < j
      PROVE  Before(s[i], s[j])
  BY <1>2 DEF Ordered
<1>3. Ordered(Tail(s))
  BY <1>1, <1>2 DEF Ordered
<1>4. ASSUME NEW i \in 1 .. Len(s) - 1 PROVE Before(Head(s), Tail(s)[i])
  BY <1>1, <1>2
<1> QED BY <1>1, <1>3, <1>4 DEF ToSet

LEMMA TailOnce ==
  ASSUME NEW S, NEW s \in Seq(S), s # <<>>, Once(s)
  PROVE  Once(Tail(s)) /\ Head(s) \notin ToSet(Tail(s))
<1>1. /\ Head(s) = s[1] /\ Len(s) \in Nat /\ Len(s) > 0
      /\ Tail(s) \in Seq(S) /\ Len(Tail(s)) = Len(s) - 1
      /\ \A i \in 1 .. Len(s) - 1 : Tail(s)[i] = s[i + 1]
  OBVIOUS
<1>2. ASSUME NEW i \in 1 .. Len(s), NEW j \in 1 .. Len(s), s[i] = s[j]
      PROVE  i = j
  BY <1>2 DEF Once
<1>3. Once(Tail(s))
  <2> SUFFICES ASSUME NEW i \in 1 .. Len(s) - 1, NEW j \in 1 .. Len(s) - 1,
                      Tail(s)[i] = Tail(s)[j]
               PROVE  i = j
    BY <1>1, SMTT(60) DEF Once
  <2>1. s[i + 1] = s[j + 1] /\ i + 1 \in 1 .. Len(s) /\ j + 1 \in 1 .. Len(s)
    BY <1>1
  <2>2. i + 1 = j + 1
    BY <1>2, <2>1
  <2> QED BY <2>2
<1>4. ASSUME NEW i \in 1 .. Len(s) - 1 PROVE Tail(s)[i] # Head(s)
  BY <1>1, <1>2
<1> QED BY <1>1, <1>3, <1>4 DEF ToSet

LEMMA AppendOnce ==
  ASSUME NEW S, NEW s \in Seq(S), NEW e \in S, Once(s), e \notin ToSet(s)
  PROVE  Once(Append(s, e))
<1>1. /\ Len(Append(s, e)) = Len(s) + 1 /\ Len(s) \in Nat
      /\ Append(s, e) \in Seq(S)
      /\ \A i \in 1 .. Len(s) : Append(s, e)[i] = s[i] /\ s[i] # e
      /\ Append(s, e)[Len(s) + 1] = e
  BY DEF ToSet
<1>2. ASSUME NEW i \in 1 .. Len(s), NEW j \in 1 .. Len(s), s[i] = s[j]
      PROVE  i = j
  BY <1>2 DEF Once
<1> QED BY <1>1, <1>2 DEF Once

-------------------------------------------------------------------------------
(***************************************************************************)
(* The places an event can be in, and how the steps change them.           *)
(***************************************************************************)
LEMMA Places ==
  ASSUME BusInv
  PROVE  /\ Held \subseteq Event /\ InQueue \subseteq Event
         /\ Current \subseteq Event /\ Due \subseteq Current
         /\ \A l \in Levels : queue[l] \in Seq(Event)
                              /\ ToSet(queue[l]) \subseteq InQueue
         /\ Nothing \notin Event
<1>1. Nothing \notin Event
  BY DEF Nothing, Event, Ids
<1>2. \A l \in Levels : queue[l] \in Seq(Event)
  BY DEF BusInv, TypeOK
<1>3. \A l \in Levels : ToSet(queue[l]) \subseteq Event
  BY <1>2 DEF ToSet
<1>4. Held \subseteq Event /\ Current \subseteq Event
  BY <1>1 DEF BusInv, TypeOK, Held, Current
<1> QED BY <1>1, <1>2, <1>3, <1>4 DEF InQueue, Levels, Due

LEMMA Takes ==
  ASSUME BusInv, NEW t \in Tasks, NEW e \in Event, e.by = t, job[t] = Nothing,
         job' = [job EXCEPT ![t] = e]
  PROVE  /\ Held' = Held \cup {e}
         /\ job' \in [Tasks -> Event \cup {Nothing}]
         /\ \A u \in Tasks : job'[u] # Nothing => job'[u].by = u
<1>1. job \in [Tasks -> Event \cup {Nothing}]
  BY DEF BusInv, TypeOK
<1>2. \A u \in Tasks : job'[u] = IF u = t THEN e ELSE job[u]
  BY <1>1
<1>3. e # Nothing
  BY Places
<1>4. \A u \in Tasks : job'[u] # Nothing => job'[u].by = u
  BY <1>2 DEF BusInv, Apart
<1>5. Held' = Held \cup {e}
  BY <1>2, <1>3 DEF Held
<1> QED BY <1>1, <1>4, <1>5

LEMMA Drops ==
  ASSUME BusInv, NEW t \in Tasks, job[t] # Nothing,
         job' = [job EXCEPT ![t] = Nothing]
  PROVE  /\ Held' = Held \ {job[t]}
         /\ job[t] \in Held /\ job[t] \in Event /\ job[t].by = t
         /\ job' \in [Tasks -> Event \cup {Nothing}]
         /\ \A u \in Tasks : job'[u] # Nothing => job'[u].by = u
<1>1. job \in [Tasks -> Event \cup {Nothing}]
  BY DEF BusInv, TypeOK
<1>2. \A u \in Tasks : job'[u] = IF u = t THEN Nothing ELSE job[u]
  BY <1>1
<1>3. \A u \in Tasks : job[u] # Nothing => job[u].by = u
  BY DEF BusInv, Apart
<1>4. Held' = Held \ {job[t]}
  BY <1>2, <1>3 DEF Held
<1> QED BY <1>1, <1>2, <1>3, <1>4 DEF Held

LEMMA Enters ==
  ASSUME BusInv, NEW e \in Event, Room(e.level), queue' = Queued(e),
         \A f \in InQueue : Before(f, e)
  PROVE  /\ InQueue' = InQueue \cup {e}
         /\ queue' \in [Levels -> Seq(Event)]
         /\ \A l \in Levels :
              /\ Len(queue'[l]) <= Size(l)
              /\ Ordered(queue'[l])
              /\ ToSet(queue'[l]) = IF l = e.level THEN ToSet(queue[l]) \cup {e}
                                    ELSE ToSet(queue[l])
<1>1. queue \in [Levels -> Seq(Event)] /\ e.level \in Levels
  BY DEF BusInv, TypeOK, Event
<1>2. \A l \in Levels : queue'[l] = IF l = e.level THEN Append(queue[l], e)
                                    ELSE queue[l]
  BY <1>1 DEF Queued
<1>3. \A f \in ToSet(queue[e.level]) : Before(f, e)
  BY <1>1, Places
<1>4. /\ Ordered(Append(queue[e.level], e))
      /\ Append(queue[e.level], e) \in Seq(Event)
      /\ Len(Append(queue[e.level], e)) <= Size(e.level)
      /\ ToSet(Append(queue[e.level], e)) = ToSet(queue[e.level]) \cup {e}
  <2>1. Ordered(queue[e.level]) /\ Len(queue[e.level]) \in Nat
    BY <1>1 DEF BusInv, Apart
  <2>2. Size(e.level) \in Nat
    BY DEF Size
  <2> QED BY <1>1, <1>3, <2>1, <2>2, AppendOrdered, AppendSet DEF Room
<1>5. \A l \in Levels : Len(queue[l]) <= Size(l) /\ Ordered(queue[l])
  BY DEF BusInv, TypeOK, Apart
<1>6. queue' \in [Levels -> Seq(Event)]
  BY <1>1, <1>4 DEF Queued
<1>7. \A l \in Levels :
        ToSet(queue'[l]) = IF l = e.level THEN ToSet(queue[l]) \cup {e}
                           ELSE ToSet(queue[l])
  BY <1>2, <1>4
<1>8. InQueue' = InQueue \cup {e}
  BY <1>1, <1>7 DEF InQueue, Levels
<1> QED BY <1>2, <1>4, <1>5, <1>6, <1>7, <1>8

\* The memory of an event that comes up, and of one that is given up.
LEMMA Allocated ==
  ASSUME BusInv, NEW e \in Event, \A f \in Flying : f.id # e.id,
         Flying' = Flying \cup {e}, Owing' = Owing \cup {e},
         data' = data \cup {e.id}, strings' = strings \cup Owned(e)
  PROVE  Accounted'
<1>1. Flying \subseteq Event /\ Owing \subseteq Flying
  BY Places DEF Flying, Owing
<1>2. \A i \in Ids : i \in data' <=> \E f \in Flying' : f.id = i
  BY DEF BusInv, Accounted
<1>3. \A i \in Ids :
        i \in strings' <=> \E f \in Owing' : f.kind = "publish" /\ f.id = i
  BY DEF BusInv, Accounted, Owned
<1> QED BY <1>2, <1>3 DEF Accounted

LEMMA Freed ==
  ASSUME BusInv, NEW e \in Flying, \A f \in Flying : f # e => f.id # e.id,
         Flying' = Flying \ {e}, Owing' = Owing \ {e},
         data' = data \ {e.id}, strings' = strings \ Owned(e)
  PROVE  Accounted'
<1>1. Flying \subseteq Event /\ Owing \subseteq Flying
  BY Places DEF Flying, Owing
<1>2. \A i \in Ids : i \in data' <=> \E f \in Flying' : f.id = i
  BY DEF BusInv, Accounted
<1>3. \A i \in Ids :
        i \in strings' <=> \E f \in Owing' : f.kind = "publish" /\ f.id = i
  BY <1>1 DEF BusInv, Accounted, Owned
<1> QED BY <1>2, <1>3 DEF Accounted

LEMMA Types ==
  ASSUME BusInv
  PROVE  /\ data \subseteq Ids /\ strings \subseteq Ids /\ events \in 0 .. MaxEvents
         /\ last \in [Handlers -> [Tasks -> [Levels -> Ids \cup {0}]]]
         /\ disp.event \in Event \cup {Nothing}
         /\ disp.pc \in {"dispatch", "call"} => disp.event \in Event
         /\ disp.pc \in {"dispatch", "call"} => Current = {disp.event}
         /\ disp.pc \in {"high", "normal"} => Current = {} /\ Due = {}
         /\ disp.todo \in Seq(Handlers)
         /\ disp.pc \in {"high", "normal", "dispatch", "call"}
<1>1. Nothing \notin Event
  BY Places
<1> QED BY <1>1 DEF BusInv, TypeOK, Dispatching, Current, Due

\* No two events on their way have the same number.
LEMMA Unique ==
  ASSUME BusInv, NEW e \in Flying, NEW f \in Flying, e # f
  PROVE  e.id # f.id
<1>1. ASSUME NEW l \in Levels, NEW a \in ToSet(queue[l]), NEW b \in ToSet(queue[l]),
             a # b
      PROVE  a.id # b.id
  <2>1. queue[l] \in Seq(Event) /\ Ordered(queue[l])
    BY DEF BusInv, TypeOK, Apart
  <2>2. PICK i \in 1 .. Len(queue[l]), j \in 1 .. Len(queue[l]) :
          a = queue[l][i] /\ b = queue[l][j]
    BY <1>1, <2>1, SMTT(60) DEF ToSet
  <2>3. i < j \/ j < i
    BY <1>1, <2>1, <2>2
  <2> QED BY <2>1, <2>2, <2>3 DEF Ordered, Before
<1>2. ASSUME NEW a \in InQueue, NEW b \in InQueue, a # b PROVE a.id # b.id
  BY <1>1, <1>2 DEF InQueue, Levels, BusInv, Apart
<1>3. ASSUME NEW a \in Current, NEW b \in Current PROVE a = b
  BY DEF Current
<1> QED BY <1>2, <1>3 DEF Flying, BusInv, Apart, Before

-------------------------------------------------------------------------------
(***************************************************************************)
(* Publishing.                                                             *)
(***************************************************************************)
LEMMA PublishKeeps ==
  ASSUME BusInv, NEW t \in Tasks, NEW k \in Kinds, NEW l \in Levels,
         event_publish(t, k, l)
  PROVE  BusInv'
<1> DEFINE e == [id |-> events + 1, kind |-> k, level |-> l, by |-> t]
<1>1. /\ events \in Nat /\ events + 1 \in Ids /\ events + 1 \in 0 .. MaxEvents
      /\ events' = events + 1
      /\ job[t] = Nothing
      /\ UNCHANGED <<subscribers, disp, last, passed>>
  BY Types DEF event_publish, Ids, history
<1>2. /\ e \in Event /\ e.id = events + 1 /\ e.by = t /\ e.level = l
      /\ data' = data \cup {e.id} /\ strings' = strings \cup Owned(e)
      /\ \/ Room(e.level) /\ queue' = Queued(e) /\ UNCHANGED job
         \/ job' = [job EXCEPT ![t] = e] /\ UNCHANGED queue
  BY <1>1 DEF event_publish, Event
<1> HIDE DEF e
<1>3. Flying \subseteq Event /\ Held \subseteq Flying /\ InQueue \subseteq Flying
      /\ Current \subseteq Flying /\ Due \subseteq Current
      /\ \A f \in Flying : f.id \in Nat /\ f.id <= events
  BY Places DEF Flying, BusInv, Apart, Event, Ids
<1>4. \A f \in Flying : Before(f, e) /\ f.id < e.id /\ f.id # e.id
  BY <1>1, <1>2, <1>3 DEF Before
<1>5. Current' = Current /\ Due' = Due
  BY <1>1 DEF Current, Due
<1>6. data' \subseteq Ids /\ strings' \subseteq Ids
  BY <1>1, <1>2, Types DEF Owned
<1>7. \A h \in Handlers, u \in Tasks, m \in Levels :
        last[h][u][m] \in Ids \cup {0} /\ last[h][u][m] <= events
  BY Types DEF BusInv, Known
<1>8. Known'
  BY <1>1, <1>7 DEF Known, Ids
<1>9. Dispatching'
  BY <1>1 DEF BusInv, Dispatching
<1>10. Flying' = Flying \cup {e} /\ Owing' = Owing \cup {e} => Accounted' /\ InOrder'
  <2> SUFFICES ASSUME Flying' = Flying \cup {e}, Owing' = Owing \cup {e}
               PROVE  Accounted' /\ InOrder'
    OBVIOUS
  <2>1. Accounted'
    BY <1>2, <1>4, Allocated
  <2>2. \A h \in Handlers : e.id > last[h][e.by][e.level]
    BY <1>1, <1>2, <1>7 DEF Ids
  <2>3. \A f \in Held \cup InQueue, h \in Handlers : f.id > last[h][f.by][f.level]
    BY DEF BusInv, InOrder
  <2>4. (Held \cup InQueue)' \subseteq Held \cup InQueue \cup {e}
    <3>1. \/ InQueue' = InQueue \cup {e} /\ Held' = Held
          \/ InQueue' = InQueue /\ Held' = Held \cup {e}
      <4>1. CASE Room(e.level) /\ queue' = Queued(e) /\ UNCHANGED job
        BY <1>2, <1>3, <1>4, <4>1, Enters DEF Held
      <4>2. CASE job' = [job EXCEPT ![t] = e] /\ UNCHANGED queue
        BY <1>1, <1>2, <4>2, Takes DEF InQueue
      <4> QED BY <1>2, <4>1, <4>2
    <3> QED BY <3>1
  <2> QED BY <1>1, <1>5, <2>1, <2>2, <2>3, <2>4 DEF BusInv, InOrder
<1>11. CASE Room(e.level) /\ queue' = Queued(e) /\ UNCHANGED job
  <2>1. /\ InQueue' = InQueue \cup {e}
        /\ queue' \in [Levels -> Seq(Event)]
        /\ \A m \in Levels :
             /\ Len(queue'[m]) <= Size(m)
             /\ Ordered(queue'[m])
             /\ ToSet(queue'[m]) = IF m = e.level THEN ToSet(queue[m]) \cup {e}
                                   ELSE ToSet(queue[m])
    BY <1>2, <1>3, <1>4, <1>11, Enters
  <2>2. Held' = Held
    BY <1>11 DEF Held
  <2>3. TypeOK'
    BY <1>1, <1>6, <1>11, <2>1 DEF BusInv, TypeOK
  <2>4. Flying' = Flying \cup {e} /\ Owing' = Owing \cup {e}
    BY <1>5, <2>1, <2>2 DEF Flying, Owing
  <2>5. Apart'
    <3>1. \A f \in Flying' : f.id <= events'
      BY <1>1, <1>2, <1>3, <2>4
    <3>2. \A m \in Levels : \A f \in ToSet(queue'[m]) : f.level = m
      BY <2>1 DEF BusInv, Apart
    <3>3. \A f \in ToSet(queue'["normal"]), g \in ToSet(queue'["high"]) : f.id # g.id
      BY <1>2, <1>3, <1>4, <2>1, Places DEF BusInv, Apart, Levels
    <3>4. \A f \in Held : f.by # e.by
      BY <1>1, <1>2 DEF BusInv, Apart, Held
    <3>5. \A f \in InQueue', g \in Held' : Before(f, g)
      BY <1>3, <1>4, <2>1, <2>2, <3>4 DEF BusInv, Apart, Before
    <3>6. \A f \in Current', g \in (Held \cup InQueue)' :
            f.id # g.id /\ (f.by = g.by /\ f.level = g.level => f.id < g.id)
      BY <1>3, <1>4, <1>5, <2>1, <2>2 DEF BusInv, Apart
    <3> QED BY <1>11, <2>1, <2>2, <3>1, <3>2, <3>3, <3>5, <3>6 DEF BusInv, Apart
  <2>6. Patient'
    <3>1. Waiting \subseteq Waiting'
      BY <2>1 DEF Waiting, Levels
    <3> QED BY <1>1, <3>1 DEF BusInv, Patient
  <2> QED BY <1>8, <1>9, <1>10, <2>3, <2>4, <2>5, <2>6 DEF BusInv
<1>12. CASE job' = [job EXCEPT ![t] = e] /\ UNCHANGED queue
  <2>1. /\ Held' = Held \cup {e}
        /\ job' \in [Tasks -> Event \cup {Nothing}]
        /\ \A u \in Tasks : job'[u] # Nothing => job'[u].by = u
    BY <1>1, <1>2, <1>12, Takes
  <2>2. InQueue' = InQueue /\ Waiting' = Waiting
    BY <1>12 DEF InQueue, Waiting
  <2>3. TypeOK'
    BY <1>1, <1>6, <1>12, <2>1 DEF BusInv, TypeOK
  <2>4. Flying' = Flying \cup {e} /\ Owing' = Owing \cup {e}
    BY <1>5, <2>1, <2>2 DEF Flying, Owing
  <2>5. Apart'
    <3>1. \A f \in Flying' : f.id <= events'
      BY <1>1, <1>2, <1>3, <2>4
    <3>2. \A f, g \in Held' : f # g => f.id # g.id
      BY <1>3, <1>4, <2>1 DEF BusInv, Apart
    <3>3. \A f \in InQueue', g \in Held' : Before(f, g)
      BY <1>3, <1>4, <2>1, <2>2 DEF BusInv, Apart
    <3>4. \A f \in Current', g \in (Held \cup InQueue)' :
            f.id # g.id /\ (f.by = g.by /\ f.level = g.level => f.id < g.id)
      BY <1>3, <1>4, <1>5, <2>1, <2>2 DEF BusInv, Apart
    <3> QED BY <1>12, <2>1, <3>1, <3>2, <3>3, <3>4 DEF BusInv, Apart
  <2>6. Patient'
    BY <1>1, <2>2 DEF BusInv, Patient
  <2> QED BY <1>8, <1>9, <1>10, <2>3, <2>4, <2>5, <2>6 DEF BusInv
<1> QED BY <1>2, <1>11, <1>12

LEMMA SendKeeps ==
  ASSUME BusInv, NEW t \in Tasks, Send(t)
  PROVE  BusInv'
<1> DEFINE e == job[t]
<1>1. /\ e # Nothing /\ Room(e.level) /\ queue' = Queued(e)
      /\ job' = [job EXCEPT ![t] = Nothing]
      /\ UNCHANGED <<subscribers, disp, data, strings, last, passed, events>>
  BY DEF Send, memory, history
<1>2. /\ Held' = Held \ {e} /\ e \in Held /\ e \in Event /\ e.by = t
      /\ job' \in [Tasks -> Event \cup {Nothing}]
      /\ \A u \in Tasks : job'[u] # Nothing => job'[u].by = u
  BY <1>1, Drops
<1> HIDE DEF e
<1>3. /\ \A f \in InQueue : Before(f, e)
      /\ \A f \in Held \ {e} : f.by # e.by /\ f.id # e.id
  BY <1>2 DEF BusInv, Apart, Held
<1>4. /\ InQueue' = InQueue \cup {e}
      /\ queue' \in [Levels -> Seq(Event)]
      /\ \A m \in Levels :
           /\ Len(queue'[m]) <= Size(m)
           /\ Ordered(queue'[m])
           /\ ToSet(queue'[m]) = IF m = e.level THEN ToSet(queue[m]) \cup {e}
                                 ELSE ToSet(queue[m])
  BY <1>1, <1>2, <1>3, Enters
<1>5. Current' = Current /\ Due' = Due
  BY <1>1 DEF Current, Due
<1>6. (Held \cup InQueue)' = Held \cup InQueue
  BY <1>2, <1>4
<1>7. Flying' = Flying /\ Owing' = Owing
  BY <1>5, <1>6 DEF Flying, Owing
<1>8. TypeOK'
  BY <1>1, <1>2, <1>4 DEF BusInv, TypeOK
<1>9. Dispatching' /\ Known'
  BY <1>1 DEF BusInv, Dispatching, Known
<1>10. Accounted'
  BY <1>1, <1>7 DEF BusInv, Accounted
<1>11. InOrder'
  BY <1>1, <1>5, <1>6 DEF BusInv, InOrder
<1>12. Apart'
  <2>1. \A m \in Levels : \A f \in ToSet(queue'[m]) : f.level = m
    BY <1>4 DEF BusInv, Apart
  <2>2. \A f \in ToSet(queue'["normal"]), g \in ToSet(queue'["high"]) : f.id # g.id
    BY <1>3, <1>4, Places DEF BusInv, Apart, Levels, Before
  <2>3. \A f \in InQueue', g \in Held' : Before(f, g)
    BY <1>2, <1>3, <1>4 DEF BusInv, Apart, Before
  <2>4. \A f, g \in Held' : f # g => f.id # g.id
    BY <1>2 DEF BusInv, Apart
  <2> QED BY <1>1, <1>2, <1>4, <1>5, <1>6, <1>7, <2>1, <2>2, <2>3, <2>4
          DEF BusInv, Apart
<1>13. Patient'
  <2>1. Waiting \subseteq Waiting'
    BY <1>4 DEF Waiting, Levels
  <2> QED BY <1>1, <2>1 DEF BusInv, Patient
<1> QED BY <1>8, <1>9, <1>10, <1>11, <1>12, <1>13 DEF BusInv

LEMMA GiveUpKeeps ==
  ASSUME BusInv, NEW t \in Tasks, GiveUp(t)
  PROVE  BusInv'
<1> DEFINE e == job[t]
<1>1. /\ e # Nothing /\ job' = [job EXCEPT ![t] = Nothing]
      /\ data' = data \ {e.id} /\ strings' = strings \ Owned(e)
      /\ UNCHANGED <<queue, subscribers, disp, last, passed, events>>
  BY DEF GiveUp, history
<1>2. /\ Held' = Held \ {e} /\ e \in Held /\ e \in Event /\ e.by = t
      /\ job' \in [Tasks -> Event \cup {Nothing}]
      /\ \A u \in Tasks : job'[u] # Nothing => job'[u].by = u
  BY <1>1, Drops
<1> HIDE DEF e
<1>3. Current' = Current /\ Due' = Due /\ InQueue' = InQueue /\ Waiting' = Waiting
  BY <1>1 DEF Current, Due, InQueue, Waiting
<1>4. e \notin InQueue /\ e \notin Current /\ Due \subseteq Current /\ e \in Flying
  BY <1>2, Places DEF BusInv, Apart, Before, Flying
<1>5. Flying' = Flying \ {e} /\ Owing' = Owing \ {e}
  BY <1>2, <1>3, <1>4 DEF Flying, Owing
<1>6. TypeOK'
  BY <1>1, <1>2 DEF BusInv, TypeOK
<1>7. Dispatching' /\ Known'
  BY <1>1 DEF BusInv, Dispatching, Known
<1>8. Accounted'
  BY <1>1, <1>4, <1>5, Unique, Freed
<1>9. InOrder'
  BY <1>1, <1>2, <1>3 DEF BusInv, InOrder
<1>10. Apart'
  BY <1>1, <1>2, <1>3, <1>5 DEF BusInv, Apart
<1>11. Patient'
  BY <1>1, <1>3 DEF BusInv, Patient
<1> QED BY <1>6, <1>7, <1>8, <1>9, <1>10, <1>11 DEF BusInv

-------------------------------------------------------------------------------
(***************************************************************************)
(* Dispatching.                                                            *)
(***************************************************************************)
LEMMA TakeKeeps ==
  ASSUME BusInv, NEW l \in Levels, Take(l), disp.pc \in {"high", "normal"},
         UNCHANGED <<subscribers, job, data, strings, last, events>>
  PROVE  /\ TypeOK /\ passed' \in [Ids -> 0 .. MaxEvents] => TypeOK'
         /\ Dispatching' /\ Apart' /\ Accounted' /\ InOrder' /\ Known'
         /\ InQueue = InQueue' \cup {Head(queue[l])}
         /\ ToSet(queue[l]) = ToSet(queue'[l]) \cup {Head(queue[l])}
         /\ \A m \in Levels \ {l} : queue'[m] = queue[m]
         /\ Head(queue[l]) \in Event
<1> DEFINE e == Head(queue[l])
<1>1. /\ queue[l] # <<>> /\ queue' = [queue EXCEPT ![l] = Tail(@)]
      /\ disp' = [pc |-> "dispatch", event |-> e, todo |-> <<>>]
  BY DEF Take
<1>2. /\ queue \in [Levels -> Seq(Event)] /\ Ordered(queue[l])
      /\ Len(queue[l]) <= Size(l) /\ Len(queue[l]) \in Nat /\ Size(l) \in Nat
  BY DEF BusInv, TypeOK, Apart, Size
<1>3. /\ e \in Event /\ Tail(queue[l]) \in Seq(Event)
      /\ Len(Tail(queue[l])) = Len(queue[l]) - 1
      /\ ToSet(queue[l]) = {e} \cup ToSet(Tail(queue[l]))
      /\ Ordered(Tail(queue[l])) /\ \A f \in ToSet(Tail(queue[l])) : Before(e, f)
  BY <1>1, <1>2, TailSet, TailOrdered
<1>4. /\ queue' \in [Levels -> Seq(Event)] /\ queue'[l] = Tail(queue[l])
      /\ \A m \in Levels \ {l} : queue'[m] = queue[m]
  BY <1>1, <1>2, <1>3
<1>5. /\ disp'.pc = "dispatch" /\ disp'.event = e /\ disp'.todo = <<>>
      /\ disp' \in [pc : {"high", "normal", "dispatch", "call"},
                    event : Event \cup {Nothing}, todo : Seq(Handlers)]
  BY <1>1, <1>3
<1> HIDE DEF e
<1>6. /\ e \in ToSet(queue[l]) /\ e \in InQueue /\ e.level = l
      /\ InQueue = InQueue' \cup {e}
  BY <1>3, <1>4, Places, ZenonT(120) DEF InQueue, Levels, BusInv, Apart
<1>7. /\ Current = {} /\ Due = {} /\ Held' = Held
      /\ Current' = {e} /\ Due' = {e}
  BY <1>3, <1>5, Types, Places DEF Current, Due, Held
<1>8. Flying' = Flying /\ Owing' = Owing
  BY <1>6, <1>7 DEF Flying, Owing
<1>9. TypeOK /\ passed' \in [Ids -> 0 .. MaxEvents] => TypeOK'
  <2>1. Len(queue'[l]) <= Size(l)
    BY <1>2, <1>3, <1>4
  <2>2. \A m \in Levels \ {l} : Len(queue'[m]) <= Size(m)
    BY <1>4 DEF BusInv, TypeOK
  <2>3. \A m \in Levels : Len(queue'[m]) <= Size(m)
    BY <2>1, <2>2
  <2> QED BY <1>4, <1>5, <2>3 DEF TypeOK
<1>10. Dispatching'
  BY <1>3, <1>5 DEF BusInv, Dispatching, Once
<1>11. Accounted'
  BY <1>8 DEF BusInv, Accounted
<1>12. InOrder' /\ Known'
  <2>1. \A f \in Held' \cup InQueue', h \in Handlers : f.id > last[h][f.by][f.level]
    BY <1>6, <1>7 DEF BusInv, InOrder
  <2>2. \A h \in Handlers : e.id > last[h][e.by][e.level]
    BY <1>6 DEF BusInv, InOrder
  <2> QED BY <1>7, <2>1, <2>2 DEF BusInv, InOrder, Known
<1>13. Apart'
  <2>1. \A m \in Levels : Ordered(queue'[m]) /\ \A f \in ToSet(queue'[m]) : f.level = m
    BY <1>3, <1>4 DEF BusInv, Apart
  <2>2. \A f \in ToSet(queue'["normal"]), g \in ToSet(queue'["high"]) : f.id # g.id
    BY <1>3, <1>4 DEF BusInv, Apart, Levels
  <2>3. ASSUME NEW g \in Held' \cup InQueue'
        PROVE  e.id # g.id /\ (e.by = g.by /\ e.level = g.level => e.id < g.id)
    <3>1. CASE g \in Held
      BY <1>6, <3>1 DEF BusInv, Apart, Before
    <3>2. CASE g \in InQueue' /\ g.level = l
      <4>1. g \in ToSet(queue'[l])
        BY <2>1, <3>2 DEF InQueue, Levels
      <4> QED BY <1>3, <1>4, <4>1 DEF Before
    <3>3. CASE g \in InQueue' /\ g.level # l
      <4>1. PICK m \in Levels \ {l} : g \in ToSet(queue[m])
        BY <1>4, <2>1, <3>3 DEF InQueue, Levels
      <4> QED BY <1>6, <3>3, <4>1 DEF BusInv, Apart, Levels
    <3> QED BY <1>7, <2>3, <3>1, <3>2, <3>3
  <2>4. \A f \in InQueue', g \in Held' : Before(f, g)
    BY <1>6, <1>7 DEF BusInv, Apart
  <2> QED BY <1>7, <1>8, <2>1, <2>2, <2>3, <2>4 DEF BusInv, Apart
<1> QED BY <1>3, <1>4, <1>6, <1>9, <1>10, <1>11, <1>12, <1>13 DEF e

LEMMA TakeHighKeeps == BusInv /\ TakeHigh => BusInv'
<1> SUFFICES ASSUME BusInv, TakeHigh PROVE BusInv'
  OBVIOUS
<1>1. /\ disp.pc = "high"
      /\ UNCHANGED <<subscribers, job, data, strings, last, events>>
  BY DEF TakeHigh, memory
<1>2. TypeOK /\ passed \in [Ids -> 0 .. MaxEvents] /\ Patient
  BY DEF BusInv, TypeOK
<1>3. CASE queue["high"] = <<>>
  <2>1. disp' = [disp EXCEPT !.pc = "normal"] /\ UNCHANGED <<queue, passed>>
    BY <1>3 DEF TakeHigh
  <2>2. /\ disp' \in [pc : {"high", "normal", "dispatch", "call"},
                      event : Event \cup {Nothing}, todo : Seq(Handlers)]
        /\ disp'.pc = "normal" /\ disp'.event = disp.event /\ disp'.todo = disp.todo
        /\ disp.event = Nothing /\ disp.todo = <<>>
    BY <1>1, <2>1 DEF BusInv, TypeOK, Dispatching
  <2>3. /\ Held' = Held /\ InQueue' = InQueue /\ Current' = {} /\ Due' = {}
        /\ Current = {} /\ Due = {}
    BY <1>1, <2>1, <2>2 DEF Held, InQueue, Current, Due
  <2>4. Flying' = Flying /\ Owing' = Owing
    BY <2>3 DEF Flying, Owing
  <2>5. TypeOK'
    BY <1>1, <1>2, <2>1, <2>2 DEF TypeOK
  <2>6. Dispatching'
    BY <1>1, <2>2 DEF BusInv, Dispatching
  <2>7. Apart' /\ Accounted' /\ InOrder' /\ Known'
    BY <1>1, <2>1, <2>3, <2>4 DEF BusInv, Apart, Accounted, InOrder, Known
  <2>8. Waiting' = {}
    BY <1>3, <2>1 DEF Waiting, ToSet
  <2>9. Waiting = {}
    BY <1>3 DEF Waiting, ToSet
  <2>10. Patient'
    BY <1>2, <2>1, <2>8, <2>9 DEF Patient
  <2> QED BY <2>5, <2>6, <2>7, <2>10 DEF BusInv
<1>4. CASE queue["high"] # <<>>
  <2> DEFINE e == Head(queue["high"])
  <2>1. Take("high") /\ passed' = [passed EXCEPT ![e.id] = 0]
    BY <1>4 DEF TakeHigh
  <2>2. /\ TypeOK /\ passed' \in [Ids -> 0 .. MaxEvents] => TypeOK'
        /\ Dispatching' /\ Apart' /\ Accounted' /\ InOrder' /\ Known'
        /\ ToSet(queue["high"]) = ToSet(queue'["high"]) \cup {e}
        /\ e \in Event
    BY <1>1, <2>1, TakeKeeps DEF Levels
  <2> HIDE DEF e
  <2>3. Waiting \subseteq Waiting' \cup {e.id}
    BY <2>2 DEF Waiting
  <2>4. passed' \in [Ids -> 0 .. MaxEvents]
        /\ \A i \in Ids : passed'[i] = IF i = e.id THEN 0 ELSE passed[i]
    BY <1>2, <2>1, <2>2 DEF Event, Ids
  <2>5. disp'.pc = "dispatch"
    BY <2>1 DEF Take
  <2>6. Patient'
    BY <1>2, <2>3, <2>4, <2>5 DEF Patient
  <2> QED BY <1>2, <2>2, <2>4, <2>6 DEF BusInv
<1> QED BY <1>3, <1>4

LEMMA TakeNormalKeeps == BusInv /\ TakeNormal => BusInv'
<1> SUFFICES ASSUME BusInv, TakeNormal PROVE BusInv'
  OBVIOUS
<1>1. /\ disp.pc = "normal"
      /\ UNCHANGED <<subscribers, job, data, strings, last, events>>
  BY DEF TakeNormal, memory
<1>2. TypeOK /\ passed \in [Ids -> 0 .. MaxEvents] /\ Patient
  BY DEF BusInv, TypeOK
<1>3. CASE queue["normal"] = <<>>
  <2>1. disp' = [disp EXCEPT !.pc = "high"] /\ UNCHANGED <<queue, passed>>
    BY <1>3 DEF TakeNormal
  <2>2. /\ disp' \in [pc : {"high", "normal", "dispatch", "call"},
                      event : Event \cup {Nothing}, todo : Seq(Handlers)]
        /\ disp'.pc = "high" /\ disp'.event = disp.event /\ disp'.todo = disp.todo
        /\ disp.event = Nothing /\ disp.todo = <<>>
    BY <1>1, <2>1 DEF BusInv, TypeOK, Dispatching
  <2>3. /\ Held' = Held /\ InQueue' = InQueue /\ Current' = {} /\ Due' = {}
        /\ Current = {} /\ Due = {} /\ Waiting' = Waiting
    BY <1>1, <2>1, <2>2 DEF Held, InQueue, Current, Due, Waiting
  <2>4. Flying' = Flying /\ Owing' = Owing
    BY <2>3 DEF Flying, Owing
  <2>5. TypeOK'
    BY <1>1, <1>2, <2>1, <2>2 DEF TypeOK
  <2>6. Dispatching'
    BY <1>1, <2>2 DEF BusInv, Dispatching
  <2>7. Apart' /\ Accounted' /\ InOrder' /\ Known'
    BY <1>1, <2>1, <2>3, <2>4 DEF BusInv, Apart, Accounted, InOrder, Known
  <2>8. Patient'
    BY <1>2, <2>1, <2>2, <2>3 DEF Patient
  <2> QED BY <2>5, <2>6, <2>7, <2>8 DEF BusInv
<1>4. CASE queue["normal"] # <<>>
  <2>1. /\ Take("normal")
        /\ passed' = [i \in Ids |-> IF i \in Waiting THEN passed[i] + 1
                                    ELSE passed[i]]
    BY <1>4 DEF TakeNormal
  <2>2. /\ TypeOK /\ passed' \in [Ids -> 0 .. MaxEvents] => TypeOK'
        /\ Dispatching' /\ Apart' /\ Accounted' /\ InOrder' /\ Known'
        /\ queue'["high"] = queue["high"]
    BY <1>1, <2>1, TakeKeeps DEF Levels
  <2>3. Waiting' = Waiting
    BY <2>2 DEF Waiting
  <2>4. \A i \in Ids : passed[i] = 0 /\ MaxEvents \in Nat /\ 1 <= MaxEvents
    BY <1>1, <1>2 DEF Patient, Ids
  <2>5. \A i \in Ids : passed'[i] = IF i \in Waiting THEN 1 ELSE 0
    BY <2>1, <2>4
  <2>6. passed' \in [Ids -> 0 .. MaxEvents]
    BY <2>1, <2>4
  <2>7. disp'.pc = "dispatch"
    BY <2>1 DEF Take
  <2>8. Patient'
    BY <2>3, <2>5, <2>7 DEF Patient
  <2> QED BY <1>2, <2>2, <2>6, <2>8 DEF BusInv
<1> QED BY <1>3, <1>4

LEMMA DispatchKeeps == BusInv /\ event_dispatch => BusInv'
<1> SUFFICES ASSUME BusInv, event_dispatch PROVE BusInv'
  OBVIOUS
<1> DEFINE s == subscribers[disp.event.kind]
<1>1. /\ disp.pc = "dispatch" /\ disp.event \in Event
      /\ disp' = [disp EXCEPT !.pc = "call", !.todo = s]
      /\ UNCHANGED <<queue, subscribers, job, data, strings, last, passed, events>>
  BY DEF event_dispatch, memory, history, BusInv, Dispatching
<1>2. disp.event.kind \in Kinds /\ s \in Seq(Handlers) /\ Once(s)
  BY <1>1 DEF Event, BusInv, TypeOK, Dispatching
<1>3. disp.event.kind = "publish" => "mqtt" \in ToSet(s)
  BY DEF BusInv, Dispatching
<1> HIDE DEF s
<1>4. /\ disp' \in [pc : {"high", "normal", "dispatch", "call"},
                    event : Event \cup {Nothing}, todo : Seq(Handlers)]
      /\ disp'.pc = "call" /\ disp'.event = disp.event /\ disp'.todo = s
  BY <1>1, <1>2 DEF BusInv, TypeOK
<1>5. /\ Held' = Held /\ InQueue' = InQueue /\ Current' = Current
      /\ Waiting' = Waiting
  BY <1>1, <1>4 DEF Held, InQueue, Current, Waiting
<1>6. Flying' = Flying
  BY <1>5 DEF Flying
<1>7. TypeOK'
  BY <1>1, <1>4 DEF BusInv, TypeOK
<1>8. Dispatching'
  BY <1>1, <1>2, <1>4 DEF BusInv, Dispatching
<1>9. Due' \subseteq Due /\ \A f \in Due \ Due' : f.kind # "publish"
  BY <1>1, <1>3, <1>4, <1>5 DEF Due, Current
<1>10. Accounted'
  BY <1>1, <1>5, <1>6, <1>9 DEF BusInv, Accounted, Owing
<1>11. InOrder' /\ Known' /\ Apart'
  BY <1>1, <1>4, <1>5, <1>6 DEF BusInv, InOrder, Known, Apart
<1>12. Patient'
  BY <1>1, <1>4, <1>5 DEF BusInv, Patient
<1> QED BY <1>7, <1>8, <1>10, <1>11, <1>12 DEF BusInv

LEMMA CallKeeps == BusInv /\ Call => BusInv'
<1> SUFFICES ASSUME BusInv, Call PROVE BusInv'
  OBVIOUS
<1> DEFINE e == disp.event
           h == Head(disp.todo)
<1>1. /\ disp.pc = "call" /\ e \in Event /\ disp.todo # <<>>
      /\ job[Dispatcher] = Nothing
      /\ last' = [last EXCEPT ![h][e.by][e.level] = e.id]
      /\ IF h = "mqtt" THEN strings' = strings \ Owned(e) ELSE UNCHANGED strings
      /\ disp' = [disp EXCEPT !.todo = Tail(@)]
      /\ UNCHANGED <<queue, subscribers, job, data, passed, events>>
  BY DEF Call, BusInv, Dispatching, Got, mqtt_event_handler_cb
<1>2. /\ h \in Handlers /\ h \in ToSet(disp.todo) /\ h \notin ToSet(Tail(disp.todo))
      /\ ToSet(disp.todo) = {h} \cup ToSet(Tail(disp.todo))
      /\ Tail(disp.todo) \in Seq(Handlers) /\ Once(Tail(disp.todo))
  BY <1>1, Types, TailSet, TailOnce DEF BusInv, Dispatching
<1>3. /\ disp' \in [pc : {"high", "normal", "dispatch", "call"},
                    event : Event \cup {Nothing}, todo : Seq(Handlers)]
      /\ disp'.pc = "call" /\ disp'.event = e /\ disp'.todo = Tail(disp.todo)
  BY <1>1, <1>2 DEF BusInv, TypeOK
<1> HIDE DEF e, h
<1>4. /\ e.by \in Tasks /\ e.level \in Levels /\ e.id \in Ids /\ e.id <= events
      /\ Current = {e} /\ e \in Flying
  BY <1>1, Types DEF e, Event, BusInv, Apart, Flying
<1>5. /\ last' \in [Handlers -> [Tasks -> [Levels -> Ids \cup {0}]]]
      /\ \A g \in Handlers, t \in Tasks, l \in Levels :
           last'[g][t][l] = IF g = h /\ t = e.by /\ l = e.level THEN e.id
                            ELSE last[g][t][l]
  <2>1. last \in [Handlers -> [Tasks -> [Levels -> Ids \cup {0}]]]
    BY Types
  <2>2. last[h][e.by] \in [Levels -> Ids \cup {0}] /\ last[h] \in [Tasks -> [Levels -> Ids \cup {0}]]
    BY <1>2, <1>4, <2>1
  <2> DEFINE r == [last[h][e.by] EXCEPT ![e.level] = e.id]
             q == [last[h] EXCEPT ![e.by] = r]
  <2>3. last' = [last EXCEPT ![h] = q]
    BY <1>1
  <2>4. r \in [Levels -> Ids \cup {0}]
        /\ \A l \in Levels : r[l] = IF l = e.level THEN e.id ELSE last[h][e.by][l]
    BY <1>4, <2>2
  <2> HIDE DEF r
  <2>5. q \in [Tasks -> [Levels -> Ids \cup {0}]]
        /\ \A t \in Tasks : q[t] = IF t = e.by THEN r ELSE last[h][t]
    BY <1>4, <2>2, <2>4
  <2> HIDE DEF q
  <2>6. last' \in [Handlers -> [Tasks -> [Levels -> Ids \cup {0}]]]
        /\ \A g \in Handlers : last'[g] = IF g = h THEN q ELSE last[g]
    BY <1>2, <2>1, <2>3, <2>5
  <2> QED BY <2>4, <2>5, <2>6
<1>6. /\ Held' = Held /\ InQueue' = InQueue /\ Current' = Current
      /\ Waiting' = Waiting
  BY <1>1, <1>3 DEF Held, InQueue, Current, Waiting, e
<1>7. Flying' = Flying
  BY <1>6 DEF Flying
<1>8. TypeOK'
  BY <1>1, <1>3, <1>5, Types, SMTT(60) DEF BusInv, TypeOK
<1>9. Dispatching'
  BY <1>1, <1>2, <1>3 DEF BusInv, Dispatching
<1>10. Due = (IF "mqtt" \in ToSet(disp.todo) THEN {e} ELSE {})
       /\ Due' = (IF "mqtt" \in ToSet(Tail(disp.todo)) THEN {e} ELSE {})
  BY <1>1, <1>3, <1>4, <1>6 DEF Due
<1>11. Accounted'
  <2>1. CASE h = "mqtt"
    <3>1. Due = {e} /\ Due' = {}
      BY <1>2, <1>10, <2>1
    <3>2. \A f \in Held \cup InQueue : f.id # e.id
      BY <1>4, <1>6 DEF BusInv, Apart
    <3>3. strings' = strings \ Owned(e) /\ data' = data
      BY <1>1, <2>1
    <3>4. \A i \in Ids :
            i \in strings' <=> \E f \in Owing' : f.kind = "publish" /\ f.id = i
      BY <1>4, <1>6, <3>1, <3>2, <3>3 DEF BusInv, Accounted, Owing, Owned
    <3> QED BY <1>7, <3>3, <3>4 DEF BusInv, Accounted
  <2>2. CASE h # "mqtt"
    <3>1. Due' = Due
      BY <1>2, <1>10, <2>2
    <3>2. Owing' = Owing
      BY <1>6, <3>1 DEF Owing
    <3> QED BY <1>1, <1>7, <2>2, <3>2 DEF BusInv, Accounted
  <2> QED BY <2>1, <2>2
<1>12. Known'
  BY <1>1, <1>4, <1>5 DEF BusInv, Known
<1>13. InOrder'
  <2>1. ASSUME NEW f \in Held \cup InQueue, NEW g \in Handlers
        PROVE  f.id > last'[g][f.by][f.level]
    <3>1. f \in Event /\ f.by \in Tasks /\ f.level \in Levels /\ f.id \in Ids
      BY Places DEF Event
    <3>2. f.id > last[g][f.by][f.level]
      BY DEF BusInv, InOrder
    <3>3. e.by = f.by /\ e.level = f.level => f.id > e.id
      BY <1>4 DEF BusInv, Apart, Ids
    <3> QED BY <1>5, <3>1, <3>2, <3>3
  <2>2. ASSUME NEW g \in Handlers, g \in ToSet(Tail(disp.todo))
        PROVE  e.id > last'[g][e.by][e.level]
    <3>1. e.id > last[g][e.by][e.level]
      BY <1>2, <1>4, <2>2 DEF BusInv, InOrder
    <3> QED BY <1>2, <1>4, <1>5, <2>2, <3>1, SMTT(60)
  <2> QED BY <1>3, <1>4, <1>6, <2>1, <2>2 DEF InOrder
<1>14. Apart' /\ Patient'
  BY <1>1, <1>3, <1>6, <1>7 DEF BusInv, Apart, Patient
<1> QED BY <1>8, <1>9, <1>11, <1>12, <1>13, <1>14 DEF BusInv

LEMMA ProcessKeeps == BusInv /\ event_process => BusInv'
<1> SUFFICES ASSUME BusInv, event_process PROVE BusInv'
  OBVIOUS
<1> DEFINE e == disp.event
<1>1. /\ disp.pc = "call" /\ e \in Event /\ disp.todo = <<>>
      /\ data' = data \ {e.id} /\ disp' = Ready
      /\ UNCHANGED <<queue, subscribers, job, strings, last, passed, events>>
  BY DEF event_process, BusInv, Dispatching, history
<1>2. /\ disp' \in [pc : {"high", "normal", "dispatch", "call"},
                    event : Event \cup {Nothing}, todo : Seq(Handlers)]
      /\ disp'.pc = "high" /\ disp'.event = Nothing /\ disp'.todo = <<>>
  BY <1>1 DEF Ready
<1> HIDE DEF e
<1>3. /\ Current = {e} /\ Current' = {} /\ Due = {} /\ Due' = {}
      /\ Held' = Held /\ InQueue' = InQueue /\ Waiting' = Waiting
  BY <1>1, <1>2, Types DEF Current, Due, Held, InQueue, Waiting, e, ToSet
<1>4. \A f \in Held \cup InQueue : f.id # e.id
  BY <1>3 DEF BusInv, Apart
<1>5. Flying' = Held \cup InQueue /\ Flying = Held \cup InQueue \cup {e}
      /\ Owing' = Owing
  BY <1>3 DEF Flying, Owing
<1>6. TypeOK'
  BY <1>1, <1>2 DEF BusInv, TypeOK
<1>7. Dispatching'
  BY <1>1, <1>2 DEF BusInv, Dispatching, Once
<1>8. Accounted'
  BY <1>1, <1>4, <1>5 DEF BusInv, Accounted
<1>9. InOrder' /\ Known' /\ Apart'
  BY <1>1, <1>3, <1>5 DEF BusInv, InOrder, Known, Apart
<1>10. Patient'
  BY <1>1, <1>2, <1>3 DEF BusInv, Patient
<1> QED BY <1>6, <1>7, <1>8, <1>9, <1>10 DEF BusInv

LEMMA SubscribeKeeps ==
  ASSUME BusInv, NEW k \in Kinds, NEW h \in Handlers, event_subscribe(k, h)
  PROVE  BusInv'
<1>1. /\ h \notin ToSet(subscribers[k]) /\ Len(subscribers[k]) < MaxSubscribers
      /\ subscribers' = [subscribers EXCEPT ![k] = Append(@, h)]
      /\ UNCHANGED <<queue, job, disp, data, strings, last, passed, events>>
      /\ subscribers \in [Kinds -> Seq(Handlers)] /\ Once(subscribers[k])
      /\ Len(subscribers[k]) \in Nat
  BY DEF event_subscribe, memory, history, BusInv, TypeOK, Dispatching
<1>2. /\ Append(subscribers[k], h) \in Seq(Handlers)
      /\ Len(Append(subscribers[k], h)) <= MaxSubscribers
      /\ ToSet(Append(subscribers[k], h)) = ToSet(subscribers[k]) \cup {h}
      /\ Once(Append(subscribers[k], h))
  BY <1>1, AppendSet, AppendOnce
<1>3. /\ subscribers' \in [Kinds -> Seq(Handlers)]
      /\ \A m \in Kinds : subscribers'[m] = IF m = k THEN Append(subscribers[k], h)
                                            ELSE subscribers[m]
  BY <1>1, <1>2
<1>4. TypeOK'
  BY <1>1, <1>2, <1>3 DEF BusInv, TypeOK
<1>5. Dispatching'
  BY <1>1, <1>2, <1>3 DEF BusInv, Dispatching, Kinds
<1>6. /\ Held' = Held /\ InQueue' = InQueue /\ Current' = Current /\ Due' = Due
      /\ Waiting' = Waiting
  BY <1>1 DEF Held, InQueue, Current, Due, Waiting
<1>7. Flying' = Flying /\ Owing' = Owing
  BY <1>6 DEF Flying, Owing
<1>8. Apart' /\ Accounted' /\ InOrder' /\ Known' /\ Patient'
  BY <1>1, <1>6, <1>7 DEF BusInv, Apart, Accounted, InOrder, Known, Patient
<1> QED BY <1>4, <1>5, <1>8 DEF BusInv

-------------------------------------------------------------------------------
LEMMA InitialBus == MaxSubscribers >= 2 /\ Init => BusInv
<1> SUFFICES ASSUME MaxSubscribers >= 2, Init PROVE BusInv
  OBVIOUS
<1>1. /\ queue = [l \in Levels |-> <<>>]
      /\ subscribers = [k \in Kinds |-> IF k = "device" THEN <<"discovery", "trace">>
                                        ELSE <<"trace", "mqtt">>]
      /\ job = [t \in Tasks |-> Nothing]
      /\ disp = [pc |-> "high", event |-> Nothing, todo |-> <<>>]
      /\ data = {} /\ strings = {} /\ events = 0
      /\ last = [h \in Handlers |-> [t \in Tasks |-> [l \in Levels |-> 0]]]
      /\ passed = [i \in Ids |-> 0]
  BY DEF Init, Ready
<1>2. Held = {} /\ InQueue = {} /\ Current = {} /\ Due = {} /\ Waiting = {}
  BY <1>1 DEF Held, InQueue, Current, Due, Waiting, ToSet, Levels
<1>3. TypeOK
  <2>1. \A k \in Kinds : subscribers[k] \in Seq(Handlers)
                         /\ Len(subscribers[k]) <= MaxSubscribers
    <3>1. /\ <<"discovery", "trace">> \in Seq(Handlers)
          /\ <<"trace", "mqtt">> \in Seq(Handlers)
          /\ Len(<<"discovery", "trace">>) = 2 /\ Len(<<"trace", "mqtt">>) = 2
      BY DEF Handlers
    <3>2. MaxSubscribers \in Nat
      OBVIOUS
    <3> QED BY <1>1, <3>1, <3>2
  <2>2. subscribers \in [Kinds -> Seq(Handlers)]
    BY <1>1, <2>1
  <2>3. \A l \in Levels : queue[l] = <<>> /\ Len(queue[l]) <= Size(l)
    BY <1>1 DEF Size
  <2>4. queue \in [Levels -> Seq(Event)]
    BY <1>1
  <2>5. disp \in [pc : {"high", "normal", "dispatch", "call"},
                  event : Event \cup {Nothing}, todo : Seq(Handlers)]
    BY <1>1
  <2>6. passed \in [Ids -> 0 .. MaxEvents] /\ events \in 0 .. MaxEvents
    BY <1>1
  <2> QED BY <1>1, <2>1, <2>2, <2>3, <2>4, <2>5, <2>6 DEF TypeOK
<1>4. Dispatching
  <2>1. \A k \in Kinds : Once(subscribers[k])
    BY <1>1 DEF Once
  <2>2. subscribers["publish"] = <<"trace", "mqtt">>
    BY <1>1 DEF Kinds
  <2>3. "mqtt" \in ToSet(subscribers["publish"])
    BY <2>2 DEF ToSet
  <2> QED BY <1>1, <2>1, <2>3 DEF Dispatching, Once
<1>5. Apart
  <2>1. \A l \in Levels : queue[l] = <<>>
    BY <1>1
  <2>2. \A l \in Levels : Ordered(queue[l]) /\ ToSet(queue[l]) = {}
    BY <2>1 DEF Ordered, ToSet
  <2> QED BY <1>1, <1>2, <2>2 DEF Apart, Flying, Levels
<1>6. Accounted /\ InOrder
  BY <1>1, <1>2 DEF Accounted, InOrder, Flying, Owing
<1>7. Known /\ Patient
  BY <1>1 DEF Known, Patient
<1> QED BY <1>3, <1>4, <1>5, <1>6, <1>7 DEF BusInv

LEMMA BusStep == BusInv /\ [Next]_vars => BusInv'
<1> SUFFICES ASSUME BusInv, [Next]_vars PROVE BusInv'
  OBVIOUS
<1>1. ASSUME NEW t \in Publishers, Publish(t) PROVE BusInv'
  BY <1>1, PublishKeeps DEF Publish, Tasks, Kinds, Levels
<1>2. ASSUME NEW t \in Tasks, Send(t) \/ GiveUp(t) PROVE BusInv'
  BY <1>2, SendKeeps, GiveUpKeeps
<1>3. CASE Dispatch
  <2>1. CASE Announce
    BY <2>1, PublishKeeps DEF Announce, Tasks, Kinds, Levels
  <2> QED BY <1>3, <2>1, TakeHighKeeps, TakeNormalKeeps, DispatchKeeps, CallKeeps,
             ProcessKeeps DEF Dispatch
<1>4. CASE event_subscribe("device", "adapter")
  BY <1>4, SubscribeKeeps DEF Kinds, Handlers
<1>5. CASE UNCHANGED vars
  <2>1. UNCHANGED <<queue, subscribers, job, disp, data, strings, last, passed,
                    events>>
    BY <1>5 DEF vars, memory, history
  <2>2. /\ Held' = Held /\ InQueue' = InQueue /\ Current' = Current /\ Due' = Due
        /\ Waiting' = Waiting
    BY <2>1 DEF Held, InQueue, Current, Due, Waiting
  <2>3. Flying' = Flying /\ Owing' = Owing
    BY <2>2 DEF Flying, Owing
  <2> QED BY <2>1, <2>2, <2>3 DEF BusInv, TypeOK, Dispatching, Apart, Accounted,
                                  InOrder, Known, Patient
<1> QED BY <1>1, <1>2, <1>3, <1>4, <1>5 DEF Next

(***************************************************************************)
(* There is room for the two handlers of each kind that subscribe before   *)
(* the bus is used (MAX_SUBSCRIBERS is 8): the theorems assume it.         *)
(***************************************************************************)
LEMMA BusInvariance ==
  ASSUME MaxSubscribers >= 2
  PROVE  Spec => []BusInv
<1>1. Init => BusInv
  BY InitialBus
<1> QED BY <1>1, BusStep, PTL DEF Spec

(***************************************************************************)
(* Every variable keeps its type: no queue and no list of subscribers      *)
(* grows beyond its size.                                                  *)
(***************************************************************************)
THEOREM BusTypes ==
  ASSUME MaxSubscribers >= 2
  PROVE  Spec => []TypeOK
<1>1. BusInv => TypeOK
  BY DEF BusInv
<1> QED BY <1>1, BusInvariance, PTL

(***************************************************************************)
(* A handler gets the events of a task and a queue in the order they were  *)
(* published in, however publishers that wait for room overtake others.    *)
(***************************************************************************)
THEOREM DeliveredInOrder ==
  ASSUME MaxSubscribers >= 2
  PROVE  Spec => []InOrder
<1>1. BusInv => InOrder
  BY DEF BusInv
<1> QED BY <1>1, BusInvariance, PTL

(***************************************************************************)
(* Each event's data and strings have exactly one owner that is still to   *)
(* free them: none is leaked.                                              *)
(***************************************************************************)
THEOREM MemoryIsFreed ==
  ASSUME MaxSubscribers >= 2
  PROVE  Spec => []NothingLeaks
<1>1. BusInv => NothingLeaks
  <2> SUFFICES ASSUME BusInv PROVE NothingLeaks
    OBVIOUS
  <2>1. data \subseteq Ids /\ strings \subseteq Ids
    BY Types
  <2>2. \A i \in data : \E e \in Flying : e.id = i
    BY <2>1 DEF BusInv, Accounted
  <2>3. \A i \in strings : \E e \in Owing : e.id = i
    BY <2>1 DEF BusInv, Accounted
  <2> QED BY <2>2, <2>3 DEF NothingLeaks, Flying, Owing
<1> QED BY <1>1, BusInvariance, PTL

(***************************************************************************)
(* No handler reads an event's data or strings after they were freed.      *)
(***************************************************************************)
THEOREM MemoryIsLive ==
  ASSUME MaxSubscribers >= 2
  PROVE  Spec => []ReadWhileLive
<1>1. BusInv => ReadWhileLive
  <2> SUFFICES ASSUME BusInv PROVE ReadWhileLive
    OBVIOUS
  <2>1. Flying \subseteq Event /\ Owing \subseteq Flying
    BY Places DEF Flying, Owing
  <2>2. \A e \in Flying : e.id \in data
    BY <2>1 DEF BusInv, Accounted, Event
  <2>3. \A e \in Owing : e.kind = "publish" => e.id \in strings
    BY <2>1 DEF BusInv, Accounted, Event
  <2> QED BY <2>2, <2>3 DEF ReadWhileLive, Flying, Owing, Owned
<1> QED BY <1>1, BusInvariance, PTL

(***************************************************************************)
(* However many events are published, a HIGH or CRITICAL one lets at most  *)
(* one normal event pass.                                                  *)
(***************************************************************************)
THEOREM HighComesNext ==
  ASSUME MaxSubscribers >= 2
  PROVE  Spec => []OvertakenOnce
<1>1. BusInv => OvertakenOnce
  BY DEF BusInv, Patient, OvertakenOnce, TypeOK
<1> QED BY <1>1, BusInvariance, PTL
=============================================================================
