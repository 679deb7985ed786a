----------------------------- MODULE NetworkProofs -----------------------------
(***************************************************************************)
(* Safety of the two components that know a device by the address it has   *)
(* in the network: of the tables of Membership, for any devices, addresses *)
(* and sizes of the tables, and of the availability tracker, for any       *)
(* devices, any number of failures and any width of their counter.  Each   *)
(* result is about the specification of one of the two.                    *)
(***************************************************************************)
EXTENDS Availability, Membership, TLAPS, FiniteSetTheorems

(***************************************************************************)
(* The tables: the registry, the two tables of bindings and the drivers on *)
(* flash, with the Zigbee task, a remover and an interview at work on      *)
(* them.                                                                   *)
(***************************************************************************)
\* What is assumed of the constants.
LEMMA Sorts ==
  /\ Tuya \subseteq Devices
  /\ None \notin Devices \cup Addrs /\ Devices \cap Addrs = {}
  /\ MaxBindings \in Nat /\ MaxDevices \in Nat /\ MaxMoves \in Nat
BY NoneAssumption, AddressAssumption, CapacityAssumption

Records == [addr : Addrs \cup {None}, slot : Slots \cup {0},
            conv : Devices \cup {None}, tracked : BOOLEAN]
Handlers == [pc : {"idle", "rebind", "redrive", "interpret", "find",
                  "unbind", "undrive", "remove"},
            dev : Devices \cup {None}, old : Addrs \cup {None},
            new : Addrs \cup {None}, report : BOOLEAN]

LEMMA MemberTyping ==
  MemberTypeOK <=> /\ net \in [Devices -> Addrs \cup {None}]
             /\ rec \in [Devices -> Records]
             /\ bound \in [Addrs -> Devices \cup {None}]
             /\ driver \in [Addrs -> Tuya \cup {None}]
             /\ kept \in [Devices -> Tuya \cup {None}]
             /\ handler \in [Workers -> Handlers]
             /\ loose \subseteq Addrs \cup Devices
             /\ moves \in 0 .. MaxMoves
BY DEF MemberTypeOK, Records, Handlers

LEMMA MemberTypingNext ==
  /\ net' \in [Devices -> Addrs \cup {None}]
  /\ rec' \in [Devices -> Records]
  /\ bound' \in [Addrs -> Devices \cup {None}]
  /\ driver' \in [Addrs -> Tuya \cup {None}]
  /\ kept' \in [Devices -> Tuya \cup {None}]
  /\ handler' \in [Workers -> Handlers]
  /\ loose' \subseteq Addrs \cup Devices
  /\ moves' \in 0 .. MaxMoves
  => MemberTypeOK'
BY DEF MemberTypeOK, Records, Handlers

\* What Touch does, whatever the records and the jobs have become.
LEMMA LoosenKeeps ==
  ASSUME MemberTypeOK, rec' \in [Devices -> Records], handler' \in [Workers -> Handlers],
         NEW t \in Workers, NEW d \in Devices, Loosen(t, d)
  PROVE  /\ loose' \subseteq Addrs \cup Devices
         /\ loose \subseteq loose'
         /\ \A u \in Workers \ {t} : handler[u].dev = d =>
              {d} \cup Addresses(handler[u]) \cup Addresses(handler[t])
                \cup Addresses(handler'[t]) \subseteq loose'
         /\ Closed'
<1> DEFINE met == loose \cup Shared \cup Meeting(t, d)
           moved == {e \in Devices : e \in met \/ {rec[e].addr, rec'[e].addr} \cap met # {}}
<1>1. loose' = met \cup moved \cup ({rec'[e].addr : e \in moved} \ {None})
  BY DEF Loosen
<1>2. \A u \in Workers \ {t} : handler[u].dev = d =>
        {d} \cup Addresses(handler[u]) \cup Addresses(handler[t]) \cup Addresses(handler'[t])
          \subseteq Meeting(t, d)
  BY DEF Meeting, Others
<1>3. met \subseteq Addrs \cup Devices
  <2>1. \A u \in Workers : Addresses(handler[u]) \cup Addresses(handler'[u]) \subseteq Addrs
    BY MemberTyping DEF Addresses, Handlers
  <2>2. Meeting(t, d) \subseteq Addrs \cup Devices
    <3>1. \A x \in Meeting(t, d) :
            x = d \/ \E v \in Workers : x \in Addresses(handler[v]) \cup Addresses(handler'[v])
      BY DEF Meeting, Others
    <3> QED BY <2>1, <3>1
  <2> QED BY <2>2, MemberTyping DEF Shared
<1>4. \A e \in Devices : rec'[e].addr \in Addrs \cup {None}
  BY DEF Records
<1> HIDE DEF met
<1>5. loose' \subseteq Addrs \cup Devices
  BY <1>1, <1>3, <1>4
<1>6. \A e, f \in Registered' : e # f /\ rec'[e].addr = rec'[f].addr => rec'[e].addr \in met
  BY <1>4 DEF Registered, Shared, Holders, met
<1>7. \A e \in Registered' : e \in loose' => rec'[e].addr \in loose'
  <2> SUFFICES ASSUME NEW e \in Registered', e \in loose' PROVE rec'[e].addr \in loose'
    OBVIOUS
  <2>1. e \in moved
    BY <1>1, <1>4, Sorts DEF Registered
  <2> QED BY <1>1, <2>1 DEF Registered
<1>8. \A e \in Registered' : rec'[e].addr \in loose' => e \in loose'
  <2> SUFFICES ASSUME NEW e \in Registered', rec'[e].addr \in loose' PROVE e \in loose'
    OBVIOUS
  <2>1. e \in Devices /\ rec'[e].addr \in Addrs
    BY <1>4 DEF Registered
  <2>2. rec'[e].addr \notin moved
    BY <2>1, Sorts
  <2>3. CASE rec'[e].addr \in met
    BY <1>1, <2>1, <2>3
  <2>4. CASE \E f \in moved : rec'[f].addr = rec'[e].addr
    BY <1>1, <1>6, <2>1, <2>3, <2>4, Sorts DEF Registered
  <2> QED BY <1>1, <2>2, <2>3, <2>4
<1>9. Closed'
  BY <1>1, <1>6, <1>7, <1>8 DEF Closed
<1> QED BY <1>1, <1>2, <1>5, <1>9 DEF met

-------------------------------------------------------------------------------
(***************************************************************************)
(* The records a lookup by address finds, and what becomes of the tracked  *)
(* flags.                                                                  *)
(***************************************************************************)
LEMMA FirstHolds ==
  ASSUME NEW r, NEW a
  PROVE  \A d \in First(r, a) : d \in Devices /\ a # None /\ r[d].addr = a
BY DEF First, Holders

\* The only device with an address is found there.
LEMMA FirstAlone ==
  ASSUME NEW r \in [Devices -> Records], NEW d \in Devices, r[d].addr # None,
         \A e \in Devices : r[e].addr = r[d].addr => e = d
  PROVE  First(r, r[d].addr) = {d}
<1>1. Holders(r, r[d].addr) = {d}
  BY DEF Holders
<1>2. r[d].slot <= r[d].slot
  <2>1. r[d] \in Records
    OBVIOUS
  <2> QED BY <2>1 DEF Records, Slots
<1> QED BY <1>1, <1>2 DEF First

LEMMA TrackKeeps ==
  ASSUME NEW r \in [Devices -> Records], NEW a, NEW on \in BOOLEAN
  PROVE  /\ Track(r, a, on) \in [Devices -> Records]
         /\ \A d \in Devices :
              /\ Track(r, a, on)[d].addr = r[d].addr
              /\ Track(r, a, on)[d].slot = r[d].slot
              /\ Track(r, a, on)[d].conv = r[d].conv
              /\ Track(r, a, on)[d].tracked =
                   IF d \in First(r, a) THEN on ELSE r[d].tracked
              /\ d \notin First(r, a) => Track(r, a, on)[d] = r[d]
<1>1. \A d \in Devices :
        /\ Track(r, a, on)[d] = IF d \in First(r, a)
                                THEN [r[d] EXCEPT !.tracked = on] ELSE r[d]
        /\ r[d] \in Records
  BY DEF Track
<1>2. \A q \in Records : /\ [q EXCEPT !.tracked = on] \in Records
                         /\ [q EXCEPT !.tracked = on].addr = q.addr
                         /\ [q EXCEPT !.tracked = on].slot = q.slot
                         /\ [q EXCEPT !.tracked = on].conv = q.conv
                         /\ [q EXCEPT !.tracked = on].tracked = on
  BY DEF Records
<1>3. \A d \in Devices : Track(r, a, on)[d] \in Records
  BY <1>1, <1>2
<1>4. Track(r, a, on) \in [Devices -> Records]
  BY <1>3 DEF Track
<1> QED BY <1>1, <1>2, <1>4

-------------------------------------------------------------------------------
(***************************************************************************)
(* What a step keeps of the invariant by what it does to the tables.       *)
(***************************************************************************)
\* A task that does not move is as well informed as before, unless its device
\* was taken from it, which has made the address loose.
LEMMA StaysInformed ==
  ASSUME MemberInv, NEW u \in Workers, handler'[u] = handler[u], loose \subseteq loose',
         \A e \in Devices :
           \/ rec'[e].addr = rec[e].addr
           \/ handler[u].dev = e =>
                /\ {e} \cup Addresses(handler[u]) \subseteq loose'
                /\ rec'[e].addr = None \/ ~Moving(handler[u])
  PROVE  Informed(handler[u])'
<1>1. Informed(handler[u])
  BY DEF MemberInv
<1>2. handler[u].pc # "idle" => handler[u].dev \in Devices
  BY <1>1 DEF Informed
<1> DEFINE j == handler[u]
<1>3. ASSUME Moving(j)
      PROVE  rec'[j.dev].addr = j.new \/ (rec'[j.dev].addr = None /\ j.new \in loose')
  <2>1. j.dev \in Devices /\ j.new \in Addresses(j)
    BY <1>1, <1>2, <1>3, Sorts DEF Informed, Moving, Addresses
  <2>2. rec[j.dev].addr = j.new \/ (rec[j.dev].addr = None /\ j.new \in loose)
    BY <1>1, <1>3 DEF Informed
  <2>3. CASE rec'[j.dev].addr = rec[j.dev].addr
    BY <2>2, <2>3
  <2>4. CASE rec'[j.dev].addr # rec[j.dev].addr
    BY <1>3, <2>1, <2>2, <2>4
  <2> QED BY <2>3, <2>4
<1>4. j.pc = "find" => rec'[j.dev].addr = j.new \/ j.new \in loose'
  BY <1>1, <1>2, Sorts DEF Informed, Addresses
<1>5. Cleaning(j) => rec'[j.dev].addr = j.old \/ {j.dev, j.old} \subseteq loose'
  BY <1>1, <1>2, Sorts DEF Informed, Cleaning, Addresses
<1> QED BY <1>1, <1>3, <1>4, <1>5 DEF Informed, Moving, Cleaning

LEMMA StaysCleared ==
  ASSUME MemberInv, NEW u \in Workers, handler'[u] = handler[u], loose \subseteq loose',
         handler[u].pc \in {"undrive", "remove"} =>
           bound'[handler[u].old] \in {bound[handler[u].old], None} \/ handler[u].old \in loose',
         handler[u].pc = "remove" =>
           driver'[handler[u].old] \in {driver[handler[u].old], None} \/ handler[u].old \in loose'
  PROVE  Cleared(handler[u])'
<1>1. Cleared(handler[u])
  BY DEF MemberInv
<1> QED BY <1>1 DEF Cleared

\* As long as the tables stay, so does what is said of them.
LEMMA TablesStay ==
  ASSUME MemberInv, UNCHANGED tables, loose \subseteq loose',
         handler'["zigbee"] = handler["zigbee"] \/ ~Moving(handler["zigbee"]),
         \A u \in Workers : handler[u].pc = "remove" => handler'[u] = handler[u]
  PROVE  /\ OwnRecords' /\ OwnBindings' /\ Tracking'
         /\ \A u \in Workers :
              handler'[u] = handler[u] => Informed(handler[u])' /\ Cleared(handler[u])'
<1>1. UNCHANGED <<rec, bound, driver, kept>>
  BY DEF tables
<1>2. OwnRecords'
  BY <1>1 DEF MemberInv, OwnRecords
<1>3. OwnBindings'
  BY <1>1 DEF MemberInv, OwnBindings, ConverterIsOwn, DriverIsOwn, Moving
<1>4. Tracking'
  BY <1>1 DEF MemberInv, Tracking, Registered
<1>5. \A u \in Workers : handler'[u] = handler[u] => Informed(handler[u])' /\ Cleared(handler[u])'
  BY <1>1, StaysInformed, StaysCleared
<1> QED BY <1>2, <1>3, <1>4, <1>5

-------------------------------------------------------------------------------
(***************************************************************************)
(* The steps that leave the tables alone.                                  *)
(***************************************************************************)
\* What a task has in hand when it begins.
LEMMA BeginIs ==
  ASSUME MemberTypeOK, NEW t \in Workers, NEW j \in Handlers,
         handler' = [handler EXCEPT ![t] = j]
  PROVE  /\ handler' \in [Workers -> Handlers]
         /\ \A u \in Workers \ {t} : handler'[u] = handler[u]
         /\ handler'[t] = j
BY MemberTyping

LEMMA BeginRebind ==
  ASSUME MemberTypeOK, NEW t \in Workers, NEW d \in Devices,
         NEW old \in Addrs \cup {None}, NEW new \in Addrs \cup {None}, NEW report \in BOOLEAN,
         Begin(t, "rebind", d, old, new, report)
  PROVE  /\ handler' \in [Workers -> Handlers]
         /\ \A u \in Workers \ {t} : handler'[u] = handler[u]
         /\ handler'[t].pc = "rebind" /\ handler'[t].dev = d
         /\ handler'[t].old = old /\ handler'[t].new = new /\ handler'[t].report = report
<1> DEFINE j == [pc |-> "rebind", dev |-> d, old |-> old, new |-> new, report |-> report]
<1>1. j \in Handlers
  BY DEF Handlers
<1>2. handler' = [handler EXCEPT ![t] = j]
  BY DEF Begin
<1> QED BY <1>1, <1>2, BeginIs

LEMMA BeginInterpret ==
  ASSUME MemberTypeOK, NEW t \in Workers, NEW d \in Devices,
         NEW new \in Addrs \cup {None}, Begin(t, "interpret", d, None, new, TRUE)
  PROVE  /\ handler' \in [Workers -> Handlers]
         /\ \A u \in Workers \ {t} : handler'[u] = handler[u]
         /\ handler'[t].pc = "interpret" /\ handler'[t].dev = d
         /\ handler'[t].old = None /\ handler'[t].new = new
<1> DEFINE j == [pc |-> "interpret", dev |-> d, old |-> None, new |-> new, report |-> TRUE]
<1>1. j \in Handlers
  BY DEF Handlers
<1>2. handler' = [handler EXCEPT ![t] = j]
  BY DEF Begin
<1> QED BY <1>1, <1>2, BeginIs

LEMMA BeginFind ==
  ASSUME MemberTypeOK, NEW t \in Workers, NEW d \in Devices,
         NEW new \in Addrs \cup {None}, Begin(t, "find", d, None, new, FALSE)
  PROVE  /\ handler' \in [Workers -> Handlers]
         /\ \A u \in Workers \ {t} : handler'[u] = handler[u]
         /\ handler'[t].pc = "find" /\ handler'[t].dev = d
         /\ handler'[t].old = None /\ handler'[t].new = new
<1> DEFINE j == [pc |-> "find", dev |-> d, old |-> None, new |-> new, report |-> FALSE]
<1>1. j \in Handlers
  BY DEF Handlers
<1>2. handler' = [handler EXCEPT ![t] = j]
  BY DEF Begin
<1> QED BY <1>1, <1>2, BeginIs

LEMMA BeginUnbind ==
  ASSUME MemberTypeOK, NEW t \in Workers, NEW d \in Devices,
         NEW old \in Addrs \cup {None}, Begin(t, "unbind", d, old, None, FALSE)
  PROVE  /\ handler' \in [Workers -> Handlers]
         /\ \A u \in Workers \ {t} : handler'[u] = handler[u]
         /\ handler'[t].pc = "unbind" /\ handler'[t].dev = d
         /\ handler'[t].old = old /\ handler'[t].new = None
<1> DEFINE j == [pc |-> "unbind", dev |-> d, old |-> old, new |-> None, report |-> FALSE]
<1>1. j \in Handlers
  BY DEF Handlers
<1>2. handler' = [handler EXCEPT ![t] = j]
  BY DEF Begin
<1> QED BY <1>1, <1>2, BeginIs

LEMMA GotoIs ==
  ASSUME MemberTypeOK, NEW t \in Workers, NEW pc \in {"redrive", "interpret", "undrive", "remove"},
         Goto(t, pc)
  PROVE  /\ handler' \in [Workers -> Handlers]
         /\ \A u \in Workers \ {t} : handler'[u] = handler[u]
         /\ handler'[t].pc = pc /\ handler'[t].dev = handler[t].dev
         /\ handler'[t].old = handler[t].old /\ handler'[t].new = handler[t].new
<1>1. handler \in [Workers -> Handlers] /\ handler[t] \in Handlers
  BY MemberTyping
<1>2. \A j \in Handlers : /\ [j EXCEPT !.pc = pc] \in Handlers
                      /\ [j EXCEPT !.pc = pc].pc = pc
                      /\ [j EXCEPT !.pc = pc].dev = j.dev
                      /\ [j EXCEPT !.pc = pc].old = j.old
                      /\ [j EXCEPT !.pc = pc].new = j.new
  BY DEF Handlers
<1>3. handler' = [handler EXCEPT ![t] = [handler[t] EXCEPT !.pc = pc]]
  BY DEF Goto
<1> QED BY <1>1, <1>2, <1>3

LEMMA EndIs ==
  ASSUME MemberTypeOK, NEW t \in Workers, End(t)
  PROVE  /\ handler' \in [Workers -> Handlers]
         /\ \A u \in Workers \ {t} : handler'[u] = handler[u]
         /\ handler'[t] = NoHandler
<1>1. handler \in [Workers -> Handlers]
  BY MemberTyping
<1>2. NoHandler \in Handlers
  BY DEF NoHandler, Handlers
<1> QED BY <1>1, <1>2 DEF End

LEMMA NoHandlerIs ==
  /\ NoHandler.pc = "idle" /\ NoHandler.dev = None
  /\ ~Moving(NoHandler) /\ ~Cleaning(NoHandler) /\ Informed(NoHandler)' /\ Cleared(NoHandler)'
BY DEF NoHandler, Moving, Cleaning, Informed, Cleared

LEMMA NetworkKeeps == ASSUME MemberInv, Network PROVE MemberInv'
<1>1. /\ net' \in [Devices -> Addrs \cup {None}]
      /\ moves' \in 0 .. MaxMoves
      /\ UNCHANGED <<tables, handler, loose>>
  BY MemberTyping, Sorts DEF Network, Move, Vanish, MemberInv
<1>2. MemberTypeOK'
  BY <1>1, MemberTyping, MemberTypingNext DEF MemberInv, tables
<1>3. Closed'
  BY <1>1 DEF MemberInv, Closed, Registered, tables
<1>4. /\ OwnRecords' /\ OwnBindings' /\ Tracking'
      /\ \A t \in Workers : Informed(handler[t])' /\ Cleared(handler[t])'
  BY <1>1, TablesStay
<1>5. OneMover'
  BY <1>1 DEF MemberInv, OneMover, Moving
<1> QED BY <1>2, <1>3, <1>4, <1>5 DEF MemberInv

LEMMA InterpretKeeps == ASSUME MemberInv, Interpret PROVE MemberInv'
<1>1. MemberTypeOK /\ "zigbee" \in Workers /\ Informed(handler["zigbee"])
  BY DEF MemberInv, Workers
<1>2. PICK d \in Devices : d = handler["zigbee"].dev
  BY <1>1 DEF Interpret, Informed
<1>3. /\ handler' \in [Workers -> Handlers]
      /\ \A u \in Workers \ {"zigbee"} : handler'[u] = handler[u]
      /\ \/ handler'["zigbee"] = NoHandler
         \/ /\ handler'["zigbee"].pc = "find"
            /\ \E e \in At(handler["zigbee"].new) :
                 /\ handler'["zigbee"].dev = e /\ handler'["zigbee"].new = handler["zigbee"].new
  <2>1. CASE End("zigbee")
    BY <1>1, <2>1, EndIs
  <2>2. CASE Find("zigbee", handler["zigbee"].new)
    <3>1. PICK a \in Addrs : a = handler["zigbee"].new
      BY <1>1 DEF Interpret, Informed
    <3>2. PICK e \in At(a) : Begin("zigbee", "find", e, None, a, FALSE)
      BY <2>2, <3>1 DEF Find
    <3>3. e \in Devices
      BY FirstHolds DEF At
    <3>4. /\ handler' \in [Workers -> Handlers]
          /\ \A u \in Workers \ {"zigbee"} : handler'[u] = handler[u]
          /\ handler'["zigbee"].pc = "find" /\ handler'["zigbee"].dev = e
          /\ handler'["zigbee"].new = a
      BY <1>1, <3>2, <3>3, BeginFind
    <3> QED BY <3>1, <3>4
  <2> QED BY <2>1, <2>2 DEF Interpret
<1>4. /\ UNCHANGED tables /\ UNCHANGED <<net, rec, bound, driver, kept, moves>>
      /\ Loosen("zigbee", d) /\ handler["zigbee"].pc = "interpret"
  BY <1>2 DEF Interpret, tables
<1>5. loose' \subseteq Addrs \cup Devices /\ loose \subseteq loose' /\ Closed'
  <2>1. rec' \in [Devices -> Records]
    BY <1>1, <1>4, MemberTyping
  <2> QED BY <1>1, <1>3, <1>4, <2>1, LoosenKeeps
<1>6. MemberTypeOK'
  BY <1>1, <1>3, <1>4, <1>5, MemberTyping, MemberTypingNext
<1>7. /\ OwnRecords' /\ OwnBindings' /\ Tracking'
      /\ \A u \in Workers \ {"zigbee"} : Informed(handler[u])' /\ Cleared(handler[u])'
  BY <1>3, <1>4, <1>5, TablesStay DEF Moving
<1>8. Informed(handler["zigbee"])' /\ Cleared(handler["zigbee"])'
  <2>1. CASE handler'["zigbee"] = NoHandler
    BY <2>1, NoHandlerIs DEF Informed, Cleared
  <2>2. CASE handler'["zigbee"].pc = "find"
    <3>1. PICK e \in At(handler["zigbee"].new) :
            handler'["zigbee"].dev = e /\ handler'["zigbee"].new = handler["zigbee"].new
      BY <1>3, <2>2, NoHandlerIs
    <3>2. e \in Devices /\ rec'[e].addr = handler["zigbee"].new /\ handler["zigbee"].new \in Addrs
      BY <1>1, <1>4, FirstHolds DEF Informed, At
    <3> QED BY <2>2, <3>1, <3>2 DEF Informed, Cleared, Moving, Cleaning
  <2> QED BY <1>3, <2>1, <2>2
<1>9. OneMover'
  BY <1>3 DEF MemberInv, OneMover, Moving
<1> QED BY <1>5, <1>6, <1>7, <1>8, <1>9 DEF MemberInv

LEMMA InterviewDoneKeeps ==
  ASSUME MemberInv, NEW a \in Addrs, InterviewDone(a)
  PROVE  MemberInv'
<1>1. MemberTypeOK /\ "interview" \in Workers /\ "zigbee" # "interview"
  BY DEF MemberInv, Workers
<1>2. PICK e \in At(a) : Begin("interview", "find", e, None, a, FALSE)
  BY DEF InterviewDone, Find
<1>3. e \in Devices /\ rec[e].addr = a
  BY FirstHolds DEF At
<1>4. /\ handler' \in [Workers -> Handlers]
      /\ \A u \in Workers \ {"interview"} : handler'[u] = handler[u]
      /\ handler'["interview"].pc = "find" /\ handler'["interview"].dev = e
      /\ handler'["interview"].new = a
  BY <1>1, <1>2, <1>3, BeginFind, ZenonT(60)
<1>5. /\ UNCHANGED tables /\ UNCHANGED <<net, rec, bound, driver, kept, moves>>
      /\ Loosen("interview", e) /\ handler["interview"] = NoHandler
  BY <1>4 DEF InterviewDone, tables, AtRest
<1>6. loose' \subseteq Addrs \cup Devices /\ loose \subseteq loose' /\ Closed'
  <2>1. rec' \in [Devices -> Records]
    BY <1>1, <1>5, MemberTyping
  <2> QED BY <1>1, <1>3, <1>4, <1>5, <2>1, LoosenKeeps
<1>7. MemberTypeOK'
  BY <1>1, <1>4, <1>5, <1>6, MemberTyping, MemberTypingNext
<1>8. /\ OwnRecords' /\ OwnBindings' /\ Tracking'
      /\ \A u \in Workers \ {"interview"} : Informed(handler[u])' /\ Cleared(handler[u])'
  <2>1. \A u \in Workers : handler[u].pc = "remove" => handler'[u] = handler[u]
    BY <1>4, <1>5, NoHandlerIs
  <2>2. handler'["zigbee"] = handler["zigbee"]
    BY <1>1, <1>4 DEF Workers
  <2> QED BY <1>4, <1>5, <1>6, <2>1, <2>2, TablesStay
<1>9. Informed(handler["interview"])' /\ Cleared(handler["interview"])'
  BY <1>3, <1>4, <1>5 DEF Informed, Cleared, Moving, Cleaning
<1>10. OneMover'
  BY <1>4 DEF MemberInv, OneMover, Moving
<1> QED BY <1>6, <1>7, <1>8, <1>9, <1>10 DEF MemberInv

LEMMA RemoveKeeps ==
  ASSUME MemberInv, NEW d \in Devices, Remove(d)
  PROVE  MemberInv'
<1>1. MemberTypeOK /\ "remover" \in Workers /\ "zigbee" # "remover"
  BY DEF MemberInv, Workers
<1>2. PICK a \in Addrs : rec[d].addr = a
  BY <1>1, MemberTyping DEF Remove, Registered, Records
<1>3. /\ handler' \in [Workers -> Handlers]
      /\ \A u \in Workers \ {"remover"} : handler'[u] = handler[u]
      /\ handler'["remover"].pc = "unbind" /\ handler'["remover"].dev = d
      /\ handler'["remover"].old = rec[d].addr
  <2>1. Begin("remover", "unbind", d, a, None, FALSE)
    BY <1>2 DEF Remove
  <2>2. /\ handler' \in [Workers -> Handlers]
        /\ \A u \in Workers \ {"remover"} : handler'[u] = handler[u]
        /\ handler'["remover"].pc = "unbind" /\ handler'["remover"].dev = d
        /\ handler'["remover"].old = a
    BY <1>1, <2>1, BeginUnbind
  <2> QED BY <1>2, <2>2
<1>4. /\ UNCHANGED tables /\ UNCHANGED <<net, rec, bound, driver, kept, moves>>
      /\ Loosen("remover", d) /\ handler["remover"] = NoHandler
  BY DEF Remove, tables, AtRest
<1>5. loose' \subseteq Addrs \cup Devices /\ loose \subseteq loose' /\ Closed'
  <2>1. rec' \in [Devices -> Records]
    BY <1>1, <1>4, MemberTyping
  <2> QED BY <1>1, <1>3, <1>4, <2>1, LoosenKeeps
<1>6. MemberTypeOK'
  BY <1>1, <1>3, <1>4, <1>5, MemberTyping, MemberTypingNext
<1>7. /\ OwnRecords' /\ OwnBindings' /\ Tracking'
      /\ \A u \in Workers \ {"remover"} : Informed(handler[u])' /\ Cleared(handler[u])'
  <2>1. \A u \in Workers : handler[u].pc = "remove" => handler'[u] = handler[u]
    BY <1>3, <1>4, NoHandlerIs
  <2>2. handler'["zigbee"] = handler["zigbee"]
    BY <1>1, <1>3 DEF Workers
  <2> QED BY <1>3, <1>4, <1>5, <2>1, <2>2, TablesStay
<1>8. Informed(handler["remover"])' /\ Cleared(handler["remover"])'
  BY <1>2, <1>3, <1>4 DEF Informed, Cleared, Moving, Cleaning
<1>9. OneMover'
  BY <1>3 DEF MemberInv, OneMover, Moving
<1> QED BY <1>5, <1>6, <1>7, <1>8, <1>9 DEF MemberInv

LEMMA LeaveIndicationKeeps ==
  ASSUME MemberInv, NEW d \in Devices, LeaveIndication(d)
  PROVE  MemberInv'
<1>1. MemberTypeOK /\ "zigbee" \in Workers /\ handler["zigbee"] = NoHandler
  BY DEF MemberInv, Workers, LeaveIndication, AtRest
<1>2. /\ net[d] \in Addrs /\ net' \in [Devices -> Addrs \cup {None}]
      /\ rec[d].addr \in Addrs \cup {None}
  BY <1>1, MemberTyping DEF LeaveIndication, Records
<1>3. /\ UNCHANGED tables /\ UNCHANGED <<rec, bound, driver, kept, moves>>
      /\ loose' = loose \cup (IF rec[d].addr \in {None, net[d]} THEN {}
                              ELSE {d, rec[d].addr, net[d]} \cup Holders(rec, net[d]))
  BY DEF LeaveIndication, tables
<1>4. /\ handler' \in [Workers -> Handlers]
      /\ \A u \in Workers \ {"zigbee"} : handler'[u] = handler[u]
      /\ \/ handler'["zigbee"] = NoHandler
         \/ /\ handler'["zigbee"].pc = "unbind" /\ handler'["zigbee"].dev = d
            /\ handler'["zigbee"].old = net[d] /\ d \in Registered
  <2>1. CASE d \in Registered
    <3>0. PICK a \in Addrs : a = net[d]
      BY <1>2
    <3>1. Begin("zigbee", "unbind", d, a, None, FALSE)
      BY <2>1, <3>0 DEF LeaveIndication
    <3>2. /\ handler' \in [Workers -> Handlers]
          /\ \A u \in Workers \ {"zigbee"} : handler'[u] = handler[u]
          /\ handler'["zigbee"].pc = "unbind" /\ handler'["zigbee"].dev = d
          /\ handler'["zigbee"].old = a
      BY <1>1, <1>2, <3>1, BeginUnbind
    <3> QED BY <2>1, <3>0, <3>2
  <2>2. CASE d \notin Registered
    BY <1>1, <2>2, MemberTyping DEF LeaveIndication
  <2> QED BY <2>1, <2>2
<1>5. loose' \subseteq Addrs \cup Devices /\ loose \subseteq loose'
  BY <1>1, <1>2, <1>3, MemberTyping DEF Holders
<1>6. Closed'
  <2>1. Closed /\ Registered' = Registered
    BY <1>3 DEF MemberInv, Registered
  <2>2. CASE loose' = loose
    BY <1>3, <2>1, <2>2 DEF Closed
  <2>3. CASE loose' = loose \cup {d, rec[d].addr, net[d]} \cup Holders(rec, net[d])
    <3>1. \A e \in Registered : e \in loose' <=> rec[e].addr \in loose'
      <4> SUFFICES ASSUME NEW e \in Registered
                   PROVE  e \in loose' <=> rec[e].addr \in loose'
        OBVIOUS
      <4>1. e \in Devices /\ rec[e].addr \in Addrs
        BY <1>1, MemberTyping DEF Registered, Records
      <4>2. e \in loose' <=> e \in loose \/ e = d \/ rec[e].addr = net[d]
        BY <1>2, <2>3, <4>1, Sorts DEF Holders
      <4>3. rec[e].addr \in loose' <=>
              rec[e].addr \in loose \/ rec[e].addr = rec[d].addr \/ rec[e].addr = net[d]
        BY <1>2, <2>3, <4>1, Sorts DEF Holders
      <4>4. e \in loose <=> rec[e].addr \in loose
        BY <2>1 DEF Closed
      <4>5. rec[e].addr = rec[d].addr => e = d \/ rec[e].addr \in loose
        <5>1. rec[e].addr = rec[d].addr => d \in Registered
          BY <4>1, Sorts DEF Registered
        <5> QED BY <2>1, <5>1 DEF Closed
      <4> QED BY <4>2, <4>3, <4>4, <4>5
    <3> QED BY <1>3, <1>5, <2>1, <3>1 DEF Closed
  <2> QED BY <1>3, <2>2, <2>3
<1>7. MemberTypeOK'
  BY <1>1, <1>2, <1>3, <1>4, <1>5, MemberTyping, MemberTypingNext
<1>8. /\ OwnRecords' /\ OwnBindings' /\ Tracking'
      /\ \A u \in Workers \ {"zigbee"} : Informed(handler[u])' /\ Cleared(handler[u])'
  <2>1. \A u \in Workers : handler[u].pc = "remove" => handler'[u] = handler[u]
    BY <1>1, <1>4, NoHandlerIs
  <2>2. ~Moving(handler["zigbee"])
    BY <1>1, NoHandlerIs
  <2> QED BY <1>3, <1>4, <1>5, <2>1, <2>2, TablesStay
<1>9. Informed(handler["zigbee"])' /\ Cleared(handler["zigbee"])'
  <2>1. CASE handler'["zigbee"] = NoHandler
    BY <2>1, NoHandlerIs DEF Informed, Cleared
  <2>2. CASE /\ handler'["zigbee"].pc = "unbind" /\ handler'["zigbee"].dev = d
             /\ handler'["zigbee"].old = net[d] /\ d \in Registered
    <3>1. rec[d].addr = net[d] \/ {d, net[d]} \subseteq loose'
      BY <1>3, <2>2 DEF Registered
    <3> QED BY <1>2, <1>3, <2>2, <3>1 DEF Informed, Cleared, Moving, Cleaning
  <2> QED BY <1>4, <2>1, <2>2
<1>10. OneMover'
  BY <1>4 DEF MemberInv, OneMover, Moving
<1> QED BY <1>5, <1>6, <1>7, <1>8, <1>9, <1>10 DEF MemberInv

-------------------------------------------------------------------------------
(***************************************************************************)
(* The cleanup of a device that leaves or is removed.                      *)
(***************************************************************************)
\* The only device with an address that is not loose.
LEMMA OnlyHolder ==
  ASSUME MemberInv, NEW d \in Devices, rec[d].addr # None,
         rec[d].addr \notin loose
  PROVE  /\ \A e \in Devices : rec[e].addr = rec[d].addr => e = d
         /\ At(rec[d].addr) = {d}
         /\ d \notin loose
<1>1. \A e \in Devices : rec[e].addr = rec[d].addr => e = d
  BY DEF MemberInv, Closed, Registered
<1>2. First(rec, rec[d].addr) = {d}
  BY <1>1, FirstAlone, MemberTyping DEF MemberInv
<1>3. d \notin loose
  BY DEF MemberInv, Closed, Registered
<1> QED BY <1>1, <1>2, <1>3 DEF At

\* The device a cleanup is for, and its address.
LEMMA CleaningIs ==
  ASSUME MemberInv, NEW t \in Workers, Cleaning(handler[t])
  PROVE  /\ handler[t].dev \in Devices /\ handler[t].old \in Addrs /\ handler[t].old # None
         /\ \/ rec[handler[t].dev].addr = handler[t].old
            \/ {handler[t].dev, handler[t].old} \subseteq loose
BY Sorts DEF MemberInv, Informed, Cleaning

LEMMA UnbindKeeps ==
  ASSUME MemberInv, NEW t \in Workers, Unbind(t)
  PROVE  MemberInv'
<1>1. MemberTypeOK /\ "zigbee" \in Workers
  BY DEF MemberInv, Workers
<1>2. PICK d \in Devices, a \in Addrs : d = handler[t].dev /\ a = handler[t].old /\ a # None
  BY CleaningIs DEF Unbind, Cleaning
<1>3. /\ handler' \in [Workers -> Handlers]
      /\ \A u \in Workers \ {t} : handler'[u] = handler[u]
      /\ handler'[t].pc = "undrive" /\ handler'[t].dev = d /\ handler'[t].old = a
  BY <1>1, <1>2, GotoIs DEF Unbind
<1>4. /\ UNCHANGED <<net, rec, driver, kept, moves>> /\ bound' = [bound EXCEPT ![a] = None]
      /\ Loosen(t, d) /\ handler[t].pc = "unbind"
  BY <1>2 DEF Unbind, Unbound
<1>5. bound' \in [Addrs -> Devices \cup {None}] /\ \A b \in Addrs : bound'[b] \in {bound[b], None}
  BY <1>1, <1>4, MemberTyping
<1>6. loose' \subseteq Addrs \cup Devices /\ loose \subseteq loose' /\ Closed'
  <2>1. rec' \in [Devices -> Records]
    BY <1>1, <1>4, MemberTyping
  <2> QED BY <1>1, <1>3, <1>4, <2>1, LoosenKeeps
<1>7. MemberTypeOK'
  BY <1>1, <1>3, <1>4, <1>5, <1>6, MemberTyping, MemberTypingNext
<1>8. \A u \in Workers \ {t} : Informed(handler[u])' /\ Cleared(handler[u])'
  <2> SUFFICES ASSUME NEW u \in Workers \ {t} PROVE Informed(handler[u])' /\ Cleared(handler[u])'
    OBVIOUS
  <2>1. Informed(handler[u])'
    BY <1>3, <1>4, <1>6, StaysInformed
  <2>2. Cleaning(handler[u]) => handler[u].old \in Addrs
    BY CleaningIs
  <2>3. Cleared(handler[u])'
    BY <1>3, <1>4, <1>5, <1>6, <2>2, StaysCleared DEF Cleaning
  <2> QED BY <2>1, <2>3
<1>9. Informed(handler[t])' /\ Cleared(handler[t])'
  <2>1. rec[d].addr = a \/ {d, a} \subseteq loose'
    BY <1>2, <1>4, <1>6, CleaningIs DEF Cleaning
  <2>2. bound'[a] = None
    BY <1>1, <1>4, MemberTyping
  <2> QED BY <1>2, <1>3, <1>4, <2>1, <2>2 DEF Informed, Cleared, Moving, Cleaning
<1>10. OwnRecords'
  BY <1>4, <1>6 DEF MemberInv, OwnRecords
<1>11. OwnBindings'
  <2> SUFFICES ASSUME NEW b \in Addrs \ loose'
               PROVE  /\ \/ ConverterIsOwn(b)'
                         \/ handler'["zigbee"].pc = "rebind" /\ handler'["zigbee"].old = b
                      /\ \/ DriverIsOwn(b)'
                         \/ Moving(handler["zigbee"])' /\ handler'["zigbee"].old = b
    BY DEF OwnBindings
  <2>1. handler'["zigbee"] = handler["zigbee"] \/ ~Moving(handler["zigbee"])
    BY <1>1, <1>3, <1>4 DEF Moving
  <2>2. /\ ConverterIsOwn(b) \/ (handler["zigbee"].pc = "rebind" /\ handler["zigbee"].old = b)
        /\ DriverIsOwn(b) \/ (Moving(handler["zigbee"]) /\ handler["zigbee"].old = b)
    BY <1>6 DEF MemberInv, OwnBindings
  <2> QED BY <1>4, <1>5, <2>1, <2>2 DEF ConverterIsOwn, DriverIsOwn, Moving
<1>12. Tracking'
  BY <1>3, <1>4, <1>6 DEF MemberInv, Tracking, Registered
<1>13. OneMover'
  BY <1>3 DEF MemberInv, OneMover, Moving
<1> QED BY <1>6, <1>7, <1>8, <1>9, <1>10, <1>11, <1>12, <1>13 DEF MemberInv

LEMMA UndriveKeeps ==
  ASSUME MemberInv, NEW t \in Workers, Undrive(t)
  PROVE  MemberInv'
<1>1. MemberTypeOK /\ "zigbee" \in Workers
  BY DEF MemberInv, Workers
<1>2. PICK d \in Devices, a \in Addrs : d = handler[t].dev /\ a = handler[t].old /\ a # None
  BY CleaningIs DEF Undrive, Cleaning
<1>3. /\ handler' \in [Workers -> Handlers]
      /\ \A u \in Workers \ {t} : handler'[u] = handler[u]
      /\ handler'[t].pc = "remove" /\ handler'[t].dev = d /\ handler'[t].old = a
  BY <1>1, <1>2, GotoIs DEF Undrive
<1>4. /\ UNCHANGED <<net, bound, kept, moves>> /\ driver' = [driver EXCEPT ![a] = None]
      /\ rec' = Track(rec, a, FALSE) /\ Loosen(t, d) /\ handler[t].pc = "undrive"
  BY <1>2 DEF Undrive, Unbound
<1>5. driver' \in [Addrs -> Tuya \cup {None}] /\ \A b \in Addrs : driver'[b] \in {driver[b], None}
  BY <1>1, <1>4, MemberTyping
<1>6. /\ rec' \in [Devices -> Records]
      /\ \A e \in Devices :
           /\ rec'[e].addr = rec[e].addr /\ rec'[e].conv = rec[e].conv
           /\ e \notin First(rec, a) => rec'[e] = rec[e]
  <2>1. PICK r \in [Devices -> Records] : r = rec
    BY <1>1, MemberTyping
  <2>0. PICK on \in BOOLEAN : on = FALSE
    OBVIOUS
  <2>2. /\ Track(r, a, on) \in [Devices -> Records]
        /\ \A e \in Devices :
             /\ Track(r, a, on)[e].addr = r[e].addr
             /\ Track(r, a, on)[e].conv = r[e].conv
             /\ e \notin First(r, a) => Track(r, a, on)[e] = r[e]
    BY TrackKeeps
  <2>3. rec' = Track(r, a, on)
    BY <1>4, <2>0, <2>1
  <2> QED BY <2>1, <2>2, <2>3
<1>7. loose' \subseteq Addrs \cup Devices /\ loose \subseteq loose' /\ Closed'
  BY <1>1, <1>3, <1>4, <1>6, LoosenKeeps
<1>8. MemberTypeOK'
  BY <1>1, <1>3, <1>4, <1>5, <1>6, <1>7, MemberTyping, MemberTypingNext
<1>9. \A u \in Workers \ {t} : Informed(handler[u])' /\ Cleared(handler[u])'
  <2> SUFFICES ASSUME NEW u \in Workers \ {t} PROVE Informed(handler[u])' /\ Cleared(handler[u])'
    OBVIOUS
  <2>1. Informed(handler[u])'
    BY <1>3, <1>6, <1>7, StaysInformed
  <2>2. Cleaning(handler[u]) => handler[u].old \in Addrs
    BY CleaningIs
  <2>3. Cleared(handler[u])'
    BY <1>3, <1>4, <1>5, <1>7, <2>2, StaysCleared DEF Cleaning
  <2> QED BY <2>1, <2>3
<1>10. Informed(handler[t])' /\ Cleared(handler[t])'
  <2>1. rec'[d].addr = a \/ {d, a} \subseteq loose'
    BY <1>2, <1>4, <1>6, <1>7, CleaningIs DEF Cleaning
  <2>2. driver'[a] = None
    BY <1>1, <1>4, MemberTyping
  <2>3. a \in loose' \/ bound'[a] = None
    BY <1>2, <1>4, <1>7 DEF MemberInv, Cleared
  <2> QED BY <1>2, <1>3, <1>4, <2>1, <2>2, <2>3 DEF Informed, Cleared, Moving, Cleaning
<1>11. OwnRecords'
  <2> SUFFICES ASSUME NEW e \in Devices
               PROVE  /\ rec'[e].addr = None => rec'[e] = Absent
                      /\ rec'[e].conv \in {None, e} \/ e \in loose'
                      /\ kept'[e] \in {None, e} \/ e \in loose'
    BY DEF OwnRecords, Absent
  <2>1. rec[e].addr = None => e \notin First(rec, a)
    BY <1>2, FirstHolds
  <2> QED BY <1>4, <1>6, <1>7, <2>1 DEF MemberInv, OwnRecords
<1>12. OwnBindings'
  <2> SUFFICES ASSUME NEW b \in Addrs \ loose'
               PROVE  /\ \/ ConverterIsOwn(b)'
                         \/ handler'["zigbee"].pc = "rebind" /\ handler'["zigbee"].old = b
                      /\ \/ DriverIsOwn(b)'
                         \/ Moving(handler["zigbee"])' /\ handler'["zigbee"].old = b
    BY DEF OwnBindings
  <2>1. handler'["zigbee"] = handler["zigbee"] \/ ~Moving(handler["zigbee"])
    BY <1>1, <1>3, <1>4 DEF Moving
  <2>2. /\ ConverterIsOwn(b) \/ (handler["zigbee"].pc = "rebind" /\ handler["zigbee"].old = b)
        /\ DriverIsOwn(b) \/ (Moving(handler["zigbee"]) /\ handler["zigbee"].old = b)
    BY <1>7 DEF MemberInv, OwnBindings
  <2>3. bound[b] \in Devices \cup {None} /\ driver[b] \in Devices \cup {None}
    BY <1>1, MemberTyping, Sorts
  <2> QED BY <1>4, <1>5, <1>6, <2>1, <2>2, <2>3 DEF ConverterIsOwn, DriverIsOwn, Moving
<1>13. Tracking'
  <2> SUFFICES ASSUME NEW e \in Registered'
               PROVE  \/ rec'[e].tracked \/ rec'[e].addr \in loose'
                      \/ \E u \in Workers : handler'[u].pc = "remove" /\ handler'[u].dev = e
    BY DEF Tracking
  <2>1. e \in Registered /\ e \in Devices
    BY <1>6 DEF Registered
  <2>2. \/ rec[e].tracked \/ rec[e].addr \in loose
        \/ \E u \in Workers : handler[u].pc = "remove" /\ handler[u].dev = e
    BY <2>1 DEF MemberInv, Tracking
  <2>3. CASE e \in First(rec, a)
    <3>1. rec[e].addr = a
      BY <2>3, FirstHolds
    <3>2. a \in loose \/ e = d
      <4>1. a \in loose \/ rec[d].addr = a
        BY <1>2, <1>4, CleaningIs DEF Cleaning
      <4> QED BY <1>2, <2>1, <3>1, <4>1, OnlyHolder
    <3> QED BY <1>3, <1>6, <1>7, <2>1, <3>1, <3>2
  <2>4. CASE e \notin First(rec, a)
    BY <1>3, <1>4, <1>6, <1>7, <2>1, <2>2, <2>4, ZenonT(60)
  <2> QED BY <2>3, <2>4
<1>14. OneMover'
  BY <1>3 DEF MemberInv, OneMover, Moving
<1> QED BY <1>7, <1>8, <1>9, <1>10, <1>11, <1>12, <1>13, <1>14 DEF MemberInv

LEMMA RegistryRemoveKeeps ==
  ASSUME MemberInv, NEW t \in Workers, device_registry_remove(t)
  PROVE  MemberInv'
<1>1. MemberTypeOK /\ "zigbee" \in Workers
  BY DEF MemberInv, Workers
<1>2. PICK d \in Devices, a \in Addrs : d = handler[t].dev /\ a = handler[t].old /\ a # None
  BY CleaningIs DEF device_registry_remove, Cleaning
<1>3. /\ handler' \in [Workers -> Handlers]
      /\ \A u \in Workers \ {t} : handler'[u] = handler[u]
      /\ handler'[t] = NoHandler
  BY <1>1, EndIs DEF device_registry_remove
<1>4. /\ UNCHANGED <<net, bound, driver, kept, moves>> /\ rec' = [rec EXCEPT ![d] = Absent]
      /\ Loosen(t, d) /\ handler[t].pc = "remove"
  BY <1>2 DEF device_registry_remove
<1>5. Absent \in Records /\ Absent.addr = None /\ Absent.conv = None
  BY DEF Absent, Records
<1>6. /\ rec' \in [Devices -> Records] /\ rec'[d] = Absent
      /\ \A e \in Devices \ {d} : rec'[e] = rec[e]
  BY <1>1, <1>4, <1>5, MemberTyping
<1>7. /\ loose' \subseteq Addrs \cup Devices /\ loose \subseteq loose' /\ Closed'
      /\ \A u \in Workers \ {t} :
           handler[u].dev = d => {d} \cup Addresses(handler[u]) \subseteq loose'
  BY <1>1, <1>3, <1>4, <1>6, LoosenKeeps
<1>8. MemberTypeOK'
  BY <1>1, <1>3, <1>4, <1>6, <1>7, MemberTyping, MemberTypingNext
<1>9. \A u \in Workers \ {t} : Informed(handler[u])' /\ Cleared(handler[u])'
  <2> SUFFICES ASSUME NEW u \in Workers \ {t} PROVE Informed(handler[u])' /\ Cleared(handler[u])'
    OBVIOUS
  <2>1. Informed(handler[u])'
    BY <1>3, <1>5, <1>6, <1>7, StaysInformed
  <2>2. Cleared(handler[u])'
    BY <1>3, <1>4, <1>7, StaysCleared
  <2> QED BY <2>1, <2>2
<1>10. Informed(handler[t])' /\ Cleared(handler[t])'
  BY <1>3, NoHandlerIs DEF Informed, Cleared
<1>11. OwnRecords'
  BY <1>4, <1>5, <1>6, <1>7 DEF MemberInv, OwnRecords
<1>12. OwnBindings'
  <2> SUFFICES ASSUME NEW b \in Addrs \ loose'
               PROVE  /\ \/ ConverterIsOwn(b)'
                         \/ handler'["zigbee"].pc = "rebind" /\ handler'["zigbee"].old = b
                      /\ \/ DriverIsOwn(b)'
                         \/ Moving(handler["zigbee"])' /\ handler'["zigbee"].old = b
    BY DEF OwnBindings
  <2>1. handler'["zigbee"] = handler["zigbee"] \/ ~Moving(handler["zigbee"])
    BY <1>1, <1>3, <1>4 DEF Moving
  <2>2. /\ ConverterIsOwn(b) \/ (handler["zigbee"].pc = "rebind" /\ handler["zigbee"].old = b)
        /\ DriverIsOwn(b) \/ (Moving(handler["zigbee"]) /\ handler["zigbee"].old = b)
    BY <1>7 DEF MemberInv, OwnBindings
  <2>3. bound[b] \in Devices \cup {None} /\ driver[b] \in Devices \cup {None}
    BY <1>1, MemberTyping, Sorts
  <2>4. rec[d].addr = b => bound[b] = None /\ driver[b] = None
    <3>1. rec[d].addr = a \/ d \in loose
      BY <1>2, <1>4, CleaningIs DEF Cleaning
    <3>2. rec[d].addr = b => d \notin loose
      BY <1>7, OnlyHolder, Sorts
    <3>3. rec[d].addr = b => a = b
      BY <3>1, <3>2
    <3> QED BY <1>2, <1>4, <1>7, <3>3 DEF MemberInv, Cleared
  <2> QED BY <1>4, <1>6, <2>1, <2>2, <2>3, <2>4 DEF ConverterIsOwn, DriverIsOwn, Moving
<1>13. Tracking'
  <2> SUFFICES ASSUME NEW e \in Registered'
               PROVE  \/ rec'[e].tracked \/ rec'[e].addr \in loose'
                      \/ \E u \in Workers : handler'[u].pc = "remove" /\ handler'[u].dev = e
    BY DEF Tracking
  <2>1. e \in Registered /\ e \in Devices /\ e # d
    BY <1>5, <1>6 DEF Registered
  <2>2. \/ rec[e].tracked \/ rec[e].addr \in loose
        \/ \E u \in Workers : handler[u].pc = "remove" /\ handler[u].dev = e
    BY <2>1 DEF MemberInv, Tracking
  <2> QED BY <1>2, <1>3, <1>6, <1>7, <2>1, <2>2
<1>14. OneMover'
  BY <1>3, NoHandlerIs DEF MemberInv, OneMover, Moving
<1> QED BY <1>7, <1>8, <1>9, <1>10, <1>11, <1>12, <1>13, <1>14 DEF MemberInv

-------------------------------------------------------------------------------
(***************************************************************************)
(* What is bound, by a lookup, by a frame and by a move.                   *)
(***************************************************************************)
LEMMA BoundIs ==
  ASSUME NEW table \in [Addrs -> Devices \cup {None}], NEW a \in Addrs,
         NEW c \in Devices \cup {None}
  PROVE  /\ Bound(table, a, c) \in [Addrs -> Devices \cup {None}]
         /\ \A b \in Addrs : \/ Bound(table, a, c)[b] = table[b]
                             \/ b = a /\ Bound(table, a, c)[b] = c
BY DEF Bound

\* A cleanup under way at the address of a device, if that is not loose, is
\* that device's.
LEMMA CleaningHolder ==
  ASSUME MemberInv, NEW u \in Workers, Cleaning(handler[u]),
         NEW d \in Devices, rec[d].addr = handler[u].old, handler[u].old \notin loose
  PROVE  handler[u].dev = d /\ handler[u].old \in Addresses(handler[u])
<1>1. /\ rec[handler[u].dev].addr = handler[u].old /\ handler[u].old # None
      /\ handler[u].dev \in Devices
  BY CleaningIs
<1>2. handler[u].dev = d
  BY <1>1, OnlyHolder
<1> QED BY <1>1, <1>2 DEF Addresses

LEMMA FoundKeeps ==
  ASSUME MemberInv, NEW t \in Workers, Found(t)
  PROVE  MemberInv'
<1>1. MemberTypeOK /\ "zigbee" \in Workers /\ Informed(handler[t]) /\ handler[t].pc = "find"
  BY DEF MemberInv, Workers, Found
<1>2. PICK d \in Devices, a \in Addrs : d = handler[t].dev /\ a = handler[t].new
  BY <1>1 DEF Informed
<1>3. rec[d].addr = a \/ a \in loose
  BY <1>1, <1>2 DEF Informed
<1>4. /\ handler' \in [Workers -> Handlers]
      /\ \A u \in Workers \ {t} : handler'[u] = handler[u]
      /\ handler'[t] = NoHandler
  BY <1>1, EndIs DEF Found
<1>5. /\ UNCHANGED <<net, driver, kept, moves>> /\ Loosen(t, d)
      /\ bound' = IF At(a) = {} THEN bound ELSE Bound(bound, a, d)
      /\ rec' = [e \in Devices |-> IF e \in At(a) THEN [rec[e] EXCEPT !.conv = d]
                                   ELSE rec[e]]
  BY <1>2 DEF Found
<1>6. /\ bound' \in [Addrs -> Devices \cup {None}]
      /\ \A b \in Addrs : bound'[b] = bound[b] \/ (b = a /\ bound'[b] = d)
  <2>1. PICK table \in [Addrs -> Devices \cup {None}] : table = bound
    BY <1>1, MemberTyping
  <2>2. /\ Bound(table, a, d) \in [Addrs -> Devices \cup {None}]
        /\ \A b \in Addrs : Bound(table, a, d)[b] = table[b]
                            \/ (b = a /\ Bound(table, a, d)[b] = d)
    BY BoundIs
  <2> QED BY <1>5, <2>1, <2>2
<1>7. /\ rec' \in [Devices -> Records]
      /\ \A e \in Devices :
           /\ rec'[e].addr = rec[e].addr /\ rec'[e].tracked = rec[e].tracked
           /\ e \in At(a) => rec'[e].conv = d
           /\ e \notin At(a) => rec'[e] = rec[e]
  <2>1. \A q \in Records : /\ [q EXCEPT !.conv = d] \in Records
                           /\ [q EXCEPT !.conv = d].addr = q.addr
                           /\ [q EXCEPT !.conv = d].tracked = q.tracked
                           /\ [q EXCEPT !.conv = d].conv = d
    BY DEF Records
  <2>2. \A e \in Devices : /\ rec[e] \in Records
                           /\ rec'[e] = IF e \in At(a) THEN [rec[e] EXCEPT !.conv = d]
                                        ELSE rec[e]
    BY <1>1, <1>5, MemberTyping
  <2>3. \A e \in Devices : rec'[e] \in Records
    BY <2>1, <2>2
  <2>4. rec' \in [Devices -> Records]
    BY <1>5, <2>3
  <2> QED BY <2>1, <2>2, <2>4
<1>8. /\ loose' \subseteq Addrs \cup Devices /\ loose \subseteq loose' /\ Closed'
      /\ \A u \in Workers \ {t} : handler[u].dev = d => Addresses(handler[u]) \subseteq loose'
  BY <1>1, <1>4, <1>5, <1>7, LoosenKeeps
<1>9. MemberTypeOK'
  BY <1>1, <1>4, <1>5, <1>6, <1>7, <1>8, MemberTyping, MemberTypingNext
<1>10. \A u \in Workers \ {t} : Informed(handler[u])' /\ Cleared(handler[u])'
  <2> SUFFICES ASSUME NEW u \in Workers \ {t} PROVE Informed(handler[u])' /\ Cleared(handler[u])'
    OBVIOUS
  <2>1. Informed(handler[u])'
    BY <1>4, <1>7, <1>8, StaysInformed
  <2>2. ASSUME Cleaning(handler[u])
        PROVE  bound'[handler[u].old] = bound[handler[u].old] \/ handler[u].old \in loose'
    <3>1. handler[u].old \in Addrs
      BY <2>2, CleaningIs
    <3>2. CASE handler[u].old # a \/ a \in loose
      BY <1>6, <1>8, <3>1, <3>2
    <3>3. CASE handler[u].old = a /\ a \notin loose
      BY <1>3, <1>8, <2>2, <3>3, CleaningHolder
    <3> QED BY <3>2, <3>3
  <2>3. Cleared(handler[u])'
    BY <1>4, <1>5, <1>8, <2>2, StaysCleared DEF Cleaning
  <2> QED BY <2>1, <2>3
<1>11. Informed(handler[t])' /\ Cleared(handler[t])'
  BY <1>4, NoHandlerIs DEF Informed, Cleared
<1>12. \A e \in At(a) : e = d \/ e \in loose
  <2> SUFFICES ASSUME NEW e \in At(a), e \notin loose PROVE e = d
    OBVIOUS
  <2>1. e \in Devices /\ rec[e].addr = a /\ a # None
    BY FirstHolds DEF At
  <2>2. a \notin loose
    BY <2>1 DEF MemberInv, Closed, Registered
  <2> QED BY <1>3, <2>1, <2>2, OnlyHolder
<1>13. OwnRecords'
  <2> SUFFICES ASSUME NEW e \in Devices
               PROVE  /\ rec'[e].addr = None => rec'[e] = Absent
                      /\ rec'[e].conv \in {None, e} \/ e \in loose'
                      /\ kept'[e] \in {None, e} \/ e \in loose'
    BY DEF OwnRecords, Absent
  <2>1. e \in At(a) => rec[e].addr # None
    BY FirstHolds DEF At
  <2> QED BY <1>5, <1>7, <1>8, <1>12, <2>1 DEF MemberInv, OwnRecords
<1>14. OwnBindings'
  <2> SUFFICES ASSUME NEW b \in Addrs \ loose'
               PROVE  /\ \/ ConverterIsOwn(b)'
                         \/ handler'["zigbee"].pc = "rebind" /\ handler'["zigbee"].old = b
                      /\ \/ DriverIsOwn(b)'
                         \/ Moving(handler["zigbee"])' /\ handler'["zigbee"].old = b
    BY DEF OwnBindings
  <2>1. handler'["zigbee"] = handler["zigbee"] \/ ~Moving(handler["zigbee"])
    BY <1>1, <1>4 DEF Moving
  <2>2. /\ ConverterIsOwn(b) \/ (handler["zigbee"].pc = "rebind" /\ handler["zigbee"].old = b)
        /\ DriverIsOwn(b) \/ (Moving(handler["zigbee"]) /\ handler["zigbee"].old = b)
    BY <1>8 DEF MemberInv, OwnBindings
  <2>3. bound[b] \in Devices \cup {None} /\ driver[b] \in Devices \cup {None}
    BY <1>1, MemberTyping, Sorts
  <2>4. bound'[b] = bound[b] \/ (bound'[b] = d /\ rec'[d].addr = b)
    BY <1>3, <1>6, <1>7, <1>8
  <2> QED BY <1>5, <1>7, <2>1, <2>2, <2>3, <2>4 DEF ConverterIsOwn, DriverIsOwn, Moving
<1>15. Tracking'
  BY <1>1, <1>4, <1>7, <1>8 DEF MemberInv, Tracking, Registered
<1>16. OneMover'
  BY <1>4, NoHandlerIs DEF MemberInv, OneMover, Moving
<1> QED BY <1>8, <1>9, <1>10, <1>11, <1>13, <1>14, <1>15, <1>16 DEF MemberInv

\* What a driver bound at an address does to the records.
LEMMA DriverBindIs ==
  ASSUME MemberTypeOK, NEW table \in [Addrs -> Tuya \cup {None}], NEW a \in Addrs,
         NEW v \in Tuya, DriverBind(table, a, v)
  PROVE  /\ driver' \in [Addrs -> Tuya \cup {None}]
         /\ kept' \in [Devices -> Tuya \cup {None}]
         /\ driver'[a] = v /\ \A b \in Addrs \ {a} : driver'[b] = table[b]
         /\ \A d \in At(a) : kept'[d] = v
         /\ \A d \in Devices \ At(a) : kept'[d] = kept[d]
<1>1. kept \in [Devices -> Tuya \cup {None}]
  BY MemberTyping
<1>2. \A d \in At(a) : d \in Devices
  BY FirstHolds DEF At
<1>3. /\ driver' = [table EXCEPT ![a] = v]
      /\ kept' = [d \in Devices |-> IF d \in At(a) THEN v ELSE kept[d]]
  BY DEF DriverBind
<1> QED BY <1>1, <1>2, <1>3

LEMMA TryLazyBindKeeps ==
  ASSUME MemberInv, NEW a \in Addrs, try_lazy_bind(a)
  PROVE  MemberInv'
<1>1. MemberTypeOK /\ "zigbee" \in Workers /\ handler["zigbee"] = NoHandler
  BY DEF MemberInv, Workers, try_lazy_bind, AtRest
<1>2. PICK e \in At(a) \cap Tuya : DriverBind(driver, a, e) /\ Loosen("zigbee", e)
  BY DEF try_lazy_bind
<1>3. e \in Devices /\ e \in Tuya /\ rec[e].addr = a /\ a # None
  BY <1>2, FirstHolds DEF At
<1>4. UNCHANGED <<net, rec, bound, handler, moves>>
  BY DEF try_lazy_bind
<1>5. /\ driver' \in [Addrs -> Tuya \cup {None}]
      /\ kept' \in [Devices -> Tuya \cup {None}]
      /\ driver'[a] = e /\ \A b \in Addrs \ {a} : driver'[b] = driver[b]
      /\ \A d \in At(a) : kept'[d] = e
      /\ \A d \in Devices \ At(a) : kept'[d] = kept[d]
  <2>1. PICK table \in [Addrs -> Tuya \cup {None}] : table = driver
    BY <1>1, MemberTyping
  <2> QED BY <1>1, <1>2, <2>1, DriverBindIs
<1>6. /\ loose' \subseteq Addrs \cup Devices /\ loose \subseteq loose' /\ Closed'
      /\ \A u \in Workers \ {"zigbee"} :
           handler[u].dev = e => Addresses(handler[u]) \subseteq loose'
  <2>1. rec' \in [Devices -> Records] /\ handler' \in [Workers -> Handlers]
    BY <1>1, <1>4, MemberTyping
  <2> QED BY <1>1, <1>2, <1>3, <2>1, LoosenKeeps
<1>7. MemberTypeOK'
  BY <1>1, <1>4, <1>5, <1>6, MemberTyping, MemberTypingNext
<1>8. \A u \in Workers : Informed(handler[u])' /\ Cleared(handler[u])'
  <2> SUFFICES ASSUME NEW u \in Workers PROVE Informed(handler[u])' /\ Cleared(handler[u])'
    OBVIOUS
  <2>1. Informed(handler[u])'
    BY <1>4, <1>6, StaysInformed
  <2>2. ASSUME Cleaning(handler[u])
        PROVE  driver'[handler[u].old] = driver[handler[u].old] \/ handler[u].old \in loose'
    <3>1. handler[u].old \in Addrs /\ u # "zigbee"
      BY <1>1, <2>2, CleaningIs, NoHandlerIs
    <3>2. CASE handler[u].old # a \/ a \in loose
      BY <1>5, <1>6, <3>1, <3>2
    <3>3. CASE handler[u].old = a /\ a \notin loose
      BY <1>3, <1>6, <2>2, <3>1, <3>3, CleaningHolder
    <3> QED BY <3>2, <3>3
  <2>3. Cleared(handler[u])'
    BY <1>4, <1>6, <2>2, StaysCleared DEF Cleaning
  <2> QED BY <2>1, <2>3
<1>9. \A d \in At(a) : d = e \/ d \in loose
  <2> SUFFICES ASSUME NEW d \in At(a), d \notin loose PROVE d = e
    OBVIOUS
  <2>1. d \in Devices /\ rec[d].addr = a
    BY FirstHolds DEF At
  <2>2. a \notin loose
    BY <1>3, <2>1 DEF MemberInv, Closed, Registered
  <2> QED BY <1>3, <2>1, <2>2, OnlyHolder
<1>10. OwnRecords'
  BY <1>4, <1>5, <1>6, <1>9 DEF MemberInv, OwnRecords
<1>11. OwnBindings'
  <2> SUFFICES ASSUME NEW b \in Addrs \ loose'
               PROVE  ConverterIsOwn(b)' /\ DriverIsOwn(b)'
    BY DEF OwnBindings
  <2>1. ConverterIsOwn(b) /\ DriverIsOwn(b)
    BY <1>1, <1>6, NoHandlerIs DEF MemberInv, OwnBindings, Moving
  <2>2. driver[b] \in Devices \cup {None}
    BY <1>1, MemberTyping, Sorts
  <2>3. \A d \in At(a) : rec[d].addr = a
    BY FirstHolds DEF At
  <2>4. CASE b = a
    BY <1>2, <1>3, <1>4, <1>5, <2>1, <2>4 DEF ConverterIsOwn, DriverIsOwn
  <2>5. CASE b # a
    BY <1>4, <1>5, <2>1, <2>2, <2>3, <2>5 DEF ConverterIsOwn, DriverIsOwn
  <2> QED BY <2>4, <2>5
<1>12. Tracking'
  BY <1>4, <1>6 DEF MemberInv, Tracking, Registered
<1>13. OneMover'
  BY <1>4 DEF MemberInv, OneMover
<1> QED BY <1>6, <1>7, <1>8, <1>10, <1>11, <1>12, <1>13 DEF MemberInv

\* Where a device that moves is, and what it takes along.
LEMMA MovingIs ==
  ASSUME MemberInv, Moving(handler["zigbee"])
  PROVE  LET j == handler["zigbee"] IN
         /\ j.dev \in Devices /\ j.old \in Addrs /\ j.new \in Addrs
         /\ j.old # j.new /\ j.old # None /\ j.new # None
         /\ rec[j.dev].addr = j.new \/ j.new \in loose
         /\ rec[j.dev].addr \in {j.new, None}
<1>1. Informed(handler["zigbee"])
  BY DEF MemberInv, Workers
<1>2. handler["zigbee"].dev \in Devices
  BY <1>1 DEF Informed, Moving
<1> QED BY <1>1, <1>2, Sorts DEF Informed

LEMMA RebindKeeps == ASSUME MemberInv, Rebind PROVE MemberInv'
<1>1. /\ MemberTypeOK /\ "zigbee" \in Workers
      /\ handler["zigbee"].pc = "rebind" /\ Moving(handler["zigbee"])
  BY DEF MemberInv, Workers, Rebind, Moving
<1>2. PICK d \in Devices, o \in Addrs, a \in Addrs :
        d = handler["zigbee"].dev /\ o = handler["zigbee"].old /\ a = handler["zigbee"].new
  BY <1>1, MovingIs
<1>3. /\ o # a /\ o # None /\ a # None
      /\ rec[d].addr = a \/ a \in loose
      /\ rec[d].addr \in {a, None}
  BY <1>1, <1>2, MovingIs
<1>4. /\ handler' \in [Workers -> Handlers]
      /\ \A u \in Workers \ {"zigbee"} : handler'[u] = handler[u]
      /\ handler'["zigbee"].pc = "redrive" /\ handler'["zigbee"].dev = d
      /\ handler'["zigbee"].old = o /\ handler'["zigbee"].new = a
  BY <1>1, <1>2, GotoIs DEF Rebind
<1>5. /\ UNCHANGED <<net, rec, driver, kept, moves>> /\ Loosen("zigbee", d)
      /\ bound' = IF rec[d].conv # None THEN Bound(Unbound(bound, o), a, rec[d].conv)
                  ELSE Unbound(bound, o)
  BY <1>2 DEF Rebind
<1>6. PICK c \in Devices \cup {None} : c = rec[d].conv
  BY <1>1, MemberTyping DEF Records
<1>7. /\ bound' \in [Addrs -> Devices \cup {None}]
      /\ bound'[o] = None
      /\ \A b \in Addrs \ {o} :
           bound'[b] = bound[b] \/ (b = a /\ c # None /\ bound'[b] = c)
  <2>1. PICK freed \in [Addrs -> Devices \cup {None}] :
          /\ freed = Unbound(bound, o) /\ freed[o] = None
          /\ \A b \in Addrs : b # o => freed[b] = bound[b]
    <3>1. PICK table \in [Addrs -> Devices \cup {None}] : table = bound
      BY <1>1, MemberTyping
    <3>2. /\ Unbound(table, o) \in [Addrs -> Devices \cup {None}]
          /\ Unbound(table, o)[o] = None
          /\ \A b \in Addrs : b # o => Unbound(table, o)[b] = table[b]
      BY <1>3 DEF Unbound
    <3> QED BY <3>1, <3>2
  <2>2. /\ Bound(freed, a, c) \in [Addrs -> Devices \cup {None}]
        /\ \A b \in Addrs : Bound(freed, a, c)[b] = freed[b]
                            \/ (b = a /\ Bound(freed, a, c)[b] = c)
    BY BoundIs
  <2> QED BY <1>3, <1>5, <1>6, <2>1, <2>2
<1>8. /\ loose' \subseteq Addrs \cup Devices /\ loose \subseteq loose' /\ Closed'
      /\ \A u \in Workers \ {"zigbee"} :
           handler[u].dev = d => Addresses(handler[u]) \subseteq loose'
  <2>1. rec' \in [Devices -> Records]
    BY <1>1, <1>5, MemberTyping
  <2> QED BY <1>1, <1>4, <1>5, <2>1, LoosenKeeps
<1>9. MemberTypeOK'
  BY <1>1, <1>4, <1>5, <1>7, <1>8, MemberTyping, MemberTypingNext
<1>10. \A u \in Workers \ {"zigbee"} : Informed(handler[u])' /\ Cleared(handler[u])'
  <2> SUFFICES ASSUME NEW u \in Workers \ {"zigbee"}
               PROVE  Informed(handler[u])' /\ Cleared(handler[u])'
    OBVIOUS
  <2>1. Informed(handler[u])'
    BY <1>4, <1>5, <1>8, StaysInformed
  <2>2. ASSUME Cleaning(handler[u])
        PROVE  bound'[handler[u].old] \in {bound[handler[u].old], None} \/ handler[u].old \in loose'
    <3>1. handler[u].old \in Addrs
      BY <2>2, CleaningIs
    <3>2. CASE handler[u].old # a \/ a \in loose
      BY <1>7, <1>8, <3>1, <3>2
    <3>3. CASE handler[u].old = a /\ a \notin loose
      BY <1>3, <1>8, <2>2, <3>3, CleaningHolder
    <3> QED BY <3>2, <3>3
  <2>3. Cleared(handler[u])'
    BY <1>4, <1>5, <1>8, <2>2, StaysCleared, SMTT(60) DEF Cleaning
  <2> QED BY <2>1, <2>3
<1>11. Informed(handler["zigbee"])' /\ Cleared(handler["zigbee"])'
  BY <1>3, <1>4, <1>5, <1>8, <1>2, <1>1, MovingIs
     DEF MemberInv, Informed, Cleared, Moving, Cleaning
<1>12. OwnRecords'
  BY <1>5, <1>8 DEF MemberInv, OwnRecords
<1>13. OwnBindings'
  <2> SUFFICES ASSUME NEW b \in Addrs \ loose'
               PROVE  /\ ConverterIsOwn(b)'
                      /\ \/ DriverIsOwn(b)'
                         \/ Moving(handler["zigbee"])' /\ handler'["zigbee"].old = b
    BY DEF OwnBindings
  <2>1. /\ ConverterIsOwn(b) \/ o = b
        /\ DriverIsOwn(b) \/ o = b
    BY <1>1, <1>2, <1>8 DEF MemberInv, OwnBindings
  <2>2. b = a /\ c # None => c = d /\ rec[d].addr = a
    <3>1. b = a => rec[d].addr = a /\ d \notin loose
      BY <1>3, <1>8, OnlyHolder
    <3> QED BY <1>6, <3>1 DEF MemberInv, OwnRecords
  <2>3. ConverterIsOwn(b)'
    BY <1>5, <1>7, <2>1, <2>2 DEF ConverterIsOwn
  <2>4. DriverIsOwn(b)' \/ (Moving(handler["zigbee"])' /\ handler'["zigbee"].old = b)
    BY <1>4, <1>5, <2>1 DEF DriverIsOwn, Moving
  <2> QED BY <2>3, <2>4
<1>14. Tracking'
  BY <1>1, <1>4, <1>5, <1>8 DEF MemberInv, Tracking, Registered
<1>15. OneMover'
  BY <1>4 DEF MemberInv, OneMover, Moving
<1> QED BY <1>8, <1>9, <1>10, <1>11, <1>12, <1>13, <1>14, <1>15 DEF MemberInv

\* What the Zigbee task is at when the driver has moved.
LEMMA RedriveEnds ==
  ASSUME MemberInv, Redrive
  PROVE  /\ handler' \in [Workers -> Handlers]
         /\ \A u \in Workers \ {"zigbee"} : handler'[u] = handler[u]
         /\ \/ handler'["zigbee"] = NoHandler
            \/ /\ handler'["zigbee"].pc = "interpret"
               /\ handler'["zigbee"].dev = handler["zigbee"].dev
               /\ handler'["zigbee"].new = handler["zigbee"].new
<1>1. MemberTypeOK /\ "zigbee" \in Workers
  BY DEF MemberInv, Workers
<1>2. CASE Goto("zigbee", "interpret")
  BY <1>1, <1>2, GotoIs
<1>3. CASE End("zigbee")
  BY <1>1, <1>3, EndIs
<1> QED BY <1>2, <1>3 DEF Redrive

LEMMA RedriveKeeps == ASSUME MemberInv, Redrive PROVE MemberInv'
<1>1. /\ MemberTypeOK /\ "zigbee" \in Workers
      /\ handler["zigbee"].pc = "redrive" /\ Moving(handler["zigbee"])
  BY DEF MemberInv, Workers, Redrive, Moving
<1>2. PICK d \in Devices, o \in Addrs, a \in Addrs :
        d = handler["zigbee"].dev /\ o = handler["zigbee"].old /\ a = handler["zigbee"].new
  BY <1>1, MovingIs
<1>3. /\ o # a /\ o # None /\ a # None
      /\ rec[d].addr = a \/ a \in loose
  BY <1>1, <1>2, MovingIs
<1>4. /\ handler' \in [Workers -> Handlers]
      /\ \A u \in Workers \ {"zigbee"} : handler'[u] = handler[u]
      /\ \/ handler'["zigbee"] = NoHandler
         \/ /\ handler'["zigbee"].pc = "interpret"
            /\ handler'["zigbee"].dev = d /\ handler'["zigbee"].new = a
  BY <1>2, RedriveEnds
<1>5. UNCHANGED <<net, rec, bound, moves>> /\ Loosen("zigbee", d)
  BY <1>2 DEF Redrive
<1>6. PICK freed \in [Addrs -> Tuya \cup {None}] :
        /\ freed = Unbound(driver, o) /\ freed[o] = None
        /\ \A b \in Addrs : b # o => freed[b] = driver[b]
  <2>1. PICK table \in [Addrs -> Tuya \cup {None}] : table = driver
    BY <1>1, MemberTyping
  <2>2. /\ Unbound(table, o) \in [Addrs -> Tuya \cup {None}]
        /\ Unbound(table, o)[o] = None
        /\ \A b \in Addrs : b # o => Unbound(table, o)[b] = table[b]
    BY <1>3 DEF Unbound
  <2> QED BY <2>1, <2>2
<1>7. \/ driver' = freed /\ kept' = kept
      \/ kept[d] \in Tuya /\ d \in Registered /\ DriverBind(freed, a, kept[d])
  <2>1. kept[d] \in Tuya \cup {None}
    BY <1>1, MemberTyping
  <2> QED BY <1>2, <1>6, <2>1 DEF Redrive
<1>8. /\ driver' \in [Addrs -> Tuya \cup {None}]
      /\ kept' \in [Devices -> Tuya \cup {None}]
      /\ driver'[o] = None
      /\ \A b \in Addrs \ {a, o} : driver'[b] = driver[b]
      /\ \A e \in Devices \ At(a) : kept'[e] = kept[e]
      /\ \/ driver'[a] = driver[a] /\ kept' = kept
         \/ /\ kept[d] \in Tuya /\ driver'[a] = kept[d]
            /\ \A e \in At(a) : kept'[e] = kept[d]
  <2>1. CASE driver' = freed /\ kept' = kept
    BY <1>1, <1>3, <1>6, <2>1, MemberTyping
  <2>2. CASE kept[d] \in Tuya /\ DriverBind(freed, a, kept[d])
    <3>1. PICK v \in Tuya : v = kept[d]
      BY <2>2
    <3>2. /\ driver' \in [Addrs -> Tuya \cup {None}]
          /\ kept' \in [Devices -> Tuya \cup {None}]
          /\ driver'[a] = v /\ \A b \in Addrs \ {a} : driver'[b] = freed[b]
          /\ \A e \in At(a) : kept'[e] = v
          /\ \A e \in Devices \ At(a) : kept'[e] = kept[e]
      BY <1>1, <2>2, <3>1, DriverBindIs
    <3> QED BY <1>3, <1>6, <3>1, <3>2
  <2> QED BY <1>7, <2>1, <2>2
<1>9. /\ loose' \subseteq Addrs \cup Devices /\ loose \subseteq loose' /\ Closed'
      /\ \A u \in Workers \ {"zigbee"} :
           handler[u].dev = d => Addresses(handler[u]) \subseteq loose'
  <2>1. rec' \in [Devices -> Records]
    BY <1>1, <1>5, MemberTyping
  <2> QED BY <1>1, <1>4, <1>5, <2>1, LoosenKeeps
<1>10. MemberTypeOK'
  BY <1>1, <1>4, <1>5, <1>8, <1>9, MemberTyping, MemberTypingNext
<1>11. \A u \in Workers \ {"zigbee"} : Informed(handler[u])' /\ Cleared(handler[u])'
  <2> SUFFICES ASSUME NEW u \in Workers \ {"zigbee"}
               PROVE  Informed(handler[u])' /\ Cleared(handler[u])'
    OBVIOUS
  <2>1. Informed(handler[u])'
    BY <1>4, <1>5, <1>9, StaysInformed
  <2>2. ASSUME Cleaning(handler[u])
        PROVE  \/ driver'[handler[u].old] \in {driver[handler[u].old], None}
               \/ handler[u].old \in loose'
    <3>1. handler[u].old \in Addrs
      BY <2>2, CleaningIs
    <3>2. CASE handler[u].old # a \/ a \in loose
      BY <1>8, <1>9, <3>1, <3>2
    <3>3. CASE handler[u].old = a /\ a \notin loose
      BY <1>3, <1>9, <2>2, <3>3, CleaningHolder
    <3> QED BY <3>2, <3>3
  <2>3. Cleared(handler[u])'
    BY <1>4, <1>5, <1>9, <2>2, StaysCleared DEF Cleaning
  <2> QED BY <2>1, <2>3
<1>12. Informed(handler["zigbee"])' /\ Cleared(handler["zigbee"])'
  <2>1. CASE handler'["zigbee"] = NoHandler
    BY <2>1, NoHandlerIs DEF Informed, Cleared
  <2>2. CASE /\ handler'["zigbee"].pc = "interpret"
             /\ handler'["zigbee"].dev = d /\ handler'["zigbee"].new = a
    BY <2>2 DEF Informed, Cleared, Moving, Cleaning
  <2> QED BY <1>4, <2>1, <2>2
<1>13. a \notin loose => rec[d].addr = a /\ At(a) = {d} /\ kept[d] \in {None, d}
  BY <1>3, OnlyHolder DEF MemberInv, OwnRecords
<1>14. OwnRecords'
  <2>1. \A e \in Devices : kept'[e] \in {None, e} \/ e \in loose'
    <3> SUFFICES ASSUME NEW e \in Devices PROVE kept'[e] \in {None, e} \/ e \in loose'
      OBVIOUS
    <3>1. CASE kept'[e] = kept[e]
      BY <1>9, <3>1 DEF MemberInv, OwnRecords
    <3>2. CASE e \in At(a) /\ kept'[e] = kept[d]
      <4>1. rec[e].addr = a
        BY <3>2, FirstHolds DEF At
      <4>2. a \in loose => e \in loose
        BY <1>3, <4>1 DEF MemberInv, Closed, Registered
      <4> QED BY <1>9, <1>13, <3>2, <4>2
    <3> QED BY <1>8, <3>1, <3>2
  <2> QED BY <1>5, <1>9, <2>1 DEF MemberInv, OwnRecords
<1>15. OwnBindings'
  <2> SUFFICES ASSUME NEW b \in Addrs \ loose'
               PROVE  ConverterIsOwn(b)' /\ DriverIsOwn(b)'
    BY DEF OwnBindings
  <2>1. ConverterIsOwn(b) /\ (DriverIsOwn(b) \/ o = b)
    BY <1>1, <1>2, <1>9 DEF MemberInv, OwnBindings
  <2>2. ConverterIsOwn(b)'
    BY <1>5, <2>1 DEF ConverterIsOwn
  <2>3. driver[b] \in Devices \cup {None}
    BY <1>1, MemberTyping, Sorts
  <2>4. \A e \in At(a) : rec[e].addr = a
    BY FirstHolds DEF At
  <2>5. CASE b = a
    <3>1. CASE driver'[a] = driver[a] /\ kept' = kept
      BY <1>3, <1>5, <2>1, <2>2, <2>5, <3>1 DEF DriverIsOwn
    <3>2. CASE /\ kept[d] \in Tuya /\ driver'[a] = kept[d]
               /\ \A e \in At(a) : kept'[e] = kept[d]
      <4>1. kept[d] = d /\ rec[d].addr = a /\ d \in At(a)
        BY <1>9, <1>13, <2>5, <3>2, Sorts
      <4> QED BY <1>5, <2>2, <2>5, <3>2, <4>1 DEF DriverIsOwn
    <3> QED BY <1>8, <3>1, <3>2
  <2>6. CASE b = o
    BY <1>8, <2>2, <2>6 DEF DriverIsOwn
  <2>7. CASE b \notin {a, o}
    BY <1>5, <1>8, <2>1, <2>2, <2>3, <2>4, <2>7 DEF DriverIsOwn
  <2> QED BY <2>2, <2>5, <2>6, <2>7
<1>16. Tracking'
  BY <1>1, <1>4, <1>5, <1>9 DEF MemberInv, Tracking, Registered
<1>17. OneMover'
  BY <1>4 DEF MemberInv, OneMover
<1> QED BY <1>9, <1>10, <1>11, <1>12, <1>14, <1>15, <1>16, <1>17 DEF MemberInv

-------------------------------------------------------------------------------
(***************************************************************************)
(* A device that joins, moves or reports.                                  *)
(***************************************************************************)
\* A device gets another address, and nothing else of any record changes but
\* the tracked flags.
RecordMoves(d, a) ==
  /\ rec' \in [Devices -> Records] /\ rec'[d].addr = a
  /\ \A e \in Devices \ {d} : rec'[e].addr = rec[e].addr
  /\ \A e \in Devices : rec'[e].conv = rec[e].conv

\* A record without an address is empty.
EmptyRecords == \A d \in Devices : rec[d].addr = None => rec[d] = Absent

\* The tracker loses no device over the move of one of them, unless at an
\* address that two records share.
TrackerFollows(d, a) ==
  /\ \A e \in Devices \ {d} : rec[e].tracked => rec'[e].tracked \/ rec[e].addr \in loose
  /\ (\A e \in Devices : rec'[e].addr = a => e = d) => rec'[d].tracked

\* A device that is known and moves, as its record and the tracker show it.
LEMMA MoveRecordIs ==
  ASSUME MemberInv, NEW d \in Devices, NEW a \in Addrs, d \in Registered,
         MoveRecord(d, a)
  PROVE  RecordMoves(d, a) /\ EmptyRecords' /\ TrackerFollows(d, a)
<1>1. rec \in [Devices -> Records] /\ a # None
  BY MemberTyping, Sorts DEF MemberInv
<1>2. PICK o \in Addrs \cup {None} : o = rec[d].addr
  BY <1>1 DEF Records
<1>3. PICK q \in Records : q = [rec[d] EXCEPT !.addr = a] /\ q.addr = a /\ q.conv = rec[d].conv
  <2>1. \A p \in Records : /\ [p EXCEPT !.addr = a] \in Records
                           /\ [p EXCEPT !.addr = a].addr = a
                           /\ [p EXCEPT !.addr = a].conv = p.conv
    BY DEF Records
  <2> QED BY <1>1, <2>1
<1>4. PICK r \in [Devices -> Records] :
        /\ r = [rec EXCEPT ![d] = q]
        /\ r[d] = q /\ \A e \in Devices \ {d} : r[e] = rec[e]
  <2>1. /\ [rec EXCEPT ![d] = q] \in [Devices -> Records]
        /\ [rec EXCEPT ![d] = q][d] = q
        /\ \A e \in Devices \ {d} : [rec EXCEPT ![d] = q][e] = rec[e]
    BY <1>1
  <2> QED BY <2>1
<1>5. r = [rec EXCEPT ![d].addr = a]
  BY <1>3, <1>4
<1>6. r[d].addr = a /\ \A e \in Devices : r[e].conv = rec[e].conv
  BY <1>3, <1>4
<1>7. PICK off \in BOOLEAN, on \in BOOLEAN : off = FALSE /\ on = TRUE
  OBVIOUS
<1>8. PICK s \in [Devices -> Records] :
        /\ s = Track(r, o, off)
        /\ \A e \in Devices :
             /\ s[e].addr = r[e].addr /\ s[e].conv = r[e].conv
             /\ e \notin First(r, o) => s[e] = r[e]
  BY TrackKeeps
<1>9. /\ Track(s, a, on) \in [Devices -> Records]
      /\ \A e \in Devices :
           /\ Track(s, a, on)[e].addr = s[e].addr /\ Track(s, a, on)[e].conv = s[e].conv
           /\ e \notin First(s, a) => Track(s, a, on)[e] = s[e]
  BY TrackKeeps
<1>10. \A e \in Devices :
        Track(s, a, on)[e].tracked = IF e \in First(s, a) THEN on ELSE s[e].tracked
  BY TrackKeeps
<1>11. rec' = Track(s, a, on)
  BY <1>2, <1>5, <1>7, <1>8 DEF MoveRecord
<1>12. RecordMoves(d, a)
  <2>1. \A e \in Devices : rec'[e].addr = r[e].addr /\ rec'[e].conv = r[e].conv
    BY <1>8, <1>9, <1>11
  <2>2. rec' \in [Devices -> Records]
    BY <1>9, <1>11
  <2> QED BY <1>4, <1>6, <2>1, <2>2 DEF RecordMoves
<1>13. \A e \in Devices \ {d} :
        /\ e \in First(r, o) => rec[e].addr = o /\ o # None
        /\ e \in First(s, a) => rec[e].addr = a
  <2>1. \A e \in First(r, o) : o # None /\ r[e].addr = o
    BY FirstHolds
  <2>2. \A e \in First(s, a) : s[e].addr = a
    BY FirstHolds
  <2> QED BY <1>4, <1>8, <2>1, <2>2, ZenonT(60)
<1>14. \A e \in Devices \ {d} : rec[e].addr = None => rec'[e] = rec[e]
  <2> SUFFICES ASSUME NEW e \in Devices \ {d}, rec[e].addr = None PROVE rec'[e] = rec[e]
    OBVIOUS
  <2>1. e \notin First(r, o) /\ e \notin First(s, a)
    BY <1>1, <1>13
  <2>2. rec'[e] = s[e] /\ s[e] = r[e] /\ r[e] = rec[e]
    BY <1>4, <1>8, <1>9, <1>11, <2>1
  <2> QED BY <2>2
<1>15. \A e \in Devices \ {d} : rec[e].tracked => rec'[e].tracked \/ rec[e].addr \in loose
  <2> SUFFICES ASSUME NEW e \in Devices \ {d}, rec[e].tracked
               PROVE  rec'[e].tracked \/ rec[e].addr \in loose
    OBVIOUS
  <2>1. CASE e \in First(s, a)
    BY <1>7, <1>10, <1>11, <2>1
  <2>2. CASE e \in First(r, o)
    <3>1. rec[e].addr = rec[d].addr /\ rec[e].addr # None
      BY <1>2, <1>13, <2>2
    <3> QED BY <3>1 DEF MemberInv, Closed, Registered
  <2>3. CASE e \notin First(s, a) /\ e \notin First(r, o)
    <3>1. rec'[e] = s[e] /\ s[e] = r[e] /\ r[e] = rec[e]
      BY <1>4, <1>8, <1>9, <1>11, <2>3
    <3> QED BY <3>1
  <2> QED BY <2>1, <2>2, <2>3
<1>16. (\A e \in Devices : rec'[e].addr = a => e = d) => rec'[d].tracked
  <2> SUFFICES ASSUME \A e \in Devices : rec'[e].addr = a => e = d
               PROVE  rec'[d].tracked
    OBVIOUS
  <2>0. \A e \in Devices : rec'[e].addr = s[e].addr
    BY <1>9, <1>11
  <2>1. s[d].addr = a /\ \A e \in Devices : s[e].addr = a => e = d
    BY <1>12, <2>0 DEF RecordMoves
  <2>2. First(s, a) = {d}
    BY <1>1, <2>1, FirstAlone
  <2> QED BY <1>7, <1>10, <1>11, <2>2
<1>17. TrackerFollows(d, a)
  BY <1>15, <1>16 DEF TrackerFollows
<1>18. EmptyRecords'
  BY <1>1, <1>12, <1>14 DEF RecordMoves, MemberInv, OwnRecords, EmptyRecords, Absent
<1> QED BY <1>12, <1>17, <1>18

\* A task at work on the device that got an address was with another one.
LEMMA MoveRecordKeeps ==
  ASSUME MemberInv, NEW d \in Devices, NEW a \in Addrs, NEW report \in BOOLEAN,
         d \in Registered, AtRest("zigbee"), MoveRecord(d, a),
         Begin("zigbee", "rebind", d, rec[d].addr, a, report),
         UNCHANGED <<net, moves>>, Loosen("zigbee", d)
  PROVE  MemberInv'
<1>1. MemberTypeOK /\ "zigbee" \in Workers /\ handler["zigbee"] = NoHandler
  BY DEF MemberInv, Workers, AtRest
<1>2. PICK o \in Addrs : o = rec[d].addr /\ o # a /\ o # None
  BY <1>1, MemberTyping DEF Registered, Records, MoveRecord
<1>3. RecordMoves(d, a) /\ EmptyRecords' /\ TrackerFollows(d, a)
  BY MoveRecordIs
<1>4. /\ handler' \in [Workers -> Handlers]
      /\ \A u \in Workers \ {"zigbee"} : handler'[u] = handler[u]
      /\ handler'["zigbee"].pc = "rebind" /\ handler'["zigbee"].dev = d
      /\ handler'["zigbee"].old = o /\ handler'["zigbee"].new = a
  <2>1. Begin("zigbee", "rebind", d, o, a, report)
    BY <1>2
  <2> QED BY <1>1, <2>1, BeginRebind
<1>5. UNCHANGED <<net, bound, driver, kept, moves>>
  BY DEF MoveRecord
<1>6. /\ loose' \subseteq Addrs \cup Devices /\ loose \subseteq loose' /\ Closed'
      /\ \A u \in Workers \ {"zigbee"} : handler[u].dev = d =>
           {d} \cup Addresses(handler[u]) \subseteq loose'
  BY <1>1, <1>3, <1>4, LoosenKeeps DEF RecordMoves
<1>7. MemberTypeOK'
  BY <1>1, <1>3, <1>4, <1>5, <1>6, MemberTyping, MemberTypingNext DEF RecordMoves
<1>8. \A u \in Workers \ {"zigbee"} : Informed(handler[u])' /\ Cleared(handler[u])'
  <2> SUFFICES ASSUME NEW u \in Workers \ {"zigbee"}
               PROVE  Informed(handler[u])' /\ Cleared(handler[u])'
    OBVIOUS
  <2>1. ~Moving(handler[u])
    BY DEF MemberInv, OneMover
  <2>2. Informed(handler[u])'
    BY <1>3, <1>4, <1>6, <2>1, StaysInformed DEF RecordMoves
  <2>3. Cleared(handler[u])'
    BY <1>4, <1>5, <1>6, StaysCleared
  <2> QED BY <2>2, <2>3
<1>9. Informed(handler["zigbee"])' /\ Cleared(handler["zigbee"])'
  BY <1>2, <1>3, <1>4 DEF RecordMoves, Informed, Cleared, Moving, Cleaning
<1>10. OwnRecords'
  <2> SUFFICES ASSUME NEW e \in Devices
               PROVE  /\ rec'[e].addr = None => rec'[e] = Absent
                      /\ rec'[e].conv \in {None, e} \/ e \in loose'
                      /\ kept'[e] \in {None, e} \/ e \in loose'
    BY DEF OwnRecords, Absent
  <2> QED BY <1>3, <1>5, <1>6 DEF RecordMoves, MemberInv, OwnRecords, EmptyRecords, Absent
<1>11. OwnBindings'
  <2> SUFFICES ASSUME NEW b \in Addrs \ loose'
               PROVE  (ConverterIsOwn(b)' /\ DriverIsOwn(b)') \/ o = b
    BY <1>4 DEF OwnBindings, Moving
  <2>1. ConverterIsOwn(b) /\ DriverIsOwn(b)
    BY <1>1, <1>6, NoHandlerIs DEF MemberInv, OwnBindings, Moving
  <2>2. bound[b] \in Devices \cup {None} /\ driver[b] \in Devices \cup {None}
    BY <1>1, MemberTyping, Sorts
  <2>3. \A e \in Devices : rec[e].addr = b /\ b # o => rec'[e].addr = b
    BY <1>2, <1>3 DEF RecordMoves
  <2> QED BY <1>5, <2>1, <2>2, <2>3 DEF ConverterIsOwn, DriverIsOwn
<1>12. Tracking'
  <2> SUFFICES ASSUME NEW e \in Registered'
               PROVE  \/ rec'[e].tracked \/ rec'[e].addr \in loose'
                      \/ \E u \in Workers : handler'[u].pc = "remove" /\ handler'[u].dev = e
    BY DEF Tracking
  <2>1. e \in Devices /\ rec'[e].addr # None
    BY DEF Registered
  <2>2. CASE e = d
    <3>1. d \in Registered'
      BY <2>2
    <3>2. a \in loose' \/ \A f \in Devices : rec'[f].addr = a => f = d
      BY <1>3, <1>6, <2>1, <2>2, <3>1 DEF RecordMoves, Closed, Registered
    <3> QED BY <1>3, <2>2, <3>2 DEF RecordMoves, TrackerFollows
  <2>3. CASE e # d
    <3>1. rec'[e].addr = rec[e].addr /\ e \in Registered
      BY <1>3, <2>1, <2>3 DEF RecordMoves, Registered
    <3>2. \/ rec[e].tracked \/ rec[e].addr \in loose
          \/ \E u \in Workers \ {"zigbee"} : handler[u].pc = "remove" /\ handler[u].dev = e
      BY <1>1, <3>1, NoHandlerIs DEF MemberInv, Tracking
    <3> QED BY <1>3, <1>4, <1>6, <2>1, <2>3, <3>1, <3>2 DEF TrackerFollows
  <2> QED BY <2>2, <2>3
<1>13. OneMover'
  BY <1>4 DEF MemberInv, OneMover
<1> QED BY <1>6, <1>7, <1>8, <1>9, <1>10, <1>11, <1>12, <1>13 DEF MemberInv

\* The first record of a device.
LEMMA NewcomerKeeps ==
  ASSUME MemberInv, NEW d \in Devices, NEW a \in Addrs, NEW n \in Slots,
         d \notin Registered, AtRest("zigbee"),
         rec' = Track([rec EXCEPT ![d].addr = a, ![d].slot = n], a, TRUE),
         UNCHANGED <<net, bound, driver, kept, handler, moves>>, Loosen("zigbee", d)
  PROVE  MemberInv'
<1>1. /\ MemberTypeOK /\ "zigbee" \in Workers /\ handler["zigbee"] = NoHandler /\ a # None
      /\ rec \in [Devices -> Records]
  BY MemberTyping, Sorts DEF MemberInv, Workers, AtRest
<1>2. rec[d].addr = None /\ rec[d].conv = None
  BY DEF Registered, MemberInv, OwnRecords, Absent
<1>3. PICK q \in Records :
        /\ q = [[rec[d] EXCEPT !.addr = a] EXCEPT !.slot = n]
        /\ q.addr = a /\ q.conv = rec[d].conv
  <2>1. \A p \in Records : /\ [[p EXCEPT !.addr = a] EXCEPT !.slot = n] \in Records
                           /\ [[p EXCEPT !.addr = a] EXCEPT !.slot = n].addr = a
                           /\ [[p EXCEPT !.addr = a] EXCEPT !.slot = n].conv = p.conv
    BY DEF Records
  <2> QED BY <1>1, <2>1
<1>4. PICK r \in [Devices -> Records] :
        /\ r = [rec EXCEPT ![d] = q]
        /\ r[d] = q /\ \A e \in Devices \ {d} : r[e] = rec[e]
  <2>1. /\ [rec EXCEPT ![d] = q] \in [Devices -> Records]
        /\ [rec EXCEPT ![d] = q][d] = q
        /\ \A e \in Devices \ {d} : [rec EXCEPT ![d] = q][e] = rec[e]
    BY <1>1
  <2> QED BY <2>1
<1>5. r = [rec EXCEPT ![d].addr = a, ![d].slot = n]
  BY <1>1, <1>3, <1>4
<1>6. PICK on \in BOOLEAN : on = TRUE
  OBVIOUS
<1>7. /\ Track(r, a, on) \in [Devices -> Records]
      /\ \A e \in Devices :
           /\ Track(r, a, on)[e].addr = r[e].addr /\ Track(r, a, on)[e].conv = r[e].conv
           /\ e \notin First(r, a) => Track(r, a, on)[e] = r[e]
  BY TrackKeeps
<1>8. \A e \in Devices :
        Track(r, a, on)[e].tracked = IF e \in First(r, a) THEN on ELSE r[e].tracked
  BY TrackKeeps
<1>9. rec' = Track(r, a, on)
  BY <1>5, <1>6
<1>10. RecordMoves(d, a)
  <2>1. \A e \in Devices : rec'[e].addr = r[e].addr /\ rec'[e].conv = r[e].conv
    BY <1>7, <1>9
  <2>2. rec' \in [Devices -> Records]
    BY <1>7, <1>9
  <2> QED BY <1>3, <1>4, <2>1, <2>2 DEF RecordMoves
<1>11. EmptyRecords'
  <2> SUFFICES ASSUME NEW e \in Devices, rec'[e].addr = None PROVE rec'[e] = Absent
    BY DEF EmptyRecords, Absent
  <2>1. e # d /\ rec[e].addr = None
    BY <1>1, <1>10 DEF RecordMoves
  <2>2. \A f \in First(r, a) : r[f].addr = a
    BY FirstHolds
  <2>3. e \notin First(r, a)
    BY <1>1, <1>4, <2>1, <2>2
  <2>4. rec'[e] = r[e] /\ r[e] = rec[e]
    BY <1>4, <1>7, <1>9, <2>1, <2>3
  <2> QED BY <2>1, <2>4 DEF MemberInv, OwnRecords
<1>12. TrackerFollows(d, a)
  <2>1. \A e \in Devices \ {d} : rec[e].tracked => rec'[e].tracked \/ rec[e].addr \in loose
    <3> SUFFICES ASSUME NEW e \in Devices \ {d}, rec[e].tracked PROVE rec'[e].tracked
      OBVIOUS
    <3>1. CASE e \in First(r, a)
      BY <1>6, <1>8, <1>9, <3>1
    <3>2. CASE e \notin First(r, a)
      <4>1. rec'[e] = r[e] /\ r[e] = rec[e]
        BY <1>4, <1>7, <1>9, <3>2, ZenonT(60)
      <4> QED BY <4>1
    <3> QED BY <3>1, <3>2
  <2>2. (\A e \in Devices : rec'[e].addr = a => e = d) => rec'[d].tracked
    <3> SUFFICES ASSUME \A e \in Devices : rec'[e].addr = a => e = d
                 PROVE  rec'[d].tracked
      OBVIOUS
    <3>1. \A e \in Devices : rec'[e].addr = r[e].addr
      BY <1>7, <1>9
    <3>2. r[d].addr = a /\ \A e \in Devices : r[e].addr = a => e = d
      BY <1>10, <3>1 DEF RecordMoves
    <3>3. First(r, a) = {d}
      BY <1>1, <3>2, FirstAlone
    <3> QED BY <1>6, <1>8, <1>9, <3>3
  <2> QED BY <2>1, <2>2 DEF TrackerFollows
<1>13. /\ loose' \subseteq Addrs \cup Devices /\ loose \subseteq loose' /\ Closed'
       /\ \A u \in Workers \ {"zigbee"} : handler[u].dev = d =>
            {d} \cup Addresses(handler[u]) \subseteq loose'
  <2>1. handler' \in [Workers -> Handlers]
    BY <1>1, MemberTyping
  <2> QED BY <1>1, <1>10, <2>1, LoosenKeeps DEF RecordMoves
<1>14. MemberTypeOK'
  BY <1>1, <1>10, <1>13, MemberTyping, MemberTypingNext DEF RecordMoves
<1>15. \A u \in Workers : Informed(handler[u])' /\ Cleared(handler[u])'
  <2> SUFFICES ASSUME NEW u \in Workers PROVE Informed(handler[u])' /\ Cleared(handler[u])'
    OBVIOUS
  <2>1. ~Moving(handler[u])
    BY <1>1, NoHandlerIs DEF MemberInv, OneMover
  <2>2. Informed(handler[u])'
    <3>1. CASE u = "zigbee"
      BY <1>1, <3>1, NoHandlerIs DEF Informed
    <3>2. CASE u # "zigbee"
      <4>1. handler'[u] = handler[u] /\ loose \subseteq loose'
        BY <1>13
      <4>2. \A e \in Devices : rec'[e].addr = rec[e].addr \/ e = d
        BY <1>10 DEF RecordMoves
      <4>3. handler[u].dev = d => {d} \cup Addresses(handler[u]) \subseteq loose'
        BY <1>13, <3>2
      <4>4. \A e \in Devices :
              \/ rec'[e].addr = rec[e].addr
              \/ handler[u].dev = e =>
                   /\ {e} \cup Addresses(handler[u]) \subseteq loose'
                   /\ rec'[e].addr = None \/ ~Moving(handler[u])
        BY <2>1, <4>2, <4>3
      <4> QED BY <4>1, <4>4, StaysInformed
    <3> QED BY <3>1, <3>2
  <2>3. Cleared(handler[u])'
    BY <1>13, StaysCleared
  <2> QED BY <2>2, <2>3
<1>16. OwnRecords'
  BY <1>10, <1>11, <1>13 DEF RecordMoves, MemberInv, OwnRecords, EmptyRecords, Absent
<1>17. OwnBindings'
  <2> SUFFICES ASSUME NEW b \in Addrs \ loose'
               PROVE  ConverterIsOwn(b)' /\ DriverIsOwn(b)'
    BY DEF OwnBindings
  <2>1. ConverterIsOwn(b) /\ DriverIsOwn(b)
    BY <1>1, <1>13, NoHandlerIs DEF MemberInv, OwnBindings, Moving
  <2>2. bound[b] \in Devices \cup {None} /\ driver[b] \in Devices \cup {None}
    BY <1>1, MemberTyping, Sorts
  <2>3. \A e \in Devices : rec[e].addr = b => rec'[e].addr = b
    BY <1>2, <1>10, Sorts DEF RecordMoves
  <2> QED BY <2>1, <2>2, <2>3 DEF ConverterIsOwn, DriverIsOwn
<1>18. Tracking'
  <2> SUFFICES ASSUME NEW e \in Registered'
               PROVE  \/ rec'[e].tracked \/ rec'[e].addr \in loose'
                      \/ \E u \in Workers : handler'[u].pc = "remove" /\ handler'[u].dev = e
    BY DEF Tracking
  <2>1. e \in Devices /\ rec'[e].addr # None
    BY DEF Registered
  <2>2. CASE e = d
    <3>1. d \in Registered'
      BY <2>2
    <3>2. a \in loose' \/ \A f \in Devices : rec'[f].addr = a => f = d
      <4> SUFFICES ASSUME NEW f \in Devices, rec'[f].addr = a, f # d PROVE a \in loose'
        OBVIOUS
      <4>1. rec'[d].addr = a /\ f \in Registered'
        BY <1>1, <1>10 DEF RecordMoves, Registered
      <4> QED BY <1>13, <3>1, <4>1, ZenonT(60) DEF Closed
    <3> QED BY <1>10, <1>12, <2>2, <3>2 DEF RecordMoves, TrackerFollows
  <2>3. CASE e # d
    <3>1. rec'[e].addr = rec[e].addr /\ e \in Registered
      BY <1>10, <2>1, <2>3 DEF RecordMoves, Registered
    <3>2. \/ rec[e].tracked \/ rec[e].addr \in loose
          \/ \E u \in Workers : handler[u].pc = "remove" /\ handler[u].dev = e
      BY <3>1 DEF MemberInv, Tracking
    <3> QED BY <1>12, <1>13, <2>1, <2>3, <3>1, <3>2 DEF TrackerFollows
  <2> QED BY <2>2, <2>3
<1>19. OneMover'
  BY DEF MemberInv, OneMover
<1> QED BY <1>13, <1>14, <1>15, <1>16, <1>17, <1>18, <1>19 DEF MemberInv

LEMMA DeviceJoinKeeps ==
  ASSUME MemberInv, NEW d \in Devices, zb_callback_device_join(d)
  PROVE  MemberInv'
<1>1. PICK a \in Addrs : a = net[d]
  BY MemberTyping DEF MemberInv, zb_callback_device_join
<1>2. AtRest("zigbee") /\ UNCHANGED <<net, moves>> /\ Loosen("zigbee", d)
  BY DEF zb_callback_device_join
<1>3. CASE /\ d \in Registered /\ MoveRecord(d, net[d])
           /\ Begin("zigbee", "rebind", d, rec[d].addr, net[d], FALSE)
  <2>1. PICK report \in BOOLEAN : report = FALSE
    OBVIOUS
  <2>2. MoveRecord(d, a) /\ Begin("zigbee", "rebind", d, rec[d].addr, a, report)
    BY <1>1, <1>3, <2>1
  <2> QED BY <1>2, <1>3, <2>2, MoveRecordKeeps
<1>4. CASE d \notin Registered
  <2>1. PICK n \in FreeSlots :
          rec' = Track([rec EXCEPT ![d].addr = a, ![d].slot = n], a, TRUE)
    BY <1>1, <1>4 DEF zb_callback_device_join
  <2>2. n \in Slots
    BY DEF FreeSlots
  <2>3. UNCHANGED <<net, bound, driver, kept, handler, moves>>
    BY <1>4 DEF zb_callback_device_join
  <2> QED BY <1>2, <1>4, <2>1, <2>2, <2>3, NewcomerKeeps
<1> QED BY <1>3, <1>4 DEF zb_callback_device_join

LEMMA ReportKeeps == ASSUME MemberInv, NEW d \in Devices, Report(d) PROVE MemberInv'
<1>1. PICK a \in Addrs : a = net[d] /\ a # None
  BY MemberTyping DEF MemberInv, Report
<1>2. AtRest("zigbee") /\ UNCHANGED <<net, moves>> /\ Loosen("zigbee", d)
  BY DEF Report
<1>3. CASE At(a) = {} /\ d \in Registered
  <2>1. PICK report \in BOOLEAN : report = TRUE
    OBVIOUS
  <2>2. MoveRecord(d, a) /\ Begin("zigbee", "rebind", d, rec[d].addr, a, report)
    BY <1>1, <1>3, <2>1 DEF Report
  <2> QED BY <1>2, <1>3, <2>2, MoveRecordKeeps
<1>4. CASE ~(At(a) = {} /\ d \in Registered)
  <2>1. /\ MemberTypeOK /\ "zigbee" \in Workers /\ handler["zigbee"] = NoHandler
    BY <1>2 DEF MemberInv, Workers, AtRest
  <2>2. /\ rec' = Track(rec, a, TRUE)
        /\ Begin("zigbee", "interpret", d, None, a, TRUE)
        /\ UNCHANGED <<net, bound, driver, kept, moves>>
    BY <1>1, <1>2, <1>4 DEF Report
  <2>3. /\ handler' \in [Workers -> Handlers]
        /\ \A u \in Workers \ {"zigbee"} : handler'[u] = handler[u]
        /\ handler'["zigbee"].pc = "interpret" /\ handler'["zigbee"].new = a
        /\ handler'["zigbee"].dev = d
    BY <2>1, <2>2, BeginInterpret, ZenonT(60)
  <2>4. /\ rec' \in [Devices -> Records]
        /\ \A e \in Devices :
             /\ rec'[e].addr = rec[e].addr /\ rec'[e].conv = rec[e].conv
             /\ e \notin First(rec, a) => rec'[e] = rec[e]
             /\ rec[e].tracked => rec'[e].tracked
    <3>1. PICK r \in [Devices -> Records], on \in BOOLEAN : r = rec /\ on = TRUE
      BY <2>1, MemberTyping
    <3>2. /\ Track(r, a, on) \in [Devices -> Records]
          /\ \A e \in Devices :
               /\ Track(r, a, on)[e].addr = r[e].addr
               /\ Track(r, a, on)[e].conv = r[e].conv
               /\ e \notin First(r, a) => Track(r, a, on)[e] = r[e]
      BY TrackKeeps
    <3>3. \A e \in Devices :
            Track(r, a, on)[e].tracked = IF e \in First(r, a) THEN on ELSE r[e].tracked
      BY TrackKeeps
    <3>4. rec' = Track(r, a, on)
      BY <2>2, <3>1
    <3>5. \A e \in Devices : rec[e].tracked => rec'[e].tracked
      BY <3>1, <3>3, <3>4
    <3> QED BY <3>1, <3>2, <3>4, <3>5
  <2>5. loose' \subseteq Addrs \cup Devices /\ loose \subseteq loose' /\ Closed'
    BY <1>2, <2>1, <2>3, <2>4, LoosenKeeps
  <2>6. MemberTypeOK'
    BY <2>1, <2>2, <2>3, <2>4, <2>5, MemberTyping, MemberTypingNext
  <2>7. \A u \in Workers \ {"zigbee"} : Informed(handler[u])' /\ Cleared(handler[u])'
    BY <2>2, <2>3, <2>4, <2>5, StaysInformed, StaysCleared
  <2>8. Informed(handler["zigbee"])' /\ Cleared(handler["zigbee"])'
    BY <2>3 DEF Informed, Cleared, Moving, Cleaning
  <2>9. OwnRecords'
    <3> SUFFICES ASSUME NEW e \in Devices
                 PROVE  /\ rec'[e].addr = None => rec'[e] = Absent
                        /\ rec'[e].conv \in {None, e} \/ e \in loose'
                        /\ kept'[e] \in {None, e} \/ e \in loose'
      BY DEF OwnRecords, Absent
    <3>1. rec[e].addr = None => e \notin First(rec, a)
      BY <1>1, FirstHolds
    <3> QED BY <2>2, <2>4, <2>5, <3>1 DEF MemberInv, OwnRecords
  <2>10. OwnBindings'
    <3> SUFFICES ASSUME NEW b \in Addrs \ loose'
                 PROVE  ConverterIsOwn(b)' /\ DriverIsOwn(b)'
      BY DEF OwnBindings
    <3>1. ConverterIsOwn(b) /\ DriverIsOwn(b)
      BY <2>1, <2>5, NoHandlerIs DEF MemberInv, OwnBindings, Moving
    <3>2. bound[b] \in Devices \cup {None} /\ driver[b] \in Devices \cup {None}
      BY <2>1, MemberTyping, Sorts
    <3> QED BY <2>2, <2>4, <3>1, <3>2 DEF ConverterIsOwn, DriverIsOwn
  <2>11. Tracking'
    <3> SUFFICES ASSUME NEW e \in Registered'
                 PROVE  \/ rec'[e].tracked \/ rec'[e].addr \in loose'
                        \/ \E u \in Workers : handler'[u].pc = "remove" /\ handler'[u].dev = e
      BY DEF Tracking
    <3>1. e \in Registered /\ e \in Devices
      BY <2>4 DEF Registered
    <3>2. \/ rec[e].tracked \/ rec[e].addr \in loose
          \/ \E u \in Workers \ {"zigbee"} : handler[u].pc = "remove" /\ handler[u].dev = e
      BY <2>1, <3>1, NoHandlerIs DEF MemberInv, Tracking
    <3> QED BY <2>3, <2>4, <2>5, <3>1, <3>2
  <2>12. OneMover'
    BY <2>3 DEF MemberInv, OneMover
  <2> QED BY <2>5, <2>6, <2>7, <2>8, <2>9, <2>10, <2>11, <2>12 DEF MemberInv
<1> QED BY <1>3, <1>4

-------------------------------------------------------------------------------
\* At boot every record has an address and a slot of its own, nothing is loose
\* and no task is at work.
LEMMA MemberInitially == MemberInit => MemberInv
<1> SUFFICES ASSUME MemberInit PROVE MemberInv
  OBVIOUS
<1>1. PICK place \in [Devices -> Addrs \cup {None}], slot \in [Devices -> Slots \cup {0}] :
        Restored(place, slot)
  BY DEF MemberInit
<1>2. /\ driver = [a \in Addrs |-> None] /\ kept = [d \in Devices |-> None]
      /\ handler = [t \in Workers |-> NoHandler] /\ loose = {} /\ moves = 0
  BY DEF MemberInit
<1>3. /\ net = place
      /\ rec = [d \in Devices |->
                  IF place[d] = None THEN Absent
                  ELSE [addr |-> place[d], slot |-> slot[d], conv |-> d, tracked |-> TRUE]]
      /\ bound \in [Addrs -> Devices \cup {None}]
      /\ \A a \in Addrs : bound[a] # None => place[bound[a]] = a
      /\ \A d, e \in Devices : place[d] = place[e] /\ place[d] # None => d = e
  BY <1>1 DEF Restored, Unique
<1>4. Absent \in Records /\ Absent.addr = None /\ Absent.conv = None
  BY DEF Absent, Records
<1>5. ASSUME NEW d \in Devices
      PROVE  /\ rec[d] \in Records /\ rec[d].addr = place[d]
             /\ rec[d].addr = None => rec[d] = Absent
             /\ rec[d].conv \in {None, d}
  <2>1. CASE place[d] = None
    BY <1>3, <1>4, <2>1
  <2>2. CASE place[d] # None
    <3>1. rec[d] = [addr |-> place[d], slot |-> slot[d], conv |-> d, tracked |-> TRUE]
      BY <1>3, <2>2
    <3>2. place[d] \in Addrs \cup {None} /\ slot[d] \in Slots \cup {0}
      OBVIOUS
    <3> QED BY <2>2, <3>1, <3>2 DEF Records
  <2> QED BY <2>1, <2>2
<1>6. ASSUME NEW d \in Devices, rec[d].addr # None
      PROVE  rec[d].tracked
  <2>1. rec[d] = [addr |-> place[d], slot |-> slot[d], conv |-> d, tracked |-> TRUE]
    BY <1>3, <1>5, <1>6
  <2> QED BY <2>1
<1>7. MemberTypeOK
  <2>1. rec \in [Devices -> Records]
    BY <1>3, <1>5
  <2>2. NoHandler \in Handlers
    BY DEF NoHandler, Handlers
  <2>3. handler \in [Workers -> Handlers]
    BY <1>2, <2>2
  <2>4. /\ driver \in [Addrs -> Tuya \cup {None}] /\ kept \in [Devices -> Tuya \cup {None}]
        /\ moves \in 0 .. MaxMoves
    BY <1>2, Sorts
  <2> QED BY <1>2, <1>3, <2>1, <2>3, <2>4, MemberTyping
<1>8. Closed
  BY <1>2, <1>3, <1>5, ZenonT(60) DEF Closed, Registered
<1>9. \A t \in Workers : handler[t] = NoHandler
  BY <1>2
<1>10. OneMover /\ \A t \in Workers : Informed(handler[t]) /\ Cleared(handler[t])
  BY <1>9 DEF OneMover, Informed, Cleared, NoHandler, Moving, Cleaning
<1>11. OwnRecords
  BY <1>2, <1>5 DEF OwnRecords
<1>12. OwnBindings
  <2> SUFFICES ASSUME NEW a \in Addrs PROVE ConverterIsOwn(a) /\ DriverIsOwn(a)
    BY DEF OwnBindings
  <2>1. driver[a] = None /\ bound[a] \in Devices \cup {None}
    BY <1>2, <1>3
  <2> QED BY <1>3, <1>5, <2>1 DEF ConverterIsOwn, DriverIsOwn
<1>13. Tracking
  BY <1>6 DEF Tracking, Registered
<1> QED BY <1>7, <1>8, <1>10, <1>11, <1>12, <1>13 DEF MemberInv

LEMMA MemberStutter == ASSUME MemberInv, UNCHANGED memberVars PROVE MemberInv'
BY DEF MemberInv, MemberTypeOK, Closed, OneMover, Informed, Cleared, OwnRecords,
       OwnBindings, Tracking, Registered, ConverterIsOwn, DriverIsOwn, Moving,
       Cleaning, memberVars, tables

\* Every step keeps the invariant.
LEMMA MemberStep == MemberInv /\ [MemberNext]_memberVars => MemberInv'
<1> SUFFICES ASSUME MemberInv, [MemberNext]_memberVars PROVE MemberInv'
  OBVIOUS
<1>1. CASE Network
  BY <1>1, NetworkKeeps
<1>2. CASE \E d \in Devices : zb_callback_device_join(d) \/ Report(d) \/ LeaveIndication(d)
  BY <1>2, DeviceJoinKeeps, ReportKeeps, LeaveIndicationKeeps
<1>3. CASE Rebind
  BY <1>3, RebindKeeps
<1>4. CASE Redrive
  BY <1>4, RedriveKeeps
<1>5. CASE Interpret
  BY <1>5, InterpretKeeps
<1>6. CASE \E t \in Workers :
             Unbind(t) \/ Undrive(t) \/ device_registry_remove(t) \/ Found(t)
  BY <1>6, UnbindKeeps, UndriveKeeps, RegistryRemoveKeeps, FoundKeeps
<1>7. CASE \E a \in Addrs : InterviewDone(a) \/ try_lazy_bind(a)
  BY <1>7, InterviewDoneKeeps, TryLazyBindKeeps
<1>8. CASE \E d \in Devices : Remove(d)
  BY <1>8, RemoveKeeps
<1>9. CASE UNCHANGED memberVars
  BY <1>9, MemberStutter
<1> QED BY <1>1, <1>2, <1>3, <1>4, <1>5, <1>6, <1>7, <1>8, <1>9
        DEF MemberNext, Signal, Step, Cleanup

LEMMA MemberInvariance == MemberSpec => []MemberInv
<1>1. MemberInit => MemberInv
  BY MemberInitially
<1>2. MemberInv /\ [MemberNext]_memberVars => MemberInv'
  BY MemberStep
<1> QED BY <1>1, <1>2, PTL DEF MemberSpec

\* The registry's records, the tables of bindings and the handlers under way
\* hold what their types say.
THEOREM MemberTypeCorrect == MemberSpec => []MemberTypeOK
<1>1. MemberInv => MemberTypeOK
  BY DEF MemberInv
<1> QED BY <1>1, MemberInvariance, PTL

(***************************************************************************)
(* While no task is at work, what is bound at an address that is not loose *)
(* is of a device with that address, however often devices moved, left and *)
(* came back and whatever the remover and an interview did meanwhile.      *)
(***************************************************************************)
THEOREM BindingsStayOwn == MemberSpec => []BindingsAreOwn
<1>1. MemberInv => BindingsAreOwn
  <2> SUFFICES ASSUME MemberInv, NEW a \in Addrs, Clean(a)
               PROVE  ConverterIsOwn(a) /\ DriverIsOwn(a)
    BY DEF BindingsAreOwn
  <2>1. handler["zigbee"] = NoHandler /\ a \in Addrs \ loose
    BY DEF Clean, Quiet, AtRest, Workers
  <2> QED BY <2>1, NoHandlerIs DEF MemberInv, OwnBindings, Moving
<1> QED BY <1>1, MemberInvariance, PTL

(***************************************************************************)
(* No device of the registry is lost to the tracker: while no task is at   *)
(* work, a device at an address that is not loose is tracked.              *)
(***************************************************************************)
THEOREM NoDeviceIsLost == MemberSpec => []AllTracked
<1>1. MemberInv => AllTracked
  <2> SUFFICES ASSUME MemberInv, NEW d \in Registered, Clean(rec[d].addr)
               PROVE  rec[d].tracked
    BY DEF AllTracked
  <2>1. rec[d].addr \notin loose /\ \A t \in Workers : handler[t].pc # "remove"
    BY NoHandlerIs DEF Clean, Quiet, AtRest
  <2> QED BY <2>1 DEF MemberInv, Tracking
<1> QED BY <1>1, MemberInvariance, PTL

-------------------------------------------------------------------------------
\* A step begins to interpret a report only as Report or as Redrive.
LEMMA InterpretBegins ==
  ASSUME MemberInv, MemberNext,
         handler'["zigbee"].pc = "interpret", handler["zigbee"].pc # "interpret"
  PROVE  Redrive \/ \E d \in Devices : Report(d)
<1>1. MemberTypeOK /\ "zigbee" \in Workers /\ handler \in [Workers -> Handlers]
  BY MemberTyping DEF MemberInv, Workers
<1>2. handler'["zigbee"] # handler["zigbee"]
  OBVIOUS
<1>3. ~Network
  BY <1>2 DEF Network, Move, Vanish
<1>4. ASSUME NEW t \in Workers, NEW d, NEW old, NEW new, NEW report,
             NEW pc \in {"rebind", "find", "unbind"}
      PROVE  ~Begin(t, pc, d, old, new, report)
  <2> DEFINE j == [pc |-> pc, dev |-> d, old |-> old, new |-> new, report |-> report]
  <2> SUFFICES ASSUME handler' = [handler EXCEPT ![t] = j] PROVE FALSE
    BY DEF Begin
  <2>1. handler'["zigbee"] = IF t = "zigbee" THEN j ELSE handler["zigbee"]
    BY <1>1
  <2>2. j.pc = pc
    OBVIOUS
  <2> QED BY <1>2, <2>1, <2>2
<1>5. ASSUME NEW d \in Devices PROVE ~zb_callback_device_join(d)
  <2> SUFFICES ASSUME zb_callback_device_join(d) PROVE FALSE
    OBVIOUS
  <2>1. PICK old, new : old = rec[d].addr /\ new = net[d]
    OBVIOUS
  <2>2. "zigbee" \in Workers /\ Begin("zigbee", "rebind", d, old, new, FALSE)
    BY <1>1, <1>2, <2>1 DEF zb_callback_device_join
  <2> QED BY <1>4, <2>2
<1>6. ASSUME NEW d \in Devices PROVE ~LeaveIndication(d)
  <2> SUFFICES ASSUME LeaveIndication(d) PROVE FALSE
    OBVIOUS
  <2>1. PICK old : old = net[d]
    OBVIOUS
  <2>2. "zigbee" \in Workers /\ Begin("zigbee", "unbind", d, old, None, FALSE)
    BY <1>1, <1>2, <2>1 DEF LeaveIndication
  <2> QED BY <1>4, <2>2
<1>7. ASSUME NEW d \in Devices PROVE ~Remove(d)
  <2> SUFFICES ASSUME Remove(d) PROVE FALSE
    OBVIOUS
  <2>1. PICK old : old = rec[d].addr
    OBVIOUS
  <2>2. "remover" \in Workers /\ Begin("remover", "unbind", d, old, None, FALSE)
    BY <2>1 DEF Remove, Workers
  <2> QED BY <1>4, <2>2
<1>8. ASSUME NEW a \in Addrs PROVE ~InterviewDone(a) /\ ~try_lazy_bind(a)
  <2>1. "interview" \in Workers
    BY DEF Workers
  <2>2. ~InterviewDone(a)
    BY <1>4, <2>1 DEF InterviewDone, Find
  <2> QED BY <1>2, <2>2 DEF try_lazy_bind
<1>9. ASSUME NEW t \in Workers, NEW pc \in {"redrive", "undrive", "remove"} PROVE ~Goto(t, pc)
  <2> SUFFICES ASSUME Goto(t, pc) PROVE FALSE
    OBVIOUS
  <2>1. \A u \in Workers : handler'[u] = handler[u] \/ handler'[u].pc = pc
    BY <1>1, GotoIs
  <2> QED BY <1>1, <1>2, <2>1
<1>10. ASSUME NEW t \in Workers PROVE ~End(t)
  <2> SUFFICES ASSUME End(t) PROVE FALSE
    OBVIOUS
  <2>1. \A u \in Workers : handler'[u] = handler[u] \/ handler'[u] = NoHandler
    BY <1>1, EndIs
  <2> QED BY <1>1, <1>2, <2>1, NoHandlerIs
<1>11. ~Rebind
  BY <1>1, <1>9 DEF Rebind
<1>12. ~Interpret
  BY DEF Interpret
<1>13. ASSUME NEW t \in Workers
       PROVE  ~Unbind(t) /\ ~Undrive(t) /\ ~device_registry_remove(t) /\ ~Found(t)
  BY <1>9, <1>10 DEF Unbind, Undrive, device_registry_remove, Found
<1> QED BY <1>3, <1>5, <1>6, <1>7, <1>8, <1>11, <1>12, <1>13
        DEF MemberNext, Signal, Step, Cleanup

(***************************************************************************)
(* The Zigbee task begins to interpret a report with the record of its     *)
(* device at the address it came from, or with that of another device that *)
(* holds the address, also when the device moved unnoticed.                *)
(***************************************************************************)
THEOREM ReportsFindRecords == MemberSpec => ReportFindsRecord
<1> DEFINE Finds ==
      LET j == handler'["zigbee"] IN
      Interpreting(j) /\ ~Interpreting(handler["zigbee"]) /\ rec'[j.dev].addr # None =>
        rec'[j.dev].addr = j.new \/ Holders(rec', j.new) \ {j.dev} # {}
<1>1. ASSUME MemberInv, MemberNext PROVE Finds
  <2> SUFFICES ASSUME handler'["zigbee"].pc = "interpret", handler["zigbee"].pc # "interpret",
                      rec'[handler'["zigbee"].dev].addr # None
               PROVE  \/ rec'[handler'["zigbee"].dev].addr = handler'["zigbee"].new
                      \/ Holders(rec', handler'["zigbee"].new) \ {handler'["zigbee"].dev} # {}
    BY DEF Interpreting
  <2>1. CASE Redrive
    <3>1. Moving(handler["zigbee"]) /\ rec' = rec
      BY <2>1 DEF Redrive, Moving
    <3>2. /\ handler'["zigbee"].dev = handler["zigbee"].dev
          /\ handler'["zigbee"].new = handler["zigbee"].new
      BY <1>1, <2>1, RedriveEnds, NoHandlerIs
    <3> QED BY <1>1, <3>1, <3>2, MovingIs
  <2>2. ASSUME NEW d \in Devices, Report(d)
        PROVE  \/ rec'[handler'["zigbee"].dev].addr = handler'["zigbee"].new
               \/ Holders(rec', handler'["zigbee"].new) \ {handler'["zigbee"].dev} # {}
    <3>1. PICK a \in Addrs : a = net[d] /\ a # None
      BY <1>1, <2>2, MemberTyping DEF MemberInv, Report
    <3>2. /\ MemberTypeOK /\ "zigbee" \in Workers
          /\ handler \in [Workers -> Handlers] /\ rec \in [Devices -> Records]
      BY <1>1, MemberTyping DEF MemberInv, Workers
    <3>3. ~(At(a) = {} /\ d \in Registered)
      <4> SUFFICES ASSUME At(a) = {}, d \in Registered PROVE FALSE
        OBVIOUS
      <4>1. PICK o \in Addrs \cup {None} : o = rec[d].addr
        BY <3>2 DEF Records
      <4>2. PICK report \in BOOLEAN : report = TRUE
        OBVIOUS
      <4>3. Begin("zigbee", "rebind", d, o, a, report)
        BY <2>2, <3>1, <4>1, <4>2 DEF Report
      <4> DEFINE j == [pc |-> "rebind", dev |-> d, old |-> o, new |-> a, report |-> report]
      <4>4. handler' = [handler EXCEPT !["zigbee"] = j]
        BY <4>3 DEF Begin
      <4>5. handler'["zigbee"] = j
        BY <3>2, <4>4
      <4>6. j.pc = "rebind"
        OBVIOUS
      <4> QED BY <4>5, <4>6
    <3>4. rec' = Track(rec, a, TRUE) /\ Begin("zigbee", "interpret", d, None, a, TRUE)
      BY <2>2, <3>1, <3>3 DEF Report
    <3>5. handler'["zigbee"].dev = d /\ handler'["zigbee"].new = a
      BY <3>2, <3>4, BeginInterpret
    <3>6. \A e \in Devices : rec'[e].addr = rec[e].addr
      <4>1. PICK r \in [Devices -> Records], on \in BOOLEAN : r = rec /\ on = TRUE
        BY <3>2
      <4>2. \A e \in Devices : Track(r, a, on)[e].addr = r[e].addr
        BY TrackKeeps
      <4>3. rec' = Track(r, a, on)
        BY <3>4, <4>1
      <4> QED BY <4>1, <4>2, <4>3
    <3>7. PICK e \in At(a) : TRUE
      BY <3>3, <3>5, <3>6 DEF Registered
    <3>8. e \in Devices /\ rec[e].addr = a
      BY FirstHolds DEF At
    <3> QED BY <3>1, <3>5, <3>6, <3>8 DEF Holders
  <2> QED BY <1>1, <2>1, <2>2, InterpretBegins
<1>2. ASSUME UNCHANGED memberVars PROVE Finds
  BY <1>2 DEF memberVars, Interpreting
<1>3. MemberInv /\ [MemberNext]_memberVars => [Finds]_memberVars
  BY <1>1
<1> QED BY <1>3, MemberInvariance, PTL DEF MemberSpec, ReportFindsRecord
-------------------------------------------------------------------------------
(***************************************************************************)
(* The sizes of the tables.                                                *)
(***************************************************************************)
\* Most steps give nobody another slot, and register and remove nobody.
SlotsStay ==
  \A d \in Devices : /\ rec'[d].slot = rec[d].slot
                     /\ rec'[d].addr = None <=> rec[d].addr = None

LEMMA SlotsStayApart == SlotsApart /\ SlotsStay => SlotsApart'
BY DEF SlotsApart, SlotsStay, Registered

LEMMA TrackingSlots ==
  ASSUME MemberTypeOK, NEW a, NEW on \in BOOLEAN, rec' = Track(rec, a, on)
  PROVE  SlotsStay
BY TrackKeeps, MemberTyping DEF SlotsStay

LEMMA MoveRecordSlots ==
  ASSUME MemberTypeOK, NEW d \in Registered, NEW a \in Addrs, MoveRecord(d, a)
  PROVE  SlotsStay
<1>1. d \in Devices /\ rec \in [Devices -> Records] /\ a # None /\ rec[d].addr # None
  BY MemberTyping, Sorts DEF Registered
<1>2. PICK q \in Records : q = [rec[d] EXCEPT !.addr = a] /\ q.addr = a /\ q.slot = rec[d].slot
  <2>1. \A p \in Records : /\ [p EXCEPT !.addr = a] \in Records
                           /\ [p EXCEPT !.addr = a].addr = a
                           /\ [p EXCEPT !.addr = a].slot = p.slot
    BY DEF Records
  <2> QED BY <1>1, <2>1
<1>3. PICK r \in [Devices -> Records] :
        /\ r = [rec EXCEPT ![d] = q]
        /\ r[d] = q /\ \A e \in Devices \ {d} : r[e] = rec[e]
  <2>1. /\ [rec EXCEPT ![d] = q] \in [Devices -> Records]
        /\ [rec EXCEPT ![d] = q][d] = q
        /\ \A e \in Devices \ {d} : [rec EXCEPT ![d] = q][e] = rec[e]
    BY <1>1
  <2> QED BY <2>1
<1>4. r = [rec EXCEPT ![d].addr = a]
  BY <1>2, <1>3
<1>5. PICK off \in BOOLEAN, on \in BOOLEAN : off = FALSE /\ on = TRUE
  OBVIOUS
<1>6. PICK o \in Addrs \cup {None} : o = rec[d].addr
  BY <1>1 DEF Records
<1>7. PICK s \in [Devices -> Records] :
        /\ s = Track(r, o, off)
        /\ \A e \in Devices : s[e].addr = r[e].addr /\ s[e].slot = r[e].slot
  BY TrackKeeps
<1>8. \A e \in Devices : /\ Track(s, a, on)[e].addr = s[e].addr
                         /\ Track(s, a, on)[e].slot = s[e].slot
  BY TrackKeeps
<1>9. rec' = Track(s, a, on)
  BY <1>4, <1>5, <1>6, <1>7 DEF MoveRecord
<1>10. \A e \in Devices : rec'[e].addr = r[e].addr /\ rec'[e].slot = r[e].slot
  BY <1>7, <1>8, <1>9
<1> QED BY <1>1, <1>2, <1>3, <1>10 DEF SlotsStay

\* A device that joins gets a slot that no other one has.
LEMMA NewcomerSlot ==
  ASSUME MemberTypeOK, SlotsApart, NEW d \in Devices \ Registered, NEW a \in Addrs,
         NEW n \in FreeSlots,
         rec' = Track([rec EXCEPT ![d].addr = a, ![d].slot = n], a, TRUE)
  PROVE  SlotsApart'
<1>1. rec \in [Devices -> Records] /\ a # None /\ n \in Slots /\ n # 0
  BY MemberTyping, Sorts DEF FreeSlots, Slots
<1>2. PICK q \in Records :
        q = [[rec[d] EXCEPT !.addr = a] EXCEPT !.slot = n] /\ q.addr = a /\ q.slot = n
  <2>1. \A p \in Records : /\ [[p EXCEPT !.addr = a] EXCEPT !.slot = n] \in Records
                           /\ [[p EXCEPT !.addr = a] EXCEPT !.slot = n].addr = a
                           /\ [[p EXCEPT !.addr = a] EXCEPT !.slot = n].slot = n
    BY <1>1 DEF Records
  <2> QED BY <1>1, <2>1
<1>3. PICK r \in [Devices -> Records] :
        /\ r = [rec EXCEPT ![d] = q]
        /\ r[d] = q /\ \A e \in Devices \ {d} : r[e] = rec[e]
  <2>1. /\ [rec EXCEPT ![d] = q] \in [Devices -> Records]
        /\ [rec EXCEPT ![d] = q][d] = q
        /\ \A e \in Devices \ {d} : [rec EXCEPT ![d] = q][e] = rec[e]
    BY <1>1
  <2> QED BY <2>1
<1>4. r = [rec EXCEPT ![d].addr = a, ![d].slot = n]
  BY <1>1, <1>2, <1>3
<1>5. PICK on \in BOOLEAN : on = TRUE
  OBVIOUS
<1>6. \A e \in Devices : /\ Track(r, a, on)[e].addr = r[e].addr
                         /\ Track(r, a, on)[e].slot = r[e].slot
  BY TrackKeeps
<1>7. \A e \in Devices : rec'[e].addr = r[e].addr /\ rec'[e].slot = r[e].slot
  BY <1>4, <1>5, <1>6
<1>8. rec'[d].addr = a /\ rec'[d].slot = n
  BY <1>2, <1>3, <1>7
<1>9. \A e \in Devices \ {d} :
        /\ rec'[e].addr = rec[e].addr /\ rec'[e].slot = rec[e].slot
        /\ rec[e].slot # n
  BY <1>3, <1>7 DEF FreeSlots
<1>10. Registered' = Registered \cup {d}
  BY <1>1, <1>8, <1>9 DEF Registered
<1>11. \A e \in Devices : rec'[e].slot = 0 <=> e \notin Registered'
  BY <1>1, <1>8, <1>9, <1>10 DEF SlotsApart
<1>12. \A e, f \in Registered' : rec'[e].slot = rec'[f].slot => e = f
  <2> SUFFICES ASSUME NEW e \in Registered', NEW f \in Registered', rec'[e].slot = rec'[f].slot
               PROVE  e = f
    OBVIOUS
  <2>1. \A g \in Registered' : g = d \/ (g \in Registered /\ g \in Devices \ {d})
    BY <1>10 DEF Registered
  <2>2. CASE e = d \/ f = d
    BY <1>8, <1>9, <2>1, <2>2
  <2>3. CASE e # d /\ f # d
    <3>1. e \in Registered /\ f \in Registered /\ e \in Devices \ {d} /\ f \in Devices \ {d}
      BY <2>1, <2>3
    <3>2. rec[e].slot = rec[f].slot
      BY <1>9, <3>1
    <3>3. \A g, h \in Registered : rec[g].slot = rec[h].slot => g = h
      BY DEF SlotsApart
    <3> QED BY <3>1, <3>2, <3>3
  <2> QED BY <2>2, <2>3
<1> QED BY <1>11, <1>12 DEF SlotsApart

\* A record that is removed gives its slot back.
LEMMA RemovalFreesSlot ==
  ASSUME MemberTypeOK, SlotsApart, NEW d \in Devices, rec' = [rec EXCEPT ![d] = Absent]
  PROVE  SlotsApart'
<1>1. rec \in [Devices -> Records] /\ Absent.addr = None /\ Absent.slot = 0
  BY MemberTyping DEF Absent
<1>2. rec'[d].addr = None /\ rec'[d].slot = 0 /\ \A e \in Devices \ {d} : rec'[e] = rec[e]
  BY <1>1
<1>3. Registered' = Registered \ {d}
  BY <1>2 DEF Registered
<1> QED BY <1>2, <1>3 DEF SlotsApart

LEMMA SlotsStep ==
  ASSUME MemberInv, SlotsApart, [MemberNext]_memberVars PROVE SlotsApart'
<1>1. MemberTypeOK /\ rec \in [Devices -> Records]
  BY MemberTyping DEF MemberInv
<1>2. CASE rec' = rec
  BY <1>2, SlotsStayApart, SMTT(60) DEF SlotsStay
<1>3. ASSUME NEW d \in Devices, zb_callback_device_join(d) PROVE SlotsApart'
  <2>1. net[d] \in Addrs
    BY <1>1, <1>3, MemberTyping DEF zb_callback_device_join
  <2> QED BY <1>1, <1>3, <2>1, MoveRecordSlots, SlotsStayApart, NewcomerSlot
          DEF zb_callback_device_join
<1>4. ASSUME NEW d \in Devices, Report(d) PROVE SlotsApart'
  <2>1. net[d] \in Addrs
    BY <1>1, <1>4, MemberTyping DEF Report
  <2> QED BY <1>1, <1>4, <2>1, MoveRecordSlots, TrackingSlots, SlotsStayApart
          DEF Report
<1>5. ASSUME NEW t \in Workers, Undrive(t) PROVE SlotsApart'
  BY <1>1, <1>5, TrackingSlots, SlotsStayApart DEF Undrive
<1>6. ASSUME NEW t \in Workers, device_registry_remove(t) PROVE SlotsApart'
  <2>1. handler[t].dev \in Devices
    BY <1>6 DEF MemberInv, Informed, device_registry_remove
  <2> QED BY <1>1, <1>6, <2>1, RemovalFreesSlot DEF device_registry_remove
<1>7. ASSUME NEW t \in Workers, Found(t) PROVE SlotsApart'
  <2>1. rec' = [d \in Devices |->
                  IF d \in At(handler[t].new) THEN [rec[d] EXCEPT !.conv = handler[t].dev]
                  ELSE rec[d]]
    BY <1>7 DEF Found
  <2>2. SlotsStay
    BY <1>1, <2>1 DEF SlotsStay, Records
  <2> QED BY <2>2, SlotsStayApart
<1>8. CASE \/ Network \/ Rebind \/ Redrive \/ Interpret
           \/ \E t \in Workers : Unbind(t)
           \/ \E a \in Addrs : InterviewDone(a) \/ try_lazy_bind(a)
           \/ \E d \in Devices : Remove(d) \/ LeaveIndication(d)
           \/ UNCHANGED memberVars
  <2>1. rec' = rec
    BY <1>8 DEF Network, Vanish, Move, Rebind, Redrive, Interpret, Unbind,
                InterviewDone, try_lazy_bind, Remove, LeaveIndication, memberVars,
                tables
  <2> QED BY <1>2, <2>1
<1> QED BY <1>3, <1>4, <1>5, <1>6, <1>7, <1>8
        DEF MemberNext, Signal, Step, Cleanup

LEMMA SlotsInitially == MemberInit => SlotsApart
<1> SUFFICES ASSUME MemberInit PROVE SlotsApart
  OBVIOUS
<1>1. PICK place \in [Devices -> Addrs \cup {None}], slot \in [Devices -> Slots \cup {0}] :
        Restored(place, slot)
  BY DEF MemberInit
<1>2. /\ rec = [d \in Devices |->
                  IF place[d] = None THEN Absent
                  ELSE [addr |-> place[d], slot |-> slot[d], conv |-> d, tracked |-> TRUE]]
      /\ \A d, e \in Devices : slot[d] = slot[e] /\ slot[d] # 0 => d = e
      /\ \A d \in Devices : slot[d] = 0 <=> place[d] = None
  BY <1>1 DEF Restored, Unique
<1>3. \A d \in Devices : rec[d].addr = place[d] /\ rec[d].slot = slot[d]
  BY <1>2 DEF Absent
<1> QED BY <1>2, <1>3 DEF SlotsApart, Registered

\* A binding fills at most one more place, and only while there is one.
BindingsFit == IsFiniteSet(Taken(bound)) /\ Cardinality(Taken(bound)) <= MaxBindings

LEMMA BoundFits ==
  ASSUME NEW table \in [Addrs -> Devices \cup {None}], NEW a \in Addrs,
         NEW c \in Devices \cup {None},
         IsFiniteSet(Taken(table)), Cardinality(Taken(table)) <= MaxBindings
  PROVE  /\ IsFiniteSet(Taken(Bound(table, a, c)))
         /\ Cardinality(Taken(Bound(table, a, c))) <= MaxBindings
<1>1. CASE a \in Taken(table)
  <2>1. Taken(Bound(table, a, c)) \in SUBSET Taken(table)
    BY <1>1 DEF Taken, Bound
  <2> QED BY <2>1, FS_Subset, FS_CardinalityType, Sorts
<1>2. CASE a \notin Taken(table) /\ Cardinality(Taken(table)) < MaxBindings
  <2>1. /\ IsFiniteSet(Taken(table) \cup {a})
        /\ Cardinality(Taken(table) \cup {a}) <= MaxBindings
    <3>1. Cardinality(Taken(table)) \in Nat
      BY FS_CardinalityType
    <3>2. /\ IsFiniteSet(Taken(table) \cup {a})
          /\ Cardinality(Taken(table) \cup {a}) = Cardinality(Taken(table)) + 1
      BY <1>2, FS_AddElement
    <3> QED BY <1>2, <3>1, <3>2, Sorts
  <2>2. Taken(Bound(table, a, c)) \in SUBSET (Taken(table) \cup {a})
    BY DEF Taken, Bound
  <2> QED BY <2>1, <2>2, FS_Subset, FS_CardinalityType, Sorts
<1>3. CASE a \notin Taken(table) /\ ~(Cardinality(Taken(table)) < MaxBindings)
  <2>1. Bound(table, a, c) = table
    BY <1>3 DEF Bound
  <2> QED BY <2>1
<1> QED BY <1>1, <1>2, <1>3

LEMMA UnboundFits ==
  ASSUME NEW table \in [Addrs -> Devices \cup {None}], NEW a \in Addrs \cup {None},
         IsFiniteSet(Taken(table)), Cardinality(Taken(table)) <= MaxBindings
  PROVE  /\ Unbound(table, a) \in [Addrs -> Devices \cup {None}]
         /\ IsFiniteSet(Taken(Unbound(table, a)))
         /\ Cardinality(Taken(Unbound(table, a))) <= MaxBindings
<1>1. Unbound(table, a) \in [Addrs -> Devices \cup {None}]
  BY DEF Unbound
<1>2. Taken(Unbound(table, a)) \in SUBSET Taken(table)
  BY DEF Taken, Unbound
<1> QED BY <1>1, <1>2, FS_Subset, FS_CardinalityType, Sorts

LEMMA BindingsFitStep ==
  ASSUME MemberInv, BindingsFit, [MemberNext]_memberVars PROVE BindingsFit'
<1>1. /\ MemberTypeOK /\ bound \in [Addrs -> Devices \cup {None}]
      /\ rec \in [Devices -> Records] /\ handler \in [Workers -> Handlers]
      /\ IsFiniteSet(Taken(bound)) /\ Cardinality(Taken(bound)) <= MaxBindings
  BY MemberTyping DEF MemberInv, BindingsFit
<1>2. CASE bound' = bound
  BY <1>1, <1>2 DEF BindingsFit, Taken
<1>3. CASE Rebind
  <2> DEFINE j == handler["zigbee"]
             freed == Unbound(bound, j.old)
             c == rec[j.dev].conv
  <2>1. /\ j.dev \in Devices /\ j.old \in Addrs /\ j.new \in Addrs
    BY <1>3 DEF Rebind, MemberInv, Informed, Moving, Workers
  <2>2. c \in Devices \cup {None}
    BY <1>1, <2>1 DEF Records
  <2>3. /\ freed \in [Addrs -> Devices \cup {None}]
        /\ IsFiniteSet(Taken(freed)) /\ Cardinality(Taken(freed)) <= MaxBindings
    BY <1>1, <2>1, UnboundFits
  <2>4. bound' = IF c # None THEN Bound(freed, j.new, c) ELSE freed
    BY <1>3 DEF Rebind
  <2> HIDE DEF freed, c, j
  <2>5. IsFiniteSet(Taken(bound')) /\ Cardinality(Taken(bound')) <= MaxBindings
    BY <2>1, <2>2, <2>3, <2>4, BoundFits
  <2> QED BY <2>5 DEF BindingsFit, Taken
<1>4. ASSUME NEW t \in Workers, Unbind(t) PROVE BindingsFit'
  <2>1. handler[t].old \in Addrs \cup {None}
    BY <1>1 DEF Handlers
  <2>2. bound' = Unbound(bound, handler[t].old)
    BY <1>4 DEF Unbind
  <2>3. IsFiniteSet(Taken(bound')) /\ Cardinality(Taken(bound')) <= MaxBindings
    BY <1>1, <2>1, <2>2, UnboundFits
  <2> QED BY <2>3 DEF BindingsFit, Taken
<1>5. ASSUME NEW t \in Workers, Found(t) PROVE BindingsFit'
  <2>1. handler[t].new \in Addrs /\ handler[t].dev \in Devices
    BY <1>5 DEF Found, MemberInv, Informed
  <2>2. bound' = bound \/ bound' = Bound(bound, handler[t].new, handler[t].dev)
    BY <1>5 DEF Found
  <2>3. IsFiniteSet(Taken(bound')) /\ Cardinality(Taken(bound')) <= MaxBindings
    BY <1>1, <2>1, <2>2, BoundFits
  <2> QED BY <2>3 DEF BindingsFit, Taken
<1>6. ASSUME NEW d \in Devices, zb_callback_device_join(d) \/ Report(d) PROVE bound' = bound
  BY <1>6 DEF zb_callback_device_join, Report, MoveRecord
<1>7. CASE \/ Network \/ Redrive \/ Interpret
           \/ \E t \in Workers : Undrive(t) \/ device_registry_remove(t)
           \/ \E a \in Addrs : InterviewDone(a) \/ try_lazy_bind(a)
           \/ \E d \in Devices : Remove(d) \/ LeaveIndication(d)
           \/ UNCHANGED memberVars
  <2>1. bound' = bound
    BY <1>7 DEF Network, Vanish, Move, Redrive, Interpret, Undrive,
                device_registry_remove, InterviewDone, try_lazy_bind, Remove,
                LeaveIndication, memberVars, tables
  <2> QED BY <1>2, <2>1
<1> QED BY <1>2, <1>3, <1>4, <1>5, <1>6, <1>7
        DEF MemberNext, Signal, Step, Cleanup

\* The slots of the registered devices count them.
LEMMA RegisteredFit ==
  ASSUME MemberTypeOK, SlotsApart
  PROVE  IsFiniteSet(Registered) /\ Cardinality(Registered) <= MaxDevices
<1> DEFINE f == [d \in Registered |-> rec[d].slot]
<1>1. \A d \in Registered : rec[d].slot \in Slots
  <2>1. rec \in [Devices -> Records]
    BY MemberTyping
  <2> QED BY <2>1 DEF SlotsApart, Registered, Records
<1>2. f \in Injection(Registered, Slots)
  <2>1. f \in [Registered -> Slots]
    BY <1>1
  <2>2. \A d, e \in Registered : f[d] = f[e] => d = e
    BY DEF SlotsApart
  <2> QED BY <2>1, <2>2 DEF Injection, IsInjective
<1>3. IsFiniteSet(Slots) /\ Cardinality(Slots) = MaxDevices
  BY FS_Interval, Sorts DEF Slots
<1> QED BY <1>2, <1>3, FS_Injection

\* At boot the addresses with a binding are those of registered devices.
LEMMA BindingsFitInitially == MemberInit => BindingsFit
<1> SUFFICES ASSUME MemberInit PROVE BindingsFit
  OBVIOUS
<1>1. PICK place \in [Devices -> Addrs \cup {None}], slot \in [Devices -> Slots \cup {0}] :
        Restored(place, slot)
  BY DEF MemberInit
<1>2. /\ bound \in [Addrs -> Devices \cup {None}]
      /\ \A a \in Addrs : bound[a] # None => place[bound[a]] = a
      /\ Cardinality(Taken(bound)) <= MaxBindings
      /\ \A d \in Devices : place[d] = None => Absent = rec[d]
      /\ \A d \in Devices : place[d] # None => rec[d].addr = place[d]
  BY <1>1 DEF Restored
<1>3. IsFiniteSet(Registered)
  BY MemberInitially, SlotsInitially, RegisteredFit DEF MemberInv
<1> DEFINE f == [a \in Taken(bound) |-> bound[a]]
<1>4. ASSUME NEW a \in Taken(bound)
      PROVE  bound[a] \in Registered /\ place[bound[a]] = a
  <2>1. a \in Addrs /\ a # None /\ bound[a] \in Devices /\ place[bound[a]] = a
    BY <1>2, Sorts DEF Taken
  <2> QED BY <1>2, <2>1 DEF Registered
<1>5. f \in Injection(Taken(bound), Registered)
  <2>1. f \in [Taken(bound) -> Registered]
    BY <1>4
  <2>2. \A a, b \in Taken(bound) : f[a] = f[b] => a = b
    BY <1>4
  <2> QED BY <2>1, <2>2 DEF Injection, IsInjective
<1> QED BY <1>2, <1>3, <1>5, FS_Injection DEF BindingsFit

LEMMA SizesInvariance == MemberSpec => [](MemberInv /\ SlotsApart /\ BindingsFit)
<1>1. MemberInit => MemberInv /\ SlotsApart /\ BindingsFit
  BY MemberInitially, SlotsInitially, BindingsFitInitially
<1>2. MemberInv /\ SlotsApart /\ BindingsFit /\ [MemberNext]_memberVars
        => (MemberInv /\ SlotsApart /\ BindingsFit)'
  BY MemberStep, SlotsStep, BindingsFitStep
<1> QED BY <1>1, <1>2, PTL DEF MemberSpec

(***************************************************************************)
(* Registered devices have slots of their own: no join overwrites the      *)
(* record of another device, and no removal frees the slot of one that     *)
(* stays.                                                                  *)
(***************************************************************************)
THEOREM SlotsAreOwn == MemberSpec => []SlotsApart
BY SizesInvariance, PTL

(***************************************************************************)
(* The registry holds no more devices than it has slots, and the converter *)
(* registry no more bindings than it has room for, whatever joins, moves   *)
(* and leaves and whichever task binds.                                    *)
(***************************************************************************)
THEOREM TablesStayInBounds == MemberSpec => []TablesFit
<1>1. MemberInv /\ SlotsApart /\ BindingsFit => TablesFit
  BY RegisteredFit DEF MemberInv, BindingsFit, TablesFit
<1> QED BY <1>1, SizesInvariance, PTL

-------------------------------------------------------------------------------
(***************************************************************************)
(* The availability tracker.                                               *)
(***************************************************************************)
States   == {"unknown", "online", "offline"}
Backoffs == {0, 1, 2, 4, 8} \cap 0 .. MaxBackoff
Metas    == [power : {"mains", "battery", "unknown"},
             failures : 0 .. CounterSize - 1, backoff : Backoffs,
             pending : BOOLEAN, expired : BOOLEAN, nextDue : BOOLEAN]
Jobs     == [pc : {"idle", "decided", "registry", "publish"},
             dev : Devices \cup {None}, new : States]

USE NoneAssumption, DeviceAssumption, LimitAssumption, BoundsAssumption

-------------------------------------------------------------------------------
(***************************************************************************)
(* The helpers.                                                            *)
(***************************************************************************)
LEMMA Typing ==
  ASSUME AvailInv
  PROVE  /\ meta \in [Devices -> Metas] /\ job \in [Tasks -> Jobs]
         /\ avail \in [Devices -> States] /\ told \in [Devices -> States]
         /\ known \subseteq Devices /\ todo \subseteq Devices
         /\ bad \in [Devices -> 0 .. MaxFailures]
         /\ forced \subseteq Devices /\ raced \subseteq Devices
         /\ crossed \subseteq Devices /\ unheard \subseteq Devices
         /\ answered \subseteq Devices /\ events \in 0 .. MaxEvents
         /\ phase \in {"sleep", "timeouts", "checks", "stopped"}
BY DEF AvailInv, TypeOK, Metas, Jobs, States, Backoffs

LEMMA FreshType ==
  ASSUME NEW p \in {"mains", "battery", "unknown"}
  PROVE  /\ Fresh(p) \in Metas /\ Fresh(p).failures = 0 /\ Fresh(p).backoff # 0
         /\ Untracked \in Metas /\ Untracked.failures = 0
<1>1. Untracked \in Metas
  BY DEF Untracked, Metas, Backoffs
<1>2. 1 \in Backoffs
  BY DEF Backoffs
<1>3. Fresh(p) \in Metas
  BY <1>1, <1>2 DEF Fresh, Metas
<1>4. Fresh(p).failures = Untracked.failures /\ Fresh(p).backoff = 1
  BY <1>1 DEF Fresh, Metas
<1> QED BY <1>1, <1>3, <1>4 DEF Untracked

LEMMA CountType ==
  ASSUME NEW n \in 0 .. CounterSize - 1
  PROVE  Count(n) \in 0 .. CounterSize - 1 /\ (Count(n) = n + 1 \/ Count(n) = 0)
<1>1. CASE n + 1 = CounterSize
  BY <1>1 DEF Count
<1>2. CASE n + 1 # CounterSize
  BY <1>2 DEF Count
<1> QED BY <1>1, <1>2

\* What frames, failed deliveries and timeouts make of the metadata.
LEMMA MetaSteps ==
  ASSUME NEW m \in Metas
  PROVE  /\ OnFrame(m) \in Metas /\ OnFrame(m).failures = 0
         /\ OnFrame(m).backoff # 0
         /\ OnTimeout(m) \in Metas /\ OnTimeout(m).failures = Count(m.failures)
         /\ OnTimeout(m).backoff # 0
<1>1. 1 \in Backoffs /\ NextBackoff(m.backoff) \in Backoffs \ {0}
  <2>1. m.backoff \in Backoffs
    BY DEF Metas
  <2>2. CASE m.backoff = 0 \/ ~(m.backoff < MaxBackoff)
    BY <2>1, <2>2 DEF NextBackoff, Backoffs
  <2>3. CASE m.backoff \in {1, 2, 4} /\ m.backoff < MaxBackoff
    BY <2>3 DEF NextBackoff, Backoffs
  <2> QED BY <2>1, <2>2, <2>3 DEF Backoffs
<1>2. Count(m.failures) \in 0 .. CounterSize - 1
  BY CountType DEF Metas
<1>3. \A n \in Metas : /\ Rescheduled(n) \in Metas
                       /\ Rescheduled(n).failures = n.failures
                       /\ Rescheduled(n).backoff = n.backoff
  BY DEF Rescheduled, Metas
<1>4. /\ OnFrame(m) \in Metas /\ OnFrame(m).failures = 0
      /\ OnFrame(m).backoff # 0
  <2> DEFINE n == [m EXCEPT !.failures = 0, !.backoff = 1, !.pending = FALSE,
                            !.expired = FALSE]
  <2>0. 0 \in 0 .. CounterSize - 1 /\ 1 \in Backoffs
    BY <1>1 DEF Backoffs
  <2>1. n \in Metas /\ n.failures = 0 /\ n.backoff = 1
    BY <2>0 DEF Metas
  <2> HIDE DEF n
  <2>2. OnFrame(m) = Rescheduled(n)
    BY DEF OnFrame, n
  <2> QED BY <1>3, <2>1, <2>2
<1>5. /\ OnTimeout(m) \in Metas /\ OnTimeout(m).failures = Count(m.failures)
      /\ OnTimeout(m).backoff # 0
  <2> DEFINE f == Count(m.failures)
             b == NextBackoff(m.backoff)
             n == [m EXCEPT !.failures = f, !.backoff = b, !.pending = FALSE,
                            !.expired = FALSE]
  <2>1. OnTimeout(m) = Rescheduled(n)
    BY DEF OnTimeout
  <2>2. f \in 0 .. CounterSize - 1 /\ b \in Backoffs \ {0}
    BY <1>1, <1>2
  <2> HIDE DEF f, b
  <2>3. n \in Metas /\ n.failures = f /\ n.backoff = b
    BY <2>2 DEF Metas
  <2> HIDE DEF n
  <2> QED BY <1>3, <2>1, <2>2, <2>3 DEF f
<1> QED BY <1>4, <1>5

\* One more failure, in the record and since the last frame.
LEMMA CountedInStep ==
  ASSUME AvailInv, NEW d \in Devices, NEW f, f = Count(meta[d].failures), Counted(d)
  PROVE  /\ bad' \in [Devices -> 0 .. MaxFailures]
         /\ \A e \in Devices \ {d} : bad'[e] = bad[e]
         /\ bad[d] = MaxFailures => bad'[d] = MaxFailures
         /\ bad'[d] # 0
         /\ bad'[d] < MaxFailures => f <= bad'[d]
         /\ Enough(f) => bad'[d] = MaxFailures
<1>1. bad \in [Devices -> 0 .. MaxFailures] /\ meta[d].failures \in 0 .. CounterSize - 1
  BY Typing DEF Metas
<1>2. f \in Nat /\ f <= meta[d].failures + 1
  BY <1>1, CountType
<1>3. bad[d] < MaxFailures => meta[d].failures <= bad[d]
  BY DEF AvailInv, CountsInStep
<1>4. bad'[d] = (IF bad[d] < MaxFailures THEN bad[d] + 1 ELSE bad[d])
      /\ bad' \in [Devices -> 0 .. MaxFailures]
      /\ \A e \in Devices \ {d} : bad'[e] = bad[e]
  BY <1>1 DEF Counted
<1> QED BY <1>1, <1>2, <1>3, <1>4 DEF Enough

LEMMA HeardDoes ==
  ASSUME AvailInv, NEW d \in Devices, Heard(d)
  PROVE  /\ bad' \in [Devices -> 0 .. MaxFailures] /\ bad'[d] = 0
         /\ \A e \in Devices \ {d} : bad'[e] = bad[e] /\ (e \in forced' <=> e \in forced)
         /\ forced' \subseteq Devices
BY Typing DEF Heard

\* A task that works on a device other than another one's leaves a mark.
LEMMA TouchDoes ==
  ASSUME AvailInv, NEW t \in Tasks, NEW d \in Devices, Touch(t, d)
  PROVE  /\ raced' \subseteq Devices /\ raced \subseteq raced'
         /\ d \notin raced' => \A u \in Tasks \ {t} : ~Works(u, d)
         /\ crossed' \subseteq Devices /\ crossed \subseteq crossed'
         /\ d \notin crossed' /\ Works(t, d)' => \A u \in Tasks \ {t} : ~Works(u, d)
BY Typing DEF Touch, Meets, Works

-------------------------------------------------------------------------------
(***************************************************************************)
(* A device that a step does not concern keeps its one worker.             *)
(***************************************************************************)
LEMMA Apart ==
  ASSUME NEW d, OneWorker(d), avail'[d] = avail[d],
         bad'[d] = bad[d], d \in forced => d \in forced',
         \A t \in Tasks : job'[t] = job[t] \/ (~Works(t, d) /\ ~Works(t, d)')
  PROVE  OneWorker(d)'
<1>1. \A t \in Tasks : Works(t, d)' <=> Works(t, d)
  BY DEF Works
<1>2. \A t \in Tasks : Works(t, d) => job'[t] = job[t]
  OBVIOUS
<1>3. Justified(d) => Justified(d)'
  BY DEF Justified
<1> QED BY <1>1, <1>2, <1>3 DEF OneWorker

LEMMA ApartSpeaks ==
  ASSUME NEW d, OneSpeaker(d), avail'[d] = avail[d], told'[d] = told[d],
         d \in known' <=> d \in known, d \in unheard => d \in unheard',
         \A t \in Tasks : job'[t] = job[t] \/ (~Works(t, d) /\ ~Works(t, d)')
  PROVE  OneSpeaker(d)'
<1>1. \A t \in Tasks : Works(t, d)' <=> Works(t, d)
  BY DEF Works
<1>2. \A t \in Tasks : Works(t, d) => job'[t] = job[t]
  OBVIOUS
<1>3. Steady(d)' => Steady(d)
  BY <1>1 DEF Steady
<1> QED BY <1>1, <1>2, <1>3 DEF OneSpeaker, Tasks

\* Nobody says or decides anything.
LEMMA AllSpeak ==
  ASSUME AvailInv, UNCHANGED <<job, avail, told, known, unheard>>, crossed \subseteq crossed'
  PROVE  \A e \in Devices \ crossed' : OneSpeaker(e)'
BY ApartSpeaks DEF AvailInv

\* A task decides on a device in the registry, or on one that has just come.
LEMMA DecisionSpeaks ==
  ASSUME AvailInv, NEW t \in Tasks, NEW d \in Devices, NEW new \in {"online", "offline"},
         Free(t), Touch(t, d), Decide(t, d, new), UNCHANGED <<avail, told, unheard>>,
         known' = known \cup {d}, d \in known \/ new = "online"
  PROVE  /\ crossed' \subseteq Devices
         /\ \A e \in Devices \ crossed' : OneSpeaker(e)'
<1>1. /\ job'[t] = [pc |-> "decided", dev |-> d, new |-> new]
      /\ \A u \in Tasks \ {t} : job'[u] = job[u]
  BY Typing DEF Decide
<1>2. Works(t, d)'
  BY <1>1 DEF Works
<1>3. /\ crossed' \subseteq Devices /\ crossed \subseteq crossed'
      /\ d \notin crossed' => \A u \in Tasks \ {t} : ~Works(u, d)
  BY <1>2, TouchDoes
<1>4. \A e \in Devices : ~Works(t, e)
  BY DEF Free, AvailInv, Deciding, Works
<1>5. ASSUME NEW e \in Devices \ crossed' PROVE OneSpeaker(e)'
  <2>1. OneSpeaker(e)
    BY <1>3 DEF AvailInv
  <2>2. CASE e # d
    <3>1. ~Works(t, e) /\ ~Works(t, e)'
      BY <1>1, <1>4, <2>2 DEF Works
    <3> QED BY <1>1, <2>1, <2>2, <3>1, ApartSpeaks
  <2>3. CASE e = d
    <3>1. \A u \in Tasks \ {t} : ~Works(u, d) /\ ~Works(u, d)'
      BY <1>1, <1>3, <2>3 DEF Works
    <3>2. avail[d] = new => told[d] = avail[d] \/ d \in unheard
      BY <1>4, <2>1, <2>3, <3>1 DEF OneSpeaker, Steady
    <3> QED BY <1>1, <1>2, <2>3, <3>1, <3>2 DEF OneSpeaker, Steady
  <2> QED BY <2>2, <2>3
<1> QED BY <1>3, <1>5

\* A task decides on a device, and nobody else works on it.
LEMMA DecisionKeeps ==
  ASSUME AvailInv, NEW t \in Tasks, NEW d \in Devices, NEW new \in {"online", "offline"},
         Free(t), Touch(t, d), Decide(t, d, new), new = "online" => t = "zigbee",
         UNCHANGED avail,
         IF new = "online" THEN bad'[d] = 0 ELSE Justified(d)',
         \A e \in Devices \ {d} : bad'[e] = bad[e] /\ (e \in forced => e \in forced')
  PROVE  /\ Deciding' /\ job' \in [Tasks -> Jobs] /\ raced' \subseteq Devices
         /\ \A e \in Devices \ raced' : OneWorker(e)'
<1>1. /\ job' \in [Tasks -> Jobs]
      /\ job'[t] = [pc |-> "decided", dev |-> d, new |-> new]
      /\ \A u \in Tasks \ {t} : job'[u] = job[u]
  <2>1. [pc |-> "decided", dev |-> d, new |-> new] \in Jobs
    BY DEF Jobs, States
  <2> QED BY <2>1, Typing DEF Decide
<1>2. /\ raced' \subseteq Devices /\ raced \subseteq raced'
      /\ d \notin raced' => \A u \in Tasks \ {t} : ~Works(u, d)
  BY TouchDoes
<1>3. Deciding'
  BY <1>1 DEF AvailInv, Deciding
<1>4. \A e \in Devices : ~Works(t, e)
  BY DEF Free, AvailInv, Deciding, Works
<1>5. ASSUME NEW e \in Devices \ raced' PROVE OneWorker(e)'
  <2>1. OneWorker(e)
    BY <1>2 DEF AvailInv
  <2>2. CASE e # d
    <3>1. ~Works(t, e) /\ ~Works(t, e)'
      BY <1>1, <1>4, <2>2 DEF Works
    <3> QED BY <1>1, <2>1, <2>2, <3>1, Apart
  <2>3. CASE e = d
    <3>1. Works(t, d)' /\ \A u \in Tasks \ {t} : ~Works(u, d)'
      BY <1>1, <1>2, <2>3 DEF Works
    <3>2. avail[d] = "offline" => Justified(d)
      BY <1>2, <1>4, <2>1, <2>3 DEF OneWorker
    <3> QED BY <1>1, <2>3, <3>1, <3>2 DEF OneWorker
  <2> QED BY <2>2, <2>3
<1> QED BY <1>1, <1>2, <1>3, <1>5

\* A task works on a device without a decision.
LEMMA NoDecisionKeeps ==
  ASSUME AvailInv, NEW t \in Tasks, NEW d \in Devices, Free(t), Touch(t, d),
         UNCHANGED job,
         avail'[d] = "offline" =>
           avail[d] = "offline" /\ (Justified(d) => Justified(d)'),
         \A e \in Devices \ {d} :
            /\ avail'[e] = avail[e]
            /\ bad'[e] = bad[e] /\ (e \in forced => e \in forced')
  PROVE  /\ Deciding' /\ job' \in [Tasks -> Jobs] /\ raced' \subseteq Devices
         /\ \A e \in Devices \ raced' : OneWorker(e)'
<1>1. job' = job /\ job \in [Tasks -> Jobs]
  BY Typing
<1>2. /\ raced' \subseteq Devices /\ raced \subseteq raced'
      /\ d \notin raced' => \A u \in Tasks \ {t} : ~Works(u, d)
  BY TouchDoes
<1>3. Deciding'
  BY <1>1 DEF AvailInv, Deciding
<1>4. \A e \in Devices : ~Works(t, e)
  BY DEF Free, AvailInv, Deciding, Works
<1>5. ASSUME NEW e \in Devices \ raced' PROVE OneWorker(e)'
  <2>1. OneWorker(e)
    BY <1>2 DEF AvailInv
  <2>2. CASE e # d
    BY <1>1, <2>1, <2>2, Apart
  <2>3. CASE e = d
    <3>1. \A u \in Tasks : ~Works(u, d) /\ ~Works(u, d)'
      BY <1>1, <1>2, <1>4, <2>3 DEF Works
    <3> QED BY <2>1, <2>3, <3>1 DEF OneWorker
  <2> QED BY <2>2, <2>3
<1> QED BY <1>1, <1>2, <1>3, <1>5

\* No task decides, and no availability changes.
LEMMA AllApart ==
  ASSUME AvailInv, UNCHANGED <<job, avail, bad, forced>>, raced \subseteq raced'
  PROVE  Deciding' /\ \A e \in Devices \ raced' : OneWorker(e)'
<1>1. Deciding'
  BY DEF AvailInv, Deciding
<1>2. \A e \in Devices \ raced' : OneWorker(e)'
  BY Apart DEF AvailInv
<1> QED BY <1>1, <1>2

\* A change of one device's metadata.
LEMMA MetaDoes ==
  ASSUME AvailInv, NEW d \in Devices, NEW m \in Metas, meta' = [meta EXCEPT ![d] = m]
  PROVE  /\ meta' \in [Devices -> Metas] /\ meta'[d] = m
         /\ \A e \in Devices \ {d} : meta'[e] = meta[e]
BY Typing

LEMMA PendingDoes ==
  ASSUME AvailInv, NEW d \in Devices,
         \/ meta' = [meta EXCEPT ![d].pending = TRUE, ![d].expired = FALSE]
         \/ meta' = [meta EXCEPT ![d].nextDue = TRUE]
         \/ meta' = [meta EXCEPT ![d].expired = TRUE]
         \/ \E p \in {"mains", "battery", "unknown"} :
              meta' = [meta EXCEPT ![d].power = p]
  PROVE  /\ meta' \in [Devices -> Metas]
         /\ \A e \in Devices : /\ meta'[e].failures = meta[e].failures
                               /\ meta'[e].backoff = meta[e].backoff
<1>1. meta \in [Devices -> Metas] /\ meta[d] \in Metas
  BY Typing
<1>2. PICK m \in Metas : /\ meta' = [meta EXCEPT ![d] = m]
                         /\ m.failures = meta[d].failures
                         /\ m.backoff = meta[d].backoff
  <2>1. CASE meta' = [meta EXCEPT ![d].pending = TRUE, ![d].expired = FALSE]
    <3> DEFINE m == [meta[d] EXCEPT !.pending = TRUE, !.expired = FALSE]
    <3>1. m \in Metas /\ m.failures = meta[d].failures /\ m.backoff = meta[d].backoff
      BY <1>1 DEF Metas
    <3>2. meta' = [meta EXCEPT ![d] = m]
      BY <1>1, <2>1
    <3> QED BY <3>1, <3>2
  <2>2. CASE meta' = [meta EXCEPT ![d].nextDue = TRUE]
    <3> DEFINE m == [meta[d] EXCEPT !.nextDue = TRUE]
    <3>1. m \in Metas /\ m.failures = meta[d].failures /\ m.backoff = meta[d].backoff
      BY <1>1 DEF Metas
    <3> QED BY <2>2, <3>1
  <2>3. CASE meta' = [meta EXCEPT ![d].expired = TRUE]
    <3> DEFINE m == [meta[d] EXCEPT !.expired = TRUE]
    <3>1. m \in Metas /\ m.failures = meta[d].failures /\ m.backoff = meta[d].backoff
      BY <1>1 DEF Metas
    <3> QED BY <2>3, <3>1
  <2>4. ASSUME NEW p \in {"mains", "battery", "unknown"},
               meta' = [meta EXCEPT ![d].power = p]
        PROVE  \E m \in Metas : /\ meta' = [meta EXCEPT ![d] = m]
                                /\ m.failures = meta[d].failures
                                /\ m.backoff = meta[d].backoff
    <3> DEFINE m == [meta[d] EXCEPT !.power = p]
    <3>1. m \in Metas /\ m.failures = meta[d].failures /\ m.backoff = meta[d].backoff
      BY <1>1 DEF Metas
    <3> QED BY <2>4, <3>1
  <2> QED BY <2>1, <2>2, <2>3, <2>4
<1> QED BY <1>1, <1>2

\* What does not touch the counters keeps them in step.
LEMMA CountersKeep ==
  ASSUME AvailInv, bad' = bad, known' = known,
         \A e \in Devices : /\ meta'[e].failures = meta[e].failures
                            /\ meta'[e].backoff = meta[e].backoff
  PROVE  CountsInStep' /\ (\A e \in known : Tracked(e))'
BY Typing DEF AvailInv, CountsInStep, Tracked

\* Type correctness with the names used here.
Types ==
  /\ meta \in [Devices -> Metas] /\ job \in [Tasks -> Jobs]
  /\ avail \in [Devices -> States] /\ told \in [Devices -> States]
  /\ known \subseteq Devices /\ todo \subseteq Devices
  /\ bad \in [Devices -> 0 .. MaxFailures]
  /\ forced \subseteq Devices /\ raced \subseteq Devices
  /\ crossed \subseteq Devices /\ unheard \subseteq Devices
  /\ answered \subseteq Devices /\ events \in 0 .. MaxEvents
  /\ phase \in {"sleep", "timeouts", "checks", "stopped"}

LEMMA TypesAreTypes == (TypeOK <=> Types) /\ (TypeOK' <=> Types')
  BY DEF Types, TypeOK, Metas, Jobs, States, Backoffs

LEMMA EventType == ASSUME AvailInv, Event PROVE events' \in 0 .. MaxEvents
  BY Typing DEF Event

-------------------------------------------------------------------------------
(***************************************************************************)
(* The steps of the tasks.                                                 *)
(***************************************************************************)
LEMMA JoinKeeps ==
  ASSUME AvailInv, NEW d \in Devices, Join(d) PROVE AvailInv'
<1>1. /\ Free("zigbee") /\ known' = known \cup {d}
      /\ meta' = [meta EXCEPT ![d] = Fresh("unknown")]
      /\ Decide("zigbee", d, "online") /\ Heard(d) /\ Touch("zigbee", d)
      /\ UNCHANGED <<avail, told, phase, todo, unheard, answered, events>>
  BY DEF Join, tracker
<1>2. /\ bad' \in [Devices -> 0 .. MaxFailures] /\ bad'[d] = 0 /\ forced' \subseteq Devices
      /\ \A e \in Devices \ {d} : bad'[e] = bad[e] /\ (e \in forced' <=> e \in forced)
  BY <1>1, HeardDoes
<1>3. /\ Deciding' /\ job' \in [Tasks -> Jobs] /\ raced' \subseteq Devices
      /\ \A e \in Devices \ raced' : OneWorker(e)'
  BY <1>1, <1>2, DecisionKeeps DEF Tasks
<1>7. crossed' \subseteq Devices /\ \A e \in Devices \ crossed' : OneSpeaker(e)'
  BY <1>1, DecisionSpeaks DEF Tasks
<1>4. /\ meta' \in [Devices -> Metas] /\ meta'[d] = Fresh("unknown")
      /\ \A e \in Devices \ {d} : meta'[e] = meta[e]
      /\ meta'[d].failures = 0 /\ meta'[d].backoff # 0
  BY <1>1, FreshType, MetaDoes
<1>5. Types'
  BY <1>1, <1>2, <1>3, <1>4, <1>7, Typing DEF Types
<1>6. CountsInStep' /\ (\A e \in known : Tracked(e))'
  BY <1>1, <1>2, <1>4, Typing DEF AvailInv, CountsInStep, Tracked
<1> QED BY <1>3, <1>5, <1>6, <1>7, TypesAreTypes DEF AvailInv

LEMMA RejoinKeeps ==
  ASSUME AvailInv, NEW d \in Devices, Rejoin(d) PROVE AvailInv'
<1>1. /\ Free("zigbee") /\ d \in known /\ Touch("zigbee", d)
      /\ AddDevice(d, Power(d))
      /\ UNCHANGED <<known, avail, told, phase, todo, bad, forced, unheard, answered,
                     events>>
  BY DEF Rejoin, tracker
<1>2. Power(d) \in {"mains", "battery", "unknown"} /\ Tracked(d)
  BY <1>1 DEF Power, AvailInv
<1>3. meta' = [meta EXCEPT ![d].power = Power(d)] /\ job' = job
  BY <1>1, <1>2 DEF AddDevice
<1>4. /\ meta' \in [Devices -> Metas]
      /\ \A e \in Devices : /\ meta'[e].failures = meta[e].failures
                            /\ meta'[e].backoff = meta[e].backoff
  BY <1>2, <1>3, PendingDoes
<1>5. /\ Deciding' /\ job' \in [Tasks -> Jobs] /\ raced' \subseteq Devices
      /\ \A e \in Devices \ raced' : OneWorker(e)'
  BY <1>1, <1>3, NoDecisionKeeps DEF Tasks, Justified
<1>8. crossed' \subseteq Devices /\ \A e \in Devices \ crossed' : OneSpeaker(e)'
  BY <1>1, <1>3, TouchDoes, AllSpeak DEF Tasks
<1>6. Types'
  BY <1>1, <1>4, <1>5, <1>8, Typing DEF Types
<1>7. CountsInStep' /\ (\A e \in known : Tracked(e))'
  BY <1>1, <1>4, CountersKeep
<1> QED BY <1>5, <1>6, <1>7, <1>8, TypesAreTypes DEF AvailInv

LEMMA FrameKeeps ==
  ASSUME AvailInv, NEW d \in Devices, update_last_seen(d) PROVE AvailInv'
<1>1. /\ Free("zigbee") /\ d \in known /\ Event
      /\ Heard(d) /\ Touch("zigbee", d)
      /\ UNCHANGED <<known, avail, told, phase, todo, unheard, answered>>
  BY DEF update_last_seen, tracker
<1>2. /\ meta' = [meta EXCEPT ![d] = OnFrame(meta[d])]
      /\ IF avail[d] # "online" THEN Decide("zigbee", d, "online")
         ELSE UNCHANGED job
  BY <1>1 DEF update_last_seen, AvailInv
<1>3. /\ bad' \in [Devices -> 0 .. MaxFailures] /\ bad'[d] = 0 /\ forced' \subseteq Devices
      /\ \A e \in Devices \ {d} : bad'[e] = bad[e] /\ (e \in forced' <=> e \in forced)
  BY <1>1, HeardDoes
<1>4. /\ Deciding' /\ job' \in [Tasks -> Jobs] /\ raced' \subseteq Devices
      /\ \A e \in Devices \ raced' : OneWorker(e)'
  <2>1. CASE avail[d] # "online"
    BY <1>1, <1>2, <1>3, <2>1, DecisionKeeps DEF Tasks
  <2>2. CASE avail[d] = "online"
    BY <1>1, <1>2, <1>3, <2>2, NoDecisionKeeps DEF Tasks
  <2> QED BY <2>1, <2>2
<1>8. crossed' \subseteq Devices /\ \A e \in Devices \ crossed' : OneSpeaker(e)'
  <2>1. CASE avail[d] # "online"
    BY <1>1, <1>2, <2>1, DecisionSpeaks DEF Tasks
  <2>2. CASE avail[d] = "online"
    BY <1>1, <1>2, <2>2, TouchDoes, AllSpeak DEF Tasks
  <2> QED BY <2>1, <2>2
<1>5. /\ meta' \in [Devices -> Metas]
      /\ \A e \in Devices \ {d} : meta'[e] = meta[e]
      /\ meta'[d].failures = 0 /\ meta'[d].backoff # 0
  <2>1. meta[d] \in Metas
    BY Typing
  <2> QED BY <1>2, <2>1, MetaSteps, MetaDoes
<1>6. Types'
  BY <1>1, <1>3, <1>4, <1>5, <1>8, Typing, EventType DEF Types
<1>7. CountsInStep' /\ (\A e \in known : Tracked(e))'
  BY <1>1, <1>3, <1>5, Typing DEF AvailInv, CountsInStep, Tracked
<1> QED BY <1>4, <1>6, <1>7, <1>8, TypesAreTypes DEF AvailInv

\* A failure of a device, whoever counts it.
LEMMA FailureKeeps ==
  ASSUME AvailInv, NEW t \in Tasks, NEW d \in Devices, Free(t), Touch(t, d),
         NEW m \in Metas, meta' = [meta EXCEPT ![d] = m],
         m.failures = Count(meta[d].failures), m.backoff # 0, d \in known,
         JudgeFailure(t, d), Counted(d), UNCHANGED <<known, avail, told, forced, unheard>>
  PROVE  /\ Deciding' /\ job' \in [Tasks -> Jobs] /\ raced' \subseteq Devices
         /\ \A e \in Devices \ raced' : OneWorker(e)'
         /\ meta' \in [Devices -> Metas] /\ bad' \in [Devices -> 0 .. MaxFailures]
         /\ CountsInStep' /\ (\A e \in known : Tracked(e))'
         /\ crossed' \subseteq Devices
         /\ \A e \in Devices \ crossed' : OneSpeaker(e)'
<1>1. /\ meta' \in [Devices -> Metas] /\ meta'[d] = m
      /\ \A e \in Devices \ {d} : meta'[e] = meta[e]
  BY MetaDoes
<1>2. /\ bad' \in [Devices -> 0 .. MaxFailures]
      /\ \A e \in Devices \ {d} : bad'[e] = bad[e]
      /\ bad[d] = MaxFailures => bad'[d] = MaxFailures
      /\ bad'[d] < MaxFailures => m.failures <= bad'[d]
      /\ Enough(m.failures) => bad'[d] = MaxFailures
  BY CountedInStep
<1>3. CountsInStep' /\ (\A e \in known : Tracked(e))'
  BY <1>1, <1>2, Typing DEF AvailInv, CountsInStep, Tracked
<1>4. CASE Enough(m.failures) /\ avail[d] # "offline"
  <2>1. Decide(t, d, "offline") /\ Justified(d)'
    BY <1>1, <1>2, <1>4 DEF JudgeFailure, Justified
  <2>2. crossed' \subseteq Devices /\ \A e \in Devices \ crossed' : OneSpeaker(e)'
    BY <2>1, DecisionSpeaks
  <2> QED BY <1>1, <1>2, <1>3, <2>1, <2>2, DecisionKeeps
<1>5. CASE ~(Enough(m.failures) /\ avail[d] # "offline")
  <2>1. UNCHANGED job /\ (Justified(d) => Justified(d)')
    BY <1>1, <1>2, <1>5 DEF JudgeFailure, Justified
  <2>2. crossed' \subseteq Devices /\ \A e \in Devices \ crossed' : OneSpeaker(e)'
    BY <2>1, TouchDoes, AllSpeak
  <2> QED BY <1>1, <1>2, <1>3, <2>1, <2>2, NoDecisionKeeps
<1> QED BY <1>4, <1>5

LEMMA DeliveryKeeps ==
  ASSUME AvailInv, NEW d \in Devices, report_delivery_failure(d) PROVE AvailInv'
<1>1. /\ Free("zigbee") /\ d \in known /\ Event
      /\ meta' = [meta EXCEPT ![d].failures = Count(meta[d].failures)]
      /\ JudgeFailure("zigbee", d) /\ Counted(d) /\ Touch("zigbee", d)
      /\ UNCHANGED <<known, avail, told, phase, todo, forced, unheard, answered>>
  BY DEF report_delivery_failure, tracker
<1> DEFINE f == Count(meta[d].failures)
           m == [meta[d] EXCEPT !.failures = f]
<1>2. meta \in [Devices -> Metas] /\ meta[d] \in Metas /\ meta[d].backoff # 0
  BY <1>1, Typing DEF AvailInv, Tracked
<1>3. f \in 0 .. CounterSize - 1
  BY <1>2, CountType DEF Metas
<1>4. meta' = [meta EXCEPT ![d] = m]
  BY <1>1, <1>2
<1> HIDE DEF f
<1>5. m \in Metas /\ m.failures = f /\ m.backoff # 0
  BY <1>2, <1>3 DEF Metas
<1> HIDE DEF m
<1>6. /\ Deciding' /\ job' \in [Tasks -> Jobs] /\ raced' \subseteq Devices
      /\ \A e \in Devices \ raced' : OneWorker(e)'
      /\ meta' \in [Devices -> Metas] /\ bad' \in [Devices -> 0 .. MaxFailures]
      /\ CountsInStep' /\ (\A e \in known : Tracked(e))'
      /\ crossed' \subseteq Devices /\ \A e \in Devices \ crossed' : OneSpeaker(e)'
  BY <1>1, <1>4, <1>5, FailureKeeps DEF Tasks, f
<1>7. Types'
  BY <1>1, <1>6, Typing, EventType DEF Types
<1> QED BY <1>6, <1>7, TypesAreTypes DEF AvailInv

LEMMA TimeoutKeeps ==
  ASSUME AvailInv, NEW d \in Devices, handle_timeout(d) PROVE AvailInv'
<1>1. /\ Free("tracker") /\ todo' = todo \ {d} /\ Touch("tracker", d)
      /\ UNCHANGED <<known, avail, told, phase, forced, unheard, answered, events>>
  BY DEF handle_timeout
<1>2. CASE d \in known
  <2>1. /\ meta' = [meta EXCEPT ![d] = OnTimeout(meta[d])]
        /\ JudgeFailure("tracker", d) /\ Counted(d)
    BY <1>2 DEF handle_timeout
  <2>2. meta[d] \in Metas
    BY Typing
  <2>3. /\ OnTimeout(meta[d]) \in Metas
        /\ OnTimeout(meta[d]).failures = Count(meta[d].failures)
        /\ OnTimeout(meta[d]).backoff # 0
    BY <2>2, MetaSteps
  <2>4. /\ Deciding' /\ job' \in [Tasks -> Jobs] /\ raced' \subseteq Devices
        /\ \A e \in Devices \ raced' : OneWorker(e)'
        /\ meta' \in [Devices -> Metas] /\ bad' \in [Devices -> 0 .. MaxFailures]
        /\ CountsInStep' /\ (\A e \in known : Tracked(e))'
        /\ crossed' \subseteq Devices /\ \A e \in Devices \ crossed' : OneSpeaker(e)'
    BY <1>1, <1>2, <2>1, <2>3, FailureKeeps DEF Tasks
  <2>5. Types'
    BY <1>1, <2>4, Typing DEF Types
  <2> QED BY <2>4, <2>5, TypesAreTypes DEF AvailInv
<1>3. CASE d \notin known
  <2>1. UNCHANGED <<meta, job, bad>>
    BY <1>3 DEF handle_timeout
  <2>2. /\ raced \subseteq raced' /\ raced' \subseteq Devices
        /\ crossed \subseteq crossed' /\ crossed' \subseteq Devices
    BY <1>1, TouchDoes DEF Tasks
  <2>3. /\ Deciding' /\ \A e \in Devices \ raced' : OneWorker(e)'
        /\ \A e \in Devices \ crossed' : OneSpeaker(e)'
    BY <1>1, <2>1, <2>2, AllApart, AllSpeak
  <2>4. Types'
    BY <1>1, <2>1, <2>2, Typing DEF Types
  <2>5. CountsInStep' /\ (\A e \in known : Tracked(e))'
    BY <1>1, <2>1, CountersKeep
  <2> QED BY <2>3, <2>4, <2>5, TypesAreTypes DEF AvailInv
<1> QED BY <1>2, <1>3

LEMMA LeaveKeeps ==
  ASSUME AvailInv, NEW d \in Devices, Leave(d) PROVE AvailInv'
<1>1. /\ Free("zigbee") /\ Event /\ known' = known \ {d}
      /\ meta' = [meta EXCEPT ![d] = Untracked]
      /\ avail' = [avail EXCEPT ![d] = "unknown"]
      /\ told' = [told EXCEPT ![d] = "unknown"]
      /\ unheard' = unheard \ {d} /\ Heard(d) /\ Touch("zigbee", d)
      /\ UNCHANGED <<job, phase, todo, answered>>
  BY DEF Leave, tracker
<1>2. /\ avail' \in [Devices -> States] /\ told' \in [Devices -> States]
      /\ avail'[d] = "unknown" /\ told'[d] = "unknown"
      /\ \A e \in Devices \ {d} : avail'[e] = avail[e] /\ told'[e] = told[e]
  BY <1>1, Typing DEF States
<1>3. /\ bad' \in [Devices -> 0 .. MaxFailures] /\ bad'[d] = 0 /\ forced' \subseteq Devices
      /\ \A e \in Devices \ {d} : bad'[e] = bad[e] /\ (e \in forced' <=> e \in forced)
  BY <1>1, HeardDoes
<1>4. /\ Deciding' /\ job' \in [Tasks -> Jobs] /\ raced' \subseteq Devices
      /\ \A e \in Devices \ raced' : OneWorker(e)'
  BY <1>1, <1>2, <1>3, NoDecisionKeeps DEF Tasks
<1>8. crossed' \subseteq Devices /\ \A e \in Devices \ crossed' : OneSpeaker(e)'
  <2>1. crossed \subseteq crossed' /\ crossed' \subseteq Devices
    BY <1>1, TouchDoes DEF Tasks
  <2>2. ASSUME NEW e \in Devices \ crossed' PROVE OneSpeaker(e)'
    <3>1. OneSpeaker(e)
      BY <2>1 DEF AvailInv
    <3>2. CASE e # d
      BY <1>1, <1>2, <3>1, <3>2, ApartSpeaks
    <3>3. CASE e = d
      <4>1. \A t \in Tasks : Works(t, d)' <=> Works(t, d)
        BY <1>1 DEF Works
      <4>2. ~Works("zigbee", d)
        BY <1>1 DEF Free, AvailInv, Deciding, Works, Tasks
      <4> QED BY <1>1, <1>2, <3>1, <3>3, <4>1, <4>2 DEF OneSpeaker, Steady, Tasks
    <3> QED BY <3>2, <3>3
  <2> QED BY <2>1, <2>2
<1>5. /\ meta' \in [Devices -> Metas] /\ meta'[d].failures = 0
      /\ \A e \in Devices \ {d} : meta'[e] = meta[e]
  BY <1>1, FreshType, MetaDoes
<1>6. Types'
  BY <1>1, <1>2, <1>3, <1>4, <1>5, <1>8, Typing, EventType DEF Types
<1>7. CountsInStep' /\ (\A e \in known : Tracked(e))'
  BY <1>1, <1>3, <1>5, Typing DEF AvailInv, CountsInStep, Tracked
<1> QED BY <1>4, <1>6, <1>7, <1>8, TypesAreTypes DEF AvailInv

LEMMA MarkKeeps ==
  ASSUME AvailInv, NEW d \in Devices, mark_offline(d) PROVE AvailInv'
<1>1. /\ Free("interview") /\ d \in known /\ Event /\ Decide("interview", d, "offline")
      /\ forced' = forced \cup {d} /\ Touch("interview", d)
      /\ UNCHANGED <<known, meta, avail, told, phase, todo, bad, unheard, answered>>
  BY DEF mark_offline, tracker
<1>2. /\ Deciding' /\ job' \in [Tasks -> Jobs] /\ raced' \subseteq Devices
      /\ \A e \in Devices \ raced' : OneWorker(e)'
  BY <1>1, DecisionKeeps DEF Tasks, Justified
<1>5. crossed' \subseteq Devices /\ \A e \in Devices \ crossed' : OneSpeaker(e)'
  BY <1>1, DecisionSpeaks DEF Tasks
<1>3. Types'
  BY <1>1, <1>2, <1>5, Typing, EventType DEF Types
<1>4. CountsInStep' /\ (\A e \in known : Tracked(e))'
  BY <1>1, CountersKeep
<1> QED BY <1>2, <1>3, <1>4, <1>5, TypesAreTypes DEF AvailInv

\* Steps that only say something about pings and time.
LEMMA AsideKeeps ==
  ASSUME AvailInv, UNCHANGED <<known, avail, told, job, bad, forced, unheard>>,
         raced \subseteq raced', raced' \subseteq Devices,
         crossed \subseteq crossed', crossed' \subseteq Devices, todo' \subseteq Devices,
         answered' \subseteq Devices, events' \in 0 .. MaxEvents,
         phase' \in {"sleep", "timeouts", "checks", "stopped"},
         meta' \in [Devices -> Metas],
         \A e \in Devices : /\ meta'[e].failures = meta[e].failures
                            /\ meta'[e].backoff = meta[e].backoff
  PROVE  AvailInv'
<1>1. /\ Deciding' /\ \A e \in Devices \ raced' : OneWorker(e)'
      /\ \A e \in Devices \ crossed' : OneSpeaker(e)'
  BY AllApart, AllSpeak
<1>2. Types'
  BY Typing DEF Types
<1>3. CountsInStep' /\ (\A e \in known : Tracked(e))'
  BY CountersKeep
<1> QED BY <1>1, <1>2, <1>3, TypesAreTypes DEF AvailInv

LEMMA PingsKeep ==
  ASSUME AvailInv, NEW d \in Devices,
         ManualCheck(d) \/ Ping(d) \/ ReadResponse(d) \/ CheckDue(d) \/ PingExpires(d)
  PROVE  AvailInv'
<1> USE DEF tracker, history
<1>1. CASE ManualCheck(d)
  <2>1. /\ raced \subseteq raced' /\ raced' \subseteq Devices
        /\ crossed \subseteq crossed' /\ crossed' \subseteq Devices
    BY <1>1, TouchDoes DEF ManualCheck, Tasks
  <2>2. events' \in 0 .. MaxEvents /\ answered' \subseteq Devices
    BY <1>1, EventType, Typing DEF ManualCheck
  <2>3. /\ meta' \in [Devices -> Metas]
        /\ \A e \in Devices : /\ meta'[e].failures = meta[e].failures
                              /\ meta'[e].backoff = meta[e].backoff
    BY <1>1, PendingDoes DEF ManualCheck
  <2> QED BY <1>1, <2>1, <2>2, <2>3, AsideKeeps, Typing DEF ManualCheck
<1>2. CASE Ping(d)
  <2>1. /\ UNCHANGED <<known, avail, told, job, phase, bad, forced, raced, crossed,
                       unheard>>
        /\ todo' = todo \ {d} /\ check_device(d)
    BY <1>2 DEF Ping
  <2>2. \/ /\ meta' = [meta EXCEPT ![d].pending = TRUE, ![d].expired = FALSE]
           /\ answered' = answered \ {d} /\ UNCHANGED events
        \/ UNCHANGED <<meta, answered>> /\ (Event \/ UNCHANGED events)
    BY <2>1 DEF check_device
  <2>3. /\ meta' \in [Devices -> Metas]
        /\ \A e \in Devices : /\ meta'[e].failures = meta[e].failures
                              /\ meta'[e].backoff = meta[e].backoff
    BY <2>2, PendingDoes, Typing
  <2>4. answered' \subseteq Devices /\ events' \in 0 .. MaxEvents
    BY <2>2, EventType, Typing
  <2> QED BY <2>1, <2>3, <2>4, AsideKeeps, Typing
<1>3. CASE ReadResponse(d)
  <2>1. events' \in 0 .. MaxEvents /\ answered' \subseteq Devices
    BY <1>3, EventType, Typing DEF ReadResponse
  <2> QED BY <1>3, <2>1, AsideKeeps, Typing DEF ReadResponse
<1>4. CASE CheckDue(d) \/ PingExpires(d)
  <2>1. /\ meta' \in [Devices -> Metas]
        /\ \A e \in Devices : /\ meta'[e].failures = meta[e].failures
                              /\ meta'[e].backoff = meta[e].backoff
    BY <1>4, PendingDoes DEF CheckDue, PingExpires
  <2> QED BY <1>4, <2>1, AsideKeeps, Typing DEF CheckDue, PingExpires
<1> QED BY <1>1, <1>2, <1>3, <1>4

LEMMA PhasesKeep ==
  ASSUME AvailInv,
         CollectTimeouts \/ CollectChecks \/ Sleep \/ zb_availability_start
  PROVE  AvailInv'
<1>1. /\ UNCHANGED <<known, meta, avail, told, job, bad, forced, raced, crossed,
                     unheard, answered, events>>
      /\ phase' \in {"sleep", "timeouts", "checks", "stopped"}
      /\ todo' \subseteq Devices
  BY Typing DEF CollectTimeouts, CollectChecks, Sleep, zb_availability_start,
                history, ToCheck
<1> QED BY <1>1, AsideKeeps, Typing

LEMMA StopKeeps == AvailInv /\ zb_availability_stop => AvailInv'
<1> SUFFICES ASSUME AvailInv, zb_availability_stop PROVE AvailInv'
  OBVIOUS
<1>1. /\ Event /\ phase' = "stopped" /\ todo' = {}
      /\ job' = [job EXCEPT !["tracker"] = Idle]
      /\ raced' = raced \cup ({job["tracker"].dev} \ {None})
      /\ unheard' = unheard \cup ({job["tracker"].dev} \ {None})
      /\ UNCHANGED <<known, meta, avail, told, bad, forced, crossed, answered>>
  BY DEF zb_availability_stop
<1>2. /\ Idle \in Jobs /\ Idle.pc = "idle" /\ Idle.dev = None
  BY DEF Idle, Jobs, States
<1>3. /\ job' \in [Tasks -> Jobs] /\ job'["tracker"] = Idle
      /\ \A u \in Tasks \ {"tracker"} : job'[u] = job[u]
  BY <1>1, <1>2, Typing DEF Tasks
<1>4. Deciding'
  BY <1>2, <1>3 DEF AvailInv, Deciding
<1>5. raced \subseteq raced' /\ raced' \subseteq Devices /\ unheard' \subseteq Devices
  <2>1. job["tracker"].dev \in Devices \cup {None}
    BY Typing DEF Jobs, Tasks
  <2> QED BY <1>1, <2>1, Typing
<1>6. ASSUME NEW d \in Devices \ raced' PROVE OneWorker(d)'
  <2>1. OneWorker(d)
    BY <1>5 DEF AvailInv
  <2>2. ~Works("tracker", d) /\ ~Works("tracker", d)'
    BY <1>1, <1>2, <1>3, NoneAssumption DEF Works, Tasks
  <2> QED BY <1>1, <1>3, <2>1, <2>2, Apart
<1>9. ASSUME NEW d \in Devices \ crossed' PROVE OneSpeaker(d)'
  <2>1. OneSpeaker(d)
    BY <1>1 DEF AvailInv
  <2>2. CASE Works("tracker", d)
    <3>1. d \in unheard' /\ \A t \in Tasks : ~Works(t, d)'
      BY <1>1, <1>2, <1>3, <2>1, <2>2 DEF OneSpeaker, Works, Tasks
    <3> QED BY <1>1, <2>1, <3>1 DEF OneSpeaker, Tasks
  <2>3. CASE ~Works("tracker", d)
    <3>1. ~Works("tracker", d)'
      BY <1>2, <1>3 DEF Works
    <3> QED BY <1>1, <1>3, <2>1, <2>3, <3>1, ApartSpeaks
  <2> QED BY <2>2, <2>3
<1>7. Types'
  BY <1>1, <1>3, <1>5, Typing, EventType DEF Types
<1>8. CountsInStep' /\ (\A e \in known : Tracked(e))'
  BY <1>1, CountersKeep
<1> QED BY <1>4, <1>6, <1>7, <1>8, <1>9, TypesAreTypes DEF AvailInv

\* set_device_state() of the one task that works on a device.
LEMMA SetStateKeeps ==
  ASSUME AvailInv, NEW t \in Tasks, SetState(t), NEW d, d = job[t].dev
  PROVE  AvailInv'
<1>1. /\ job[t].pc # "idle" /\ d \in Devices /\ job[t].new \in {"online", "offline"}
      /\ job[t] \in Jobs
  <2>1. job[t].pc # "idle"
    BY DEF SetState, WriteRecord, device_registry_set_online, Publish
  <2>2. job[t] \in Jobs
    BY Typing
  <2> QED BY <2>1, <2>2 DEF AvailInv, Deciding, Jobs
<1>2. /\ Touch(t, d)
      /\ UNCHANGED <<known, meta, phase, todo, bad, forced, answered>>
      /\ UNCHANGED events \/ Event
  BY DEF SetState, WriteRecord, device_registry_set_online, Publish, tracker
<1>3. /\ raced' \subseteq Devices /\ raced \subseteq raced'
      /\ d \notin raced' => \A u \in Tasks \ {t} : ~Works(u, d)
      /\ crossed' \subseteq Devices /\ crossed \subseteq crossed'
  BY <1>1, <1>2, TouchDoes
<1>4. ASSUME NEW pc \in {"registry", "publish"}, job' = [job EXCEPT ![t].pc = pc]
      PROVE  /\ job' \in [Tasks -> Jobs] /\ \A u \in Tasks \ {t} : job'[u] = job[u]
             /\ job'[t].dev = d /\ job'[t].new = job[t].new /\ job'[t].pc = pc
  <2>1. [job[t] EXCEPT !.pc = pc] \in Jobs
    BY <1>1, <1>4 DEF Jobs
  <2> QED BY <1>1, <1>4, <2>1, Typing DEF Jobs
<1>5. ASSUME job' = [job EXCEPT ![t] = Idle]
      PROVE  /\ job' \in [Tasks -> Jobs] /\ \A u \in Tasks \ {t} : job'[u] = job[u]
             /\ job'[t].dev = None /\ job'[t].pc = "idle"
  <2>1. Idle \in Jobs /\ Idle.dev = None /\ Idle.pc = "idle"
    BY DEF Idle, Jobs, States
  <2> QED BY <1>5, <2>1, Typing
<1>6. d \notin raced' =>
        /\ OneWorker(d) /\ Works(t, d) /\ \A u \in Tasks \ {t} : ~Works(u, d)
        /\ job[t].pc # "decided" => avail[d] = job[t].new
        /\ IF job[t].new = "online" THEN bad[d] = 0 ELSE Justified(d)
  BY <1>1, <1>3 DEF AvailInv, OneWorker, Works
<1>7. Justified(d)' <=> Justified(d)
  BY <1>2 DEF Justified
<1>8. avail \in [Devices -> States] /\ told \in [Devices -> States]
  BY Typing
<1> DEFINE Moves ==
             /\ job' \in [Tasks -> Jobs] /\ \A u \in Tasks \ {t} : job'[u] = job[u]
             /\ \/ job'[t].dev = None /\ job'[t].pc = "idle"
                \/ /\ job'[t].dev = d /\ job'[t].pc \in {"registry", "publish"}
                   /\ job'[t].new = job[t].new
           Sets ==
             /\ avail' \in [Devices -> States] /\ told' \in [Devices -> States]
             /\ \A e \in Devices \ {d} : avail'[e] = avail[e] /\ told'[e] = told[e]
<1>14. d \notin crossed' =>
        /\ OneSpeaker(d) /\ Works(t, d) /\ \A u \in Tasks \ {t} : ~Works(u, d)
        /\ job[t].new = "online" => d \in known
  BY <1>1, <1>3 DEF AvailInv, Deciding, OneSpeaker, Works
<1> DEFINE Good == /\ d \notin raced' => OneWorker(d)'
                   /\ d \notin crossed' => OneSpeaker(d)'
<1>9. Moves /\ Sets /\ Good /\ unheard' \subseteq Devices
      /\ \A e \in Devices \ {d} : e \in unheard' <=> e \in unheard
  <2>1. CASE WriteRecord(t) /\ avail[d] = job[t].new
    <3>1. UNCHANGED <<avail, told, unheard>> /\ job' = [job EXCEPT ![t] = Idle]
          /\ job[t].pc = "decided"
      BY <2>1 DEF WriteRecord
    <3>2. ASSUME d \notin raced' PROVE OneWorker(d)'
      <4>1. \A u \in Tasks : ~Works(u, d)'
        BY <1>1, <1>5, <1>6, <3>1, <3>2 DEF Works
      <4>2. avail[d] = "offline" => Justified(d)
        BY <1>6, <2>1, <3>2
      <4> QED BY <1>7, <3>1, <4>1, <4>2 DEF OneWorker
    <3>3. ASSUME d \notin crossed' PROVE OneSpeaker(d)'
      <4>1. \A u \in Tasks : ~Works(u, d)'
        BY <1>1, <1>5, <1>14, <3>1, <3>3 DEF Works
      <4>2. told[d] = avail[d] \/ d \in unheard
        BY <1>14, <2>1, <3>1, <3>3 DEF OneSpeaker
      <4>3. d \notin known => avail[d] # "online"
        BY <1>14, <3>3 DEF OneSpeaker
      <4> QED BY <1>2, <3>1, <4>1, <4>2, <4>3 DEF OneSpeaker, Tasks
    <3> QED BY <1>5, <1>8, <3>1, <3>2, <3>3, Typing
  <2>2. CASE WriteRecord(t) /\ avail[d] # job[t].new
    <3>1. /\ avail' = [avail EXCEPT ![d] = job[t].new] /\ told' = told
          /\ job' = [job EXCEPT ![t].pc = "registry"] /\ unheard' = unheard
      BY <2>2 DEF WriteRecord
    <3>2. Sets /\ avail'[d] = job[t].new
      BY <1>1, <1>8, <3>1 DEF States
    <3>3. ASSUME d \notin raced' PROVE OneWorker(d)'
      <4>1. Works(t, d)' /\ \A u \in Tasks \ {t} : ~Works(u, d)'
        BY <1>4, <1>6, <3>1, <3>3 DEF Works
      <4> QED BY <1>1, <1>2, <1>4, <1>6, <1>7, <3>1, <3>2, <3>3, <4>1 DEF OneWorker
    <3>4. ASSUME d \notin crossed' PROVE OneSpeaker(d)'
      <4>1. Works(t, d)' /\ \A u \in Tasks \ {t} : ~Works(u, d)'
        BY <1>4, <1>14, <3>1, <3>4 DEF Works
      <4>2. job'[t].pc = "registry" /\ avail'[d] = job'[t].new
        BY <1>4, <3>1, <3>2
      <4>3. Works("zigbee", d)' => d \in known
        BY <1>14, <3>4, <4>1 DEF OneSpeaker, Tasks
      <4>4. d \notin known => avail'[d] # "online"
        BY <1>14, <3>2, <3>4
      <4>5. ~Steady(d)'
        BY <4>1 DEF Steady
      <4> QED BY <1>2, <4>1, <4>2, <4>3, <4>4, <4>5 DEF OneSpeaker
    <3> QED BY <1>4, <3>1, <3>2, <3>3, <3>4, Typing
  <2>3. CASE device_registry_set_online(t)
    <3>1. /\ avail' = [avail EXCEPT ![d] =
                         IF d \notin known THEN @
                         ELSE IF job[t].new = "online" THEN "online" ELSE "offline"]
          /\ told' = told /\ job' = [job EXCEPT ![t].pc = "publish"]
          /\ job[t].pc = "registry" /\ unheard' = unheard
      BY <2>3 DEF device_registry_set_online
    <3>2. /\ Sets /\ avail'[d] \in {avail[d], job[t].new}
          /\ d \in known => avail'[d] = job[t].new
          /\ d \notin known => avail'[d] = avail[d]
      BY <1>1, <1>8, <3>1 DEF States
    <3>3. ASSUME d \notin raced' PROVE OneWorker(d)'
      <4>1. Works(t, d)' /\ \A u \in Tasks \ {t} : ~Works(u, d)'
        BY <1>4, <1>6, <3>1, <3>3 DEF Works
      <4> QED BY <1>1, <1>2, <1>4, <1>6, <1>7, <3>1, <3>2, <3>3, <4>1 DEF OneWorker
    <3>4. ASSUME d \notin crossed' PROVE OneSpeaker(d)'
      <4>1. Works(t, d)' /\ \A u \in Tasks \ {t} : ~Works(u, d)'
        BY <1>4, <1>14, <3>1, <3>4 DEF Works
      <4>2. job'[t].pc = "publish" /\ (d \in known => avail'[d] = job'[t].new)
        BY <1>4, <3>1, <3>2
      <4>3. Works("zigbee", d)' => d \in known
        BY <1>14, <3>4, <4>1 DEF OneSpeaker, Tasks
      <4>4. d \notin known => avail'[d] # "online"
        BY <1>14, <3>2, <3>4 DEF OneSpeaker
      <4>5. ~Steady(d)'
        BY <4>1 DEF Steady
      <4> QED BY <1>2, <4>1, <4>2, <4>3, <4>4, <4>5 DEF OneSpeaker
    <3> QED BY <1>4, <3>1, <3>2, <3>3, <3>4, Typing
  <2>4. CASE Publish(t)
    <3>1. /\ avail' = avail /\ job' = [job EXCEPT ![t] = Idle]
          /\ job[t].pc = "publish"
          /\ \/ /\ told' = [told EXCEPT ![d] = job[t].new]
                /\ unheard' = unheard \ {d}
             \/ told' = told /\ unheard' = unheard \cup {d}
      BY <2>4 DEF Publish
    <3>2. Sets /\ (told'[d] = job[t].new \/ d \in unheard')
      BY <1>1, <1>8, <3>1 DEF States
    <3>3. ASSUME d \notin raced' PROVE OneWorker(d)'
      <4>1. \A u \in Tasks : ~Works(u, d)'
        BY <1>1, <1>5, <1>6, <3>1, <3>3 DEF Works
      <4>2. avail[d] = job[t].new /\ (avail[d] = "offline" => Justified(d))
        BY <1>6, <3>1, <3>3
      <4> QED BY <1>7, <3>1, <4>1, <4>2 DEF OneWorker
    <3>4. ASSUME d \notin crossed' PROVE OneSpeaker(d)'
      <4>1. \A u \in Tasks : ~Works(u, d)'
        BY <1>1, <1>5, <1>14, <3>1, <3>4 DEF Works
      <4>2. d \in known => avail[d] = job[t].new
        BY <1>14, <3>1, <3>4 DEF OneSpeaker
      <4>3. d \notin known => avail[d] # "online"
        BY <1>14, <3>4 DEF OneSpeaker
      <4> QED BY <1>2, <3>1, <3>2, <4>1, <4>2, <4>3 DEF OneSpeaker, Steady, Tasks
    <3>5. unheard' \subseteq Devices
      BY <1>1, <3>1, Typing
    <3> QED BY <1>5, <3>1, <3>2, <3>3, <3>4, <3>5
  <2> QED BY <2>1, <2>2, <2>3, <2>4 DEF SetState
<1>10. Deciding'
  BY <1>1, <1>9 DEF AvailInv, Deciding
<1>11. ASSUME NEW e \in Devices \ raced', e # d PROVE OneWorker(e)'
  <2>1. OneWorker(e)
    BY <1>3 DEF AvailInv
  <2>2. ~Works(t, e) /\ ~Works(t, e)'
    BY <1>9, <1>11 DEF Works
  <2> QED BY <1>2, <1>9, <1>11, <2>1, <2>2, Apart
<1>15. ASSUME NEW e \in Devices \ crossed', e # d PROVE OneSpeaker(e)'
  <2>1. OneSpeaker(e)
    BY <1>3 DEF AvailInv
  <2>2. ~Works(t, e) /\ ~Works(t, e)'
    BY <1>9, <1>15 DEF Works
  <2> QED BY <1>2, <1>9, <1>15, <2>1, <2>2, ApartSpeaks
<1>12. Types'
  <2>1. events' \in 0 .. MaxEvents
    BY <1>2, EventType, Typing
  <2> QED BY <1>2, <1>3, <1>9, <2>1, Typing DEF Types
<1>13. CountsInStep' /\ (\A e \in known : Tracked(e))'
  BY <1>2, CountersKeep
<1> QED BY <1>9, <1>10, <1>11, <1>12, <1>13, <1>15, TypesAreTypes DEF AvailInv

-------------------------------------------------------------------------------
LEMMA InitialAvail == Init => AvailInv
<1> SUFFICES ASSUME Init PROVE AvailInv
  OBVIOUS
<1>1. /\ known = Devices /\ meta = [d \in Devices |-> Fresh(Power(d))]
      /\ avail = [d \in Devices |-> "online"] /\ told = [d \in Devices |-> "online"]
      /\ job = [t \in Tasks |-> Idle] /\ phase = "sleep" /\ todo = {}
      /\ bad = [d \in Devices |-> 0] /\ forced = {} /\ raced = {} /\ answered = {}
      /\ events = 0 /\ crossed = {} /\ unheard = {}
  BY DEF Init
<1>2. \A d \in Devices : Power(d) \in {"mains", "battery", "unknown"}
  BY DEF Power
<1>3. \A d \in Devices : /\ Fresh(Power(d)) \in Metas
                         /\ Fresh(Power(d)).failures = 0
                         /\ Fresh(Power(d)).backoff # 0
  BY <1>2, FreshType
<1>4. Idle \in Jobs /\ Idle.pc = "idle" /\ Idle.dev = None
  BY DEF Idle, Jobs, States
<1>5. TypeOK
  <2>1. meta \in [Devices -> Metas] /\ job \in [Tasks -> Jobs]
    BY <1>1, <1>3, <1>4
  <2>2. avail \in [Devices -> States] /\ told \in [Devices -> States]
        /\ bad \in [Devices -> 0 .. MaxFailures] /\ events \in 0 .. MaxEvents
    BY <1>1 DEF States
  <2> QED BY <1>1, <2>1, <2>2, TypesAreTypes DEF Types
<1>6. Deciding
  BY <1>1, <1>4 DEF Deciding
<1>7. CountsInStep /\ \A d \in known : Tracked(d)
  BY <1>1, <1>3 DEF CountsInStep, Tracked
<1>8. \A d \in Devices : OneWorker(d) /\ OneSpeaker(d)
  BY <1>1, <1>4 DEF OneWorker, OneSpeaker, Works, Steady, Tasks
<1> QED BY <1>5, <1>6, <1>7, <1>8 DEF AvailInv

LEMMA AvailStep == AvailInv /\ [Next]_vars => AvailInv'
<1> SUFFICES ASSUME AvailInv, [Next]_vars PROVE AvailInv'
  OBVIOUS
<1>1. ASSUME NEW t \in Tasks, SetState(t) PROVE AvailInv'
  BY <1>1, SetStateKeeps
<1>2. ASSUME NEW d \in Devices, Zigbee(d) \/ mark_offline(d) \/ ManualCheck(d)
      PROVE  AvailInv'
  BY <1>2, JoinKeeps, RejoinKeeps, LeaveKeeps, FrameKeeps, DeliveryKeeps, PingsKeep,
     MarkKeeps DEF Zigbee
<1>3. CASE Loop
  BY <1>3, PhasesKeep, TimeoutKeeps, PingsKeep DEF Loop
<1>4. CASE zb_availability_stop \/ zb_availability_start
  BY <1>4, StopKeeps, PhasesKeep
<1>5. ASSUME NEW d \in Devices, CheckDue(d) \/ PingExpires(d) PROVE AvailInv'
  BY <1>5, PingsKeep
<1>6. CASE UNCHANGED vars
  <2>1. UNCHANGED <<known, meta, avail, told, job, phase, todo, bad, forced, raced,
                    crossed, unheard, answered, events>>
    BY <1>6 DEF vars, tracker, history
  <2> QED BY <2>1, AsideKeeps, Typing
<1> QED BY <1>1, <1>2, <1>3, <1>4, <1>5, <1>6 DEF Next

LEMMA AvailInvariance == Spec => []AvailInv
<1> QED BY InitialAvail, AvailStep, PTL DEF Spec

(***************************************************************************)
(* Every variable keeps its type: in particular the backoff stays a power  *)
(* of two up to its limit and the failures fit their counter.              *)
(***************************************************************************)
THEOREM TypeCorrect == Spec => []TypeOK
<1>1. AvailInv => TypeOK
  BY DEF AvailInv
<1> QED BY <1>1, AvailInvariance, PTL

(***************************************************************************)
(* What was last published of a device in the registry is what its record  *)
(* says, also when other tasks worked on it in the middle of a             *)
(* set_device_state() and when it left and came back there: unless two     *)
(* set_device_state() of it overlapped, or its last one was refused by the *)
(* bus or cut off and none was published since.                            *)
(***************************************************************************)
THEOREM PublicationsMatch == Spec => []PublishedMatches
<1>1. AvailInv => PublishedMatches
  BY DEF AvailInv, OneSpeaker, PublishedMatches
<1> QED BY <1>1, AvailInvariance, PTL

(***************************************************************************)
(* A device is offline only after MAX_FAILURES failures since its last     *)
(* frame or a failed interview, also when its 8-bit counter has wrapped.   *)
(***************************************************************************)
THEOREM OfflineIsEarned == Spec => []OfflineEarned
<1>1. AvailInv => OfflineEarned
  <2> SUFFICES ASSUME AvailInv, NEW d \in Devices, Settled(d), avail[d] = "offline",
                      d \notin forced
               PROVE  bad[d] >= MaxFailures
    BY DEF OfflineEarned
  <2>1. \A t \in Tasks : ~Works(t, d)
    BY DEF Settled, Steady
  <2>2. bad[d] = MaxFailures
    BY <2>1 DEF AvailInv, OneWorker, Settled, Justified
  <2> QED BY <2>2
<1> QED BY <1>1, AvailInvariance, PTL

(***************************************************************************)
(* Only a frame brings a device back: no timer, no manual check and no     *)
(* restart of the tracker sets an offline device online.                   *)
(***************************************************************************)
THEOREM OnlyFramesBringBack == Spec => BackByFrame
<1> DEFINE Back == \A d \in known : avail[d] = "offline" /\ avail'[d] = "online" =>
                                      bad[d] = 0 \/ d \in raced'
<1>1. AvailInv /\ [Next]_vars => [Back]_vars
  <2> SUFFICES ASSUME AvailInv, [Next]_vars, NEW d \in known, avail[d] = "offline",
                      avail'[d] = "online", d \notin raced'
               PROVE  bad[d] = 0
    OBVIOUS
  <2>1. d \in Devices /\ avail \in [Devices -> States]
    BY Typing
  <2>2. PICK t \in Tasks : SetState(t)
    <3>1. ASSUME NEW e \in Devices, Leave(e) PROVE FALSE
      BY <2>1, <3>1 DEF Leave
    <3> QED BY <3>1 DEF Next, Zigbee, Join, Rejoin, update_last_seen,
              report_delivery_failure, ReadResponse, mark_offline, ManualCheck, Loop,
              CollectTimeouts, CollectChecks, Sleep, handle_timeout, Ping,
              zb_availability_stop, zb_availability_start, CheckDue, PingExpires, vars
  <2>3. job[t].dev = d /\ job[t].new = "online" /\ Touch(t, d)
    BY <2>1, <2>2 DEF SetState, WriteRecord, device_registry_set_online, Publish
  <2>4. raced \subseteq raced'
    BY <2>1, <2>3, TouchDoes
  <2> QED BY <2>1, <2>3, <2>4 DEF AvailInv, OneWorker, Works
<1> QED BY <1>1, AvailInvariance, PTL DEF Spec, BackByFrame
=============================================================================
