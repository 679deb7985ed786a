------------------------------ MODULE Membership ------------------------------
(***************************************************************************)
(* Devices join, move to another short address, and leave.  The registry   *)
(* knows a device by its IEEE address; frames, the converter registry      *)
(* (zb_converter_registry.c), the Tuya driver registry                     *)
(* (tuya_driver_registry.c) and the availability tracker know it by its    *)
(* short address.  zb_rejoin_helper.c and zb_leave_helper.c keep the four  *)
(* in step, one call after the other, each under the mutex of its own.     *)
(*                                                                         *)
(* The Zigbee task runs the stack's signals and reports; a remover (the    *)
(* bridge's request task, the ESPHome task) removes a device; the task     *)
(* that ends an interview looks its converter up on LittleFS and binds it. *)
(* The network may give a device another address unnoticed, and the        *)
(* address of a device that left to another one.                           *)
(*                                                                         *)
(* A converter, or a driver, stands for the model it is made for: each     *)
(* device has a model, and so a converter, of its own.                     *)
(***************************************************************************)
EXTENDS NetworkDevices, Integers, FiniteSets

CONSTANTS
  Tuya,           \* those a Tuya driver matches
  Addrs,          \* short addresses
  MaxBindings,    \* ZB_CONVERTER_MAX_BINDINGS
  MaxDevices,     \* DEVICE_REGISTRY_MAX_DEVICES, the slots of the registry
  MaxMoves        \* bound: changes of the network

ASSUME AddressAssumption ==
  /\ Tuya \subseteq Devices
  /\ None \notin Addrs /\ Devices \cap Addrs = {}
ASSUME CapacityAssumption == {MaxBindings, MaxDevices, MaxMoves} \subseteq Nat

VARIABLES
  net,            \* the stack: the short address of each device in the network
  rec,            \* the registry: the record of each device
  bound,          \* s_bindings of the converter registry, by address
  driver,         \* s_bindings of the Tuya driver registry, by address
  kept,           \* the driver of each device on flash
  handler,        \* per task, the handler it is in the middle of
  loose,          \* history: addresses at which two records have met, those
                  \* of a device two tasks were at work on, and such devices
  moves           \* how much of the bound is used

tables == <<rec, bound, driver, kept>>
memberVars == <<net, tables, handler, loose, moves>>

Workers == {"zigbee", "remover", "interview"}

Slots   == 1 .. MaxDevices
Absent  == [addr |-> None, slot |-> 0, conv |-> None, tracked |-> FALSE]
NoHandler == [pc |-> "idle", dev |-> None, old |-> None, new |-> None,
              report |-> FALSE]

Registered == {d \in Devices : rec[d].addr # None}

MemberTypeOK ==
  /\ net \in [Devices -> Addrs \cup {None}]
  /\ rec \in [Devices -> [addr : Addrs \cup {None}, slot : Slots \cup {0},
                          conv : Devices \cup {None}, tracked : BOOLEAN]]
  /\ bound \in [Addrs -> Devices \cup {None}]
  /\ driver \in [Addrs -> Tuya \cup {None}]
  /\ kept \in [Devices -> Tuya \cup {None}]
  /\ handler \in [Workers -> [pc : {"idle", "rebind", "redrive", "interpret", "find",
                              "unbind", "undrive", "remove"},
                        dev : Devices \cup {None}, old : Addrs \cup {None},
                        new : Addrs \cup {None}, report : BOOLEAN]]
  /\ loose \subseteq Addrs \cup Devices
  /\ moves \in 0 .. MaxMoves

-------------------------------------------------------------------------------
\* device_registry_get_by_short_addr(): the device in the first slot with that
\* address, if there is one.
Holders(r, a) == {d \in Devices : a # None /\ r[d].addr = a}

First(r, a) ==
  {d \in Holders(r, a) : \A e \in Holders(r, a) : r[d].slot <= r[e].slot}

At(a) == First(rec, a)

\* The records r after zb_availability_remove_device() or _add_device() at an
\* address.
Track(r, a, on) ==
  [d \in Devices |-> IF d \in First(r, a) THEN [r[d] EXCEPT !.tracked = on]
                     ELSE r[d]]

\* The addresses with an entry in a table of bindings.
Taken(table) == {a \in Addrs : table[a] # None}

\* The table after zb_converter_bind(): an address that is bound already is
\* bound anew, a full table refuses another one.
Bound(table, a, c) ==
  IF a \in Taken(table) \/ Cardinality(Taken(table)) < MaxBindings
  THEN [table EXCEPT ![a] = c] ELSE table

\* Unbinding an address that is not bound, or no address, does nothing.
Unbound(table, a) == IF a = None THEN table ELSE [table EXCEPT ![a] = None]

-------------------------------------------------------------------------------
AtRest(t) == handler[t] = NoHandler
Begin(t, pc, d, old, new, report) ==
  handler' = [handler EXCEPT ![t] = [pc |-> pc, dev |-> d, old |-> old, new |-> new,
                                     report |-> report]]
Goto(t, pc) == handler' = [handler EXCEPT ![t].pc = pc]
End(t) == handler' = [handler EXCEPT ![t] = NoHandler]

\* Task t works on device d.  What a device has got at a loose address it takes
\* along to its next ones.
Addresses(j) == {j.old, j.new} \ {None}

Others(t, d) == {u \in Workers \ {t} : handler[u].dev = d}

Meeting(t, d) ==
  UNION {{d} \cup Addresses(handler[u])
           \cup Addresses(handler[t]) \cup Addresses(handler'[t]) : u \in Others(t, d)}

Shared == {a \in Addrs : \E d, e \in Holders(rec', a) : d # e}

Loosen(t, d) ==
  LET met == loose \cup Shared \cup Meeting(t, d)
      devices == {e \in Devices : e \in met \/ {rec[e].addr, rec'[e].addr} \cap met # {}}
  IN loose' = met \cup devices \cup ({rec'[e].addr : e \in devices} \ {None})

-------------------------------------------------------------------------------
(***************************************************************************)
(* The network, as the Zigbee stack sees it.  A device that leaves without *)
(* its leave being heard stays in the registry.                            *)
(***************************************************************************)
Unused(a) == \A d \in Devices : net[d] # a

Move(d, a) ==
  /\ moves < MaxMoves
  /\ Unused(a)
  /\ net' = [net EXCEPT ![d] = a]
  /\ moves' = moves + 1
  /\ UNCHANGED <<tables, handler, loose>>

Vanish(d) ==
  /\ moves < MaxMoves
  /\ net[d] # None
  /\ net' = [net EXCEPT ![d] = None]
  /\ moves' = moves + 1
  /\ UNCHANGED <<tables, handler, loose>>

-------------------------------------------------------------------------------
(***************************************************************************)
(* zb_rejoin_update_short_addr(): the record and the tracker, then the     *)
(* converter, then the Tuya driver.  The record holds the new address when *)
(* the tracker is called with the old one, which so is no device's, or     *)
(* another one's.                                                          *)
(***************************************************************************)
\* Mutation: the tracker is called before the record is changed.
MoveRecord_late(d, a) ==
  /\ rec[d].addr # a
  /\ rec' = [Track(Track(rec, rec[d].addr, FALSE), a, TRUE) EXCEPT ![d].addr = a]
  /\ UNCHANGED <<bound, driver, kept>>

MoveRecord(d, a) ==
  /\ rec[d].addr # a
  /\ rec' = Track(Track([rec EXCEPT ![d].addr = a], rec[d].addr, FALSE), a, TRUE)
  /\ UNCHANGED <<bound, driver, kept>>

\* Mutation: the converter stays at the old address.
Rebind_only ==
  LET j == handler["zigbee"] IN
  /\ j.pc = "rebind"
  /\ bound' = IF rec[j.dev].conv # None THEN Bound(bound, j.new, rec[j.dev].conv)
              ELSE bound
  /\ Goto("zigbee", "redrive")
  /\ UNCHANGED <<net, rec, driver, kept, moves>>
  /\ Loosen("zigbee", j.dev)

\* A pointer to a removed device shows an empty record.
Rebind ==
  LET j == handler["zigbee"]
      freed == Unbound(bound, j.old)
  IN
  /\ j.pc = "rebind"
  /\ bound' = IF rec[j.dev].conv # None THEN Bound(freed, j.new, rec[j.dev].conv)
              ELSE freed
  /\ Goto("zigbee", "redrive")
  /\ UNCHANGED <<net, rec, driver, kept, moves>>
  /\ Loosen("zigbee", j.dev)

\* tuya_driver_bind() writes the driver to flash for the device it finds at the
\* address.
DriverBind(table, a, v) ==
  /\ driver' = [table EXCEPT ![a] = v]
  /\ kept' = [d \in Devices |-> IF d \in At(a) THEN v ELSE kept[d]]

\* A driver that is bound at the new address already is left there.
Redrive ==
  LET j == handler["zigbee"]
      freed == Unbound(driver, j.old)
      saved == IF j.dev \in Registered THEN kept[j.dev] ELSE None
  IN
  /\ j.pc = "redrive"
  /\ IF saved # None /\ freed[j.new] = None THEN DriverBind(freed, j.new, saved)
     ELSE driver' = freed /\ UNCHANGED kept
  /\ IF j.report THEN Goto("zigbee", "interpret") ELSE End("zigbee")
  /\ UNCHANGED <<net, rec, bound, moves>>
  /\ Loosen("zigbee", j.dev)

-------------------------------------------------------------------------------
(***************************************************************************)
(* zb_callback_device_join(), on an announcement or an authorization.      *)
(***************************************************************************)
\* Mutation: the search for a free slot runs past the end of the table.
FreeSlots_beyond == (1 .. MaxDevices + 1) \ {rec[d].slot : d \in Devices}

FreeSlots == Slots \ {rec[d].slot : d \in Devices}

zb_callback_device_join(d) ==
  /\ AtRest("zigbee")
  /\ net[d] # None
  /\ \/ /\ d \in Registered
        /\ MoveRecord(d, net[d])
        /\ Begin("zigbee", "rebind", d, rec[d].addr, net[d], FALSE)
     \/ /\ d \notin Registered
        /\ \E n \in FreeSlots :
             rec' = Track([rec EXCEPT ![d].addr = net[d], ![d].slot = n],
                          net[d], TRUE)
        /\ UNCHANGED <<bound, driver, kept, handler>>
  /\ UNCHANGED <<net, moves>>
  /\ Loosen("zigbee", d)

(***************************************************************************)
(* zb_callback_report_attr(): a report from an address that no record      *)
(* holds is taken to be of the device the stack knows there.  The tracker  *)
(* adds the device at the address if it lost it.                           *)
(***************************************************************************)
\* Mutation: a frame from an unknown address is not traced to its device.
Report_unresolved(d) ==
  /\ AtRest("zigbee")
  /\ net[d] # None
  /\ rec' = Track(rec, net[d], TRUE)
  /\ Begin("zigbee", "interpret", d, None, net[d], TRUE)
  /\ UNCHANGED <<net, bound, driver, kept, moves>>
  /\ Loosen("zigbee", d)

Report(d) ==
  LET a == net[d] IN
  /\ AtRest("zigbee")
  /\ a # None
  /\ IF At(a) = {} /\ d \in Registered
     THEN /\ MoveRecord(d, a)
          /\ Begin("zigbee", "rebind", d, rec[d].addr, a, TRUE)
     ELSE /\ rec' = Track(rec, a, TRUE)
          /\ Begin("zigbee", "interpret", d, None, a, TRUE)
          /\ UNCHANGED <<bound, driver, kept>>
  /\ UNCHANGED <<net, moves>>
  /\ Loosen("zigbee", d)

(***************************************************************************)
(* A converter is looked up by the model of the device at an address: by   *)
(* the report of a device without a converter (auto_rebind_converter()),   *)
(* and when an interview ends.  A model that is not known has none.        *)
(***************************************************************************)
Find(t, a) ==
  \E e \in At(a) : Begin(t, "find", e, None, a, FALSE)

Interpret ==
  LET a == handler["zigbee"].new IN
  /\ handler["zigbee"].pc = "interpret"
  /\ \/ End("zigbee")
     \/ bound[a] = None /\ Find("zigbee", a)
  /\ UNCHANGED <<net, tables, moves>>
  /\ Loosen("zigbee", handler["zigbee"].dev)

InterviewDone(a) ==
  /\ AtRest("interview")
  /\ Find("interview", a)
  /\ UNCHANGED <<net, tables, moves>>
  /\ Loosen("interview", handler'["interview"].dev)

\* The lookup reads LittleFS; the device is fetched anew, by its address.
Found(t) ==
  LET j == handler[t] IN
  /\ j.pc = "find"
  /\ bound' = IF At(j.new) = {} THEN bound ELSE Bound(bound, j.new, j.dev)
  /\ rec' = [d \in Devices |-> IF d \in At(j.new) THEN [rec[d] EXCEPT !.conv = j.dev]
                               ELSE rec[d]]
  /\ End(t)
  /\ UNCHANGED <<net, driver, kept, moves>>
  /\ Loosen(t, j.dev)

\* try_lazy_bind(), on a Tuya frame, and the same on a command.
try_lazy_bind(a) ==
  /\ AtRest("zigbee")
  /\ driver[a] = None
  /\ UNCHANGED <<net, rec, bound, handler, moves>>
  /\ \E e \in At(a) \cap Tuya : DriverBind(driver, a, e) /\ Loosen("zigbee", e)

-------------------------------------------------------------------------------
(***************************************************************************)
(* zb_device_leave_cleanup(): the caller names the device and an address.  *)
(* A leave indication carries the address the device had in the network, a *)
(* remover takes that of the record; the cleanup starts 100 ms later.      *)
(***************************************************************************)
LeaveIndication(d) ==
  /\ AtRest("zigbee")
  /\ net[d] # None
  /\ net' = [net EXCEPT ![d] = None]
  /\ IF d \in Registered THEN Begin("zigbee", "unbind", d, net[d], None, FALSE)
     ELSE UNCHANGED handler
  /\ loose' = loose \cup (IF rec[d].addr \in {None, net[d]} THEN {}
                          ELSE {d, rec[d].addr, net[d]} \cup Holders(rec, net[d]))
  /\ UNCHANGED <<tables, moves>>

Remove(d) ==
  /\ AtRest("remover")
  /\ d \in Registered
  /\ Begin("remover", "unbind", d, rec[d].addr, None, FALSE)
  /\ UNCHANGED <<net, tables, moves>>
  /\ Loosen("remover", d)

Unbind(t) ==
  /\ handler[t].pc = "unbind"
  /\ bound' = Unbound(bound, handler[t].old)
  /\ Goto(t, "undrive")
  /\ UNCHANGED <<net, rec, driver, kept, moves>>
  /\ Loosen(t, handler[t].dev)

Undrive(t) ==
  /\ handler[t].pc = "undrive"
  /\ driver' = Unbound(driver, handler[t].old)
  /\ rec' = Track(rec, handler[t].old, FALSE)
  /\ Goto(t, "remove")
  /\ UNCHANGED <<net, bound, kept, moves>>
  /\ Loosen(t, handler[t].dev)

device_registry_remove(t) ==
  /\ handler[t].pc = "remove"
  /\ rec' = [rec EXCEPT ![handler[t].dev] = Absent]
  /\ End(t)
  /\ UNCHANGED <<net, bound, driver, kept, moves>>
  /\ Loosen(t, handler[t].dev)

-------------------------------------------------------------------------------
(***************************************************************************)
(* At boot the registry holds the devices on flash, still where they were; *)
(* a converter is bound for each of them while there is room, and no       *)
(* driver yet (main.c).                                                    *)
(***************************************************************************)
Unique(f, void) ==
  \A d, e \in Devices : f[d] = f[e] /\ f[d] # void => d = e

Restored(place, slot) ==
  /\ Unique(place, None) /\ Unique(slot, 0)
  /\ \A d \in Devices : slot[d] = 0 <=> place[d] = None
  /\ net = place
  /\ rec = [d \in Devices |->
              IF place[d] = None THEN Absent
              ELSE [addr |-> place[d], slot |-> slot[d], conv |-> d,
                    tracked |-> TRUE]]
  /\ bound \in [Addrs -> Devices \cup {None}]
  /\ \A a \in Addrs : bound[a] # None => place[bound[a]] = a
  /\ Cardinality(Taken(bound)) <= MaxBindings
  /\ \/ Cardinality(Taken(bound)) = MaxBindings
     \/ \A d \in Devices : place[d] # None => bound[place[d]] = d

MemberInit ==
  /\ \E place \in [Devices -> Addrs \cup {None}], slot \in [Devices -> Slots \cup {0}] :
       Restored(place, slot)
  /\ driver = [a \in Addrs |-> None]
  /\ kept = [d \in Devices |-> None]
  /\ handler = [t \in Workers |-> NoHandler]
  /\ loose = {}
  /\ moves = 0

Network == \E d \in Devices : Vanish(d) \/ \E a \in Addrs : Move(d, a)

Signal ==
  \E d \in Devices : zb_callback_device_join(d) \/ Report(d) \/ LeaveIndication(d)

Cleanup(t) == Unbind(t) \/ Undrive(t) \/ device_registry_remove(t)

Step(t) == Cleanup(t) \/ Found(t)

MemberNext ==
  \/ Network
  \/ Signal
  \/ Rebind \/ Redrive \/ Interpret
  \/ \E t \in Workers : Step(t)
  \/ \E a \in Addrs : InterviewDone(a) \/ try_lazy_bind(a)
  \/ \E d \in Devices : Remove(d)

MemberSpec == MemberInit /\ [][MemberNext]_memberVars

-------------------------------------------------------------------------------
Quiet == \A t \in Workers : AtRest(t)

(***************************************************************************)
(* The converter and the Tuya driver bound at an address are those of a    *)
(* device with that address, and so is the driver on flash: the frames of  *)
(* one device are not read with what was bound for another one, present or *)
(* gone.                                                                   *)
(***************************************************************************)
Clean(a) == Quiet /\ a \notin loose

ConverterIsOwn(a) == bound[a] # None => rec[bound[a]].addr = a

DriverIsOwn(a) ==
  driver[a] # None => rec[driver[a]].addr = a /\ kept[driver[a]] = driver[a]

BindingsAreOwn == \A a \in Addrs : Clean(a) => ConverterIsOwn(a) /\ DriverIsOwn(a)

(***************************************************************************)
(* No device in the registry is lost to the availability tracker, however  *)
(* often it moves.                                                         *)
(***************************************************************************)
AllTracked ==
  \A d \in Registered : Clean(rec[d].addr) => rec[d].tracked

(***************************************************************************)
(* A report of a device that moved unnoticed is read with its record at    *)
(* hand, whatever was removed or looked up meanwhile, unless the record of *)
(* another device holds the address.                                       *)
(***************************************************************************)
Interpreting(j) == j.pc = "interpret"

ReportFindsRecord ==
  [][LET j == handler'["zigbee"] IN
     Interpreting(j) /\ ~Interpreting(handler["zigbee"]) /\ rec'[j.dev].addr # None =>
       rec'[j.dev].addr = j.new \/ Holders(rec', j.new) \ {j.dev} # {}]_memberVars

(***************************************************************************)
(* No table is written past its end, whichever tasks add and remove: the   *)
(* registry gives each device a slot of its own and so holds no more       *)
(* devices than it has slots, and the converter registry holds no more     *)
(* bindings than it has room for.                                          *)
(***************************************************************************)
SlotsApart ==
  /\ \A d \in Devices : rec[d].slot = 0 <=> d \notin Registered
  /\ \A d, e \in Registered : rec[d].slot = rec[e].slot => d = e

TablesFit ==
  /\ Cardinality(Registered) <= MaxDevices
  /\ Cardinality(Taken(bound)) <= MaxBindings

-------------------------------------------------------------------------------
(***************************************************************************)
(* The inductive invariant behind the four.  A task has read an address    *)
(* and goes on with it; either the record of its device still has that     *)
(* address, or the address is loose.  On that rests what each table holds  *)
(* at an address that is not loose, while tasks are at work.               *)
(***************************************************************************)
\* Loose addresses and the devices whose records have them go together, and an
\* address of two records is loose.
Closed ==
  /\ \A d \in Registered : d \in loose <=> rec[d].addr \in loose
  /\ \A d, e \in Registered :
       d # e /\ rec[d].addr = rec[e].addr => rec[d].addr \in loose

Moving(j)   == j.pc \in {"rebind", "redrive"}
Cleaning(j) == j.pc \in {"unbind", "undrive", "remove"}

\* What a task in this handler knows of the record of its device.
Informed(j) ==
  /\ j.pc # "idle" => j.dev \in Devices
  /\ Moving(j) => /\ j.old \in Addrs /\ j.new \in Addrs /\ j.old # j.new
                  /\ \/ rec[j.dev].addr = j.new
                     \/ rec[j.dev].addr = None /\ j.new \in loose
  /\ j.pc \in {"interpret", "find"} => j.new \in Addrs
  /\ j.pc = "find" => rec[j.dev].addr = j.new \/ j.new \in loose
  /\ Cleaning(j) => /\ j.old \in Addrs
                    /\ rec[j.dev].addr = j.old \/ {j.dev, j.old} \subseteq loose

\* Only the Zigbee task moves a device.
OneMover == \A t \in Workers \ {"zigbee"} : ~Moving(handler[t])

\* A record that was removed is empty, and what a device takes along is its own.
OwnRecords ==
  \A d \in Devices :
    /\ rec[d].addr = None => rec[d] = Absent
    /\ rec[d].conv \in {None, d} \/ d \in loose
    /\ kept[d] \in {None, d} \/ d \in loose

\* What a removal has cleared stays clear until the record is gone.
Cleared(j) ==
  /\ j.pc \in {"undrive", "remove"} => j.old \in loose \/ bound[j.old] = None
  /\ j.pc = "remove" => j.old \in loose \/ driver[j.old] = None

\* What is bound at an address is its device's, or about to be unbound as the
\* device has moved.
OwnBindings ==
  \A a \in Addrs \ loose : LET j == handler["zigbee"] IN
    /\ ConverterIsOwn(a) \/ (j.pc = "rebind" /\ j.old = a)
    /\ DriverIsOwn(a) \/ (Moving(j) /\ j.old = a)

\* A device the tracker has lost is about to be removed.
Tracking ==
  \A d \in Registered :
    \/ rec[d].tracked \/ rec[d].addr \in loose
    \/ \E t \in Workers : handler[t].pc = "remove" /\ handler[t].dev = d

MemberInv ==
  /\ MemberTypeOK
  /\ Closed
  /\ OneMover
  /\ \A t \in Workers : Informed(handler[t]) /\ Cleared(handler[t])
  /\ OwnRecords
  /\ OwnBindings
  /\ Tracking
=============================================================================
