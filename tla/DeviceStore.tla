------------------------------ MODULE DeviceStore ------------------------------
(***************************************************************************)
(* The list of paired devices on flash                                     *)
(* (src/main/core/device/device_persistence.c): one NVS namespace with a   *)
(* blob per device under a running number, a list of ids that says which   *)
(* device a number stands for, and a count.  A save or a deletion writes   *)
(* several of these keys one after the other under s_persist_mutex; a      *)
(* write is on flash when it returns (nvs_commit() adds nothing), and a    *)
(* crash may come between any two.                                         *)
(*                                                                         *)
(* The tasks that use it change the registry first and call the store      *)
(* afterwards: a save copies what the record holds once the mutex is       *)
(* taken.  A record is the number of the change it stems from, 0 for a     *)
(* device that is not there.  Positions are counted from 1.                *)
(***************************************************************************)
EXTENDS Integers, Sequences, FiniteSets

CONSTANTS
  Ids,            \* device ids
  NoId,           \* id 0: what a record holds whose device was removed
  Tasks,          \* the tasks that add, change and remove devices
  Missing,        \* a key that NVS does not have
  MaxDevices,     \* DEVICE_PERSIST_MAX_DEVICES = DEVICE_REGISTRY_MAX_DEVICES
  MaxChanges,     \* bound: changes of records
  MaxCrashes,     \* bound: crashes
  MaxFaults       \* bound: allocations and writes that fail, crashes in the
                  \* middle of an operation of several writes, and records that
                  \* change hands during a save

ASSUME IdAssumption == NoId \notin Ids /\ "none" \notin Tasks
ASSUME SizeAssumption == MaxDevices \in Nat \ {0}
ASSUME BoundsAssumption == {MaxChanges, MaxCrashes, MaxFaults} \subseteq Nat

VARIABLES
  reg,            \* the registry: the record of each device
  want,           \* per task, its call of the store that waits for the mutex
  nvs,            \* the namespace "devices"
  op,             \* the operation that holds s_persist_mutex
  up,             \* the gateway runs
  ever,           \* history: the records of each device that a save took
  changes, crashes, faults     \* how much of each bound is used

vars == <<reg, want, nvs, op, up, ever, changes, crashes, faults>>

Versions  == 0 .. MaxChanges
Positions == 1 .. MaxDevices
AnyId     == Ids \cup {NoId}
Record    == [id : AnyId, ver : Versions]
Lists     == UNION {[1 .. n -> AnyId] : n \in 0 .. MaxDevices}
Gone      == [id |-> NoId, ver |-> 0]

ASSUME MissingAssumption == Missing \notin Record

\* The empty list is a list that NVS does not have.
EmptyNvs == [count |-> 0, list |-> <<>>, blob |-> [i \in Positions |-> Missing]]
NoDevice == [d \in Ids |-> 0]
NoCall   == [kind |-> "none", dev |-> NoId]
Idle     == [task |-> "none", pc |-> "idle", dev |-> NoId, rec |-> Gone,
             list |-> <<>>, index |-> 0, before |-> NoDevice]

TypeOK ==
  /\ reg \in [Ids -> Versions]
  /\ want \in [Tasks -> [kind : {"none", "save", "delete", "clear"}, dev : AnyId]]
  /\ nvs \in [count : 0 .. MaxDevices, list : Lists,
              blob : [Positions -> Record \cup {Missing}]]
  /\ op \in [task : Tasks \cup {"none"},
             pc : {"idle", "search", "replace", "blob", "list", "count",
                   "swap", "erase", "shrink", "lower"},
             dev : AnyId, rec : Record, list : Lists, index : 0 .. MaxDevices,
             before : [Ids -> Versions]]
  /\ up \in BOOLEAN
  /\ ever \in [Ids -> SUBSET Versions]
  /\ changes \in Versions
  /\ crashes \in 0 .. MaxCrashes
  /\ faults \in 0 .. MaxFaults

-------------------------------------------------------------------------------
(***************************************************************************)
(* What NVS holds.  A stored list longer than the count does not fit the   *)
(* buffer and cannot be read; a shorter one is read, and the rest of the   *)
(* buffer is what the allocator left there: any ids.                       *)
(***************************************************************************)
Readable(n) == n.count > 0 /\ n.list # <<>> /\ Len(n.list) <= n.count

ReadList(n) ==
  {n.list \o rest : rest \in [1 .. n.count - Len(n.list) -> AnyId]}

\* Where an id stands in a list for the first time.
FirstAt(list, id) ==
  {i \in 1 .. Len(list) : list[i] = id /\ \A j \in 1 .. i - 1 : list[j] # id}

\* Mutation: the last position is not searched.
Find_short(list, id) ==
  IF FirstAt(list, id) \ {Len(list)} = {} THEN 0
  ELSE CHOOSE i \in FirstAt(list, id) : TRUE

\* The first position of an id in a list, 0 if it is not there.
Find(list, id) ==
  IF FirstAt(list, id) = {} THEN 0 ELSE CHOOSE i \in FirstAt(list, id) : TRUE

\* Mutation: the id in the blob is not compared with the list.
Loaded_unchecked(n, list) ==
  [d \in Ids |->
     LET i == Find(list, d)
     IN IF i > 0 /\ n.blob[i] # Missing THEN n.blob[i].ver ELSE 0]

(***************************************************************************)
(* The devices that load_all() makes of a list: a repeated id, a blob that *)
(* is not there and a blob of another device are skipped.                  *)
(***************************************************************************)
Loaded(n, list) ==
  [d \in Ids |->
     LET i == Find(list, d)
     IN IF i > 0 /\ n.blob[i] # Missing /\ n.blob[i].id = d
        THEN n.blob[i].ver ELSE 0]

(***************************************************************************)
(* What is on flash.  The ids a short list lacks are taken to be those of  *)
(* the blobs: the allocator may have left the old list in the buffer.      *)
(***************************************************************************)
Lacking(n) ==
  n.list \o [k \in 1 .. n.count - Len(n.list) |->
               LET b == n.blob[Len(n.list) + k]
               IN IF b = Missing THEN NoId ELSE b.id]

Stored(n) == IF Readable(n) THEN Loaded(n, Lacking(n)) ELSE NoDevice

-------------------------------------------------------------------------------
(***************************************************************************)
(* The callers: a device joins, its record changes (interview, rename,     *)
(* rejoin), it leaves.  A leaving device is removed from the registry, and *)
(* then deleted from flash.  network_reset empties both.                   *)
(***************************************************************************)
Call(t, kind, d) ==
  /\ up
  /\ want[t] = NoCall
  /\ op.task # t
  /\ want' = [want EXCEPT ![t] = [kind |-> kind, dev |-> d]]
  /\ UNCHANGED <<nvs, op, up, ever, crashes, faults>>

Present == {d \in Ids : reg[d] # 0}

\* A new device needs a slot; a known one gets a new record.
Update(t, d) ==
  /\ changes < MaxChanges
  /\ d \in Present \/ Cardinality(Present) < MaxDevices
  /\ reg' = [reg EXCEPT ![d] = changes + 1]
  /\ changes' = changes + 1
  /\ Call(t, "save", d)

Leave(t, d) ==
  /\ d \in Present
  /\ reg' = [reg EXCEPT ![d] = 0]
  /\ UNCHANGED changes
  /\ Call(t, "delete", d)

Reset(t) ==
  /\ Present # {}
  /\ reg' = NoDevice
  /\ UNCHANGED changes
  /\ Call(t, "clear", NoId)

-------------------------------------------------------------------------------
\* A write may fail; most callers log it and go on.
Fail == faults < MaxFaults /\ faults' = faults + 1

Write(n) ==
  \/ nvs' = n /\ UNCHANGED faults
  \/ nvs' = nvs /\ Fail

Goto(pc) == op' = [op EXCEPT !.pc = pc]
Done     == op' = Idle

\* The call of a task gets the mutex.
Take(t) == /\ op = Idle
           /\ want' = [want EXCEPT ![t] = NoCall]

Rest == UNCHANGED <<reg, up, ever, changes, crashes>>

(***************************************************************************)
(* device_persistence_save() gets a pointer into the registry.  If its     *)
(* device was removed it shows an empty slot, or the device that got the   *)
(* slot.  It is followed three times, with a read or a write of flash in   *)
(* between: for the record, for the id to look for, and for the id that    *)
(* goes into the list.                                                     *)
(***************************************************************************)
Pointees(d) ==
  IF d \in Present THEN {[id |-> d, ver |-> reg[d]]}
  ELSE {Gone} \cup {[id |-> e, ver |-> reg[e]] : e \in Present}

IdsAt(d) == {r.id : r \in Pointees(d)}

\* An id that is not that of the copied record counts as a failure.
Follow(id) ==
  IF id = op.rec.id THEN UNCHANGED faults
  ELSE /\ MaxFaults > 0
       /\ faults' = IF faults = 0 THEN 1 ELSE faults

BeginSave(t) ==
  /\ want[t].kind = "save"
  /\ Take(t)
  /\ \E r \in Pointees(want[t].dev) :
       op' = [Idle EXCEPT !.task = t, !.pc = "search", !.dev = want[t].dev, !.rec = r]
  /\ UNCHANGED <<nvs, faults>>
  /\ Rest

\* Mutation: a full list is not refused.
Start_unlimited(id, list) ==
  LET i == Find(list, id)
  IN /\ op' = [op EXCEPT !.pc = IF i > 0 THEN "replace" ELSE "blob",
                         !.list = list, !.index = i, !.before = Stored(nvs)]
     /\ ever' = [d \in Ids |-> IF d = op.rec.id THEN ever[d] \cup {op.rec.ver}
                               ELSE ever[d]]

\* A device that is not in the list needs room there.
Start(id, list) ==
  LET i == Find(list, id)
  IN IF i = 0 /\ Len(list) >= MaxDevices
     THEN Done /\ UNCHANGED ever
     ELSE /\ op' = [op EXCEPT !.pc = IF i > 0 THEN "replace" ELSE "blob",
                              !.list = list, !.index = i, !.before = Stored(nvs)]
          /\ ever' = [d \in Ids |-> IF d = op.rec.id THEN ever[d] \cup {op.rec.ver}
                                    ELSE ever[d]]

\* A list that cannot be allocated or read counts as an empty one.
SaveList == IF Readable(nvs) THEN ReadList(nvs) ELSE {<<>>}

Search ==
  /\ op.pc = "search"
  /\ \E id \in IdsAt(op.dev) :
       \/ \E list \in SaveList : Start(id, list) /\ Follow(id)
       \/ Start(id, <<>>) /\ nvs.count > 0 /\ Fail
  /\ UNCHANGED <<want, nvs, reg, up, changes, crashes>>

Replace ==
  /\ op.pc = "replace"
  /\ Write([nvs EXCEPT !.blob[op.index] = op.rec])
  /\ Done
  /\ UNCHANGED want /\ Rest

Place == Len(op.list) + 1

\* A blob that cannot be written ends the save.
AppendBlob ==
  /\ op.pc = "blob"
  /\ Write([nvs EXCEPT !.blob[Place] = op.rec])
  /\ IF faults' = faults THEN Goto("list") ELSE Done
  /\ UNCHANGED want /\ Rest

AppendList ==
  /\ op.pc = "list"
  /\ \/ \E id \in IdsAt(op.dev) :
            /\ nvs' = [nvs EXCEPT !.list = Append(op.list, id)]
            /\ Follow(id)
        /\ Goto("count")
     \/ Fail /\ UNCHANGED nvs /\ Goto("count")
     \/ Fail /\ nvs' = [nvs EXCEPT !.blob[Place] = Missing] /\ Done
  /\ UNCHANGED want /\ Rest

AppendCount ==
  /\ op.pc = "count"
  /\ Write([nvs EXCEPT !.count = Place])
  /\ Done
  /\ UNCHANGED want /\ Rest

-------------------------------------------------------------------------------
(***************************************************************************)
(* device_persistence_delete(): the last device takes the place of the one *)
(* deleted.  Without a readable list, or when the device is not in it, the *)
(* call returns at once.                                                   *)
(***************************************************************************)
BeginDelete(t) ==
  /\ want[t].kind = "delete"
  /\ Take(t)
  /\ \/ /\ ~Readable(nvs)
        /\ UNCHANGED <<op, faults>>
     \/ /\ nvs.count > 0
        /\ Fail
        /\ UNCHANGED op
     \/ /\ Readable(nvs)
        /\ \E list \in ReadList(nvs) :
             LET i == Find(list, want[t].dev)
             IN IF i = 0 THEN UNCHANGED op
                ELSE op' = [task |-> t,
                            pc |-> IF i < Len(list) THEN "swap" ELSE "erase",
                            dev |-> want[t].dev,
                            rec |-> [id |-> want[t].dev, ver |-> 0],
                            list |-> list, index |-> i, before |-> Stored(nvs)]
        /\ UNCHANGED faults
  /\ UNCHANGED nvs
  /\ Rest

\* A last blob that cannot be read erases the place as well.
Swap ==
  /\ op.pc = "swap"
  /\ Write([nvs EXCEPT !.blob[op.index] = nvs.blob[Len(op.list)]])
  /\ Goto("erase")
  /\ UNCHANGED want /\ Rest

Erase ==
  /\ op.pc = "erase"
  /\ nvs' = [nvs EXCEPT !.blob[Len(op.list)] = Missing]
  /\ Goto("shrink")
  /\ UNCHANGED <<want, faults>> /\ Rest

Shorter ==
  SubSeq([op.list EXCEPT ![op.index] = op.list[Len(op.list)]],
         1, Len(op.list) - 1)

Shrink ==
  /\ op.pc = "shrink"
  /\ Write([nvs EXCEPT !.list = Shorter])
  /\ Goto("lower")
  /\ UNCHANGED want /\ Rest

Lower ==
  /\ op.pc = "lower"
  /\ Write([nvs EXCEPT !.count = Len(op.list) - 1])
  /\ Done
  /\ UNCHANGED want /\ Rest

device_persistence_clear(t) ==
  /\ want[t].kind = "clear"
  /\ Take(t)
  /\ nvs' = EmptyNvs
  /\ UNCHANGED <<op, faults>>
  /\ Rest

-------------------------------------------------------------------------------
Crash ==
  /\ up
  /\ crashes < MaxCrashes
  /\ up' = FALSE
  /\ crashes' = crashes + 1
  /\ reg' = NoDevice
  /\ want' = [t \in Tasks |-> NoCall]
  /\ Done
  /\ IF op.pc \in {"idle", "search", "replace"} THEN UNCHANGED faults ELSE Fail
  /\ UNCHANGED <<nvs, ever, changes>>

(***************************************************************************)
(* device_persistence_load_all(), before any task runs: a list that cannot *)
(* be read, and a list of which no device is valid, empty the namespace.   *)
(***************************************************************************)
load_all ==
  /\ ~up
  /\ up' = TRUE
  /\ \/ /\ nvs.count = 0
        /\ UNCHANGED <<reg, nvs, faults>>
     \/ /\ nvs.count > 0
        /\ Fail
        /\ UNCHANGED <<reg, nvs>>
     \/ /\ nvs.count > 0
        /\ ~Readable(nvs)
        /\ nvs' = EmptyNvs
        /\ UNCHANGED <<reg, faults>>
     \/ /\ Readable(nvs)
        /\ \E list \in ReadList(nvs) : reg' = Loaded(nvs, list)
        /\ nvs' = IF reg' = NoDevice THEN EmptyNvs ELSE nvs
        /\ UNCHANGED faults
  /\ UNCHANGED <<want, op, ever, changes, crashes>>

-------------------------------------------------------------------------------
Init ==
  /\ reg = NoDevice
  /\ want = [t \in Tasks |-> NoCall]
  /\ nvs = EmptyNvs
  /\ op = Idle
  /\ up = TRUE
  /\ ever = [d \in Ids |-> {}]
  /\ changes = 0 /\ crashes = 0 /\ faults = 0

\* What s_persist_mutex makes one operation at a time.
Operation ==
  \/ \E t \in Tasks :
       BeginSave(t) \/ BeginDelete(t) \/ device_persistence_clear(t)
  \/ Search \/ Replace \/ AppendBlob \/ AppendList \/ AppendCount
  \/ Swap \/ Erase \/ Shrink \/ Lower

Next ==
  \/ \E t \in Tasks, d \in Ids : Update(t, d) \/ Leave(t, d)
  \/ \E t \in Tasks : Reset(t)
  \/ Operation
  \/ Crash
  \/ load_all

Spec == Init /\ [][Next]_vars

-------------------------------------------------------------------------------
\* The store implements the map of devices that StoreMap describes.
Begun == op.pc \notin {"idle", "search"}

Kind == CASE ~Begun -> "none"
          [] op.pc \in {"replace", "blob", "list", "count"} -> "save"
          [] OTHER -> "delete"

Map == INSTANCE StoreMap WITH
         saved <- IF Begun THEN op.before ELSE Stored(nvs),
         pending <- [kind |-> Kind, id |-> IF Begun THEN op.rec.id ELSE NoId,
                     ver |-> IF Begun THEN op.rec.ver ELSE 0],
         trusted <- faults = 0

(***************************************************************************)
(* The flash holds what the completed calls left there: exactly, as long   *)
(* as nothing failed; and whatever the moment of a crash or a failure, no  *)
(* start gives a device a record that was not saved for it.                *)
(***************************************************************************)
ImplementsStoreMap == Map!Spec

(***************************************************************************)
(* When no task calls the store, a device that was removed is not on       *)
(* flash, where the next start would bring it back, and one that is in the *)
(* registry is on flash with its current record or not at all.             *)
(***************************************************************************)
Quiet == up /\ op = Idle /\ \A t \in Tasks : want[t] = NoCall

NothingStale ==
  Quiet /\ faults = 0 => \A d \in Ids : Stored(nvs)[d] \in {0, reg[d]}

(***************************************************************************)
(* The layout that load_all() relies on holds between operations: the list *)
(* is as long as the count says, names no device twice, and the blob at    *)
(* each of its positions is that device's.                                 *)
(***************************************************************************)
Consistent(n) ==
  /\ Len(n.list) = n.count
  /\ \A i \in 1 .. n.count : n.blob[i] # Missing /\ n.blob[i].id = n.list[i]
  /\ \A i, j \in 1 .. n.count : n.list[i] = n.list[j] => i = j

LayoutHolds ==
  faults = 0 /\ op = Idle => Consistent(nvs)

(***************************************************************************)
(* Why the layout holds, operation by operation.  The list that counts is  *)
(* the one on flash, and during the second half of a deletion the one that *)
(* it is going to write.                                                   *)
(***************************************************************************)
Saving   == {"blob", "list", "count"}
Deleting == {"erase", "shrink", "lower"}

View == IF op.pc \in Deleting THEN Shorter ELSE nvs.list

Distinct(list) ==
  \A i, j \in 1 .. Len(list) : list[i] = list[j] => i = j

Matches(list) ==
  \A i \in 1 .. Len(list) : nvs.blob[i] # Missing /\ nvs.blob[i].id = list[i]

\* The list and the count lag behind one after the other.
InStep ==
  /\ nvs.count = IF op.pc \in Saving \cup Deleting THEN Len(op.list) ELSE Len(nvs.list)
  /\ op.pc \in {"replace", "blob", "list", "swap", "erase", "shrink"} => nvs.list = op.list
  /\ op.pc = "count" => nvs.list = Append(op.list, op.rec.id)
  /\ op.pc = "lower" => nvs.list = Shorter

\* What an operation knows of the place it works at.
AtPlace ==
  /\ op.pc \in {"replace", "swap"} => op.list[op.index] = op.rec.id
  /\ op.pc \in {"blob", "list"} => \A i \in 1 .. Len(op.list) : op.list[i] # op.rec.id
  /\ op.pc \in {"list", "count"} => nvs.blob[Place] = op.rec
  /\ op.pc \in Deleting => Distinct(op.list)

LayoutInv ==
  faults = 0 => Distinct(View) /\ Matches(View) /\ InStep /\ AtPlace

\* The places an operation uses are within the table, whatever fails.
Fits ==
  /\ op.pc \in Saving => Len(op.list) < MaxDevices
  /\ op.pc \in {"replace", "swap"} \cup Deleting => op.index \in 1 .. Len(op.list)

(***************************************************************************)
(* Why nothing is stale: what is on flash of a device and is not its       *)
(* record is owed a call that waits for the mutex, or is what the          *)
(* operation under way replaces or removes; and what it saves is the       *)
(* record, or owed a call as well.                                         *)
(***************************************************************************)
Owed(d) ==
  \E t \in Tasks :
    \/ reg[d] # 0 /\ want[t] = [kind |-> "save", dev |-> d]
    \/ reg[d] = 0 /\ want[t] = [kind |-> "delete", dev |-> d]
    \/ reg[d] = 0 /\ want[t].kind = "clear"

AtWork(d) == op.pc \in {"search", "replace", "swap"} /\ op.rec.id = d

Current(d, ver) == ver \in {0, reg[d]} \/ Owed(d)

FreshInv ==
  up /\ faults = 0 =>
    /\ \A i \in 1 .. Len(View) : View[i] \in Ids =>
         Current(View[i], nvs.blob[i].ver) \/ AtWork(View[i])
    /\ op.pc \in {"search", "replace"} \cup Saving /\ op.rec.id \in Ids =>
         Current(op.rec.id, op.rec.ver)

\* Nothing is on flash, or on its way there, that was not saved.
SavedInv ==
  /\ \A d \in Ids : 0 \notin ever[d]
  /\ \A i \in Positions : nvs.blob[i] # Missing /\ nvs.blob[i].id \in Ids =>
       nvs.blob[i].ver \in ever[nvs.blob[i].id]
  /\ op.pc = "search" /\ op.rec.id \in Ids => op.rec.ver # 0
  /\ op.pc \in {"replace"} \cup Saving /\ op.rec.id \in Ids =>
       op.rec.ver \in ever[op.rec.id]
  /\ Begun => \A d \in Ids : op.before[d] \in {0} \cup ever[d]

\* What an operation has made so far of what was on flash when it began.
Effected ==
  faults = 0 =>
    /\ op.pc \in {"replace", "swap"} \cup Saving => op.before = Loaded(nvs, op.list)
    /\ op.pc \in Deleting =>
         Loaded(nvs, View) = [d \in Ids |-> IF d = op.rec.id THEN 0 ELSE op.before[d]]

Restarting == ~up => op = Idle /\ \A t \in Tasks : want[t] = NoCall

StoreInv ==
  TypeOK /\ Fits /\ Restarting /\ LayoutInv /\ FreshInv /\ SavedInv /\ Effected

(***************************************************************************)
(* "Persists device registry entries to NVS for recovery across reboots":  *)
(* a start at any moment would find every device that was on flash when    *)
(* the operation under way began, but for the operation's own device.      *)
(***************************************************************************)
OthersSurvive ==
  Begun /\ faults = 0 =>
    \A d \in Ids \ {op.rec.id} : op.before[d] # 0 => Stored(nvs)[d] # 0
=============================================================================
