---------------------------- MODULE DeviceRegistry ----------------------------
(***************************************************************************)
(* The device registry (src/main/core/device/device_registry.c): a fixed   *)
(* array of device slots, the JSON state attached to each slot, and an     *)
(* open-addressing hash table from device ids to slots.                    *)
(*                                                                         *)
(* Every operation takes the registry mutex once and holds it to the end,  *)
(* so each is one action.  A mutex timeout makes an operation return       *)
(* without a change, which is a stuttering step here.                      *)
(***************************************************************************)
EXTENDS Integers, FiniteSets

CONSTANTS
  Ids,            \* device ids (IEEE / MAC addresses), all different from 0
  NoId,           \* id 0: what memset() leaves in an empty slot
  MaxDevices,     \* DEVICE_REGISTRY_MAX_DEVICES
  HashSize,       \* DEVICE_REGISTRY_HASH_SIZE
  Hash,           \* hash_device_id
  Keys, Values,   \* the keys and values of a device's JSON state
  Absent,         \* a key that a state object does not have
  NoState,        \* a NULL state pointer
  Protocols,      \* the protocols devices may have
  Availabilities, \* the availabilities a device may be given
  Names,          \* the names a user may give a device
  Clusters,       \* cluster ids a device may report
  MaxClusters     \* DEVICE_MAX_CLUSTERS

ASSUME IdAssumption == NoId \notin Ids
ASSUME SizeAssumption ==
  /\ MaxDevices \in Nat \ {0}
  /\ HashSize \in Nat
  /\ MaxDevices <= HashSize
ASSUME HashAssumption == Hash \in [Ids -> 0 .. HashSize - 1]
ASSUME ClusterAssumption == MaxClusters \in Nat
ASSUME EnumAssumption ==
  /\ Protocols \subseteq {"zigbee", "ble"}
  /\ Availabilities \subseteq {"unknown", "online", "offline"}

VARIABLES
  devices,        \* s_devices
  states,         \* s_device_states
  hash,           \* s_hash_table
  cursor,         \* s_alloc_cursor
  count,          \* s_device_count
  initialized     \* s_initialized

vars == <<devices, states, hash, cursor, count, initialized>>

Slots     == 0 .. MaxDevices - 1
HashSlots == 0 .. HashSize - 1
EMPTY     == -1               \* HASH_SLOT_EMPTY
DELETED   == -2               \* HASH_SLOT_DELETED

State      == [Keys -> Values \cup {Absent}]
EmptyState == [k \in Keys |-> Absent]

Device ==
  [id : Ids \cup {NoId}, in_use : BOOLEAN,
   protocol : Protocols \cup {"zigbee"},
   availability : Availabilities \cup {"unknown"},
   friendly_name : Names \cup Ids \cup {NoId},
   clusters : SUBSET Clusters]

(***************************************************************************)
(* What memset(dev, 0, sizeof) leaves, and what device_init() makes of it: *)
(* a new device is called by its own address until a user renames it.      *)
(***************************************************************************)
Zeroed ==
  [id |-> NoId, in_use |-> FALSE, protocol |-> "zigbee",
   availability |-> "unknown", friendly_name |-> NoId, clusters |-> {}]

device_init(id, proto) ==
  [Zeroed EXCEPT !.id = id, !.protocol = proto, !.friendly_name = id,
                 !.in_use = TRUE]

(***************************************************************************)
(* The hash table.  hash_find_slot() probes from the id's home slot until  *)
(* it meets an EMPTY slot or one whose device has the id; it steps over    *)
(* DELETED slots and slots of other devices, and gives up after a whole    *)
(* round with the home slot as its answer.                                 *)
(***************************************************************************)
Probe(id, k) == (Hash[id] + k) % HashSize

\* Mutation: the probe compares home slots instead of ids.
HoldsSameHash(devs, tab, s, id) ==
  /\ tab[s] \in Slots
  /\ devs[tab[s]].id \in Ids
  /\ Hash[devs[tab[s]].id] = Hash[id]

Holds(devs, tab, s, id) == tab[s] \in Slots /\ devs[tab[s]].id = id

Stops(devs, tab, id) ==
  {k \in 0 .. HashSize - 1 : \/ tab[Probe(id, k)] = EMPTY
                             \/ Holds(devs, tab, Probe(id, k), id)}

First(S) == CHOOSE k \in S : \A j \in S : k <= j

hash_find_slot(devs, tab, id) ==
  IF Stops(devs, tab, id) = {}
  THEN [found |-> FALSE, slot |-> Hash[id]]
  ELSE LET s == Probe(id, First(Stops(devs, tab, id)))
       IN  [found |-> tab[s] # EMPTY, slot |-> s]

\* hash_insert() reports failure by leaving ok FALSE and the table alone.
hash_insert(devs, tab, id, idx) ==
  LET f == hash_find_slot(devs, tab, id)
  IN  IF f.found \/ tab[f.slot] \in {EMPTY, DELETED}
      THEN [ok |-> TRUE,  tab |-> [tab EXCEPT ![f.slot] = idx]]
      ELSE [ok |-> FALSE, tab |-> tab]

hash_remove(devs, tab, id) ==
  LET f == hash_find_slot(devs, tab, id)
  IN  IF f.found THEN [tab EXCEPT ![f.slot] = DELETED] ELSE tab

(***************************************************************************)
(* find_free_slot(): the first free slot at or after the cursor, going     *)
(* round once; MaxDevices when every slot is taken.                        *)
(***************************************************************************)
Round(i, n) == (i + n) % MaxDevices

FreeDistances(devs) == {n \in Slots : ~ devs[Round(cursor, n)].in_use}

\* Mutation: the search always starts at slot 0.
find_free_slot_from_zero(devs) ==
  LET free == {i \in Slots : ~ devs[i].in_use}
  IN  IF free = {} THEN MaxDevices ELSE First(free)

find_free_slot(devs) ==
  IF FreeDistances(devs) = {} THEN MaxDevices
  ELSE Round(cursor, First(FreeDistances(devs)))

(***************************************************************************)
(* Lookups.  Each returns the slot the caller gets a pointer to, or        *)
(* MaxDevices for NULL.                                                    *)
(***************************************************************************)
NULL == MaxDevices

device_registry_get(id) ==
  LET f == hash_find_slot(devices, hash, id)
  IN  IF f.found /\ devices[hash[f.slot]].in_use THEN hash[f.slot] ELSE NULL

device_registry_get_by_name(name) ==
  LET S == {i \in Slots : devices[i].in_use /\ devices[i].friendly_name = name}
  IN  IF S = {} THEN NULL ELSE First(S)

\* A string that is no device's name is tried as an address.
device_registry_find_by_id(str) ==
  LET byName == device_registry_get_by_name(str)
  IN  IF byName # NULL THEN byName
      ELSE IF str \in Ids THEN device_registry_get(str) ELSE NULL

-----------------------------------------------------------------------------
Init ==
  /\ devices = [i \in Slots |-> Zeroed]
  /\ states = [i \in Slots |-> NoState]
  /\ hash = [s \in HashSlots |-> EMPTY]
  /\ cursor = 0
  /\ count = 0
  /\ initialized = FALSE

\* The arrays are allocated afresh; the cursor keeps its value across a
\* deinit, because only find_free_slot() assigns it.
device_registry_init ==
  /\ ~ initialized
  /\ devices' = [i \in Slots |-> Zeroed]
  /\ states' = [i \in Slots |-> NoState]
  /\ hash' = [s \in HashSlots |-> EMPTY]
  /\ count' = 0
  /\ initialized' = TRUE
  /\ UNCHANGED cursor

device_registry_deinit ==
  /\ initialized
  /\ devices' = [i \in Slots |-> Zeroed]
  /\ states' = [i \in Slots |-> NoState]
  /\ hash' = [s \in HashSlots |-> EMPTY]
  /\ count' = 0
  /\ initialized' = FALSE
  /\ UNCHANGED cursor

\* Mutation: clear_all keeps the device count.
device_registry_clear_all_keeping_count ==
  /\ initialized
  /\ states' = [i \in Slots |-> NoState]
  /\ devices' = [i \in Slots |-> Zeroed]
  /\ hash' = [s \in HashSlots |-> EMPTY]
  /\ UNCHANGED <<cursor, count, initialized>>

device_registry_clear_all ==
  /\ initialized
  /\ states' = [i \in Slots |-> NoState]
  /\ devices' = [i \in Slots |-> IF devices[i].in_use THEN Zeroed
                                 ELSE devices[i]]
  /\ hash' = [s \in HashSlots |-> EMPTY]
  /\ count' = 0
  /\ UNCHANGED <<cursor, initialized>>

(***************************************************************************)
(* device_registry_add(): nothing changes when the id is known or every    *)
(* slot is taken.  A failed hash_insert() takes in_use back, and leaves    *)
(* the id in the slot and the cursor moved.                                *)
(***************************************************************************)
device_registry_add(id, proto) ==
  LET idx  == find_free_slot(devices)
      devs == [devices EXCEPT ![idx] = device_init(id, proto)]
      ins  == hash_insert(devs, hash, id, idx)
  IN  /\ initialized
      /\ ~ hash_find_slot(devices, hash, id).found
      /\ idx # MaxDevices
      /\ cursor' = Round(idx, 1)
      /\ hash' = ins.tab
      /\ devices' = IF ins.ok THEN devs ELSE [devs EXCEPT ![idx].in_use = FALSE]
      /\ count' = IF ins.ok THEN count + 1 ELSE count
      /\ UNCHANGED <<states, initialized>>

\* Mutation: the state object stays behind and the count is not decremented.
device_registry_remove_record_only(id) ==
  LET idx == device_registry_get(id)
  IN  /\ initialized
      /\ idx # NULL
      /\ devices' = [devices EXCEPT ![idx] = Zeroed]
      /\ UNCHANGED <<states, hash, cursor, count, initialized>>

\* The slot is zeroed first and the hash table searched afterwards.
device_registry_remove(id) ==
  LET idx  == device_registry_get(id)
      devs == [devices EXCEPT ![idx] = Zeroed]
  IN  /\ initialized
      /\ idx # NULL
      /\ states' = [states EXCEPT ![idx] = NoState]
      /\ devices' = devs
      /\ hash' = hash_remove(devs, hash, id)
      /\ count' = count - 1
      /\ UNCHANGED <<cursor, initialized>>

-----------------------------------------------------------------------------
Registered(id) == initialized /\ device_registry_get(id) # NULL

\* The JSON state of the device with this id becomes s.
WriteState(id, s) ==
  /\ UNCHANGED <<devices, hash, cursor, count, initialized>>
  /\ Registered(id)
  /\ states' = [states EXCEPT ![device_registry_get(id)] = s]

\* A state object is created on the first write.
StateObject(id) ==
  IF states[device_registry_get(id)] = NoState THEN EmptyState
  ELSE states[device_registry_get(id)]

device_registry_set_state(id, state) == WriteState(id, state)

device_registry_update_state(id, key, value) ==
  WriteState(id, [StateObject(id) EXCEPT ![key] = value])

\* Mutation: a merge drops the keys the partial object does not name.
MergeReplaces(old, partial) == partial

Merge(old, partial) ==
  [k \in Keys |-> IF partial[k] # Absent THEN partial[k] ELSE old[k]]

device_registry_merge_state(id, partial) ==
  WriteState(id, Merge(StateObject(id), partial))

\* The record of the device with this id becomes d.
WriteDevice(id, d) ==
  /\ UNCHANGED <<states, hash, cursor, count, initialized>>
  /\ Registered(id)
  /\ devices' = [devices EXCEPT ![device_registry_get(id)] = d]

DeviceOf(id) == devices[device_registry_get(id)]

device_registry_set_availability(id, avail) ==
  WriteDevice(id, [DeviceOf(id) EXCEPT !.availability = avail])

device_registry_set_friendly_name(id, name) ==
  WriteDevice(id, [DeviceOf(id) EXCEPT !.friendly_name = name])

\* A full cluster list and a device that is not a Zigbee one are left alone.
device_registry_add_cluster(id, c) ==
  /\ Registered(id)
  /\ DeviceOf(id).protocol = "zigbee"
  /\ Cardinality(DeviceOf(id).clusters) < MaxClusters
  /\ WriteDevice(id, [DeviceOf(id) EXCEPT !.clusters = @ \cup {c}])

Next ==
  \/ device_registry_init
  \/ device_registry_deinit
  \/ device_registry_clear_all
  \/ \E id \in Ids, p \in Protocols : device_registry_add(id, p)
  \/ \E id \in Ids : device_registry_remove(id)
  \/ \E id \in Ids, s \in State : device_registry_set_state(id, s)
  \/ \E id \in Ids, k \in Keys, v \in Values :
       device_registry_update_state(id, k, v)
  \/ \E id \in Ids, s \in State : device_registry_merge_state(id, s)
  \/ \E id \in Ids, a \in Availabilities :
       device_registry_set_availability(id, a)
  \/ \E id \in Ids, n \in Names :
       device_registry_set_friendly_name(id, n)
  \/ \E id \in Ids, c \in Clusters : device_registry_add_cluster(id, c)

Spec == Init /\ [][Next]_vars

-----------------------------------------------------------------------------
\* Types: the count never leaves its range, and the cursor is always a slot.
TypeOK ==
  /\ devices \in [Slots -> Device]
  /\ states \in [Slots -> State \cup {NoState}]
  /\ hash \in [HashSlots -> Slots \cup {EMPTY, DELETED}]
  /\ cursor \in Slots
  /\ count \in 0 .. MaxDevices
  /\ initialized \in BOOLEAN

InUse == {i \in Slots : devices[i].in_use}

\* No device is registered twice: the second device_registry_add() of an id
\* must find the first one through the hash table, whatever was added and
\* removed in between.
UniqueIds ==
  \A i, j \in InUse : devices[i].id = devices[j].id => i = j

\* device_registry_get() is exact: it returns the slot in use for the id when
\* there is one, and NULL when there is none, although hash slots of removed
\* devices are never cleared and go on pointing at slots that others reuse.
LookupExact ==
  \A id \in Ids :
    LET i == device_registry_get(id)
    IN  /\ i # NULL => devices[i].in_use /\ devices[i].id = id
        /\ i = NULL => \A j \in InUse : devices[j].id # id

\* "Table full - should not happen" (hash_insert): while a device slot is
\* free, a new id can always be entered in the hash table, however many
\* devices have come and gone.
RoomMeansInsertable ==
  \A id \in Ids :
    LET idx == find_free_slot(devices)
    IN  initialized /\ device_registry_get(id) = NULL /\ idx # MaxDevices =>
          hash_insert([devices EXCEPT ![idx] = device_init(id, "zigbee")],
                      hash, id, idx).ok

\* s_device_count, which device_registry_count() reads without the mutex, is
\* the number of slots in use.
CountExact == count = Cardinality(InUse)

\* A free slot has no state object: the next device in it starts without the
\* readings of the last one, and nothing is leaked.
NoOrphanState == \A i \in Slots : states[i] # NoState => i \in InUse

(***************************************************************************)
(* The inductive invariant behind the properties above.                    *)
(*                                                                         *)
(* Nothing ever writes DELETED or clears one entry, so the table only      *)
(* fills up.  That is harmless because of the cursor: the slots that have  *)
(* no entry yet (Fresh) are exactly the next ones it will come to, and     *)
(* until it has come to all of them every slot has one entry at most.      *)
(* With MaxDevices <= HashSize the table then still has an EMPTY slot; and *)
(* once no slot is fresh, the entry a new device needs is there already.   *)
(***************************************************************************)
FreeSlotsZeroed ==
  \A i \in Slots :
    IF devices[i].in_use THEN devices[i].id \in Ids
    ELSE devices[i] = Zeroed /\ states[i] = NoState

\* The entry of a device can be reached from its home slot.
Reaches(i, k) ==
  /\ hash[Probe(devices[i].id, k)] = i
  /\ \A j \in 0 .. k - 1 : hash[Probe(devices[i].id, j)] # EMPTY

EntriesReachable == \A i \in InUse : \E k \in HashSlots : Reaches(i, k)

NoneDeleted == \A s \in HashSlots : hash[s] # DELETED

Fresh == {i \in Slots : \A s \in HashSlots : hash[s] # i}

FreshIsNext ==
  \E f \in 0 .. MaxDevices :
    \A n \in Slots : Round(cursor, n) \in Fresh <=> n < f

OneEntryWhileFresh ==
  Fresh # {} => \A s, t \in HashSlots :
                  hash[s] = hash[t] /\ hash[s] # EMPTY => s = t

RegistryInv ==
  /\ TypeOK
  /\ FreeSlotsZeroed
  /\ UniqueIds
  /\ EntriesReachable
  /\ NoneDeleted
  /\ FreshIsNext
  /\ OneEntryWhileFresh
  /\ CountExact


(***************************************************************************)
(* The map the registry stands for: the ids of the slots in use, each with *)
(* its record and its state.                                               *)
(***************************************************************************)
SlotOf(id) == CHOOSE i \in InUse : devices[i].id = id

RegistryMap ==
  [id \in {devices[i].id : i \in InUse} |->
     LET rec == devices[SlotOf(id)]
     IN  [protocol |-> rec.protocol, availability |-> rec.availability,
          friendly_name |-> rec.friendly_name, clusters |-> rec.clusters,
          state |-> states[SlotOf(id)]]]

Abstract == INSTANCE DeviceMap WITH map <- RegistryMap, Capacity <- MaxDevices

\* The registry implements the map: whatever the slots, the hash table and the
\* cursor do, callers see devices come and go whole, and a new device is new.
ImplementsDeviceMap == Abstract!Spec

\* Each operation does to the map what it says, to the device it is called for
\* and to no other, whatever probe sequences and slots the two share.
OperationsExact ==
  [][/\ device_registry_clear_all => Abstract!Clear
     /\ \A id \in Ids :
          /\ device_registry_remove(id) => Abstract!Remove(id)
          /\ \A p \in Protocols :
               device_registry_add(id, p) => Abstract!Add(id, p)
          /\ \A s \in State :
               /\ device_registry_set_state(id, s) => Abstract!SetState(id, s)
               /\ device_registry_merge_state(id, s) => Abstract!MergeState(id, s)
          /\ \A n \in Names :
               device_registry_set_friendly_name(id, n) => Abstract!SetName(id, n)
          /\ \A c \in Clusters :
               device_registry_add_cluster(id, c) => Abstract!AddCluster(id, c)]_vars
=============================================================================
