------------------------- MODULE DeviceRegistryProofs -------------------------
(***************************************************************************)
(* Safety of the device registry, for any number of slots, any hash table  *)
(* at least as large, and any hash function.                               *)
(***************************************************************************)
EXTENDS DeviceRegistry, TLAPS, WellFoundedInduction, FiniteSetTheorems

USE SizeAssumption, IdAssumption, HashAssumption

\* Remainders of numbers less than one round away, and one round further.
LEMMA ModSmall ==
  ASSUME NEW m \in Nat \ {0}, NEW x \in 0 .. m - 1
  PROVE  x % m = x
BY SMT

LEMMA ModWrap ==
  ASSUME NEW m \in Nat \ {0}, NEW x \in m .. 2 * m - 1
  PROVE  x % m = x - m
BY SMT

\* A nonempty set of numbers has a least one: < is well-founded on Nat.
LEMMA LeastExists ==
  ASSUME NEW S \in SUBSET Nat, S # {}
  PROVE  \E k \in S : \A j \in S : k <= j
<1> DEFINE R == OpToRel(<, Nat)
<1>1. \A x, y \in Nat : x < y => <<x, y>> \in R
  BY DEF OpToRel
<1>2. IsWellFoundedOn(R, Nat)
  BY NatLessThanWellFounded
<1> HIDE DEF R
<1>3. PICK k \in S : \A j \in S : ~ (<<j, k>> \in R)
  BY <1>2, WFMin
<1>4. \A j \in S : ~ (j < k)
  BY <1>1, <1>3
<1> QED BY <1>4

\* First() picks the least member of a set of slot numbers.
LEMMA FirstIsLeast ==
  ASSUME NEW n \in Nat, NEW S \in SUBSET (0 .. n), S # {}
  PROVE  First(S) \in S /\ \A j \in S : First(S) <= j
<1>1. S \in SUBSET Nat
  OBVIOUS
<1> QED BY <1>1, LeastExists DEF First

\* Counting slots round the array, without the remainder.
LEMMA RoundDef ==
  \A c, n \in Slots :
    Round(c, n) = IF c + n < MaxDevices THEN c + n ELSE c + n - MaxDevices
<1> TAKE c, n \in Slots
<1>1. CASE c + n < MaxDevices
  BY <1>1, ModSmall DEF Round, Slots
<1>2. CASE ~ (c + n < MaxDevices)
  BY <1>2, ModWrap DEF Round, Slots
<1> QED BY <1>1, <1>2

\* The array has MaxDevices slots.
LEMMA SlotsFinite == IsFiniteSet(Slots) /\ Cardinality(Slots) = MaxDevices
<1>1. 0 \in Int /\ MaxDevices - 1 \in Int /\ ~ (0 > MaxDevices - 1)
  OBVIOUS
<1>2. IsFiniteSet(0 .. MaxDevices - 1) /\
      Cardinality(0 .. MaxDevices - 1) = (MaxDevices - 1) - 0 + 1
  BY <1>1, FS_Interval
<1> QED BY <1>2 DEF Slots

\* Counting round the array stays in it.
LEMMA RoundType == \A c, n \in Slots : Round(c, n) \in Slots
  BY RoundDef DEF Slots

\* The probe sequence of the hash table, without the remainder.
LEMMA ProbeDef ==
  \A id \in Ids, k \in HashSlots :
    Probe(id, k) = IF Hash[id] + k < HashSize THEN Hash[id] + k
                   ELSE Hash[id] + k - HashSize
<1> TAKE id \in Ids, k \in HashSlots
<1>1. HashSize \in Nat \ {0}
  OBVIOUS
<1>2. CASE Hash[id] + k < HashSize
  BY <1>1, <1>2, ModSmall DEF Probe, HashSlots
<1>3. CASE ~ (Hash[id] + k < HashSize)
  BY <1>1, <1>3, ModWrap DEF Probe, HashSlots
<1> QED BY <1>2, <1>3

\* Probing stays in the table.
LEMMA ProbeType == \A id \in Ids, k \in HashSlots : Probe(id, k) \in HashSlots
  BY ProbeDef DEF HashSlots

\* A full round of probing visits every slot of the table.
LEMMA ProbeCovers ==
  \A id \in Ids, s \in HashSlots : \E k \in HashSlots : Probe(id, k) = s
<1> TAKE id \in Ids, s \in HashSlots
<1> DEFINE k == IF s >= Hash[id] THEN s - Hash[id] ELSE s - Hash[id] + HashSize
<1>1. k \in HashSlots
  BY DEF HashSlots
<1>2. Probe(id, k) = s
  BY <1>1, ProbeDef DEF HashSlots
<1> QED BY <1>1, <1>2

-----------------------------------------------------------------------------
Table == [HashSlots -> Slots \cup {EMPTY, DELETED}]

\* The two markers are neither slots of devices nor the same.
LEMMA Markers == EMPTY \notin Slots /\ DELETED \notin Slots /\ EMPTY # DELETED
  BY DEF EMPTY, DELETED, Slots

\* What hash_find_slot() returns when its search stops.
LEMMA FindStops ==
  ASSUME NEW devs, NEW tab \in Table, NEW id \in Ids, Stops(devs, tab, id) # {}
  PROVE  \E k \in HashSlots :
           /\ hash_find_slot(devs, tab, id).found = (tab[Probe(id, k)] # EMPTY)
           /\ hash_find_slot(devs, tab, id).slot = Probe(id, k)
           /\ tab[Probe(id, k)] = EMPTY \/ Holds(devs, tab, Probe(id, k), id)
           /\ \A j \in 0 .. k - 1 :
                /\ tab[Probe(id, j)] # EMPTY
                /\ ~ Holds(devs, tab, Probe(id, j), id)
<1> DEFINE S == Stops(devs, tab, id)
           k == First(S)
<1>1. S \in SUBSET (0 .. HashSize - 1) /\ HashSize - 1 \in Nat
  BY DEF Stops
<1>2. k \in S /\ \A j \in S : k <= j
  BY <1>1, FirstIsLeast
<1>3. k \in HashSlots
  BY <1>1, <1>2 DEF HashSlots
<1>4. tab[Probe(id, k)] = EMPTY \/ Holds(devs, tab, Probe(id, k), id)
  BY <1>2 DEF Stops
<1>5. \A j \in 0 .. k - 1 : tab[Probe(id, j)] # EMPTY
                          /\ ~ Holds(devs, tab, Probe(id, j), id)
  BY <1>2, <1>3 DEF Stops, HashSlots
<1>6. hash_find_slot(devs, tab, id) =
        [found |-> tab[Probe(id, k)] # EMPTY, slot |-> Probe(id, k)]
  BY DEF hash_find_slot
<1>7. /\ hash_find_slot(devs, tab, id).found = (tab[Probe(id, k)] # EMPTY)
      /\ hash_find_slot(devs, tab, id).slot = Probe(id, k)
  BY <1>6
<1> QED BY <1>3, <1>4, <1>5, <1>7

\* A search that finds something has found a slot of a device with the id.
LEMMA FoundHolds ==
  ASSUME NEW devs, NEW tab \in Table, NEW id \in Ids,
         hash_find_slot(devs, tab, id).found
  PROVE  LET s == hash_find_slot(devs, tab, id).slot
         IN  /\ s \in HashSlots
             /\ tab[s] \in Slots
             /\ devs[tab[s]].id = id
<1>1. Stops(devs, tab, id) # {}
  BY DEF hash_find_slot
<1>2. PICK k \in HashSlots :
           /\ hash_find_slot(devs, tab, id).found = (tab[Probe(id, k)] # EMPTY)
           /\ hash_find_slot(devs, tab, id).slot = Probe(id, k)
           /\ tab[Probe(id, k)] = EMPTY \/ Holds(devs, tab, Probe(id, k), id)
  BY <1>1, FindStops
<1> QED BY <1>2, ProbeType DEF Holds

-----------------------------------------------------------------------------
\* Under the invariant a device in use is found, at its own slot.
LEMMA FindsDevice ==
  ASSUME RegistryInv, NEW i \in InUse
  PROVE  LET f == hash_find_slot(devices, hash, devices[i].id)
         IN  f.found /\ hash[f.slot] = i
<1> DEFINE id == devices[i].id
           f  == hash_find_slot(devices, hash, id)
<1>1. id \in Ids /\ i \in Slots
  BY DEF RegistryInv, FreeSlotsZeroed, Zeroed, InUse
<1>2. PICK k \in HashSlots : Reaches(i, k)
  BY DEF RegistryInv, EntriesReachable
<1>3. Holds(devices, hash, Probe(id, k), id)
  BY <1>1, <1>2 DEF Reaches, Holds
<1>4. k \in Stops(devices, hash, id)
  BY <1>3 DEF Stops, HashSlots
<1>5. hash \in Table
  BY DEF RegistryInv, TypeOK, Table
<1>6. PICK m \in HashSlots :
           /\ f.found = (hash[Probe(id, m)] # EMPTY)
           /\ f.slot = Probe(id, m)
           /\ hash[Probe(id, m)] = EMPTY \/ Holds(devices, hash, Probe(id, m), id)
           /\ \A j \in 0 .. m - 1 :
                /\ hash[Probe(id, j)] # EMPTY
                /\ ~ Holds(devices, hash, Probe(id, j), id)
  BY <1>1, <1>4, <1>5, FindStops
<1>7. m <= k
  BY <1>3, <1>6 DEF HashSlots
<1>8. hash[Probe(id, m)] # EMPTY
  BY <1>2, <1>3, <1>7, Markers DEF Reaches, HashSlots, Holds
<1>9. f.found /\ devices[hash[f.slot]].id = id /\ hash[f.slot] \in Slots
  BY <1>6, <1>8 DEF Holds
<1>10. hash[f.slot] \in InUse
  BY <1>1, <1>9 DEF RegistryInv, FreeSlotsZeroed, Zeroed, InUse
<1> QED BY <1>9, <1>10 DEF RegistryInv, UniqueIds

\* Under the invariant whatever is found is a device in use with the id.
LEMMA FindIsExact ==
  ASSUME RegistryInv, NEW id \in Ids
  PROVE  LET f == hash_find_slot(devices, hash, id)
         IN  /\ f.found <=> \E i \in InUse : devices[i].id = id
             /\ f.found => hash[f.slot] \in InUse /\ devices[hash[f.slot]].id = id
<1> DEFINE f == hash_find_slot(devices, hash, id)
<1>1. hash \in Table
  BY DEF RegistryInv, TypeOK, Table
<1>2. f.found => hash[f.slot] \in InUse /\ devices[hash[f.slot]].id = id
  BY <1>1, FoundHolds DEF RegistryInv, FreeSlotsZeroed, Zeroed, InUse
<1>3. (\E i \in InUse : devices[i].id = id) => f.found
  BY FindsDevice
<1> QED BY <1>2, <1>3

\* A lookup returns the slot of the device with the id, if there is one.
LEMMA GetIsExact ==
  ASSUME RegistryInv, NEW id \in Ids
  PROVE  LET i == device_registry_get(id)
         IN  /\ i # NULL => i \in InUse /\ devices[i].id = id
             /\ i = NULL <=> \A j \in InUse : devices[j].id # id
             /\ i = NULL <=> ~ hash_find_slot(devices, hash, id).found
<1> DEFINE f == hash_find_slot(devices, hash, id)
<1>1. /\ f.found <=> \E i \in InUse : devices[i].id = id
      /\ f.found => hash[f.slot] \in InUse /\ devices[hash[f.slot]].id = id
  BY FindIsExact
<1>2. \A i \in InUse : i # NULL /\ devices[i].in_use
  BY DEF InUse, NULL, Slots
<1> HIDE DEF f
<1>3. device_registry_get(id) = IF f.found THEN hash[f.slot] ELSE NULL
  BY <1>1, <1>2 DEF device_registry_get, f
<1> QED BY <1>1, <1>2, <1>3 DEF f

\* find_free_slot() finds a free slot when there is one.
LEMMA FreeSlotIsFree ==
  ASSUME RegistryInv
  PROVE  LET i == find_free_slot(devices)
         IN  /\ i # MaxDevices => i \in Slots \ InUse
             /\ \A n \in Slots :
                  ~ devices[Round(cursor, n)].in_use => i # MaxDevices
<1> DEFINE S == FreeDistances(devices)
<1>1. cursor \in Slots /\ S \in SUBSET (0 .. MaxDevices - 1) /\ MaxDevices - 1 \in Nat
  BY DEF RegistryInv, TypeOK, FreeDistances, Slots
<1>2. CASE S = {}
  BY <1>2 DEF find_free_slot, FreeDistances
<1>3. CASE S # {}
  <2>1. First(S) \in S
    BY <1>1, <1>3, FirstIsLeast
  <2>2. First(S) \in Slots /\ ~ devices[Round(cursor, First(S))].in_use
    BY <2>1 DEF FreeDistances
  <2>3. Round(cursor, First(S)) \in Slots
    BY <1>1, <2>2, RoundType
  <2> QED BY <1>3, <2>2, <2>3 DEF find_free_slot, InUse, Slots
<1> QED BY <1>2, <1>3

-----------------------------------------------------------------------------
\* The heart of the argument: a free slot can always be entered in the table,
\* at an EMPTY slot on the id's probe path or where its old entry still is.
LEMMA InsertSucceeds ==
  ASSUME RegistryInv, NEW id \in Ids, NEW idx \in Slots \ InUse, NEW d, d.id = id,
         \A i \in InUse : devices[i].id # id,
         NEW devs, devs = [devices EXCEPT ![idx] = d]
  PROVE  \E k \in HashSlots :
           /\ hash_insert(devs, hash, id, idx).ok = TRUE
           /\ hash_insert(devs, hash, id, idx).tab = [hash EXCEPT ![Probe(id, k)] = idx]
           /\ hash[Probe(id, k)] = EMPTY \/ hash[Probe(id, k)] = idx
           /\ \A j \in 0 .. k - 1 : hash[Probe(id, j)] # EMPTY
<1>1. hash \in Table /\ devices \in [Slots -> Device]
  BY DEF RegistryInv, TypeOK, Table
<1>2. \A i \in Slots : devs[i].id = id <=> i = idx
  BY <1>1 DEF RegistryInv, FreeSlotsZeroed, Zeroed, InUse
<1>3. Stops(devs, hash, id) # {}
  <2> SUFFICES ASSUME Stops(devs, hash, id) = {} PROVE FALSE
    OBVIOUS
  <2>1. \A k \in HashSlots : /\ hash[Probe(id, k)] # EMPTY
                            /\ ~ Holds(devs, hash, Probe(id, k), id)
    BY DEF Stops, HashSlots
  <2>2. \A s \in HashSlots : hash[s] # EMPTY /\ hash[s] # idx
    <3> TAKE s \in HashSlots
    <3>1. PICK k \in HashSlots : Probe(id, k) = s
      BY ProbeCovers
    <3> QED BY <1>2, <2>1, <3>1 DEF Holds
  <2>3. idx \in Fresh
    BY <2>2 DEF Fresh
  <2>4. hash \in [HashSlots -> Slots \ {idx}]
    BY <1>1, <2>2 DEF Table, RegistryInv, NoneDeleted
  <2>5. hash \in Injection(HashSlots, Slots \ {idx})
    BY <2>2, <2>3, <2>4 DEF RegistryInv, OneEntryWhileFresh, Injection, IsInjective
  <2>6. IsFiniteSet(Slots) /\ Cardinality(Slots) = MaxDevices
    BY SlotsFinite
  <2>7. IsFiniteSet(Slots \ {idx}) /\ Cardinality(Slots \ {idx}) = MaxDevices - 1
    BY <2>6, FS_RemoveElement
  <2>8. Cardinality(HashSlots) = HashSize
    BY FS_Interval DEF HashSlots
  <2>9. Cardinality(HashSlots) <= Cardinality(Slots \ {idx})
    BY <2>5, <2>7, FS_Injection
  <2> QED BY <2>7, <2>8, <2>9
<1>4. PICK k \in HashSlots :
           /\ hash_find_slot(devs, hash, id).found = (hash[Probe(id, k)] # EMPTY)
           /\ hash_find_slot(devs, hash, id).slot = Probe(id, k)
           /\ hash[Probe(id, k)] = EMPTY \/ Holds(devs, hash, Probe(id, k), id)
           /\ \A j \in 0 .. k - 1 :
                /\ hash[Probe(id, j)] # EMPTY
                /\ ~ Holds(devs, hash, Probe(id, j), id)
  BY <1>1, <1>3, FindStops, ZenonT(60)
<1>5. hash[Probe(id, k)] = EMPTY \/ hash[Probe(id, k)] = idx
  BY <1>2, <1>4 DEF Holds
<1>6. hash_find_slot(devs, hash, id).found \/ hash[Probe(id, k)] = EMPTY
  BY <1>4
<1>7. hash_insert(devs, hash, id, idx) =
        [ok |-> TRUE, tab |-> [hash EXCEPT ![Probe(id, k)] = idx]]
  BY <1>4, <1>6 DEF hash_insert
<1>8. /\ hash_insert(devs, hash, id, idx).ok = TRUE
      /\ hash_insert(devs, hash, id, idx).tab = [hash EXCEPT ![Probe(id, k)] = idx]
  <2>1. PICK r : r = hash_insert(devs, hash, id, idx)
    OBVIOUS
  <2>2. r.ok = TRUE /\ r.tab = [hash EXCEPT ![Probe(id, k)] = idx]
    BY <1>7, <2>1
  <2> QED BY <2>1, <2>2
<1> QED BY <1>4, <1>5, <1>8

\* A registry with no device and an empty table, whatever the cursor.
LEMMA EmptyRegistry ==
  ASSUME cursor' \in Slots, initialized' \in BOOLEAN,
         devices' = [i \in Slots |-> Zeroed], states' = [i \in Slots |-> NoState],
         hash' = [s \in HashSlots |-> EMPTY], count' = 0
  PROVE  RegistryInv'
<1>1. TypeOK'
  BY DEF TypeOK, Device, Zeroed
<1>2. InUse' = {}
  BY DEF InUse, Zeroed
<1>3. FreeSlotsZeroed'
  BY DEF FreeSlotsZeroed, Zeroed
<1>4. Fresh' = Slots
  BY Markers DEF Fresh
<1>5. FreshIsNext'
  <2>1. \A n \in Slots : Round(cursor', n) \in Fresh' /\ n < MaxDevices
    <3>1. \A n \in Slots : n < MaxDevices
      BY DEF Slots
    <3> QED BY <1>4, <3>1, RoundType
  <2>2. MaxDevices \in 0 .. MaxDevices
    OBVIOUS
  <2> QED BY <2>1, <2>2 DEF FreshIsNext, Round
<1>6. CountExact'
  BY <1>2, FS_EmptySet DEF CountExact
<1>7. UniqueIds' /\ EntriesReachable' /\ NoneDeleted' /\ OneEntryWhileFresh'
  BY <1>2, Markers DEF UniqueIds, EntriesReachable, NoneDeleted, OneEntryWhileFresh
<1> QED BY <1>1, <1>3, <1>5, <1>6, <1>7 DEF RegistryInv

\* The invariant holds before the registry is initialized.
LEMMA InitInv == Init => RegistryInv
<1> SUFFICES ASSUME Init PROVE RegistryInv
  OBVIOUS
<1>0. 0 \in Slots
  BY DEF Slots
<1>1. TypeOK
  <2>1. devices \in [Slots -> Device] /\ states \in [Slots -> State \cup {NoState}]
    BY DEF Init, Device, Zeroed
  <2>2. hash \in [HashSlots -> Slots \cup {EMPTY, DELETED}]
    BY DEF Init
  <2>3. cursor \in Slots /\ count \in 0 .. MaxDevices
    BY <1>0 DEF Init
  <2>4. initialized \in BOOLEAN
    BY Zenon DEF Init
  <2> QED BY <2>1, <2>2, <2>3, <2>4 DEF TypeOK
<1>2. InUse = {}
  BY DEF Init, InUse, Zeroed
<1>3. FreeSlotsZeroed
  BY DEF Init, FreeSlotsZeroed, Zeroed
<1>4. Fresh = Slots
  BY Markers DEF Init, Fresh
<1>5. FreshIsNext
  <2>1. cursor \in Slots
    BY <1>1 DEF TypeOK
  <2>2. \A n \in Slots : Round(cursor, n) \in Fresh /\ n < MaxDevices
    <3>1. \A n \in Slots : n < MaxDevices
      BY DEF Slots
    <3> QED BY <1>4, <2>1, <3>1, RoundType
  <2>3. MaxDevices \in 0 .. MaxDevices
    OBVIOUS
  <2> QED BY <2>2, <2>3 DEF FreshIsNext
<1>6. CountExact
  BY <1>2, FS_EmptySet DEF Init, CountExact
<1>7. UniqueIds /\ EntriesReachable /\ NoneDeleted /\ OneEntryWhileFresh
  BY <1>2, Markers DEF Init, UniqueIds, EntriesReachable, NoneDeleted, OneEntryWhileFresh
<1> QED BY <1>1, <1>3, <1>5, <1>6, <1>7 DEF RegistryInv

-----------------------------------------------------------------------------
\* Going round once from any slot meets every slot, the start last of all.
LEMMA RoundCovers ==
  \A c, i \in Slots : \E n \in Slots : Round(c, n) = i
<1> TAKE c, i \in Slots
<1> DEFINE n == IF i >= c THEN i - c ELSE i - c + MaxDevices
<1>1. n \in Slots
  BY DEF Slots
<1>2. Round(c, n) = i
  BY <1>1, RoundDef DEF Slots
<1> QED BY <1>1, <1>2

\* One step round the array.
LEMMA RoundOne ==
  \A c \in Slots : Round(c, 1) = IF c + 1 < MaxDevices THEN c + 1 ELSE 0
<1> TAKE c \in Slots
<1>1. CASE c + 1 < MaxDevices
  BY <1>1, ModSmall DEF Round, Slots
<1>2. CASE ~ (c + 1 < MaxDevices)
  BY <1>2, ModWrap DEF Round, Slots
<1> QED BY <1>1, <1>2

\* Counting from the next slot is counting one further, round the array.
LEMMA RoundNext ==
  \A c, n \in Slots :
    Round(Round(c, 1), n) = IF n + 1 < MaxDevices THEN Round(c, n + 1) ELSE c
<1> TAKE c, n \in Slots
<1>1. Round(c, 1) \in Slots
  BY RoundOne DEF Slots
<1>2. CASE n + 1 < MaxDevices
  <2>1. n + 1 \in Slots
    BY <1>2 DEF Slots
  <2>2. Round(c, n + 1) = IF c + (n + 1) < MaxDevices THEN c + (n + 1)
                          ELSE c + (n + 1) - MaxDevices
    BY <2>1, RoundDef
  <2>3. Round(Round(c, 1), n) = IF Round(c, 1) + n < MaxDevices THEN Round(c, 1) + n
                                ELSE Round(c, 1) + n - MaxDevices
    BY <1>1, RoundDef
  <2> QED BY <1>2, <2>2, <2>3, RoundOne DEF Slots
<1>3. CASE ~ (n + 1 < MaxDevices)
  BY <1>1, <1>3, RoundOne, RoundDef, SMTT(60) DEF Slots
<1> QED BY <1>2, <1>3

\* Sets of slots are finite and no larger than the array.
LEMMA SlotSubsets ==
  ASSUME NEW S \in SUBSET Slots
  PROVE  IsFiniteSet(S) /\ Cardinality(S) \in 0 .. MaxDevices
<1>1. IsFiniteSet(S) /\ Cardinality(S) <= MaxDevices
  BY SlotsFinite, FS_Subset
<1>2. Cardinality(S) \in Nat
  BY <1>1, FS_CardinalityType
<1> QED BY <1>1, <1>2

\* A slot that never had an entry has no device.
LEMMA FreshIsFree == ASSUME RegistryInv, NEW i \in Fresh PROVE i \notin InUse
<1> SUFFICES ASSUME i \in InUse PROVE FALSE
  OBVIOUS
<1>1. PICK k \in HashSlots : Reaches(i, k)
  BY DEF RegistryInv, EntriesReachable
<1>2. devices[i].id \in Ids
  BY DEF RegistryInv, FreeSlotsZeroed, Zeroed, InUse
<1> QED BY <1>1, <1>2, ProbeType DEF Reaches, Fresh

-----------------------------------------------------------------------------
\* The entry written for slot idx is an EMPTY one or the slot's own old one, so
\* no other entry changes and no probe path is cut.
LEMMA AddPreserves ==
  ASSUME RegistryInv, NEW id \in Ids, NEW p \in Protocols,
         device_registry_add(id, p)
  PROVE  RegistryInv'
<1> DEFINE idx == find_free_slot(devices)
<1>1. \A i \in InUse : devices[i].id # id
  BY FindIsExact DEF device_registry_add
<1>2. idx \in Slots \ InUse
  BY FreeSlotIsFree DEF device_registry_add
<1> DEFINE d    == device_init(id, p)
           devs == [devices EXCEPT ![idx] = d]
<1>3. d.id = id /\ d.in_use = TRUE
  BY DEF device_init, Zeroed
<1>4. PICK k \in HashSlots :
           /\ hash_insert(devs, hash, id, idx).ok = TRUE
           /\ hash_insert(devs, hash, id, idx).tab = [hash EXCEPT ![Probe(id, k)] = idx]
           /\ hash[Probe(id, k)] = EMPTY \/ hash[Probe(id, k)] = idx
           /\ \A j \in 0 .. k - 1 : hash[Probe(id, j)] # EMPTY
  <2> HIDE DEF idx, d
  <2> QED BY <1>1, <1>2, <1>3, InsertSucceeds
<1> DEFINE at == Probe(id, k)
<1>5. at \in HashSlots
  BY ProbeType
<1>6. /\ cursor' = Round(idx, 1)
      /\ hash' = [hash EXCEPT ![at] = idx]
      /\ devices' = devs
      /\ count' = count + 1
      /\ states' = states
      /\ initialized' = initialized
  BY <1>4 DEF device_registry_add
<1>7. d \in Device
  BY DEF device_init, Zeroed, Device
<1> HIDE DEF idx, d, at
<1>8. TypeOK
  BY DEF RegistryInv
<1>9. InUse' = InUse \cup {idx}
  BY <1>2, <1>3, <1>6, <1>8 DEF InUse, TypeOK
<1>10. CountExact'
  <2>1. IsFiniteSet(InUse)
    BY SlotsFinite, FS_Subset DEF InUse
  <2>2. Cardinality(InUse \cup {idx}) = Cardinality(InUse) + 1
    BY <1>2, <2>1, FS_AddElement
  <2> QED BY <1>6, <1>9, <2>2 DEF RegistryInv, CountExact
<1>11. TypeOK'
  <2>1. cursor' \in Slots
    <3>1. CASE MaxDevices = 1
      BY <1>2, <1>6, <3>1, ModWrap DEF Round, Slots
    <3>2. CASE MaxDevices > 1
      BY <1>2, <1>6, <3>2, RoundType DEF Slots
    <3> QED BY <3>1, <3>2
  <2>2. hash' \in [HashSlots -> Slots \cup {EMPTY, DELETED}]
    BY <1>2, <1>5, <1>6, <1>8 DEF TypeOK
  <2>3. devices' \in [Slots -> Device]
    BY <1>2, <1>6, <1>7, <1>8 DEF TypeOK
  <2>4. count' \in 0 .. MaxDevices
    <3>1. InUse' \in SUBSET Slots
      BY DEF InUse
    <3> QED BY <1>10, <3>1, SlotSubsets DEF CountExact
  <2> QED BY <1>6, <1>8, <2>1, <2>2, <2>3, <2>4 DEF TypeOK
<1>12. FreeSlotsZeroed'
  BY <1>2, <1>3, <1>6, <1>8 DEF RegistryInv, FreeSlotsZeroed, Zeroed, TypeOK
<1>13. UniqueIds'
  BY <1>1, <1>2, <1>3, <1>6, <1>8, <1>9 DEF RegistryInv, UniqueIds, TypeOK, InUse
<1>14. \A s \in HashSlots : hash[s] # EMPTY => hash'[s] = hash[s]
  BY <1>2, <1>4, <1>5, <1>6, <1>8 DEF TypeOK, at
<1>15. EntriesReachable'
  <2> SUFFICES ASSUME NEW i \in InUse'
               PROVE  \E m \in HashSlots : Reaches(i, m)'
    BY DEF EntriesReachable
  <2>1. CASE i = idx
    <3>1. devices'[i].id = id
      BY <1>2, <1>3, <1>6, <1>8, <2>1 DEF TypeOK
    <3>2. hash'[Probe(id, k)] = i
      BY <1>5, <1>6, <1>8, <2>1 DEF TypeOK, at
    <3>3. ASSUME NEW j \in 0 .. k - 1 PROVE hash'[Probe(id, j)] # EMPTY
      <4>1. Probe(id, j) \in HashSlots
        BY ProbeType DEF HashSlots
      <4> QED BY <1>4, <1>14, <4>1
    <3> QED BY <3>1, <3>2, <3>3 DEF Reaches
  <2>2. CASE i # idx
    <3>1. i \in InUse /\ devices'[i] = devices[i] /\ i \in Slots
      BY <1>6, <1>8, <1>9, <2>2 DEF InUse, TypeOK
    <3>2. PICK m \in HashSlots : Reaches(i, m)
      BY <3>1 DEF RegistryInv, EntriesReachable
    <3>3. devices[i].id \in Ids
      BY <3>1 DEF RegistryInv, FreeSlotsZeroed, Zeroed, InUse
    <3>4. hash'[Probe(devices[i].id, m)] = i
      BY <1>14, <3>1, <3>2, <3>3, ProbeType, Markers DEF Reaches
    <3>5. ASSUME NEW j \in 0 .. m - 1
          PROVE  hash'[Probe(devices[i].id, j)] # EMPTY
      <4>1. Probe(devices[i].id, j) \in HashSlots
        BY <3>3, ProbeType DEF HashSlots
      <4> QED BY <1>14, <3>2, <4>1 DEF Reaches
    <3> QED BY <3>1, <3>4, <3>5 DEF Reaches
  <2> QED BY <2>1, <2>2
<1>16. NoneDeleted'
  BY <1>2, <1>5, <1>6, <1>8, Markers DEF RegistryInv, NoneDeleted, TypeOK
<1>17. Fresh' = Fresh \ {idx}
  <2>1. ASSUME NEW i \in Fresh, i # idx PROVE i \in Fresh'
    BY <1>2, <1>5, <1>6, <1>8, <2>1 DEF Fresh, TypeOK
  <2>2. ASSUME NEW i \in Slots, i \notin Fresh PROVE i \notin Fresh'
    <3>1. PICK s \in HashSlots : hash[s] = i
      BY <2>2 DEF Fresh
    <3> QED BY <1>14, <3>1, Markers DEF Fresh
  <2>3. idx \notin Fresh'
    BY <1>5, <1>6, <1>8 DEF Fresh, TypeOK
  <2> QED BY <2>1, <2>2, <2>3 DEF Fresh
<1>18. Fresh # {} => idx = cursor /\ cursor \in Fresh
  <2> SUFFICES ASSUME Fresh # {} PROVE idx = cursor /\ cursor \in Fresh
    OBVIOUS
  <2>1. cursor \in Slots /\ 0 \in Slots
    BY <1>8 DEF TypeOK, Slots
  <2>2. Round(cursor, 0) = cursor
    BY <2>1, RoundDef DEF Slots
  <2>3. PICK f \in 0 .. MaxDevices :
             \A n \in Slots : Round(cursor, n) \in Fresh <=> n < f
    BY DEF RegistryInv, FreshIsNext
  <2>4. PICK i \in Slots : i \in Fresh
    BY DEF Fresh
  <2>5. PICK n \in Slots : Round(cursor, n) = i
    BY <2>1, RoundCovers
  <2>6. 0 < f
    BY <2>3, <2>4, <2>5 DEF Slots
  <2>7. cursor \in Fresh
    BY <2>1, <2>2, <2>3, <2>6
  <2>8. cursor \notin InUse
    BY <2>7, FreshIsFree
  <2>9. 0 \in FreeDistances(devices)
    BY <2>1, <2>2, <2>8 DEF FreeDistances, InUse
  <2>10. First(FreeDistances(devices)) = 0
    <3>1. FreeDistances(devices) \in SUBSET (0 .. MaxDevices - 1) /\ MaxDevices - 1 \in Nat
      BY DEF FreeDistances, Slots
    <3>2. First(FreeDistances(devices)) <= 0 /\ First(FreeDistances(devices)) \in 0 .. MaxDevices - 1
      BY <2>9, <3>1, FirstIsLeast
    <3> QED BY <3>2
  <2>11. idx = cursor
    BY <2>2, <2>9, <2>10 DEF idx, find_free_slot
  <2> QED BY <2>7, <2>11
<1>19. FreshIsNext'
  <2>1. CASE Fresh = {}
    <3>1. \A n \in Slots : Round(cursor', n) \in Fresh' <=> n < 0
      BY <1>17, <2>1 DEF Slots
    <3>2. 0 \in 0 .. MaxDevices
      OBVIOUS
    <3> QED BY <3>1, <3>2 DEF FreshIsNext, Round
  <2>2. CASE Fresh # {}
    <3>1. PICK f \in 0 .. MaxDevices :
               \A n \in Slots : Round(cursor, n) \in Fresh <=> n < f
      BY DEF RegistryInv, FreshIsNext
    <3>2. cursor \in Slots /\ idx = cursor /\ cursor \in Fresh
      BY <1>8, <1>18, <2>2 DEF TypeOK
    <3>3. 0 < f
      BY <3>1, <3>2, RoundDef DEF Slots
    <3>4. ASSUME NEW n \in Slots
          PROVE  Round(cursor', n) \in Fresh' <=> n < f - 1
      <4>1. CASE n + 1 < MaxDevices
        <5>1. n + 1 \in Slots /\ Round(cursor', n) = Round(cursor, n + 1)
          BY <1>6, <3>2, <4>1, RoundNext DEF Slots
        <5>2. Round(cursor, n + 1) # cursor
          BY <3>2, <4>1, <5>1, RoundDef DEF Slots
        <5>3. Round(cursor, n + 1) \in Fresh <=> n + 1 < f
          BY <3>1, <5>1
        <5>4. n + 1 < f <=> n < f - 1
          BY DEF Slots
        <5> QED BY <1>17, <3>2, <5>1, <5>2, <5>3, <5>4
      <4>2. CASE n + 1 = MaxDevices
        <5>1. Round(cursor', n) = cursor
          BY <1>6, <3>2, <4>2, RoundNext DEF Slots
        <5>2. ~ (n < f - 1)
          BY <4>2 DEF Slots
        <5> QED BY <1>17, <3>2, <5>1, <5>2
      <4> QED BY <4>1, <4>2 DEF Slots
    <3>5. f - 1 \in 0 .. MaxDevices
      BY <3>3
    <3> QED BY <3>4, <3>5 DEF FreshIsNext, Round
  <2> QED BY <2>1, <2>2
<1>20. OneEntryWhileFresh'
  <2> SUFFICES ASSUME Fresh' # {},
                      NEW s \in HashSlots, NEW t \in HashSlots,
                      hash'[s] = hash'[t], hash'[s] # EMPTY
               PROVE  s = t
    BY DEF OneEntryWhileFresh
  <2>1. Fresh # {} /\ idx \in Fresh
    BY <1>17, <1>18
  <2>2. \A u \in HashSlots : hash[u] # idx
    BY <2>1 DEF Fresh
  <2> QED BY <1>5, <1>6, <1>8, <2>1, <2>2 DEF RegistryInv, OneEntryWhileFresh, TypeOK
<1> QED BY <1>10, <1>11, <1>12, <1>13, <1>15, <1>16, <1>19, <1>20 DEF RegistryInv

\* The slot is zeroed before the table is searched, so no entry is found and
\* the table stays as it is.
LEMMA RemovePreserves ==
  ASSUME RegistryInv, NEW id \in Ids, device_registry_remove(id)
  PROVE  RegistryInv'
<1> DEFINE idx  == device_registry_get(id)
           devs == [devices EXCEPT ![idx] = Zeroed]
<1>1. idx \in InUse /\ devices[idx].id = id
  BY GetIsExact DEF device_registry_remove
<1>2. /\ states' = [states EXCEPT ![idx] = NoState]
      /\ devices' = devs
      /\ hash' = hash_remove(devs, hash, id)
      /\ count' = count - 1
      /\ cursor' = cursor
      /\ initialized' = initialized
  BY DEF device_registry_remove
<1> HIDE DEF idx
<1>3. TypeOK /\ hash \in Table
  BY DEF RegistryInv, TypeOK, Table
<1>4. idx \in Slots
  BY <1>1 DEF InUse
<1>5. Zeroed.id = NoId /\ Zeroed.in_use = FALSE /\ Zeroed \in Device
  BY DEF Zeroed, Device
<1>6. \A i \in Slots : devs[i].id # id
  BY <1>1, <1>3, <1>4, <1>5 DEF RegistryInv, FreeSlotsZeroed, Zeroed, UniqueIds, InUse, TypeOK
<1>7. hash' = hash
  <2>1. ~ hash_find_slot(devs, hash, id).found
    <3> HIDE DEF devs
    <3> QED BY <1>3, <1>6, FoundHolds
  <2> QED BY <1>2, <2>1 DEF hash_remove
<1>8. InUse' = InUse \ {idx}
  BY <1>2, <1>3, <1>4, <1>5 DEF InUse, TypeOK
<1>9. CountExact'
  <2>1. Cardinality(InUse \ {idx}) = Cardinality(InUse) - 1
    BY <1>1, SlotSubsets, FS_RemoveElement DEF InUse
  <2> QED BY <1>2, <1>8, <2>1 DEF RegistryInv, CountExact
<1>10. TypeOK'
  <2>1. devices' \in [Slots -> Device] /\ states' \in [Slots -> State \cup {NoState}]
    BY <1>2, <1>3, <1>4, <1>5 DEF TypeOK
  <2>2. count' \in 0 .. MaxDevices
    <3>1. InUse' \in SUBSET Slots
      BY DEF InUse
    <3> QED BY <1>9, <3>1, SlotSubsets DEF CountExact
  <2> QED BY <1>2, <1>3, <1>7, <2>1, <2>2 DEF TypeOK
<1>11. FreeSlotsZeroed'
  BY <1>2, <1>3, <1>4, <1>5 DEF RegistryInv, FreeSlotsZeroed, Zeroed, TypeOK
<1>12. UniqueIds'
  BY <1>2, <1>3, <1>4, <1>8 DEF RegistryInv, UniqueIds, TypeOK, InUse
<1>13. EntriesReachable'
  <2> SUFFICES ASSUME NEW i \in InUse'
               PROVE  \E m \in HashSlots : Reaches(i, m)'
    BY DEF EntriesReachable
  <2>1. i \in InUse /\ devices'[i] = devices[i]
    BY <1>2, <1>3, <1>4, <1>8 DEF TypeOK, InUse
  <2>2. PICK m \in HashSlots : Reaches(i, m)
    BY <2>1 DEF RegistryInv, EntriesReachable
  <2> QED BY <1>7, <2>1, <2>2 DEF Reaches
<1>14. NoneDeleted' /\ FreshIsNext' /\ OneEntryWhileFresh'
  BY <1>2, <1>7, ZenonT(120)
     DEF RegistryInv, NoneDeleted, FreshIsNext, OneEntryWhileFresh, Fresh, Round
<1> QED BY <1>9, <1>10, <1>11, <1>12, <1>13, <1>14 DEF RegistryInv

\* Clearing every slot in use leaves an empty registry: the others were zeroed.
LEMMA ClearPreserves ==
  ASSUME RegistryInv, device_registry_clear_all
  PROVE  RegistryInv'
<1>1. cursor' \in Slots /\ initialized' \in BOOLEAN
  BY DEF RegistryInv, TypeOK, device_registry_clear_all
<1>2. devices' = [i \in Slots |-> Zeroed]
  BY DEF RegistryInv, FreeSlotsZeroed, device_registry_clear_all
<1> QED BY <1>1, <1>2, EmptyRegistry DEF device_registry_clear_all

\* Initializing and deinitializing leave an empty registry.
LEMMA RestartPreserves ==
  ASSUME RegistryInv, device_registry_init \/ device_registry_deinit
  PROVE  RegistryInv'
<1>1. cursor' \in Slots
  BY DEF RegistryInv, TypeOK, device_registry_init, device_registry_deinit
<1>2. CASE device_registry_init
  <2>1. initialized' \in BOOLEAN
    BY <1>2, Zenon DEF device_registry_init
  <2> QED BY <1>1, <1>2, <2>1, EmptyRegistry DEF device_registry_init
<1>3. CASE device_registry_deinit
  <2>1. initialized' \in BOOLEAN
    BY <1>3, Zenon DEF device_registry_deinit
  <2> QED BY <1>1, <1>3, <2>1, EmptyRegistry DEF device_registry_deinit
<1> QED BY <1>2, <1>3

\* A write to a state object touches one slot in use.
LEMMA StateWritePreserves ==
  ASSUME RegistryInv, NEW id \in Ids, NEW s \in State, WriteState(id, s)
  PROVE  RegistryInv'
<1> DEFINE i == device_registry_get(id)
<1>1. i \in InUse
  BY GetIsExact DEF WriteState, Registered
<1>2. /\ states' = [states EXCEPT ![i] = s]
      /\ UNCHANGED <<devices, hash, cursor, count, initialized>>
  BY DEF WriteState
<1> HIDE DEF i
<1>3. InUse' = InUse
  BY <1>2 DEF InUse
<1>4. TypeOK'
  BY <1>1, <1>2 DEF RegistryInv, TypeOK, InUse
<1>5. FreeSlotsZeroed'
  BY <1>1, <1>2 DEF RegistryInv, TypeOK, FreeSlotsZeroed, InUse
<1>6. /\ UniqueIds' /\ EntriesReachable' /\ NoneDeleted' /\ FreshIsNext'
      /\ OneEntryWhileFresh' /\ CountExact'
  BY <1>2, <1>3 DEF RegistryInv, UniqueIds, EntriesReachable, Reaches, NoneDeleted,
     FreshIsNext, OneEntryWhileFresh, CountExact, Fresh
<1> QED BY <1>4, <1>5, <1>6 DEF RegistryInv

\* A write to a device record leaves its id and its being in use alone.
LEMMA DeviceWritePreserves ==
  ASSUME RegistryInv, NEW id \in Ids, NEW d \in Device, WriteDevice(id, d),
         d.id = DeviceOf(id).id, d.in_use = DeviceOf(id).in_use
  PROVE  RegistryInv'
<1> DEFINE i == device_registry_get(id)
<1>1. i \in InUse
  BY GetIsExact DEF WriteDevice, Registered
<1>2. /\ devices' = [devices EXCEPT ![i] = d]
      /\ UNCHANGED <<states, hash, cursor, count, initialized>>
      /\ d.id = devices[i].id /\ d.in_use = devices[i].in_use
  BY DEF WriteDevice, DeviceOf
<1> HIDE DEF i
<1>3. TypeOK /\ i \in Slots
  BY <1>1 DEF RegistryInv, InUse
<1>4. \A j \in Slots : /\ devices'[j].id = devices[j].id
                      /\ devices'[j].in_use = devices[j].in_use
  BY <1>2, <1>3 DEF TypeOK
<1>5. InUse' = InUse
  BY <1>4 DEF InUse
<1>6. TypeOK'
  BY <1>2, <1>3 DEF TypeOK
<1>7. FreeSlotsZeroed'
  BY <1>1, <1>2, <1>3 DEF RegistryInv, TypeOK, FreeSlotsZeroed, InUse
<1>8. UniqueIds'
  BY <1>4, <1>5 DEF RegistryInv, UniqueIds, InUse
<1>9. EntriesReachable'
  <2> SUFFICES ASSUME NEW j \in InUse'
               PROVE  \E m \in HashSlots : Reaches(j, m)'
    BY DEF EntriesReachable
  <2>1. j \in InUse /\ devices'[j].id = devices[j].id
    BY <1>4, <1>5 DEF InUse
  <2>2. PICK m \in HashSlots : Reaches(j, m)
    BY <2>1 DEF RegistryInv, EntriesReachable
  <2> QED BY <1>2, <2>1, <2>2 DEF Reaches
<1>10. NoneDeleted' /\ FreshIsNext' /\ OneEntryWhileFresh' /\ CountExact'
  BY <1>2, <1>5 DEF RegistryInv, NoneDeleted, FreshIsNext, OneEntryWhileFresh,
     CountExact, Fresh
<1> QED BY <1>6, <1>7, <1>8, <1>9, <1>10 DEF RegistryInv

\* The record of a registered device is one.
LEMMA DeviceOfType ==
  ASSUME RegistryInv, NEW id \in Ids, Registered(id)
  PROVE  DeviceOf(id) \in Device
<1>1. device_registry_get(id) \in Slots
  BY GetIsExact DEF Registered, InUse
<1> QED BY <1>1 DEF DeviceOf, RegistryInv, TypeOK

\* The state objects the operations build are states.
LEMMA StateObjectType ==
  ASSUME RegistryInv, NEW id \in Ids, Registered(id)
  PROVE  StateObject(id) \in State
<1>1. device_registry_get(id) \in Slots
  BY GetIsExact DEF Registered, InUse
<1>2. states[device_registry_get(id)] \in State \cup {NoState}
  BY <1>1 DEF RegistryInv, TypeOK
<1>3. EmptyState \in State
  BY DEF EmptyState, State
<1> QED BY <1>2, <1>3 DEF StateObject

-----------------------------------------------------------------------------
\* Every step keeps the invariant.
LEMMA NextPreserves == RegistryInv /\ [Next]_vars => RegistryInv'
<1> SUFFICES ASSUME RegistryInv, [Next]_vars PROVE RegistryInv'
  OBVIOUS
<1>1. CASE device_registry_init \/ device_registry_deinit
  BY <1>1, RestartPreserves
<1>2. CASE device_registry_clear_all
  BY <1>2, ClearPreserves
<1>3. CASE \E id \in Ids, p \in Protocols : device_registry_add(id, p)
  BY <1>3, AddPreserves
<1>4. CASE \E id \in Ids : device_registry_remove(id)
  BY <1>4, RemovePreserves
<1>5. CASE \E id \in Ids, s \in State : device_registry_set_state(id, s)
  BY <1>5, StateWritePreserves DEF device_registry_set_state
<1>6. ASSUME NEW id \in Ids, NEW k \in Keys, NEW v \in Values,
             device_registry_update_state(id, k, v)
      PROVE  RegistryInv'
  <2>1. StateObject(id) \in State
    BY <1>6, StateObjectType DEF device_registry_update_state, WriteState
  <2>2. [StateObject(id) EXCEPT ![k] = v] \in State
    BY <2>1 DEF State
  <2> QED BY <1>6, <2>2, StateWritePreserves DEF device_registry_update_state
<1>7. ASSUME NEW id \in Ids, NEW s \in State, device_registry_merge_state(id, s)
      PROVE  RegistryInv'
  <2>1. StateObject(id) \in State
    BY <1>7, StateObjectType DEF device_registry_merge_state, WriteState
  <2>2. Merge(StateObject(id), s) \in State
    BY <2>1 DEF State, Merge
  <2> QED BY <1>7, <2>2, StateWritePreserves DEF device_registry_merge_state
<1>8. ASSUME NEW id \in Ids, NEW a \in Availabilities,
             device_registry_set_availability(id, a)
      PROVE  RegistryInv'
  <2>1. DeviceOf(id) \in Device
    BY <1>8, DeviceOfType DEF device_registry_set_availability, WriteDevice
  <2> DEFINE d == [DeviceOf(id) EXCEPT !.availability = a]
  <2>2. d \in Device /\ d.id = DeviceOf(id).id /\ d.in_use = DeviceOf(id).in_use
    BY <2>1 DEF Device
  <2> QED BY <1>8, <2>2, DeviceWritePreserves DEF device_registry_set_availability
<1>9. ASSUME NEW id \in Ids, NEW n \in Names,
             device_registry_set_friendly_name(id, n)
      PROVE  RegistryInv'
  <2>1. DeviceOf(id) \in Device
    BY <1>9, DeviceOfType DEF device_registry_set_friendly_name, WriteDevice
  <2> DEFINE d == [DeviceOf(id) EXCEPT !.friendly_name = n]
  <2>2. d \in Device /\ d.id = DeviceOf(id).id /\ d.in_use = DeviceOf(id).in_use
    BY <2>1 DEF Device
  <2> QED BY <1>9, <2>2, DeviceWritePreserves DEF device_registry_set_friendly_name
<1>10. ASSUME NEW id \in Ids, NEW c \in Clusters, device_registry_add_cluster(id, c)
       PROVE  RegistryInv'
  <2>1. DeviceOf(id) \in Device
    BY <1>10, DeviceOfType DEF device_registry_add_cluster
  <2> DEFINE d == [DeviceOf(id) EXCEPT !.clusters = @ \cup {c}]
  <2>2. d \in Device /\ d.id = DeviceOf(id).id /\ d.in_use = DeviceOf(id).in_use
    BY <2>1 DEF Device
  <2> QED BY <1>10, <2>2, DeviceWritePreserves DEF device_registry_add_cluster
<1>11. CASE UNCHANGED vars
  BY <1>11 DEF vars, RegistryInv, TypeOK, FreeSlotsZeroed, UniqueIds, InUse,
     EntriesReachable, Reaches, NoneDeleted, FreshIsNext, Fresh, OneEntryWhileFresh,
     CountExact
<1> QED BY <1>1, <1>2, <1>3, <1>4, <1>5, <1>6, <1>7, <1>8, <1>9, <1>10, <1>11 DEF Next

\* The inductive invariant holds in every reachable state of the registry.
THEOREM Invariance == Spec => []RegistryInv
<1>1. Init => RegistryInv
  BY InitInv
<1>2. RegistryInv /\ [Next]_vars => RegistryInv'
  BY NextPreserves
<1> QED BY <1>1, <1>2, PTL DEF Spec

\* Type correctness, the bound on the device count included.
THEOREM TypeCorrect == Spec => []TypeOK
<1>1. RegistryInv => TypeOK
  BY DEF RegistryInv
<1> QED BY <1>1, Invariance, PTL

\* No device is registered twice.
THEOREM IdsAreUnique == Spec => []UniqueIds
<1>1. RegistryInv => UniqueIds
  BY DEF RegistryInv
<1> QED BY <1>1, Invariance, PTL

\* device_registry_get() returns the device with the id, or NULL if there is
\* none, in every registry, whatever the hash function.
THEOREM LookupsAreExact == Spec => []LookupExact
<1>1. RegistryInv => LookupExact
  <2> SUFFICES ASSUME RegistryInv, NEW id \in Ids
               PROVE  LET i == device_registry_get(id)
                      IN  /\ i # NULL => devices[i].in_use /\ devices[i].id = id
                          /\ i = NULL => \A j \in InUse : devices[j].id # id
    BY DEF LookupExact
  <2> QED BY GetIsExact DEF InUse
<1> QED BY <1>1, Invariance, PTL

\* hash_insert() never reports a full table while a device slot is free.
THEOREM TableNeverFull == Spec => []RoomMeansInsertable
<1>1. RegistryInv => RoomMeansInsertable
  <2> SUFFICES ASSUME RegistryInv, NEW id \in Ids,
                      device_registry_get(id) = NULL,
                      find_free_slot(devices) # MaxDevices
               PROVE  hash_insert([devices EXCEPT ![find_free_slot(devices)] =
                                     device_init(id, "zigbee")],
                                  hash, id, find_free_slot(devices)).ok
    BY DEF RoomMeansInsertable
  <2> DEFINE idx == find_free_slot(devices)
             d   == device_init(id, "zigbee")
  <2>1. idx \in Slots \ InUse
    BY FreeSlotIsFree
  <2>2. \A j \in InUse : devices[j].id # id
    BY GetIsExact
  <2>3. d.id = id
    BY DEF device_init, Zeroed
  <2> HIDE DEF idx, d
  <2>4. PICK devs : devs = [devices EXCEPT ![idx] = d]
    OBVIOUS
  <2>5. hash_insert(devs, hash, id, idx).ok = TRUE
    BY <2>1, <2>2, <2>3, <2>4, InsertSucceeds
  <2> QED BY <2>4, <2>5 DEF idx, d
<1> QED BY <1>1, Invariance, PTL

\* The device count that is read without the mutex is the number of devices.
THEOREM CountIsExact == Spec => []CountExact
<1>1. RegistryInv => CountExact
  BY DEF RegistryInv
<1> QED BY <1>1, Invariance, PTL

\* A slot that is handed to a new device carries no state of an earlier one.
THEOREM NoStateLeftBehind == Spec => []NoOrphanState
<1>1. RegistryInv => NoOrphanState
  BY DEF RegistryInv, FreeSlotsZeroed, NoOrphanState, InUse
<1> QED BY <1>1, Invariance, PTL

-----------------------------------------------------------------------------
(***************************************************************************)
(* The refinement: the slots in use, by their ids, are the map.            *)
(***************************************************************************)

\* The record of the map that a slot stands for.
Entry(i) ==
  [protocol |-> devices[i].protocol, availability |-> devices[i].availability,
   friendly_name |-> devices[i].friendly_name, clusters |-> devices[i].clusters,
   state |-> states[i]]

\* The ids of the slots in use.
Known == {devices[i].id : i \in InUse}

\* Each registered device has one slot, whose record the map has.
MapShape ==
  /\ RegistryMap = [id \in Known |-> RegistryMap[id]]
  /\ \A i \in InUse : RegistryMap[devices[i].id] = Entry(i)

LEMMA MapIs == RegistryInv => MapShape
<1> SUFFICES ASSUME RegistryInv PROVE MapShape
  OBVIOUS
<1>1. \A id \in Known : SlotOf(id) \in InUse /\ devices[SlotOf(id)].id = id
  BY DEF SlotOf, Known
<1>2. \A i \in InUse : SlotOf(devices[i].id) = i
  BY <1>1 DEF Known, RegistryInv, UniqueIds
<1>3. RegistryMap = [id \in Known |-> Entry(SlotOf(id))]
  BY DEF RegistryMap, Known, Entry
<1>4. \A i \in InUse : RegistryMap[devices[i].id] = Entry(i)
  <2> SUFFICES ASSUME NEW i \in InUse PROVE RegistryMap[devices[i].id] = Entry(i)
    OBVIOUS
  <2>1. devices[i].id \in Known
    BY DEF Known
  <2> QED BY <1>2, <1>3, <2>1
<1>5. RegistryMap = [id \in Known |-> RegistryMap[id]]
  BY <1>3
<1> QED BY <1>4, <1>5 DEF MapShape

\* The same of the state that a step ends in.
LEMMA MapIsNext == RegistryInv' => MapShape'
BY MapIs, PTL

\* Without a slot in use the map is empty.
LEMMA EmptyMap ==
  ASSUME RegistryInv', InUse' = {}
  PROVE  RegistryMap' = Abstract!Empty
<1>1. MapShape'
  BY MapIsNext
<1>2. Known' = {}
  BY DEF Known
<1> QED BY <1>1, <1>2 DEF MapShape, Abstract!Empty

\* A step that leaves the ids of the slots in use as they are changes the map
\* where it changes a slot.
LEMMA WriteMap ==
  ASSUME RegistryInv, RegistryInv', NEW i \in InUse, NEW r, InUse' = InUse,
         \A j \in InUse : devices'[j].id = devices[j].id,
         \A j \in InUse : Entry(j)' = IF j = i THEN r ELSE Entry(j)
  PROVE  /\ devices[i].id \in DOMAIN RegistryMap
         /\ RegistryMap[devices[i].id] = Entry(i)
         /\ RegistryMap' = [RegistryMap EXCEPT ![devices[i].id] = r]
<1>1. MapShape /\ MapShape'
  BY MapIs, MapIsNext
<1>2. Known' = Known
  BY DEF Known
<1>3. devices[i].id \in Known /\ DOMAIN RegistryMap = Known
  BY <1>1 DEF Known, MapShape
<1>4. \A id \in Known :
        RegistryMap'[id] = IF id = devices[i].id THEN r ELSE RegistryMap[id]
  <2> SUFFICES ASSUME NEW j \in InUse
               PROVE  RegistryMap'[devices[j].id] =
                        IF devices[j].id = devices[i].id THEN r
                        ELSE RegistryMap[devices[j].id]
    BY DEF Known
  <2>1. devices[j].id = devices[i].id <=> j = i
    BY DEF RegistryInv, UniqueIds
  <2>2. RegistryMap'[devices'[j].id] = Entry(j)'
    BY <1>1 DEF MapShape
  <2> QED BY <1>1, <2>1, <2>2 DEF MapShape
<1>5. RegistryMap' = [id \in Known |-> RegistryMap'[id]]
  BY <1>1, <1>2 DEF MapShape
<1> QED BY <1>1, <1>3, <1>4, <1>5 DEF MapShape

\* A write to a state object is one to the map.
LEMMA StateMap ==
  ASSUME RegistryInv, RegistryInv', NEW id \in Ids, NEW s, WriteState(id, s)
  PROVE  /\ id \in DOMAIN RegistryMap
         /\ RegistryMap[id].state = states[device_registry_get(id)]
         /\ RegistryMap' = [RegistryMap EXCEPT ![id].state = s]
<1> DEFINE i == device_registry_get(id)
           r == [Entry(i) EXCEPT !.state = s]
<1>1. i \in InUse /\ devices[i].id = id
  BY GetIsExact DEF WriteState, Registered
<1>2. states' = [states EXCEPT ![i] = s] /\ devices' = devices
  BY DEF WriteState
<1> HIDE DEF i
<1>3. InUse' = InUse /\ InUse \subseteq Slots /\ DOMAIN states = Slots
  BY <1>2 DEF InUse, RegistryInv, TypeOK
<1>4. \A j \in InUse : Entry(j)' = IF j = i THEN r ELSE Entry(j)
  BY <1>2, <1>3 DEF Entry
<1>5. /\ id \in DOMAIN RegistryMap
      /\ RegistryMap[id] = Entry(i)
      /\ RegistryMap' = [RegistryMap EXCEPT ![id] = r]
  <2> HIDE DEF r
  <2> QED BY <1>1, <1>2, <1>3, <1>4, WriteMap
<1>6. RegistryMap[id].state = states[i]
  BY <1>5 DEF Entry
<1> QED BY <1>5, <1>6 DEF i

\* A write to a record is one to the map.
LEMMA RecordMap ==
  ASSUME RegistryInv, RegistryInv', NEW id \in Ids, NEW d, WriteDevice(id, d),
         d.id = DeviceOf(id).id, d.in_use = DeviceOf(id).in_use
  PROVE  /\ id \in DOMAIN RegistryMap
         /\ RegistryMap[id] = Entry(device_registry_get(id))
         /\ RegistryMap' =
              [RegistryMap EXCEPT ![id] =
                 [protocol |-> d.protocol, availability |-> d.availability,
                  friendly_name |-> d.friendly_name, clusters |-> d.clusters,
                  state |-> states[device_registry_get(id)]]]
<1> DEFINE i == device_registry_get(id)
           r == [protocol |-> d.protocol, availability |-> d.availability,
                 friendly_name |-> d.friendly_name, clusters |-> d.clusters,
                 state |-> states[i]]
<1>1. i \in InUse /\ devices[i].id = id
  BY GetIsExact DEF WriteDevice, Registered
<1>2. /\ devices' = [devices EXCEPT ![i] = d] /\ states' = states
      /\ d.id = devices[i].id /\ d.in_use = devices[i].in_use
  BY DEF WriteDevice, DeviceOf
<1> HIDE DEF i
<1>3. InUse \subseteq Slots /\ DOMAIN devices = Slots
  BY DEF InUse, RegistryInv, TypeOK
<1>4. \A j \in Slots : devices'[j] = IF j = i THEN d ELSE devices[j]
  BY <1>1, <1>2, <1>3
<1>5. InUse' = InUse /\ \A j \in InUse : devices'[j].id = devices[j].id
  BY <1>2, <1>3, <1>4 DEF InUse
<1>6. \A j \in InUse : Entry(j)' = IF j = i THEN r ELSE Entry(j)
  BY <1>2, <1>3, <1>4 DEF Entry
<1>7. /\ id \in DOMAIN RegistryMap
      /\ RegistryMap[id] = Entry(i)
      /\ RegistryMap' = [RegistryMap EXCEPT ![id] = r]
  <2> HIDE DEF r
  <2> QED BY <1>1, <1>5, <1>6, WriteMap
<1> QED BY <1>7 DEF i

\* A device that is removed leaves the map, and the others stay.
LEMMA RemoveMap ==
  ASSUME RegistryInv, RegistryInv', NEW id \in Ids, device_registry_remove(id)
  PROVE  id \in DOMAIN RegistryMap /\ Abstract!Remove(id)
<1> DEFINE i == device_registry_get(id)
<1>1. i \in InUse /\ devices[i].id = id
  BY GetIsExact DEF device_registry_remove
<1>2. /\ devices' = [devices EXCEPT ![i] = Zeroed]
      /\ states' = [states EXCEPT ![i] = NoState]
  BY DEF device_registry_remove
<1> HIDE DEF i
<1>3. InUse \subseteq Slots /\ DOMAIN devices = Slots /\ DOMAIN states = Slots
  BY DEF InUse, RegistryInv, TypeOK
<1>4. \A j \in Slots \ {i} : devices'[j] = devices[j] /\ states'[j] = states[j]
  BY <1>2, <1>3
<1>5. ~ devices'[i].in_use
  BY <1>1, <1>2, <1>3 DEF Zeroed
<1>6. InUse' = InUse \ {i}
  BY <1>1, <1>3, <1>4, <1>5 DEF InUse
<1>7. MapShape /\ MapShape'
  BY MapIs, MapIsNext
<1>8. Known' = Known \ {id} /\ id \in Known /\ DOMAIN RegistryMap = Known
  <2>1. \A j \in InUse' : devices'[j].id = devices[j].id /\ devices[j].id # id
    BY <1>1, <1>3, <1>4, <1>6 DEF RegistryInv, UniqueIds
  <2>2. \A j \in InUse : j = i \/ j \in InUse'
    BY <1>6
  <2>3. Known' \subseteq Known \ {id}
    BY <1>6, <2>1 DEF Known
  <2>4. Known \ {id} \subseteq Known'
    BY <1>1, <2>1, <2>2 DEF Known
  <2>5. id \in Known
    BY <1>1 DEF Known
  <2> QED BY <1>7, <2>3, <2>4, <2>5 DEF MapShape
<1>9. \A k \in Known' : RegistryMap'[k] = RegistryMap[k]
  <2> SUFFICES ASSUME NEW j \in InUse'
               PROVE  RegistryMap'[devices'[j].id] = RegistryMap[devices'[j].id]
    BY DEF Known
  <2>1. j \in InUse /\ j # i /\ devices'[j] = devices[j] /\ states'[j] = states[j]
    BY <1>3, <1>4, <1>6
  <2>2. RegistryMap'[devices'[j].id] = Entry(j)' /\ RegistryMap[devices[j].id] = Entry(j)
    BY <1>7, <2>1 DEF MapShape
  <2> QED BY <2>1, <2>2 DEF Entry
<1>10. RegistryMap' = [k \in Known' |-> RegistryMap'[k]]
  BY <1>7 DEF MapShape
<1>11. RegistryMap' = [k \in Known \ {id} |-> RegistryMap[k]]
  BY <1>8, <1>9, <1>10
<1> QED BY <1>8, <1>11 DEF Abstract!Remove

\* The map counts as the registry does.
LEMMA AbstractCardinality == \A S : Abstract!Cardinality(S) = Cardinality(S)
BY Zenon DEF Abstract!Cardinality, Cardinality

\* A device that is added is new to the map, finds room in it and is entered as
\* a new record.
LEMMA AddMap ==
  ASSUME RegistryInv, RegistryInv', NEW id \in Ids, NEW p \in Protocols,
         device_registry_add(id, p)
  PROVE  Abstract!Add(id, p)
<1> DEFINE i == find_free_slot(devices)
           d == device_init(id, p)
<1>1. \A j \in InUse : devices[j].id # id
  BY FindIsExact DEF device_registry_add
<1>2. i \in Slots \ InUse
  BY FreeSlotIsFree DEF device_registry_add
<1>3. d.id = id /\ d.in_use = TRUE
  BY DEF device_init, Zeroed
<1>4. devices' = [devices EXCEPT ![i] = d] /\ states' = states
  <2>1. hash_insert([devices EXCEPT ![i] = d], hash, id, i).ok = TRUE
    <3>1. PICK devs : devs = [devices EXCEPT ![i] = d]
      OBVIOUS
    <3> HIDE DEF i, d
    <3>2. hash_insert(devs, hash, id, i).ok = TRUE
      BY <1>1, <1>2, <1>3, <3>1, InsertSucceeds
    <3> QED BY <3>1, <3>2
  <2> QED BY <2>1 DEF device_registry_add
<1> HIDE DEF i
<1>5. InUse \subseteq Slots /\ DOMAIN devices = Slots
  BY DEF InUse, RegistryInv, TypeOK
<1>6. \A j \in Slots : devices'[j] = IF j = i THEN d ELSE devices[j]
  BY <1>2, <1>4, <1>5
<1>7. InUse' = InUse \cup {i}
  <2> HIDE DEF d
  <2> QED BY <1>2, <1>3, <1>6 DEF InUse
<1>8. MapShape /\ MapShape'
  BY MapIs, MapIsNext
<1>9. Known' = Known \cup {id} /\ id \notin Known /\ DOMAIN RegistryMap = Known
  <2>1. \A j \in InUse : devices'[j].id = devices[j].id
    BY <1>2, <1>5, <1>6
  <2>2. devices'[i].id = id
    BY <1>2, <1>3, <1>6
  <2>3. Known' = {devices'[j].id : j \in InUse} \cup {id}
    BY <1>7, <2>2 DEF Known
  <2>4. Known = {devices'[j].id : j \in InUse}
    BY <2>1 DEF Known
  <2> QED BY <1>1, <1>8, <2>3, <2>4 DEF Known, MapShape
<1>10. Cardinality(Known) < MaxDevices
  <2>1. IsFiniteSet(Slots \ {i}) /\ Cardinality(Slots \ {i}) = MaxDevices - 1
    BY <1>2, SlotsFinite, FS_RemoveElement
  <2>2. InUse \subseteq Slots \ {i}
    BY <1>2, <1>5
  <2>3. IsFiniteSet(InUse) /\ Cardinality(InUse) <= MaxDevices - 1
    BY <2>1, <2>2, FS_Subset
  <2> DEFINE f == [j \in InUse |-> devices[j].id]
  <2>4. f \in Surjection(InUse, Known)
    BY DEF Surjection, Known
  <2>5. IsFiniteSet(Known) /\ Cardinality(Known) <= Cardinality(InUse)
    <3> HIDE DEF f
    <3> QED BY <2>3, <2>4, FS_Surjection
  <2>6. Cardinality(Known) \in Nat /\ Cardinality(InUse) \in Nat
    BY <2>3, <2>5, FS_CardinalityType
  <2> QED BY <2>3, <2>5, <2>6
<1>11. \A k \in Known' : RegistryMap'[k] =
         IF k = id THEN Abstract!NewRecord(id, p) ELSE RegistryMap[k]
  <2> SUFFICES ASSUME NEW j \in InUse'
               PROVE  RegistryMap'[devices'[j].id] =
                        IF devices'[j].id = id THEN Abstract!NewRecord(id, p)
                        ELSE RegistryMap[devices'[j].id]
    BY DEF Known
  <2>1. RegistryMap'[devices'[j].id] = Entry(j)'
    BY <1>8 DEF MapShape
  <2>2. CASE j = i
    <3>1. states[i] = NoState
      BY <1>2 DEF RegistryInv, FreeSlotsZeroed, InUse
    <3>2. Entry(j)' = Abstract!NewRecord(id, p)
      <4>1. devices'[j] = d /\ states'[j] = NoState
        BY <1>2, <1>4, <1>6, <2>2, <3>1
      <4>2. /\ d.protocol = p /\ d.availability = "unknown"
            /\ d.friendly_name = id /\ d.clusters = {}
        BY DEF device_init, Zeroed
      <4> HIDE DEF d
      <4> QED BY <4>1, <4>2 DEF Entry, Abstract!NewRecord
    <3> HIDE DEF d
    <3>3. devices'[i].id = id
      BY <1>2, <1>3, <1>6
    <3> QED BY <1>2, <1>3, <1>6, <2>1, <2>2, <3>2, <3>3
  <2>3. CASE j # i
    <3>1. j \in InUse /\ devices'[j] = devices[j]
      BY <1>5, <1>6, <1>7, <2>3
    <3>2. Entry(j)' = Entry(j)
      BY <1>4, <3>1 DEF Entry
    <3> QED BY <1>1, <1>8, <2>1, <3>1, <3>2 DEF MapShape
  <2> QED BY <2>2, <2>3
<1>12. RegistryMap' = [k \in Known \cup {id} |->
                        IF k = id THEN Abstract!NewRecord(id, p) ELSE RegistryMap[k]]
  <2>1. RegistryMap' = [k \in Known' |-> RegistryMap'[k]]
    BY <1>8 DEF MapShape
  <2> QED BY <1>9, <1>11, <2>1
<1> QED BY <1>9, <1>10, <1>12, AbstractCardinality DEF Abstract!Add


\* A merge into a state object is one into the state of the map.
LEMMA MergeMap ==
  ASSUME RegistryInv, RegistryInv', NEW id \in Ids, NEW s \in State,
         device_registry_merge_state(id, s)
  PROVE  id \in DOMAIN RegistryMap /\ Abstract!MergeState(id, s)
<1> DEFINE new == Merge(StateObject(id), s)
<1>1. /\ id \in DOMAIN RegistryMap
      /\ RegistryMap[id].state = states[device_registry_get(id)]
      /\ RegistryMap' = [RegistryMap EXCEPT ![id].state = new]
  <2> HIDE DEF new
  <2> QED BY StateMap DEF device_registry_merge_state, new
<1>2. new = [k \in Keys |-> IF s[k] # Absent THEN s[k]
                            ELSE IF RegistryMap[id].state = NoState THEN Absent
                            ELSE RegistryMap[id].state[k]]
  BY <1>1 DEF Merge, StateObject, EmptyState
<1> HIDE DEF new
<1> QED BY <1>1, <1>2 DEF Abstract!MergeState

\* The three writes to a record.
LEMMA WriteRecordMap ==
  ASSUME RegistryInv, RegistryInv', NEW id \in Ids
  PROVE  /\ \A a \in Availabilities :
              device_registry_set_availability(id, a) =>
                id \in DOMAIN RegistryMap /\ Abstract!SetAvailability(id, a)
         /\ \A n \in Names :
              device_registry_set_friendly_name(id, n) =>
                id \in DOMAIN RegistryMap /\ Abstract!SetName(id, n)
         /\ \A c \in Clusters :
              device_registry_add_cluster(id, c) =>
                id \in DOMAIN RegistryMap /\ Abstract!AddCluster(id, c)
<1>1. ASSUME Registered(id) PROVE DeviceOf(id) \in Device
  BY <1>1, DeviceOfType
<1>2. ASSUME NEW a \in Availabilities, device_registry_set_availability(id, a)
      PROVE  id \in DOMAIN RegistryMap /\ Abstract!SetAvailability(id, a)
  <2> DEFINE d == [DeviceOf(id) EXCEPT !.availability = a]
  <2>1. WriteDevice(id, d) /\ Registered(id)
    BY <1>2 DEF device_registry_set_availability, WriteDevice
  <2>2. /\ d.id = DeviceOf(id).id /\ d.in_use = DeviceOf(id).in_use
        /\ d.protocol = DeviceOf(id).protocol /\ d.availability = a
        /\ d.friendly_name = DeviceOf(id).friendly_name
        /\ d.clusters = DeviceOf(id).clusters
    BY <1>1, <2>1 DEF Device
  <2> HIDE DEF d
  <2>3. /\ id \in DOMAIN RegistryMap
        /\ RegistryMap[id] = Entry(device_registry_get(id))
        /\ RegistryMap' =
             [RegistryMap EXCEPT ![id] =
                [protocol |-> d.protocol, availability |-> d.availability,
                 friendly_name |-> d.friendly_name, clusters |-> d.clusters,
                 state |-> states[device_registry_get(id)]]]
    BY <2>1, <2>2, RecordMap
  <2>4. RegistryMap' = [RegistryMap EXCEPT ![id] =
                          [RegistryMap[id] EXCEPT !.availability = a]]
    <3>1. [protocol |-> d.protocol, availability |-> d.availability,
           friendly_name |-> d.friendly_name, clusters |-> d.clusters,
           state |-> states[device_registry_get(id)]] =
          [Entry(device_registry_get(id)) EXCEPT !.availability = a]
      BY <2>2 DEF Entry, DeviceOf
    <3> QED BY <2>3, <3>1
  <2> QED BY <2>3, <2>4 DEF Abstract!SetAvailability
<1>3. ASSUME NEW n \in Names, device_registry_set_friendly_name(id, n)
      PROVE  id \in DOMAIN RegistryMap /\ Abstract!SetName(id, n)
  <2> DEFINE d == [DeviceOf(id) EXCEPT !.friendly_name = n]
  <2>1. WriteDevice(id, d) /\ Registered(id)
    BY <1>3 DEF device_registry_set_friendly_name, WriteDevice
  <2>2. /\ d.id = DeviceOf(id).id /\ d.in_use = DeviceOf(id).in_use
        /\ d.protocol = DeviceOf(id).protocol /\ d.friendly_name = n
        /\ d.availability = DeviceOf(id).availability
        /\ d.clusters = DeviceOf(id).clusters
    BY <1>1, <2>1 DEF Device
  <2> HIDE DEF d
  <2>3. /\ id \in DOMAIN RegistryMap
        /\ RegistryMap[id] = Entry(device_registry_get(id))
        /\ RegistryMap' =
             [RegistryMap EXCEPT ![id] =
                [protocol |-> d.protocol, availability |-> d.availability,
                 friendly_name |-> d.friendly_name, clusters |-> d.clusters,
                 state |-> states[device_registry_get(id)]]]
    BY <2>1, <2>2, RecordMap
  <2>4. RegistryMap' = [RegistryMap EXCEPT ![id] =
                          [RegistryMap[id] EXCEPT !.friendly_name = n]]
    <3>1. [protocol |-> d.protocol, availability |-> d.availability,
           friendly_name |-> d.friendly_name, clusters |-> d.clusters,
           state |-> states[device_registry_get(id)]] =
          [Entry(device_registry_get(id)) EXCEPT !.friendly_name = n]
      BY <2>2 DEF Entry, DeviceOf
    <3> QED BY <2>3, <3>1
  <2> QED BY <2>3, <2>4 DEF Abstract!SetName
<1>4. ASSUME NEW c \in Clusters, device_registry_add_cluster(id, c)
      PROVE  id \in DOMAIN RegistryMap /\ Abstract!AddCluster(id, c)
  <2> DEFINE d == [DeviceOf(id) EXCEPT !.clusters = @ \cup {c}]
  <2>1. /\ WriteDevice(id, d) /\ Registered(id)
        /\ DeviceOf(id).protocol = "zigbee"
        /\ Cardinality(DeviceOf(id).clusters) < MaxClusters
    BY <1>4 DEF device_registry_add_cluster, WriteDevice
  <2>2. /\ d.id = DeviceOf(id).id /\ d.in_use = DeviceOf(id).in_use
        /\ d.protocol = DeviceOf(id).protocol
        /\ d.availability = DeviceOf(id).availability
        /\ d.friendly_name = DeviceOf(id).friendly_name
        /\ d.clusters = DeviceOf(id).clusters \cup {c}
    BY <1>1, <2>1 DEF Device
  <2> HIDE DEF d
  <2>3. /\ id \in DOMAIN RegistryMap
        /\ RegistryMap[id] = Entry(device_registry_get(id))
        /\ RegistryMap' =
             [RegistryMap EXCEPT ![id] =
                [protocol |-> d.protocol, availability |-> d.availability,
                 friendly_name |-> d.friendly_name, clusters |-> d.clusters,
                 state |-> states[device_registry_get(id)]]]
    BY <2>1, <2>2, RecordMap
  <2>4. /\ RegistryMap[id].protocol = DeviceOf(id).protocol
        /\ RegistryMap[id].clusters = DeviceOf(id).clusters
    BY <2>3 DEF Entry, DeviceOf
  <2>5. RegistryMap' = [RegistryMap EXCEPT ![id] =
                          [RegistryMap[id] EXCEPT !.clusters = @ \cup {c}]]
    <3>1. [protocol |-> d.protocol, availability |-> d.availability,
           friendly_name |-> d.friendly_name, clusters |-> d.clusters,
           state |-> states[device_registry_get(id)]] =
          [Entry(device_registry_get(id)) EXCEPT !.clusters = d.clusters]
      <4>1. /\ d.protocol = DeviceOf(id).protocol
            /\ d.availability = DeviceOf(id).availability
            /\ d.friendly_name = DeviceOf(id).friendly_name
        BY <2>2
      <4> QED BY <4>1 DEF Entry, DeviceOf
    <3> QED BY <2>2, <2>3, <2>4, <3>1
  <2> QED BY <2>1, <2>3, <2>4, <2>5, AbstractCardinality DEF Abstract!AddCluster
<1> QED BY <1>2, <1>3, <1>4

\* The three operations that empty the registry.
LEMMA ResetMap ==
  ASSUME RegistryInv',
         \/ device_registry_init \/ device_registry_deinit
         \/ device_registry_clear_all
  PROVE  Abstract!Clear
<1>1. ASSUME NEW i \in Slots PROVE ~ devices'[i].in_use
  BY DEF device_registry_init, device_registry_deinit,
         device_registry_clear_all, Zeroed
<1>2. InUse' = {}
  BY <1>1 DEF InUse
<1> QED BY <1>2, EmptyMap DEF Abstract!Clear

\* The operations on devices and on states.
LEMMA OperationMap ==
  ASSUME RegistryInv, RegistryInv'
  PROVE  /\ device_registry_clear_all => Abstract!Clear
         /\ \A id \in Ids :
              /\ device_registry_remove(id) =>
                   id \in DOMAIN RegistryMap /\ Abstract!Remove(id)
              /\ \A p \in Protocols :
                   device_registry_add(id, p) => Abstract!Add(id, p)
              /\ \A s \in State :
                   /\ device_registry_set_state(id, s) =>
                        id \in DOMAIN RegistryMap /\ Abstract!SetState(id, s)
                   /\ device_registry_merge_state(id, s) =>
                        id \in DOMAIN RegistryMap /\ Abstract!MergeState(id, s)
<1>1. ASSUME NEW id \in Ids, NEW s \in State, device_registry_set_state(id, s)
      PROVE  id \in DOMAIN RegistryMap /\ Abstract!SetState(id, s)
  BY <1>1, StateMap DEF device_registry_set_state, Abstract!SetState
<1> QED BY <1>1, ResetMap, RemoveMap, AddMap, MergeMap

\* Every step is one of the map, or none.
LEMMA MapStep == RegistryInv /\ RegistryInv' /\ [Next]_vars => [Abstract!Next]_RegistryMap
<1> SUFFICES ASSUME RegistryInv, RegistryInv', [Next]_vars
             PROVE  [Abstract!Next]_RegistryMap
  OBVIOUS
<1>1. CASE device_registry_init \/ device_registry_deinit \/ device_registry_clear_all
  BY <1>1, ResetMap DEF Abstract!Next
<1>2. CASE \E id \in Ids, p \in Protocols : device_registry_add(id, p)
  BY <1>2, OperationMap DEF Abstract!Next
<1>3. CASE \E id \in Ids : device_registry_remove(id)
  BY <1>3, OperationMap DEF Abstract!Next
<1>4. CASE \E id \in Ids, s \in State :
             device_registry_set_state(id, s) \/ device_registry_merge_state(id, s)
  BY <1>4, OperationMap DEF Abstract!Next, State, Abstract!State
<1>5. CASE \E id \in Ids, k \in Keys, v \in Values :
             device_registry_update_state(id, k, v)
  <2> PICK id \in Ids, k \in Keys, v \in Values : device_registry_update_state(id, k, v)
    BY <1>5
  <2> DEFINE s == [StateObject(id) EXCEPT ![k] = v]
  <2>1. WriteState(id, s)
    BY DEF device_registry_update_state
  <2>2. s \in Abstract!State
    <3>1. StateObject(id) \in State
      BY <2>1, StateObjectType DEF WriteState
    <3> QED BY <3>1 DEF State, Abstract!State
  <2> HIDE DEF s
  <2> QED BY <2>1, <2>2, StateMap DEF Abstract!Next, Abstract!SetState
<1>6. CASE \E id \in Ids :
             \/ \E a \in Availabilities : device_registry_set_availability(id, a)
             \/ \E n \in Names : device_registry_set_friendly_name(id, n)
             \/ \E c \in Clusters : device_registry_add_cluster(id, c)
  BY <1>6, WriteRecordMap DEF Abstract!Next
<1>7. CASE UNCHANGED vars
  BY <1>7 DEF vars, RegistryMap, SlotOf, InUse
<1> QED BY <1>1, <1>2, <1>3, <1>4, <1>5, <1>6, <1>7 DEF Next

(***************************************************************************)
(* The registry implements the map: through any sequence of operations,    *)
(* whatever slots are taken and whatever probe sequences meet, devices     *)
(* come and go whole, a new one starts as a new record, and a write        *)
(* reaches the device it names and no other.                               *)
(***************************************************************************)
THEOREM RegistryIsMap == Spec => ImplementsDeviceMap
<1>1. Init => Abstract!Init
  <2> SUFFICES ASSUME Init PROVE Abstract!Init
    OBVIOUS
  <2>1. RegistryInv
    BY InitInv
  <2>2. InUse = {}
    BY DEF InUse, Init, Zeroed
  <2>3. Known = {}
    BY <2>2 DEF Known
  <2> QED BY <2>1, <2>3, MapIs DEF MapShape, Abstract!Init, Abstract!Empty
<1>2. RegistryInv /\ RegistryInv' /\ [Next]_vars => [Abstract!Next]_RegistryMap
  BY MapStep
<1> QED BY <1>1, <1>2, Invariance, PTL DEF Spec, ImplementsDeviceMap, Abstract!Spec

\* Each operation has exactly the effect on the map that DeviceMap gives the
\* operation of its name, for the device it was called for.
THEOREM OperationsAreExact == Spec => OperationsExact
<1>1. RegistryInv /\ RegistryInv' /\ [Next]_vars =>
        [/\ device_registry_clear_all => Abstract!Clear
         /\ \A id \in Ids :
              /\ device_registry_remove(id) => Abstract!Remove(id)
              /\ \A p \in Protocols :
                   device_registry_add(id, p) => Abstract!Add(id, p)
              /\ \A s \in State :
                   /\ device_registry_set_state(id, s) => Abstract!SetState(id, s)
                   /\ device_registry_merge_state(id, s) => Abstract!MergeState(id, s)
              /\ \A n \in Names :
                   device_registry_set_friendly_name(id, n) => Abstract!SetName(id, n)
              /\ \A c \in Clusters :
                   device_registry_add_cluster(id, c) => Abstract!AddCluster(id, c)]_vars
  BY OperationMap, WriteRecordMap
<1> QED BY <1>1, Invariance, PTL DEF Spec, OperationsExact
=============================================================================
