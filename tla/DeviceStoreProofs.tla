--------------------------- MODULE DeviceStoreProofs ---------------------------
(***************************************************************************)
(* Safety of the list of devices on flash, for any devices, any number of  *)
(* tasks, any capacity, and any number of changes, crashes and failures.   *)
(***************************************************************************)
EXTENDS DeviceStore, SequenceTheorems, TLAPS

Calls  == [kind : {"none", "save", "delete", "clear"}, dev : AnyId]
Spaces == [count : 0 .. MaxDevices, list : Lists,
           blob : [Positions -> Record \cup {Missing}]]
Ops    == [task : Tasks \cup {"none"},
           pc : {"idle", "search", "replace", "blob", "list", "count",
                 "swap", "erase", "shrink", "lower"},
           dev : AnyId, rec : Record, list : Lists, index : 0 .. MaxDevices,
           before : [Ids -> Versions]]

USE IdAssumption, SizeAssumption, BoundsAssumption, MissingAssumption

-------------------------------------------------------------------------------
(***************************************************************************)
(* Lists, and where an id stands in one.                                   *)
(***************************************************************************)
LEMMA ListSeq ==
  ASSUME NEW list
  PROVE  list \in Lists <=> list \in Seq(AnyId) /\ Len(list) <= MaxDevices
<1>1. ASSUME list \in Lists PROVE list \in Seq(AnyId) /\ Len(list) <= MaxDevices
  <2>1. PICK n \in 0 .. MaxDevices : list \in [1 .. n -> AnyId]
    BY <1>1, SMTT(60) DEF Lists
  <2> QED BY <2>1, SMTT(60)
<1>2. ASSUME list \in Seq(AnyId), Len(list) <= MaxDevices PROVE list \in Lists
  <2>1. Len(list) \in 0 .. MaxDevices /\ list \in [1 .. Len(list) -> AnyId]
    BY <1>2, LenProperties
  <2> QED BY <2>1 DEF Lists
<1> QED BY <1>1, <1>2

LEMMA FindProperty ==
  ASSUME NEW list \in Seq(AnyId), NEW id
  PROVE  /\ Find(list, id) \in 0 .. Len(list)
         /\ Find(list, id) # 0 => list[Find(list, id)] = id
         /\ Find(list, id) = 0 /\ Distinct(list) =>
              \A i \in 1 .. Len(list) : list[i] # id
<1>1. Len(list) \in Nat
  BY LenProperties
<1>2. CASE FirstAt(list, id) = {}
  <2>1. Find(list, id) = 0
    BY <1>2 DEF Find
  <2>2. ASSUME Distinct(list), NEW i \in 1 .. Len(list), list[i] = id PROVE FALSE
    <3>1. \A j \in 1 .. i - 1 : list[j] # id
      BY <1>1, <2>2 DEF Distinct
    <3> QED BY <1>2, <2>2, <3>1 DEF FirstAt
  <2> QED BY <1>1, <2>1, <2>2
<1>3. CASE FirstAt(list, id) # {}
  <2>1. Find(list, id) \in FirstAt(list, id)
    BY <1>3 DEF Find
  <2> QED BY <1>1, <2>1 DEF FirstAt
<1> QED BY <1>2, <1>3

-------------------------------------------------------------------------------
(***************************************************************************)
(* What is read from flash.                                                *)
(***************************************************************************)
LEMMA ReadType ==
  ASSUME NEW n \in Spaces, Readable(n), NEW list \in ReadList(n)
  PROVE  /\ list \in Lists /\ Len(list) = n.count
         /\ Len(n.list) = n.count => list = n.list
<1>1. PICK rest \in [1 .. n.count - Len(n.list) -> AnyId] : list = n.list \o rest
  BY DEF ReadList
<1>2. n.list \in Seq(AnyId) /\ n.count \in 0 .. MaxDevices /\ Len(n.list) \in Nat
  BY ListSeq, LenProperties DEF Spaces
<1>3. n.count - Len(n.list) \in Nat
  BY <1>2 DEF Readable
<1>4. rest \in Seq(AnyId) /\ Len(rest) = n.count - Len(n.list)
  BY <1>1, <1>3, SMTT(60)
<1>5. list \in Seq(AnyId) /\ Len(list) = n.count
  <2>1. list \in Seq(AnyId) /\ Len(list) = Len(n.list) + Len(rest)
    BY <1>1, <1>2, <1>4, ConcatProperties, ZenonT(60)
  <2> QED BY <1>2, <1>4, <2>1, SMTT(60)
<1>6. ASSUME Len(n.list) = n.count PROVE list = n.list
  <2>1. rest = << >>
    BY <1>4, <1>2, <1>6, EmptySeq
  <2> QED BY <1>1, <1>2, <2>1, ConcatEmptySeq
<1> QED BY <1>2, <1>5, <1>6, ListSeq

LEMMA LackingRead ==
  ASSUME NEW n \in Spaces, Readable(n)
  PROVE  Lacking(n) \in ReadList(n)
<1> DEFINE rest == [k \in 1 .. n.count - Len(n.list) |->
                      LET b == n.blob[Len(n.list) + k]
                      IN IF b = Missing THEN NoId ELSE b.id]
<1>1. n.list \in Seq(AnyId) /\ n.count \in 0 .. MaxDevices /\ Len(n.list) \in Nat
  BY ListSeq, LenProperties DEF Spaces
<1>2. ASSUME NEW k \in 1 .. n.count - Len(n.list)
      PROVE  IF n.blob[Len(n.list) + k] = Missing THEN NoId \in AnyId
             ELSE n.blob[Len(n.list) + k].id \in AnyId
  <2>1. Len(n.list) + k \in Positions
    BY <1>1, SMTT(60) DEF Positions
  <2> QED BY <2>1 DEF Spaces, Record, AnyId
<1>3. rest \in [1 .. n.count - Len(n.list) -> AnyId]
  BY <1>2 DEF AnyId
<1> QED BY <1>3 DEF ReadList, Lacking

\* A list gives each device the version of a blob that is its own, or none.
LEMMA LoadedProperty ==
  ASSUME NEW n \in Spaces, NEW list \in Lists, NEW d \in Ids
  PROVE  /\ Loaded(n, list)[d] \in Versions
         /\ Loaded(n, list)[d] # 0 =>
              \E i \in 1 .. Len(list) :
                 /\ list[i] = d /\ n.blob[i] # Missing /\ n.blob[i].id = d
                 /\ Loaded(n, list)[d] = n.blob[i].ver
<1> DEFINE i == Find(list, d)
<1>1. list \in Seq(AnyId) /\ Len(list) \in Nat /\ Len(list) <= MaxDevices
  BY ListSeq, LenProperties
<1>2. i \in 0 .. Len(list) /\ (i # 0 => list[i] = d)
  BY <1>1, FindProperty
<1>3. Loaded(n, list)[d] = IF i > 0 /\ n.blob[i] # Missing /\ n.blob[i].id = d
                           THEN n.blob[i].ver ELSE 0
  BY DEF Loaded
<1>4. 0 \in Versions
  BY DEF Versions
<1>5. ASSUME i > 0, n.blob[i] # Missing PROVE n.blob[i].ver \in Versions
  <2>1. i \in Positions
    BY <1>1, <1>2, <1>5 DEF Positions
  <2> QED BY <1>5, <2>1 DEF Spaces, Record
<1> QED BY <1>1, <1>2, <1>3, <1>4, <1>5

\* Without failures it gives each device in the list the version of its blob.
Fitting(n, list) ==
  \A i \in 1 .. Len(list) : n.blob[i] # Missing /\ n.blob[i].id = list[i]

LEMMA LoadedExact ==
  ASSUME NEW n \in Spaces, NEW list \in Lists, Distinct(list), Fitting(n, list),
         NEW d \in Ids
  PROVE  /\ \A i \in 1 .. Len(list) : list[i] = d => Loaded(n, list)[d] = n.blob[i].ver
         /\ (\A i \in 1 .. Len(list) : list[i] # d) => Loaded(n, list)[d] = 0
<1> DEFINE k == Find(list, d)
<1>1. list \in Seq(AnyId) /\ Len(list) \in Nat
  BY ListSeq, LenProperties
<1>2. k \in 0 .. Len(list) /\ (k # 0 => list[k] = d)
      /\ (k = 0 => \A i \in 1 .. Len(list) : list[i] # d)
  BY <1>1, FindProperty
<1>3. Loaded(n, list)[d] = IF k > 0 /\ n.blob[k] # Missing /\ n.blob[k].id = d
                           THEN n.blob[k].ver ELSE 0
  BY DEF Loaded
<1> HIDE DEF k
<1>4. ASSUME NEW i \in 1 .. Len(list), list[i] = d
      PROVE  Loaded(n, list)[d] = n.blob[i].ver
  <2>1. k # 0 /\ k > 0 /\ k \in 1 .. Len(list)
    BY <1>1, <1>2, <1>4
  <2>2. k = i
    BY <1>2, <1>4, <2>1 DEF Distinct
  <2> QED BY <1>3, <1>4, <2>1, <2>2 DEF Fitting
<1>5. ASSUME \A i \in 1 .. Len(list) : list[i] # d
      PROVE  Loaded(n, list)[d] = 0
  <2>1. k = 0
    BY <1>1, <1>2, <1>5
  <2> QED BY <1>3, <2>1
<1> QED BY <1>4, <1>5

\* Only the blobs at the positions of the list count.
LEMMA LoadedSame ==
  ASSUME NEW n, NEW m, NEW list \in Lists,
         \A i \in 1 .. Len(list) : n.blob[i] = m.blob[i]
  PROVE  Loaded(n, list) = Loaded(m, list)
<1>1. list \in Seq(AnyId) /\ Len(list) \in Nat
  BY ListSeq, LenProperties
<1>2. ASSUME NEW d \in Ids PROVE Loaded(n, list)[d] = Loaded(m, list)[d]
  <2>1. Find(list, d) \in 0 .. Len(list)
    BY <1>1, FindProperty
  <2>2. Find(list, d) > 0 => n.blob[Find(list, d)] = m.blob[Find(list, d)]
    BY <1>1, <2>1
  <2> QED BY <2>2 DEF Loaded
<1> QED BY <1>2 DEF Loaded

\* What is on flash when the list is as long as the count says.
LEMMA StoredExact ==
  ASSUME NEW n \in Spaces, n.count = Len(n.list)
  PROVE  Stored(n) = Loaded(n, n.list)
<1>1. n.list \in Seq(AnyId) /\ n.list \in Lists /\ Len(n.list) \in Nat
  BY ListSeq, LenProperties DEF Spaces
<1>2. CASE Readable(n)
  BY <1>2, LackingRead, ReadType DEF Stored
<1>3. CASE ~Readable(n)
  <2>1. Len(n.list) = 0
    BY <1>1, <1>3, EmptySeq DEF Readable
  <2>2. \A d \in Ids : Find(n.list, d) = 0
    BY <1>1, <2>1, FindProperty
  <2>3. Loaded(n, n.list) = NoDevice
    BY <2>2 DEF Loaded, NoDevice
  <2> QED BY <1>3, <2>3 DEF Stored
<1> QED BY <1>2, <1>3

LEMMA StoredType ==
  ASSUME NEW n \in Spaces
  PROVE  Stored(n) \in [Ids -> Versions]
<1>1. CASE Readable(n)
  <2>1. Lacking(n) \in Lists
    BY <1>1, LackingRead, ReadType
  <2>2. Loaded(n, Lacking(n)) = [d \in Ids |-> Loaded(n, Lacking(n))[d]]
    BY DEF Loaded
  <2> QED BY <1>1, <2>1, <2>2, LoadedProperty DEF Stored
<1>2. CASE ~Readable(n)
  BY <1>2 DEF Stored, NoDevice, Versions
<1> QED BY <1>1, <1>2

\* The list after a deletion: the last device takes the place of the deleted.
Closed(list, index) ==
  SubSeq([list EXCEPT ![index] = list[Len(list)]], 1, Len(list) - 1)

LEMMA ClosedProperty ==
  ASSUME NEW list \in Lists, NEW index \in 1 .. Len(list)
  PROVE  /\ Closed(list, index) \in Lists /\ Len(Closed(list, index)) = Len(list) - 1
         /\ \A i \in 1 .. Len(list) - 1 :
              Closed(list, index)[i] = IF i = index THEN list[Len(list)] ELSE list[i]
<1> DEFINE moved == [list EXCEPT ![index] = list[Len(list)]]
<1>1. list \in Seq(AnyId) /\ Len(list) \in Nat /\ Len(list) <= MaxDevices
  BY ListSeq, LenProperties
<1>2. Len(list) \in 1 .. Len(list) /\ list[Len(list)] \in AnyId
  BY <1>1, LenProperties
<1>3. /\ moved \in Seq(AnyId) /\ Len(moved) = Len(list)
      /\ \A j \in 1 .. Len(list) : moved[j] = IF j = index THEN list[Len(list)] ELSE list[j]
  BY <1>1, <1>2, ExceptSeq
<1>4. Closed(list, index) = SubSeq(moved, 1, Len(list) - 1)
  BY DEF Closed
<1>5. \A i \in 1 .. Len(list) - 1 : moved[i] \in AnyId
  BY <1>1, <1>3, ElementOfSeq
<1> HIDE DEF moved
<1>6. PICK k \in Nat : k = Len(list) - 1
  <2>1. Len(list) - 1 \in Nat
    BY <1>1
  <2> QED BY <2>1
<1> DEFINE short == SubSeq(moved, 1, k)
<1>7. short \in Seq(AnyId)
  BY <1>5, <1>6, SubSeqProperties
<1>8. Len(short) = IF 1 <= k THEN k - 1 + 1 ELSE 0
  BY <1>5, <1>6, SubSeqProperties
<1>9. \A i \in 1 .. k - 1 + 1 : short[i] = moved[1 + i - 1]
  BY <1>5, <1>6, SubSeqProperties
<1>10. Closed(list, index) = short
  BY <1>4, <1>6
<1> HIDE DEF short
<1>11. Len(short) = k /\ \A i \in 1 .. k : short[i] = moved[i]
  BY <1>6, <1>8, <1>9
<1>12. Closed(list, index) \in Lists /\ Len(Closed(list, index)) = Len(list) - 1
  BY <1>1, <1>6, <1>7, <1>10, <1>11, ListSeq
<1> QED BY <1>1, <1>3, <1>6, <1>10, <1>11, <1>12

-------------------------------------------------------------------------------
(***************************************************************************)
(* Types.                                                                  *)
(***************************************************************************)
LEMMA Typing ==
  ASSUME TypeOK
  PROVE  /\ reg \in [Ids -> Versions] /\ want \in [Tasks -> Calls]
         /\ nvs \in Spaces /\ op \in Ops /\ up \in BOOLEAN
         /\ ever \in [Ids -> SUBSET Versions] /\ changes \in Versions
         /\ crashes \in 0 .. MaxCrashes /\ faults \in 0 .. MaxFaults
BY DEF TypeOK, Calls, Spaces, Ops

LEMMA Values ==
  /\ 0 \in Versions /\ Gone \in Record /\ NoDevice \in [Ids -> Versions]
  /\ NoCall \in Calls /\ << >> \in Lists /\ EmptyNvs \in Spaces /\ Idle \in Ops
<1>1. 0 \in Versions /\ NoId \in AnyId
  BY DEF Versions, AnyId
<1>2. Gone \in Record /\ NoDevice \in [Ids -> Versions] /\ NoCall \in Calls
  BY <1>1 DEF Gone, Record, NoDevice, NoCall, Calls
<1>3. << >> \in Lists
  <2>1. << >> \in [1 .. 0 -> AnyId] /\ 0 \in 0 .. MaxDevices
    OBVIOUS
  <2> QED BY <2>1 DEF Lists
<1>4. EmptyNvs \in Spaces
  BY <1>3 DEF EmptyNvs, Spaces
<1>5. Idle \in Ops
  BY <1>1, <1>2, <1>3 DEF Idle, Ops
<1> QED BY <1>1, <1>2, <1>3, <1>4, <1>5

\* A write that fails is counted, one that does not is on flash.
LEMMA WriteProperty ==
  ASSUME TypeOK, NEW n \in Spaces, Write(n)
  PROVE  /\ nvs' \in Spaces /\ faults' \in 0 .. MaxFaults /\ faults' >= faults
         /\ faults' = 0 => faults = 0 /\ nvs' = n
BY Typing DEF Write, Fail

LEMMA FollowProperty ==
  ASSUME TypeOK, NEW id, Follow(id)
  PROVE  /\ faults' \in 0 .. MaxFaults
         /\ faults' = 0 => faults = 0 /\ id = op.rec.id
BY Typing DEF Follow

LEMMA PointeeType ==
  ASSUME TypeOK, NEW d, NEW r \in Pointees(d)
  PROVE  r \in Record /\ r.id \in AnyId
<1>1. CASE d \in Present
  BY <1>1, Typing DEF Pointees, Present, Record, AnyId
<1>2. CASE d \notin Present
  BY <1>2, Typing, Values DEF Pointees, Present, Record, AnyId
<1> QED BY <1>1, <1>2

\* Flash after each kind of write.
LEMMA BlobWritten ==
  ASSUME TypeOK, NEW i \in Positions, NEW b \in Record \cup {Missing}
  PROVE  /\ [nvs EXCEPT !.blob[i] = b] \in Spaces
         /\ [nvs EXCEPT !.blob[i] = b].list = nvs.list
         /\ [nvs EXCEPT !.blob[i] = b].count = nvs.count
         /\ [nvs EXCEPT !.blob[i] = b].blob = [nvs.blob EXCEPT ![i] = b]
BY Typing DEF Spaces

LEMMA ListWritten ==
  ASSUME TypeOK, NEW list \in Lists
  PROVE  /\ [nvs EXCEPT !.list = list] \in Spaces
         /\ [nvs EXCEPT !.list = list].list = list
         /\ [nvs EXCEPT !.list = list].count = nvs.count
         /\ [nvs EXCEPT !.list = list].blob = nvs.blob
BY Typing DEF Spaces

LEMMA CountWritten ==
  ASSUME TypeOK, NEW n \in 0 .. MaxDevices
  PROVE  /\ [nvs EXCEPT !.count = n] \in Spaces
         /\ [nvs EXCEPT !.count = n].list = nvs.list
         /\ [nvs EXCEPT !.count = n].count = n
         /\ [nvs EXCEPT !.count = n].blob = nvs.blob
BY Typing DEF Spaces

\* The operation after a step within it.
LEMMA GotoProperty ==
  ASSUME TypeOK, NEW pc \in {"list", "count", "erase", "shrink", "lower"}, Goto(pc)
  PROVE  /\ op' \in Ops /\ op'.pc = pc /\ op'.list = op.list
         /\ op'.index = op.index /\ op'.rec = op.rec /\ op'.dev = op.dev
         /\ op'.task = op.task /\ op'.before = op.before
BY Typing DEF Goto, Ops

LEMMA OpLists ==
  ASSUME TypeOK
  PROVE  /\ op.list \in Seq(AnyId) /\ Len(op.list) \in 0 .. MaxDevices
         /\ nvs.list \in Seq(AnyId) /\ Len(nvs.list) \in 0 .. MaxDevices
         /\ op.rec \in Record /\ op.rec.id \in AnyId
<1>1. op.list \in Lists /\ nvs.list \in Lists /\ op.rec \in Record /\ op.rec.id \in AnyId
  BY Typing DEF Ops, Spaces, Record
<1> QED BY <1>1, ListSeq, LenProperties

-------------------------------------------------------------------------------
\* The steps of the callers leave flash and the operation alone.
LEMMA CallStep ==
  ASSUME TypeOK, NEW t \in Tasks, NEW kind \in {"save", "delete", "clear"},
         NEW d \in AnyId, Call(t, kind, d)
  PROVE  /\ want' \in [Tasks -> Calls] /\ UNCHANGED <<nvs, op, up, ever, crashes, faults>>
         /\ up /\ want[t] = NoCall /\ want'[t] = [kind |-> kind, dev |-> d]
         /\ \A u \in Tasks \ {t} : want'[u] = want[u]
BY Typing DEF Call, Calls

LEMMA TakeStep ==
  ASSUME TypeOK, NEW t \in Tasks, Take(t)
  PROVE  /\ want' \in [Tasks -> Calls] /\ op = Idle /\ want'[t] = NoCall
         /\ \A u \in Tasks \ {t} : want'[u] = want[u]
BY Typing, Values DEF Take

\* The positions an operation writes are those of the table.
LEMMA Places ==
  ASSUME TypeOK, Fits
  PROVE  /\ op.pc \in Saving => Place \in Positions
         /\ op.pc \in {"replace", "swap"} \cup Deleting =>
              op.index \in Positions /\ Len(op.list) \in Positions
BY OpLists DEF Fits, Place, Positions

\* What BeginSave, Search and BeginDelete make of the operation.
LEMMA BeginSaveOp ==
  ASSUME TypeOK, NEW t \in Tasks, BeginSave(t)
  PROVE  /\ op' \in Ops /\ op'.pc = "search" /\ op'.dev = want[t].dev
         /\ op'.rec \in Pointees(want[t].dev)
<1>1. PICK r \in Pointees(want[t].dev) :
        op' = [Idle EXCEPT !.task = t, !.pc = "search", !.dev = want[t].dev, !.rec = r]
  BY DEF BeginSave
<1>2. r \in Record /\ want[t].dev \in AnyId
  BY PointeeType, Typing DEF Calls
<1> QED BY <1>1, <1>2, Values DEF Ops, Idle

LEMMA StartOp ==
  ASSUME TypeOK, NEW list \in Lists, NEW id, Start(id, list)
  PROVE  \/ op' = Idle /\ UNCHANGED ever
         \/ /\ op' \in Ops /\ op'.list = list /\ op'.index = Find(list, id)
            /\ op'.rec = op.rec /\ op'.dev = op.dev
            /\ op'.pc = IF Find(list, id) > 0 THEN "replace" ELSE "blob"
            /\ op'.before = Stored(nvs)
            /\ Find(list, id) = 0 => Len(list) < MaxDevices
            /\ ever' \in [Ids -> SUBSET Versions]
            /\ ever' = [d \in Ids |-> IF d = op.rec.id THEN ever[d] \cup {op.rec.ver}
                                      ELSE ever[d]]
<1> DEFINE i == Find(list, id)
<1>1. list \in Seq(AnyId) /\ Len(list) \in 0 .. MaxDevices
  BY ListSeq, LenProperties
<1>2. i \in 0 .. Len(list)
  BY <1>1, FindProperty
<1>3. Stored(nvs) \in [Ids -> Versions]
  BY Typing, StoredType
<1>4. CASE i = 0 /\ Len(list) >= MaxDevices
  BY <1>4 DEF Start, Done
<1>5. CASE ~(i = 0 /\ Len(list) >= MaxDevices)
  <2>1. /\ op' = [op EXCEPT !.pc = IF i > 0 THEN "replace" ELSE "blob",
                            !.list = list, !.index = i, !.before = Stored(nvs)]
        /\ ever' = [d \in Ids |-> IF d = op.rec.id THEN ever[d] \cup {op.rec.ver}
                                  ELSE ever[d]]
    BY <1>5 DEF Start
  <2>2. op.rec.ver \in Versions
    BY OpLists DEF Record
  <2>3. ever' \in [Ids -> SUBSET Versions]
    BY <2>1, <2>2, Typing
  <2>4. i \in 0 .. MaxDevices
    BY <1>1, <1>2
  <2> HIDE DEF i
  <2>5. op' \in Ops /\ op'.list = list /\ op'.index = i /\ op'.rec = op.rec
        /\ op'.dev = op.dev /\ op'.pc = (IF i > 0 THEN "replace" ELSE "blob")
        /\ op'.before = Stored(nvs)
    BY <2>1, <2>4, <1>3, Typing DEF Ops
  <2> QED BY <1>1, <1>5, <2>1, <2>3, <2>5 DEF i
<1> QED BY <1>4, <1>5

\* The lists a save may start from.
LEMMA SearchStart ==
  ASSUME TypeOK, Search
  PROVE  \E id \in IdsAt(op.dev) : \E list \in Lists :
           /\ Start(id, list) /\ faults' \in 0 .. MaxFaults
           /\ faults' = 0 =>
                /\ faults = 0 /\ id = op.rec.id /\ list \in SaveList
<1>1. PICK id \in IdsAt(op.dev) :
        \/ \E list \in SaveList : Start(id, list) /\ Follow(id)
        \/ Start(id, <<>>) /\ nvs.count > 0 /\ Fail
  BY DEF Search
<1>2. CASE \E list \in SaveList : Start(id, list) /\ Follow(id)
  <2>1. PICK list \in SaveList : Start(id, list) /\ Follow(id)
    BY <1>2
  <2>2. list \in Lists
    BY <2>1, Typing, ReadType, Values DEF SaveList
  <2> QED BY <2>1, <2>2, FollowProperty
<1>3. CASE Start(id, <<>>) /\ nvs.count > 0 /\ Fail
  BY <1>3, Values, Typing DEF Fail
<1> QED BY <1>1, <1>2, <1>3

LEMMA BeginDeleteOp ==
  ASSUME TypeOK, NEW t \in Tasks, BeginDelete(t)
  PROVE  /\ faults' \in 0 .. MaxFaults /\ faults' >= faults
         /\ \/ UNCHANGED op /\ (faults' = 0 => ~Readable(nvs))
            \/ /\ Readable(nvs)
               /\ \E list \in ReadList(nvs) : LET i == Find(list, want[t].dev) IN
                    \/ UNCHANGED op /\ i = 0
                    \/ /\ op' \in Ops /\ op'.list = list /\ op'.index = i
                       /\ op'.pc = (IF i < Len(list) THEN "swap" ELSE "erase")
                       /\ op'.rec = [id |-> want[t].dev, ver |-> 0]
                       /\ op'.before = Stored(nvs) /\ i \in 1 .. Len(list)
<1>1. CASE ~Readable(nvs) /\ UNCHANGED <<op, faults>>
  BY <1>1, Typing
<1>2. CASE nvs.count > 0 /\ Fail /\ UNCHANGED op
  BY <1>2, Typing DEF Fail
<1>3. CASE Readable(nvs) /\ UNCHANGED faults /\ ~UNCHANGED op
  <2>1. PICK list \in ReadList(nvs) :
          LET i == Find(list, want[t].dev)
          IN IF i = 0 THEN UNCHANGED op
             ELSE op' = [task |-> t,
                         pc |-> IF i < Len(list) THEN "swap" ELSE "erase",
                         dev |-> want[t].dev,
                         rec |-> [id |-> want[t].dev, ver |-> 0],
                         list |-> list, index |-> i, before |-> Stored(nvs)]
    BY <1>3, Typing DEF BeginDelete, Fail
  <2> DEFINE i == Find(list, want[t].dev)
  <2>2. list \in Lists /\ list \in Seq(AnyId) /\ Len(list) \in 0 .. MaxDevices
    BY <1>3, <2>1, Typing, ReadType, ListSeq, LenProperties
  <2>3. i \in 0 .. Len(list)
    BY <2>2, FindProperty
  <2>4. want[t].dev \in AnyId /\ [id |-> want[t].dev, ver |-> 0] \in Record
    BY Typing, Values DEF Calls, Record
  <2>5. i # 0
    BY <1>3, <2>1
  <2>6. i \in 0 .. MaxDevices
    BY <2>2, <2>3
  <2>7. Stored(nvs) \in [Ids -> Versions]
    BY Typing, StoredType
  <2>8. op' = [task |-> t, pc |-> IF i < Len(list) THEN "swap" ELSE "erase",
               dev |-> want[t].dev, rec |-> [id |-> want[t].dev, ver |-> 0],
               list |-> list, index |-> i, before |-> Stored(nvs)]
    BY <2>1, <2>5
  <2> HIDE DEF i
  <2>9. op' \in Ops /\ op'.list = list /\ op'.index = i
        /\ op'.pc = (IF i < Len(list) THEN "swap" ELSE "erase")
        /\ op'.rec = [id |-> want[t].dev, ver |-> 0] /\ op'.before = Stored(nvs)
    BY <2>2, <2>4, <2>6, <2>7, <2>8 DEF Ops
  <2>10. i \in 1 .. Len(list)
    BY <2>2, <2>3, <2>5
  <2> QED BY <1>3, <2>1, <2>9, <2>10, Typing DEF i
<1>4. CASE Readable(nvs) /\ UNCHANGED <<op, faults>>
  <2>1. PICK list \in ReadList(nvs) :
          Find(list, want[t].dev) = 0 \/ op'.pc \in {"swap", "erase"}
    BY <1>4, Typing DEF BeginDelete, Fail
  <2>2. op'.pc = "idle"
    BY <1>4 DEF BeginDelete, Take, Idle
  <2> QED BY <1>4, <2>1, <2>2, Typing
<1> QED BY <1>1, <1>2, <1>3, <1>4 DEF BeginDelete

Basic == TypeOK /\ Fits /\ Restarting

\* Only a gateway that runs has calls and operations.
LEMMA Running ==
  ASSUME Basic
  PROVE  /\ op.pc # "idle" => up
         /\ \A t \in Tasks : want[t].kind # "none" => up
BY DEF Basic, Restarting, Idle, NoCall

LEMMA CallerBasic ==
  ASSUME Basic, NEW t \in Tasks,
         Reset(t) \/ \E d \in Ids : Update(t, d) \/ Leave(t, d)
  PROVE  Basic'
<1>1. CASE Reset(t)
  <2>1. Call(t, "clear", NoId) /\ NoId \in AnyId /\ reg' = NoDevice /\ UNCHANGED changes
    BY <1>1 DEF Reset, AnyId
  <2>2. want' \in [Tasks -> Calls] /\ UNCHANGED <<nvs, op, up, ever, crashes, faults>> /\ up
    BY <2>1, CallStep DEF Basic
  <2> QED BY <2>1, <2>2, Values
      DEF Basic, TypeOK, Fits, Place, Restarting, Calls
<1>2. ASSUME NEW d \in Ids, Update(t, d) PROVE Basic'
  <2>1. /\ Call(t, "save", d) /\ d \in AnyId /\ changes < MaxChanges
        /\ reg' = [reg EXCEPT ![d] = changes + 1] /\ changes' = changes + 1
    BY <1>2 DEF Update, AnyId
  <2>2. want' \in [Tasks -> Calls] /\ UNCHANGED <<nvs, op, up, ever, crashes, faults>> /\ up
    BY <2>1, CallStep DEF Basic
  <2>3. changes' \in Versions /\ reg' \in [Ids -> Versions]
    BY <2>1, Typing DEF Basic, Versions
  <2> QED BY <2>2, <2>3 DEF Basic, TypeOK, Fits, Place, Restarting, Calls
<1>3. ASSUME NEW d \in Ids, Leave(t, d) PROVE Basic'
  <2>1. /\ Call(t, "delete", d) /\ d \in AnyId /\ reg' = [reg EXCEPT ![d] = 0]
        /\ UNCHANGED changes
    BY <1>3 DEF Leave, AnyId
  <2>2. want' \in [Tasks -> Calls] /\ UNCHANGED <<nvs, op, up, ever, crashes, faults>> /\ up
    BY <2>1, CallStep DEF Basic
  <2>3. reg' \in [Ids -> Versions]
    BY <2>1, Typing, Values DEF Basic
  <2> QED BY <2>1, <2>2, <2>3 DEF Basic, TypeOK, Fits, Place, Restarting, Calls
<1> QED BY <1>1, <1>2, <1>3

LEMMA BeginBasic ==
  ASSUME Basic, NEW t \in Tasks,
         BeginSave(t) \/ BeginDelete(t) \/ device_persistence_clear(t)
  PROVE  Basic'
<1>1. /\ want' \in [Tasks -> Calls] /\ op = Idle
      /\ UNCHANGED <<reg, up, ever, changes, crashes>>
  BY TakeStep DEF Basic, BeginSave, BeginDelete, device_persistence_clear, Rest
<1>2. up
  BY Running DEF BeginSave, BeginDelete, device_persistence_clear
<1>3. CASE BeginSave(t)
  <2>1. op' \in Ops /\ op'.pc = "search"
    BY <1>3, BeginSaveOp DEF Basic
  <2>2. UNCHANGED <<nvs, faults>>
    BY <1>3 DEF BeginSave
  <2> QED BY <1>1, <1>2, <2>1, <2>2
      DEF Basic, TypeOK, Fits, Restarting, Calls, Ops, Saving, Deleting
<1>4. CASE BeginDelete(t)
  <2>1. UNCHANGED nvs /\ faults' \in 0 .. MaxFaults
    BY <1>4, BeginDeleteOp DEF BeginDelete, Basic
  <2>2. CASE UNCHANGED op
    BY <1>1, <1>2, <2>1, <2>2
    DEF Basic, TypeOK, Fits, Place, Restarting, Calls
  <2>3. CASE ~UNCHANGED op
    <3>1. /\ op' \in Ops /\ op'.pc \in {"swap", "erase"}
          /\ op'.index \in 1 .. Len(op'.list)
      BY <1>4, <2>3, BeginDeleteOp DEF Basic
    <3> QED BY <1>1, <1>2, <2>1, <3>1
        DEF Basic, TypeOK, Fits, Restarting, Calls, Ops, Saving, Deleting
  <2> QED BY <2>2, <2>3
<1>5. CASE device_persistence_clear(t)
  BY <1>1, <1>2, <1>5, Values
  DEF Basic, TypeOK, Fits, Place, Restarting, Calls, Spaces, device_persistence_clear
<1> QED BY <1>3, <1>4, <1>5

LEMMA SearchBasic ==
  ASSUME Basic, Search
  PROVE  Basic'
<1>1. PICK id \in IdsAt(op.dev), list \in Lists :
        Start(id, list) /\ faults' \in 0 .. MaxFaults
  BY SearchStart DEF Basic
<1>2. UNCHANGED <<want, nvs, reg, up, changes, crashes>> /\ up
  BY Running DEF Search
<1>3. CASE op' = Idle /\ UNCHANGED ever
  BY <1>1, <1>2, <1>3, Values
  DEF Basic, TypeOK, Fits, Restarting, Calls, Ops, Idle, Saving, Deleting
<1>4. CASE ~(op' = Idle /\ UNCHANGED ever)
  <2>1. /\ op' \in Ops /\ op'.list = list /\ op'.index = Find(list, id)
        /\ op'.pc = (IF Find(list, id) > 0 THEN "replace" ELSE "blob")
        /\ Find(list, id) = 0 => Len(list) < MaxDevices
        /\ ever' \in [Ids -> SUBSET Versions]
    BY <1>1, <1>4, StartOp DEF Basic
  <2>2. Find(list, id) \in 0 .. Len(list) /\ Len(list) \in Nat
    BY ListSeq, FindProperty, LenProperties
  <2>3. Fits'
    BY <2>1, <2>2 DEF Fits, Saving, Deleting
  <2> QED BY <1>1, <1>2, <2>1, <2>3 DEF Basic, TypeOK, Restarting, Calls, Ops
<1> QED BY <1>3, <1>4

\* The steps of an operation that write flash.
Writing == \/ Replace \/ AppendBlob \/ AppendList \/ AppendCount
           \/ Swap \/ Erase \/ Shrink \/ Lower

LEMMA WritingStep ==
  ASSUME Basic, Writing
  PROVE  /\ nvs' \in Spaces /\ faults' \in 0 .. MaxFaults
         /\ UNCHANGED <<want, reg, up, ever, changes, crashes>>
         /\ \/ op' = Idle
            \/ /\ op' \in Ops /\ op'.list = op.list /\ op'.index = op.index
               /\ op'.rec = op.rec /\ op'.dev = op.dev /\ op'.before = op.before
               /\ op'.pc = CASE op.pc = "blob" -> "list" [] op.pc = "list" -> "count"
                             [] op.pc = "swap" -> "erase" [] op.pc = "erase" -> "shrink"
                             [] op.pc = "shrink" -> "lower" [] OTHER -> "idle"
<1>1. UNCHANGED <<want, reg, up, ever, changes, crashes>>
  BY DEF Writing, Replace, AppendBlob, AppendList, AppendCount, Swap, Erase, Shrink,
         Lower, Rest
<1>2. TypeOK /\ Fits /\ nvs \in Spaces /\ op.rec \in Record
  BY Typing, OpLists DEF Basic
<1>3. CASE Replace
  <2>1. op' = Idle /\ Write([nvs EXCEPT !.blob[op.index] = op.rec]) /\ op.index \in Positions
    BY <1>2, <1>3, Places DEF Replace, Done
  <2> QED BY <1>1, <1>2, <2>1, BlobWritten, WriteProperty
<1>4. CASE AppendBlob
  <2>1. Write([nvs EXCEPT !.blob[Place] = op.rec]) /\ Place \in Positions
    BY <1>2, <1>4, Places DEF AppendBlob, Saving
  <2>2. op' = Idle \/ Goto("list")
    BY <1>4 DEF AppendBlob, Done
  <2> QED BY <1>1, <1>2, <1>4, <2>1, <2>2, BlobWritten, WriteProperty, GotoProperty
      DEF AppendBlob
<1>5. CASE AppendList
  <2>1. Place \in Positions /\ op.pc = "list"
    BY <1>2, <1>5, Places DEF AppendList, Saving
  <2>2. CASE \E id \in IdsAt(op.dev) :
               nvs' = [nvs EXCEPT !.list = Append(op.list, id)] /\ Follow(id) /\ Goto("count")
    <3>1. PICK id \in IdsAt(op.dev) :
            nvs' = [nvs EXCEPT !.list = Append(op.list, id)] /\ Follow(id)
      BY <2>2
    <3>2. id \in AnyId
      BY <1>2, <3>1, PointeeType DEF IdsAt
    <3>3. Append(op.list, id) \in Seq(AnyId) /\ Len(Append(op.list, id)) = Len(op.list) + 1
      BY <1>2, <3>2, OpLists
    <3>4. Append(op.list, id) \in Lists
      <4>1. Len(op.list) \in Nat /\ Len(op.list) < MaxDevices
        BY <1>2, <2>1, OpLists DEF Fits, Saving
      <4>2. Len(Append(op.list, id)) <= MaxDevices
        BY <3>3, <4>1
      <4> QED BY <3>3, <4>2, ListSeq
    <3> QED BY <1>1, <1>2, <2>1, <2>2, <3>1, <3>4, ListWritten, FollowProperty, GotoProperty
  <2>3. CASE Fail /\ UNCHANGED nvs /\ Goto("count")
    BY <1>1, <1>2, <2>1, <2>3, Typing, GotoProperty DEF Fail
  <2>4. CASE Fail /\ nvs' = [nvs EXCEPT !.blob[Place] = Missing] /\ Done
    BY <1>1, <1>2, <2>1, <2>4, Typing, BlobWritten DEF Fail, Done
  <2> QED BY <1>5, <2>2, <2>3, <2>4 DEF AppendList
<1>6. CASE AppendCount
  <2>1. op' = Idle /\ Write([nvs EXCEPT !.count = Place]) /\ Place \in Positions
    BY <1>2, <1>6, Places DEF AppendCount, Done, Saving
  <2>2. Place \in 0 .. MaxDevices
    BY <2>1 DEF Positions
  <2> QED BY <1>1, <1>2, <2>1, <2>2, CountWritten, WriteProperty
<1>7. CASE Swap
  <2>1. /\ op.index \in Positions /\ Len(op.list) \in Positions /\ op.pc = "swap"
        /\ Write([nvs EXCEPT !.blob[op.index] = nvs.blob[Len(op.list)]]) /\ Goto("erase")
    BY <1>2, <1>7, Places DEF Swap
  <2>2. nvs.blob[Len(op.list)] \in Record \cup {Missing}
    BY <1>2, <2>1 DEF Spaces
  <2> QED BY <1>1, <1>2, <2>1, <2>2, BlobWritten, WriteProperty, GotoProperty
<1>8. CASE Erase
  <2>1. /\ Len(op.list) \in Positions /\ op.pc = "erase" /\ Goto("shrink")
        /\ nvs' = [nvs EXCEPT !.blob[Len(op.list)] = Missing] /\ UNCHANGED faults
    BY <1>2, <1>8, Places DEF Erase, Deleting
  <2> QED BY <1>1, <1>2, <2>1, Typing, BlobWritten, GotoProperty
<1>9. CASE Shrink
  <2>1. op.pc = "shrink" /\ Goto("lower") /\ Write([nvs EXCEPT !.list = Shorter])
    BY <1>9 DEF Shrink
  <2>2. Shorter = Closed(op.list, op.index) /\ op.list \in Lists
        /\ op.index \in 1 .. Len(op.list)
    BY <1>2, <2>1, Typing DEF Shorter, Closed, Fits, Deleting, Ops
  <2> QED BY <1>1, <1>2, <2>1, <2>2, ClosedProperty, ListWritten, WriteProperty, GotoProperty
<1>10. CASE Lower
  <2>1. op' = Idle /\ Write([nvs EXCEPT !.count = Len(op.list) - 1])
        /\ Len(op.list) \in Positions
    BY <1>2, <1>10, Places DEF Lower, Done, Deleting
  <2>2. Len(op.list) - 1 \in 0 .. MaxDevices
    BY <2>1 DEF Positions
  <2> QED BY <1>1, <1>2, <2>1, <2>2, CountWritten, WriteProperty
<1> QED BY <1>3, <1>4, <1>5, <1>6, <1>7, <1>8, <1>9, <1>10 DEF Writing

LEMMA WritingBasic ==
  ASSUME Basic, Writing
  PROVE  Basic'
<1>1. up
  BY Running DEF Writing, Replace, AppendBlob, AppendList, AppendCount, Swap, Erase,
                 Shrink, Lower
<1>2. op' \in Ops
  BY WritingStep, Values
<1>3. TypeOK'
  BY <1>2, WritingStep, Typing DEF Basic, TypeOK, Spaces, Ops, Calls
<1>4. Fits'
  <2>1. CASE op' = Idle
    BY <2>1 DEF Fits, Idle, Saving, Deleting
  <2>2. CASE op' # Idle
    <3>1. op'.pc \in Saving => op.pc \in Saving
      BY <2>2, WritingStep DEF Saving
    <3>2. op'.pc \in {"replace", "swap"} \cup Deleting =>
            op.pc \in {"replace", "swap"} \cup Deleting
      BY <2>2, WritingStep DEF Deleting
    <3> QED BY <2>2, <3>1, <3>2, WritingStep DEF Basic, Fits
  <2> QED BY <2>1, <2>2
<1> QED BY <1>1, <1>3, <1>4, WritingStep DEF Basic, Restarting

LEMMA CrashBasic ==
  ASSUME Basic, Crash
  PROVE  Basic'
<1>1. /\ op' = Idle /\ reg' = NoDevice /\ want' = [t \in Tasks |-> NoCall]
      /\ up' = FALSE /\ crashes < MaxCrashes /\ crashes' = crashes + 1
      /\ UNCHANGED <<nvs, ever, changes>> /\ faults' \in 0 .. MaxFaults
  BY Typing DEF Basic, Crash, Done, Fail
<1>2. want' \in [Tasks -> Calls] /\ crashes' \in 0 .. MaxCrashes
  BY <1>1, Values, Typing DEF Basic
<1>3. TypeOK'
  BY <1>1, <1>2, Values, Typing DEF Basic, TypeOK, Calls, Ops, Spaces
<1> QED BY <1>1, <1>3 DEF Basic, Fits, Restarting, Idle, Saving, Deleting

LEMMA LoadStep ==
  ASSUME Basic, load_all
  PROVE  /\ reg' \in [Ids -> Versions] /\ nvs' \in Spaces /\ faults' \in 0 .. MaxFaults
         /\ up' /\ op = Idle /\ UNCHANGED <<want, op, ever, changes, crashes>>
         /\ faults' = 0 =>
              /\ faults = 0 /\ nvs' \in {nvs, EmptyNvs}
              /\ \/ nvs.count = 0
                 \/ nvs' = EmptyNvs
                 \/ Readable(nvs) /\ \E list \in ReadList(nvs) : reg' = Loaded(nvs, list)
<1>1. TypeOK /\ op = Idle /\ up' /\ UNCHANGED <<want, op, ever, changes, crashes>>
  BY DEF Basic, Restarting, load_all
<1>2. CASE Readable(nvs) /\ (\E list \in ReadList(nvs) : reg' = Loaded(nvs, list))
           /\ nvs' = (IF reg' = NoDevice THEN EmptyNvs ELSE nvs) /\ UNCHANGED faults
  <2>1. PICK list \in ReadList(nvs) : reg' = Loaded(nvs, list)
    BY <1>2
  <2>2. list \in Lists
    BY <1>1, <1>2, <2>1, Typing, ReadType
  <2>3. Loaded(nvs, list) = [d \in Ids |-> Loaded(nvs, list)[d]]
    BY DEF Loaded
  <2>4. reg' \in [Ids -> Versions]
    BY <1>1, <2>1, <2>2, <2>3, Typing, LoadedProperty
  <2> QED BY <1>1, <1>2, <2>4, Typing, Values
<1>3. CASE ~Readable(nvs) \/ UNCHANGED <<reg, nvs>>
  BY <1>1, <1>3, Typing, Values DEF load_all, Fail
<1> QED BY <1>2, <1>3 DEF load_all

LEMMA BasicStep ==
  ASSUME Basic, [Next]_vars
  PROVE  Basic'
<1>1. CASE load_all
  BY <1>1, LoadStep, Typing
  DEF Basic, TypeOK, Fits, Place, Restarting, Calls, Spaces, Ops
<1>2. CASE UNCHANGED vars
  BY <1>2 DEF vars, Basic, TypeOK, Fits, Place, Restarting
<1> QED BY <1>1, <1>2, CallerBasic, BeginBasic, SearchBasic, WritingBasic, CrashBasic
    DEF Next, Operation, Writing

-------------------------------------------------------------------------------
(***************************************************************************)
(* The layout.                                                             *)
(***************************************************************************)
\* Between operations the layout is what load_all() relies on.
LEMMA IdleLayout ==
  ASSUME op.pc \in {"idle", "search"}, nvs.count = Len(nvs.list),
         Distinct(nvs.list), Matches(nvs.list)
  PROVE  LayoutInv
BY DEF LayoutInv, View, InStep, AtPlace, Saving, Deleting

LEMMA LayoutIdle ==
  ASSUME LayoutInv, faults = 0, op.pc \in {"idle", "search", "replace", "blob", "list", "swap"}
  PROVE  /\ Distinct(nvs.list) /\ Matches(nvs.list)
         /\ op.pc \in {"blob", "list", "replace", "swap"} => nvs.list = op.list
         /\ nvs.count = Len(nvs.list)
BY DEF LayoutInv, View, InStep, Saving, Deleting

LEMMA EmptyLayout ==
  Len(EmptyNvs.list) = EmptyNvs.count /\ EmptyNvs.list = << >> /\ Len(<< >>) = 0
BY EmptySeq DEF EmptyNvs

LEMMA ClosedDistinct ==
  ASSUME NEW list \in Lists, NEW index \in 1 .. Len(list), Distinct(list)
  PROVE  Distinct(Closed(list, index))
<1>1. Len(list) \in Nat
  BY ListSeq, LenProperties
<1> SUFFICES ASSUME NEW i \in 1 .. Len(list) - 1, NEW j \in 1 .. Len(list) - 1,
                    Closed(list, index)[i] = Closed(list, index)[j]
             PROVE  i = j
  BY ClosedProperty DEF Distinct
<1>2. /\ Closed(list, index)[i] = IF i = index THEN list[Len(list)] ELSE list[i]
      /\ Closed(list, index)[j] = IF j = index THEN list[Len(list)] ELSE list[j]
  BY ClosedProperty
<1>3. i \in 1 .. Len(list) /\ j \in 1 .. Len(list) /\ Len(list) \in 1 .. Len(list)
      /\ i # Len(list) /\ j # Len(list)
  BY <1>1
<1>4. ASSUME i = index, j # index PROVE FALSE
  BY <1>2, <1>3, <1>4 DEF Distinct
<1>5. ASSUME i # index, j = index PROVE FALSE
  BY <1>2, <1>3, <1>5 DEF Distinct
<1>6. ASSUME i # index, j # index PROVE i = j
  BY <1>2, <1>3, <1>6 DEF Distinct
<1> QED BY <1>4, <1>5, <1>6

\* Without failures what is read is the list on flash.
LEMMA ReadExact ==
  ASSUME TypeOK, nvs.count = Len(nvs.list)
  PROVE  /\ \A list \in SaveList : list = nvs.list
         /\ Readable(nvs) => \A list \in ReadList(nvs) : list = nvs.list
         /\ ~Readable(nvs) => nvs.list = << >>
<1>1. nvs \in Spaces /\ nvs.list \in Seq(AnyId) /\ Len(nvs.list) \in Nat
  BY Typing, OpLists
<1>2. CASE Readable(nvs)
  BY <1>1, <1>2, ReadType DEF SaveList
<1>3. CASE ~Readable(nvs)
  <2>1. nvs.list = << >>
    BY <1>1, <1>3, EmptySeq DEF Readable
  <2> QED BY <1>3, <2>1 DEF SaveList
<1> QED BY <1>2, <1>3

LEMMA BeginLayout ==
  ASSUME Basic, LayoutInv, faults' = 0, NEW t \in Tasks,
         BeginSave(t) \/ BeginDelete(t) \/ device_persistence_clear(t)
  PROVE  LayoutInv'
<1>0. op = Idle /\ TypeOK
  BY DEF Basic, Take, BeginSave, BeginDelete, device_persistence_clear
<1>1. op = Idle /\ op.pc = "idle" /\ TypeOK
  BY <1>0 DEF Idle
<1>2. CASE BeginSave(t)
  <2>1. op'.pc = "search" /\ faults = 0 /\ UNCHANGED nvs
    BY <1>1, <1>2, BeginSaveOp DEF BeginSave
  <2>2. Distinct(nvs.list) /\ Matches(nvs.list) /\ nvs.count = Len(nvs.list)
    BY <1>1, <2>1, LayoutIdle
  <2> QED BY <2>1, <2>2 DEF LayoutInv, View, InStep, AtPlace, Saving, Deleting,
                            Distinct, Matches
<1>3. CASE BeginDelete(t)
  <2>1. faults = 0 /\ UNCHANGED nvs
    <3>1. UNCHANGED nvs
      BY <1>3 DEF BeginDelete
    <3>2. faults' >= faults
      BY <1>1, <1>3, BeginDeleteOp
    <3>3. faults \in 0 .. MaxFaults
      BY <1>1, Typing
    <3> QED BY <3>1, <3>2, <3>3
  <2>2. Distinct(nvs.list) /\ Matches(nvs.list) /\ nvs.count = Len(nvs.list)
    BY <1>1, <2>1, LayoutIdle
  <2>3. CASE UNCHANGED op
    BY <2>1, <2>2, <2>3, <1>1 DEF LayoutInv, View, InStep, AtPlace, Saving, Deleting,
                                  Distinct, Matches
  <2>4. CASE ~UNCHANGED op
    <3>1. Readable(nvs) /\ nvs.list \in Lists
      BY <1>1, <1>3, <2>1, <2>4, BeginDeleteOp, Typing DEF Spaces
    <3>2. PICK i \in 1 .. Len(nvs.list) :
            /\ i = Find(nvs.list, want[t].dev) /\ op' \in Ops
            /\ op'.list = nvs.list /\ op'.index = i
            /\ op'.pc = (IF i < Len(nvs.list) THEN "swap" ELSE "erase")
            /\ op'.rec = [id |-> want[t].dev, ver |-> 0]
      BY <1>1, <1>3, <2>2, <2>4, BeginDeleteOp, ReadExact
    <3>3. nvs.list[i] = op'.rec.id /\ Len(nvs.list) \in Nat
      BY <1>1, <3>2, OpLists, FindProperty
    <3>4. CASE i < Len(nvs.list)
      BY <2>1, <2>2, <3>2, <3>3, <3>4
      DEF LayoutInv, View, InStep, AtPlace, Saving, Deleting, Distinct, Matches
    <3>5. CASE ~(i < Len(nvs.list))
      <4>1. i = Len(nvs.list) /\ op'.pc = "erase"
        BY <3>2, <3>3, <3>5
      <4>2. View' = Closed(nvs.list, i)
        BY <3>2, <4>1 DEF View, Shorter, Closed, Deleting
      <4>3. Distinct(View')
        BY <2>2, <3>1, <4>2, ClosedDistinct
      <4>4. Len(View') = Len(nvs.list) - 1
            /\ \A j \in 1 .. Len(nvs.list) - 1 : View'[j] = nvs.list[j]
        BY <3>1, <3>3, <4>1, <4>2, ClosedProperty, ZenonT(60)
      <4>5. \A j \in 1 .. Len(View') : nvs.blob[j] # Missing /\ nvs.blob[j].id = View'[j]
        BY <2>2, <3>3, <4>4, SMTT(60) DEF Matches
      <4> QED BY <2>1, <2>2, <3>2, <4>1, <4>3, <4>5
          DEF LayoutInv, InStep, AtPlace, Saving, Deleting, Distinct, Matches
    <3> QED BY <3>4, <3>5
  <2> QED BY <2>3, <2>4
<1>4. CASE device_persistence_clear(t)
  <2>1. op'.pc = "idle" /\ nvs' = EmptyNvs
    BY <1>1, <1>4 DEF device_persistence_clear
  <2> QED BY <2>1, EmptyLayout DEF LayoutInv, View, InStep, AtPlace, Saving, Deleting,
                                   Distinct, Matches
<1> QED BY <1>2, <1>3, <1>4

LEMMA SearchLayout ==
  ASSUME Basic, LayoutInv, faults' = 0, Search
  PROVE  LayoutInv'
<1>1. PICK list \in Lists :
        Start(op.rec.id, list) /\ faults = 0 /\ list \in SaveList
  BY SearchStart DEF Basic
<1>2. TypeOK /\ UNCHANGED nvs /\ op.pc = "search"
  BY DEF Basic, Search
<1>3. Distinct(nvs.list) /\ Matches(nvs.list) /\ nvs.count = Len(nvs.list)
  BY <1>1, <1>2, LayoutIdle
<1>4. list = nvs.list /\ nvs.list \in Seq(AnyId) /\ Len(nvs.list) \in Nat
  BY <1>1, <1>2, <1>3, ReadExact, OpLists
<1>5. CASE op' = Idle
  BY <1>2, <1>3, <1>5 DEF Idle, LayoutInv, View, InStep, AtPlace, Saving, Deleting,
                          Distinct, Matches
<1>6. CASE op' # Idle
  <2> DEFINE i == Find(nvs.list, op.rec.id)
  <2>1. /\ op'.list = nvs.list /\ op'.index = i /\ op'.rec = op.rec
        /\ op'.pc = IF i > 0 THEN "replace" ELSE "blob"
    BY <1>1, <1>2, <1>4, <1>6, StartOp
  <2>2. /\ i \in 0 .. Len(nvs.list) /\ (i # 0 => nvs.list[i] = op.rec.id)
        /\ i = 0 => \A j \in 1 .. Len(nvs.list) : nvs.list[j] # op.rec.id
    BY <1>3, <1>4, FindProperty
  <2> HIDE DEF i
  <2> QED BY <1>2, <1>3, <1>4, <2>1, <2>2
      DEF LayoutInv, View, InStep, AtPlace, Saving, Deleting, Distinct, Matches
<1> QED BY <1>5, <1>6

LEMMA WritingLayout ==
  ASSUME Basic, LayoutInv, faults' = 0, Writing
  PROVE  LayoutInv'
<1>1. TypeOK /\ Fits /\ op.list \in Lists /\ Len(op.list) \in Nat /\ nvs \in Spaces
  BY Typing, OpLists DEF Basic, Ops
<1>2. CASE Replace
  <2>1. /\ op.pc = "replace" /\ op' = Idle /\ op.index \in Positions
        /\ op.index \in 1 .. Len(op.list)
        /\ Write([nvs EXCEPT !.blob[op.index] = op.rec])
    BY <1>1, <1>2, Places DEF Replace, Done, Fits
  <2>2. op.rec \in Record /\ op.rec # Missing
    BY <1>1, OpLists
  <2>3. /\ faults = 0 /\ nvs'.list = nvs.list /\ nvs'.count = nvs.count
        /\ nvs'.blob = [nvs.blob EXCEPT ![op.index] = op.rec]
    <3>1. [nvs EXCEPT !.blob[op.index] = op.rec] \in Spaces
      BY <1>1, <2>1, <2>2, BlobWritten
    <3>2. faults = 0 /\ nvs' = [nvs EXCEPT !.blob[op.index] = op.rec]
      BY <1>1, <2>1, <3>1, WriteProperty
    <3> QED BY <1>1, <2>1, <2>2, <3>2, BlobWritten
  <2>4. /\ Distinct(nvs.list) /\ Matches(nvs.list) /\ nvs.list = op.list
        /\ nvs.count = Len(nvs.list)
    BY <2>1, <2>3, LayoutIdle
  <2>5. op.list[op.index] = op.rec.id
    BY <2>1, <2>3 DEF LayoutInv, AtPlace
  <2>6. \A i \in 1 .. Len(nvs.list) : nvs'.blob[i] # Missing /\ nvs'.blob[i].id = nvs.list[i]
    <3> TAKE i \in 1 .. Len(nvs.list)
    <3>1. nvs.blob \in [Positions -> Record \cup {Missing}] /\ op.index \in Positions
      BY <1>1, <2>1 DEF Spaces
    <3>2. i \in Positions
      BY <1>1, OpLists DEF Positions
    <3>3. nvs'.blob[i] = IF i = op.index THEN op.rec ELSE nvs.blob[i]
      BY <2>3, <3>1, <3>2
    <3> QED BY <2>2, <2>4, <2>5, <3>3 DEF Matches
  <2>7. op'.pc = "idle"
    BY <2>1 DEF Idle
  <2> QED BY <2>3, <2>4, <2>6, <2>7 DEF LayoutInv, View, InStep, AtPlace, Saving, Deleting,
                                        Distinct, Matches
<1>3. CASE AppendBlob
  <2>1. /\ op.pc = "blob" /\ Place \in Positions
        /\ Write([nvs EXCEPT !.blob[Place] = op.rec])
        /\ faults' = faults => Goto("list")
    BY <1>1, <1>3, Places DEF AppendBlob, Saving
  <2>2. op.rec \in Record
    BY <1>1, OpLists
  <2>3. /\ faults = 0 /\ nvs'.list = nvs.list /\ nvs'.count = nvs.count
        /\ nvs'.blob = [nvs.blob EXCEPT ![Place] = op.rec]
    <3>1. [nvs EXCEPT !.blob[Place] = op.rec] \in Spaces
      BY <1>1, <2>1, <2>2, BlobWritten
    <3>2. faults = 0 /\ nvs' = [nvs EXCEPT !.blob[Place] = op.rec]
      BY <1>1, <2>1, <3>1, WriteProperty
    <3> QED BY <1>1, <2>1, <2>2, <3>2, BlobWritten
  <2>4. /\ Distinct(nvs.list) /\ Matches(nvs.list) /\ nvs.list = op.list
        /\ nvs.count = Len(nvs.list)
    BY <2>1, <2>3, LayoutIdle
  <2>5. \A i \in 1 .. Len(op.list) : op.list[i] # op.rec.id
    BY <2>1, <2>3 DEF LayoutInv, AtPlace
  <2>6. op'.pc = "list" /\ op'.list = op.list /\ op'.rec = op.rec
    BY <1>1, <2>1, <2>3, GotoProperty
  <2>7. nvs.blob \in [Positions -> Record \cup {Missing}]
    BY <1>1 DEF Spaces
  <2>8. \A i \in 1 .. Len(nvs.list) : nvs'.blob[i] = nvs.blob[i]
    <3> TAKE i \in 1 .. Len(nvs.list)
    <3>1. i \in Positions /\ i # Place
      BY <1>1, <2>4, OpLists DEF Positions, Place
    <3> QED BY <2>1, <2>3, <2>7, <3>1
  <2>9. nvs'.blob[Place'] = op.rec
    BY <2>1, <2>3, <2>6, <2>7 DEF Place
  <2> QED BY <2>3, <2>4, <2>5, <2>6, <2>8, <2>9
      DEF LayoutInv, View, InStep, AtPlace, Saving, Deleting, Distinct, Matches
<1>4. CASE AppendList
  <2>1. op.pc = "list" /\ Place \in Positions
    BY <1>1, <1>4, Places DEF AppendList, Saving
  <2>2. PICK id \in IdsAt(op.dev) :
          nvs' = [nvs EXCEPT !.list = Append(op.list, id)] /\ Follow(id) /\ Goto("count")
    BY <1>1, <1>4, Typing DEF AppendList, Fail
  <2>3. faults = 0 /\ id = op.rec.id /\ op.rec.id \in AnyId
    BY <1>1, <2>2, FollowProperty, OpLists
  <2>4. nvs'.list = Append(op.list, op.rec.id) /\ nvs'.blob = nvs.blob /\ nvs'.count = nvs.count
    BY <1>1, <2>2, <2>3 DEF Spaces
  <2>5. op'.pc = "count" /\ op'.list = op.list /\ op'.rec = op.rec
    BY <1>1, <2>2, GotoProperty
  <2>6. /\ Distinct(nvs.list) /\ Matches(nvs.list) /\ nvs.list = op.list
        /\ nvs.count = Len(nvs.list)
    BY <2>1, <2>3, LayoutIdle
  <2>7. /\ \A i \in 1 .. Len(op.list) : op.list[i] # op.rec.id
        /\ nvs.blob[Place] = op.rec /\ op.rec # Missing
    BY <1>1, <2>1, <2>3, OpLists DEF LayoutInv, AtPlace
  <2>8. /\ Len(nvs'.list) = Place
        /\ \A i \in 1 .. Place : nvs'.list[i] = IF i = Place THEN op.rec.id ELSE op.list[i]
    BY <1>1, <2>3, <2>4, OpLists DEF Place
  <2>9. \A i \in 1 .. Place : i # Place => i \in 1 .. Len(op.list)
    BY <1>1 DEF Place
  <2>10. \A i, j \in 1 .. Place : nvs'.list[i] = nvs'.list[j] => i = j
    BY <2>6, <2>7, <2>8, <2>9, SMTT(60) DEF Distinct
  <2>11. \A i \in 1 .. Place : nvs'.blob[i] # Missing /\ nvs'.blob[i].id = nvs'.list[i]
    BY <2>4, <2>6, <2>7, <2>8, <2>9 DEF Matches
  <2>12. Place' = Place
    BY <2>5 DEF Place
  <2> QED BY <2>4, <2>5, <2>6, <2>7, <2>8, <2>10, <2>11, <2>12, SMTT(60)
      DEF LayoutInv, View, InStep, AtPlace, Saving, Deleting, Distinct, Matches
<1>5. CASE AppendCount
  <2>1. op.pc = "count" /\ op' = Idle /\ Write([nvs EXCEPT !.count = Place])
        /\ Place \in 0 .. MaxDevices
    BY <1>1, <1>5, Places DEF AppendCount, Done, Saving, Positions
  <2>2. faults = 0 /\ nvs'.list = nvs.list /\ nvs'.count = Place /\ nvs'.blob = nvs.blob
    BY <1>1, <2>1, WriteProperty, CountWritten
  <2>3. nvs.list = Append(op.list, op.rec.id) /\ Distinct(nvs.list) /\ Matches(nvs.list)
    BY <2>1, <2>2 DEF LayoutInv, InStep, View, Deleting
  <2>4. Len(nvs.list) = Place
    BY <1>1, <2>3, OpLists DEF Place
  <2>5. op'.pc = "idle"
    BY <2>1 DEF Idle
  <2> QED BY <2>2, <2>3, <2>4, <2>5, SMTT(60)
      DEF LayoutInv, View, InStep, AtPlace, Saving, Deleting, Distinct, Matches
<1>6. CASE Swap
  <2>1. /\ op.index \in Positions /\ Len(op.list) \in Positions /\ op.pc = "swap"
        /\ op.index \in 1 .. Len(op.list)
        /\ Write([nvs EXCEPT !.blob[op.index] = nvs.blob[Len(op.list)]]) /\ Goto("erase")
    BY <1>1, <1>6, Places DEF Swap, Fits
  <2>2. nvs.blob[Len(op.list)] \in Record \cup {Missing}
        /\ nvs.blob \in [Positions -> Record \cup {Missing}]
    BY <1>1, <2>1 DEF Spaces
  <2>3. /\ faults = 0 /\ nvs'.list = nvs.list /\ nvs'.count = nvs.count
        /\ nvs'.blob = [nvs.blob EXCEPT ![op.index] = nvs.blob[Len(op.list)]]
    <3>1. [nvs EXCEPT !.blob[op.index] = nvs.blob[Len(op.list)]] \in Spaces
      BY <1>1, <2>1, <2>2, BlobWritten
    <3>2. faults = 0 /\ nvs' = [nvs EXCEPT !.blob[op.index] = nvs.blob[Len(op.list)]]
      BY <1>1, <2>1, <3>1, WriteProperty
    <3> QED BY <1>1, <2>1, <2>2, <3>2, BlobWritten
  <2>4. op'.pc = "erase" /\ op'.list = op.list /\ op'.index = op.index /\ op'.rec = op.rec
    BY <1>1, <2>1, GotoProperty
  <2>5. /\ Distinct(nvs.list) /\ Matches(nvs.list) /\ nvs.list = op.list
        /\ nvs.count = Len(nvs.list)
    BY <2>1, <2>3, LayoutIdle
  <2>6. View' = Closed(op.list, op.index)
    BY <2>4 DEF View, Shorter, Closed, Deleting
  <2>7. Distinct(View') /\ Len(View') = Len(op.list) - 1
    BY <1>1, <2>1, <2>5, <2>6, ClosedDistinct, ClosedProperty
  <2>8. \A i \in 1 .. Len(op.list) - 1 : nvs'.blob[i] # Missing /\ nvs'.blob[i].id = View'[i]
    <3> TAKE i \in 1 .. Len(op.list) - 1
    <3>1. View'[i] = IF i = op.index THEN op.list[Len(op.list)] ELSE op.list[i]
      BY <1>1, <2>1, <2>6, ClosedProperty
    <3>2. i \in 1 .. Len(op.list) /\ Len(op.list) \in 1 .. Len(op.list) /\ i \in Positions
      BY <1>1, <2>1 DEF Positions
    <3>3. nvs'.blob[i] = IF i = op.index THEN nvs.blob[Len(op.list)] ELSE nvs.blob[i]
      BY <2>1, <2>2, <2>3, <3>2
    <3> QED BY <2>5, <3>1, <3>2, <3>3 DEF Matches
  <2> QED BY <2>3, <2>4, <2>5, <2>7, <2>8
      DEF LayoutInv, InStep, AtPlace, Saving, Deleting, Distinct, Matches
<1>7. CASE Erase
  <2>1. /\ Len(op.list) \in Positions /\ op.pc = "erase" /\ Goto("shrink")
        /\ op.index \in 1 .. Len(op.list)
        /\ nvs' = [nvs EXCEPT !.blob[Len(op.list)] = Missing] /\ faults = 0
    BY <1>1, <1>7, Places DEF Erase, Deleting, Fits
  <2>2. /\ nvs'.list = nvs.list /\ nvs'.count = nvs.count
        /\ nvs'.blob = [nvs.blob EXCEPT ![Len(op.list)] = Missing]
    BY <1>1, <2>1, BlobWritten
  <2>3. op'.pc = "shrink" /\ op'.list = op.list /\ op'.index = op.index /\ op'.rec = op.rec
    BY <1>1, <2>1, GotoProperty
  <2>4. /\ Distinct(View) /\ Matches(View) /\ Distinct(op.list) /\ nvs.list = op.list
        /\ nvs.count = Len(op.list)
    BY <2>1 DEF LayoutInv, InStep, AtPlace, Deleting
  <2>5. View' = View /\ View = Closed(op.list, op.index)
    BY <2>1, <2>3 DEF View, Shorter, Closed, Deleting
  <2>6. Len(View) = Len(op.list) - 1
    BY <1>1, <2>1, <2>5, ClosedProperty
  <2>7. \A i \in 1 .. Len(View) : nvs'.blob[i] = nvs.blob[i]
    <3> TAKE i \in 1 .. Len(View)
    <3>1. i \in Positions /\ i # Len(op.list)
      BY <1>1, <2>1, <2>6 DEF Positions
    <3>2. nvs.blob \in [Positions -> Record \cup {Missing}]
      BY <1>1 DEF Spaces
    <3> QED BY <2>1, <2>2, <3>1, <3>2
  <2> QED BY <2>2, <2>3, <2>4, <2>5, <2>7
      DEF LayoutInv, InStep, AtPlace, Saving, Deleting, Distinct, Matches
<1>8. CASE Shrink
  <2>1. op.pc = "shrink" /\ Goto("lower") /\ Write([nvs EXCEPT !.list = Shorter])
        /\ op.index \in 1 .. Len(op.list)
    BY <1>1, <1>8 DEF Shrink, Fits, Deleting
  <2>2. Shorter = Closed(op.list, op.index) /\ Shorter \in Lists
    BY <1>1, <2>1, ClosedProperty DEF Shorter, Closed
  <2>3. faults = 0 /\ nvs'.list = Shorter /\ nvs'.count = nvs.count /\ nvs'.blob = nvs.blob
    BY <1>1, <2>1, <2>2, WriteProperty, ListWritten
  <2>4. op'.pc = "lower" /\ op'.list = op.list /\ op'.index = op.index /\ op'.rec = op.rec
    BY <1>1, <2>1, GotoProperty
  <2>5. /\ Distinct(View) /\ Matches(View) /\ Distinct(op.list) /\ nvs.count = Len(op.list)
    BY <2>1, <2>3 DEF LayoutInv, InStep, AtPlace, Deleting
  <2>6. View' = View /\ Shorter' = Shorter
    BY <2>1, <2>4 DEF View, Shorter, Deleting
  <2> QED BY <2>3, <2>4, <2>5, <2>6, SMTT(60)
      DEF LayoutInv, InStep, AtPlace, Saving, Deleting, Distinct, Matches
<1>9. CASE Lower
  <2>1. op.pc = "lower" /\ op' = Idle /\ Write([nvs EXCEPT !.count = Len(op.list) - 1])
        /\ Len(op.list) - 1 \in 0 .. MaxDevices /\ op.index \in 1 .. Len(op.list)
    BY <1>1, <1>9, Places DEF Lower, Done, Deleting, Positions, Fits
  <2>2. /\ faults = 0 /\ nvs'.list = nvs.list /\ nvs'.count = Len(op.list) - 1
        /\ nvs'.blob = nvs.blob
    BY <1>1, <2>1, WriteProperty, CountWritten
  <2>3. Distinct(View) /\ Matches(View) /\ nvs.list = Shorter /\ View = Shorter
    BY <2>1, <2>2 DEF LayoutInv, InStep, View, Deleting
  <2>4. Len(nvs.list) = Len(op.list) - 1
    BY <1>1, <2>1, <2>3, ClosedProperty DEF Shorter, Closed
  <2>5. op'.pc = "idle"
    BY <2>1 DEF Idle
  <2> QED BY <2>2, <2>3, <2>4, <2>5
      DEF LayoutInv, View, InStep, AtPlace, Saving, Deleting, Distinct, Matches
<1> QED BY <1>2, <1>3, <1>4, <1>5, <1>6, <1>7, <1>8, <1>9 DEF Writing

LEMMA LayoutStep ==
  ASSUME Basic, LayoutInv, [Next]_vars
  PROVE  LayoutInv'
<1> SUFFICES ASSUME faults' = 0 PROVE LayoutInv'
  BY DEF LayoutInv
<1>1. CASE UNCHANGED <<nvs, op, faults>>
  BY <1>1 DEF LayoutInv, View, Shorter, InStep, AtPlace, Place, Distinct, Matches
<1>2. CASE Crash
  <2>1. op.pc \in {"idle", "search", "replace"} /\ faults = 0
    BY <1>2, Typing DEF Basic, Crash, Fail
  <2>2. op'.pc = "idle" /\ UNCHANGED nvs
    BY <1>2 DEF Crash, Done, Idle
  <2> QED BY <2>1, <2>2, LayoutIdle DEF LayoutInv, View, InStep, AtPlace, Saving, Deleting,
                                        Distinct, Matches
<1>3. CASE load_all
  <2>1. op.pc = "idle" /\ faults = 0 /\ nvs' \in {nvs, EmptyNvs} /\ UNCHANGED op
    BY <1>3, LoadStep DEF Idle
  <2>2. CASE nvs' = EmptyNvs
    BY <2>1, <2>2, EmptyLayout DEF LayoutInv, View, InStep, AtPlace, Saving, Deleting,
                                   Distinct, Matches
  <2> QED BY <1>1, <2>1, <2>2
<1>4. CASE \E t \in Tasks : Reset(t) \/ \E d \in Ids : Update(t, d) \/ Leave(t, d)
  BY <1>1, <1>4 DEF Reset, Update, Leave, Call
<1>5. CASE UNCHANGED vars
  BY <1>1, <1>5 DEF vars
<1> QED BY <1>2, <1>3, <1>4, <1>5, BeginLayout, SearchLayout, WritingLayout
    DEF Next, Operation, Writing

-------------------------------------------------------------------------------
(***************************************************************************)
(* Nothing stale.                                                          *)
(***************************************************************************)
\* A change of the registry is owed to flash from the moment it is made.
LEMMA CallerCurrent ==
  ASSUME Basic, NEW t \in Tasks,
         Reset(t) \/ \E e \in Ids : Update(t, e) \/ Leave(t, e),
         NEW d \in Ids, NEW ver, Current(d, ver)
  PROVE  Current(d, ver)'
<1>1. TypeOK /\ reg \in [Ids -> Versions] /\ changes \in Nat
  BY Typing DEF Basic, Versions
<1>2. CASE Reset(t)
  <2>1. Call(t, "clear", NoId) /\ NoId \in AnyId /\ reg'[d] = 0
    BY <1>2 DEF Reset, NoDevice, AnyId
  <2>2. want'[t] = [kind |-> "clear", dev |-> NoId]
    BY <1>1, <2>1, CallStep
  <2> QED BY <2>1, <2>2 DEF Current, Owed
<1>3. ASSUME NEW e \in Ids, Update(t, e) PROVE Current(d, ver)'
  <2>1. /\ Call(t, "save", e) /\ e \in AnyId /\ reg' = [reg EXCEPT ![e] = changes + 1]
    BY <1>3 DEF Update, AnyId
  <2>2. /\ want[t] = NoCall /\ want'[t] = [kind |-> "save", dev |-> e]
        /\ \A u \in Tasks \ {t} : want'[u] = want[u]
    BY <1>1, <2>1, CallStep
  <2>3. CASE d = e
    <3>1. reg'[d] # 0
      BY <1>1, <2>1, <2>3
    <3> QED BY <2>2, <2>3, <3>1 DEF Current, Owed
  <2>4. CASE d # e
    <3>1. reg'[d] = reg[d]
      BY <1>1, <2>1, <2>4
    <3>2. Owed(d) => Owed(d)'
      BY <2>2, <3>1 DEF Owed, NoCall
    <3> QED BY <3>1, <3>2 DEF Current
  <2> QED BY <2>3, <2>4
<1>4. ASSUME NEW e \in Ids, Leave(t, e) PROVE Current(d, ver)'
  <2>1. /\ Call(t, "delete", e) /\ e \in AnyId /\ reg' = [reg EXCEPT ![e] = 0]
    BY <1>4 DEF Leave, AnyId
  <2>2. /\ want[t] = NoCall /\ want'[t] = [kind |-> "delete", dev |-> e]
        /\ \A u \in Tasks \ {t} : want'[u] = want[u]
    BY <1>1, <2>1, CallStep
  <2>3. CASE d = e
    <3>1. reg'[d] = 0
      BY <1>1, <2>1, <2>3
    <3> QED BY <2>2, <2>3, <3>1 DEF Current, Owed
  <2>4. CASE d # e
    <3>1. reg'[d] = reg[d]
      BY <1>1, <2>1, <2>4
    <3>2. Owed(d) => Owed(d)'
      BY <2>2, <3>1 DEF Owed, NoCall
    <3> QED BY <3>1, <3>2 DEF Current
  <2> QED BY <2>3, <2>4
<1> QED BY <1>2, <1>3, <1>4

\* A call that gets the mutex is owed no longer, the others are.
LEMMA TakeCurrent ==
  ASSUME Basic, NEW t \in Tasks, Take(t), UNCHANGED reg,
         NEW d \in Ids, NEW ver, Current(d, ver)
  PROVE  \/ Current(d, ver)'
         \/ want[t] = [kind |-> "save", dev |-> d] /\ reg[d] # 0
         \/ want[t] = [kind |-> "delete", dev |-> d] /\ reg[d] = 0
         \/ want[t].kind = "clear"
<1>1. \A u \in Tasks \ {t} : want'[u] = want[u]
  BY TakeStep DEF Basic
<1>2. CASE ver \in {0, reg[d]}
  BY <1>2 DEF Current
<1>3. CASE Owed(d)
  BY <1>1, <1>3 DEF Current, Owed
<1> QED BY <1>2, <1>3 DEF Current

LEMMA SameCurrent ==
  ASSUME UNCHANGED <<reg, want>>, NEW d, NEW ver, Current(d, ver)
  PROVE  Current(d, ver)'
BY DEF Current, Owed

\* The invariant device by device and version by version.
LEMMA FreshElim ==
  ASSUME FreshInv, up, faults = 0
  PROVE  /\ \A i \in 1 .. Len(View), x \in Ids : \A v :
              View[i] = x /\ nvs.blob[i].ver = v => Current(x, v) \/ AtWork(x)
         /\ op.pc \in {"search", "replace"} \cup Saving => \A x \in Ids : \A v :
              op.rec.id = x /\ op.rec.ver = v => Current(x, v)
BY DEF FreshInv

LEMMA FreshIntro ==
  ASSUME \A i \in 1 .. Len(View'), x \in Ids : \A v :
           View'[i] = x /\ nvs'.blob[i].ver = v => Current(x, v)' \/ AtWork(x)',
         op'.pc \in {"search", "replace"} \cup Saving => \A x \in Ids : \A v :
           op'.rec.id = x /\ op'.rec.ver = v => Current(x, v)'
  PROVE  FreshInv'
<1>1. ASSUME NEW i \in 1 .. Len(View'), View'[i] \in Ids
      PROVE  (Current(View[i], nvs.blob[i].ver) \/ AtWork(View[i]))'
  <2>1. PICK x \in Ids : x = View'[i]
    BY <1>1
  <2>2. PICK v : v = nvs'.blob[i].ver
    OBVIOUS
  <2>3. Current(x, v)' \/ AtWork(x)'
    BY <2>1, <2>2
  <2>4. CASE Current(x, v)'
    BY <2>1, <2>2, <2>4 DEF Current, Owed
  <2>5. CASE AtWork(x)'
    BY <2>1, <2>5 DEF AtWork
  <2> QED BY <2>3, <2>4, <2>5
<1>2. ASSUME op'.pc \in {"search", "replace"} \cup Saving, op'.rec.id \in Ids
      PROVE  Current(op.rec.id, op.rec.ver)'
  <2>1. PICK x \in Ids : x = op'.rec.id
    BY <1>2
  <2>2. PICK v : v = op'.rec.ver
    OBVIOUS
  <2>3. Current(x, v)'
    BY <1>2, <2>1, <2>2
  <2> QED BY <2>1, <2>2, <2>3 DEF Current, Owed
<1>3. Saving' = Saving
  BY DEF Saving
<1> QED BY <1>1, <1>2, <1>3 DEF FreshInv

LEMMA BeginSaveFresh ==
  ASSUME Basic, LayoutInv, FreshInv, faults' = 0, NEW t \in Tasks, BeginSave(t)
  PROVE  FreshInv'
<1>1. /\ TypeOK /\ op = Idle /\ up /\ Take(t) /\ UNCHANGED <<reg, up, nvs, faults>>
  BY Running DEF Basic, Take, BeginSave, Rest
<1> DEFINE d == want[t].dev
<1>2. op.pc = "idle" /\ want[t].kind = "save" /\ faults = 0
  BY <1>1 DEF Idle, BeginSave
<1>3. op'.pc = "search" /\ op'.rec \in Pointees(d)
  BY <1>1, BeginSaveOp
<1>4. View = nvs.list /\ View' = nvs.list
  BY <1>1, <1>2, <1>3 DEF View, Deleting
<1>5. ASSUME NEW x \in Ids, NEW v, op'.rec.id = x, op'.rec.ver = v
      PROVE  Current(x, v)'
  <2>1. v = reg[x]
    BY <1>3, <1>5 DEF Pointees, Present, Gone
  <2> QED BY <1>1, <2>1 DEF Current
<1>6. ASSUME NEW i \in 1 .. Len(nvs.list), NEW x \in Ids, NEW v,
             nvs.list[i] = x, nvs.blob[i].ver = v
      PROVE  Current(x, v)' \/ AtWork(x)'
  <2>1. Current(x, v)
    BY <1>1, <1>2, <1>4, <1>6, FreshElim DEF AtWork
  <2>2. ASSUME want[t] = [kind |-> "save", dev |-> x], reg[x] # 0
        PROVE  AtWork(x)'
    <3>1. d = x /\ d \in Present
      BY <2>2 DEF Present
    <3> QED BY <1>3, <3>1 DEF Pointees, AtWork
  <2>3. \/ Current(x, v)'
        \/ want[t] = [kind |-> "save", dev |-> x] /\ reg[x] # 0
        \/ want[t] = [kind |-> "delete", dev |-> x] /\ reg[x] = 0
        \/ want[t].kind = "clear"
    BY <1>1, <2>1, TakeCurrent
  <2> QED BY <1>2, <2>2, <2>3
<1> QED BY <1>1, <1>4, <1>5, <1>6, FreshIntro

LEMMA BeginDeleteFresh ==
  ASSUME Basic, LayoutInv, FreshInv, faults' = 0, NEW t \in Tasks, BeginDelete(t)
  PROVE  FreshInv'
<1>1. /\ TypeOK /\ op = Idle /\ up /\ Take(t) /\ UNCHANGED <<reg, up, nvs>>
      /\ want[t].kind = "delete"
  BY Running DEF Basic, Take, BeginDelete, Rest
<1> DEFINE d == want[t].dev
<1>2. op.pc = "idle" /\ faults = 0
  <2>1. faults' >= faults
    BY <1>1, BeginDeleteOp
  <2>2. faults \in 0 .. MaxFaults
    BY <1>1, Typing
  <2> QED BY <1>1, <2>1, <2>2 DEF Idle
<1>3. /\ Distinct(nvs.list) /\ nvs.count = Len(nvs.list)
      /\ nvs.list \in Seq(AnyId) /\ nvs.list \in Lists /\ Len(nvs.list) \in Nat
  BY <1>1, <1>2, LayoutIdle, OpLists, Typing DEF Spaces
<1>4. View = nvs.list
  BY <1>2 DEF View, Deleting
<1>5. ASSUME NEW i \in 1 .. Len(nvs.list), NEW x \in Ids, NEW v,
             nvs.list[i] = x, nvs.blob[i].ver = v, x # d
      PROVE  Current(x, v)'
  <2>1. Current(x, v)
    BY <1>1, <1>2, <1>4, <1>5, FreshElim DEF AtWork
  <2>2. \/ Current(x, v)'
        \/ want[t] = [kind |-> "save", dev |-> x] /\ reg[x] # 0
        \/ want[t] = [kind |-> "delete", dev |-> x] /\ reg[x] = 0
        \/ want[t].kind = "clear"
    BY <1>1, <2>1, TakeCurrent
  <2> QED BY <1>1, <1>5, <2>2
<1>6. CASE UNCHANGED op
  <2>1. View' = nvs.list /\ op'.pc = "idle"
    BY <1>1, <1>2, <1>6 DEF View, Deleting
  <2>2. \A i \in 1 .. Len(nvs.list) : nvs.list[i] # d
    <3>1. CASE ~Readable(nvs)
      BY <1>1, <1>3, <3>1, ReadExact
    <3>2. CASE Readable(nvs)
      <4>1. Find(nvs.list, d) = 0
        BY <1>1, <1>3, <2>1, <3>2, BeginDeleteOp, ReadExact
      <4> QED BY <1>3, <4>1, FindProperty
    <3> QED BY <3>1, <3>2
  <2> QED BY <1>1, <1>5, <2>1, <2>2, FreshIntro DEF Saving
<1>7. CASE ~UNCHANGED op
  <2>1. PICK i \in 1 .. Len(nvs.list) :
          /\ i = Find(nvs.list, d) /\ op'.list = nvs.list /\ op'.index = i
          /\ op'.pc = (IF i < Len(nvs.list) THEN "swap" ELSE "erase")
          /\ op'.rec = [id |-> d, ver |-> 0]
    BY <1>1, <1>2, <1>3, <1>7, BeginDeleteOp, ReadExact
  <2>2. nvs.list[i] = d
    BY <1>3, <2>1, FindProperty
  <2>3. CASE i < Len(nvs.list)
    <3>1. op'.pc = "swap" /\ View' = nvs.list /\ op'.rec.id = d
      BY <1>1, <2>1, <2>3 DEF View, Deleting
    <3>2. \A x \in Ids : x # d \/ AtWork(x)'
      BY <3>1 DEF AtWork
    <3> QED BY <1>1, <1>5, <3>1, <3>2, FreshIntro DEF Saving
  <2>4. CASE ~(i < Len(nvs.list))
    <3>1. i = Len(nvs.list) /\ op'.pc = "erase"
      BY <1>3, <2>1, <2>4
    <3>2. View' = Closed(nvs.list, i)
      BY <2>1, <3>1 DEF View, Shorter, Closed, Deleting
    <3>3. Len(View') = Len(nvs.list) - 1
      BY <1>3, <3>2, ClosedProperty
    <3>4. ASSUME NEW j \in 1 .. Len(nvs.list) - 1
          PROVE  j \in 1 .. Len(nvs.list) /\ View'[j] = nvs.list[j] /\ nvs.list[j] # d
      <4>1. View'[j] = IF j = i THEN nvs.list[Len(nvs.list)] ELSE nvs.list[j]
        BY <1>3, <3>2, ClosedProperty
      <4>2. j \in 1 .. Len(nvs.list) /\ j # i
        BY <1>3, <3>1
      <4> QED BY <1>3, <2>2, <4>1, <4>2 DEF Distinct
    <3> QED BY <1>1, <1>5, <3>1, <3>3, <3>4, FreshIntro DEF Saving
  <2> QED BY <2>3, <2>4
<1> QED BY <1>6, <1>7

LEMMA ClearFresh ==
  ASSUME Basic, NEW t \in Tasks, device_persistence_clear(t)
  PROVE  FreshInv'
<1>1. op = Idle /\ UNCHANGED op /\ nvs' = EmptyNvs
  BY DEF Take, device_persistence_clear
<1>2. op'.pc = "idle"
  BY <1>1 DEF Idle
<1>3. View' = << >>
  BY <1>1, <1>2, EmptyLayout DEF View, Deleting
<1> QED BY <1>2, <1>3, EmptyLayout DEF FreshInv, Saving

LEMMA SearchFresh ==
  ASSUME Basic, LayoutInv, FreshInv, faults' = 0, Search
  PROVE  FreshInv'
<1>1. PICK list \in Lists :
        Start(op.rec.id, list) /\ faults = 0 /\ list \in SaveList
  BY SearchStart DEF Basic
<1>2. TypeOK /\ UNCHANGED <<nvs, reg, want, up>> /\ op.pc = "search" /\ up
  BY Running DEF Basic, Search
<1>3. Distinct(nvs.list) /\ nvs.count = Len(nvs.list)
  BY <1>1, <1>2, LayoutIdle
<1>4. /\ list = nvs.list /\ nvs.list \in Seq(AnyId) /\ Len(nvs.list) \in Nat
      /\ View = nvs.list
  BY <1>1, <1>2, <1>3, ReadExact, OpLists DEF View, Deleting
<1> DEFINE i == Find(nvs.list, op.rec.id)
<1>5. i \in Nat /\ (i = 0 => \A j \in 1 .. Len(nvs.list) : nvs.list[j] # op.rec.id)
  BY <1>3, <1>4, FindProperty
<1>6. ASSUME NEW j \in 1 .. Len(nvs.list), NEW x \in Ids, NEW v,
             nvs.list[j] = x, nvs.blob[j].ver = v
      PROVE  Current(x, v)' \/ x = op.rec.id
  BY <1>1, <1>2, <1>4, <1>6, FreshElim, SameCurrent DEF AtWork
<1>7. CASE op' = Idle
  <2>1. op'.pc = "idle" /\ View' = nvs.list
    BY <1>2, <1>7 DEF Idle, View, Deleting
  <2>2. i = 0
    <3>1. ASSUME i # 0 PROVE op'.pc = "replace"
      <4>1. op' = [op EXCEPT !.pc = IF i > 0 THEN "replace" ELSE "blob",
                             !.list = list, !.index = i, !.before = Stored(nvs)]
        BY <1>1, <1>4, <3>1 DEF Start
      <4>2. op \in Ops
        BY <1>2, Typing
      <4> HIDE DEF i
      <4> QED BY <1>5, <3>1, <4>1, <4>2 DEF Ops
    <3> QED BY <2>1, <3>1
  <2> QED BY <1>2, <1>5, <1>6, <2>1, <2>2, FreshIntro DEF Saving
<1>8. CASE op' # Idle
  <2>1. op'.rec = op.rec /\ op'.pc = IF i > 0 THEN "replace" ELSE "blob"
    BY <1>1, <1>2, <1>4, <1>8, StartOp
  <2>2. View' = nvs.list
    BY <1>2, <2>1 DEF View, Deleting
  <2>3. ASSUME NEW x \in Ids, NEW v, op'.rec.id = x, op'.rec.ver = v
        PROVE  Current(x, v)'
    BY <1>1, <1>2, <2>1, <2>3, FreshElim, SameCurrent
  <2> HIDE DEF i
  <2>4. \A j \in 1 .. Len(nvs.list) : nvs.list[j] # op.rec.id \/ op'.pc = "replace"
    BY <1>5, <2>1
  <2>5. ASSUME NEW j \in 1 .. Len(nvs.list), NEW x \in Ids, NEW v,
               nvs.list[j] = x, nvs.blob[j].ver = v
        PROVE  Current(x, v)' \/ AtWork(x)'
    BY <1>6, <2>1, <2>4, <2>5 DEF AtWork
  <2> QED BY <1>2, <2>2, <2>3, <2>5, FreshIntro
<1> QED BY <1>7, <1>8

\* The writes of a save, without failures.
LEMMA SaveWrites ==
  ASSUME Basic, LayoutInv, faults' = 0
  PROVE  /\ Replace => /\ faults = 0 /\ nvs'.list = nvs.list /\ op' = Idle
                       /\ \A i \in 1 .. Len(nvs.list) :
                            nvs'.blob[i] = IF i = op.index THEN op.rec ELSE nvs.blob[i]
         /\ AppendBlob => /\ faults = 0 /\ nvs'.list = nvs.list
                          /\ \A i \in 1 .. Len(nvs.list) : nvs'.blob[i] = nvs.blob[i]
         /\ AppendList => /\ faults = 0 /\ nvs'.list = Append(nvs.list, op.rec.id)
                          /\ nvs'.blob = nvs.blob /\ op.list = nvs.list
                          /\ nvs.blob[Place] = op.rec
         /\ AppendCount => /\ faults = 0 /\ nvs'.list = nvs.list /\ nvs'.blob = nvs.blob
                           /\ op' = Idle
<1>1. /\ TypeOK /\ Fits /\ op.list \in Lists /\ Len(op.list) \in Nat /\ nvs \in Spaces
      /\ op.rec \in Record /\ nvs.blob \in [Positions -> Record \cup {Missing}]
  BY Typing, OpLists DEF Basic, Ops, Spaces
<1>2. \A i \in 1 .. Len(nvs.list) : i \in Positions
  BY <1>1, OpLists DEF Positions
<1>3. ASSUME Replace
      PROVE  /\ faults = 0 /\ nvs'.list = nvs.list /\ op' = Idle
             /\ \A i \in 1 .. Len(nvs.list) :
                  nvs'.blob[i] = IF i = op.index THEN op.rec ELSE nvs.blob[i]
  <2>1. /\ op.pc = "replace" /\ op' = Idle /\ op.index \in Positions
        /\ Write([nvs EXCEPT !.blob[op.index] = op.rec])
    BY <1>1, <1>3, Places DEF Replace, Done
  <2>2. [nvs EXCEPT !.blob[op.index] = op.rec] \in Spaces
    BY <1>1, <2>1, BlobWritten
  <2>3. faults = 0 /\ nvs' = [nvs EXCEPT !.blob[op.index] = op.rec]
    BY <1>1, <2>1, <2>2, WriteProperty
  <2>4. nvs'.list = nvs.list /\ nvs'.blob = [nvs.blob EXCEPT ![op.index] = op.rec]
    BY <1>1, <2>1, <2>3, BlobWritten
  <2> QED BY <1>1, <1>2, <2>1, <2>3, <2>4
<1>4. ASSUME AppendBlob
      PROVE  /\ faults = 0 /\ nvs'.list = nvs.list
             /\ \A i \in 1 .. Len(nvs.list) : nvs'.blob[i] = nvs.blob[i]
  <2>1. /\ op.pc = "blob" /\ Place \in Positions
        /\ Write([nvs EXCEPT !.blob[Place] = op.rec])
    BY <1>1, <1>4, Places DEF AppendBlob, Saving
  <2>2. [nvs EXCEPT !.blob[Place] = op.rec] \in Spaces
    BY <1>1, <2>1, BlobWritten
  <2>3. faults = 0 /\ nvs' = [nvs EXCEPT !.blob[Place] = op.rec]
    BY <1>1, <2>1, <2>2, WriteProperty
  <2>4. nvs'.list = nvs.list /\ nvs'.blob = [nvs.blob EXCEPT ![Place] = op.rec]
    BY <1>1, <2>1, <2>3, BlobWritten
  <2>5. nvs.list = op.list
    BY <2>1, <2>3, LayoutIdle
  <2>6. \A i \in 1 .. Len(nvs.list) : i # Place
    BY <1>1, <2>5 DEF Place
  <2> QED BY <1>1, <1>2, <2>1, <2>3, <2>4, <2>6
<1>5. ASSUME AppendList
      PROVE  /\ faults = 0 /\ nvs'.list = Append(nvs.list, op.rec.id)
             /\ nvs'.blob = nvs.blob /\ op.list = nvs.list /\ nvs.blob[Place] = op.rec
  <2>1. PICK id \in IdsAt(op.dev) :
          nvs' = [nvs EXCEPT !.list = Append(op.list, id)] /\ Follow(id)
    BY <1>1, <1>5, Typing DEF AppendList, Fail
  <2>2. faults = 0 /\ id = op.rec.id /\ op.pc = "list"
    BY <1>1, <1>5, <2>1, FollowProperty DEF AppendList
  <2>3. op.list = nvs.list /\ nvs.blob[Place] = op.rec
    BY <2>2, LayoutIdle DEF LayoutInv, AtPlace
  <2> QED BY <1>1, <2>1, <2>2, <2>3 DEF Spaces
<1>6. ASSUME AppendCount
      PROVE  faults = 0 /\ nvs'.list = nvs.list /\ nvs'.blob = nvs.blob /\ op' = Idle
  <2>1. op' = Idle /\ Write([nvs EXCEPT !.count = Place]) /\ Place \in 0 .. MaxDevices
    BY <1>1, <1>6, Places DEF AppendCount, Done, Saving, Positions
  <2>2. [nvs EXCEPT !.count = Place] \in Spaces
    BY <1>1, <2>1, CountWritten
  <2>3. faults = 0 /\ nvs' = [nvs EXCEPT !.count = Place]
    BY <1>1, <2>1, <2>2, WriteProperty
  <2> QED BY <1>1, <2>1, <2>3, CountWritten
<1> QED BY <1>3, <1>4, <1>5, <1>6

LEMMA SaveFresh ==
  ASSUME Basic, LayoutInv, FreshInv, faults' = 0,
         Replace \/ AppendBlob \/ AppendList \/ AppendCount
  PROVE  FreshInv'
<1>1. /\ TypeOK /\ Fits /\ op.list \in Lists /\ Len(op.list) \in Nat /\ up
      /\ Len(nvs.list) \in Nat /\ nvs.list \in Seq(AnyId) /\ op.rec.id \in AnyId
  BY Typing, OpLists, Running DEF Basic, Ops, Replace, AppendBlob, AppendList, AppendCount
<1>2. UNCHANGED <<want, reg, up>> /\ faults = 0
  BY WritingStep, SaveWrites DEF Writing
<1>3. op.pc \in {"replace"} \cup Saving /\ View = nvs.list
  BY DEF Replace, AppendBlob, AppendList, AppendCount, View, Saving, Deleting
<1>4. ASSUME NEW x \in Ids, NEW v, op.rec.id = x, op.rec.ver = v
      PROVE  Current(x, v)'
  <2>1. Current(x, v)
    BY <1>1, <1>2, <1>3, <1>4, FreshElim
  <2> QED BY <1>2, <2>1, SameCurrent
<1>5. ASSUME NEW i \in 1 .. Len(nvs.list), NEW x \in Ids, NEW v,
             nvs.list[i] = x, nvs.blob[i].ver = v
      PROVE  Current(x, v)' \/ (op.pc = "replace" /\ x = op.rec.id)
  <2>1. Current(x, v) \/ AtWork(x)
    BY <1>1, <1>2, <1>3, <1>5, FreshElim
  <2>2. AtWork(x) => op.pc = "replace" /\ x = op.rec.id
    BY <1>3 DEF AtWork, Saving
  <2>3. Current(x, v) => Current(x, v)'
    BY <1>2, SameCurrent
  <2> QED BY <2>1, <2>2, <2>3
<1>6. CASE Replace
  <2>1. /\ op.pc = "replace" /\ op' = Idle /\ nvs'.list = nvs.list
        /\ \A i \in 1 .. Len(nvs.list) :
             nvs'.blob[i] = IF i = op.index THEN op.rec ELSE nvs.blob[i]
    BY <1>6, SaveWrites DEF Replace
  <2>2. /\ Distinct(nvs.list) /\ nvs.list = op.list /\ op.index \in 1 .. Len(nvs.list)
        /\ nvs.list[op.index] = op.rec.id
    BY <1>1, <1>2, <2>1, LayoutIdle DEF Fits, LayoutInv, AtPlace
  <2>3. op'.pc = "idle"
    BY <2>1 DEF Idle
  <2>4. View' = nvs.list
    BY <2>1, <2>3 DEF View, Deleting
  <2>5. ASSUME NEW i \in 1 .. Len(nvs.list), NEW x \in Ids, NEW v,
               nvs.list[i] = x, nvs'.blob[i].ver = v
        PROVE  Current(x, v)'
    <3>1. CASE i = op.index
      BY <1>4, <2>1, <2>2, <2>5, <3>1
    <3>2. CASE i # op.index
      <4>1. x # op.rec.id
        BY <2>2, <2>5, <3>2 DEF Distinct
      <4> QED BY <1>5, <2>1, <2>5, <3>2, <4>1
    <3> QED BY <3>1, <3>2
  <2> QED BY <2>3, <2>4, <2>5, FreshIntro DEF Saving
<1>7. CASE AppendBlob
  <2>1. /\ op.pc = "blob" /\ nvs'.list = nvs.list
        /\ \A i \in 1 .. Len(nvs.list) : nvs'.blob[i] = nvs.blob[i]
    BY <1>7, SaveWrites DEF AppendBlob
  <2>2. Goto("list")
    BY <1>2, <1>7 DEF AppendBlob
  <2>3. op'.pc = "list" /\ op'.rec = op.rec
    BY <1>1, <2>2, GotoProperty
  <2>4. View' = nvs.list
    BY <2>1, <2>3 DEF View, Deleting
  <2>5. \A i \in 1 .. Len(nvs.list), x \in Ids : \A v :
          nvs.list[i] = x /\ nvs'.blob[i].ver = v => Current(x, v)'
    BY <1>5, <2>1
  <2> QED BY <1>4, <2>3, <2>4, <2>5, FreshIntro
<1>8. CASE AppendList
  <2>1. /\ op.pc = "list" /\ nvs'.list = Append(nvs.list, op.rec.id)
        /\ nvs'.blob = nvs.blob /\ op.list = nvs.list /\ nvs.blob[Place] = op.rec
    BY <1>8, SaveWrites DEF AppendList
  <2>2. Goto("count")
    BY <1>1, <1>2, <1>8, Typing DEF AppendList, Fail
  <2>3. op'.pc = "count" /\ op'.rec = op.rec
    BY <1>1, <2>2, GotoProperty
  <2>4. View' = Append(nvs.list, op.rec.id)
    BY <2>1, <2>3 DEF View, Deleting
  <2>5. /\ Len(View') = Len(nvs.list) + 1 /\ Place = Len(nvs.list) + 1
        /\ View'[Place] = op.rec.id
        /\ \A i \in 1 .. Len(nvs.list) : View'[i] = nvs.list[i]
    BY <1>1, <2>1, <2>4 DEF Place
  <2>6. ASSUME NEW i \in 1 .. Len(View'), NEW x \in Ids, NEW v,
               View'[i] = x, nvs'.blob[i].ver = v
        PROVE  Current(x, v)'
    <3>1. CASE i = Place
      BY <1>4, <2>1, <2>5, <2>6, <3>1
    <3>2. CASE i # Place
      <4>1. i \in 1 .. Len(nvs.list) /\ nvs.list[i] = x
        BY <1>1, <2>5, <2>6, <3>2, SMTT(60)
      <4> QED BY <1>5, <2>1, <2>6, <4>1
    <3> QED BY <3>1, <3>2
  <2> QED BY <1>4, <2>3, <2>6, FreshIntro
<1>9. CASE AppendCount
  <2>1. op.pc = "count" /\ nvs'.list = nvs.list /\ nvs'.blob = nvs.blob /\ op' = Idle
    BY <1>9, SaveWrites DEF AppendCount
  <2>2. op'.pc = "idle"
    BY <2>1 DEF Idle
  <2>3. View' = nvs.list
    BY <2>1, <2>2 DEF View, Deleting
  <2>4. \A i \in 1 .. Len(nvs.list), x \in Ids : \A v :
          nvs.list[i] = x /\ nvs'.blob[i].ver = v => Current(x, v)'
    BY <1>5, <2>1
  <2> QED BY <2>2, <2>3, <2>4, FreshIntro DEF Saving
<1> QED BY <1>6, <1>7, <1>8, <1>9

\* The writes of a deletion, without failures.
LEMMA DeleteWrites ==
  ASSUME Basic, LayoutInv, faults' = 0, Swap \/ Erase \/ Shrink \/ Lower
  PROVE  /\ faults = 0
         /\ View' = Closed(op.list, op.index)
         /\ Len(View') = Len(op.list) - 1
         /\ op'.pc \in Deleting \cup {"idle"}
         /\ \A i \in 1 .. Len(op.list) - 1 :
              nvs'.blob[i] = IF op.pc = "swap" /\ i = op.index
                             THEN nvs.blob[Len(op.list)] ELSE nvs.blob[i]
<1>1. /\ TypeOK /\ Fits /\ op.list \in Lists /\ Len(op.list) \in Nat /\ nvs \in Spaces
      /\ nvs.blob \in [Positions -> Record \cup {Missing}]
  BY Typing, OpLists DEF Basic, Ops, Spaces
<1>2. op.index \in 1 .. Len(op.list) /\ op.index \in Positions /\ Len(op.list) \in Positions
  BY <1>1, Places DEF Fits, Swap, Erase, Shrink, Lower, Deleting
<1>3. Len(Closed(op.list, op.index)) = Len(op.list) - 1 /\ Closed(op.list, op.index) \in Lists
  BY <1>1, <1>2, ClosedProperty
<1>4. \A i \in 1 .. Len(op.list) - 1 : i \in Positions /\ i # Len(op.list)
  BY <1>1, <1>2 DEF Positions
<1>5. Shorter = Closed(op.list, op.index)
  BY DEF Shorter, Closed
<1>6. CASE Swap
  <2>1. /\ op.pc = "swap" /\ Goto("erase")
        /\ Write([nvs EXCEPT !.blob[op.index] = nvs.blob[Len(op.list)]])
    BY <1>6 DEF Swap
  <2>2. [nvs EXCEPT !.blob[op.index] = nvs.blob[Len(op.list)]] \in Spaces
    BY <1>1, <1>2, BlobWritten
  <2>3. faults = 0 /\ nvs' = [nvs EXCEPT !.blob[op.index] = nvs.blob[Len(op.list)]]
    BY <1>1, <2>1, <2>2, WriteProperty
  <2>4. nvs'.blob = [nvs.blob EXCEPT ![op.index] = nvs.blob[Len(op.list)]]
    BY <1>1, <1>2, <2>3, BlobWritten
  <2>5. op'.pc = "erase" /\ op'.list = op.list /\ op'.index = op.index
    BY <1>1, <2>1, GotoProperty
  <2>6. View' = Closed(op.list, op.index)
    BY <2>5 DEF View, Shorter, Closed, Deleting
  <2> QED BY <1>1, <1>2, <1>3, <1>4, <2>1, <2>3, <2>4, <2>5, <2>6 DEF Deleting
<1>7. CASE Erase
  <2>1. /\ op.pc = "erase" /\ Goto("shrink") /\ faults = 0
        /\ nvs' = [nvs EXCEPT !.blob[Len(op.list)] = Missing]
    BY <1>7 DEF Erase
  <2>2. nvs'.blob = [nvs.blob EXCEPT ![Len(op.list)] = Missing]
    BY <1>1, <1>2, <2>1, BlobWritten
  <2>3. op'.pc = "shrink" /\ op'.list = op.list /\ op'.index = op.index
    BY <1>1, <2>1, GotoProperty
  <2>4. View' = Closed(op.list, op.index)
    BY <2>3 DEF View, Shorter, Closed, Deleting
  <2> QED BY <1>1, <1>2, <1>3, <1>4, <2>1, <2>2, <2>3, <2>4 DEF Deleting
<1>8. CASE Shrink
  <2>1. op.pc = "shrink" /\ Goto("lower") /\ Write([nvs EXCEPT !.list = Shorter])
    BY <1>8 DEF Shrink
  <2>2. faults = 0 /\ nvs'.blob = nvs.blob
    BY <1>1, <1>3, <1>5, <2>1, WriteProperty, ListWritten
  <2>3. op'.pc = "lower" /\ op'.list = op.list /\ op'.index = op.index
    BY <1>1, <2>1, GotoProperty
  <2>4. View' = Closed(op.list, op.index)
    BY <2>3 DEF View, Shorter, Closed, Deleting
  <2> QED BY <1>3, <2>1, <2>2, <2>3, <2>4 DEF Deleting
<1>9. CASE Lower
  <2>1. /\ op.pc = "lower" /\ op' = Idle /\ Write([nvs EXCEPT !.count = Len(op.list) - 1])
        /\ Len(op.list) - 1 \in 0 .. MaxDevices
    BY <1>2, <1>9 DEF Lower, Done, Positions
  <2>2. faults = 0 /\ nvs'.list = nvs.list /\ nvs'.blob = nvs.blob
    BY <1>1, <2>1, WriteProperty, CountWritten
  <2>3. nvs.list = Closed(op.list, op.index)
    BY <1>5, <2>1, <2>2 DEF LayoutInv, InStep
  <2>4. op'.pc = "idle"
    BY <2>1 DEF Idle
  <2>5. View' = Closed(op.list, op.index)
    BY <2>2, <2>3, <2>4 DEF View, Deleting
  <2> QED BY <1>3, <2>1, <2>2, <2>4, <2>5
<1> QED BY <1>6, <1>7, <1>8, <1>9

LEMMA DeleteFresh ==
  ASSUME Basic, LayoutInv, FreshInv, faults' = 0, Swap \/ Erase \/ Shrink \/ Lower
  PROVE  FreshInv'
<1>1. /\ TypeOK /\ Fits /\ op.list \in Lists /\ Len(op.list) \in Nat /\ up
      /\ UNCHANGED <<want, reg, up>>
  BY Typing, OpLists, Running, WritingStep
  DEF Basic, Ops, Swap, Erase, Shrink, Lower, Writing
<1>2. op.index \in 1 .. Len(op.list)
  BY <1>1 DEF Fits, Swap, Erase, Shrink, Lower, Deleting
<1>3. /\ faults = 0 /\ View' = Closed(op.list, op.index)
      /\ Len(View') = Len(op.list) - 1 /\ op'.pc \in Deleting \cup {"idle"}
  BY DeleteWrites
<1>4. CASE Swap
  <2>1. /\ op.pc = "swap" /\ View = op.list /\ Distinct(op.list)
        /\ op.list[op.index] = op.rec.id
    BY <1>3, <1>4, LayoutIdle DEF Swap, View, Deleting, LayoutInv, AtPlace
  <2>2. ASSUME NEW i \in 1 .. Len(View'), NEW x \in Ids, NEW v,
               View'[i] = x, nvs'.blob[i].ver = v
        PROVE  Current(x, v)'
    <3>1. PICK j \in 1 .. Len(op.list) : j = IF i = op.index THEN Len(op.list) ELSE i
      BY <1>1, <1>2, <1>3
    <3>2. i \in 1 .. Len(op.list) - 1 /\ j # op.index
      BY <1>1, <1>2, <1>3, <3>1
    <3>3. View'[i] = op.list[j]
      BY <1>1, <1>2, <1>3, <3>1, <3>2, ClosedProperty, ZenonT(60)
    <3>4. nvs'.blob[i] = nvs.blob[j]
      BY <2>1, <3>1, <3>2, DeleteWrites
    <3>5. x # op.rec.id
      BY <1>2, <2>1, <2>2, <3>2, <3>3 DEF Distinct
    <3>6. Current(x, v)
      BY <1>1, <1>3, <2>1, <2>2, <3>3, <3>4, <3>5, FreshElim DEF AtWork
    <3> QED BY <1>1, <3>6, SameCurrent
  <2> QED BY <1>3, <2>2, FreshIntro DEF Saving, Deleting
<1>5. CASE Erase \/ Shrink \/ Lower
  <2>1. op.pc \in Deleting /\ View = Closed(op.list, op.index)
    BY <1>5 DEF Erase, Shrink, Lower, View, Shorter, Closed, Deleting
  <2>2. ASSUME NEW i \in 1 .. Len(View'), NEW x \in Ids, NEW v,
               View'[i] = x, nvs'.blob[i].ver = v
        PROVE  Current(x, v)'
    <3>1. nvs'.blob[i] = nvs.blob[i] /\ View[i] = x
      BY <1>3, <2>1, <2>2, DeleteWrites DEF Deleting
    <3>2. Current(x, v)
      BY <1>1, <1>3, <2>1, <2>2, <3>1, FreshElim DEF AtWork, Deleting
    <3> QED BY <1>1, <3>2, SameCurrent
  <2> QED BY <1>3, <2>2, FreshIntro DEF Saving, Deleting
<1> QED BY <1>4, <1>5

LEMMA LoadFresh ==
  ASSUME Basic, LayoutInv, faults' = 0, load_all
  PROVE  FreshInv'
<1>1. /\ TypeOK /\ op = Idle /\ UNCHANGED op /\ faults = 0 /\ nvs' \in {nvs, EmptyNvs}
      /\ \/ nvs.count = 0
         \/ nvs' = EmptyNvs
         \/ Readable(nvs) /\ \E list \in ReadList(nvs) : reg' = Loaded(nvs, list)
  BY LoadStep DEF Basic
<1>2. op.pc = "idle" /\ op'.pc = "idle"
  BY <1>1 DEF Idle
<1>3. Distinct(nvs.list) /\ Matches(nvs.list) /\ nvs.count = Len(nvs.list)
  BY <1>1, <1>2, LayoutIdle
<1>4. View' = nvs'.list
  BY <1>2 DEF View, Deleting
<1>5. CASE nvs' = EmptyNvs
  BY <1>2, <1>4, <1>5, EmptyLayout, FreshIntro DEF Saving
<1>6. CASE nvs' = nvs /\ nvs.count = 0
  BY <1>2, <1>3, <1>4, <1>6, FreshIntro DEF Saving
<1>7. CASE nvs' = nvs /\ reg' = Loaded(nvs, nvs.list)
  <2>1. ASSUME NEW i \in 1 .. Len(View'), NEW x \in Ids, NEW v,
               View'[i] = x, nvs'.blob[i].ver = v
        PROVE  Current(x, v)'
    <3>1. reg'[x] = v
      <4>1. nvs \in Spaces /\ nvs.list \in Lists
        BY <1>1, Typing DEF Spaces
      <4>2. Fitting(nvs, nvs.list)
        BY <1>3 DEF Fitting, Matches
      <4> QED BY <1>3, <1>4, <1>7, <2>1, <4>1, <4>2, LoadedExact
    <3> QED BY <3>1 DEF Current
  <2> QED BY <1>2, <2>1, FreshIntro DEF Saving
<1> QED BY <1>1, <1>3, <1>5, <1>6, <1>7, ReadExact

LEMMA FreshStep ==
  ASSUME Basic, LayoutInv, FreshInv, [Next]_vars
  PROVE  FreshInv'
<1> SUFFICES ASSUME up', faults' = 0 PROVE FreshInv'
  BY DEF FreshInv
<1>1. ASSUME NEW t \in Tasks, Reset(t) \/ \E e \in Ids : Update(t, e) \/ Leave(t, e)
      PROVE  FreshInv'
  <2>1. UNCHANGED <<nvs, op, up, faults>> /\ up
    BY <1>1 DEF Reset, Update, Leave, Call
  <2>2. View' = View
    BY <2>1 DEF View, Shorter
  <2>3. \A x \in Ids : AtWork(x)' = AtWork(x)
    BY <2>1 DEF AtWork
  <2>4. ASSUME NEW x \in Ids, NEW v, Current(x, v)
        PROVE  Current(x, v)'
    BY <1>1, <2>4, CallerCurrent
  <2> QED BY <2>1, <2>2, <2>3, <2>4, FreshElim, FreshIntro
<1>2. CASE Crash
  BY <1>2 DEF Crash
<1>3. CASE UNCHANGED vars
  BY <1>3, SMTT(60) DEF vars, FreshInv, View, Shorter, Current, Owed, AtWork
<1> QED BY <1>1, <1>2, <1>3, BeginSaveFresh, BeginDeleteFresh, ClearFresh, SearchFresh,
          SaveFresh, DeleteFresh, LoadFresh DEF Next, Operation

-------------------------------------------------------------------------------
(***************************************************************************)
(* Nothing that was not saved.                                             *)
(***************************************************************************)
\* What an operation of the store writes into a blob.
LEMMA BlobsWritten ==
  ASSUME Basic, Writing, NEW i \in Positions
  PROVE  \/ nvs'.blob[i] = Missing
         \/ \E j \in Positions : nvs'.blob[i] = nvs.blob[j]
         \/ op.pc \in {"replace", "blob"} /\ nvs'.blob[i] = op.rec
<1>1. /\ TypeOK /\ Fits /\ nvs \in Spaces /\ op.rec \in Record
      /\ nvs.blob \in [Positions -> Record \cup {Missing}]
  BY Typing, OpLists DEF Basic, Spaces
<1>2. CASE nvs'.blob = nvs.blob
  BY <1>2
<1>3. ASSUME NEW k \in Positions, NEW b, nvs'.blob = [nvs.blob EXCEPT ![k] = b]
      PROVE  nvs'.blob[i] \in {nvs.blob[i], b}
  BY <1>1, <1>3
<1>4. CASE Replace
  <2>1. /\ op.pc = "replace" /\ op.index \in Positions
        /\ Write([nvs EXCEPT !.blob[op.index] = op.rec])
    BY <1>1, <1>4, Places DEF Replace
  <2>2. nvs' = nvs \/ nvs'.blob = [nvs.blob EXCEPT ![op.index] = op.rec]
    <3>1. nvs' = nvs \/ nvs' = [nvs EXCEPT !.blob[op.index] = op.rec]
      BY <2>1 DEF Write
    <3>2. [nvs EXCEPT !.blob[op.index] = op.rec].blob = [nvs.blob EXCEPT ![op.index] = op.rec]
      BY <1>1 DEF Spaces
    <3> QED BY <3>1, <3>2
  <2> QED BY <1>2, <1>3, <2>1, <2>2
<1>5. CASE AppendBlob
  <2>1. /\ op.pc = "blob" /\ Place \in Positions
        /\ Write([nvs EXCEPT !.blob[Place] = op.rec])
    BY <1>1, <1>5, Places DEF AppendBlob, Saving
  <2>2. nvs' = nvs \/ nvs'.blob = [nvs.blob EXCEPT ![Place] = op.rec]
    <3>1. nvs' = nvs \/ nvs' = [nvs EXCEPT !.blob[Place] = op.rec]
      BY <2>1 DEF Write
    <3>2. [nvs EXCEPT !.blob[Place] = op.rec].blob = [nvs.blob EXCEPT ![Place] = op.rec]
      BY <1>1 DEF Spaces
    <3> QED BY <3>1, <3>2
  <2> QED BY <1>2, <1>3, <2>1, <2>2
<1>6. CASE AppendList
  <2>1. op.pc = "list" /\ Place \in Positions
    BY <1>1, <1>6, Places DEF AppendList, Saving
  <2>2. nvs'.blob = nvs.blob \/ nvs' = [nvs EXCEPT !.blob[Place] = Missing]
    BY <1>1, <1>6 DEF AppendList, Spaces
  <2>3. nvs'.blob = nvs.blob \/ nvs'.blob = [nvs.blob EXCEPT ![Place] = Missing]
    <3>1. [nvs EXCEPT !.blob[Place] = Missing].blob = [nvs.blob EXCEPT ![Place] = Missing]
      BY <1>1 DEF Spaces
    <3> QED BY <2>2, <3>1
  <2> QED BY <1>2, <1>3, <2>1, <2>3
<1>7. CASE AppendCount
  BY <1>1, <1>2, <1>7 DEF AppendCount, Write, Spaces
<1>8. CASE Swap
  <2>1. /\ op.pc = "swap" /\ op.index \in Positions /\ Len(op.list) \in Positions
        /\ Write([nvs EXCEPT !.blob[op.index] = nvs.blob[Len(op.list)]])
    BY <1>1, <1>8, Places DEF Swap
  <2>2. nvs' = nvs \/ nvs'.blob = [nvs.blob EXCEPT ![op.index] = nvs.blob[Len(op.list)]]
    <3>1. nvs' = nvs \/ nvs' = [nvs EXCEPT !.blob[op.index] = nvs.blob[Len(op.list)]]
      BY <2>1 DEF Write
    <3>2. [nvs EXCEPT !.blob[op.index] = nvs.blob[Len(op.list)]].blob = [nvs.blob EXCEPT ![op.index] = nvs.blob[Len(op.list)]]
      BY <1>1 DEF Spaces
    <3> QED BY <3>1, <3>2
  <2> QED BY <1>2, <1>3, <2>1, <2>2
<1>9. CASE Erase
  <2>1. /\ op.pc = "erase" /\ Len(op.list) \in Positions
        /\ nvs' = [nvs EXCEPT !.blob[Len(op.list)] = Missing]
    BY <1>1, <1>9, Places DEF Erase, Deleting
  <2>2. nvs'.blob = [nvs.blob EXCEPT ![Len(op.list)] = Missing]
    BY <1>1, <2>1, BlobWritten
  <2> QED BY <1>3, <2>1, <2>2
<1>10. CASE Shrink
  BY <1>1, <1>2, <1>10 DEF Shrink, Write, Spaces
<1>11. CASE Lower
  BY <1>1, <1>2, <1>11 DEF Lower, Write, Spaces
<1> QED BY <1>4, <1>5, <1>6, <1>7, <1>8, <1>9, <1>10, <1>11 DEF Writing

\* A start, or a look at flash, finds only what was saved.
LEMMA StoredSaved ==
  ASSUME TypeOK, SavedInv, NEW d \in Ids
  PROVE  Stored(nvs)[d] \in {0} \cup ever[d]
<1>1. CASE Readable(nvs)
  <2>1. nvs \in Spaces /\ Lacking(nvs) \in Lists
    BY <1>1, Typing, LackingRead, ReadType
  <2>2. Len(Lacking(nvs)) \in Nat /\ Len(Lacking(nvs)) <= MaxDevices
    BY <2>1, ListSeq, LenProperties
  <2>3. ASSUME NEW i \in 1 .. Len(Lacking(nvs)), nvs.blob[i] # Missing, nvs.blob[i].id = d
        PROVE  nvs.blob[i].ver \in ever[d]
    BY <2>2, <2>3 DEF SavedInv, Positions
  <2>4. Stored(nvs)[d] = Loaded(nvs, Lacking(nvs))[d]
    BY <1>1 DEF Stored
  <2> QED BY <2>1, <2>3, <2>4, LoadedProperty
<1>2. CASE ~Readable(nvs)
  BY <1>2 DEF Stored, NoDevice
<1> QED BY <1>1, <1>2

LEMMA SavedStep ==
  ASSUME Basic, SavedInv, [Next]_vars
  PROVE  SavedInv'
<1>1. TypeOK /\ ever \in [Ids -> SUBSET Versions]
  BY Typing DEF Basic
<1>2. CASE UNCHANGED <<nvs, ever, op>>
  BY <1>2 DEF SavedInv, Begun, Saving
<1>3. CASE \E t \in Tasks : Reset(t) \/ \E d \in Ids : Update(t, d) \/ Leave(t, d)
  BY <1>2, <1>3 DEF Reset, Update, Leave, Call
<1>4. CASE nvs' \in {nvs, EmptyNvs} /\ UNCHANGED ever /\ op'.pc = "idle"
  BY <1>4 DEF SavedInv, EmptyNvs, Begun, Saving
<1>5. ASSUME NEW t \in Tasks, BeginSave(t) PROVE SavedInv'
  <2>1. op'.pc = "search" /\ op'.rec \in Pointees(want[t].dev) /\ UNCHANGED <<nvs, ever>>
    BY <1>1, <1>5, BeginSaveOp DEF BeginSave, Rest
  <2>2. op'.rec.id \in Ids => op'.rec.ver # 0
    BY <2>1 DEF Pointees, Present, Gone
  <2> QED BY <2>1, <2>2 DEF SavedInv, Begun, Saving
<1>6. ASSUME NEW t \in Tasks, BeginDelete(t), ~UNCHANGED op PROVE SavedInv'
  <2>1. UNCHANGED <<nvs, ever>>
    BY <1>6 DEF BeginDelete, Rest
  <2>2. op'.pc \in {"swap", "erase"} /\ op'.before = Stored(nvs)
    BY <1>1, <1>6, BeginDeleteOp
  <2> QED BY <1>1, <2>1, <2>2, StoredSaved DEF SavedInv, Begun, Saving
<1>7. CASE \E t \in Tasks : device_persistence_clear(t)
  <2>1. op = Idle /\ UNCHANGED <<op, ever>> /\ nvs' = EmptyNvs
    BY <1>7 DEF device_persistence_clear, Take, Rest
  <2> QED BY <1>4, <2>1 DEF Idle
<1>8. CASE Search
  <2>1. PICK id \in IdsAt(op.dev), list \in Lists : Start(id, list)
    BY <1>1, <1>8, SearchStart
  <2>2. UNCHANGED nvs /\ op.pc = "search"
    BY <1>8 DEF Search
  <2>3. CASE op' = Idle /\ UNCHANGED ever
    BY <1>4, <2>2, <2>3 DEF Idle
  <2>4. CASE ~(op' = Idle /\ UNCHANGED ever)
    <3>1. /\ op'.rec = op.rec /\ op'.pc \in {"replace", "blob"} /\ op'.before = Stored(nvs)
          /\ ever' = [d \in Ids |-> IF d = op.rec.id THEN ever[d] \cup {op.rec.ver}
                                    ELSE ever[d]]
      BY <1>1, <2>1, <2>4, StartOp
    <3>2. \A d \in Ids : ever[d] \subseteq ever'[d] /\ 0 \notin ever'[d]
      BY <2>2, <3>1 DEF SavedInv
    <3>3. op'.rec.id \in Ids => op'.rec.ver \in ever'[op'.rec.id]
      BY <3>1
    <3>4. \A d \in Ids : op'.before[d] \in {0} \cup ever'[d]
      BY <1>1, <3>1, <3>2, StoredSaved
    <3> QED BY <2>2, <3>1, <3>2, <3>3, <3>4 DEF SavedInv
  <2> QED BY <2>3, <2>4
<1>9. CASE Writing
  <2>1. UNCHANGED ever
    BY <1>9, WritingStep
  <2>2. ASSUME NEW i \in Positions, nvs'.blob[i] # Missing, nvs'.blob[i].id \in Ids
        PROVE  nvs'.blob[i].ver \in ever[nvs'.blob[i].id]
    <3>1. CASE \E j \in Positions : nvs'.blob[i] = nvs.blob[j]
      BY <2>2, <3>1 DEF SavedInv
    <3>2. CASE op.pc \in {"replace", "blob"} /\ nvs'.blob[i] = op.rec
      BY <2>2, <3>2 DEF SavedInv, Saving
    <3> QED BY <1>9, <2>2, <3>1, <3>2, BlobsWritten
  <2>3. CASE op' = Idle
    BY <2>1, <2>2, <2>3 DEF SavedInv, Idle, Begun, Saving
  <2>4. CASE op' # Idle
    <3>1. op'.rec = op.rec /\ op'.before = op.before /\ op'.pc # "search"
          /\ op'.pc # "replace"
      BY <1>9, <2>4, WritingStep
    <3>2. op'.pc \in Saving => op.pc \in Saving
      BY <1>9, <2>4, WritingStep DEF Saving
    <3>3. Begun
      BY <1>9 DEF Writing, Replace, AppendBlob, AppendList, AppendCount, Swap, Erase,
                  Shrink, Lower, Begun
    <3> QED BY <2>1, <2>2, <3>1, <3>2, <3>3 DEF SavedInv
  <2> QED BY <2>3, <2>4
<1>10. CASE Crash
  <2>1. UNCHANGED <<nvs, ever>> /\ op' = Idle
    BY <1>10 DEF Crash, Done
  <2> QED BY <1>4, <2>1 DEF Idle
<1>11. CASE load_all
  <2>1. op = Idle /\ UNCHANGED <<op, ever>> /\ nvs' \in {nvs, EmptyNvs}
    BY <1>11, LoadStep DEF load_all
  <2> QED BY <1>4, <2>1 DEF Idle
<1>12. ASSUME NEW t \in Tasks, BeginDelete(t), UNCHANGED op PROVE SavedInv'
  BY <1>2, <1>12 DEF BeginDelete, Rest
<1>13. CASE UNCHANGED vars
  BY <1>2, <1>13 DEF vars
<1> QED BY <1>3, <1>5, <1>6, <1>7, <1>8, <1>9, <1>10, <1>11, <1>12, <1>13
    DEF Next, Operation, Writing

-------------------------------------------------------------------------------
(***************************************************************************)
(* What operations make of what was on flash.                              *)
(***************************************************************************)
LEMMA ClosedLoaded ==
  ASSUME NEW n \in Spaces, NEW m \in Spaces, NEW list \in Lists,
         NEW index \in 1 .. Len(list), Distinct(list), Fitting(n, list),
         \A i \in 1 .. Len(list) - 1 :
           m.blob[i] = IF i = index THEN n.blob[Len(list)] ELSE n.blob[i]
  PROVE  Loaded(m, Closed(list, index)) =
           [d \in Ids |-> IF d = list[index] THEN 0 ELSE Loaded(n, list)[d]]
<1> DEFINE short == Closed(list, index)
<1>1. list \in Seq(AnyId) /\ Len(list) \in Nat /\ Len(list) \in 1 .. Len(list)
  BY ListSeq, LenProperties
<1>2. short \in Lists /\ Len(short) = Len(list) - 1 /\ Distinct(short)
  BY ClosedProperty, ClosedDistinct
<1>3. \A i \in 1 .. Len(list) - 1 :
        short[i] = IF i = index THEN list[Len(list)] ELSE list[i]
  BY ClosedProperty
<1> HIDE DEF short
<1>4. \A i \in 1 .. Len(list) - 1 : i \in 1 .. Len(list) /\ i # Len(list)
  BY <1>1
<1>5. Fitting(m, short)
  <2> SUFFICES ASSUME NEW i \in 1 .. Len(list) - 1
               PROVE  m.blob[i] # Missing /\ m.blob[i].id = short[i]
    BY <1>2 DEF Fitting
  <2> QED BY <1>1, <1>3, <1>4 DEF Fitting
<1>6. ASSUME NEW d \in Ids
      PROVE  Loaded(m, short)[d] = IF d = list[index] THEN 0 ELSE Loaded(n, list)[d]
  <2>1. CASE d = list[index]
    <3>1. \A i \in 1 .. Len(short) : short[i] # d
      BY <1>1, <1>2, <1>3, <1>4, <2>1, SMTT(60) DEF Distinct
    <3> QED BY <1>2, <1>5, <2>1, <3>1, LoadedExact
  <2>2. CASE \E i \in 1 .. Len(list) : list[i] = d /\ i # index
    <3>1. PICK i \in 1 .. Len(list) : list[i] = d /\ i # index
      BY <2>2
    <3>2. Loaded(n, list)[d] = n.blob[i].ver /\ d # list[index]
      BY <3>1, LoadedExact, SMTT(60) DEF Distinct
    <3>3. PICK j \in 1 .. Len(list) - 1 : j = IF i = Len(list) THEN index ELSE i
      BY <1>1, <3>1
    <3>4. short[j] = d /\ m.blob[j] = n.blob[i] /\ j \in 1 .. Len(short)
      BY <1>1, <1>2, <1>3, <3>1, <3>3
    <3>5. Loaded(m, short)[d] = m.blob[j].ver
      BY <1>2, <1>5, <3>4, LoadedExact, SMTT(60)
    <3> QED BY <3>2, <3>4, <3>5
  <2>3. CASE \A i \in 1 .. Len(list) : list[i] # d
    <3>1. \A i \in 1 .. Len(short) : short[i] # d
      BY <1>1, <1>2, <1>3, <1>4, <2>3
    <3>2. Loaded(m, short)[d] = 0 /\ Loaded(n, list)[d] = 0
      BY <1>2, <1>5, <2>3, <3>1, LoadedExact
    <3> QED BY <3>2
  <2> QED BY <2>1, <2>2, <2>3
<1>7. Loaded(m, short) = [d \in Ids |-> Loaded(m, short)[d]]
  BY DEF Loaded
<1> QED BY <1>6, <1>7 DEF short

LEMMA EffectedStep ==
  ASSUME Basic, LayoutInv, Effected, [Next]_vars
  PROVE  Effected'
<1> SUFFICES ASSUME faults' = 0 PROVE Effected'
  BY DEF Effected
<1>1. TypeOK /\ nvs \in Spaces /\ nvs.list \in Lists /\ op.list \in Lists
      /\ Len(op.list) \in Nat /\ Len(nvs.list) \in Nat
  BY Typing, OpLists DEF Basic, Spaces, Ops
<1>2. CASE UNCHANGED <<nvs, op, faults>>
  BY <1>2 DEF Effected, View, Shorter, Loaded
<1>3. CASE op'.pc \in {"idle", "search"}
  BY <1>3 DEF Effected, Saving, Deleting
<1>4. CASE op' = Idle
  BY <1>3, <1>4 DEF Idle
<1>5. CASE \E t \in Tasks : Reset(t) \/ \E d \in Ids : Update(t, d) \/ Leave(t, d)
  BY <1>2, <1>5 DEF Reset, Update, Leave, Call
<1>6. ASSUME NEW t \in Tasks, BeginSave(t) PROVE Effected'
  BY <1>1, <1>3, <1>6, BeginSaveOp
<1>7. ASSUME NEW t \in Tasks, device_persistence_clear(t) PROVE Effected'
  BY <1>4, <1>7 DEF device_persistence_clear, Take
<1>8. ASSUME op.pc \in {"idle", "search"}, faults = 0
      PROVE  /\ Stored(nvs) = Loaded(nvs, nvs.list) /\ nvs.count = Len(nvs.list)
             /\ Distinct(nvs.list) /\ Fitting(nvs, nvs.list)
  <2>1. nvs.count = Len(nvs.list) /\ Distinct(nvs.list) /\ Matches(nvs.list)
    BY <1>8, LayoutIdle
  <2> QED BY <1>1, <2>1, StoredExact DEF Matches, Fitting
<1>9. ASSUME NEW t \in Tasks, BeginDelete(t) PROVE Effected'
  <2>1. op = Idle /\ UNCHANGED nvs
    BY <1>9 DEF BeginDelete, Take
  <2>2. op.pc = "idle"
    BY <2>1 DEF Idle
  <2>3. faults = 0
    <3>1. faults' >= faults /\ faults \in 0 .. MaxFaults
      BY <1>1, <1>9, BeginDeleteOp, Typing
    <3> QED BY <3>1
  <2>4. CASE UNCHANGED op
    BY <1>3, <2>2, <2>4
  <2>5. CASE ~UNCHANGED op
    <3>0. PICK list \in ReadList(nvs) :
            /\ Readable(nvs) /\ Find(list, want[t].dev) \in 1 .. Len(list)
            /\ op'.list = list /\ op'.index = Find(list, want[t].dev)
            /\ op'.pc = (IF Find(list, want[t].dev) < Len(list) THEN "swap" ELSE "erase")
            /\ op'.rec = [id |-> want[t].dev, ver |-> 0] /\ op'.before = Stored(nvs)
      BY <1>1, <1>9, <2>5, BeginDeleteOp
    <3>1. PICK i \in 1 .. Len(list) :
            /\ Readable(nvs) /\ i = Find(list, want[t].dev) /\ op'.list = list
            /\ op'.index = i /\ op'.pc = (IF i < Len(list) THEN "swap" ELSE "erase")
            /\ op'.rec = [id |-> want[t].dev, ver |-> 0] /\ op'.before = Stored(nvs)
      BY <3>0
    <3>2. list = nvs.list
      BY <1>1, <1>8, <2>2, <2>3, <3>1, ReadExact
    <3>3. list[i] = want[t].dev
      BY <1>1, <3>1, <3>2, OpLists, FindProperty
    <3>4. CASE i < Len(list)
      <4>1. op'.pc = "swap"
        BY <3>1, <3>4
      <4>2. Loaded(nvs', op'.list) = Stored(nvs)
        BY <1>8, <2>1, <2>2, <2>3, <3>1, <3>2
      <4> QED BY <3>1, <4>1, <4>2 DEF Effected, Deleting, Loaded
    <3>5. CASE ~(i < Len(list))
      <4>1. op'.pc = "erase" /\ i = Len(list)
        BY <1>1, <3>1, <3>2, <3>5
      <4>2. View' = Closed(list, i)
        BY <3>1, <4>1 DEF View, Shorter, Closed, Deleting
      <4>3. Loaded(nvs, Closed(list, i)) =
              [d \in Ids |-> IF d = list[i] THEN 0 ELSE Loaded(nvs, list)[d]]
        <5>1. \A j \in 1 .. Len(list) - 1 :
                nvs.blob[j] = IF j = i THEN nvs.blob[Len(list)] ELSE nvs.blob[j]
          BY <4>1
        <5>2. Distinct(list) /\ Fitting(nvs, list) /\ list \in Lists
          BY <1>1, <1>8, <2>2, <2>3, <3>2
        <5> QED BY <1>1, <3>1, <5>1, <5>2, ClosedLoaded, SMTT(60)
      <4>4. op'.before = Loaded(nvs, list) /\ op'.rec.id = list[i]
        BY <1>8, <2>2, <2>3, <3>1, <3>2, <3>3
      <4>5. Loaded(nvs', View') =
              [d \in Ids |-> IF d = op'.rec.id THEN 0 ELSE op'.before[d]]
        BY <2>1, <4>2, <4>3, <4>4
      <4> QED BY <4>1, <4>5 DEF Effected, Saving, Deleting, Loaded
    <3> QED BY <3>4, <3>5
  <2> QED BY <2>4, <2>5
<1>10. CASE Search
  <2>1. PICK list \in Lists :
          Start(op.rec.id, list) /\ faults = 0 /\ list \in SaveList
    BY <1>1, <1>10, SearchStart
  <2>2. op.pc = "search" /\ UNCHANGED nvs
    BY <1>10 DEF Search
  <2>3. list = nvs.list
    BY <1>1, <1>8, <2>1, <2>2, ReadExact
  <2>4. CASE op' # Idle
    <3>1. /\ op'.list = nvs.list /\ op'.before = Stored(nvs)
          /\ op'.pc \in {"replace", "blob"}
      BY <1>1, <2>1, <2>3, <2>4, StartOp
    <3>2. Loaded(nvs', op'.list) = op'.before
      BY <1>8, <2>1, <2>2, <3>1
    <3> QED BY <3>1, <3>2 DEF Effected, Deleting, Loaded
  <2> QED BY <1>4, <2>4
<1>11. CASE Replace \/ AppendCount
  BY <1>4, <1>11 DEF Replace, AppendCount, Done
<1>12. CASE AppendBlob \/ AppendList
  <2>1. /\ faults = 0 /\ op.pc \in {"blob", "list"} /\ nvs.list = op.list
        /\ \A i \in 1 .. Len(op.list) : nvs'.blob[i] = nvs.blob[i]
    <3>1. faults = 0 /\ op.pc \in {"blob", "list"}
      BY <1>12, SaveWrites, SMTT(60) DEF AppendBlob, AppendList
    <3>2. nvs.list = op.list
      BY <3>1, LayoutIdle
    <3> QED BY <1>12, <3>1, <3>2, SaveWrites
  <2>2. CASE op' # Idle
    <3>1. /\ op'.list = op.list /\ op'.before = op.before /\ op'.pc \in {"list", "count"}
      BY <1>12, <2>1, <2>2, WritingStep DEF Writing
    <3>2. Loaded(nvs', op.list) = Loaded(nvs, op.list)
      BY <1>1, <2>1, LoadedSame
    <3>3. op.before = Loaded(nvs, op.list)
      BY <2>1 DEF Effected, Saving
    <3> QED BY <3>1, <3>2, <3>3 DEF Effected, Deleting, Loaded
  <2> QED BY <1>4, <2>2
<1>13. CASE Swap
  <2>1. /\ op.pc = "swap" /\ op.index \in 1 .. Len(op.list) /\ nvs' \in Spaces
        /\ Goto("erase")
    BY <1>13, WritingStep DEF Swap, Basic, Fits, Writing
  <2>2. /\ faults = 0 /\ View' = Closed(op.list, op.index)
        /\ \A i \in 1 .. Len(op.list) - 1 :
             nvs'.blob[i] = IF i = op.index THEN nvs.blob[Len(op.list)] ELSE nvs.blob[i]
    BY <1>13, <2>1, DeleteWrites
  <2>3. /\ Distinct(op.list) /\ Fitting(nvs, op.list) /\ op.list[op.index] = op.rec.id
        /\ op.before = Loaded(nvs, op.list)
    <3>1. Distinct(nvs.list) /\ Matches(nvs.list) /\ nvs.list = op.list
      BY <2>1, <2>2, LayoutIdle
    <3>2. op.list[op.index] = op.rec.id /\ op.before = Loaded(nvs, op.list)
      BY <2>1, <2>2 DEF LayoutInv, AtPlace, Effected
    <3> QED BY <3>1, <3>2 DEF Matches, Fitting
  <2>4. Loaded(nvs', Closed(op.list, op.index)) =
          [d \in Ids |-> IF d = op.list[op.index] THEN 0 ELSE Loaded(nvs, op.list)[d]]
    <3>1. \A i \in 1 .. Len(op.list) - 1 :
            nvs'.blob[i] = IF i = op.index THEN nvs.blob[Len(op.list)] ELSE nvs.blob[i]
      BY <2>2
    <3>2. nvs \in Spaces /\ nvs' \in Spaces /\ op.list \in Lists
          /\ op.index \in 1 .. Len(op.list) /\ Distinct(op.list) /\ Fitting(nvs, op.list)
      BY <1>1, <2>1, <2>3
    <3> QED BY <3>1, <3>2, ClosedLoaded, SMTT(120)
  <2>5. op'.pc = "erase" /\ op'.rec = op.rec /\ op'.before = op.before
    BY <1>1, <2>1, GotoProperty
  <2>6. Loaded(nvs', View') =
          [d \in Ids |-> IF d = op'.rec.id THEN 0 ELSE op'.before[d]]
    BY <2>2, <2>3, <2>4, <2>5
  <2> QED BY <2>5, <2>6 DEF Effected, Saving, Deleting, Loaded
<1>14. CASE Erase \/ Shrink
  <2>1. op.pc \in {"erase", "shrink"} /\ op.index \in 1 .. Len(op.list)
    BY <1>14 DEF Erase, Shrink, Basic, Fits, Deleting
  <2>2. /\ faults = 0 /\ View' = Closed(op.list, op.index)
        /\ \A i \in 1 .. Len(op.list) - 1 : nvs'.blob[i] = nvs.blob[i]
    BY <1>14, <2>1, DeleteWrites
  <2>3. View' = View
    BY <2>1, <2>2 DEF View, Shorter, Closed, Deleting
  <2>4. Closed(op.list, op.index) \in Lists
        /\ Len(Closed(op.list, op.index)) = Len(op.list) - 1
    BY <1>1, <2>1, ClosedProperty
  <2>5. Loaded(nvs', Closed(op.list, op.index)) = Loaded(nvs, Closed(op.list, op.index))
    BY <2>2, <2>4, LoadedSame
  <2>6. op'.pc \in {"shrink", "lower"} /\ op'.rec = op.rec /\ op'.before = op.before
    BY <1>1, <1>14, GotoProperty DEF Erase, Shrink
  <2>7. Loaded(nvs, View) = [d \in Ids |-> IF d = op.rec.id THEN 0 ELSE op.before[d]]
    BY <2>1, <2>2 DEF Effected, Deleting
  <2>8. Loaded(nvs', View') =
          [d \in Ids |-> IF d = op'.rec.id THEN 0 ELSE op'.before[d]]
    BY <2>2, <2>3, <2>5, <2>6, <2>7
  <2> QED BY <2>6, <2>8 DEF Effected, Saving, Deleting, Loaded
<1>15. CASE Lower \/ Crash
  BY <1>4, <1>15 DEF Lower, Crash, Done
<1>16. CASE load_all
  BY <1>4, <1>16, LoadStep
<1>17. CASE UNCHANGED vars
  BY <1>2, <1>17 DEF vars
<1> QED BY <1>5, <1>6, <1>7, <1>9, <1>10, <1>11, <1>12, <1>13, <1>14, <1>15, <1>16, <1>17
    DEF Next, Operation

-------------------------------------------------------------------------------
(***************************************************************************)
(* The inductive invariant, and what follows from it.                      *)
(***************************************************************************)
LEMMA InitStore == Init => StoreInv
<1> SUFFICES ASSUME Init PROVE StoreInv
  OBVIOUS
<1>1. TypeOK
  <2>1. want \in [Tasks -> Calls] /\ nvs \in Spaces /\ op \in Ops
        /\ reg \in [Ids -> Versions]
    BY Values DEF Init
  <2>2. ever \in [Ids -> SUBSET Versions] /\ changes \in Versions
        /\ crashes \in 0 .. MaxCrashes /\ faults \in 0 .. MaxFaults /\ up \in BOOLEAN
    BY DEF Init, Versions
  <2> QED BY <2>1, <2>2 DEF TypeOK, Calls, Spaces, Ops
<1>2. op.pc = "idle" /\ nvs = EmptyNvs /\ nvs.list = << >> /\ Len(nvs.list) = 0
      /\ Len(nvs.list) = nvs.count
  BY EmptyLayout DEF Init, Idle
<1>3. Fits /\ Restarting
  BY <1>2 DEF Init, Fits, Restarting, Saving, Deleting
<1>4. LayoutInv
  BY <1>2, IdleLayout DEF Distinct, Matches
<1>5. FreshInv
  BY <1>2 DEF FreshInv, View, Saving, Deleting
<1>6. SavedInv
  <2>1. \A i \in Positions : nvs.blob[i] = Missing
    BY <1>2 DEF EmptyNvs
  <2>2. \A d \in Ids : ever[d] = {}
    BY DEF Init
  <2> QED BY <1>2, <2>1, <2>2 DEF SavedInv, Begun, Saving
<1>7. Effected
  BY <1>2 DEF Effected, Saving, Deleting
<1> QED BY <1>1, <1>3, <1>4, <1>5, <1>6, <1>7 DEF StoreInv

LEMMA StoreStep == StoreInv /\ [Next]_vars => StoreInv'
<1> SUFFICES ASSUME StoreInv, [Next]_vars PROVE StoreInv'
  OBVIOUS
<1>1. Basic /\ LayoutInv /\ FreshInv /\ SavedInv /\ Effected
  BY DEF StoreInv, Basic
<1>2. Basic' /\ LayoutInv' /\ FreshInv' /\ SavedInv' /\ Effected'
  BY <1>1, BasicStep, LayoutStep, FreshStep, SavedStep, EffectedStep
<1> QED BY <1>2 DEF StoreInv, Basic

(***************************************************************************)
(* The inductive invariant of the store holds in every reachable state.    *)
(***************************************************************************)
THEOREM Invariance == Spec => []StoreInv
<1>1. Init => StoreInv
  BY InitStore
<1>2. StoreInv /\ [Next]_vars => StoreInv'
  BY StoreStep
<1> QED BY <1>1, <1>2, PTL DEF Spec

(***************************************************************************)
(* Type correctness: no operation of device_persistence.c writes a key     *)
(* beyond the table, or a count larger than it.                            *)
(***************************************************************************)
THEOREM TypeCorrect == Spec => []TypeOK
<1>1. StoreInv => TypeOK
  BY DEF StoreInv
<1> QED BY <1>1, Invariance, PTL

(***************************************************************************)
(* Between operations, as long as nothing failed, the list, the count and  *)
(* the blobs on flash agree: load_all() reads what was saved.              *)
(***************************************************************************)
THEOREM LayoutIsKept == Spec => []LayoutHolds
<1>1. StoreInv => LayoutHolds
  <2> SUFFICES ASSUME StoreInv, faults = 0, op = Idle PROVE Consistent(nvs)
    BY DEF LayoutHolds
  <2>1. op.pc = "idle" /\ LayoutInv
    BY DEF StoreInv, Idle
  <2>2. Distinct(nvs.list) /\ Matches(nvs.list) /\ nvs.count = Len(nvs.list)
    BY <2>1, LayoutIdle
  <2> QED BY <2>2 DEF Consistent, Distinct, Matches
<1> QED BY <1>1, Invariance, PTL

(***************************************************************************)
(* When no task calls the store, and as long as nothing failed, flash      *)
(* holds no device that was removed and no record that was replaced,       *)
(* however the calls of the tasks and the restarts fell.                   *)
(***************************************************************************)
THEOREM NothingIsStale == Spec => []NothingStale
<1>1. StoreInv => NothingStale
  <2> SUFFICES ASSUME StoreInv, Quiet, faults = 0, NEW d \in Ids, Stored(nvs)[d] # 0
               PROVE  Stored(nvs)[d] = reg[d]
    BY DEF NothingStale
  <2>1. /\ TypeOK /\ LayoutInv /\ FreshInv /\ up /\ nvs \in Spaces
        /\ op.pc = "idle" /\ \A t \in Tasks : want[t] = NoCall
    BY Typing DEF StoreInv, Quiet, Idle
  <2>2. nvs.count = Len(nvs.list)
    BY <2>1, LayoutIdle
  <2>3. Readable(nvs)
    BY DEF Stored, NoDevice
  <2>4. Lacking(nvs) = nvs.list /\ nvs.list \in Lists
    BY <2>1, <2>2, <2>3, LackingRead, ReadExact DEF Spaces
  <2>5. Stored(nvs)[d] = Loaded(nvs, nvs.list)[d]
    BY <2>3, <2>4 DEF Stored
  <2>6. PICK i \in 1 .. Len(nvs.list) :
          nvs.list[i] = d /\ Stored(nvs)[d] = nvs.blob[i].ver
    BY <2>1, <2>4, <2>5, LoadedProperty
  <2>7. View = nvs.list
    BY <2>1 DEF View, Deleting
  <2>8. Current(d, Stored(nvs)[d])
    BY <2>1, <2>6, <2>7 DEF FreshInv, AtWork
  <2>9. ~Owed(d)
    BY <2>1 DEF Owed, NoCall
  <2> QED BY <2>8, <2>9 DEF Current
<1> QED BY <1>1, Invariance, PTL

-------------------------------------------------------------------------------
(***************************************************************************)
(* The store implements StoreMap.                                          *)
(***************************************************************************)
Saved   == IF Begun THEN op.before ELSE Stored(nvs)
Pending == [kind |-> Kind, id |-> IF Begun THEN op.rec.id ELSE NoId,
            ver |-> IF Begun THEN op.rec.ver ELSE 0]
NoOperation == [kind |-> "none", id |-> NoId, ver |-> 0]

\* The steps of the map, in terms of the store.
LEMMA MapStutter ==
  ASSUME Saved' = Saved, UNCHANGED ever, Pending' = Pending, faults' = 0, faults = 0
  PROVE  [Map!Next]_(Map!vars)
BY DEF Map!vars, Saved, Pending

LEMMA MapTrouble ==
  ASSUME \A d \in Ids : Saved'[d] \in {0} \cup ever[d],
         Pending' \in {Pending, NoOperation}, faults' # 0, UNCHANGED ever
  PROVE  Map!Next
<1>1. Map!Trouble
  BY DEF Map!Trouble, Map!None, Saved, Pending, NoOperation
<1> QED BY <1>1 DEF Map!Next

LEMMA MapBegin ==
  ASSUME Pending = NoOperation, Pending' \in [kind : {"save", "delete"}, id : AnyId, ver : Versions],
         ever' = [d \in Ids |-> IF Pending'.kind = "save" /\ Pending'.id = d
                               THEN ever[d] \cup {Pending'.ver} ELSE ever[d]],
         Saved' = Saved, faults' = 0 => faults = 0
  PROVE  Map!Next
<1>1. PICK p : p = Pending'
  OBVIOUS
<1>2. (faults' = 0) \in {faults = 0, FALSE}
  <2>1. CASE faults' = 0
    BY <2>1
  <2>2. CASE faults' # 0
    BY <2>2
  <2> QED BY <2>1, <2>2
<1>3. Map!Begin(p)
  BY <1>1, <1>2 DEF Map!Begin, Map!None, Saved, Pending, NoOperation
<1>4. p \in [kind : {"save", "delete"}, id : Ids \cup {NoId}, ver : Versions]
  BY <1>1 DEF AnyId
<1> QED BY <1>3, <1>4 DEF Map!Next

LEMMA MapComplete ==
  ASSUME Saved' = (CASE Pending.kind = "save" /\ Pending.id \in Ids
                          -> [Saved EXCEPT ![Pending.id] = Pending.ver]
                     [] Pending.kind = "delete" -> [Saved EXCEPT ![Pending.id] = 0]
                     [] OTHER -> Saved),
         Pending' = NoOperation, UNCHANGED ever, faults' = 0, faults = 0
  PROVE  Map!Next
<1>1. Map!Complete
  BY DEF Map!Complete, Map!Effect, Map!None, Saved, Pending, NoOperation
<1> QED BY <1>1 DEF Map!Next

LEMMA MapClear ==
  ASSUME Pending = NoOperation, Pending' = NoOperation, Saved' = NoDevice,
         UNCHANGED ever, UNCHANGED faults
  PROVE  Map!Next
<1>1. Map!Clear
  BY DEF Map!Clear, Map!Nothing, Map!None, Saved, Pending, NoOperation, NoDevice
<1> QED BY <1>1 DEF Map!Next

LEMMA MapCut ==
  ASSUME Saved' = Saved, Pending' = NoOperation, UNCHANGED ever, faults' = 0, faults = 0,
         \/ Pending.kind = "none"
         \/ Pending.kind = "save" /\ (Pending.id \in Ids => Saved[Pending.id] # 0)
  PROVE  Map!Next
<1>1. Map!Cut
  BY DEF Map!Cut, Map!Effect, Map!None, Saved, Pending, NoOperation
<1> QED BY <1>1 DEF Map!Next

LEMMA SavedKept ==
  StoreInv => \A d \in Ids : Saved[d] \in {0} \cup ever[d]
BY StoredSaved DEF StoreInv, SavedInv, Saved

LEMMA LayoutFacts ==
  StoreInv /\ faults = 0 /\ op.pc \in {"idle", "search", "replace", "blob", "list", "swap"} =>
    /\ nvs \in Spaces /\ nvs.list \in Lists /\ Distinct(nvs.list) /\ Fitting(nvs, nvs.list)
    /\ nvs.count = Len(nvs.list) /\ Stored(nvs) = Loaded(nvs, nvs.list)
    /\ op.pc \in {"blob", "list", "replace", "swap"} => nvs.list = op.list
<1> SUFFICES ASSUME StoreInv, faults = 0,
                    op.pc \in {"idle", "search", "replace", "blob", "list", "swap"}
             PROVE  /\ nvs \in Spaces /\ nvs.list \in Lists /\ Distinct(nvs.list)
                    /\ Fitting(nvs, nvs.list)
                    /\ nvs.count = Len(nvs.list) /\ Stored(nvs) = Loaded(nvs, nvs.list)
                    /\ op.pc \in {"blob", "list", "replace", "swap"} => nvs.list = op.list
  OBVIOUS
<1>1. TypeOK /\ LayoutInv /\ nvs \in Spaces /\ nvs.list \in Lists
  BY Typing DEF StoreInv, Spaces
<1>2. /\ Distinct(nvs.list) /\ Matches(nvs.list) /\ nvs.count = Len(nvs.list)
      /\ op.pc \in {"blob", "list", "replace", "swap"} => nvs.list = op.list
  BY <1>1, LayoutIdle
<1> QED BY <1>1, <1>2, StoredExact DEF Matches, Fitting

\* Flash after the last write of each operation, if nothing failed.
LEMMA ReplaceStored ==
  ASSUME StoreInv, StoreInv', faults' = 0, Replace
  PROVE  Stored(nvs') = [d \in Ids |-> IF d = op.rec.id THEN op.rec.ver ELSE op.before[d]]
<1>1. /\ Basic /\ LayoutInv /\ op' = Idle /\ faults = 0 /\ op.pc = "replace"
      /\ nvs'.list = nvs.list
      /\ \A i \in 1 .. Len(nvs.list) :
           nvs'.blob[i] = IF i = op.index THEN op.rec ELSE nvs.blob[i]
  BY SaveWrites DEF StoreInv, Basic, Replace
<1>2. op'.pc = "idle"
  BY <1>1 DEF Idle
<1>3. /\ nvs' \in Spaces /\ nvs'.list \in Lists /\ Distinct(nvs'.list)
      /\ Fitting(nvs', nvs'.list) /\ Stored(nvs') = Loaded(nvs', nvs'.list)
  <2>1. (StoreInv /\ faults = 0 /\ op.pc \in {"idle", "search", "replace", "blob", "list", "swap"})'
    BY <1>2
  <2>2. (/\ nvs \in Spaces /\ nvs.list \in Lists /\ Distinct(nvs.list) /\ Fitting(nvs, nvs.list)
         /\ nvs.count = Len(nvs.list) /\ Stored(nvs) = Loaded(nvs, nvs.list)
         /\ op.pc \in {"blob", "list", "replace", "swap"} => nvs.list = op.list)'
    BY <2>1, LayoutFacts, PTL
  <2> QED BY <2>2 DEF Spaces, Lists, Distinct, Fitting, Stored, Loaded
<1>4. /\ nvs \in Spaces /\ nvs.list \in Lists /\ Distinct(nvs.list)
      /\ Fitting(nvs, nvs.list) /\ nvs.list = op.list
  BY <1>1, LayoutFacts
<1>5. /\ op.index \in 1 .. Len(nvs.list) /\ nvs.list[op.index] = op.rec.id
      /\ op.before = Loaded(nvs, nvs.list)
  BY <1>1, <1>4 DEF Basic, Fits, LayoutInv, AtPlace, StoreInv, Effected
<1>6. ASSUME NEW d \in Ids
      PROVE  Loaded(nvs', nvs.list)[d] = IF d = op.rec.id THEN op.rec.ver ELSE op.before[d]
  <2>1. CASE d = op.rec.id
    BY <1>1, <1>3, <1>5, <2>1, LoadedExact, SMTT(60)
  <2>2. CASE d # op.rec.id /\ \E i \in 1 .. Len(nvs.list) : nvs.list[i] = d
    <3>1. PICK i \in 1 .. Len(nvs.list) : nvs.list[i] = d
      BY <2>2
    <3>2. i # op.index
      BY <1>5, <2>2, <3>1
    <3>3. Loaded(nvs', nvs.list)[d] = nvs'.blob[i].ver
      BY <1>1, <1>3, <3>1, LoadedExact
    <3>4. Loaded(nvs, nvs.list)[d] = nvs.blob[i].ver
      BY <1>4, <3>1, LoadedExact
    <3> QED BY <1>1, <1>5, <2>2, <3>2, <3>3, <3>4
  <2>3. CASE \A i \in 1 .. Len(nvs.list) : nvs.list[i] # d
    <3>1. Loaded(nvs', nvs.list)[d] = 0
      BY <1>1, <1>3, <2>3, LoadedExact
    <3>2. Loaded(nvs, nvs.list)[d] = 0
      BY <1>4, <2>3, LoadedExact
    <3> QED BY <1>5, <2>3, <3>1, <3>2
  <2> QED BY <2>1, <2>2, <2>3
<1>7. Loaded(nvs', nvs.list) = [d \in Ids |-> Loaded(nvs', nvs.list)[d]]
  BY DEF Loaded
<1> QED BY <1>1, <1>3, <1>6, <1>7

LEMMA AppendStored ==
  ASSUME StoreInv, StoreInv', faults' = 0, AppendCount
  PROVE  Stored(nvs') = [d \in Ids |-> IF d = op.rec.id THEN op.rec.ver ELSE op.before[d]]
<1>1. /\ Basic /\ LayoutInv /\ op' = Idle /\ faults = 0 /\ op.pc = "count"
      /\ nvs'.list = nvs.list /\ nvs'.blob = nvs.blob
  BY SaveWrites DEF StoreInv, Basic, AppendCount
<1>2. op'.pc = "idle"
  BY <1>1 DEF Idle
<1>3. /\ nvs' \in Spaces /\ nvs'.list \in Lists /\ Distinct(nvs'.list)
      /\ Fitting(nvs', nvs'.list) /\ Stored(nvs') = Loaded(nvs', nvs'.list)
  <2>1. (StoreInv /\ faults = 0 /\ op.pc \in {"idle", "search", "replace", "blob", "list", "swap"})'
    BY <1>2
  <2>2. (/\ nvs \in Spaces /\ nvs.list \in Lists /\ Distinct(nvs.list) /\ Fitting(nvs, nvs.list)
         /\ nvs.count = Len(nvs.list) /\ Stored(nvs) = Loaded(nvs, nvs.list)
         /\ op.pc \in {"blob", "list", "replace", "swap"} => nvs.list = op.list)'
    BY <2>1, LayoutFacts, PTL
  <2> QED BY <2>2 DEF Spaces, Lists, Distinct, Fitting, Stored, Loaded
<1>4. /\ nvs.list = Append(op.list, op.rec.id) /\ nvs.blob[Place] = op.rec
      /\ op.before = Loaded(nvs, op.list)
  BY <1>1 DEF LayoutInv, InStep, AtPlace, StoreInv, Effected, Saving
<1>5. /\ op.list \in Lists /\ nvs \in Spaces /\ Len(op.list) \in Nat
      /\ Place \in 1 .. Len(nvs.list) /\ nvs.list[Place] = op.rec.id
      /\ \A i \in 1 .. Len(op.list) : i \in 1 .. Len(nvs.list) /\ nvs.list[i] = op.list[i]
      /\ \A i \in 1 .. Len(nvs.list) : i # Place => i \in 1 .. Len(op.list)
  BY <1>1, <1>4, Typing, OpLists DEF Basic, Place, Ops
<1>6. Distinct(op.list) /\ Fitting(nvs, op.list)
  BY <1>1, <1>3, <1>5, SMTT(60) DEF Distinct, Fitting
<1>7. /\ nvs' \in Spaces /\ nvs.list \in Lists /\ Distinct(nvs.list)
      /\ Fitting(nvs', nvs.list)
  BY <1>1, <1>3
<1>8. ASSUME NEW d \in Ids
      PROVE  Loaded(nvs', nvs.list)[d] = IF d = op.rec.id THEN op.rec.ver ELSE op.before[d]
  <2>1. CASE d = op.rec.id
    <3>1. Loaded(nvs', nvs.list)[d] = nvs'.blob[Place].ver
      BY <1>5, <1>7, <2>1, LoadedExact
    <3> QED BY <1>1, <1>4, <2>1, <3>1
  <2>2. CASE d # op.rec.id /\ \E i \in 1 .. Len(op.list) : op.list[i] = d
    <3>1. PICK i \in 1 .. Len(op.list) : op.list[i] = d
      BY <2>2
    <3>2. Loaded(nvs', nvs.list)[d] = nvs'.blob[i].ver
      BY <1>1, <1>5, <1>7, <3>1, LoadedExact, SMTT(60)
    <3>3. Loaded(nvs, op.list)[d] = nvs.blob[i].ver
      BY <1>5, <1>6, <3>1, LoadedExact
    <3> QED BY <1>1, <1>4, <2>2, <3>2, <3>3
  <2>3. CASE d # op.rec.id /\ \A i \in 1 .. Len(op.list) : op.list[i] # d
    <3>1. \A i \in 1 .. Len(nvs.list) : nvs.list[i] # d
      BY <1>5, <2>3
    <3>2. Loaded(nvs', nvs.list)[d] = 0
      BY <1>1, <1>3, <3>1, LoadedExact
    <3>3. Loaded(nvs, op.list)[d] = 0
      BY <1>5, <1>6, <2>3, LoadedExact, SMTT(60)
    <3> QED BY <1>4, <2>3, <3>2, <3>3
  <2> QED BY <2>1, <2>2, <2>3
<1>9. Loaded(nvs', nvs.list) = [d \in Ids |-> Loaded(nvs', nvs.list)[d]]
  BY DEF Loaded
<1> QED BY <1>1, <1>3, <1>8, <1>9

LEMMA LowerStored ==
  ASSUME StoreInv, StoreInv', faults' = 0, Lower
  PROVE  Stored(nvs') = [d \in Ids |-> IF d = op.rec.id THEN 0 ELSE op.before[d]]
<1>1. /\ TypeOK /\ Fits /\ LayoutInv /\ op.pc = "lower" /\ op' = Idle
      /\ Write([nvs EXCEPT !.count = Len(op.list) - 1])
      /\ Len(op.list) \in Nat /\ op.list \in Lists /\ op.index \in 1 .. Len(op.list)
  BY Typing, OpLists DEF StoreInv, Lower, Done, Fits, Deleting, Ops
<1>2. Len(op.list) - 1 \in 0 .. MaxDevices
  BY <1>1, OpLists
<1>3. faults = 0 /\ nvs' = [nvs EXCEPT !.count = Len(op.list) - 1] /\ nvs' \in Spaces
  BY <1>1, <1>2, CountWritten, WriteProperty
<1>4. nvs'.list = nvs.list /\ nvs'.count = Len(op.list) - 1 /\ nvs'.blob = nvs.blob
  BY <1>1, <1>2, <1>3, CountWritten
<1>5. nvs.list = Closed(op.list, op.index) /\ View = nvs.list
  BY <1>1, <1>3 DEF LayoutInv, InStep, View, Shorter, Closed, Deleting
<1>6. nvs'.count = Len(nvs'.list) /\ nvs.list \in Lists
  BY <1>1, <1>4, <1>5, ClosedProperty, SMTT(60)
<1>7. Stored(nvs') = Loaded(nvs', nvs'.list)
  BY <1>3, <1>6, StoredExact
<1>8. Loaded(nvs', nvs.list) = Loaded(nvs, nvs.list)
  BY <1>4, <1>6, LoadedSame
<1> QED BY <1>1, <1>3, <1>4, <1>5, <1>7, <1>8 DEF StoreInv, Effected, Deleting

\* A step in trouble is one of the map in trouble.
LEMMA Refines ==
  ASSUME StoreInv', UNCHANGED ever, Pending' \in {Pending, NoOperation},
         faults' = 0 => [Map!Next]_(Map!vars)
  PROVE  [Map!Next]_(Map!vars)
<1>1. (\A d \in Ids : Saved[d] \in {0} \cup ever[d])'
  BY SavedKept, PTL
<1>2. CASE faults' # 0
  BY <1>1, <1>2, MapTrouble
<1> QED BY <1>2

LEMMA IdleMap ==
  op.pc \in {"idle", "search"} => Saved = Stored(nvs) /\ Pending = NoOperation
BY DEF Saved, Pending, NoOperation, Begun, Kind

LEMMA IdleMapNext ==
  op'.pc \in {"idle", "search"} => Saved' = Stored(nvs') /\ Pending' = NoOperation
BY DEF Saved, Pending, NoOperation, Begun, Kind, Stored

LEMMA OperationTypes ==
  StoreInv => /\ TypeOK /\ Basic /\ Saved \in [Ids -> Versions] /\ op.before \in [Ids -> Versions]
              /\ op.rec.id \in AnyId /\ op.rec.ver \in Versions
<1> SUFFICES ASSUME StoreInv
             PROVE  /\ TypeOK /\ Basic /\ Saved \in [Ids -> Versions]
                    /\ op.before \in [Ids -> Versions]
                    /\ op.rec.id \in AnyId /\ op.rec.ver \in Versions
  OBVIOUS
<1>1. TypeOK /\ Basic
  BY DEF StoreInv, Basic
<1>2. op.before \in [Ids -> Versions] /\ Stored(nvs) \in [Ids -> Versions]
  BY <1>1, Typing, StoredType DEF Ops
<1>3. op.rec.id \in AnyId /\ op.rec.ver \in Versions
  BY <1>1, OpLists DEF Record
<1> QED BY <1>1, <1>2, <1>3 DEF Saved

\* What an operation whose record or deletion is on flash has completed.
LEMMA WritingRefines ==
  ASSUME StoreInv, StoreInv', Writing
  PROVE  [Map!Next]_(Map!vars)
<1>1. /\ TypeOK /\ Basic /\ op.before \in [Ids -> Versions] /\ UNCHANGED ever
      /\ op.rec.id \in AnyId /\ op.rec.ver \in Versions
  BY OperationTypes, WritingStep
<1>2. Begun /\ op.pc \in {"replace", "blob", "list", "count", "swap", "erase", "shrink", "lower"}
  BY DEF Writing, Replace, AppendBlob, AppendList, AppendCount, Swap, Erase, Shrink,
         Lower, Begun
<1>3. Saved = op.before /\ Pending = [kind |-> Kind, id |-> op.rec.id, ver |-> op.rec.ver]
  BY <1>2 DEF Saved, Pending
<1>4. Kind = IF op.pc \in {"replace", "blob", "list", "count"} THEN "save" ELSE "delete"
  BY <1>2 DEF Kind
<1>5. CASE op' # Idle
  <2>1. /\ op'.rec = op.rec /\ op'.before = op.before
        /\ op'.pc = CASE op.pc = "blob" -> "list" [] op.pc = "list" -> "count"
                      [] op.pc = "swap" -> "erase" [] op.pc = "erase" -> "shrink"
                      [] op.pc = "shrink" -> "lower" [] OTHER -> "idle"
    BY <1>1, <1>5, WritingStep
  <2>2. op.pc \notin {"replace", "count", "lower"}
    BY <1>1, <1>5 DEF Writing, Replace, AppendBlob, AppendList, AppendCount, Swap, Erase,
                      Shrink, Lower, Done
  <2>3. Begun' /\ Kind' = Kind
    BY <1>2, <2>1, <2>2 DEF Begun, Kind
  <2>4. Saved' = Saved /\ Pending' = Pending
    BY <1>3, <2>1, <2>3 DEF Saved, Pending
  <2>5. faults' = 0 => faults = 0
    BY <1>1, SaveWrites, DeleteWrites DEF Writing, StoreInv
  <2> QED BY <1>1, <2>4, <2>5, MapStutter, Refines
<1>6. CASE op' = Idle
  <2>1. op'.pc = "idle"
    BY <1>6 DEF Idle
  <2>2. Saved' = Stored(nvs') /\ Pending' = NoOperation
    BY <2>1, IdleMapNext
  <2>3. ASSUME faults' = 0 PROVE faults = 0 /\ (Replace \/ AppendCount \/ Lower)
    <3>1. faults = 0
      BY <1>1, <2>3, SaveWrites, DeleteWrites DEF Writing, StoreInv
    <3>2. CASE AppendBlob
      <4>1. Goto("list")
        BY <2>3, <3>1, <3>2 DEF AppendBlob
      <4> QED BY <1>1, <2>1, <4>1, GotoProperty
    <3>3. CASE AppendList
      <4>1. Goto("count")
        BY <1>1, <2>3, <3>1, <3>3, Typing DEF AppendList, Fail
      <4> QED BY <1>1, <2>1, <4>1, GotoProperty
    <3>4. CASE Swap \/ Erase \/ Shrink
      BY <1>1, <2>1, <3>4, GotoProperty DEF Swap, Erase, Shrink
    <3> QED BY <3>1, <3>2, <3>3, <3>4 DEF Writing
  <2>4. ASSUME faults' = 0, Replace \/ AppendCount PROVE Map!Next
    <3>1. Saved' = [d \in Ids |-> IF d = op.rec.id THEN op.rec.ver ELSE op.before[d]]
      BY <2>2, <2>4, ReplaceStored, AppendStored
    <3>2. Kind = "save"
      BY <1>4, <2>4 DEF Replace, AppendCount
    <3>3. CASE op.rec.id \in Ids
      <4>1. Saved' = [Saved EXCEPT ![op.rec.id] = op.rec.ver]
        BY <1>1, <1>3, <3>1, <3>3
      <4> QED BY <1>1, <1>3, <2>2, <2>3, <2>4, <3>2, <3>3, <4>1, MapComplete
    <3>4. CASE op.rec.id \notin Ids
      <4>1. Saved' = Saved
        BY <1>1, <1>3, <3>1, <3>4
      <4> QED BY <1>1, <1>3, <2>2, <2>3, <2>4, <3>2, <3>4, <4>1, MapComplete
    <3> QED BY <3>3, <3>4
  <2>5. ASSUME faults' = 0, Lower PROVE Map!Next
    <3>1. Saved' = [d \in Ids |-> IF d = op.rec.id THEN 0 ELSE op.before[d]]
      BY <2>2, <2>5, LowerStored
    <3>2. Kind = "delete"
      BY <1>4, <2>5 DEF Lower
    <3>3. Saved' = [Saved EXCEPT ![op.rec.id] = 0]
      BY <1>1, <1>3, <3>1
    <3> QED BY <1>1, <1>3, <2>2, <2>3, <2>5, <3>2, <3>3, MapComplete
  <2> QED BY <1>1, <2>2, <2>3, <2>4, <2>5, Refines
<1> QED BY <1>5, <1>6

LEMMA BeginRefines ==
  ASSUME StoreInv, StoreInv', NEW t \in Tasks,
         BeginSave(t) \/ BeginDelete(t) \/ device_persistence_clear(t)
  PROVE  [Map!Next]_(Map!vars)
<1>1. /\ TypeOK /\ op = Idle /\ UNCHANGED ever
      /\ ever \in [Ids -> SUBSET Versions]
  BY OperationTypes, Typing DEF BeginSave, BeginDelete, device_persistence_clear, Take, Rest
<1>2. op.pc = "idle"
  BY <1>1 DEF Idle
<1>3. Saved = Stored(nvs) /\ Pending = NoOperation
  BY <1>2, IdleMap
<1>4. ASSUME op'.pc \in {"idle", "search"}, UNCHANGED nvs, faults' = 0 => faults = 0
      PROVE  [Map!Next]_(Map!vars)
  <2>1. Saved' = Saved /\ Pending' = Pending
    BY <1>3, <1>4, IdleMapNext
  <2> QED BY <1>1, <1>4, <2>1, MapStutter, Refines
<1>5. CASE BeginSave(t)
  BY <1>1, <1>4, <1>5, BeginSaveOp DEF BeginSave
<1>6. CASE BeginDelete(t)
  <2>1. UNCHANGED nvs /\ (faults' = 0 => faults = 0)
    <3>1. faults' >= faults /\ faults \in 0 .. MaxFaults
      BY <1>1, <1>6, BeginDeleteOp, Typing
    <3> QED BY <1>6, <3>1 DEF BeginDelete
  <2>2. CASE UNCHANGED op
    BY <1>2, <1>4, <2>1, <2>2
  <2>3. CASE ~UNCHANGED op
    <3>1. /\ op'.pc \in {"swap", "erase"} /\ op'.before = Stored(nvs)
          /\ op'.rec = [id |-> want[t].dev, ver |-> 0]
      BY <1>1, <1>6, <2>3, BeginDeleteOp
    <3>2. Saved' = Saved /\ Pending' = [kind |-> "delete", id |-> want[t].dev, ver |-> 0]
      BY <1>3, <3>1 DEF Saved, Pending, Begun, Kind
    <3>3. want[t].dev \in AnyId /\ 0 \in Versions
      BY <1>1, Typing, Values DEF Calls
    <3>4. Pending' \in [kind : {"save", "delete"}, id : AnyId, ver : Versions]
      BY <3>2, <3>3
    <3>5. ever' = [d \in Ids |-> IF Pending'.kind = "save" /\ Pending'.id = d
                                THEN ever[d] \cup {Pending'.ver} ELSE ever[d]]
      BY <1>1, <3>2
    <3> QED BY <1>3, <2>1, <3>2, <3>4, <3>5, MapBegin
  <2> QED BY <2>2, <2>3
<1>7. CASE device_persistence_clear(t)
  <2>1. nvs' = EmptyNvs /\ UNCHANGED <<op, faults>>
    BY <1>7 DEF device_persistence_clear
  <2>2. Stored(nvs') = NoDevice
    BY <2>1 DEF Stored, Readable, EmptyNvs
  <2>3. Saved' = NoDevice /\ Pending' = NoOperation
    BY <1>2, <2>1, <2>2, IdleMapNext
  <2> QED BY <1>1, <1>3, <2>1, <2>3, MapClear
<1> QED BY <1>5, <1>6, <1>7

LEMMA SearchRefines ==
  ASSUME StoreInv, StoreInv', Search
  PROVE  [Map!Next]_(Map!vars)
<1>1. PICK id \in IdsAt(op.dev), list \in Lists :
        Start(id, list) /\ (faults' = 0 => faults = 0)
  BY OperationTypes, SearchStart
<1>2. /\ TypeOK /\ op.pc = "search" /\ UNCHANGED nvs
      /\ op.rec.id \in AnyId /\ op.rec.ver \in Versions
  BY OperationTypes DEF Search
<1>3. Saved = Stored(nvs) /\ Pending = NoOperation
  BY <1>2, IdleMap
<1>4. CASE op' = Idle /\ UNCHANGED ever
  <2>1. op'.pc = "idle"
    BY <1>4 DEF Idle
  <2>2. Saved' = Saved /\ Pending' = Pending
    BY <1>2, <1>3, <2>1, IdleMapNext
  <2> QED BY <1>1, <1>4, <2>2, MapStutter, Refines
<1>5. CASE ~(op' = Idle /\ UNCHANGED ever)
  <2>1. /\ op'.rec = op.rec /\ op'.pc \in {"replace", "blob"} /\ op'.before = Stored(nvs)
        /\ ever' = [d \in Ids |-> IF d = op.rec.id THEN ever[d] \cup {op.rec.ver} ELSE ever[d]]
    BY <1>1, <1>2, <1>5, StartOp
  <2>2. Saved' = Saved /\ Pending' = [kind |-> "save", id |-> op.rec.id, ver |-> op.rec.ver]
    BY <1>3, <2>1 DEF Saved, Pending, Begun, Kind
  <2>3. Pending' \in [kind : {"save", "delete"}, id : AnyId, ver : Versions]
    BY <1>2, <2>2
  <2>4. ever' = [d \in Ids |-> IF Pending'.kind = "save" /\ Pending'.id = d
                              THEN ever[d] \cup {Pending'.ver} ELSE ever[d]]
    BY <2>1, <2>2
  <2> QED BY <1>1, <1>3, <2>2, <2>3, <2>4, MapBegin
<1> QED BY <1>4, <1>5

LEMMA CrashRefines ==
  ASSUME StoreInv, StoreInv', Crash
  PROVE  [Map!Next]_(Map!vars)
<1>1. /\ TypeOK /\ Basic /\ UNCHANGED <<nvs, ever>> /\ op' = Idle
      /\ op \in Ops /\ faults \in 0 .. MaxFaults
  BY OperationTypes, Typing DEF Crash, Done
<1>2. op'.pc = "idle"
  BY <1>1 DEF Idle
<1>3. Saved' = Stored(nvs) /\ Pending' = NoOperation
  BY <1>1, <1>2, IdleMapNext
<1>4. ASSUME faults' = 0 PROVE [Map!Next]_(Map!vars)
  <2>1. op.pc \in {"idle", "search", "replace"} /\ faults = 0
    BY <1>1, <1>4 DEF Crash, Fail
  <2>2. CASE op.pc \in {"idle", "search"}
    <3>1. Saved = Stored(nvs) /\ Pending = NoOperation
      BY <2>2, IdleMap
    <3> QED BY <1>1, <1>3, <1>4, <2>1, <3>1, MapStutter
  <2>3. CASE op.pc = "replace"
    <3>1. /\ nvs \in Spaces /\ nvs.list \in Lists /\ Distinct(nvs.list)
          /\ Fitting(nvs, nvs.list) /\ nvs.list = op.list
          /\ Stored(nvs) = Loaded(nvs, nvs.list)
      BY <2>1, <2>3, LayoutFacts
    <3>2. op.before = Loaded(nvs, nvs.list) /\ op.index \in 1 .. Len(nvs.list)
          /\ nvs.list[op.index] = op.rec.id
      BY <2>1, <2>3, <3>1 DEF StoreInv, Effected, Fits, LayoutInv, AtPlace
    <3>3. Saved = op.before /\ Pending = [kind |-> "save", id |-> op.rec.id, ver |-> op.rec.ver]
      BY <2>3 DEF Saved, Pending, Begun, Kind
    <3>4. ASSUME op.rec.id \in Ids PROVE op.before[op.rec.id] # 0
      <4>1. op.before[op.rec.id] = nvs.blob[op.index].ver
        BY <3>1, <3>2, <3>4, LoadedExact, SMTT(60)
      <4>2. op.index \in Positions
        BY <1>1, <2>3, Places DEF Basic
      <4>3. nvs.blob[op.index] # Missing /\ nvs.blob[op.index].id = op.rec.id
        BY <3>1, <3>2 DEF Fitting
      <4> QED BY <3>4, <4>1, <4>2, <4>3 DEF StoreInv, SavedInv
    <3>5. Pending.kind = "save" /\ (Pending.id \in Ids => Saved[Pending.id] # 0)
      BY <3>3, <3>4
    <3>6. Saved' = Saved
      BY <1>3, <3>1, <3>2, <3>3
    <3> QED BY <1>1, <1>3, <1>4, <2>1, <3>5, <3>6, MapCut
  <2> QED BY <2>1, <2>2, <2>3
<1> QED BY <1>1, <1>3, <1>4, Refines

LEMMA LoadRefines ==
  ASSUME StoreInv, StoreInv', load_all
  PROVE  [Map!Next]_(Map!vars)
<1>1. /\ TypeOK /\ Basic /\ op = Idle /\ UNCHANGED <<op, ever>>
  BY OperationTypes, LoadStep DEF load_all
<1>2. op.pc = "idle" /\ op'.pc = "idle"
  BY <1>1 DEF Idle
<1>3. /\ Saved = Stored(nvs) /\ Saved' = Stored(nvs')
      /\ Pending = NoOperation /\ Pending' = NoOperation
  BY <1>2, IdleMap, IdleMapNext
<1>4. ASSUME faults' = 0 PROVE Stored(nvs') = Stored(nvs) /\ faults = 0
  <2>1. faults = 0
    BY <1>1, <1>4, LoadStep
  <2>2. CASE nvs' = nvs
    BY <2>1, <2>2
  <2>3. CASE nvs' = EmptyNvs /\ ~Readable(nvs)
    <3>1. Stored(nvs') = NoDevice
      BY <2>3 DEF Stored, Readable, EmptyNvs
    <3> QED BY <2>1, <2>3, <3>1 DEF Stored
  <2>4. CASE nvs' = EmptyNvs /\ Readable(nvs) /\ nvs' # nvs
    <3>1. PICK list \in ReadList(nvs) : reg' = Loaded(nvs, list) /\ reg' = NoDevice
      BY <2>4 DEF load_all
    <3>2. nvs.count = Len(nvs.list) /\ Stored(nvs) = Loaded(nvs, nvs.list)
      BY <1>2, <2>1, LayoutFacts
    <3>3. list = nvs.list
      BY <1>1, <2>4, <3>1, <3>2, ReadExact
    <3>4. Stored(nvs') = NoDevice
      BY <2>4 DEF Stored, Readable, EmptyNvs
    <3> QED BY <2>1, <3>1, <3>2, <3>3, <3>4
  <2> QED BY <1>1, <1>4, <2>2, <2>3, <2>4, LoadStep
<1>5. faults' = 0 => [Map!Next]_(Map!vars)
  BY <1>1, <1>3, <1>4, MapStutter
<1> QED BY <1>1, <1>3, <1>5, Refines

LEMMA RefineStep == StoreInv /\ StoreInv' /\ [Next]_vars => [Map!Next]_(Map!vars)
<1> SUFFICES ASSUME StoreInv, StoreInv', [Next]_vars PROVE [Map!Next]_(Map!vars)
  OBVIOUS
<1>1. ASSUME UNCHANGED <<nvs, op, ever, faults>> PROVE [Map!Next]_(Map!vars)
  <2>1. Saved' = Saved /\ Pending' = Pending
    BY <1>1 DEF Saved, Pending, Begun, Kind, Stored, Loaded
  <2> QED BY <1>1, <2>1, MapStutter, Refines
<1>2. CASE \E t \in Tasks : Reset(t) \/ \E d \in Ids : Update(t, d) \/ Leave(t, d)
  BY <1>1, <1>2 DEF Reset, Update, Leave, Call
<1>3. CASE UNCHANGED vars
  BY <1>1, <1>3 DEF vars
<1> QED BY <1>2, <1>3, WritingRefines, BeginRefines, SearchRefines, CrashRefines, LoadRefines
    DEF Next, Operation, Writing

(***************************************************************************)
(* The store implements the map of devices with crashes and failures that  *)
(* StoreMap describes: a save and a deletion have exactly their effect as  *)
(* long as nothing failed, and whatever the moment of a crash, no start    *)
(* gives a device a record that was not saved for it.                      *)
(***************************************************************************)
THEOREM StoreIsMap == Spec => ImplementsStoreMap
<1>1. Init => Map!Init
  <2> SUFFICES ASSUME Init PROVE Map!Init
    OBVIOUS
  <2>1. op.pc = "idle" /\ nvs = EmptyNvs /\ faults = 0 /\ ever = [d \in Ids |-> {}]
    BY DEF Init, Idle
  <2>2. Stored(nvs) = NoDevice
    BY <2>1 DEF Stored, Readable, EmptyNvs
  <2> QED BY <2>1, <2>2 DEF Map!Init, Map!Nothing, Map!None, Begun, Kind, NoDevice
<1>2. StoreInv /\ StoreInv' /\ [Next]_vars => [Map!Next]_(Map!vars)
  BY RefineStep
<1> QED BY <1>1, <1>2, Invariance, PTL DEF Spec, ImplementsStoreMap, Map!Spec

=============================================================================
