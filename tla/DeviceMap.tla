------------------------------- MODULE DeviceMap -------------------------------
(***************************************************************************)
(* What the device registry promises its callers: a map from device ids to *)
(* device records with room for Capacity of them.  No slots, no hash table *)
(* and no cursor; a write reaches the device it names and no other.        *)
(* DeviceRegistry implements this specification.                           *)
(***************************************************************************)
EXTENDS Integers, FiniteSets

CONSTANTS Ids, Capacity, Keys, Values, Absent, NoState, Protocols,
          Availabilities, Names, Clusters, MaxClusters

VARIABLE map

State == [Keys -> Values \cup {Absent}]

Record ==
  [protocol : Protocols, availability : Availabilities \cup {"unknown"},
   friendly_name : Names \cup Ids, clusters : SUBSET Clusters,
   state : State \cup {NoState}]

NewRecord(id, p) ==
  [protocol |-> p, availability |-> "unknown", friendly_name |-> id,
   clusters |-> {}, state |-> NoState]

Empty == [id \in {} |-> NoState]

Init == map = Empty

Add(id, p) ==
  /\ id \notin DOMAIN map
  /\ Cardinality(DOMAIN map) < Capacity
  /\ map' = [d \in DOMAIN map \cup {id} |->
               IF d = id THEN NewRecord(id, p) ELSE map[d]]

Remove(id) == map' = [d \in DOMAIN map \ {id} |-> map[d]]

Clear == map' = Empty

SetState(id, s) == map' = [map EXCEPT ![id].state = s]

\* The keys that changes has a value for take it; the others stay.
MergeState(id, changes) ==
  map' = [map EXCEPT ![id].state =
            [k \in Keys |-> IF changes[k] # Absent THEN changes[k]
                            ELSE IF @ = NoState THEN Absent ELSE @[k]]]

SetAvailability(id, a) == map' = [map EXCEPT ![id].availability = a]

SetName(id, n) == map' = [map EXCEPT ![id].friendly_name = n]

AddCluster(id, c) ==
  /\ map[id].protocol = "zigbee"
  /\ Cardinality(map[id].clusters) < MaxClusters
  /\ map' = [map EXCEPT ![id].clusters = @ \cup {c}]

Next ==
  \/ Clear
  \/ \E id \in Ids, p \in Protocols : Add(id, p)
  \/ \E id \in DOMAIN map :
       \/ Remove(id)
       \/ \E s \in State : SetState(id, s) \/ MergeState(id, s)
       \/ \E a \in Availabilities : SetAvailability(id, a)
       \/ \E n \in Names : SetName(id, n)
       \/ \E c \in Clusters : AddCluster(id, c)

Spec == Init /\ [][Next]_map
=============================================================================
