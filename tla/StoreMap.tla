------------------------------- MODULE StoreMap -------------------------------
(***************************************************************************)
(* What the list of devices on flash promises: a map from device ids to    *)
(* the version of the record that was last saved, 0 for a device that is   *)
(* not on flash.  One save or deletion is under way at a time.             *)
(*                                                                         *)
(* As long as the map is trusted, an operation has exactly its effect, and *)
(* a crash leaves what was there before or after a record that is          *)
(* replaced.  A crash within any other operation, or a failure, may lose   *)
(* devices, and may bring back deleted ones and replaced records; but      *)
(* never does a device get a record that was not saved for it.             *)
(* DeviceStore implements this.                                            *)
(***************************************************************************)
EXTENDS Integers, FiniteSets

CONSTANTS Ids, NoId, Versions

VARIABLES
  saved,    \* the version of each device on flash
  ever,     \* the versions of each device that were given to be saved
  pending,  \* the operation under way
  trusted   \* nothing has gone wrong so far

vars == <<saved, ever, pending, trusted>>

Nothing == [d \in Ids |-> 0]
None    == [kind |-> "none", id |-> NoId, ver |-> 0]

\* What the operation makes of the map; saving no device changes nothing.
Effect(p) ==
  CASE p.kind = "save" /\ p.id \in Ids -> [saved EXCEPT ![p.id] = p.ver]
    [] p.kind = "delete" -> [saved EXCEPT ![p.id] = 0]
    [] OTHER -> saved

Init == saved = Nothing /\ ever = [d \in Ids |-> {}] /\ pending = None /\ trusted = TRUE

\* An operation may fail from its first step on.
Begin(p) ==
  /\ pending = None
  /\ pending' = p
  /\ ever' = [d \in Ids |-> IF p.kind = "save" /\ p.id = d
                            THEN ever[d] \cup {p.ver} ELSE ever[d]]
  /\ trusted' \in {trusted, FALSE}
  /\ UNCHANGED saved

Complete == saved' = Effect(pending) /\ pending' = None /\ UNCHANGED <<ever, trusted>>

Clear == pending = None /\ saved' = Nothing /\ UNCHANGED <<ever, pending, trusted>>

\* A crash while nothing is under way, or while a record is replaced.
Cut ==
  /\ \/ pending.kind = "none"
     \/ pending.kind = "save" /\ (pending.id \in Ids => saved[pending.id] # 0)
  /\ saved' \in {saved, Effect(pending)}
  /\ pending' = None
  /\ UNCHANGED <<ever, trusted>>

Trouble ==
  /\ \A d \in Ids : saved'[d] \in {0} \cup ever[d]
  /\ pending' \in {pending, None}
  /\ trusted' = FALSE
  /\ UNCHANGED ever

Next ==
  \/ \E p \in [kind : {"save", "delete"}, id : Ids \cup {NoId}, ver : Versions] :
       Begin(p)
  \/ Complete
  \/ Clear
  \/ Cut
  \/ Trouble

Spec == Init /\ [][Next]_vars
=============================================================================
