------------------------ MODULE StatePersistenceProofs ------------------------
(***************************************************************************)
(* Safety of the persistence of device state, for any number of devices,   *)
(* reports, failures and reboots.                                          *)
(***************************************************************************)
EXTENDS StatePersistence, TLAPS

Phases  == {"idle", "lock", "check", "copy", "write", "rename", "clear", "exit"}
Saves   == [pc : Phases, buf : Content, todo : SUBSET Devices]
Working == {"check", "copy", "write", "rename"}

USE BoundsAssumption DEF Savers, Locking

\* The content of the registry before the first report.
LEMMA NothingType == Nothing \in Content /\ Idle \in Saves /\ Idle.pc = "idle"
  BY DEF Nothing, Content, Versions, Idle, Saves, Phases

\* A saver goes on to another phase of its save, the others stay where they are.
LEMMA GotoDoes ==
  ASSUME TypeOK, NEW p \in Savers, NEW pc \in Phases, Goto(p, pc)
  PROVE  /\ save' \in [Savers -> Saves]
         /\ save'[p].pc = pc
         /\ save'[p].buf = save[p].buf /\ save'[p].todo = save[p].todo
         /\ \A q \in Savers \ {p} : save'[q] = save[q]
<1>1. save \in [Savers -> Saves]
  BY DEF TypeOK, Saves, Phases
<1>2. save' = [save EXCEPT ![p].pc = pc]
  BY DEF Goto
<1>3. [save[p] EXCEPT !.pc = pc] \in Saves
  BY <1>1 DEF Saves
<1> QED BY <1>1, <1>2, <1>3 DEF Saves

\* A saver starts another save.
LEMMA ReplaceDoes ==
  ASSUME TypeOK, NEW p \in Savers, NEW s \in Saves, save' = [save EXCEPT ![p] = s]
  PROVE  /\ save' \in [Savers -> Saves]
         /\ save'[p] = s
         /\ \A q \in Savers \ {p} : save'[q] = save[q]
<1>1. save \in [Savers -> Saves]
  BY DEF TypeOK, Saves, Phases
<1> QED BY <1>1

-------------------------------------------------------------------------------
(***************************************************************************)
(* What the steps of a save do, seen from the invariant: a saver p moves   *)
(* on and has the mutex exactly while it works.                            *)
(***************************************************************************)
Moves(p) ==
  /\ save' \in [Savers -> Saves]
  /\ \A q \in Savers \ {p} : save'[q] = save[q]
  /\ save[p].pc # "idle"
  /\ lock' \in Locking \cup {"none"}
  /\ \A q \in Locking \ {p} : lock' = q <=> lock = q
  /\ p \in Locking => IF p = "shutdown" /\ deserted
                       THEN lock' # p
                       ELSE save'[p].pc \in Working <=> lock' = p
  /\ UNCHANGED <<marking, reg, initialized, tasks, load, restart, deserted>>
  /\ UNCHANGED <<reports, reboots, joins, stops>>
  /\ dirty' \in BOOLEAN /\ lost' \subseteq Devices
  /\ {temp', final'} \subseteq {temp, final, NoFile, save[p].buf}
  /\ failures' \in 0 .. MaxFailures
  /\ p = "join" => save'[p].pc \in {"idle", "write", "rename", "clear"}

LEMMA StepMoves ==
  ASSUME ServiceInv, NEW p \in Savers, SaveStep(p)
  PROVE  Moves(p)
<1> USE DEF ServiceInv
<1>0. /\ save \in [Savers -> Saves] /\ save[p] \in Saves /\ save[p].buf \in Content
      /\ lock \in Locking \cup {"none"} /\ failures \in 0 .. MaxFailures
      /\ dirty \in BOOLEAN /\ reg \in Content /\ lost \subseteq Devices
  BY DEF TypeOK, Saves, Phases
<1>a. /\ p \in Locking => IF p = "shutdown" /\ deserted
                           THEN lock # p
                           ELSE save[p].pc \in Working <=> lock = p
      /\ p \notin Locking => save[p].pc \in {"idle", "write", "rename", "clear"}
      /\ p \notin Locking => p = "join" /\ lock # p
  BY <1>0 DEF HolderHolds, Working
<1>b. /\ After(p) \in Phases /\ After(p) \notin Working
      /\ p = "join" => After(p) = "idle"
      /\ {"clear", "check", "copy", "write", "rename"} \subseteq Phases
  BY DEF After, Phases, Working
<1>c. ASSUME NEW q \in Locking, q # p, lock' \in {p, "none"}, lock \in {p, "none"}
      PROVE  lock' # q /\ lock # q
  BY <1>c
<1> HIDE DEF ServiceInv
<1> USE DEF Moves, bounds, disk, mutex
<1>1. CASE TakeMutex(p)
  <2>1. /\ Goto(p, "check") /\ save[p].pc = "lock"
        /\ IF p = "shutdown" /\ deserted THEN lock' = lock
                                         ELSE lock = "none" /\ lock' = p
    BY <1>1 DEF TakeMutex
  <2>2. p \in Locking
    BY <1>a, <2>1
  <2> QED BY <1>0, <1>1, <1>a, <1>b, <2>1, <2>2, GotoDoes
          DEF TakeMutex, Working, ServiceInv
<1>2. CASE CheckDirty(p)
  <2>1. p \in Locking /\ save[p].pc = "check"
    BY <1>2, <1>a DEF CheckDirty, Working
  <2>2. CASE dirty
    <3>1. [pc |-> "copy", buf |-> Nothing, todo |-> Devices] \in Saves
      BY NothingType DEF Saves, Phases
    <3>2. /\ dirty' = FALSE /\ lock' = lock /\ lost' = {}
          /\ save' = [save EXCEPT ![p] = [pc |-> "copy", buf |-> Nothing,
                                          todo |-> Devices]]
          /\ UNCHANGED <<reg, marking, initialized, tasks, deserted, load, disk,
                         restart, bounds>>
      BY <1>2, <2>2 DEF CheckDirty
    <3>3. /\ save' \in [Savers -> Saves] /\ save'[p].pc = "copy"
          /\ \A q \in Savers \ {p} : save'[q] = save[q]
      BY <3>1, <3>2, ReplaceDoes DEF ServiceInv
    <3> QED BY <1>0, <1>a, <2>1, <3>2, <3>3 DEF Working
  <2>3. CASE ~ dirty
    <3>1. Goto(p, After(p)) /\ lock' = Release(p) /\ lost' = lost /\ dirty' = FALSE
          /\ UNCHANGED <<reg, marking, initialized, tasks, deserted, load, disk,
                         restart, bounds>>
      BY <1>2, <2>3 DEF CheckDirty
    <3>2. /\ save' \in [Savers -> Saves] /\ save'[p].pc = After(p)
          /\ \A q \in Savers \ {p} : save'[q] = save[q]
      BY <1>b, <3>1, GotoDoes DEF ServiceInv
    <3> QED BY <1>0, <1>a, <1>b, <2>1, <3>1, <3>2 DEF Release, Working
  <2> QED BY <2>2, <2>3
<1>3. CASE CopyDevice(p)
  <2>1. p \in Locking /\ lock' = lock /\ save[p].pc = "copy"
    BY <1>3, <1>a DEF CopyDevice
  <2>2. PICK d \in save[p].todo :
          save' = [save EXCEPT ![p] = [pc |-> "copy",
                                       buf |-> [save[p].buf EXCEPT ![d] = reg[d]],
                                       todo |-> save[p].todo \ {d}]]
    BY <1>3 DEF CopyDevice
  <2>3. d \in Devices
    BY <1>0 DEF Saves
  <2>4. [save[p].buf EXCEPT ![d] = reg[d]] \in Content
    BY <1>0, <2>3 DEF Content
  <2>5. [pc |-> "copy", buf |-> [save[p].buf EXCEPT ![d] = reg[d]],
         todo |-> save[p].todo \ {d}] \in Saves
    BY <1>0, <2>4 DEF Saves, Phases
  <2> QED BY <1>0, <1>3, <1>a, <2>1, <2>2, <2>5, ReplaceDoes
          DEF CopyDevice, Working, ServiceInv
<1>9. CASE LeaveOut(p)
  <2>1. p \in Locking /\ lock' = lock /\ save[p].pc = "copy"
    BY <1>9, <1>a DEF LeaveOut
  <2>2. PICK D \in {Devices} \cup {{d} : d \in Devices} :
          /\ save' = [save EXCEPT ![p].todo = @ \ D]
          /\ lost' = lost \cup D
    BY <1>9 DEF LeaveOut
  <2>3. [save[p] EXCEPT !.todo = @ \ D] \in Saves
        /\ [save[p] EXCEPT !.todo = @ \ D].pc = "copy"
    BY <1>0, <2>1 DEF Saves
  <2>4. save' = [save EXCEPT ![p] = [save[p] EXCEPT !.todo = @ \ D]]
    BY <2>2
  <2>5. /\ save' \in [Savers -> Saves] /\ save'[p].pc = "copy"
        /\ \A q \in Savers \ {p} : save'[q] = save[q]
    BY <2>3, <2>4, ReplaceDoes DEF ServiceInv
  <2>6. failures' \in 0 .. MaxFailures /\ D \subseteq Devices
    BY <1>0, <1>9 DEF LeaveOut
  <2> QED BY <1>0, <1>9, <1>a, <2>1, <2>2, <2>5, <2>6 DEF LeaveOut, Working
<1>4. CASE CopyDone(p)
  <2>1. p \in Locking /\ save[p].pc = "copy" /\ Goto(p, "write") /\ lock' = lock
    BY <1>4, <1>a DEF CopyDone
  <2> QED BY <1>0, <1>4, <1>a, <1>b, <2>1, GotoDoes DEF CopyDone, Working, ServiceInv
<1>5. CASE WriteTemp(p)
  <2>1. save[p].pc = "write" /\ Goto(p, "rename") /\ lock' = lock
    BY <1>5 DEF WriteTemp
  <2> QED BY <1>0, <1>5, <1>a, <1>b, <2>1, GotoDoes DEF WriteTemp, Working, ServiceInv
<1>6. CASE RenameTemp(p)
  <2>1. save[p].pc = "rename" /\ lock' = Release(p) /\ lost' = AfterRename(p)
        /\ Goto(p, IF p \in Locking THEN After(p) ELSE "clear")
    BY <1>6 DEF RenameTemp
  <2>2. lost' \subseteq Devices
    BY <1>0, <2>1 DEF AfterRename
  <2> QED BY <1>0, <1>6, <1>a, <1>b, <2>1, <2>2, GotoDoes
          DEF RenameTemp, Release, Working, ServiceInv
<1>7. CASE FailSave(p)
  <2>1. save[p].pc \in {"write", "rename"} /\ GiveUp(p)
        /\ temp' \in {temp, NoFile} /\ failures' \in 0 .. MaxFailures
    BY <1>0, <1>7 DEF FailSave
  <2>2. lock' = Release(p) /\ Goto(p, After(p)) /\ dirty' \in BOOLEAN
    BY <1>0, <2>1 DEF GiveUp, DirtyAfterFailure
  <2> QED BY <1>0, <1>a, <1>b, <2>1, <2>2, GotoDoes
          DEF GiveUp, Release, Working, ServiceInv
<1>8. CASE FailRename(p)
  <2>1. save[p].pc = "rename" /\ GiveUp(p) /\ UNCHANGED <<temp, failures>>
    BY <1>8 DEF FailRename
  <2>2. lock' = Release(p) /\ Goto(p, After(p)) /\ dirty' \in BOOLEAN
    BY <1>0, <2>1 DEF GiveUp, DirtyAfterFailure
  <2> QED BY <1>0, <1>a, <1>b, <2>1, <2>2, GotoDoes
          DEF GiveUp, Release, Working, ServiceInv
<1> QED BY <1>1, <1>2, <1>3, <1>4, <1>5, <1>6, <1>7, <1>8, <1>9 DEF SaveStep

-------------------------------------------------------------------------------
(***************************************************************************)
(* The invariant of the service.                                           *)
(***************************************************************************)
LEMMA InitialState == Init => ServiceInv
<1> SUFFICES ASSUME Init PROVE ServiceInv
  OBVIOUS
<1>1. TypeOK
  <2>1. /\ save = [p \in Savers |-> Idle]
        /\ load = [pc |-> "waiting", file |-> Nothing, todo |-> {}]
        /\ reg = Nothing /\ final = NoFile /\ temp = NoFile
    BY DEF Init
  <2>2. save \in [Savers -> Saves]
    BY <2>1, NothingType
  <2>3. load \in [pc : {"waiting", "merging", "done"}, file : Content,
                  todo : SUBSET Devices]
    BY <2>1, NothingType
  <2>4. /\ reports \in Versions /\ failures \in 0 .. MaxFailures
        /\ reboots \in 0 .. MaxReboots /\ joins \in 0 .. MaxJoins
        /\ stops \in 0 .. MaxStops
    BY DEF Init, Versions
  <2>5. /\ {dirty, initialized, started, exitRequested, taskRuns, notified,
            deserted} \subseteq BOOLEAN
        /\ lost = {} /\ lock = "none" /\ marking = {} /\ restart = "no"
    BY DEF Init
  <2> QED BY <2>1, <2>2, <2>3, <2>4, <2>5, NothingType DEF TypeOK, Saves, Phases
<1>2. \A p \in Savers : save[p].pc = "idle"
  BY NothingType DEF Init
<1>3. HolderHolds
  BY <1>2 DEF Init, HolderHolds
<1> QED BY <1>1, <1>2, <1>3 DEF Init, ServiceInv

\* A step of a save leaves the invariant, the temporary and the final file
\* and the phase of the two other savers as they have to be.
LEMMA MovesKeeps ==
  ASSUME ServiceInv, NEW p \in Savers, Moves(p), p = "task" => UNCHANGED tasks
  PROVE  ServiceInv'
<1>0. TypeOK /\ save \in [Savers -> Saves] /\ save[p].buf \in Content
  BY DEF ServiceInv, TypeOK, Saves, Phases
<1>1. TypeOK'
  BY <1>0 DEF Moves, TypeOK, tasks, Saves, Phases
<1>2. HolderHolds'
  <2> SUFFICES ASSUME NEW q \in Locking
               PROVE  IF q = "shutdown" /\ deserted THEN lock' # q
                      ELSE save'[q].pc \in Working <=> lock' = q
    BY DEF HolderHolds, Working, Moves
  <2>1. IF q = "shutdown" /\ deserted THEN lock # q
        ELSE save[q].pc \in Working <=> lock = q
    BY DEF ServiceInv, HolderHolds, Working
  <2>2. CASE q = p
    BY <2>2 DEF Moves
  <2>3. CASE q # p
    BY <2>1, <2>3 DEF Moves
  <2> QED BY <2>2, <2>3
<1>3. /\ exitRequested' \/ taskRuns' => initialized'
      /\ ~ taskRuns' => save'["task"].pc = "idle"
      /\ save'["shutdown"].pc # "idle" => initialized' \/ deserted'
      /\ save'["shutdown"].pc # "idle" \/ deserted' => restart' = "saving"
      /\ save'["join"].pc \in {"idle", "write", "rename", "clear"}
      /\ restart' # "no" => reboots' < MaxReboots
  BY DEF ServiceInv, Moves, tasks
<1> QED BY <1>1, <1>2, <1>3 DEF ServiceInv

\* Steps that leave the savers, their mutex and the service alone, and those
\* that leave the savers and their mutex alone.
LEMMA StillKeeps ==
  ASSUME ServiceInv, TypeOK',
         UNCHANGED <<mutex, save, tasks, initialized, restart, reboots>>
  PROVE  ServiceInv'
BY DEF ServiceInv, HolderHolds, tasks, mutex

LEMMA SaversKeep ==
  ASSUME ServiceInv, TypeOK', UNCHANGED <<mutex, save, reboots>>,
         ~ (exitRequested' \/ taskRuns') \/ initialized',
         initialized => initialized',
         taskRuns => taskRuns',
         \/ UNCHANGED restart
         \/ restart # "saving" /\ reboots < MaxReboots
  PROVE  ServiceInv'
BY DEF ServiceInv, HolderHolds, mutex

\* The service goes down: the save task is gone and the mutex deleted.
LEMMA DownKeeps ==
  ASSUME ServiceInv, TypeOK', ServiceDown, UNCHANGED <<restart, reboots>>,
         ~ taskRuns', save'["task"].pc = "idle",
         \A q \in Savers \ {"task"} : save'[q] = save[q]
  PROVE  ServiceInv'
<1>1. HolderHolds'
  BY DEF ServiceInv, ServiceDown, HolderHolds
<1> QED BY <1>1 DEF ServiceInv, ServiceDown

LEMMA BootKeeps == ServiceInv /\ Boot /\ reboots < MaxReboots => ServiceInv'
<1> SUFFICES ASSUME ServiceInv, Boot, reboots < MaxReboots PROVE ServiceInv'
  OBVIOUS
<1>1. TypeOK'
  <2>1. /\ save' = [p \in Savers |-> Idle]
        /\ load' = [pc |-> "waiting", file |-> Nothing, todo |-> {}]
        /\ reg' = Nothing
        /\ UNCHANGED <<final, temp>>
    BY DEF Boot, disk
  <2>2. save' \in [Savers -> Saves]
    BY <2>1, NothingType
  <2>3. load' \in [pc : {"waiting", "merging", "done"}, file : Content,
                   todo : SUBSET Devices]
    BY <2>1, NothingType
  <2>4. /\ reports' \in Versions /\ failures' \in 0 .. MaxFailures
        /\ reboots' \in 0 .. MaxReboots /\ joins' \in 0 .. MaxJoins
        /\ stops' \in 0 .. MaxStops
    BY DEF Boot, ServiceInv, TypeOK
  <2>5. /\ {dirty, initialized, started, exitRequested, taskRuns, notified,
            deserted}' \subseteq BOOLEAN
        /\ lost' = {} /\ lock' = "none" /\ marking' = {} /\ restart' = "no"
    BY DEF Boot
  <2>6. final \in Content \cup {NoFile} /\ temp \in Content \cup {NoFile}
    BY DEF ServiceInv, TypeOK
  <2> QED BY <2>1, <2>2, <2>3, <2>4, <2>5, <2>6, NothingType
          DEF TypeOK, Saves, Phases
<1>2. \A p \in Savers : save'[p].pc = "idle"
  BY NothingType DEF Boot
<1>3. HolderHolds'
  BY <1>2 DEF Boot, HolderHolds
<1> QED BY <1>1, <1>2, <1>3 DEF Boot, ServiceInv

LEMMA StepKeeps == ServiceInv /\ [Next]_vars => ServiceInv'
<1> SUFFICES ASSUME ServiceInv, [Next]_vars PROVE ServiceInv'
  OBVIOUS
<1> USE DEF tasks, mutex, disk, bounds
<1>0. /\ TypeOK /\ save \in [Savers -> Saves] /\ reg \in Content
      /\ load \in [pc : {"waiting", "merging", "done"}, file : Content,
                   todo : SUBSET Devices]
      /\ \A p \in Savers : save[p] \in Saves
  BY DEF ServiceInv, TypeOK, Saves, Phases
<1>1. ASSUME NEW d \in Devices, Report(d) PROVE ServiceInv'
  <2>1. reports + 1 \in Versions
    BY <1>0, <1>1 DEF Report, TypeOK, Versions
  <2>2. reg' \in Content
    BY <1>0, <1>1, <2>1 DEF Report, Content
  <2>3. TypeOK'
    BY <1>0, <1>1, <2>1, <2>2 DEF Report, TypeOK
  <2> QED BY <1>1, <2>3, StillKeeps DEF Report
<1>2. ASSUME NEW t \in marking, state_persistence_mark_dirty(t) PROVE ServiceInv'
  <2>1. TypeOK'
    BY <1>0, <1>2 DEF state_persistence_mark_dirty, TypeOK
  <2> QED BY <1>2, <2>1, StillKeeps DEF state_persistence_mark_dirty
<1>3. ASSUME NEW p \in {"shutdown", "join"}, SaveStep(p) PROVE ServiceInv'
  BY <1>3, StepMoves, MovesKeeps
<1>4. CASE SaveTask
  <2>1. CASE save_task_wakes
    <3> DEFINE pc == IF dirty /\ initialized THEN "lock" ELSE "exit"
    <3>1. Goto("task", pc) /\ save["task"].pc = "idle" /\ taskRuns
          /\ UNCHANGED <<lock, deserted, exitRequested, taskRuns, initialized, restart, reboots>>
      BY <2>1 DEF save_task_wakes
    <3>2. pc \in Phases /\ pc \notin Working
      BY DEF Phases, Working
    <3> HIDE DEF pc
    <3>3. /\ save' \in [Savers -> Saves] /\ save'["task"].pc = pc
          /\ \A q \in Savers \ {"task"} : save'[q] = save[q]
      BY <1>0, <3>1, <3>2, GotoDoes
    <3>4. TypeOK'
      BY <1>0, <2>1, <3>3 DEF save_task_wakes, TypeOK, Saves, Phases
    <3>5. HolderHolds'
      BY <3>1, <3>2, <3>3 DEF ServiceInv, HolderHolds, Working
    <3> QED BY <3>1, <3>3, <3>4, <3>5 DEF ServiceInv
  <2>2. CASE save_task_loops
    <3>1. Goto("task", "idle") /\ save["task"].pc = "exit"
          /\ taskRuns' \in BOOLEAN
          /\ UNCHANGED <<lock, deserted, exitRequested, initialized, restart, reboots>>
      BY <2>2 DEF save_task_loops
    <3>2. /\ save' \in [Savers -> Saves] /\ save'["task"].pc = "idle"
          /\ \A q \in Savers \ {"task"} : save'[q] = save[q]
      BY <1>0, <3>1, GotoDoes DEF Phases
    <3>3. TypeOK'
      BY <1>0, <2>2, <3>1, <3>2 DEF save_task_loops, TypeOK, Saves, Phases
    <3>4. HolderHolds'
      BY <3>1, <3>2 DEF ServiceInv, HolderHolds
    <3>5. taskRuns
      BY <3>1 DEF ServiceInv
    <3> QED BY <3>1, <3>2, <3>3, <3>4, <3>5 DEF ServiceInv
  <2>3. CASE SaveStep("task")
    <3>1. UNCHANGED tasks
      BY <2>3, StepMoves DEF Moves
    <3> QED BY <2>3, <3>1, StepMoves, MovesKeeps
  <2> QED BY <1>4, <2>1, <2>2, <2>3 DEF SaveTask
<1>5. CASE save_timer_callback
  <2>1. TypeOK'
    BY <1>0, <1>5 DEF save_timer_callback, TypeOK
  <2> QED BY <1>5, <2>1, SaversKeep DEF save_timer_callback, ServiceInv
<1>6. CASE state_persistence_save_immediate
  <2> DEFINE s == [pc |-> "write", buf |-> Summary, todo |-> {}]
  <2>1. s \in Saves /\ save' = [save EXCEPT !["join"] = s]
    BY <1>6, NothingType DEF state_persistence_save_immediate, Saves, Phases, Summary
  <2>2. s.pc = "write"
    OBVIOUS
  <2> HIDE DEF s
  <2>3. /\ save' \in [Savers -> Saves] /\ save'["join"] = s
        /\ \A q \in Savers \ {"join"} : save'[q] = save[q]
    BY <1>0, <2>1, ReplaceDoes
  <2>4. joins' \in 0 .. MaxJoins
    BY <1>0, <1>6 DEF state_persistence_save_immediate, TypeOK
  <2>5. TypeOK'
    BY <1>0, <1>6, <2>3, <2>4
       DEF state_persistence_save_immediate, TypeOK, Saves, Phases
  <2>6. HolderHolds'
    BY <1>6, <2>3 DEF state_persistence_save_immediate, ServiceInv, HolderHolds
  <2> QED BY <1>6, <2>2, <2>3, <2>5, <2>6
          DEF state_persistence_save_immediate, ServiceInv
<1>7. CASE ClearAfterImmediateSave
  <2>1. /\ Goto("join", "idle")
        /\ UNCHANGED <<mutex, taskRuns, exitRequested, initialized, restart,
                       reboots>>
    BY <1>7 DEF ClearAfterImmediateSave
  <2>2. /\ save' \in [Savers -> Saves] /\ save'["join"].pc = "idle"
        /\ \A q \in Savers \ {"join"} : save'[q] = save[q]
    BY <1>0, <2>1, GotoDoes DEF Phases
  <2>3. TypeOK'
    BY <1>0, <1>7, <2>2 DEF ClearAfterImmediateSave, TypeOK, Saves, Phases
  <2>4. HolderHolds'
    BY <2>1, <2>2 DEF ServiceInv, HolderHolds
  <2> QED BY <2>1, <2>2, <2>3, <2>4 DEF ServiceInv
<1>8. CASE state_persistence_load
  <2>1. load' \in [pc : {"waiting", "merging", "done"}, file : Content,
                   todo : SUBSET Devices]
    BY <1>0, <1>8 DEF state_persistence_load, TypeOK
  <2>2. TypeOK'
    BY <1>0, <1>8, <2>1 DEF state_persistence_load, TypeOK
  <2> QED BY <1>8, <2>2, StillKeeps DEF state_persistence_load
<1>9. CASE MergeDevice
  <2>1. PICK d \in load.todo :
          /\ load' = [load EXCEPT !.todo = @ \ {d}]
          /\ reg' = IF load.file[d] = 0 THEN reg
                    ELSE [reg EXCEPT ![d] = load.file[d]]
          /\ marking' = marking \cup {"main"}
    BY <1>9 DEF MergeDevice
  <2>2. load' \in [pc : {"waiting", "merging", "done"}, file : Content,
                   todo : SUBSET Devices]
    BY <1>0, <2>1
  <2>3. load.file[d] \in Versions
    BY <1>0, <2>1 DEF Content
  <2>4. reg' \in Content
    BY <1>0, <2>1, <2>3 DEF Content
  <2>5. TypeOK'
    BY <1>0, <1>9, <2>1, <2>2, <2>4 DEF MergeDevice, TypeOK
  <2> QED BY <1>9, <2>5, StillKeeps DEF MergeDevice
<1>10. CASE LoadDone
  <2>1. TypeOK'
    BY <1>0, <1>10 DEF LoadDone, TypeOK
  <2> QED BY <1>10, <2>1, StillKeeps DEF LoadDone
<1>11. CASE Service
  <2>1. CASE state_persistence_init
    <3>1. TypeOK'
      BY <1>0, <2>1 DEF state_persistence_init, TypeOK
    <3> QED BY <2>1, <3>1, SaversKeep DEF state_persistence_init, ServiceInv
  <2>2. CASE deinit_finishes
    <3>1. TypeOK'
      BY <1>0, <2>2 DEF deinit_finishes, ServiceDown, TypeOK
    <3>2. save["task"].pc = "idle"
      BY <2>2 DEF deinit_finishes, ServiceInv
    <3> QED BY <2>2, <3>1, <3>2, DownKeeps DEF deinit_finishes
  <2> QED BY <1>11, <2>1, <2>2 DEF Service
<1>20. CASE deinit_times_out
  <2>1. /\ save' \in [Savers -> Saves] /\ save'["task"].pc = "idle"
        /\ \A q \in Savers \ {"task"} : save'[q] = save[q]
    BY <1>0, <1>20, NothingType, ReplaceDoes DEF deinit_times_out, psram_task_delete
  <2>2. TypeOK'
    BY <1>0, <1>20, <2>1 DEF deinit_times_out, psram_task_delete, ServiceDown,
                             TypeOK, Saves, Phases
  <2> QED BY <1>20, <2>1, <2>2, DownKeeps DEF deinit_times_out, psram_task_delete
<1>12. CASE state_persistence_deinit
  <2>1. TypeOK'
    BY <1>0, <1>12 DEF state_persistence_deinit, TypeOK
  <2> QED BY <1>12, <2>1, SaversKeep DEF state_persistence_deinit, ServiceInv
<1>13. CASE esp_restart
  <2>1. TypeOK'
    BY <1>0, <1>13 DEF esp_restart, TypeOK
  <2> QED BY <1>13, <2>1, SaversKeep DEF esp_restart, ServiceInv
<1>14. CASE shutdown_handler
  <2>0. /\ restart = "handler"
        /\ UNCHANGED <<mutex, taskRuns, exitRequested, initialized, reboots>>
        /\ save["shutdown"].pc = "idle" /\ ~ deserted
    BY <1>14 DEF shutdown_handler, ServiceInv
  <2>1. CASE initialized /\ restart' = "saving" /\ Goto("shutdown", "lock")
    <3>1. /\ save' \in [Savers -> Saves] /\ save'["shutdown"].pc = "lock"
          /\ \A q \in Savers \ {"shutdown"} : save'[q] = save[q]
      BY <1>0, <2>1, GotoDoes DEF Phases
    <3>2. TypeOK'
      BY <1>0, <1>14, <2>1, <3>1 DEF shutdown_handler, TypeOK, Saves, Phases
    <3>3. HolderHolds'
      BY <2>0, <3>1 DEF ServiceInv, HolderHolds
    <3> QED BY <2>0, <2>1, <3>1, <3>2, <3>3 DEF ServiceInv
  <2>2. CASE restart' = "reboot" /\ UNCHANGED save
    <3>1. TypeOK'
      BY <1>0, <1>14, <2>2 DEF shutdown_handler, TypeOK
    <3> QED BY <2>0, <2>2, <3>1, SaversKeep DEF ServiceInv
  <2> QED BY <1>14, <2>1, <2>2 DEF shutdown_handler
<1>15. CASE state_persistence_erase_all
  <2>1. TypeOK'
    BY <1>0, <1>15, NothingType DEF state_persistence_erase_all, TypeOK
  <2> QED BY <1>15, <2>1, SaversKeep DEF state_persistence_erase_all, ServiceInv
<1>16. CASE RestartAfterErase
  <2>1. TypeOK'
    BY <1>0, <1>16 DEF RestartAfterErase, TypeOK
  <2>2. save["shutdown"].pc = "idle"
    BY <1>16 DEF RestartAfterErase, ServiceInv
  <2> QED BY <1>16, <2>1, <2>2, SaversKeep DEF RestartAfterErase, ServiceInv
<1>17. CASE Reboot
  BY <1>17, BootKeeps DEF Reboot, ServiceInv
<1>18. CASE Crash
  BY <1>18, BootKeeps DEF Crash
<1>19. CASE UNCHANGED vars
  BY <1>19 DEF vars, ServiceInv, TypeOK, HolderHolds
<1> QED BY <1>1, <1>2, <1>3, <1>4, <1>5, <1>6, <1>7, <1>8, <1>9, <1>10, <1>11,
           <1>12, <1>13, <1>14, <1>15, <1>16, <1>17, <1>18, <1>19, <1>20 DEF Next

(***************************************************************************)
(* A saver has the mutex exactly while it works, and the service, its task *)
(* and the restart agree on who may be saving.                             *)
(***************************************************************************)
THEOREM Invariance == Spec => []ServiceInv
<1> QED BY InitialState, StepKeeps, PTL DEF Spec

(***************************************************************************)
(* Every variable keeps its type, whatever saves, joins, failures, stops   *)
(* and restarts interleave.                                                *)
(***************************************************************************)
THEOREM TypeCorrect == Spec => []TypeOK
<1>1. ServiceInv => TypeOK
  BY DEF ServiceInv
<1> QED BY <1>1, Invariance, PTL

(***************************************************************************)
(* Once the service is down its save task is gone, whether deinit() waited *)
(* for it long enough or not, and nobody of the service has the mutex that *)
(* is deleted; so a new start never finds an old task at work.             *)
(***************************************************************************)
THEOREM StoppedIsQuiet == Spec => []DownIsQuiet
<1>1. ServiceInv => DownIsQuiet
  <2> SUFFICES ASSUME ServiceInv, ~ initialized
               PROVE  lock = "none" /\ ~ taskRuns /\ save["task"].pc = "idle"
    BY DEF DownIsQuiet
  <2>1. ~ taskRuns /\ save["task"].pc = "idle"
    BY DEF ServiceInv
  <2>2. lock # "task"
    BY <2>1 DEF ServiceInv, HolderHolds
  <2>3. lock # "shutdown"
    BY DEF ServiceInv, HolderHolds
  <2> QED BY <2>1, <2>2, <2>3 DEF ServiceInv, TypeOK
<1> QED BY <1>1, Invariance, PTL

-------------------------------------------------------------------------------
(***************************************************************************)
(* Of the two saves that take the mutex only one works at a time, and what *)
(* a joining device writes to the temporary file is its summary.           *)
(***************************************************************************)
OwnFileInv ==
  /\ ServiceInv
  /\ save["join"].pc = "write" => save["join"].buf = Summary
  /\ RenamesOwnFile

LEMMA OneWorks ==
  ASSUME ServiceInv, ~ deserted, NEW p \in Locking, NEW q \in Locking,
         save[p].pc \in Working, save[q].pc \in Working
  PROVE  p = q
BY DEF ServiceInv, HolderHolds, Working

\* Another phase than that of a rename, without a file written.
LEMMA AsideOwnFile ==
  ASSUME OwnFileInv, ServiceInv', save' \in [Savers -> Saves],
         temp' \in {temp, Summary, NoFile},
         deserted => deserted',
         \A q \in Locking : save'[q] = save[q] \/ save'[q].pc # "rename",
         save'["join"] = save["join"] \/ save'["join"].pc # "write"
           \/ save'["join"].buf = Summary
  PROVE  OwnFileInv'
BY DEF OwnFileInv, RenamesOwnFile, Summary, Nothing

\* A save's step that is neither the writing nor the end of its writing.
LEMMA NoRename ==
  ASSUME ServiceInv, NEW p \in Savers, SaveStep(p), ~ WriteTemp(p)
  PROVE  save'[p].pc # "rename" /\ (p = "join" => save'[p].pc # "write")
<1>0. TypeOK /\ save \in [Savers -> Saves] /\ save[p] \in Saves
  BY DEF ServiceInv, TypeOK, Saves, Phases
<1>1. /\ After(p) \in Phases \ {"rename", "write"}
      /\ {"check", "clear"} \subseteq Phases \ {"rename", "write"}
      /\ "write" \in Phases
      /\ p = "join" => save[p].pc \in {"idle", "write", "rename", "clear"}
  BY DEF After, Phases, ServiceInv
<1>2. ASSUME NEW pc \in Phases \ {"rename", "write"}, Goto(p, pc)
      PROVE  save'[p].pc # "rename" /\ save'[p].pc # "write"
  BY <1>0, <1>2, GotoDoes
<1>3. CASE TakeMutex(p)
  BY <1>1, <1>2, <1>3 DEF TakeMutex
<1>4. CASE CheckDirty(p) /\ ~ dirty
  BY <1>1, <1>2, <1>4 DEF CheckDirty
<1>5. CASE CheckDirty(p) /\ dirty
  BY <1>0, <1>5 DEF CheckDirty
<1>6. CASE CopyDevice(p)
  BY <1>0, <1>6 DEF CopyDevice
<1>7. CASE LeaveOut(p)
  BY <1>0, <1>7 DEF LeaveOut, Saves
<1>8. CASE CopyDone(p)
  <2>1. Goto(p, "write") /\ p # "join"
    BY <1>1, <1>8 DEF CopyDone
  <2> QED BY <1>0, <1>1, <2>1, GotoDoes
<1>9. CASE RenameTemp(p) \/ FailSave(p) \/ FailRename(p)
  <2>1. \E pc \in Phases \ {"rename", "write"} : Goto(p, pc)
    BY <1>1, <1>9 DEF RenameTemp, FailSave, FailRename, GiveUp
  <2> QED BY <1>2, <2>1
<1> QED BY <1>3, <1>4, <1>5, <1>6, <1>7, <1>8, <1>9 DEF SaveStep

LEMMA OwnFileStep ==
  ASSUME OwnFileInv, [Next]_vars, ServiceInv'
  PROVE  OwnFileInv'
<1> USE DEF tasks, mutex, disk, bounds
<1>0. /\ TypeOK /\ save \in [Savers -> Saves] /\ ServiceInv
      /\ save' \in [Savers -> Saves]
  BY DEF OwnFileInv, ServiceInv, TypeOK, Saves, Phases
<1>1. ASSUME NEW p \in Savers, SaveStep(p)
      PROVE  OwnFileInv'
  <2>1. /\ \A q \in Savers \ {p} : save'[q] = save[q]
        /\ deserted' = deserted
    BY <1>0, <1>1, StepMoves DEF Moves
  <2>2. CASE WriteTemp(p)
    <3>1. Goto(p, "rename") /\ temp' = save[p].buf /\ save[p].pc = "write"
      BY <2>2 DEF WriteTemp
    <3>2. save'[p].buf = save[p].buf /\ save'[p].pc = "rename"
      BY <1>0, <3>1, GotoDoes DEF Phases
    <3>3. CASE p = "join"
      <4>1. temp' = Summary
        BY <3>1, <3>3 DEF OwnFileInv
      <4> QED BY <1>0, <2>1, <3>2, <3>3, <4>1, AsideOwnFile
    <3>4. CASE p # "join"
      <4>1. p \in Locking
        BY <3>4
      <4>2. ASSUME ~ deserted, NEW q \in Locking, q # p
            PROVE  save'[q].pc # "rename"
        <5>1. save[q].pc # "rename"
          BY <1>0, <3>1, <4>1, <4>2, OneWorks DEF Working
        <5> QED BY <2>1, <4>2, <5>1
      <4>3. RenamesOwnFile'
        BY <2>1, <3>1, <3>2, <4>2 DEF RenamesOwnFile
      <4> QED BY <2>1, <3>4, <4>3 DEF OwnFileInv, Summary, Nothing
    <3> QED BY <3>3, <3>4
  <2>3. CASE ~ WriteTemp(p)
    <3>1. temp' \in {temp, NoFile}
      BY <1>1, <2>3 DEF SaveStep, TakeMutex, CheckDirty, CopyDevice, LeaveOut,
                        CopyDone, RenameTemp, FailSave, FailRename
    <3>2. save'[p].pc # "rename" /\ (p = "join" => save'[p].pc # "write")
      BY <1>0, <1>1, <2>3, NoRename
    <3> QED BY <1>0, <2>1, <3>1, <3>2, AsideOwnFile
  <2> QED BY <2>2, <2>3
<1>2. ASSUME NEW p \in Savers, NEW pc \in Phases \ {"rename", "write"},
             Goto(p, pc), UNCHANGED <<temp, deserted>>
      PROVE  OwnFileInv'
  <2>1. save'[p].pc = pc /\ \A q \in Savers \ {p} : save'[q] = save[q]
    BY <1>0, <1>2, GotoDoes
  <2> QED BY <1>0, <1>2, <2>1, AsideOwnFile
<1>3. ASSUME UNCHANGED save, temp' \in {temp, NoFile}, deserted => deserted'
      PROVE  OwnFileInv'
  BY <1>0, <1>3, AsideOwnFile
<1>4. ASSUME Boot PROVE OwnFileInv'
  BY <1>4, NothingType DEF Boot, OwnFileInv, RenamesOwnFile
<1>5. CASE state_persistence_save_immediate
  <2>1. save' = [save EXCEPT !["join"] = [pc |-> "write", buf |-> Summary,
                                          todo |-> {}]]
        /\ UNCHANGED <<temp, deserted>>
    BY <1>5 DEF state_persistence_save_immediate
  <2>2. save'["join"].buf = Summary /\ \A q \in Locking : save'[q] = save[q]
    BY <1>0, <2>1
  <2> QED BY <1>0, <2>1, <2>2, AsideOwnFile
<1>6. CASE save_task_wakes \/ save_task_loops \/ shutdown_handler
           \/ ClearAfterImmediateSave
  <2>1. \/ \E p \in Savers, pc \in Phases \ {"rename", "write"} :
             Goto(p, pc) /\ UNCHANGED <<temp, deserted>>
        \/ UNCHANGED <<save, temp, deserted>>
    BY <1>6 DEF save_task_wakes, save_task_loops, shutdown_handler, Phases,
                ClearAfterImmediateSave
  <2> QED BY <1>2, <1>3, <2>1
<1>7. CASE UNCHANGED vars
  BY <1>3, <1>7 DEF vars
<1>8. CASE deinit_times_out
  <2>1. /\ save' = [save EXCEPT !["task"] = Idle] /\ temp' = temp
        /\ deserted => deserted'
    BY <1>8 DEF deinit_times_out, psram_task_delete, ServiceDown
  <2>2. save'["task"].pc = "idle" /\ \A q \in Savers \ {"task"} : save'[q] = save[q]
    BY <1>0, <2>1, NothingType
  <2> QED BY <1>0, <2>1, <2>2, AsideOwnFile
<1>9. CASE (\E d \in Devices : Report(d))
           \/ (\E t \in marking : state_persistence_mark_dirty(t))
           \/ save_timer_callback \/ state_persistence_load
           \/ MergeDevice \/ LoadDone \/ state_persistence_deinit \/ esp_restart
           \/ state_persistence_erase_all \/ RestartAfterErase
  <2>1. UNCHANGED save /\ temp' \in {temp, NoFile} /\ deserted' = deserted
    BY <1>9 DEF Report, state_persistence_mark_dirty, save_timer_callback,
         MergeDevice, state_persistence_load, LoadDone,
         state_persistence_deinit, esp_restart, state_persistence_erase_all,
         RestartAfterErase
  <2> QED BY <1>3, <2>1
<1>10. CASE state_persistence_init
  <2>1. UNCHANGED <<save, temp, deserted>>
    BY <1>10 DEF state_persistence_init
  <2> QED BY <1>3, <2>1
<1>11. CASE deinit_finishes
  <2>1. UNCHANGED <<save, temp>>
    BY <1>11 DEF deinit_finishes
  <2>2. deserted => deserted'
    BY <1>11 DEF deinit_finishes, ServiceDown
  <2> QED BY <1>3, <2>1, <2>2
<1> QED BY <1>1, <1>4, <1>5, <1>6, <1>7, <1>8, <1>9, <1>10, <1>11
        DEF Next, SaveTask, Service, Reboot, Crash

(***************************************************************************)
(* A save of the service puts its own file in place, or the summary of a   *)
(* joining device that has come in between, and never a file of the other  *)
(* save: the mutex keeps the save task and the shutdown handler apart, as  *)
(* long as deinit() does not delete it under the handler.                  *)
(***************************************************************************)
THEOREM OwnFile == Spec => []RenamesOwnFile
<1>1. Init => OwnFileInv
  BY InitialState, NothingType DEF Init, OwnFileInv, RenamesOwnFile
<1>2. OwnFileInv /\ [Next]_vars /\ ServiceInv' => OwnFileInv'
  BY OwnFileStep
<1>3. OwnFileInv => RenamesOwnFile
  BY DEF OwnFileInv
<1> QED BY <1>1, <1>2, <1>3, Invariance, PTL DEF Spec

-------------------------------------------------------------------------------
(***************************************************************************)
(* No value is forgotten.  First the steps that copy nothing.              *)
(***************************************************************************)
Copying == {"copy", "write", "rename"}

LEMMA AsideSaves ==
  ASSUME SavingInv, ServiceInv',
         \A q \in Locking :
           \/ save'[q] = save[q]
           \/ /\ save'[q].pc \notin Copying
              /\ \/ save[q].pc \notin Copying
                 \/ Noticed' \/ ~ initialized' \/ lost' = Devices,
         \/ restart' # "no"
         \/ Noticed'
         \/ lost' = Devices
         \/ /\ UNCHANGED <<reg, final, restart>> /\ ~ Noticed
            /\ initialized' => initialized
            /\ lost \subseteq lost'
  PROVE  SavingInv'
<1>1. \A q \in Locking : save'[q].pc \in {"write", "rename"} => save'[q].todo = {}
  BY DEF SavingInv, Copying
<1>2. CopiesNoticed'
  <2> SUFFICES ASSUME restart' = "no", NEW q \in Locking, NEW d \in Devices,
                      save'[q].pc \in Copying, ~ Noticed', lost' # Devices
               PROVE  d \in save'[q].todo \/ save'[q].buf[d] = reg'[d] \/ d \in lost'
    BY DEF CopiesNoticed, Copying
  <2>1. save'[q] = save[q]
    OBVIOUS
  <2> QED BY <2>1 DEF SavingInv, CopiesNoticed, Copying
<1>3. UnsavedIsNoticed'
  <2> SUFFICES ASSUME initialized', restart' = "no", NEW d \in Devices,
                      reg'[d] # 0, ~ Noticed', ~ OnFile(d)', d \notin lost'
               PROVE  \E q \in Locking : Carries(q, d)'
    BY DEF UnsavedIsNoticed, Noticed
  <2>1. reg' = reg /\ final' = final /\ ~ Noticed /\ initialized /\ restart = "no"
        /\ d \notin lost
    OBVIOUS
  <2>2. PICK q \in Locking : Carries(q, d)
    BY <2>1 DEF SavingInv, UnsavedIsNoticed, Noticed, OnFile
  <2>3. save'[q] = save[q]
    BY <2>2 DEF Carries, Copying
  <2> QED BY <2>1, <2>2, <2>3 DEF Carries
<1> QED BY <1>1, <1>2, <1>3 DEF SavingInv

\* While no restart is under way the save task is the only one that works.
LEMMA TaskWorks ==
  ASSUME ServiceInv, restart = "no", NEW p \in Locking, save[p].pc # "idle"
  PROVE  p = "task" /\ save["shutdown"].pc = "idle"
BY DEF ServiceInv

\* A saver goes on with its copy.
LEMMA WorkSaves ==
  ASSUME SavingInv, ServiceInv', NEW p \in Locking,
         save[p].pc \in Working, save'[p].pc \in Copying,
         \A q \in Savers \ {p} : save'[q] = save[q],
         UNCHANGED <<reg, initialized, restart, marking, final>>,
         save'[p].pc \in {"write", "rename"} => save'[p].todo = {},
         \/ save'[p].todo = Devices /\ save'[p].pc = "copy"
         \/ /\ save[p].pc \in Copying
            /\ dirty' = dirty /\ lost \subseteq lost'
            /\ \A d \in Devices :
                 \/ save'[p].buf[d] = reg[d]
                 \/ d \in lost'
                 \/ (d \in save[p].todo => d \in save'[p].todo)
                    /\ save'[p].buf[d] = save[p].buf[d]
  PROVE  SavingInv'
<1>0. restart = "no" => p = "task" /\ save'["shutdown"].pc \notin Copying
  BY TaskWorks DEF SavingInv, Working, Copying
<1>1. \A q \in Locking : save'[q].pc \in {"write", "rename"} => save'[q].todo = {}
  BY DEF SavingInv
<1>2. ASSUME NEW d \in Devices, restart = "no", ~ Noticed'
      PROVE  d \in save'[p].todo \/ save'[p].buf[d] = reg[d] \/ d \in lost'
  BY <1>2 DEF SavingInv, CopiesNoticed, Noticed, Copying
<1>3. CopiesNoticed'
  BY <1>0, <1>2 DEF CopiesNoticed, Copying
<1>4. ASSUME NEW d \in Devices, restart = "no", ~ Noticed'
      PROVE  Carries(p, d)' \/ d \in lost'
  <2>1. CASE save'[p].pc = "copy"
    BY <1>2, <1>4, <2>1 DEF Carries
  <2>2. CASE save'[p].pc # "copy"
    <3>1. d \notin save'[p].todo
      BY <2>2 DEF Copying
    <3> QED BY <1>2, <1>4, <3>1 DEF Carries, Copying
  <2> QED BY <2>1, <2>2
<1>5. UnsavedIsNoticed'
  BY <1>4 DEF UnsavedIsNoticed, Noticed
<1> QED BY <1>1, <1>3, <1>5 DEF SavingInv

\* The steps of a save.
LEMMA SaveStepSaves ==
  ASSUME SavingInv, ServiceInv', NEW p \in Locking, SaveStep(p)
  PROVE  SavingInv'
<1> USE DEF tasks, mutex, disk, bounds
<1>0. /\ TypeOK /\ save \in [Savers -> Saves] /\ save[p] \in Saves
      /\ ServiceInv /\ reg \in Content /\ save[p].buf \in Content
  BY DEF SavingInv, ServiceInv, TypeOK, Saves, Phases
<1>1. Moves(p)
  BY <1>0, StepMoves
<1>2. /\ \A q \in Savers \ {p} : save'[q] = save[q]
      /\ UNCHANGED <<reg, marking, initialized, restart>>
  BY <1>1 DEF Moves
<1>3. /\ After(p) \notin Copying /\ After(p) \in Phases
      /\ {"check", "write", "rename"} \subseteq Phases /\ "check" \notin Copying
  BY DEF After, Copying, Phases
<1>4. CASE TakeMutex(p)
  <2>1. save[p].pc \notin Copying /\ save'[p].pc \notin Copying
    BY <1>0, <1>3, <1>4, GotoDoes DEF TakeMutex, Copying
  <2>2. UNCHANGED <<dirty, final, lost>>
    BY <1>4 DEF TakeMutex
  <2> QED BY <1>2, <2>1, <2>2, AsideSaves DEF Noticed
<1>5. CASE CheckDirty(p) /\ ~ dirty
  <2>1. save[p].pc \notin Copying /\ save'[p].pc \notin Copying
    BY <1>0, <1>3, <1>5, GotoDoes DEF CheckDirty, Copying
  <2>2. UNCHANGED <<dirty, final, lost>>
    BY <1>0, <1>5 DEF CheckDirty, TypeOK
  <2> QED BY <1>2, <2>1, <2>2, AsideSaves DEF Noticed
<1>6. CASE CheckDirty(p) /\ dirty
  <2>1. save'[p].pc = "copy" /\ save'[p].todo = Devices
        /\ save[p].pc \in Working /\ final' = final
    BY <1>0, <1>6 DEF CheckDirty, Working
  <2> QED BY <1>2, <2>1, WorkSaves DEF Copying
<1>7. CASE CopyDevice(p)
  <2>1. save[p].pc = "copy" /\ UNCHANGED <<dirty, final, lost>>
    BY <1>7 DEF CopyDevice
  <2>2. PICK d \in save[p].todo :
          save' = [save EXCEPT ![p] = [pc |-> "copy",
                                       buf |-> [save[p].buf EXCEPT ![d] = reg[d]],
                                       todo |-> save[p].todo \ {d}]]
    BY <1>7 DEF CopyDevice
  <2>3. /\ save'[p].pc = "copy" /\ save'[p].todo = save[p].todo \ {d}
        /\ save'[p].buf = [save[p].buf EXCEPT ![d] = reg[d]]
    BY <1>0, <2>2
  <2>4. \A e \in Devices :
          save'[p].buf[e] = IF e = d THEN reg[d] ELSE save[p].buf[e]
    BY <1>0, <2>3 DEF Content
  <2>5. \A e \in Devices :
          \/ save'[p].buf[e] = reg[e]
          \/ (e \in save[p].todo => e \in save'[p].todo)
             /\ save'[p].buf[e] = save[p].buf[e]
    BY <2>3, <2>4
  <2> HIDE <2>2
  <2> QED BY <1>2, <2>1, <2>3, <2>5, WorkSaves DEF Copying, Working
<1>8. CASE LeaveOut(p)
  <2>1. save[p].pc = "copy" /\ UNCHANGED <<dirty, final>>
    BY <1>8 DEF LeaveOut
  <2>2. PICK D \in {Devices} \cup {{d} : d \in Devices} :
          /\ save' = [save EXCEPT ![p].todo = @ \ D]
          /\ lost' = lost \cup D
    BY <1>8 DEF LeaveOut
  <2>3. /\ save'[p].pc = "copy" /\ save'[p].todo = save[p].todo \ D
        /\ save'[p].buf = save[p].buf
    BY <1>0, <2>1, <2>2 DEF Saves
  <2>4. \A e \in Devices :
          \/ e \in lost'
          \/ (e \in save[p].todo => e \in save'[p].todo)
             /\ save'[p].buf[e] = save[p].buf[e]
    BY <2>2, <2>3
  <2>5. lost \subseteq lost'
    BY <2>2
  <2> HIDE <2>2
  <2> QED BY <1>2, <2>1, <2>3, <2>4, <2>5, WorkSaves DEF Copying, Working
<1>9. CASE CopyDone(p) \/ WriteTemp(p)
  <2>1. /\ save'[p].buf = save[p].buf /\ save'[p].todo = save[p].todo
        /\ save[p].pc \in {"copy", "write"} /\ save'[p].pc \in {"write", "rename"}
        /\ save[p].todo = {} /\ UNCHANGED <<dirty, final, lost>>
    BY <1>0, <1>3, <1>9, GotoDoes DEF CopyDone, WriteTemp, SavingInv
  <2> QED BY <1>2, <2>1, WorkSaves DEF Copying, Working
<1>10. CASE RenameTemp(p)
  <2>1. save'[p].pc \notin Copying
    BY <1>0, <1>3, <1>10, GotoDoes DEF RenameTemp
  <2>2. CASE temp # save[p].buf
    <3>1. lost' = Devices
      BY <1>10, <2>2 DEF RenameTemp, AfterRename
    <3> QED BY <1>2, <2>1, <3>1, AsideSaves
  <2>3. CASE temp = save[p].buf
    <3>1. /\ save[p].pc = "rename" /\ final' = save[p].buf /\ dirty' = dirty
          /\ save[p].todo = {} /\ lost' = lost
      BY <1>10, <2>3 DEF RenameTemp, AfterRename, SavingInv
    <3>2. NoFile \notin Content
      BY DEF Content, Versions
    <3>3. ASSUME NEW d \in Devices, restart = "no", ~ Noticed, d \notin lost
          PROVE  OnFile(d)'
      BY <1>0, <1>2, <3>1, <3>2, <3>3 DEF OnFile, SavingInv, CopiesNoticed
    <3>4. UnsavedIsNoticed'
      BY <1>2, <3>1, <3>3 DEF UnsavedIsNoticed, Noticed
    <3>5. CopiesNoticed'
      BY <1>2, <2>1, <3>1 DEF SavingInv, CopiesNoticed, Noticed, Copying
    <3>6. \A q \in Locking : save'[q].pc \in {"write", "rename"} => save'[q].todo = {}
      BY <1>2, <2>1 DEF SavingInv, Copying
    <3> QED BY <3>4, <3>5, <3>6 DEF SavingInv
  <2> QED BY <2>2, <2>3
<1>11. CASE FailSave(p) \/ FailRename(p)
  <2>1. GiveUp(p) /\ dirty'
    BY <1>11 DEF FailSave, FailRename, GiveUp, DirtyAfterFailure
  <2>2. save'[p].pc \notin Copying /\ final' = final
    BY <1>0, <1>3, <2>1, GotoDoes DEF GiveUp
  <2> QED BY <1>2, <2>1, <2>2, AsideSaves DEF Noticed
<1> QED BY <1>4, <1>5, <1>6, <1>7, <1>8, <1>9, <1>10, <1>11 DEF SaveStep

\* The joining device's save never copies: when it puts a file in place, all
\* values may be lost.
LEMMA JoinStepSaves ==
  ASSUME SavingInv, ServiceInv', SaveStep("join")
  PROVE  SavingInv'
<1> USE DEF tasks, mutex, disk, bounds
<1>0. ServiceInv /\ TypeOK
  BY DEF SavingInv, ServiceInv
<1>1. /\ \A q \in Locking : save'[q] = save[q]
      /\ UNCHANGED <<reg, marking, initialized, restart>>
  BY <1>0, StepMoves DEF Moves
<1>2. CASE RenameTemp("join")
  <2>1. lost' = Devices
    BY <1>2 DEF RenameTemp, AfterRename
  <2> QED BY <1>1, <2>1, AsideSaves
<1>3. CASE ~ RenameTemp("join")
  <2>1. UNCHANGED <<final, dirty, lost>>
    BY <1>0, <1>3 DEF ServiceInv, TypeOK, SaveStep, TakeMutex, CheckDirty,
           CopyDevice, LeaveOut, CopyDone, WriteTemp, FailSave, FailRename,
           GiveUp, DirtyAfterFailure
  <2> QED BY <1>1, <2>1, AsideSaves DEF Noticed
<1> QED BY <1>2, <1>3

LEMMA SavingStep ==
  ASSUME SavingInv, ServiceInv', [Next]_vars
  PROVE  SavingInv'
<1> USE DEF tasks, mutex, disk, bounds
<1>0. TypeOK /\ save \in [Savers -> Saves] /\ ServiceInv
  BY DEF SavingInv, ServiceInv, TypeOK, Saves, Phases
<1>1. ASSUME NEW d \in Devices, Report(d) PROVE SavingInv'
  BY <1>1, AsideSaves DEF Report, Noticed
<1>2. ASSUME NEW t \in marking, state_persistence_mark_dirty(t) PROVE SavingInv'
  BY <1>2, AsideSaves DEF state_persistence_mark_dirty, Noticed
<1>3. ASSUME NEW p \in Savers, SaveStep(p) PROVE SavingInv'
  BY <1>3, SaveStepSaves, JoinStepSaves
<1>4. CASE save_task_wakes \/ save_task_loops
  <2>1. \E pc \in Phases \ Copying : Goto("task", pc)
    BY <1>4 DEF save_task_wakes, save_task_loops, Phases, Copying
  <2>2. /\ save["task"].pc \notin Copying
        /\ UNCHANGED <<reg, marking, dirty, initialized, final, restart, lost>>
    BY <1>4 DEF save_task_wakes, save_task_loops, Copying
  <2>3. /\ save'["task"].pc \notin Copying
        /\ save'["shutdown"] = save["shutdown"]
    BY <1>0, <2>1, GotoDoes
  <2> QED BY <2>2, <2>3, AsideSaves DEF Noticed
<1>5. CASE save_timer_callback \/ state_persistence_load \/ LoadDone
  <2>1. UNCHANGED <<reg, marking, dirty, initialized, save, final, restart, lost>>
    BY <1>5 DEF save_timer_callback, state_persistence_load, LoadDone
  <2> QED BY <2>1, AsideSaves DEF Noticed
<1>6. CASE state_persistence_save_immediate
  <2>1. UNCHANGED <<reg, marking, dirty, initialized, final, restart, lost>>
        /\ \A q \in Locking : save'[q] = save[q]
    BY <1>0, <1>6 DEF state_persistence_save_immediate
  <2> QED BY <2>1, AsideSaves DEF Noticed
<1>7. CASE ClearAfterImmediateSave
  <2>1. \A q \in Locking : save'[q] = save[q]
    BY <1>0, <1>7, GotoDoes DEF ClearAfterImmediateSave, Phases
  <2>2. CASE initialized
    <3>1. lost' = Devices
      BY <1>7, <2>2 DEF ClearAfterImmediateSave
    <3> QED BY <2>1, <3>1, AsideSaves
  <2>3. CASE ~ initialized
    <3>1. UNCHANGED <<reg, marking, initialized, final, restart, lost>>
      BY <1>7, <2>3 DEF ClearAfterImmediateSave
    <3>2. Noticed' <=> Noticed
      BY <1>7, <2>3 DEF ClearAfterImmediateSave, Noticed
    <3> QED BY <2>1, <3>1, <3>2, AsideSaves
  <2> QED BY <2>2, <2>3
<1>8. CASE MergeDevice
  <2>1. marking' # {} /\ UNCHANGED save
    BY <1>8 DEF MergeDevice
  <2> QED BY <2>1, AsideSaves DEF Noticed
<1>9. CASE state_persistence_init
  <2>1. UNCHANGED <<reg, save, restart>> /\ lost' = {d \in Devices : reg[d] # 0}
        /\ ~ initialized
    BY <1>9 DEF state_persistence_init
  <2>2. UnsavedIsNoticed'
    BY <2>1 DEF UnsavedIsNoticed
  <2>3. restart = "no" => \A q \in Locking : save[q].pc = "idle"
    BY <1>0, <2>1 DEF ServiceInv
  <2>4. CopiesNoticed'
    BY <2>1, <2>3 DEF CopiesNoticed
  <2> QED BY <2>1, <2>2, <2>4 DEF SavingInv
<1>10. CASE state_persistence_deinit
  <2>1. dirty' /\ UNCHANGED save
    BY <1>10 DEF state_persistence_deinit
  <2> QED BY <2>1, AsideSaves DEF Noticed
<1>11. CASE deinit_finishes
  <2>1. UNCHANGED <<reg, marking, dirty, save, final, restart, lost>>
        /\ ~ initialized'
    BY <1>11 DEF deinit_finishes, ServiceDown
  <2> QED BY <2>1, AsideSaves DEF Noticed
<1>12. CASE deinit_times_out
  <2>1. UNCHANGED <<reg, marking, dirty, final, restart, lost>> /\ ~ initialized'
    BY <1>12 DEF deinit_times_out, ServiceDown
  <2>2. save'["task"].pc = "idle" /\ save'["shutdown"] = save["shutdown"]
    BY <1>0, <1>12, NothingType DEF deinit_times_out, psram_task_delete
  <2> QED BY <2>1, <2>2, AsideSaves DEF Noticed, Copying
<1>13. CASE esp_restart \/ state_persistence_erase_all \/ RestartAfterErase
  <2>1. restart' # "no" /\ UNCHANGED save
    BY <1>13 DEF esp_restart, state_persistence_erase_all, RestartAfterErase
  <2> QED BY <2>1, AsideSaves
<1>14. CASE shutdown_handler
  <2>1. restart' # "no" /\ save["shutdown"].pc = "idle"
    BY <1>0, <1>14 DEF shutdown_handler, ServiceInv
  <2>2. CASE Goto("shutdown", "lock")
    <3>1. save'["shutdown"].pc = "lock" /\ save'["task"] = save["task"]
      BY <1>0, <2>2, GotoDoes DEF Phases
    <3> QED BY <2>1, <3>1, AsideSaves DEF Copying
  <2>3. CASE UNCHANGED save
    BY <2>1, <2>3, AsideSaves
  <2> QED BY <1>14, <2>2, <2>3 DEF shutdown_handler
<1>15. ASSUME Boot PROVE SavingInv'
  <2>1. (\A q \in Savers : save'[q].pc = "idle") /\ ~ initialized'
    BY <1>15, NothingType DEF Boot
  <2> QED BY <2>1 DEF SavingInv, CopiesNoticed, UnsavedIsNoticed
<1>16. CASE UNCHANGED vars
  BY <1>16 DEF vars, SavingInv, CopiesNoticed, UnsavedIsNoticed, Noticed,
               OnFile, Carries
<1> QED BY <1>1, <1>2, <1>3, <1>4, <1>5, <1>6, <1>7, <1>8, <1>9, <1>10, <1>11,
           <1>12, <1>13, <1>14, <1>15, <1>16
        DEF Next, SaveTask, Service, Reboot, Crash

(***************************************************************************)
(* A measured value that is not on file is on its way, whatever reports,   *)
(* saves, joins, loads, stops, failures and crashes come together, unless  *)
(* since the last save began a save left its device out, a join has put    *)
(* its file in place or cleared the flag, or init() has cleared it:        *)
(* clearing the flag before the copy loses no change, nor does a failed    *)
(* save.                                                                   *)
(***************************************************************************)
THEOREM NothingForgotten == Spec => []UnsavedIsNoticed
<1>1. Init => SavingInv
  BY InitialState, NothingType DEF Init, SavingInv, CopiesNoticed,
                                   UnsavedIsNoticed
<1>2. SavingInv /\ [Next]_vars /\ ServiceInv' => SavingInv'
  BY SavingStep
<1>3. SavingInv => UnsavedIsNoticed
  BY DEF SavingInv
<1> QED BY <1>1, <1>2, <1>3, Invariance, PTL DEF Spec
=============================================================================
