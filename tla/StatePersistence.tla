--------------------------- MODULE StatePersistence ---------------------------
(***************************************************************************)
(* Persistence of device state (src/main/core/state_persistence.c): the    *)
(* registry's state is copied to a file on LittleFS when it is dirty, and  *)
(* merged back into the registry after a reboot.                           *)
(*                                                                         *)
(* Three tasks write the file through the same temporary file: the save    *)
(* task, woken by a timer; the shutdown handler, in the task that calls    *)
(* esp_restart(); and the Zigbee task, which saves "immediately" whenever  *)
(* a device joins.  Only the first two take s_save_mutex.  Reports of the  *)
(* devices go on all the time.                                             *)
(*                                                                         *)
(* A device's measured state is the number of the report it stems from,    *)
(* 0 when there is none.  Of a device's state the file may hold less: the  *)
(* summary device_state_to_json() writes has no measured value at all, and *)
(* a save that runs out of memory leaves devices out.                      *)
(***************************************************************************)
EXTENDS Integers, FiniteSets

CONSTANTS
  Devices,        \* the devices in the registry
  NoFile,         \* a file that does not exist
  MaxReports,     \* bound: reports of devices
  MaxFailures,    \* bound: failed saves and saves that leave something out
  MaxReboots,     \* bound: crashes and restarts
  MaxJoins,       \* bound: devices that join
  MaxStops        \* bound: times the service is stopped (OTA phase)

ASSUME BoundsAssumption ==
  /\ {MaxReports, MaxFailures, MaxReboots, MaxJoins, MaxStops} \subseteq Nat
  /\ NoFile \notin [Devices -> 0 .. MaxReports]

VARIABLES
  reg,            \* the registry's measured state of each device
  marking,        \* tasks that changed the registry and have not marked it yet
  dirty,          \* s_dirty
  initialized,    \* s_initialized
  started,        \* the Zigbee stack runs: it starts after the first init
  exitRequested,  \* s_task_exit_requested: deinit() waits for the save task
  taskRuns,       \* the save task exists
  notified,       \* the save task has a notification pending
  lock,           \* holder of s_save_mutex
  deserted,       \* deinit() has deleted it under the shutdown handler
  save,           \* per saver, how far its save has come
  load,           \* how far state_persistence_load_and_publish() has come
  final, temp,    \* state.json and state.tmp
  restart,        \* how far esp_restart() has come
  lost,           \* history: devices whose value was dropped since a save last
                  \* began to copy: a save left it out, a join cleared the flag
                  \* or replaced the file, or init() cleared the flag
  reports, failures, reboots, joins, stops   \* how much of each bound is used

tasks  == <<started, exitRequested, taskRuns, notified>>
mutex  == <<lock, deserted>>
disk   == <<final, temp>>
bounds == <<reports, failures, reboots, joins, stops>>
vars   == <<reg, marking, dirty, initialized, tasks, mutex, save, load, disk,
            restart, lost, bounds>>

Versions == 0 .. MaxReports
Content  == [Devices -> Versions]
Nothing  == [d \in Devices |-> 0]
Savers   == {"task", "shutdown", "join"}
Locking  == {"task", "shutdown"}    \* those that call state_persistence_save()

Idle == [pc |-> "idle", buf |-> Nothing, todo |-> {}]

TypeOK ==
  /\ reg \in Content
  /\ marking \subseteq {"zigbee", "main"}
  /\ {dirty, initialized, started, exitRequested, taskRuns, notified, deserted}
       \subseteq BOOLEAN
  /\ lock \in Locking \cup {"none"}
  /\ save \in [Savers -> [pc : {"idle", "lock", "check", "copy", "write",
                                "rename", "clear", "exit"},
                          buf : Content, todo : SUBSET Devices]]
  /\ load \in [pc : {"waiting", "merging", "done"}, file : Content,
               todo : SUBSET Devices]
  /\ final \in Content \cup {NoFile}
  /\ temp \in Content \cup {NoFile}
  /\ restart \in {"no", "erased", "handler", "saving", "reboot"}
  /\ lost \subseteq Devices
  /\ reports \in Versions /\ failures \in 0 .. MaxFailures
  /\ reboots \in 0 .. MaxReboots /\ joins \in 0 .. MaxJoins
  /\ stops \in 0 .. MaxStops

-------------------------------------------------------------------------------
(***************************************************************************)
(* device_registry_merge_state() changes the state under the registry's    *)
(* mutex and marks the cache dirty after it has released it.               *)
(***************************************************************************)
Report(d) ==
  /\ started
  /\ reports < MaxReports
  /\ "zigbee" \notin marking
  /\ save["join"].pc = "idle"      \* reports and joins share the Zigbee task
  /\ reports' = reports + 1
  /\ reg' = [reg EXCEPT ![d] = reports + 1]
  /\ marking' = marking \cup {"zigbee"}
  /\ UNCHANGED <<dirty, initialized, tasks, mutex, save, load, disk, restart,
                 lost, failures, reboots, joins, stops>>

state_persistence_mark_dirty(t) ==
  /\ t \in marking
  /\ dirty' = TRUE
  /\ marking' = marking \ {t}
  /\ UNCHANGED <<reg, initialized, tasks, mutex, save, load, disk, restart,
                 lost, bounds>>

-------------------------------------------------------------------------------
(***************************************************************************)
(* state_persistence_save() up to the point where it starts to copy.  It   *)
(* is assumed that a save that has the mutex is over within the 5 s others *)
(* wait for it: the result of the wait is not looked at.                   *)
(***************************************************************************)
Goto(p, pc) == save' = [save EXCEPT ![p].pc = pc]

After(p) == IF p = "task" THEN "exit" ELSE "idle"

\* Mutation: the mutex is not waited for.
TakeMutex_unchecked(p) ==
  /\ save[p].pc = "lock"
  /\ lock' = p
  /\ Goto(p, "check")
  /\ UNCHANGED <<reg, marking, dirty, initialized, tasks, deserted, load, disk,
                 restart, lost, bounds>>

\* The handler's wait for a mutex that is deleted meanwhile ends without it.
TakeMutex(p) ==
  /\ save[p].pc = "lock"
  /\ IF p = "shutdown" /\ deserted THEN lock' = lock
                                  ELSE lock = "none" /\ lock' = p
  /\ Goto(p, "check")
  /\ UNCHANGED <<reg, marking, dirty, initialized, tasks, deserted, load, disk,
                 restart, lost, bounds>>

Release(p) == IF lock = p THEN "none" ELSE lock

\* The flag is looked at again under the mutex and cleared before the copy.
CheckDirty(p) ==
  /\ save[p].pc = "check"
  /\ dirty' = FALSE
  /\ IF dirty
     THEN /\ save' = [save EXCEPT ![p] = [pc |-> "copy", buf |-> Nothing,
                                          todo |-> Devices]]
          /\ lost' = {}
          /\ UNCHANGED lock
     ELSE /\ Goto(p, After(p))
          /\ lock' = Release(p)
          /\ UNCHANGED lost
  /\ UNCHANGED <<reg, marking, initialized, tasks, deserted, load, disk, restart, bounds>>

\* device_registry_state_dup() takes the registry's mutex device by device.
CopyDevice(p) ==
  /\ save[p].pc = "copy"
  /\ \E d \in save[p].todo :
       save' = [save EXCEPT ![p] = [pc |-> "copy",
                                    buf |-> [save[p].buf EXCEPT ![d] = reg[d]],
                                    todo |-> save[p].todo \ {d}]]
  /\ UNCHANGED <<reg, marking, dirty, initialized, tasks, mutex, load, disk,
                 restart, lost, bounds>>

\* Without memory for the state of a device its summary is copied, or nothing,
\* and without the list of the devices none is copied at all.  The save goes
\* on, and nothing marks the state dirty again.
LeaveOut(p) ==
  /\ save[p].pc = "copy"
  /\ failures < MaxFailures
  /\ failures' = failures + 1
  /\ \E D \in {Devices} \cup {{d} : d \in Devices} :
       /\ D \subseteq save[p].todo
       /\ save' = [save EXCEPT ![p].todo = @ \ D]
       /\ lost' = lost \cup D
  /\ UNCHANGED <<reg, marking, dirty, initialized, tasks, mutex, load, disk,
                 restart, reports, reboots, joins, stops>>

CopyDone(p) ==
  /\ save[p].pc = "copy"
  /\ save[p].todo = {}
  /\ Goto(p, "write")
  /\ UNCHANGED <<reg, marking, dirty, initialized, tasks, mutex, load, disk,
                 restart, lost, bounds>>

-------------------------------------------------------------------------------
(***************************************************************************)
(* Writing the temporary file and renaming it, the same two steps in both  *)
(* save functions.  When one fails, state_persistence_save() marks the     *)
(* state dirty again and the immediate save leaves the flag alone.         *)
(***************************************************************************)
WriteTemp(p) ==
  /\ save[p].pc = "write"
  /\ temp' = save[p].buf
  /\ Goto(p, "rename")
  /\ UNCHANGED <<reg, marking, dirty, initialized, tasks, mutex, load, final,
                 restart, lost, bounds>>

\* Only a save of the service that renames its own file has put all it copied
\* in place.
AfterRename(p) == IF p \in Locking /\ temp = save[p].buf THEN lost ELSE Devices

\* Mutation: the flag is cleared when the file is in place, not before.
RenameTemp_clearing_flag(p) ==
  /\ save[p].pc = "rename"
  /\ temp # NoFile
  /\ final' = temp
  /\ temp' = NoFile
  /\ lock' = Release(p)
  /\ lost' = AfterRename(p)
  /\ dirty' = FALSE
  /\ Goto(p, IF p \in Locking THEN After(p) ELSE "clear")
  /\ UNCHANGED <<reg, marking, initialized, tasks, deserted, load, restart,
                 bounds>>

RenameTemp(p) ==
  /\ save[p].pc = "rename"
  /\ temp # NoFile
  /\ final' = temp
  /\ temp' = NoFile
  /\ lock' = Release(p)
  /\ lost' = AfterRename(p)
  /\ Goto(p, IF p \in Locking THEN After(p) ELSE "clear")
  /\ UNCHANGED <<reg, marking, dirty, initialized, tasks, deserted, load, restart, bounds>>

\* Mutation: a failed save does not mark the state dirty again.
DirtyAfterFailure_not(p) == dirty

DirtyAfterFailure(p) == dirty \/ p \in Locking

GiveUp(p) ==
  /\ dirty' = DirtyAfterFailure(p)
  /\ lock' = Release(p)
  /\ Goto(p, After(p))
  /\ UNCHANGED <<reg, marking, initialized, tasks, deserted, load, final,
                 restart, lost, reports, reboots, joins, stops>>

\* No memory, a full buffer or no file leave the temporary file as it is; an
\* incomplete write and a failed rename remove it, whoever wrote it.
FailSave(p) ==
  /\ failures < MaxFailures
  /\ failures' = failures + 1
  /\ \/ save[p].pc = "write" /\ temp' \in {temp, NoFile}
     \/ save[p].pc = "rename" /\ temp' = NoFile
  /\ GiveUp(p)

\* rename() finds no temporary file because another save has renamed it.
FailRename(p) ==
  /\ save[p].pc = "rename"
  /\ temp = NoFile
  /\ GiveUp(p)
  /\ UNCHANGED <<temp, failures>>

-------------------------------------------------------------------------------
(***************************************************************************)
(* save_task_fn() and the timer that notifies it.  The task looks at the   *)
(* exit flag after every save.                                             *)
(***************************************************************************)
save_timer_callback ==
  /\ initialized
  /\ ~ exitRequested
  /\ taskRuns
  /\ dirty
  /\ ~ notified
  /\ notified' = TRUE
  /\ UNCHANGED <<reg, marking, dirty, initialized, started, exitRequested,
                 taskRuns, mutex, save, load, disk, restart, lost, bounds>>

save_task_wakes ==
  /\ taskRuns
  /\ notified
  /\ save["task"].pc = "idle"
  /\ notified' = FALSE
  /\ Goto("task", IF dirty /\ initialized THEN "lock" ELSE "exit")
  /\ UNCHANGED <<reg, marking, dirty, initialized, started, exitRequested,
                 taskRuns, mutex, load, disk, restart, lost, bounds>>

\* Mutation: the task stays as long as there is something to save.
SaveTaskEnds_when_clean == exitRequested /\ ~ dirty

SaveTaskEnds == exitRequested

save_task_loops ==
  /\ save["task"].pc = "exit"
  /\ taskRuns' = ~ SaveTaskEnds
  /\ Goto("task", "idle")
  /\ UNCHANGED <<reg, marking, dirty, initialized, started, exitRequested,
                 notified, mutex, load, disk, restart, lost, bounds>>

-------------------------------------------------------------------------------
(***************************************************************************)
(* state_persistence_save_immediate(), called by the Zigbee task for every *)
(* device that joins, whether the service is initialized or not.  What it  *)
(* writes is the summary of each device.                                   *)
(***************************************************************************)
Summary == Nothing

state_persistence_save_immediate ==
  /\ started
  /\ joins < MaxJoins
  /\ joins' = joins + 1
  /\ "zigbee" \notin marking
  /\ save["join"].pc = "idle"
  /\ save' = [save EXCEPT !["join"] = [pc |-> "write", buf |-> Summary,
                                       todo |-> {}]]
  /\ UNCHANGED <<reg, marking, dirty, initialized, tasks, mutex, load, disk,
                 restart, lost, reports, failures, reboots, stops>>

\* "Clear dirty flag if initialized - we just saved everything".
ClearAfterImmediateSave ==
  /\ save["join"].pc = "clear"
  /\ dirty' = (dirty /\ ~ initialized)
  /\ lost' = IF initialized THEN Devices ELSE lost
  /\ Goto("join", "idle")
  /\ UNCHANGED <<reg, marking, initialized, tasks, mutex, load, disk, restart, bounds>>

-------------------------------------------------------------------------------
(***************************************************************************)
(* state_persistence_load_and_publish(), called by the main task once the  *)
(* MQTT bridge is up: it reads the file at once and merges it into the     *)
(* registry device by device.                                              *)
(***************************************************************************)
\* Mutation: the file is read without a look whether it exists.
state_persistence_load_unchecked ==
  /\ initialized
  /\ load.pc = "waiting"
  /\ load' = [pc |-> "merging", file |-> final, todo |-> Devices]
  /\ UNCHANGED <<reg, marking, dirty, initialized, tasks, mutex, save, disk,
                 restart, lost, bounds>>

state_persistence_load ==
  /\ initialized
  /\ load.pc = "waiting"
  /\ load' = IF final = NoFile
             THEN [load EXCEPT !.pc = "done"]
             ELSE [pc |-> "merging", file |-> final, todo |-> Devices]
  /\ UNCHANGED <<reg, marking, dirty, initialized, tasks, mutex, save, disk,
                 restart, lost, bounds>>

MergeDevice ==
  /\ load.pc = "merging"
  /\ "main" \notin marking
  /\ \E d \in load.todo :
       /\ load' = [load EXCEPT !.todo = @ \ {d}]
       /\ reg' = IF load.file[d] = 0 THEN reg
                 ELSE [reg EXCEPT ![d] = load.file[d]]
       /\ marking' = marking \cup {"main"}
  /\ UNCHANGED <<dirty, initialized, tasks, mutex, save, disk, restart, lost,
                 bounds>>

LoadDone ==
  /\ load.pc = "merging"
  /\ load.todo = {}
  /\ load' = [load EXCEPT !.pc = "done"]
  /\ UNCHANGED <<reg, marking, dirty, initialized, tasks, mutex, save, disk,
                 restart, lost, bounds>>

-------------------------------------------------------------------------------
(***************************************************************************)
(* Starting the service, at boot and when the lifecycle manager leaves the *)
(* OTA phase, and stopping it when that phase is entered.                  *)
(***************************************************************************)
state_persistence_init ==
  /\ ~ initialized
  /\ initialized' = TRUE
  /\ started' = TRUE
  /\ dirty' = FALSE
  /\ taskRuns' = TRUE
  /\ notified' = FALSE
  /\ lost' = {d \in Devices : reg[d] # 0}
  /\ UNCHANGED <<reg, marking, exitRequested, mutex, save, load, disk, restart, bounds>>

\* The timer is stopped and the save task told to save and exit.
state_persistence_deinit ==
  /\ initialized
  /\ ~ exitRequested
  /\ stops < MaxStops
  /\ stops' = stops + 1
  /\ exitRequested' = TRUE
  /\ dirty' = TRUE
  /\ notified' = TRUE
  /\ UNCHANGED <<reg, marking, initialized, started, taskRuns, mutex, save, load,
                 disk, restart, lost, reports, failures, reboots, joins>>

\* The mutex is deleted, whoever has it or waits for it.
ServiceDown ==
  /\ exitRequested' = FALSE
  /\ initialized' = FALSE
  /\ lock' = "none"
  /\ deserted' = (deserted \/ save["shutdown"].pc # "idle")

\* The save task has signalled its end.
deinit_finishes ==
  /\ exitRequested
  /\ ~ taskRuns
  /\ ServiceDown
  /\ UNCHANGED <<reg, marking, dirty, started, taskRuns, notified, save, load,
                 disk, restart, lost, bounds>>

\* Mutation: the task is left alone, as the comment at the timeout wants it.
psram_task_delete_not == UNCHANGED <<taskRuns, notified, save>>

\* The task is deleted wherever it is.
psram_task_delete ==
  /\ taskRuns' = FALSE
  /\ notified' = FALSE
  /\ save' = [save EXCEPT !["task"] = Idle]

\* The save task has not signalled within 7 s, which it may spend waiting for
\* the mutex or, with its low priority, for the processor.
deinit_times_out ==
  /\ exitRequested
  /\ taskRuns
  /\ psram_task_delete
  /\ ServiceDown
  /\ UNCHANGED <<reg, marking, dirty, started, load, disk, restart, lost,
                 bounds>>

-------------------------------------------------------------------------------
(***************************************************************************)
(* Reboots.  esp_restart() runs the shutdown handler in its caller's task  *)
(* while the other tasks go on; deinit() has unregistered the handler.     *)
(***************************************************************************)
esp_restart ==
  /\ restart = "no"
  /\ reboots < MaxReboots
  /\ restart' = "handler"
  /\ UNCHANGED <<reg, marking, dirty, initialized, tasks, mutex, save, load,
                 disk, lost, bounds>>

shutdown_handler ==
  /\ restart = "handler"
  /\ IF initialized /\ ~ exitRequested /\ dirty
     THEN restart' = "saving" /\ Goto("shutdown", "lock")
     ELSE restart' = "reboot" /\ UNCHANGED save
  /\ UNCHANGED <<reg, marking, dirty, initialized, tasks, mutex, load, disk,
                 lost, bounds>>

\* A network reset erases the state and restarts.
state_persistence_erase_all ==
  /\ initialized
  /\ restart = "no"
  /\ reboots < MaxReboots
  /\ final' = NoFile
  /\ temp' = NoFile
  /\ dirty' = FALSE
  /\ restart' = "erased"
  /\ UNCHANGED <<reg, marking, initialized, tasks, mutex, save, load, lost,
                 bounds>>

RestartAfterErase ==
  /\ restart = "erased"
  /\ restart' = "handler"
  /\ UNCHANGED <<reg, marking, dirty, initialized, tasks, mutex, save, load,
                 disk, lost, bounds>>

Boot ==
  /\ reboots' = reboots + 1
  /\ reg' = Nothing
  /\ marking' = {}
  /\ dirty' = FALSE
  /\ initialized' = FALSE
  /\ started' = FALSE
  /\ exitRequested' = FALSE
  /\ taskRuns' = FALSE
  /\ notified' = FALSE
  /\ lock' = "none"
  /\ deserted' = FALSE
  /\ save' = [p \in Savers |-> Idle]
  /\ load' = [pc |-> "waiting", file |-> Nothing, todo |-> {}]
  /\ restart' = "no"
  /\ lost' = {}
  /\ UNCHANGED <<disk, reports, failures, joins, stops>>

\* The handlers have run and the scheduler stops.
Reboot ==
  /\ \/ restart = "reboot"
     \/ restart = "saving" /\ save["shutdown"].pc = "idle"
  /\ Boot

Crash ==
  /\ reboots < MaxReboots
  /\ Boot

-------------------------------------------------------------------------------
Init ==
  /\ reg = Nothing
  /\ marking = {}
  /\ dirty = FALSE
  /\ initialized = FALSE
  /\ started = FALSE
  /\ exitRequested = FALSE
  /\ taskRuns = FALSE
  /\ notified = FALSE
  /\ lock = "none" /\ deserted = FALSE
  /\ save = [p \in Savers |-> Idle]
  /\ load = [pc |-> "waiting", file |-> Nothing, todo |-> {}]
  /\ final = NoFile
  /\ temp = NoFile
  /\ restart = "no"
  /\ lost = {}
  /\ reports = 0 /\ failures = 0 /\ reboots = 0 /\ joins = 0 /\ stops = 0

SaveStep(p) ==
  \/ TakeMutex(p)
  \/ CheckDirty(p)
  \/ CopyDevice(p)
  \/ LeaveOut(p)
  \/ CopyDone(p)
  \/ WriteTemp(p)
  \/ RenameTemp(p)
  \/ FailSave(p)
  \/ FailRename(p)

SaveTask == save_task_wakes \/ save_task_loops \/ SaveStep("task")

Service == state_persistence_init \/ deinit_finishes

Next ==
  \/ \E d \in Devices : Report(d)
  \/ \E t \in marking : state_persistence_mark_dirty(t)
  \/ \E p \in {"shutdown", "join"} : SaveStep(p)
  \/ SaveTask
  \/ save_timer_callback
  \/ state_persistence_save_immediate
  \/ ClearAfterImmediateSave
  \/ state_persistence_load
  \/ MergeDevice
  \/ LoadDone
  \/ Service
  \/ state_persistence_deinit
  \/ deinit_times_out
  \/ esp_restart
  \/ shutdown_handler
  \/ state_persistence_erase_all
  \/ RestartAfterErase
  \/ Reboot
  \/ Crash

Spec == Init /\ [][Next]_vars

(***************************************************************************)
(* Every task that has something to do gets the processor: the scheduler   *)
(* is preemptive and no task spins, and the timer is periodic.  Reports,   *)
(* joins, loads, stops and restarts may or may not happen.                 *)
(***************************************************************************)
FairSpec ==
  /\ Spec
  /\ WF_vars(\E t \in marking : state_persistence_mark_dirty(t))
  /\ WF_vars(SaveTask)
  /\ WF_vars(SaveStep("join") \/ ClearAfterImmediateSave)
  /\ WF_vars(save_timer_callback)
  /\ WF_vars(MergeDevice \/ LoadDone)
  /\ WF_vars(Service)
  /\ WF_vars(\/ RestartAfterErase \/ shutdown_handler
             \/ SaveStep("shutdown") \/ Reboot)

-------------------------------------------------------------------------------
(***************************************************************************)
(* A measured value that the file does not have is on its way: the state   *)
(* is marked dirty or about to be, or a save is under way that has the     *)
(* value or will still copy it.  This is what "any new changes during save *)
(* will re-set it" in state_persistence_save() promises.  There are no     *)
(* other ways to drop a value than those recorded in lost.                 *)
(***************************************************************************)
OnFile(d) == final # NoFile /\ final[d] = reg[d]

Carries(p, d) ==
  \/ save[p].pc = "copy" /\ d \in save[p].todo
  \/ save[p].pc \in {"copy", "write", "rename"} /\ save[p].buf[d] = reg[d]

UnsavedIsNoticed ==
  (initialized /\ restart = "no") =>
    \A d \in Devices :
      \/ reg[d] = 0
      \/ OnFile(d)
      \/ dirty
      \/ marking # {}
      \/ \E p \in Locking : Carries(p, d)
      \/ d \in lost

(***************************************************************************)
(* A save never puts in place what the other save that takes the mutex has *)
(* written to the same path: it renames its own file, or the one a joining *)
(* device has put there in between, if no join or erasing has removed it.  *)
(* Only a handler that deinit() has deserted may mix with a new task.      *)
(***************************************************************************)
RenamesOwnFile ==
  deserted \/ \A p \in Locking :
                save[p].pc = "rename" => temp \in {save[p].buf, Summary, NoFile}

(***************************************************************************)
(* When the service is down its save task is gone, wherever it was when    *)
(* the time to stop was over, and it does not have the deleted mutex: no   *)
(* second task will save when the service comes up again.                  *)
(***************************************************************************)
DownIsQuiet ==
  ~ initialized => /\ lock = "none"
                   /\ ~ taskRuns
                   /\ save["task"].pc = "idle"

(***************************************************************************)
(* The inductive invariant behind DownIsQuiet: a saver has the mutex from  *)
(* the check of the flag to the end of its save, if it has not been taken  *)
(* away from it, and the save task lives as long as the service.           *)
(***************************************************************************)
HolderHolds ==
  \A p \in Locking :
    IF p = "shutdown" /\ deserted
    THEN lock # p
    ELSE save[p].pc \in {"check", "copy", "write", "rename"} <=> lock = p

ServiceInv ==
  /\ TypeOK
  /\ HolderHolds
  /\ exitRequested \/ taskRuns => initialized
  /\ ~ taskRuns => save["task"].pc = "idle"
  /\ save["shutdown"].pc # "idle" => initialized \/ deserted
  /\ save["shutdown"].pc # "idle" \/ deserted => restart = "saving"
  /\ save["join"].pc \in {"idle", "write", "rename", "clear"}
  /\ restart # "no" => reboots < MaxReboots

(***************************************************************************)
(* What it takes besides for UnsavedIsNoticed: a value copied too early is *)
(* noticed as well, or the save would put an old one on file.              *)
(***************************************************************************)
Noticed == dirty \/ marking # {}

CopiesNoticed ==
  restart = "no" =>
    \A p \in Locking, d \in Devices :
      save[p].pc \in {"copy", "write", "rename"} =>
        d \in save[p].todo \/ save[p].buf[d] = reg[d] \/ Noticed \/ d \in lost

SavingInv ==
  /\ ServiceInv
  /\ \A p \in Locking : save[p].pc \in {"write", "rename"} => save[p].todo = {}
  /\ CopiesNoticed
  /\ UnsavedIsNoticed

(***************************************************************************)
(* When the devices fall silent, what the registry knows gets on file,     *)
(* except what one of the steps recorded in lost has dropped since the     *)
(* last save began.                                                        *)
(***************************************************************************)
EventuallySaved ==
  <>[](initialized => \A d \in Devices : reg[d] # 0 => OnFile(d) \/ d \in lost)

(***************************************************************************)
(* Stopping the service comes to an end: the save task hears of it in      *)
(* whatever state it is.                                                   *)
(***************************************************************************)
StopEnds == exitRequested ~> ~ exitRequested

(***************************************************************************)
(* What the comment at deinit()'s timeout says: "Do NOT force-delete: task *)
(* may hold s_save_mutex."  The code breaks it: psram_task_delete(), which *)
(* it calls next for the memory of a task that is gone, deletes a task     *)
(* that is not.                                                            *)
(***************************************************************************)
NeverForceDeleted ==
  [][taskRuns /\ ~ taskRuns' /\ UNCHANGED reboots => lock # "task"]_vars

(***************************************************************************)
(* What state_persistence.h says: device state is persisted "so that Home  *)
(* Assistant sees last known values after reboot".  So a value on file is  *)
(* replaced by newer ones, never dropped, unless the state is erased.  The *)
(* code breaks it: a save that runs before the file was loaded, and the    *)
(* save at a join, write files without it.                                 *)
(***************************************************************************)
KnownValuesStay ==
  [][\A d \in Devices :
       (final # NoFile /\ final[d] # 0 /\ restart' # "erased")
       => final'[d] # 0]_vars

(***************************************************************************)
(* What the code says: the shutdown handler is registered "for clean save  *)
(* on reboot", and deinit() "saves any dirty state and stops the timer".   *)
(* So a restart cuts no save off, and the state is not marked dirty when   *)
(* the service has ended.  The code breaks both: while the save task saves *)
(* the flag is clear and the handler returns at once; and the task looks   *)
(* at the exit flag after a save that was under way when it was set, and   *)
(* goes with what has changed since.                                       *)
(***************************************************************************)
CleanStopSaves ==
  [][/\ Reboot => save["task"].pc \notin {"copy", "write", "rename"}
     /\ deinit_finishes => ~ dirty]_vars
=============================================================================
