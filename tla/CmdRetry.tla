------------------------------- MODULE CmdRetry -------------------------------
(***************************************************************************)
(* Retry of ZCL commands (src/main/zigbee/zb_cmd_retry.c) together with    *)
(* the command_send_*() functions of zb_command_handler.c that feed it and *)
(* that it calls back.                                                     *)
(*                                                                         *)
(* The table of pending commands is guarded by a mutex, but a command goes *)
(* on the air before it is stored and a retry leaves the table before it   *)
(* is sent again, both outside the mutex.  Three kinds of task interleave  *)
(* there: the tasks that send commands of users, the Zigbee task that gets *)
(* the answers and the delivery failures, and the monitor task that looks  *)
(* for commands nobody answered.                                           *)
(*                                                                         *)
(* All commands are of the kind the callers in main/ use: nothing calls    *)
(* cmd_retry_store_tuya_dp(), so a Tuya data point is never in the table.  *)
(***************************************************************************)
EXTENDS Integers, FiniteSets

CONSTANTS
  Devices,        \* short addresses of devices
  Senders,        \* tasks that send the commands of users
  Zigbee, Monitor,\* the Zigbee task and the system monitor's task
  MaxPending,     \* CMD_RETRY_MAX_PENDING
  MaxAttempts,    \* CMD_RETRY_MAX_ATTEMPTS
  TickMod,        \* the tick counter counts modulo this (2^32)
  Timeout,        \* CMD_RETRY_TIMEOUT_MS in ticks
  CheckPeriod,    \* ticks between two visits of the monitor's loop
  MaxCommands,    \* bound: commands users give
  MaxSent         \* bound: transmissions counted for one command

ASSUME SizesAssumption ==
  /\ MaxPending \in Nat \ {0}
  /\ MaxAttempts \in Nat \ {0}
  /\ MaxCommands \in Nat
  /\ MaxSent \in Nat
ASSUME TickAssumption ==
  /\ Timeout \in Nat \ {0}
  /\ CheckPeriod \in Nat \ {0}
  /\ TickMod \in Nat
  /\ Timeout + CheckPeriod < TickMod
ASSUME TaskAssumption ==
  /\ Zigbee \notin Senders
  /\ Monitor \notin Senders
  /\ Zigbee # Monitor

Tasks    == Senders \cup {Zigbee, Monitor}
Slots    == 0 .. MaxPending - 1
Commands == 1 .. MaxCommands   \* numbered in the order users give them
Ticks    == 0 .. TickMod - 1

VARIABLES
  table,          \* s_pending_cmds
  initialized,    \* s_pending_cmds and s_retry_mutex are not NULL
  now,            \* xTaskGetTickCount()
  sinceCheck,     \* ticks since the monitor last looked at the table
  todo,           \* per task, the commands it has still to send
  onAir,          \* per task, whether its first command is sent, not stored
  given,          \* how many commands users have given
  sent,           \* history: how often each command went on the air
  latest          \* history: per device, the last new command on the air

vars == <<table, initialized, now, sinceCheck, todo, onAir, given, sent,
          latest>>

\* A slot of the table, and what a task that is to send a command knows of it.
Entry ==
  [short_addr : Devices, cmd : Commands, retries : 0 .. MaxAttempts,
   timestamp : Ticks, active : BOOLEAN]

NoEntry == [active |-> FALSE]   \* calloc() or a slot that was cleared

Job == [slot : Slots, short_addr : Devices, cmd : Commands]

Free(i)      == ~ table[i].active
PendingOf(d) == {i \in Slots : table[i].active /\ table[i].short_addr = d}
Lowest(S)    == CHOOSE i \in S : \A j \in S : i <= j

\* Mutation: the difference of two ticks does not wrap.
Elapsed_signed(i) == now - table[i].timestamp

\* Ticks are unsigned, so a difference wraps with them.
Elapsed(i) == (now - table[i].timestamp) % TickMod

TypeOK ==
  /\ table \in [Slots -> Entry \cup {NoEntry}]
  /\ initialized \in BOOLEAN
  /\ now \in Ticks
  /\ sinceCheck \in 0 .. CheckPeriod
  /\ todo \in [Tasks -> SUBSET Job]
  /\ onAir \in [Tasks -> BOOLEAN]
  /\ given \in 0 .. MaxCommands
  /\ sent \in [Commands -> 0 .. MaxSent]
  /\ latest \in [Devices -> Commands \cup {0}]

-------------------------------------------------------------------------------
(***************************************************************************)
(* find_or_alloc_slot(): the slot the device already has, else the first   *)
(* free one, else the one with the smallest timestamp.  The search for the *)
(* smallest starts at the largest tick there is and is strict, so a slot   *)
(* stored at that very tick is never found; MaxPending stands for NULL.    *)
(***************************************************************************)
Oldest ==
  {i \in Slots : /\ table[i].active
                 /\ table[i].timestamp < TickMod - 1
                 /\ \A j \in Slots : table[j].active =>
                      table[i].timestamp <= table[j].timestamp}

find_or_alloc_slot(d) ==
  IF PendingOf(d) # {} THEN Lowest(PendingOf(d))
  ELSE IF \E i \in Slots : Free(i) THEN Lowest({i \in Slots : Free(i)})
  ELSE IF Oldest # {} THEN Lowest(Oldest)
  ELSE MaxPending

cmd_retry_store(d, c) ==
  LET i == find_or_alloc_slot(d)
  IN  IF i \in Slots
      THEN [table EXCEPT ![i] =
              [short_addr |-> d, cmd |-> c, retries |-> MaxAttempts,
               timestamp |-> now, active |-> TRUE]]
      ELSE table

(***************************************************************************)
(* The sending half of command_send_on_off(), _level() and _color(): the   *)
(* request is handed to the stack.  Tasks work through todo in slot order. *)
(***************************************************************************)
NextJob(t) == CHOOSE j \in todo[t] : \A k \in todo[t] : j.slot <= k.slot

Counted(c) == IF sent[c] < MaxSent THEN sent[c] + 1 ELSE MaxSent

command_send(t) ==
  /\ todo[t] # {}
  /\ ~ onAir[t]
  /\ onAir' = [onAir EXCEPT ![t] = TRUE]
  /\ sent' = [sent EXCEPT ![NextJob(t).cmd] = Counted(NextJob(t).cmd)]
  /\ latest' = IF t \in Senders
               THEN [latest EXCEPT ![NextJob(t).short_addr] = NextJob(t).cmd]
               ELSE latest
  /\ UNCHANGED <<table, initialized, now, sinceCheck, todo, given>>

(***************************************************************************)
(* Their second half stores the command, the one of a user and the one     *)
(* execute_retry() has just repeated alike.  The mutex may not be had      *)
(* within 100 ms; the command is then not stored.                          *)
(***************************************************************************)
command_store(t) ==
  /\ onAir[t]
  /\ \/ /\ initialized
        /\ table' = cmd_retry_store(NextJob(t).short_addr, NextJob(t).cmd)
     \/ table' = table
  /\ onAir' = [onAir EXCEPT ![t] = FALSE]
  /\ todo' = [todo EXCEPT ![t] = @ \ {NextJob(t)}]
  /\ UNCHANGED <<initialized, now, sinceCheck, given, sent, latest>>

\* A user's next command reaches command_send_*() in one of the senders.
Give(t, d) ==
  /\ t \in Senders
  /\ todo[t] = {}
  /\ given < MaxCommands
  /\ given' = given + 1
  /\ todo' = [todo EXCEPT ![t] = {[slot |-> 0, short_addr |-> d,
                                   cmd |-> given + 1]}]
  /\ UNCHANGED <<table, initialized, now, sinceCheck, onAir, sent, latest>>

-------------------------------------------------------------------------------
cmd_retry_init ==
  /\ ~ initialized
  /\ initialized' = TRUE
  /\ table' = [i \in Slots |-> NoEntry]
  /\ UNCHANGED <<now, sinceCheck, todo, onAir, given, sent, latest>>

cmd_retry_deinit ==
  /\ initialized
  /\ initialized' = FALSE
  /\ table' = [i \in Slots |-> NoEntry]
  /\ UNCHANGED <<now, sinceCheck, todo, onAir, given, sent, latest>>

\* An attribute report, a read response or a default response of device d.
cmd_retry_confirm(d) ==
  /\ initialized
  /\ todo[Zigbee] = {}
  /\ PendingOf(d) # {}
  /\ table' = [table EXCEPT ![Lowest(PendingOf(d))] = NoEntry]
  /\ UNCHANGED <<initialized, now, sinceCheck, todo, onAir, given, sent,
                 latest>>

\* What a task copies out of the slots S it will retry.
Copies(S) ==
  {[slot |-> i, short_addr |-> table[i].short_addr, cmd |-> table[i].cmd] :
     i \in {j \in S : table[j].retries > 0}}

\* Mutation: only a slot without retries left is cleared.
Cleared_when_exhausted(S) ==
  [i \in Slots |-> IF i \notin S THEN table[i]
                   ELSE IF table[i].retries = 0 THEN NoEntry
                   ELSE [table[i] EXCEPT !.retries = @ - 1]]

\* Taking an entry out uses up a retry and clears its slot regardless.
Cleared(S) == [i \in Slots |-> IF i \in S THEN NoEntry ELSE table[i]]

\* The copies are made and the slots cleared before the mutex is released.
TakeOut(t, S) ==
  /\ todo' = [todo EXCEPT ![t] = Copies(S)]
  /\ table' = Cleared(S)

\* The stack could not deliver to device d (no MAC/APS acknowledgement).
cmd_retry_on_unavailable(d) ==
  /\ initialized
  /\ todo[Zigbee] = {}
  /\ PendingOf(d) # {}
  /\ TakeOut(Zigbee, {Lowest(PendingOf(d))})
  /\ UNCHANGED <<initialized, now, sinceCheck, onAir, given, sent, latest>>

TimedOut == {i \in Slots : table[i].active /\ Elapsed(i) >= Timeout}

(***************************************************************************)
(* The monitor looks at the table once in every turn of its loop.  A turn  *)
(* in which it cannot get the mutex in time changes nothing; the clock     *)
(* below assumes that this does not happen for a whole CheckPeriod.        *)
(***************************************************************************)
cmd_retry_check_timeouts ==
  /\ todo[Monitor] = {}
  /\ sinceCheck' = 0
  /\ IF initialized THEN TakeOut(Monitor, TimedOut)
                    ELSE UNCHANGED <<table, todo>>
  /\ UNCHANGED <<initialized, now, onAir, given, sent, latest>>

\* Mutation: the tick counter does not wrap.
Tick_unwrapped ==
  /\ sinceCheck < CheckPeriod
  /\ now' = now + 1
  /\ sinceCheck' = sinceCheck + 1
  /\ UNCHANGED <<table, initialized, todo, onAir, given, sent, latest>>

\* The clock, which does not outrun the monitor's loop.
Tick ==
  /\ sinceCheck < CheckPeriod
  /\ now' = (now + 1) % TickMod
  /\ sinceCheck' = sinceCheck + 1
  /\ UNCHANGED <<table, initialized, todo, onAir, given, sent, latest>>

-------------------------------------------------------------------------------
\* The tick counter is an arbitrary number of ticks into its round.
Init ==
  /\ table = [i \in Slots |-> NoEntry]
  /\ initialized = FALSE
  /\ now \in Ticks
  /\ sinceCheck = 0
  /\ todo = [t \in Tasks |-> {}]
  /\ onAir = [t \in Tasks |-> FALSE]
  /\ given = 0
  /\ sent = [c \in Commands |-> 0]
  /\ latest = [d \in Devices |-> 0]

TaskStep(t) == command_send(t) \/ command_store(t)

Next ==
  \/ \E t \in Tasks : TaskStep(t)
  \/ \E t \in Senders, d \in Devices : Give(t, d)
  \/ cmd_retry_init
  \/ cmd_retry_deinit
  \/ \E d \in Devices : cmd_retry_confirm(d) \/ cmd_retry_on_unavailable(d)
  \/ cmd_retry_check_timeouts
  \/ Tick

Spec == Init /\ [][Next]_vars

(***************************************************************************)
(* Time passes, the monitor's loop turns, and a task that has begun to     *)
(* send goes on: none of them waits for anything but bounded timeouts.     *)
(***************************************************************************)
FairSpec ==
  /\ Spec
  /\ WF_vars(Tick)
  /\ WF_vars(cmd_retry_check_timeouts)
  /\ \A t \in Tasks : WF_vars(TaskStep(t))

-------------------------------------------------------------------------------
(***************************************************************************)
(* A device has at most one entry, whatever the tasks store for it in      *)
(* whatever order: confirm() and on_unavailable() stop at the first entry  *)
(* they find and would leave a second one to be retried.                   *)
(***************************************************************************)
OneEntryPerDevice ==
  \A i, k \in Slots :
    /\ table[i].active
    /\ table[k].active
    /\ table[i].short_addr = table[k].short_addr
    => i = k

(***************************************************************************)
(* A command is in one place at a time: in one slot, or in the hands of    *)
(* one task.  So the Zigbee task and the monitor never both repeat it.     *)
(***************************************************************************)
SingleHolder ==
  /\ \A i, k \in Slots :
       table[i].active /\ table[k].active /\ table[i].cmd = table[k].cmd
       => i = k
  /\ \A t, u \in Tasks : \A j \in todo[t], k \in todo[u] :
       j.cmd = k.cmd => t = u /\ j = k
  /\ \A i \in Slots, t \in Tasks : \A j \in todo[t] :
       table[i].active => table[i].cmd # j.cmd

(***************************************************************************)
(* No entry outlives its timeout by more than one turn of the monitor's    *)
(* loop, also across a wrap of the tick counter: the age the code computes *)
(* is the age the entry has.                                               *)
(***************************************************************************)
AgeBounded ==
  \A i \in Slots : table[i].active => Elapsed(i) < Timeout + sinceCheck

(***************************************************************************)
(* The inductive invariant: with the three above, the jobs of a task are   *)
(* from different slots, nobody holds a command not yet given, and there   *)
(* are no entries before init and after deinit.                            *)
(***************************************************************************)
JobsInOrder ==
  \A t \in Tasks :
    /\ onAir[t] => todo[t] # {}
    /\ \A j, k \in todo[t] : j.slot = k.slot => j = k

KnownCommands ==
  /\ \A i \in Slots : table[i].active => table[i].cmd <= given
  /\ \A t \in Tasks : \A j \in todo[t] : j.cmd <= given

EmptyWhenDown == ~ initialized => \A i \in Slots : ~ table[i].active

RetryInv ==
  /\ TypeOK
  /\ EmptyWhenDown
  /\ OneEntryPerDevice
  /\ SingleHolder
  /\ AgeBounded
  /\ JobsInOrder
  /\ KnownCommands

(***************************************************************************)
(* Every stored command is resolved: confirmed, replaced, evicted, or      *)
(* taken out of the table to be sent again.                                *)
(***************************************************************************)
Stored(c) == \E i \in Slots : table[i].active /\ table[i].cmd = c

PendingResolved == \A c \in Commands : Stored(c) ~> ~ Stored(c)

(***************************************************************************)
(* What zb_cmd_retry.h says: "otherwise a single retry is attempted", with *)
(* CMD_RETRY_MAX_ATTEMPTS the "maximum retry attempts per command".  The   *)
(* code breaks it: command_send_*() stores the repeated command anew.      *)
(***************************************************************************)
SingleRetry == \A c \in Commands : sent[c] <= 1 + MaxAttempts

(***************************************************************************)
(* What zb_cmd_retry.h says: the table "stores the last command per        *)
(* device".  The code breaks it: a retry that was taken out before a newer *)
(* command was stored replaces the newer one when it is stored again.      *)
(***************************************************************************)
LastCommandStored ==
  \A i \in Slots :
    /\ table[i].active
    /\ \A t \in Senders : \A j \in todo[t] : j.short_addr # table[i].short_addr
    => table[i].cmd = latest[table[i].short_addr]
=============================================================================
