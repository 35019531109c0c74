# A TLA+ model of the Cellular Resource Manager (CRM)

CRM is the daemon that owns the cellular modem of an Android platform. It starts,
stops, flashes, resets and dumps the modem on behalf of client processes, and
decides what to do when the modem fails. This directory holds TLA+ modules for the
daemon, for the library its clients use, for the bridge to Java and for the processes
it forks; TLC configurations that model-check them on small instances; and TLAPS
proofs of their main invariants for every value of their constants. `PROJECT.json`
lists the components, the runs, the source lines each definition translates, the
hazards and the theorems.

## 1. The system

| part | source | state | operations |
|---|---|---|---|
| client abstraction (CLA) | `plugins/client_abstraction` | FSM of 7 states, list of clients, counters of acquisitions and awaited acknowledgements, real and faked state of the modem | poll loop: messages of control, new clients, client requests, disconnections, two timeouts |
| control | `plugins/control` | FSM of 8 states, pending client request, two rendezvous, delayed-reset timer | one handler per (event, state) of `g_fsm_array` |
| watchdog | `plugins/control/src/watchdog.c` | request timer, ping timer, ids | START, STOP, PING, PONG, expiry |
| escalation | `plugins/escalation` | level, counter, persistent number of reboots, stability timer | `get_next_step`, `get_last_step` |
| firmware elector | `plugins/fw_elector` | two stored hashes, firmware and TLVs found | `get_fw_path`, `get_tlv_list`, `notify_tlv_applied` |
| HAL, SoFIA | `plugins/hal/sofia`, `plugins/hal/common` | FSM of 8 states, one timer, ping thread, RPC daemon | four event sources: control, uevent, RPC daemon, timer or ping |
| HAL, PCIe | `plugins/hal/pcie`, `plugins/hal/common/src/daemons.c` | FSM of 9 states, one timer, MUX, configuration thread, NVM manager over a socket | control, MCD driver, MUX hang-up, daemons, configuration thread, timer |
| firmware upload, customization, dump | `plugins/fw_upload`, `plugins/customization`, `plugins/dump` | one detached thread each; on PCIe each drives a process | start, run, report |
| process factory | `libs/utils/src/process_factory.c` | a forked process with a table of its children | create, clean, kill, death of a child, disposal |
| wakelock | `libs/wakelock` | counters per module; a thread that keeps the bridge informed, or a client of the power manager | acquire, release, disposal |
| Java bridge | `bridge` | the daemon's queue of intents, its clients, the wakelock; the Java application's | connections, messages, acknowledgements, timeouts, retries |
| mdmcli library | `mdmcli`, `plugins/mdmcli_wire` | connection, event loop, acquisition to repeat | every call, events, reconnection; the messages on the wire |
| IPC queue, timers, AT commands | `libs/utils/src/{ipc,thread,time,at}.c` | a ring of 8 messages with a pipe; a deadline; a buffer | send, get; add, remain; send a command and read the answer |
| FSM engine | `libs/utils/src/fsm.c` | state | `notify_event` with pre-operation, failsafe, transition callback |

Every thread reads one queue and writes those of its neighbours:

```
 clients <-> CLA  --requests-->  control  --requests-->  HAL  <-> modem, daemons
  (mdmcli)       <--states------          <--events-----
                    results        ^  |
                                   |  v
             watchdog      upload / customization / dump threads <-> process factory
                                   escalation, elector
 wakelock thread  <->  bridge daemon  <->  Java application
```

`ASSERT` and `DASSERT` end the whole process, and Android's init starts it again.
CRM uses them to state what its FSMs expect: most cells of the state/event tables are
assertions.

What makes the system hard: requests and events cross in the queues; the events of a
thread that was overtaken are read later, in a state that did not expect them; a
uevent carries no state, the HAL reads the state of the modem afterwards; CLA shows
its clients a faked state during transitions; clients vanish in the middle of a
broadcast; the success of packaging, flashing and customization is one and the same
event; helper processes answer while they are being killed; and everything outside
CRM, or CRM itself, may fail at any moment.

## 2. Modules

| module | models | state and actions |
|---|---|---|
| `Ipc`, `IpcFifo`, `IpcRing` | the queues | `Ipc`: `Fits`, `Send`: a message that does not fit is gone, callers that assert the result abort. `IpcRing` is the ring, the indices and the pipe of `ipc.c`, `IpcFifo` the queue it implements |
| `Time` | `time.c` | deadlines in seconds and nanoseconds against a clock in nanoseconds |
| `At` | `at.c` | the buffer byte by byte, since what `memmove` leaves in it matters; lines are two characters at most |
| `Escalation`, `EscalationBudget` | `escalation.c`, and a history over it | `cfg_idx`, `counter`, `reboot_counter` (the property), `expired`; `granted` per level, `forced`, and the properties |
| `Watchdog` | `watchdog.c` and control's half of its protocol | `req`, `ping` timers with their wakelocks, `reqQ`, `pingQ`; `Leave`, `Enter`, `Cross`, `Answer`, `Handle*`, `*Expires` |
| `Control` | `fsm_ctrl.c` and the entry points of control | `cstate`, the record `ctl` of the context; one action per handler, dispatched by `g_fsm_array`; `Return` is the end of a handler (state change, watchdog, failsafe), `Abort` an assertion |
| `FwUpload`, `Customization`, `Dump` | the SoFIA plugins | state of the detached thread, statuses not yet reported |
| `FwElector` | `elector.c` with what control and customization do for it | `files`, the stored keys, `nvm` (what the modem was given), `phase`; a hash is what it is computed from |
| `ControlEnv` | control with its workers and an environment that sends any event at any time | bounds `MaxEvents`, `MaxUnread`, `MaxPending` |
| `HalSofia` | `fsm_hal.c`, `modem.c`, `ping.c`, `rpcd.c` and the platform behind them | `hstate`, `mdm_state` (last read from sysfs), `htimer`, `ping`, `rpcQ`; `modem`, `uevents` and `rpcd` are the platform, with the faults it may show |
| `HalPcie` | `fsm_hal.c`, `modem.c`, `nvm_manager.c`, `daemons.c` | `hal` record of the context, sockets of the daemons, the configuration thread, and the modem, driver and NVM manager |
| `ClientAbstraction` | `client_abstraction.c` | the record `cla`; functions of the code are operators on it; a round of the poll loop is several steps (`pos` is the descriptor reached), since control and other threads run in between |
| `ControlContract` | abstract: what CLA relies on | one request at a time, answered once and together with the resulting state |
| `ClaService` | CLA in front of any control that keeps the contract | |
| `CrmSofia` | all threads over their queues, with aborts and restarts | `ControlThread`, `ClaThread`, `HalThread`, the workers, `WatchdogThread`, `Platform`, `CrmRestart` |
| `CrmPcie` | the same for PCIe, with CLA reduced to its requests | control, HAL, configuration thread, plugins, watchdog, restart |
| `ProcessFactory`, `PcieProcesses` | the factory, and the plugins and processes around it | slots, pipes, signals; `Turn` is one turn of the factory's loop |
| `Bridge`, `Wakelock` | `daemon.c`, `telbridgelib.c`, `DaemonSocket.java`, the wakelock of `DaemonCoreAndroid.java`; `wakelock.c` of the bridge build | the daemon serves one descriptor at a step; `Bridge` has the connections, `Wakelock` the modules and their thread |
| `WakelockAndroid` | `CrmWakelockMux.cpp`, `CrmWakelockServiceAndroid.cpp` | `_toAcquire`, `_connecting`, `_powerManager`, the token, the connecting thread |
| `MdmcliWire`, `Mdmcli` | `mdmcli_wire.c`; `mdmcli.c` | messages as sequences of words; calls, event loop, and a server that does with each message what CLA does |
| `MC*` | model-checking instances; `MCSofia` also has the initial states of the runs and the properties of two violation runs | |
| `*Proofs` | theorems and proofs | |

`abort` is empty or names the assertion that failed. Operators whose name has a suffix
after the name of another one (`accept_Forgets`) are deliberately wrong variants used
to confirm that a property notices the difference.

Abstractions. Messages are the names of the events; payloads, logs and file contents
are dropped, except where a module is about them (`MdmcliWire`, `At`, `FwElector`). Time
is dropped, except in `Time`: a timer may expire whenever its thread finds nothing else
to do; the watchdog's, in the composed systems, is far longer than the others and
expires only when everything else has stopped (`WatchdogReady`). A step is a handler,
which is how the code runs them: one thread owns the context, and only queues are
shared. Where two threads share more than a queue (the wakelock, the library, the MUX
descriptor) a step is what happens under the lock, or one access. Detached threads take
several steps each. Worker reports are taken off their thread's hands in a separate
step, so that a report can be late.

Assumptions about the outside, from how the code uses it: a sysfs command or an ioctl
may fail; the modem obeys a command after a while, and each change raises an event; the
ping succeeds or times out; the RPC daemon starts, dies, or reports the end of a stopped
instance late; the NVM manager connects, registers, answers, is slow or dies; the power
manager and the Java application come and go; on a restart of the process the HAL stops
a modem it did not start, except at a first start after a platform reboot. Faults are
named in each module (`Hal!FaultKinds`, `BridgeFaults`, `AFaults`), chosen by a constant
or a scenario, and counted.

In the SoFIA models `tlv_pending` says that the elector can read its hashes and they
differ from the stored ones; at a start with the modem on they
are not readable yet, except in the runs with faults.
`FwElector` models what the hashes are.

## 3. Runs

Runs that share no state are checked together where this costs nothing: `MCParts`,
`MCControl`, `MCPeers` and `MCWakelock` each hold several models, and a behaviour is one
of a single model (`part`, `build`), the others resting.

* `parts` (`MCParts.cfg`), five models.
  The watchdog with a queue of 3 and ids 0..2, so that ids wrap and the queue overflows:
  as long as no message was lost, the request alarm ends the process only while control
  really is outside UP and DOWN.
  The ring of 3 places through 10 messages, so that both indices wrap three times, and its
  disposal: it implements the FIFO.
  Deadlines with 3 ms to a second and 4 ns to a millisecond: every alignment of clock and
  deadline to the second occurs.
  AT answers of up to three lines in a buffer of 11 bytes, cut anywhere, which includes
  the full buffer.
  CLA with two clients, every connection may break at any send, at most two unread
  messages of control. Two clients are what it takes for one to be lost while another is
  awaited. The request SHUTDOWN is left out: it breaks the counters (run `vShutdown`).
* `control_any_order` (`MCControl.cfg`): six arbitrary events, at most two unread at
  a time, interleaved with the workers. Six events suffice to reach every state of the
  FSM and every handler; neither rendezvous of control is missed. Beside it the elector: two blobs, one TLV of the platform and one
  of the MIU folder, two changes of the files, one crash of CRM and one refused TLV between
  any two steps, reboots. A modem that `get_tlv_list` leaves alone has been given its TLVs
  (`LeftIsApplied`), and CRM does not customize for ever.
* `sofia_nominal` (`SofiaNominal.cfg`): two clients that connect, acquire, release,
  acknowledge and leave, a firmware the modem may refuse. No assertion fails, the
  firmware is written only with the modem off, whoever holds the modem gets it or is
  told it is out of service, and a modem nobody holds is switched off.
* `sofia_restart` (`SofiaRestart.cfg`): modem always on (`EnableFmmo` false), one
  client that restarts, restarts with debug information and updates, and stable
  periods. No assertion fails and the service always returns.
* `sofia_faults` (`SofiaFaults.cfg`): one registered client that acquires, releases and
  restarts, and one fault of eight kinds. Failed assertions restart the process and the
  run goes on. Requests are conserved across the two queues (`OneRequest`), a client told
  MDM_UP has a modem, clients know what CLA shows, and everything behind CLA implements `ControlContract` (`KeepsContract`). The reboot count starts at
  zero or at its limit of one, and both restarts and faults climb the escalation, so
  that reboot, out of service and what follows them are reached.
* `sofia_recovers` (`SofiaRecovers.cfg`): one fault of any of ten kinds, failing
  flashes and customizations included, and requests for a backup, which abort. Control
  always comes back to UP or DOWN, if need be by the watchdog and a restart.
* `pcie` (`MCPcie.cfg`): three requests of any kind and one fault of ten kinds. Without a
  fault no assertion fails and nothing waits for the watchdog. With one, the HAL is in RUN
  only with all it needs, the modem is not cut off from an NVM manager that keeps its NVM,
  and every request is answered or CRM starts again. Three requests are start, reset and
  stop in any order, each of which another may overtake.
* `peers` (`MCPeers.cfg`): the client library in four scenarios: CRM dies twice while the
  application acquires, releases and leaves; CRM asks for acknowledgements, given by the
  callback or later, and may die; a sanity-test mode on either side; messages of every
  shape. What is read is what was sent, CLA is told of a registration once and holds the
  modem as the application wants, and the two find each other again for good. And the
  process factory with two plugins, three processes and one fault: a
  process dies of a signal or of an assertion, or needs longer than its plugin waits, the
  plugin is slow to clean up, or a process is created before the last has ended. A plugin
  reads the status of its own process, every operation is reported, and no process is left
  behind.
* `wakelock` (`MCWakelock.cfg`): the bridge in five scenarios that together have one or
  two modules, short and long intents, and every fault; a buffer, a byte and a character
  are one or two units so that messages are cut. When CRM wants the
  wakelock for good the Java application ends up having taken it, and from then on loses it
  by nothing but the limit of five minutes that it puts on it; when CRM does not, the
  application ends up having released it. Intents keep their order. The limit may pass at
  any time (`LockExpires`), and no fairness is put on it. The Android build with two modules
  and one fault: the platform follows as well. And the escalation: any order of recoveries, last steps, stable periods and
  restarts, from any stored number of reboots, below, at and above the limit. No level
  exceeds its budget, and a modem that fails for ever ends out of service. The premise of `ReachesOOS` is that from some point on only
  failures and the reboots they cause happen, and go on happening: without it clients may
  simply stop asking.

Fairness. In `CrmSofia` and `CrmPcie`: each thread that has work eventually does it
(they are separate pthreads blocked in poll), each armed timer eventually expires, the
platform obeys, and init restarts an aborted process. It is written with `Ready`
predicates instead of `WF` because TLC evaluates them much faster than `ENABLED`; each is
what `ENABLED` says of the action. Clients are not fair: they may stay silent, except that
a round of the poll loop once begun is finished. No liveness property of the daemon
assumes that a client acknowledges (the timeout does that). In `Mdmcli` the event loop,
the two calls once begun, CRM (with init) and an application that has promised an
acknowledgement go on. In `PcieProcesses` the plugins' threads, the factory, its signal
handler, the timeouts and the processes go on; a plugin's timeout itself is not fair while
the process may still answer. In `MCWakelock` the daemon serves every ready descriptor,
the Java threads go on, and the daemon's timeout is strongly fair: it is looked at only in
a turn in which nothing is ready, and its clients are not so busy that this never happens.
In the elector, control goes on.

Deadlock is not checked where a run ends by construction: an assertion without
restart, an application that has left, a bound that is reached, or a restart of CRM after
which no client connects any more. `sofia_nominal` and `sofia_restart` check it.

Violation runs: what an assertion of the code says, and a legal sequence that
contradicts it.

* `vRestartStopping`: a restart requested while CLA is stopping the modem is accepted,
  since `real_modem_state` is still READY, and meets an assertion.
* `vShutdown`: a client that requests SHUTDOWN while it holds the modem and then
  leaves drives `num_acquired` below zero.
* `vAtCut`: an answer to an AT command arrives in two reads, the first of which ends
  within a line (`\r\n\r`, or an echo, an empty line and a part of `OK`). The part is moved
  to the front of the buffer and not terminated; what the earlier lines left behind it is
  taken for another end of line, and `idx` goes below zero. `AnswerIsRead` shows that this
  is the only way in which an answer is misread, and the shapes of reads it takes (`Cuts`).

### Assertion failures the models reach

They limit what `AssertsHold` can be checked for: the runs that check it leave the trigger
out, or excuse the fault.

| where | sequence |
|---|---|
| `client_abstraction.c:403` | RELEASE, RESTART, ACQUIRE, then the acknowledgements: the shutdown hands over to a restart with the faked state in place |
| `client_abstraction.c:572` | the last holder of the modem is lost by the notification that the modem is off |
| `client_abstraction.c:582` | the firmware cannot be written while CLA is in STARTING: the failsafe answers with a failure that follows no UNRESP |
| `client_abstraction.c:727` | a stale EV_FW_SUCCESS boots the modem twice; control, out of service, announces OFF |
| `client_abstraction.c:1057` | (not in the models) a connection is accepted before the hang-ups of the same round are handled: one client too many |
| `elector.c:138` | first start of CRM with the modem running and the data partition readable: TLVs are asked for before a firmware was chosen. Once per boot (theorem `FailsOnce`): the next start stops the modem first |
| `dump.c:238` | the modem traps while EV_STOP is on its way: BUSY arrives during the dump, and stopping a dump is not implemented |
| `hal/sofia/src/fsm_hal.c:385` | the RPC daemon dies while EV_STOP is on its way to the HAL; control reads BUSY and NEED_RESET, sends EV_STOP again, and the HAL rejects it |
| `hal/sofia/src/fsm_hal.c:457` | a client requests NVM_BACKUP |
| `hal/common/src/rpcd.c:132` | the RPC daemon dies right after its start: both events are there in one read |
| `customization.c:71` | a TLV file goes away between its listing and its reading |

Two more that are no assertions. When the only client CLA has to wait for is lost by the
very send that asks for its acknowledgement, the counters return to zero within one
descriptor, `main_loop` raises no EV_CLI_ACKED (`client_abstraction.c:1083`), and CLA stays
in its acknowledgement state; `WaitsInAckStates` therefore states the direction that holds
when sends fail, and the liveness properties of `sofia_nominal` and `sofia_restart` cover
the other one when they do not. And `hal/sofia/src/fsm_hal.c:447` says that EV_RPC_DEAD
is ignored in all states: in ST_WAITING_RPC and ST_RUN it is not, and a late event of the
previous daemon makes the HAL ask for a reset of a working modem.

PCIe, by fault:

| fault | what ends CRM |
|---|---|
| modem crashes | EV_FW_SUCCESS of an upload read in DUMPING; a dump interrupted; a crash event in CONFIGURING, FLASHING, STARTING or STOPPING (`todo` cells); a request that control sent before it knew (`reject`) |
| modem resets itself | `reject` and `assert` cells; a second configuration thread; EV_FW_SUCCESS read in WAITING, DOWN or UP; NEED_RESET in DOWN |
| ioctl or mount fails | an event that the HAL excludes in ST_OFF (`assert` cells), EV_MUX_DEAD among them; in STOPPING_DAEMONS the results of cold reset and stop are asserted |
| modem silent | the timer expires in BOOTING, an `assert` cell |
| NVM manager dies or is slow | `todo` cells of most states; "daemon not connected" in CONFIGURING |
| flashing fails | control's failsafe sends EV_STOP in FLASHING, which the HAL rejects; `fsm_ctrl.c:803` notes that the failsafe does not work |

`NvmIsSafe` speaks of an NVM manager that has told the HAL that it keeps the NVM: a MUX
hang-up in STARTING_DAEMONS before that report is read lets the modem be cut while the
manager starts. A self reset in CONFIGURING leaves the old configuration thread behind,
which may open the MUX of a modem that is off.

Around the daemon: `daemon.c:269` fails when the Java application leaves a daemon with no
message for it, unless the last one was about the wakelock, and a write to an application that has just left ends
the daemon by a signal (`daemon.c:419`); it starts again in both cases. When the five minutes of
`DaemonCoreAndroid.java:108` have passed, the platform has no wakelock although CRM still
wants it, and nothing renews it: the daemon sends ACQUIRE only when its own count differs
from what the application has acknowledged (`daemon.c:214`), until the connection is made
again or CRM has released the wakelock and asks anew. A death of the power manager while the wakelock is held loses it, and the release
that follows fails an assertion; the destructor of the Android build asserts when nothing
is held. With a full queue the message of `dispose()` is lost and the join blocks
(`wakelock.c:201`). The factory ends CRM when a process dies of a signal nobody sent, when a process fails an
assertion, when a plugin needs more than 500 ms to have an ended process cleaned, when a
process answers after its plugin has given up (its status is found in the pipe, or its slot
is free already), and when it ends while another is created (its notice gets between the
two parts of the order, or interrupts their reading): those are the faults
`FactoryAsserts` excuses. If CRM dies between the start of the library's event
loop and REGISTER (`mdmcli.c:345`), the library asserts, blocks or registers twice, which
`AssertsHold` of `peers` excepts. An acknowledgement given late, after a
reconnection, answers a request of the new CRM.

The elector's exception in `LeftIsApplied`: TLVs of another configuration were written and
not recorded (a refusal or a crash), and the configuration then goes back to the recorded
one: the modem is left with TLVs of both.

## 4. Theorems

All are proved for every value of the constants. Those whose property no run checks as
well (the types, the bound on reboots, the order of the levels, the timer of control, the
answers in DOWN, the watchdog's assertions, the consistency of the ring, the single abort of
the elector, the safety of the Android wakelock) hold of the same specifications that the
runs explore.

* `EscalationProofs` (assumption: the three configuration entries and the stored
  number of reboots are naturals, `ConfigAssumption`): `TypeCorrect`,
  `RebootsAreBounded`, `ResetsAreBounded`, `OosComesLast`, `LevelsClimb`. The
  invariant ties the history to the counter: what a level has granted and what is left
  of it add up to its configuration entry, lower levels are spent (`Spent`), and the
  reboots granted are at most the persistent count. `ResetBudget` alone is not
  inductive because it does not mention the counter.
* `WatchdogProofs` (`MaxReqId` natural, any queue size): `TypeCorrect`,
  `ProtocolIsKept`, `AlarmsAreTrue`, `WatchIsExact`. The invariant says that the
  messages in the queue form a chain that leads from the state of the watchdog's timer
  to that of control (`Good`), ids consecutive modulo the wrap. It holds only while no
  message was lost, which is the assumption the code makes silently.
* `ControlProofs` (no assumption on the environment; any number of events):
  `TypeCorrect`, `TimerIsOwned`, `DownAnswers`, `RendezvousComplete`. `CtrlInv` is the
  conjunction itself plus types, `WorkInv` the type of the workers' reports; each
  handler is a lemma over a context that is `Usable` and shown to leave a `Sound` one,
  so that handlers calling handlers compose.
* `IpcProofs` (a ring of at least one place): `RingIsConsistent`, and `RingIsFifo`: the ring
  implements the FIFO, under the mapping that reads the ring from its read index. The
  invariant numbers the messages, so that order is arithmetic on the numbers.
* `ElectorProofs` (any blobs, TLVs and numbers of changes, crashes and refusals):
  `LeftAlone` and `FailsOnce`. The invariant says for each phase what the two stored keys
  and the modem's NVM have in common with the target, through a writing that is torn.
* `TimeProofs` (any resolution): `RemainsRight`, from lemmas on quotients and remainders.
* `WakelockProofs` (any modules, any number of acquisitions): `AssertionsHold` and
  `HeldIsAsked`. The invariant adds to them that a wakelock which is asked for and not held
  is sought by the connecting thread, and that this thread runs only without a power manager.

Only model-checked: the liveness properties (fairness and ENABLED are out of the prover's
reach), the refinement `KeepsContract`, what the recursive operators of `At`, `MdmcliWire`
and CLA compute, and the properties of CLA, of the two HALs, of the library, of the bridge,
of the factory and of the composed systems.

## 5. Not modelled

* The HAL stub is a test double. The SecVM upload plugin has the structure of `FwUpload`;
  its `flash()` has no device path to check, and so notices a second call only in the thread,
  which is not modelled.
* Property and file access, loading of plugins, logging and string helpers are I/O or
  formatting: their outcomes are choices of the modules that use them. The archives of the
  external flashing library, and that library, are outcomes of the processes.
* Disposal of the daemon's plugins (`stop_plugins` and each `dispose`) runs only in tests;
  the disposal of queues, wakelocks and factory is modelled.
* In the PCIe HAL: a copy of the NVM files that fails, an OFF event that comes late during
  the initialisation. In the elector: two firmware files in one folder (an assertion), and
  contents that change under the same names, which the configuration hash does not see. In
  the Java application: text encodings.
* Delays that no fault of the models reaches: the timer of the PCIe HAL expires only when
  the platform has nothing left to do, so an NVM manager that is told to leave leaves
  or dies by itself, and is never killed for being late; the answer of the factory to `create()` always
  comes within its 30 s (`process_factory.c:382`).
* `platform_reboot` repeats its broadcast for as long as it succeeds (`fsm_ctrl.c:384`), on
  the thread that answers the watchdog; here control goes on at once and the platform
  reboots at any time.
* Sixteen clients at once; more than one fault at a time in the composed systems.
* Android and its services, the modem, the driver and the NVM manager are external: they
  are modelled by what the code expects of them and by the faults listed.
