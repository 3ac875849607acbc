# dpride in TLA+

A verification development for `dpride`, the EnOcean gateway daemon of this repository
(`src/DolphinRide/dpride`, with `src/DolphinRide/eolib`), and for the programs of the repository that
read what it produces (`jsclient`, `epoclient`, `wsclient`, the sample broker). `dpride` reads ESP3 packets from a USB
gateway, learns EnOcean devices, decrypts and decodes their telegrams, writes the values to bridge
files and signals the programs that read them. It is one process with three threads of its own (main,
`ReadThread`, `ActionThread`), two optional servers (JSON, WebSocket), four packet queues, a handful of
global tables without locks, and several small files that must survive a restart.

All paths below are relative to `src/DolphinRide/`.

## Inventory

| Part | State it keeps | Operations | Talks to |
|---|---|---|---|
| Packet queues and threads (`dpride/dpride.c` 272-531, 592-646, 1733-2013) | FreeQueue, DataQueue, ResponseQueue, ExtraQueue; the buffer each thread holds; ReadThread's `packetType` | `FreeQueueInit`, `Enqueue`, `Dequeue`, `QueueData`, `ReadThread`, `ActionThread`, `PushPacket`, `GetResponse` | serial line, MainJob, main thread |
| External commands (`dpride.c` 203-261, 1573-1590, 2977-3121; `control.c` 402-484) | SIGUSR2's disposition, `lastMode`/`lastBuffer`, the command file | `SignalAction`, `SignalCatch`, `ReadCmd`, `GetCommand`, the interface loop | host program (file and signal) |
| Gateway commands, filter, mode (`dpride.c` 592-646, 691-775, 2915-3091; `esp3.c`) | `EO_CONTROL.Mode`, `ControlCount`, `ERP1gw`; in the gateway: filter and transceiver mode | start loop, `EoApplyFilter`, CHANGE_MODE, FILTER_CLEAR | ResponseQueue, gateway, node table |
| Teach-in, node table, keys (`dpride.c` 2016-2563; `node.c`; `eolib/secure.c`) | NodeTable, control file, SecureRegisterTable, PublickeyTable and file | MainJob in Register mode, `EoSetEep`, `ReadCsv`, `AddPublickey`, `ReloadPublickey` | queues, commands, files |
| Chained telegrams, CDM (`dpride.c` 1733-2013) | eight slots of CdmBuffer | `PushPacket` | MainJob, FreeQueue, DataQueue |
| ESP3 framer (`serial.c` 310-499) | state, header and counter of `GetPacket` | `GetPacket` | serial line, ReadThread |
| ERP2 conversion (`serial.c` 62-308) | none | `_PacketAnalyze` | MainJob |
| Operation output (`dpride.c` 2565-2702; `control.c` 494-828) | bridge files | `WriteBridge`, `WriteCmBridge` | brokers |
| Node names, EEP cache, models (`control.c` 61-332; `node.c`; `eolib/models.c`) | point names, cached profiles, communication models | `EoSetEep`, `EoSetCm`, `EoReadControl`, `CacheProfiles`, `CmGetModel`, `CmCleanUp` | EEP parser, teach-in, commands, JSON service |
| JSON service (`json.c`) | server thread handle, ring of four buffers, queue | `JsonStart`, `JsonStop`, `JsonServer`, `JsonRelease` | one TCP client |
| WebSocket logger (`logger.c`) | list of sockets, one lock per client | `MonitorMessage`, `clientWorker` | browsers |
| Brokers (`dpride.c` 1663-1716; `sample-broker.c`; `EoControl.c`) | broker pids, patrol table | `NotifyBrokers`, `ExamineEvent` | bridge files, signals |
| JavaScript clients (`jsclient/app*.js`, `epoclient/app.js`, `epoclient/public/index.html`) | connection, timer, the page's values and graphs | `connectEventHandler`, `dataEventHandler`, `closeEventHandler`, `updateGraph`, the readers' `data` handlers | JSON service, browser page |
| Monitor page server (`wsclient/app.js`, `logger.js`, `utils.js`) | the address found | `getMyAddr`, `get`, `post` | browsers, the host's routes |
| EEP parser (`ptable.c`) | profile table | sequential, at the start | control files |

Vendored and generated code (`queue.h`, `list.h`, `aw-*.h`, jquery, d3, epoch), the eolib archives, the
test programs and the Azure scripts are listed in `PROJECT.json` and not modelled.

What is hard about it, and what would make each part correct:

* **Queues.** Interleaving of three threads on unlocked tests; a buffer must have one owner, none may get
  lost, telegrams must keep their order, whatever ends or leaks.
* **Commands.** A signal races with the sleep it should end and with the file it announces; commands must
  run once and in order.
* **Gateway.** Late answers, lost commands, and a second thread that changes the tables while the filter is
  written; filter, mode, table and file must agree once all is quiet.
* **Teach-in.** Telegrams get lost between two halves of a key, tables are full, files are cut by a power
  loss; a device must keep one line and its own key over any number of restarts.
* **Profiles.** A model's name is not stored with it, a cached profile is never renewed, two files are written
  one after the other and cleared by another thread; a name must keep its meaning and a device its decoding.
* **CDM.** Devices whose chains collide in a slot; what MainJob gets must be one device's telegram.
* **Framer.** Bytes lost or altered, silences in the wrong place, state that outlives a call; what is
  returned must have been sent, and a fault must cost no more than it has to.
* **JSON and WebSocket servers.** Buffers written while they are sent, a server that is stopped and started,
  clients that leave; telegrams must come in order and once.
* **Brokers.** A signal between reading a file and clearing its note, or between two lines of main; values
  must not be forgotten and a broker that runs must be reachable.
* **JavaScript clients.** A stream cut anywhere, a service that accepts once, a restart of `dpride`; the
  clients must find back to it and show each telegram once.
* **Monitor page.** An address that is kept while hosts and routes change.

## Modules

### PacketQueues, BufferPool, DataPath

`PacketQueues` has one action per step of a thread. `Dequeue` is two steps, `Test` (the STAILQ_EMPTY before
the lock, line 299) and `Remove` (under the lock): between them the other consumer of the same queue may
run. `ReadThread` is ReadTest, ReadTake, ReadPacket (a good packet of any kind, put into the queue of its
type) or ReadError (a damaged one, put into the queue of the packet before); an empty FreeQueue ends it, as
the inverted retry test at 428 does. `ActionThread` is DataTest, DataTake, MainJob, the four Push actions,
DataRelease and the three Extra actions. The main thread is SendCommand and the three Response actions.
`content` says what is in each buffer, `received` and `handled` are histories. A crash is final: the
program stops there, and so does the model (CHECK_DEADLOCK FALSE).

Two abstract specifications stand above it. `BufferPool` knows only who owns each buffer and along which
twelve paths it may be handed on; `DataPath` knows only that telegrams are handled in the order received.
PacketQueues implements both: `Owner` maps queues, hands and losses to owners.

A telegram put together by PushPacket is not itself a fragment: its inner type is that of a shorter
telegram, and a chain of such would end as well.

### CommandLoop

The host's steps are HostOpen (which empties the file), HostWrite and HostSignal; the main thread's are Arm
(`SignalAction`), Sleep, GetCommand (`ReadCmd` with its memory of the last command) and Finish. SIGUSR2 is
ignored from the first signal, whose handler sets SIG_IGN, until the next Arm. `executed`, `caught`,
`served` and `misread` are histories.

The run `command_loop_deaf` shows the race between SignalAction and sleep: the comment there and the
project's README say that the thread waits for the signal, and it sleeps with the signal ignored.
`DeafForGood` (proved, not in a run) says that it is never woken again. This is why CHECK_DEADLOCK is FALSE: a deaf main thread,
with the host's writes used up, has stopped.

### GatewayControl

The main thread's work on a command is a list, `todo`, of gateway commands and local steps; `Script` has the
list of each CHANGE_MODE letter and of FILTER_CLEAR in the order of the code, and APPLY puts
EoApplyFilter's three in front. A gateway command is SendCommand, then GetResponse (the oldest answer) or
Timeout (no answer in the queue). In the start loop StartFailed and StartDone are what the code does with
the status; later it is ignored. `MakeUp` is a damaged packet that ReadThread files as a response, see
`DamagedNeedsRadio`. ActionThread's teach-in is cut where another thread can see it: Look (the node
table), CheckMode, EoSetEep (the file), ReadCsv (the table), EndMark (`nt->Id = 0` behind it), EoReadControl (the
count). Main reads the file for Operation in the same three steps, READ, MARK and COUNT: a line added after main
has met the end of the file may have been read by ActionThread before main's end mark, which cuts its node off
again. That race sets `raced`, as a teach-in during Clear and Register does. Within ReadCsv the lines are taken
in one step: they are written over entries that hold the same devices already, or none the table has.

Gateway and line are external, modelled from the commands dpride sends: the gateway carries them out in
order, a reset clears its filter, and a gateway without ERP2 refuses the mode command. Answers may be late,
commands may be lost or refused. `faults` counts these, and bounds them by MaxFaults. An answer's `age` is
the number of commands sent after its own. The program may exit in the start loop, hence CHECK_DEADLOCK
FALSE. JsonStart and JsonStop, called on some changes of mode, are left to the JSON service.

### SecureTeachIn

MainJob's teach-in telegrams (FirstTeachIn, SecondTeachIn, LongTeachIn, PlainTeachIn, EncryptedTeachIn), a
secure telegram that meets a missing key, the commands and the ends of the program (Restart, RestartClear,
PowerLoss, PowerLossInTeachIn). FILTER_CLEAR and Clear and Register take the steps of the code, with MainJob
running in between: EoClearControl (the truncated control file), DeletePublickey (the table), UnlinkPublickey
(the key file), and for Clear and Register, after the gateway's answer, ClearAndRegister (ClearTableId and the
mode). ChangeToOperation sets the mode, EoReadControl reads the file. PowerLoss may come between any two steps. A
telegram is handled in one step, and so is a table's reading: what main does within one is
GatewayControl's. Devices are the payload: a key is the pair of devices its halves came from, a handle is the key
it was made from.

stdio writes the key file in blocks, so that a loss of power leaves a beginning of it whose last line may be
cut: `CutOff` has all of these, and `CutLine` what ScanLine makes of such a line, a wrong key, no key, or a
wrong id. The same holds for a table that has just become full, whose file RewritePublickey never closes:
`unwritten` is what exit will leave, the file holds a beginning of it, and the next teach-in reads that over the
table (`Displaced`). `hidden` counts the lines ClearTableId left in the file, `doubtful` has the
devices whose key the code cannot have.

Left out: the rolling codes' values, teach-in inside chained telegrams (`IsSecureCDM`), communication-model
teach-in (EoSetCm) and the profile columns of a node (both are ProfileCache's), the key half an abandoned slot leaves behind (it is
written over before it is read). `SecureMark` of a node is only printed. SecCreate is external and may fail
for a slot, not in ReloadPublickey. NODE_TABLE_SIZE (256) is not reached.

### ProfileCache

What dpride knows of a device's profile. MainJob teaches in by EepTeachIn (`EoSetEep`, whose points may not
be known: TeachInRefused) or by CmTeachIn and WriteModel, the two files `EoSetCm` writes one after the other;
CmTeachInFails is its early returns. Each ends with `EoReadControl`, which reads the models (`ReadModel`), the
nodes, and caches a profile for every name (`CacheProfiles`). The main thread changes the mode. For
Operation the mode comes first (ChangeToOperation); then OpenModels empties ModelCache, ReadModelLine fills it
line by line and ReadNodes makes table and profiles, while telegrams come in already. It clears the files in the
steps of `EoClearControl`: TruncateControl, TruncateModels, CmCleanUp, and ClearTable for Clear and Register. Start, Restart, TornRestart and RestartClear make the tables
from the files, the model's line cut in two included. JsonTelegram is a telegram for which `GetTitle` finds
no title (with the JSON service enabled), be it that the device or its model is not there or that a model's name
begins like an EEP's (`LooksLikeEep`; EepLike has the bases whose first letter is A to F); the model ends there or with Overrun, `CmGetCache`'s reading behind
the full table, until a restart.

A model is its fingerprint, a name its base and a number, which CmStr derives from the order of ModelCache as
`CmGetModel` does. `sent`, in a line of the control file, is what the device was taught as, a history.
`spoiled` is set by what makes control and model file disagree, `stale` holds the names cached before
their model changed, `cleared` lasts from dropping the models to the next reading.

CmFpSearch, CmAnalyze and CmMakeString are in an eolib archive and external. CmFpSearch compares the length of a
fingerprint; as `CmTextToBin` counts the end of a line for a byte, it finds none of the file's models
while the file is read, so that every line of the model file gets an entry and a number of its own.

Left out: two threads that fill the same tables at once (undefined behaviour from the first freed string on: a
teach-in's own reading is one step, and waits while main has the files open), the capacity of NodeTable and CacheTable, a control line cut in two, a
teach-in of a device that is in the table, which MainJob does not do.

### CdmReassembly

`PushPacket` for chained telegrams that are not encrypted: the slot its sequence number chooses, the first
fragment that starts the slot anew (`Collected`), the later ones that are appended when the slot has their
device's id (`Accepts`), and the telegram queued when enough has come (`Complete`, `Content`), unless no
buffer is free. The devices, which send one telegram after another with consecutive sequence numbers, and
the radio, which loses or repeats fragments, are external. A fragment counts as one piece of the telegram's
length instead of its bytes, so that one lost fragment is made up for by exactly one other.

Left out: the four slots of encrypted chained telegrams, which no plain one ever touches, with the
decryption that shortens `Length` in place; `malloc` of the slots after the threads have been started
(2965); where the buffer goes, which is PacketQueues's.

### JsonService, JsonRing

`JsonRelease` in MainJob is GetBuffer, Copied and Enqueue, so that the server may see a buffer that is half
written or not yet linked. Enqueue is STAILQ_INSERT_TAIL on pointers: `next`, `first` and `last`, the buffer
whose next field `stqh_last` points to. The server's steps are Accept, ServeFails, TestStop, Dequeue and
Send; Dequeue is one step, for its queue has one consumer (as SingleConsumerSafe of PacketQueues says, that is enough). The main thread runs
JsonSetup, then changes of mode (LeaveOperation with JsonStop; EnterOperation and, after EoApplyFilter,
FilterApplied with JsonStart). A telegram is its number: its text is made in a buffer MainJob alone uses.
The model ends when a telegram meets the ring before JsonSetup.

`JsonRing` is the abstract specification above it: a ring of buffers used in turn and a first-in first-out line of
those that wait, without pointers or threads. JsonService implements it: `Waiting` follows the next fields from
`first`, `Turn` is the buffer to be linked next. The line has one flaw, which is the code's: a buffer whose turn
comes while it waits drops the line and is alone in it.

### WebSocketLogger

MonitorMain is Accept, CountUp and AddClient; a worker goes from Start over Receive and one of the Parse
actions to Send, Clear and Wait, and leaves by CountRead, CountDown, FreeBuffer and Unlink. MonitorMessage
is Distribute, and MakeFrame and Unlock for each client, with the next client saved before the step
(`list_for_each_entry_safe`). `sock_count` is read and written in two steps. Using a client or a buffer that
was freed makes `fate` undefined, the assert on an incomplete handshake aborts; the model ends there.
A buffer's contents are a number, safeSendAll is one step, list_add_tail and list_del are atomic.
MonitorStop is never called by the gateway. Clients' frames are never read once the handshake is done.
`overlap` records that two threads were inside the count's read and write at once: with fewer, CountTrue
says, the count is right.

### Esp3Framer

`GetPacket` is an action per kind of byte: GetSync, GetHeader; Resync, BadHeader, GoodHeader and EmptyPacket
where the header's CRC is expected; GetData; TooLong, GoodPacket and BadPacket at the end. `status`, `line`
(the header bytes, whose number is `count`) and the CRC outlive a call, `length` does not: EntryState says
that no call uses what it has not read itself. The CRC is a parameter; the run computes the code's own. The
module and the line are external: a packet is sent when the bytes before it are read, and arrives whole,
without a part, with a byte altered, or as noise. A call may find that the line was silent for 10 ms.
PacketQueues takes the framer's verdict as nondeterministic, so that it does not matter to it which bytes
were damaged. SendPacket keeps nothing; a failing read is tried again.

### JsonClients, LoggerAddress, Brokers

`JsonClients` is the far side of the JSON service: accept once, send, the end of the thread and of the
program, the port that stays in TIME_WAIT; and its clients. The stream to a client is a sequence of pieces
(head and rest of a telegram, the `'\0'` that ends it, json.c 245), cut by each data event where it may;
PrintData, ParseData and RelayData are the handlers of `app.js`, of `app2.js` and `app3.js`, and of
`epoclient`, whose page is UpdateGraph and LoadPage. What JsonService models of the server is here a single
Send; its order and its stops are established there. `epoclient` and `wsclient` both listen on port 80, so
that a host runs one of them: nothing connects the two modules.

`LoggerAddress` is utils.getMyAddr with logger.get and post: GetPage looks among the routes for a network of
the requesting host, unless an address is kept; ChangeRoutes is external. Only requests over IPv4.

`Brokers` joins ActionThread's side (OpenBridge and CloseBridge, the two steps of WriteBridge; NotifyBrokers;
Reboot with InitBrokers) with the sample broker's: an action per line of main's start, the loop's SkipDevice,
ReadDevice, ClearNote and WakeUp, and the handlers ExamineEvent and StopHandler between any two of them.
`lost` says whose signal no broker noted, or which note was cleared unread. The broker may be told to stop or
killed, hence CHECK_DEADLOCK FALSE. dppoint.c's points, more than one broker and more than one value for a
device are left out.

## Runs

| Run | Instance | What it shows |
|---|---|---|
| `packet_queues` | 3 buffers, 3 telegrams, FairSpec | OnePlace, Guarded, DamagedNeedsRadio; implements BufferPool and DataPath; TelegramsHandled, DrainedAfterEnd |
| `command_loop` | 2 commands, 4 writes, FairSpec | ExecutedInOrder, CaughtIsServed |
| `command_loop_deaf` | 2 commands | violation of ListensWhileAsleep |
| `gateway_control` | 2 devices, all commands, 1 fault | GatewayAgrees (with StartKnows), LinesOnce |
| `gateway_faults` | 1 device, Operation and Register, 2 faults, FairSpec | AnswerLag, SlipLasts, MainReturns |
| `secure_teach_in` | 2 devices, node table of 3, 1 slot, key table of 1 | TableIsFile, MarkedHasKey, NullKeyCases, NoRelief |
| `profile_cache` | 2 devices, 1 EEP, 1 suffix; 2 models of one base, 2 cache entries, 3 lines; 2 models of two bases, 1 cache entry, 2 lines | NamesAlwaysMean, DecodedAsTaught, NewPointsAreNew, CrashCases |
| `json_service` | ring of 4, 9 telegrams, any changes of mode | implements JsonRing; InOrder, StopIsFinal |
| `websocket_logger` | 2 clients, 3 messages | CountTrue, WaitingGetsAll, NeverAgain |
| `websocket_logger_zeros` | 2 clients, 3 messages | violation of Distributed |
| `host_programs` | 3 clients, 3 telegrams, 1 restart; 3 hosts, 4 routing tables, 2 changes; 2 devices, 3 values, 2 starts of the broker, 1 of dpride; fairness | OnlyTheFirst, ShownOnce, Resumes; WorksUnlessKept; NothingForgotten, Reachable, NoteIsRead |
| `reception` | 3 packets of 4 kinds, 2 faults, buffer of 4; 2 devices, 2 sequence numbers, telegrams of 3, 1 and 2 fragments, 2 radio faults | EntryState, Genuine, CostOfFault; Faithful (with OneDevice), ExactlyOnce |

A module's type invariant is a conjunct of one of its properties where the run checks it (TableIsFile,
NamesKeepMeaning in NamesAlwaysMean, GatewayAgrees, InOrder, NeverAgain, ShownOnce, WorksUnlessKept,
NothingForgotten, Genuine); all of them are proved, those of PacketQueues, CommandLoop and CdmReassembly by theorems of
their own, that of Esp3Framer by FramerTypeCorrect.

Why the bounds are enough: three buffers let every thread hold one while one is in a queue, and two empty
the pool; three telegrams give an order with something in between. Two commands are needed to repeat one and
to come back to one, and four writes for both at once. Two faults give a late answer and the loss that
undoes it; StartRetries is 1 instead of 5, so that one fault repeats the start and two reach the exit. Two devices are needed for a
key that gets to the wrong one; one slot is all there are for a known device to hold while the other asks for
one, one entry of the key table is the limit for the second device's key, and three of the node table are both
devices and the end mark, or a hidden line more. In `gateway_control` tables may have two lines for each
device, which the theorem's invariant shows to be the most. Two models of one base are what makes a
name depend on the order; they fill a cache of two entries, of which the third line of the file is one too many, and
with a cache of one entry the second model is refused. The EEP has a field whose short cut is what its other field becomes with the only
suffix, so that all names of a point can be taken.
Three telegrams under two sequence numbers bring one back, two devices collide, and two faults can lose the
end of one telegram and the beginning of the next. Nine telegrams go through the ring of four
twice. Three messages are one in the buffer, one over it and one later. Devices are
interchangeable and symmetric in the runs without liveness. In `host_programs` the three
programs share nothing, so each is explored with the others at rest; so are framer and chained telegrams in
`reception`. Three telegrams are one in a chunk, one
in the next and one cut between them; one restart brings every client to a service that has no client yet. A
host in the same network as another and one in a network of its own, and two changes, give a kept address
that is wrong for the host and one that is out of date. A device can be noted before the broker has counted
it, and a second start finds what the first left. In `reception` packet
lengths are small: a buffer of four bytes has packets that fit, fill and exceed it, and two faults are a
damaged packet with another behind it. Three packets do not end what a false header swallows (`Misled`), so
that CostOfFault says nothing of how long that lasts; and `count`'s wrap after 65536 bytes is far beyond it.

What the runs taught about the code (each is the exception a property names):

* FreeQueue has two consumers, and Dequeue's unlocked test is wrong there in two situations (FreeQueueRace, a part of Guarded).
* PushPacket's early returns after its Dequeue lose a buffer each (OnePlace names them as `leaked`).
* After one late answer every later one is taken for the wrong command (SlipLasts), and the start loop may
  take an ERP1 gateway for one with ERP2 (StartKnows, a part of GatewayAgrees).
* A device taught in while Clear and Register waits for the gateway is in the file and not in the table, and
  gets a second line; so does one whose node main's end mark cuts off when it reads the file for Operation
  (LinesOnce, TableIsFile). A teach-in that spans a change to Operation leaves its device filtered
  out, and a stale ControlCount can make EoApplyFilter enable an empty filter, which a second change to
  Operation with an empty file does not undo (GatewayAgrees).
* FILTER_CLEAR leaves the node table, and Clear and Register clears it after the keys: known devices cannot
  register again, and handles meet missing keys (TableIsFile, NullKeyCases).
* A device taught in with a key while a clearing is under way keeps its line and loses its key, and a key file cut by a loss of
  power gives a device a wrong key, or none (`doubtful` in MarkedHasKey).
* A cleared table entry hands its old handle to the next device in it (NullKeyCases).
* A model's name follows from the order of the model file. It keeps its meaning unless a line is written to
  the control file only, half a line ends the model file, a model is kept for want of a file, or a device is
  taught in while EoClearControl is at work (`spoiled` in NamesKeepMeaning, which NamesAlwaysMean asks of both sizes of the cache); nothing repairs that but clearing both files.
* Files read for Operation mode between the two lines of a model's teach-in give its name a profile without
  units, and a cleared model's name keeps the old model's: CacheTable renews an entry at a restart only (`stale`
  in DecodedAsTaught).
* ModelCache fills with teach-ins, not with models: every line of the model file takes an entry.
* `GetTitle` dereferences NULL for a device that is not in the table; for one taught in with a model after FILTER_CLEAR,
  and in an ordinary change to Operation while ReadModel refills the cache; and for any model whose base begins with A to F
  (CrashCases). `CmGetCache` leaves the full table when the files are spoiled.
* The points of all devices share the suffixes; when these run out, or when a device is forgotten
  while it is taught in, two points have one bridge file (NewPointsAreNew).
* A fragment's index is looked at only to see whether it is the first. What one device loses or repeats can
  push its telegram twice or patch it with a piece of a later one, never another device's (Faithful,
  ExactlyOnce); a collision of sequence numbers loses a telegram but does not damage one.
* JsonRelease links buffers that are linked already. The list stays sound, but a telegram that reuses the
  oldest one drops the others of its round (ImplementsLine, InOrder).
* One change of mode ends the JSON service until the program is started again (StopIsFinal).
* A message for a WebSocket client past its handshake, whose worker pauses after the one before, is lost, and zeros are
  sent instead (violation of Distributed); a client that is waiting gets everything (WaitingGetsAll).
* Slots for secure teach-ins are freed by completed registrations only (NoRelief).
* `sock_count` is right until two threads change it at once (CountTrue).
* A sync byte in place of a header's CRC, with none among the four before it, sets GetPacket's state back
  without its count: from then on every byte is taken for a header's and written behind the last (`Deaf`,
  which the theorem DeafForGood shows never to end; CostOfFault).
* A response that loses the zero it begins with can pass for a header (`Misled`): a zero in front changes no
  CRC. Two damaged packets can pass for one that nobody sent (Genuine allows it from the second fault on);
  one cannot.
* The service accepts one client for the life of the program, but the system completes the connections of
  the others: they see no error and get nothing (OnlyTheFirst). epoclient, all the same, gets a
  connection again whenever the service listens for good (Resumes).
* A chunk that is not exactly one telegram ends `app2.js` and `app3.js` and is skipped by the page (ShownOnce).
* The address in the monitor page stays the first one found (WorksUnlessKept).
* The sample broker handles signals before it clears its table and sets `running`: a value noted in between is
  forgotten, and an order to stop leaves a broker that runs without a pid file (NothingForgotten, Reachable).
  A note that comes between reading the file and clearing it is cleared with it; the next value repairs it.

## Fairness

PacketQueues: weak fairness of ActionThread's and of the main thread's steps, for the scheduler runs a
thread that can go on; none for ReadThread, which waits for the line, nor for SendCommand. CommandLoop: weak
fairness of the main loop; the host owes nothing. GatewayControl: weak fairness of the main thread and of
the gateway carrying out what it was sent. The second is there because MaxFaults bounds time-outs: in the
code the 90 ms are enough. JsonClients: weak fairness of the handlers and of the timer of epoclient's event
loop (MakeConnection, CloseEvent, RelayData) and of the server thread's accept; the service owes no telegram
and dpride no restart. Brokers: weak fairness of the broker's loop and its handlers, which the system runs
while the process lives; nobody need start a broker, and no telegram need come.

## Proofs

Every theorem holds for all values of the constants that satisfy the modules' assumptions (PoolAssumption and
the like), which TLC evaluates in every run. Two of these say more than that something is a number:
JsonService's ring has two buffers at least (the code has four), without which the buffer being filled would be
the one linked last; and in ProfileCache no EEP has the name of a model (an EEP's is three hexadecimal numbers, a model's
ends in a decimal one after its base). A proof module first names the parts of the inductive invariant, each of
which TLC checked on the run before it was proved, then has one lemma per action or group of actions, then the
theorems. Two arguments recur, for induction over data is out of the prover's reach:

* *The least one.* A set of numbers has a least (LeastNumber): "the first entry", "the first slot", "the first
  element that is not as it should be" rest on it.
* *The witness.* Where a recursive definition walks over data, the invariant says that a path with the steps of
  the recursion exists, and every action extends or shortens the path.

`Threads_proofs`, about PacketQueues (any number of buffers and telegrams):

* `Invariance`: IInv = TypeOK, HandsMatchSteps, NoSharing, Conserved is inductive. NoSharing alone is not:
  that an Enqueue never queues NULL or a buffer queued already, and that a Dequeue never overwrites one in
  hand, follows from the step a thread is at (HandsMatchSteps). The proof reduces each action to taking,
  putting or giving up one buffer (lemmas TakesPlaced, PutsPlaced, LeaksPlaced).
* `TypeCorrect` and `BuffersInOnePlace` follow. `GuardedAlways` adds, from the steps of two
  threads at once, that the unlocked test is enough where one thread consumes, and where it is not.
* `PoolImplemented`: the refinement of BufferPool, from the same three lemmas.
* `PathImplemented`: the refinement of DataPath. OrderInv says that the telegrams accepted and not handled are
  those in DataQueue, in its order, or in MainJob's hands before them; each step of the threads leaves them
  alone, appends one, takes the first or finishes it (DataQuiet, DataAppend, DataTaken, JobDone).
* `DamagedAfterRadio`: a damaged packet is queued only after a radio telegram was received, for it is what an
  earlier frame left in the buffer.

and about CommandLoop (any commands and number of writes): `LoopInvariance` (LoopInv adds that what ReadCmd
remembers is the newest command's, and the bound on a write under way), `LoopTypeCorrect`, `CommandsInOrder`,
and the action property `DeafnessLasts`.

`GatewayControl_proofs` (any devices, commands, modes, retries and faults) proves its `Invariance` in seven layers:

* Basic: types, and which step may follow which in `todo` (Follows): a plan is always the rest of one that
  Script, the start loop or EoApplyFilter made. Bounds: tables and counters by the number of devices.
* Ages: what is under way is no more than the answers that came late or were made up and the command that
  waits; an answer is at most that much behind. From it `LagBounded`.
* Chain: with no command and no answer lost, the gateway's answers are to successive commands up to the last one sent,
  so that the next one taken is never nearer to its command than the one before: `SlipIsForGood`.
* Known: only a gateway without ERP2 answers NOT_SUPPORTED, and without faults the start loop's answers are to
  the command it waits for (StartKnows).
* Rows: a device in the file is in the table or is being read back, the table is cleared when the file is
  empty, and main has read all of the file when it writes its end mark (Marked), unless a teach-in overlapped: `OneLine`. A
  teach-in that did makes a line double, but no more (Lines), which bounds table and file by twice the devices.
* Agrees: not what the gateway is but what it will be when it has carried out what is on the line
  (`ToBe`, a path of gateways, a witness in the sense above), says the filter, switch and mode that the step
  main is at calls for. At rest the line is empty or brings no change, and `FilterAgrees` follows.

`SecureTeachIn_proofs` (any devices, numbers of slots and table entries): `OneLinePerDevice` and the action
property `SlotsStayTaken`. TableIsFile is not inductive: a second line is one of those ClearTableId hid only if
all lines in front of it are hidden and none behind (Single), and from a clearing to the next reading the table
has hidden all of the file or nothing. IInv says so, and that the keys on disk and those in the stdio
buffer fit the key table, which makes every start one from good files (lemma StartEstablishes, used by
each of the four ends of the program). `KeysSurvive` and `NullKeysNamed` follow from a second invariant, KInv: table,
file and buffer have one line for a device, and what is to be read of the file is line by line the table's devices, once
main has not emptied that (Aligned), so that reading it again costs only those Displaced names; a marked device that is not doubtful
has its own key in the table and in the file exit leaves (Kept), and its first node the handle made from it (Handled).

`ProfileCache_proofs` (any devices, models, profiles, short cuts, sizes of ModelCache and numbers of suffixes):
`ProfileInvariance`. A name is a base and a number that follows from the order of a cache, so the invariant is
about caches: Filed is what a reading would make now, Coming what it will make when the model under way is in its
file, and `Means` says that a name is a model's in a cache. FilesAgree relates the control file to both,
CacheAgrees ModelCache to Filed, but while a clearing or ReadModel is between the two (LinesRead), TablesAgree the cached profiles and the nodes to Coming. It is inductive
because caches only grow at their end, where they do not renumber what is before (Begins, BeginsKeeps), because
no two entries have one name, by counting (NamesDiffer), and because a full cache grows no more, so that the
third line of a file of two is read by nobody. HalfEmpty and TitlesFound cover the steps of EoClearControl, PointsKnown
says that the table has all names of the control file. `NamesMean`, `TaughtIsDecoded` and `CrashesNamed` follow
from it. `PointsAreNew` needs besides that MakeSCutFieldsWithCurrent, a recursive function, gives the names its
equation says: such a function exists for every length by a least counterexample (NamesCanBeGiven). `NamesMean` is
about NamesKeepMeaning, of which the run's NamesAlwaysMean is the conjunction for two sizes of the cache.

`JsonService_proofs`: `ServiceEnds`, from an invariant (IInv) that a server has a handle as long as it lives, so that
JsonStart cannot clear Stop under it, and that whoever has sent a telegram after Stop is back at its test.
`QueueInvariance` (any ring of two or more): the buffers linked are the last ones used, from `first` to `last` along
`next`, whatever the pointers of the others say (Chained); this survives linking a buffer that is linked
already, which makes the list begin anew after it. Its path is the witness for Walk, which gives
`QueueIsAList`. As long as no buffer was reused (`lapped`), they hold successive telegrams, and the one taken
out is the one before theirs (Ordered): `OrderedUntilReused`. `LineImplemented` is the refinement of JsonRing: the
number of buffers linked follows from the first of them (FirstTells), so a step changes the line by what it does to
`first` and to the buffer linked last (LinePuts, LineTakes, LineRests). No run checks SoundList, which QueueIsAList
states: with a wrong `stqh_last` an Enqueue would not be a step of JsonRing.

`WebSocketLogger_proofs` (any clients and messages): `CountIsTrue`, from an invariant that at most one thread is
between reading and writing the count while `overlap` is false, and what it read is the count. `NoMessageAgain`, from
OrderInv: nobody ahead of MonitorMessage in the list has a frame of this call, though clients leave and join while it
walks (Walk), and a message in a buffer is the last of its client and not yet sent (Rising).
`WaitingClientGetsAll`, from PairInv: for a client that was always waiting, frame and signal come together and go
together, so that what it got lacks at most the message in its buffer.

`Reception_proofs`, about Esp3Framer (any bytes, CRC, packets and sizes): `FramerInvariance` and `LocalsAreSet`
say that the header is complete and the length set wherever they are used; `DeafForGood` that a search which has
left its bound never comes back. `FramerTypeCorrect` needs besides that a packet returned has its header and data
complete, and that what counts packets stays within those sent (HistoryInv). `UndamagedArrives` is what a line without faults
guarantees: every packet that fits the buffer is returned once, whole and in order, and nothing else is (Undamaged, which includes Genuine and CostOfFault), whatever silences
lie between packets and calls and whatever bytes, sync bytes included, a packet has. CleanInv says that after k bytes of a packet
the search is where byte k puts it, with the header and data read so far (Reading), that the wire holds the rest (Rest), and that
what was returned are the packets before (Delivered). Its hypothesis is that packets are as ESP3 has them (WellFormed: a sync byte,
a header whose lengths are those of the data, at least one byte, and both CRCs in their place), and asks nothing of the CRC
function itself. The packets the run sends are such. Three theorems hold with any damage and noise as well, and for any CRC:

* `FoundPacketArrives`: a packet that is sent while the search is at its begin, or in front of which a call after a silence
  begins, is read to its end, whatever its bytes are, and returned if it fits. The search never leaves it, for it
  is where CleanInv's Reading says.
* `FoundInWrongHeader`: a packet sent while header bytes of something damaged are collected is found by its fifth byte.
  As long as the header bytes end with the begin of the packet (Amid), the first sync byte Resync finds among them is
  the packet's or one before it. The exceptions are a header's CRC on bytes that are none, and the deaf search.
* `ReturnedWasOnTheLine`: what is returned is a run of the bytes read, undivided, after what was returned before, with sync
  byte, lengths and both CRCs. It needs a history of all bytes read (`seen`), and an invariant that says where in it
  the header and the data lie that the search has kept (Located), whichever bytes Resync dropped.

About CdmReassembly (any devices, sequence numbers, telegrams and number of
faults): SlotInv adds to TypeOK and OneDevice that a slot holds fragments of the device it belongs to only (OwnData), which
makes OneDevice inductive, and that a device that has sent everything has begun nothing (SentAll), which types
the fragment a repeater may send again; `TypeCorrect` and `AlwaysOneDevice` follow. `AlwaysFaithful`: unless something
of its device and number was lost or repeated, a slot holds the first fragments of the telegram its device
is sending, or all of one it has sent (InStep). `AlwaysExactlyOnce`: such a telegram is not queued before its last fragment was
sent, keeps its slot unless another device takes it, and is then queued at one place (Counted).

`HostPrograms_proofs` (any clients, devices, networks, routes and bounds): `OnlyTheFirstIsFed`, from the
invariant that while the service waits in accept the first in its backlog is the first who connected.
`EachIsShownOnce`: the pieces on the wire to a client are a run of the whole stream, each at its place in
it (Streams), what the client has made of them ends where the run begins, and epoclient's page has the
telegrams before its newest (Graph). `BrokerReachable`, which needs the steps of main before the loop.
`BrokerForgetsNothing`: of a device's newest value there is a trace somewhere between WriteBridge and the printed line, or it is
counted lost (Traces). `PagesWork`, which needs that a kept address was right for the host and the routes it was
found for.

OneDevice, DeafForGood and DeafnessLasts are proved and not listed in a run: the first is a part of Faithful, the
others follow what CostOfFault allows and the violation of ListensWhileAsleep.

Only model-checked are:

* Liveness under fairness, which is out of the prover's reach: TelegramsHandled, DrainedAfterEnd, CaughtIsServed,
  MainReturns, Resumes, NoteIsRead.
* Genuine and CostOfFault of Esp3Framer once a packet was damaged (without faults UndamagedArrives implies both). They are then about
  the code's CRC and the packets of the run: for any CRC, or for noise that happens to be a packet, they are false, and
  for the code's CRC and any packets they are statements about polynomials. What of them does not depend on the CRC is
  proved: nothing is returned that was not on the line (ReturnedWasOnTheLine), and a packet is found and returned unless
  a CRC that is right by chance, a silence or the deaf search comes in between (FoundPacketArrives, FoundInWrongHeader).
* NamesAlwaysMean of MCProfileCache as such: it is NamesKeepMeaning for two sizes of ModelCache in one run. NamesMean
  proves NamesKeepMeaning for every size.

## Not modelled, and why

* The ERP2 conversion, the ESP3 command builders, and the EEP parser: byte
  layout and text, without state between calls that another part could disturb. Their failures are
  nondeterministic where they matter (EoSetEep knows no such profile, a gateway without ERP2).
* Encrypted chained telegrams: their four slots are shortened in place by SecDecrypt, a binary archive, whose
  lengths are not known. Rolling codes are compared inside the same archive.
* Operation output beyond the bridge file a broker reads, logs and options: pure input and output.
* MonitorStop and `SendPacket` as said above; the WebSocket protocol library and the browser libraries are
  vendored. Most of the repository's JavaScript is theirs: of about 34,600 lines in 11 files, 494 are its own.
* The whole gateway in one module: its parts meet at a queue, a file or a signal, and each of these is modelled with
  the other side as nondeterministic as the code allows.

What is left to prove: Genuine and CostOfFault for any packets, from assumptions on the CRC that say what one fault can do
and on packets whose data contain packets.
