# Verification of the ESP8266 BACnet relay

This directory holds TLA+ models of the program under `src/`: a WiFi relay
(ESP8266, Sonoff board) that speaks BACnet through a port of the open BACnet
stack of Steve Karg.  Every definition that models code is listed in
`PROJECT.json` under `map` with the C lines it translates.  TLC checks the
modules on small instances; TLAPS proves theorems about them for every value of
the constants.

Parts of this file: [the system](#the-system), [the modules](#the-modules),
[the runs](#the-runs), [fairness](#fairness), [the proofs](#the-proofs),
[what the code does otherwise than it says](#what-the-code-does-otherwise-than-it-says),
[seen while modelling](#seen-while-modelling),
[what is not modelled](#what-is-not-modelled), [the plan](#the-plan).

The repository holds more than the relay runs: its firmware answers Who-Is,
ReadProperty, ReadPropertyMultiple and WriteProperty for a device object, an
analog input and a binary output (`src/bip-init.c:58`, `Object_Table` of
`device.c`); the rest of the stack and of its demo objects is there to be built
in.  Both are modelled, and the text says which is which.

## The system

Everything runs in one thread; interrupts only move octets of the UART.  The
unit of interleaving is therefore a call that runs to its end: a received
packet (data link -> `npdu_handler` -> `apdu_handler` -> a service handler), a
timer, a step of a task, a web request.  What makes the code hard is state that
spans calls, and tasks that do one small step per call while anything may
happen in between.

| Component | State | Operations | Hard because | Correct when |
|---|---|---|---|---|
| Transaction table, `tsm.c` | `TSM_List`, `Current_Invoke_ID` | get an id, transmit, give back, free, timer | answers are late, duplicated or lost; the 8-bit id wraps past ids in use | ids are unique and only ever freed, every request follows its retry schedule and ends |
| Communication control, `dcc.c` | status, seconds left | set status, second timer | a limit of 0 means none; a new order comes while an old limit runs; the timer is late | a device is silent as it was last told, and as long |
| COV subscriptions, `h_cov.c` | subscriptions, addresses, phase and index of the task | subscribe, renew, cancel, expire, five-phase task | one entry per call; a notification outlives the state it was sent from | no change lost, no transaction or address leaked, what is owed is sent |
| Application dispatch, `apdu.c` | handler tables | route requests and answers | answers are matched by id only; a request may be dropped | what is answered is what was done |
| Senders, `s_*.c` | none of their own | ask, take an id, encode, send or give back | some twenty copies of one protocol | no id is kept, nothing is begun while it is forbidden |
| Handlers, `h_*.c` | the objects, files, a private block | decode, check, write, answer | several values in one request, each written as it is decoded | the answer tells what became of each |
| Address cache, `address.c` | bindings with flags and time to live | bind, look up, mark static, evict, age, restart | several kinds of entry compete for a full table; entries are reused with old data in them | one entry per device, bound where it was last heard, static entries stay |
| MS/TP, `mstp.c` | receive and master state machines | octets, timers, frames | token lost, duplicated or late; nodes come and go | one token; the ring heals and serves everyone |
| BACnet/IP, `bvlc.c`, `bip.c` | broadcast and foreign device tables | register, forward, age | forwarding loops, expiry | a broadcast reaches each network once |
| BACnet/IPv6, `bvlc6.c`, `h_bbmd6.c`, `vmac.c` | table of virtual MAC addresses over a sorted key list | send, receive, resolve, forward | addresses change hands; datagrams are late or repeated; bisection decides where a key goes | bindings are addresses the device had, messages reach whom they name |
| Binary output, `bo.c` | a priority array per output, out of service | write, relinquish | sixteen writers; array writes | the highest priority holds, the reserved one stays free |
| Device object, `device.c`, settings, `nvmem.c` | number, name and texts in memory and in flash; database revision | write, restart | memory and flash drift apart, a save may fail, flash may be unreadable | what was acknowledged survives, names stay unique |
| Timer of the relay, `main.c` | the pin | copy the present value | the pin is a copy, taken every 500 ms | the relay follows the output |
| UART driver, `uart.c` | FIFO, interrupt mask, event queue, ring | interrupt, task, dequeue | the interrupt masks itself and relies on others to be unmasked | nothing lost or reordered after the FIFO, reception resumes |
| Console, `uart_console.c` | menu state, line buffer, list of networks | read an action, a line; scan callback | lines arrive in pieces, buffers fill | a line is what was typed, its length is right |
| WiFi manager | connection attempts | connect events | retries | the device is reachable; not in the build |
| Queues, `ringbuf.c`, `fifo.c` | free-running indices | put, get | wrap-around | first in, first out |
| Events and alarms, `ai.c`, `av.c`, `nc.c` | event state, time stamps, acknowledged transitions, recipients | intrinsic reporting, acknowledge | time delay; acknowledgements of what is no longer so | what is reported can be acknowledged |
| Other objects, `ao.c`, `bv.c`, `mso.c`, ... | a value or a priority array, out of service | read, write, relinquish | what is stored is not what is reported | an acknowledged write is read, a refused one leaves nothing |
| Load control, schedule, lighting, `lc.c`, `schedule.c`, `lo.c` | requested and actual level, state | timer, write | it commands an output others command too | what it reports is true |
| Trend log, `trendlog.c` | ring, counts, triggers | log, configure, read by position, number, time | three ways to name a record of a ring that turns | the latest records in order, all three ways agree |
| Codecs, `bacdcode.c`, `bacapp.c`, one file per service | none | encode, decode | lengths and tags, written apart for each direction | decoding inverts encoding |
| Calendar, `datetime.c` | none | count days and minutes | midnight, months, leap years, signs | it counts |

How they meet:

- `handler_cov_fsm` reads and clears the change flags of objects, takes slots
  and ids of the transaction table, asks communication control whether it may
  speak, and polls the table for the end of what it sent.
- `apdu_handler` frees a transaction on behalf of whoever started it, knowing
  only the id, and drops requests while communication is disabled.  The senders
  and the handlers share its transaction table and communication control.
- A device's timer runs those of its objects: analog inputs and values report to
  the recipients of their notification class, a load control commands an analog
  output at its own priority, a trend log reads the property it follows.
- The table of virtual MAC addresses is fed by whatever a node of the IPv6 link
  receives, and consulted for whatever it sends.
- I-Am requests feed the address cache (`h_iam.c`), which clients and the
  transaction table's callers search.
- WriteProperty changes binary outputs and the device object; the device object
  writes the flash; the timer of `main.c` reads the output and drives the pin; a
  restart reads the flash.
- The UART interrupt posts to a task, the task fills the ring, the console
  empties it and, by emptying it, unmasks the interrupt.

The hazards of the code, each at its line, and the properties aimed at them are
in `PROJECT.json` under `hazards`.

## The modules

| Module | Models | Uses |
|---|---|---|
| `Transactions` | abstract: what callers expect of an invoke id | |
| `TSM` | `tsm.c` | refines `Transactions` |
| `DCC` | `dcc.c` | |
| `COV` | `h_cov.c` composed with the table and communication control | `TSM`, `DCC` |
| `Client` | the senders `s_*.c` on the table and communication control | `TSM`, `DCC` |
| `Server` | the handlers of requests, as operators | |
| `APDU` | `apdu.c`: one device among others | `Client`, `Server`; refines `Transactions` |
| `AddressCache` | `address.c` | |
| `Token` | abstract: a token that moves, is lost and is made anew | |
| `MSTPRing` | the master node machine of `mstp.c`, one per station of a bus | refines `Token` |
| `VMAC` | `vmac.c`, `keylist.c` | |
| `BVLC6` | messages of `bvlc6.c` | `Primitives` |
| `BIP6` | `h_bbmd6.c`, nodes of an IPv6 link | `VMAC`, `BVLC6` |
| `Firmware` | `bo.c`, writes to the device object, `nvmem.c`, `main.c` | |
| `Properties` | the frame of every `Read_Property` and `Write_Property` | |
| `Points` | input, output and value objects | `Properties` |
| `Alarms` | `ai.c`, `av.c`, `nc.c` | `Points` |
| `Controls` | `lc.c`, `schedule.c`, `lo.c` | `Points` |
| `DeviceObject` | `device.c` as a client sees it, `bacfile.c` | `Points` |
| `Objects` | a device of such objects, its clients and timers | `Alarms`, `Controls`, `DeviceObject` |
| `RecordLog` | abstract: the latest records, oldest first | |
| `TrendLog` | `trendlog.c` | `Properties`; refines `RecordLog` |
| `Primitives` | `bacdcode.c`, `bacint.c`, `bacreal.c`, `bacstr.c` | |
| `ApplicationData` | `bacapp.c` | `Primitives` |
| `Calendar` | `datetime.c` | |
| `Decoder` | how decoders walk a message | `ApplicationData` |
| `Headers` | `npdu.c`, the headers of `apdu.c` | `Decoder` |
| `ServicesAccess`, `ServicesEvent`, `ServicesDevice` | over thirty services | `Headers` |
| `Codec` | a sender, a receiver and the octets between them; a clock | extends the services and `Calendar` |
| `ByteStream` | abstract: characters are taken in the order they came | |
| `UART` | receive path of `uart.c` | refines `ByteStream` (through `Console`) |
| `Console` | `uart_console.c` on top of the driver | `UART` |
| `MC*` | values of constants that a `.cfg` cannot write | |
| `*_proofs` | theorems, see [the proofs](#the-proofs) | |

Definitions keep the names of the C functions and variables.  An action is a
whole call; where the text below says "left out", the thing cannot be told
apart by any property stated here.

**TSM.**  `TSM_List` is the array: per slot the state (`IDLE` or
`AWAIT_CONFIRMATION`), the invoke id (0 means none), the time left and the
retries made.  `tsm_next_free_invokeID` searches from `Current_Invoke_ID` and
skips ids in use and 0; all callers in the repository then transmit at once or
give the id back, so `SendConfirmed` and `tsm_give_up` are one step each.
`tsm_timer_milliseconds` counts a slot down and either retransmits it or makes
it `IDLE` with its id kept, which is how the code says "failed".  The saved
destination and APDU are left out.  The model is parameterised by the largest
id, so that the wrap of the 8-bit counter happens in a small instance.

**DCC.**  `DCC_Enable_Disable` and `DCC_Time_Duration_Seconds`, the second
timer and `ConfirmedRequestDropped`, the test `apdu_handler` makes.

**COV.**  The subscription table, the address list it points into by index, the
task's phase and index, and the change flags of the objects.  Each call of
`handler_cov_fsm` is one of `StartPass`, `Mark`, `Clear`, `Free`, `SendNothing`
and `SendNotification(sent)`; all other calls of the program that touch this
state are further disjuncts of `COVNext`.  `owed` is a history variable: the
entries whose subscriber has not been sent the latest change.

**APDU, Client, Server.**  A PDU is its kind, its service and what decoding makes
of it; a request writes values to items of a small store.  `Next` is: any sender
of the device's own program; any PDU from elsewhere, at any time; the timers.
`Client` has the senders in their families, which differ in whether they ask
communication control, in what they do with an APDU that is too long (given
back) and in what they compare it with; `said` tells whether the last step sent
a message of the device's own, a retransmission by the timer included.  `Server`
gives what each handler answers and leaves in the store.  In `ProcessPT` a number
is cast to the width of its field (`CHAR` values), a string is cut to its
length, one that does not decode leaves what the stack holds (`bsTemp`, any
value), and success is answered.  Handlers that change communication control
(`h_dcc.c`, `h_rd.c`) are actions of `APDU`; two history variables, `ordered` and
`elapsed`, keep the last order that was obeyed and the seconds since.  `Error`, `Reject`, `Abort` and acknowledgements all free the
id they carry, whoever sent them.  Objects and octets are the subject of other
modules.

**AddressCache.**  Per entry the device, the address, the time to live and the
flags; `Top_Protected_Entry`.  Searches return the lowest index, as the loops
do.  `address_add`, `address_device_bind_request` and
`address_add_binding` reuse, take a free entry, or evict, in the two passes of
`address_remove_oldest`.  `heard` is a history variable: where each device was
last heard.  `address_init_partial` is a restart with the table still in
memory.

**MSTPRing.**  One `port` record per station: the state of
`MSTP_Master_Node_FSM`, this and next station, poll station, counters, timers
and the frame just received.  A frame takes one step, from its sender to every
powered station; a step of the model is one call of the state machine that acts
(a call without effect changes nothing).  Time is `Tick`, which advances the
silence of every station when all of them wait.  A fault (bound `MAX_FAULTS`)
makes one receiver miss a frame, or takes power from a node.  `Token` sees the
set of nodes that would answer for the token.

**Firmware.**  `Binary_Output_Level` is the priority array of each output,
`nvmem_data` and `flash` the settings in memory and in flash, `relay` the pin.
`handler_write_property` is every write of the present value (a level or NULL,
at any priority), of out of service, and of the device's number, name and
texts.  `user_init` is a restart at any point, with the flash readable or not.
Any save may fail, which the callers of `nvmem_writeData` do not see.  Two history
variables keep per setting what the device acknowledged last (`acknowledged`) and
whether no save has worked since (`unsaved`).
Names are model values of the kinds the code tells apart: the default, another
one, the name of another object, one that is too long to be stored.

**Properties, Points, Alarms, Controls, DeviceObject, Objects.**  An object is a
record of what its C file keeps for one instance; `Read_Property` and
`Write_Property` are operators that give an answer, or a reply with the object
as it is afterwards.  `Objects` holds one object of each kind of a group; its
actions are a write request, an acknowledgement of an alarm, a new measured
value, and a run of the timers.  Reals are counted in halves, moments in the
unit of the object that uses them.  Objects with the same code differ by
constants only.  A number is kept in as many octets as its field has
(`Octet`, `Word`): units of an analog input in one, of an analog value in two.
What the COV functions of an analog input compare is modelled, but stated of no
property: `device.c:110-125` gives the type no COV functions, so nothing asks.

**RecordLog, TrendLog.**  `Logs` is the ring, `log` its configuration and counts.
A step is a write of any property with any value that the code tells apart, or a
second that passes, at whose end `trend_log_timer` runs; its source may answer
with a number, a text or an error.  The three `TL_encode_by_...` are operators
that give the records of an answer.  `RecordLog` sees the ring from its oldest
record on.

**Primitives .. Codec.**  A message is a sequence of octets.  Encoders are
operators from the fields of a service to octets, decoders walk the octets with
the steps of `Decoder`, each looking at just what the C code looks at (class and
number of a tag, its number only, nothing).  `Codec` has a sender, a receiver
and the octets between them; every message of every service is a step, its
reading another.  `Calendar` is walked by adding minutes.

**VMAC, BVLC6, BIP6.**  A list is the length of its array with the entries in use;
`FindIndex` is the bisection.  A node's handler takes a datagram and gives
what it sends, what it learns and what it hands up.  Datagrams under way are a
set: they may be lost, stay to be read again, and arrive in any order.  A node
may start again at another address; two external devices send every message.

**UART and Console.**  `fifo` is the hardware's, `events` the event queue,
`pInPos`, `pOutPos` and `Space` are the ring's bookkeeping.  Interrupt, task and
dequeue are one action each: the calls in question run with the receive
interrupt masked, or touch only the other end of the ring, and a stale
read-modify-write of the interrupt mask can at most cause an interrupt more.
`Console` adds the menu state and `uart_console_getLine`, with the line buffer
that is kept between calls.

## The runs

Distinct states and bounds are small on purpose: each bound is the least at
which every case of the code happens, and the theorems remove most of them.

| Run | Module, configuration | What it shows |
|---|---|---|
| `apdu` | `APDU`, `APDU.cfg` | Under every sender, handler and answer the transaction table implements `Transactions`, in which every pending request ends; an answer tells what became of the values; a device is silent as it was last told, and exactly as long. |
| `cov` | `COV`, `COV.cfg` | No leaked transaction or address, no shared id, no duplicate subscription, under every interleaving. |
| `cov_live` | `COV`, `COVLive.cfg` | With one subscriber per object and a slot each: no change lost, whatever is owed is sent; invoke ids stay unique. |
| `cov_lost` | `COV`, `COVLost.cfg` | Violated: with two subscribers of one object a change can be lost. |
| `address` | `AddressCache`, `AddressCache.cfg` | One entry per device, current bindings, order of eviction. |
| `mstp` | `MCMSTPRing`, `MSTPRing.cfg` | The ring implements one token, closes over the powered nodes, and every node keeps getting the token. |
| `firmware` | `Firmware`, `Firmware.cfg` | A higher priority holds; names stay unique; the device has what it acknowledged, and after a restart finds it again; the relay follows. |
| `console` | `Console`, `Console.cfg` | The ring's accounts, order of characters, and that reception resumes. |
| `trend_log` | `TrendLog`, `TrendLog.cfg` | The ring implements `RecordLog`; position, sequence number and time name the same records; every switch is logged; a polled log is read in time; writes are read. |
| `objects` | `MCObjects`, `Objects.cfg` | For nineteen kinds of objects: acknowledged writes are read and refused ones leave nothing; the ways to ask for a value agree; a reported alarm can be acknowledged; a compliant load is shed. |
| `codec` | `MCCodec`, `Codec.cfg` | Messages, lists of values, bracketed values and clocks come out as they went in. |
| `bip6` | `MCBIP6`, `BIP6.cfg` | Messages reach whom they name, bindings are addresses the device has had, the sorted array is a map. |

Bounds:

- `apdu`: one slot, the default of `config.h:109`, 2 ids, so that the counter wraps and
  answers come for ids that are not outstanding; time-out 1, 1 retry; destinations
  that are unknown or take an APDU of 2, requests of length 1 or 2; two values that
  fit every field, one that does not fit a field of a block (`WIDE`), one that is
  refused, one that is malformed, a string that does not decode; two properties,
  two fields, a file.  Orders with no limit and of a minute of 2 seconds, and a timer
  that is called after 1 or 3 of them.  Callers of
  `Send_Read_Property_Multiple_Request` give buffers that are large enough
  (`MAX_PDUS`): with a smaller one the id is never freed, see below.  Several slots
  are in `cov_live` and in the theorems.
- `cov`: 2 entries, 2 subscribers, 1 object, 1 transaction slot (the default of
  `config.h`), ids 1..3, lifetimes 0 (indefinite) and 1, sends that succeed or
  fail, communication disabled with a limit of 1.  Two entries are what the
  phases need: one before and one after the index.  A limit of 0 minutes (no
  limit) is in the model but not in the run; the theorems cover it.
- `cov_live`: 2 objects, one subscriber, 2 slots, 2 ids, so that the counter wraps past
  an outstanding one at the third request; no retries, sends succeed, no
  communication control (`MINUTES` is empty).
- `address`: 3 entries for 4 devices, one of them the device itself, 2
  addresses, lifetimes 1 (short), 2 (long), 3 (for ever).  Devices and addresses
  are symmetric.  Four devices fill the table and force an eviction.
- `mstp`: addresses 0, 1 and 3 of 0..3: a gap to poll and a wrap-around; one
  fault; one retry of the token; one frame per token; frames to a node, to an
  absent node and to all.
- `firmware`: 2 outputs, so that writes to one can disturb the other; 3
  priorities, one above and one below the reserved one; two instance numbers, two
  descriptions, and names of each kind; a cap of 1 on the
  database revision, within which each setting can be written.
- `console`: FIFO 2, ring 4, line 3, event queue 1, characters `x` and
  `newline`: every buffer can fill and every copy can wrap.
- `trend_log`: 3 records, sequence numbers modulo 8 that begin at 6, so that ring
  and numbers wrap; 3 writes in 4 seconds, intervals of 0, 1 and 3; answers cut at
  4 elements.  The log may stop, so deadlock is not checked.
- `objects`: groups of objects that act on each other (an alarm's source with its
  notification class, the load control with its output) and single ones; 3 writes
  or acknowledgements, 3 runs of the timers; 4 priorities, two above the reserved
  one; days of 5 seconds.  `MAX_REQUESTS` and `MAX_NOW` end a behaviour, so
  deadlock is not checked.  `WritesAreRead` tries one more write, of every value, in
  every state; numbers among them are 255, 256, 65535 and 65536, on both sides of the
  width of an octet and a word.
- `codec`: every service with each optional field left out or there, three
  routes; numbers on both sides of each octet's edge; strings of 0, 4, 5, 253, 254
  and 400 octets; lists cut within 8 octets of either end; brackets in brackets,
  of the same and of other numbers; three additions of minutes that cross
  midnight, a month and 29 February, both ways.
- `bip6`: a BBMD and a plain node that may start again at another address, two
  external devices; 3 messages, restarts or copies, 3 datagrams under way; the key
  list grows by 1 instead of 8, so that it is grown and shrunk.  `MaxSteps` ends a
  behaviour, so deadlock is not checked.

What the properties depend on, found while choosing bounds:

- `InvokeIDsNotShared` holds with one transaction slot, the default of
  `config.h:109`, and fails with two: an entry keeps the id of an answered
  notification until its next `Free` step, and meanwhile the counter can wrap.
- `OwedIsSent` holds with a slot per subscription and fails with one slot for
  two: the lower entry can take it every time.
- `NoDuplicateSubscription` holds with an address entry per subscriber and fails
  with fewer: a subscription without an address matches any requester.
- `NoLostNotification` holds with one subscriber per object only, see below.
- `RangesAgree` leaves out logs whose sequence numbers pass 2^32 - 1 within the
  ring (`LogWraps`): there `trendlog.c:1219` and `1233-1235` compute a wrong range.
- `WritesAreRead` and `ReadsAgree` name the properties that are not read as they
  were written (`NotKept`, `Shifted`), the numbers among them that do not fit
  their field (`Cut`); `AnswersAreTrue` the requests that are
  acknowledged without being done (`AckedBlindly`), with what a private transfer
  casts or cuts.
- `SilenceAsOrdered` leaves out limits that do not fit a `uint16_t` (`dcc.c:196`).
- `SettingsSurvive` leaves out a name that is too long to be stored (`NotStored`), and
  asks of the flash only what some save since has stored.

## Fairness

- `cov_live`: weak fairness of the task and of the two timers.  The stack's
  documented use is a main loop that calls them periodically (the comments of
  `tsm_timer_milliseconds`, `dcc_timer_seconds` and `handler_cov_fsm`).  Clients,
  objects and answers have none.
- `apdu`: weak fairness of `tsm_timer_milliseconds`, which the main loop calls; from
  it follows what the abstract `Transactions` asks for, that every pending request
  is resolved.  Other devices owe no answer.
- `mstp`: weak fairness of each station's state machine and of `Tick`; the data
  link calls the state machine for ever, and silence timers run in hardware.
- `firmware`: weak fairness of the 500 ms timer armed in `main.c:87`.
- `console`: weak fairness of the interrupt while it is unmasked and has a
  cause, of the posted task, and of the console's reading calls, which its timer
  makes.  `ReceiverRecovers` is about the states in which the console reads: an
  idle console reads nothing until the scan ends.

`address`, `cov`, `trend_log`, `objects`, `codec` and `bip6` check safety only.

## The proofs

All theorems hold for every value of the constants that the named assumptions
(`TSMConstants`, `COVConstants`, `APDUConstants`, `AddressCacheConstants`, `MSTPConstants`,
`BIP6Assumption`, `ChunkAssumption`, `FirmwareConstants`, `UARTConstants`, `ConsoleConstants`, `TrendLogConstants`, and
`PropertiesConstants`, `PointsConstants`, `ControlsConstants` and `ObjectsConstants` of
`Objects`, and `ClockAssumption`, `BracketsAssumption` and `ValuesAssumption` of `Codec`)
allow.
These say what the C types and `#define`s say: tables are not empty, ids are
numbered up to a largest one that is at least the number of slots, lifetimes and
time-outs are ordered, the ring is larger than the FIFO, a clock is set to a day of the
calendar and not turned back to before 1900, where its unsigned days begin; what is put
between brackets is one whole item after another, with a closing bracket for every
opening one; a value that is sent is one for which the receiver has a place (an unsigned
number of 32 bits, a string within its capacity, and so on), of the types that `bacapp.c`
is compiled with, and the largest message is one of those that `config.h` has, of 50 to
1476 octets.

| Module | Theorems | Inductive invariant |
|---|---|---|
| `TSM_proofs` | type, `UniqueInvokeIDs`, `AwaitingIsOwned`, `IDsOnlyFreed`, `RetrySchedule`, safety part of `ImplementsTransactions` | `TSMInv` |
| `COV_proofs` | type, `AddressesMatchSubscriptions`, `NoTransactionLeak`, `NoDuplicateSubscription`, `InvokeIDsNotShared`, `NoLostNotification` | `COVInv`, `ClientsInv`, `IDsInv` |
| `APDU_proofs` | type, `UniqueInvokeIDs`, `SilenceAsOrdered`, `AnswersAreTrue`, safety part of `ImplementsTransactions` | `TSMInv`, `SilenceInv`, `StoreInv` |
| `Bindings_proofs`, of `AddressCache` | type, `OneEntryPerDevice`, `BoundWhereHeard`, `EvictionOrder`, `StaticStays` | `CacheInv` |
| `Bindings_proofs`, of `BIP6` | `OnlyMine`, `BoundWhereItWas`, `TableIsAMap`; `BisectionFinds` and three more of `VMAC`'s operations | `LinkIInv` |
| `Wire_proofs`, of `MSTPRing` | `ImplementsToken` | `RingInv` |
| `Wire_proofs`, of `Codec` and `Calendar` | `ClockAgrees`, `EnclosedIsWhole`, `WholeValuesAreRead`; `DateComesBack`, `EveryDayHasADate`, `EnclosedIsFound`, `ValuesAreRead` | `ClockInv`, `EnclosedInv`, `ValuesInv` |
| `Relay_proofs`, of `Firmware` | type, `ReservedSlotFree`, `NamesUnique`, `SettingsSurvive`, `HigherPriorityHolds` | `FirmwareInv` |
| `Relay_proofs`, of `Console` | type, `RingAccounts`, `ImplementsByteStream` | `UARTInv`, `ConsoleInv` |
| `Objects_proofs` | `ReportedStampAcknowledges`, `CompliantIsShed`, `ReadsAgree`, `WritesAreRead` | `DeviceInv`, `Shapely` |
| `TrendLog_proofs` | `ImplementsRecordLog`, `RangesAgree`, `WritesAreRead`, `SwitchingIsLogged`, `PolledInTime` | `LogInv`, `OrderInv` |

Some theorems have a hypothesis of their own, because the property fails without it;
each names the configuration of the code for which it is true:

| Hypothesis | Of | True when |
|---|---|---|
| `RoomForAll` | `ClientsHoldOneSubscription` | there is an address entry for every client |
| `OneTransaction` | `InvokeIDsAreNotShared` | `MAX_TSM_TRANSACTIONS` is 1, its default in `config.h:109` |
| `[]OneSubscriber`, `OneClient` | `ChangesOfOneSubscriberAreKept`, `NothingIsLostForOneClient` | no two subscriptions share an object; the second theorem says when that is so for ever |
| `RequestsFit` | `RequestsImplementTransactions` | callers of `Send_Read_Property_Multiple_Request` give large enough buffers, see below |
| `OneForwarder` | `BoundWhereItWasHolds` | one node of the link is built as a BBMD, and no table of BBMDs or foreign devices has the multicast group in it; the tables of the program are empty |
| `ArraysFit` | `ReadsAlwaysAgree`, `WritesAreAlwaysRead` | a reply has room for each array of the objects that are there, as one of `MAX_APDU` 1476 octets has for 16 priorities, 254 texts as they are at the start, or the list of objects, and `BACNET_ARRAY_ALL`, 0xFFFFFFFF, is no place of an array; `objects` has it true, with 7 elements |
| `NumbersSuffice` | `RangesAreAnswered` | twice the records are no more than the sequence numbers: 1000 and 2^32 in `trendlog.h` |

How they go:

- **`TSMInv`**: ids are unique and a waiting slot is owned and has time left
  (`TableOK`), and the counter is a valid id.  The heart is that the search for an
  unused id succeeds: with a free slot, the other slots cannot use up as many ids
  as there are slots (`UnusedExists`, by counting), and the id nearest to the
  counter exists (`Minimum`).  `TableImplementsTransactions` maps each change of a
  slot to a step of `Transactions` or a stutter.  It is stated for the initial
  condition and the steps; that pending requests end is checked by `apdu` only.
- **`COVInv`**: types, `TSMInv`, addresses matched with subscriptions, and every
  transaction owned.  Ownership needs unique ids: when a subscription ends, its
  id is freed in one slot, and no other slot may still carry it.  Matching needs
  the addresses to be distinct, or a renewal could orphan one.
  `ClientsHoldOneSubscription` assumes `RoomForAll` and uses it by counting: if the
  list were full of other clients there would be more clients than entries.
- **`IDsInv`**: an entry may keep the id of an answered notification until its
  next `Free` step.  The age of an id is how far the counter has moved on since it
  was handed out.  With one slot the id in the table is of age 1, and an id that an
  entry holds is no older than a pass of the task allows, phase by phase
  (`Oldest`); as the table is not wider than there are ids (`COVConstants`), it is
  given up before the counter comes round to it.
- **`NoLostNotification`** is kept by every step but `Clear`, however many
  subscribers there are (`OthersKeepOwed`); with one subscriber per object, the
  entry for which `Clear` takes the flag away is the one that was marked.
- **`APDU`**: every sender, handler and answer does one of the steps of the table
  that `TSM_proofs` knows, or the step of a message that is encoded for nothing and
  given up (`SenderSteps`, `TableSteps`), so `TSMInv` carries over.  `AnswersTellTheTruth`
  goes through the handlers of `Server`: where the first value that is not accepted
  lies (`FirstBadIsFirst`) and what was stored before it.  `SilenceLastsAsOrdered` is
  about the seconds left: they are the limit of the last order less what has passed,
  or 0 if it has none or is over (`SilenceInv`), so a timer that runs late ends the
  silence at its next call and an order replaces all of the one before.
- **`CacheInv`**: types, static entries never age (so that a partial restart
  spares them), one entry per device, bindings current.  `BoundWhereHeard` needs
  the entry of a bind request to be marked as such, since its address is left
  over from the device it belonged to before.
- **The bisection** (`VMAC`): `FindIndex` is a recursive function over the windows that
  are left to search.  The induction theorems of the library cannot be used, but
  induction in the form of a set can (`SetInduction`: a set with 0 and all successors
  has every number), and follows from the pigeonhole principle of
  `FiniteSetTheorems`.  By it the function exists (`BisectionExists`, over the width of
  a window) and finds the key or its place (`ProbeFinds`: what lies outside a window is
  smaller to the left and larger to the right).  The same way `CleanupLeavesNone` goes
  through the pops of the cleanup.  What an entry that is added or deleted does to what
  the table binds, with the places it shifts, follows (`AddedBinding`, `DeletedBinding`).
- **`LinkIInv`**: `OnlyMine` and `BoundWhereItWas` are about what a datagram under way
  says, octet by octet: `AddressReadBack`, `VmacsFirst` and `ForwardedParts` show that a
  receiver reads what a sender wrote.  A datagram is good (`Good`) when the sender it
  names has been at the address it came from (`Teaches`), a broadcast is for everyone
  (`ForMany`), a unicast is for the device of its virtual MAC address or gives none
  (`ForOne`).  Good stays good when a node moves, because `held` only grows and a BBMD
  keeps its address (`GoodRemains`).  A Forwarded-NPDU is the hard one (`Comes`): a BBMD
  passes it on with the address it came from, not the one it names, so a BBMD must
  never be reached by a copy of a copy but its own.  With two BBMDs, or the group in a
  table, it is: hence `OneForwarder`.  TLC checked `LinkIInv` on the instance of `bip6`.
- **The calendar**: `YearsOff` and `MonthsOff` are the loops of `datetime.c` that take
  years and months off a number of days.  That they stop at the year and month that the
  day lies in is shown by `SetInduction` over what is left to take off (`YearsOffFinds`,
  `MonthsOffFinds`); that each year begins as many days after 1900 as its predecessors
  have, leap years included, by the same over the years (`LeapYears`).  So the day number
  of a date becomes that date again (`DateComesBack`), and every number is that of a
  valid date (`EveryDayHasADate`).
- **`ClockInv`**: a clock shows a valid date and time, as many minutes from where it was
  set as were added.  One addition is right (`ClockAdds`) although C divides towards zero
  and the day before is a case of its own (`MinutesAdded`).  It is not inductive by itself,
  for the days must not fall below zero on the way: that no order of the additions
  does that follows from what `ClockAssumption` says of each (`SharesLeave`).
- **`EnclosedInv`**: what was put between brackets is on the wire between them, and is read
  as it was.  `bacapp_data_len` walks over the items and counts, in one octet, the
  brackets of the number it looks for.  The octets between are described by the walk over
  them alone (`NestingLeft`); `NestingWalk` shows that the walk over the message goes
  along it item by item, because what an item is, and how long, depends on its own octets
  only, wherever they stand (`SameNumber`, `SameTag`, `SameItem`), and `ClosesAt` that it
  stops at the closing bracket and not before.  Both walks are recursive functions, which
  exist because each item has an octet at least (`RecursionEnds`).  The counter is
  the reason for `MOST_NESTED`: with 255 brackets of one number inside, it returns to 0 at
  an opening one, and the value ends there.
- **`ValuesInv`**: what is on the wire of a list of values is the beginning of its octets,
  and what has been read is what the decoder makes of them.  The rest is about the codec
  (`ValuesAreRead`), in three steps.  *Contents*: for each type, the contents that are
  written are read back (`ValuesHaveContents`): numbers in the fewest octets that hold
  them and in two's complement (`WordRead`, `SignedRead`), bits from the highest on
  (`BitsRead`), object identifiers, and strings up to the largest that a value has a place
  for.  *Values*: the tag tells type and length in the first octet, or in one or three
  more for a length above 4 or above 253, and is refused when it has not all arrived
  (`TagRead`); so a value that has arrived is read, and one that has not is refused,
  wherever it stands (`ValueRead`).  The loop of the decoder goes on from there
  (`ReadingGoesOn`).  *Lists*: the octets of a list are put together by `FlattenSeq`; those of its
  first values come first (`ValuesInOrder`), so each value stands behind the octets of its
  predecessors (`ValuesStand`).  From the last whole value down to the first, what is read
  from there is what was written.
- **`RingInv`**: at most one powered node has the token and at most one watches
  it.  That is not inductive: a node makes a token when its line has been silent
  for long, so the others must have heard of the token there is, and not long ago
  (`Heeded`); a node that passed the token sends it again unless it hears the next
  one use it, so as long as it watches, the next one has sent nothing and no time
  has passed (`Handed`).  `NodeOK` keeps a frame that waits for an answer from being
  overwritten.  The time-outs need their order: usage before reply before loss of
  the token.  A request to test that were sent to all would be answered by several
  at once; the line waits for the answers one by one here, so the theorem says
  nothing of that collision (`MSTP_Get_Send` never gives such a frame).
- **`FirmwareInv`**: type, reserved slot free, name unique in memory and in flash, from
  where a restart takes it, and `SettingsSurvive`: memory is what was acknowledged, flash
  too unless no save has worked since.  While a name that does not fit is what was
  acknowledged the two copies must still agree (`FlashHolds`), for the name they have
  may be acknowledged again, without a save.
- **`UARTInv`, `ConsoleInv`**: type and the ring's accounts.  For the refinement,
  the characters that wait are the ring from its read position, wrapping at most
  once (`Wraps`, `Around`, `Apart`), followed by the FIFO.
- **`LogInv`**: the place of the next record is after the last one as long as the
  ring is not full, and a log that polls has an interval.  From it the view of the
  ring, oldest first, is shown to grow at its end and to lose its front when it is
  full, whatever a write or a second of the timer inserts (one record, or the
  status and a reading).  `OrderInv` adds that times never decrease along the view
  and none is after now; a clock that only goes forward keeps it.  `RangesAreAnswered`
  needs it: the encoder by time walks from the newest record until it meets an
  older one, which finds all of them only in an ordered log.  Each encoder's records
  are then an interval of positions (`Between`), counted and compared with those
  that were asked for.

- **`DeviceInv`**: of the analog objects, that stamps are of moments that have been
  and that a transition which waits for its acknowledgement was stamped when it was
  marked, or again since; so whatever further transitions do, the stamp that
  `Event_Information` reports is not older than the one an acknowledgement is
  compared with.  Of the
  rest only which fields they have, so that a write of one leaves the others alone
  (`ReportedWritten`, `WritingIs`).  `CompliantLoadsAreShed` is about one run of the
  state machine: it is compliant only where nobody commands the output above the
  load control (`NobodyAbove`, `LeastPriority`), and then the output shows its own
  command (`CommandedIsShown`).
- **`Shapely`**: each object has the fields it started with, its arrays the places they
  started with, and its flag is a flag; nothing else of a state is needed, so
  `ReadsAgree` and `WritesAreRead` hold of any object of that shape, not only of those
  that clients can bring about.  No write, alarm or run of the timers changes a shape
  (`WrittenLike`, `AlarmedLike`, `LoadLike`).  What each of the nineteen types answers is
  put into one form, a table of values and one of arrays with a few exceptions
  (`Answers`, a lemma `...Reads` for each type), in which elements and arrays agree
  (`ElementsAgree`) and everything listed has an answer (`ListedIsRead`).  What each does
  with a write is a list of the changes it can make, each with the type of value that it
  takes (a lemma `...Writes` for each), and each change is one that the read of the same
  property undoes, through polarity, units or priorities (a lemma `...Stays` for each),
  but for numbers that are cut to fewer octets (`Narrowed`), which are those of `Cut`.
  `ReadsAgree` needs what `Highest` chooses to be the least priority that is commanded
  (`HighestIs`).  TLC checked `Shapely` on the instance of `objects`.

The type invariants, `AwaitingIsOwned`, `IDsOnlyFreed`, `RetrySchedule`, `StaticStays`
and `ReservedSlotFree` are proved for every instance, so no run repeats them.

What stays with TLC, and why:

- Liveness, under fairness and with ENABLED, is out of the prover's reach:
  `OwedIsSent`, `RingHeals`, `EveryNodeGetsToken`, `RelayFollows`, `ReceiverRecovers`, and that
  pending requests end (the fairness in `Transactions`).
- `MessageArrives` of `Codec`: messages go through a different function for each of some
  fifty of them, with `@@` of `TLC` for the fields that may be left out.  `codec` checks
  them at the edges of their ranges.  Of what stands in them, lists of application values
  and values in brackets are proved to be read back.

## What the code does otherwise than it says

- **A change can be lost** (run `cov_lost`, `h_cov.c:665`).  The CLEAR phase resets an
  object's flag if any of its subscriptions has a notification requested.  A
  change that comes after one subscriber's MARK step, while another of the same
  object is already marked, is cleared without the first being told.  TLC's trace
  is the reason.

The following properties state what a comment says and are defined beside the
others, but no run lists them: TLC finds each violated when it is added to the
configuration named.

| Property | Add to | The text | The code |
|---|---|---|---|
| `NothingInitiated` | `APDU.cfg`, PROPERTY | "no messages shall be initiated" (`dcc.c:66-68`) | unconfirmed COV and event notifications, I-Am and network messages do not ask (`s_cov.c:81`, `s_iam.c:142`), and requests under way are sent again |
| `SilentWhileDisabled` | `COV.cfg`, PROPERTY | the same | the timer of the table retransmits without asking (`tsm.c:273`) |
| `NameIsTheOneAcknowledged` | `Firmware.cfg`, INVARIANT | "True on success, else False if there is an error" (`device.c:1616-1623`) | a name that does not fit is not stored, and acknowledged (`device.c:1516`) |
| `OutOfServiceHoldsRelay` | `Firmware.cfg`, PROPERTY | "without changing the physical output" (`bo.c:52`) | the relay is copied from the present value always (`main.c:46`) |
| `RangeListsBindings` | `AddressCache.cfg`, INVARIANT | "Only count bound entries" (`address.c:816`) | the seek stops on the entry after the last one counted, bound or not (`address.c:815`) |
| `LengthOfLine` | `Console.cfg`, INVARIANT | "the length of the line (not including newline/cr chars)" (`uart_console.c:238`) | counts what has arrived behind the line (`uart_console.c:259`) |
| `HaltsWhenFull` | `TrendLog.cfg`, PROPERTY | "Log halts when full if true" (`trendlog.h:96`) | the timer does not look at the flag (`trendlog.c:1732`); only writes that enable a full log, or set the flag of one, do (`trendlog.c:490`, `530`) |
| `ReturnsAcknowledged` | `Objects.cfg`, INVARIANT | "true when transitions is acked" (`nc.h:87`) | an acknowledgement of an analog value's return to normal looks at the flag and stamp of its fault (`av.c:1118-1125`) |
| `OthersUnitsAreRead` | `Objects.cfg`, INVARIANT | "Enumerated values 256-65535 may be used by others" (`bacenum.h:734`) | an analog input keeps units in a `uint8_t` (`ai.h:50`, `ai.c:726`) and acknowledges them |
| `ForwardedFromOrigin` | `BIP6.cfg`, INVARIANT | "It contains the source address of the original node" (`bvlc6.c:1038`) | a BBMD puts in its neighbour's or its own address (`h_bbmd6.c:708`) |

`MessageArrives` fails of a WritePropertyMultiple with a priority other than the
default: `wpm.c:250-252` writes the priority without counting its octets, so that what
follows overwrites it, though `wp.h:43` says "use BACNET_NO_PRIORITY if no priority".
`MCMessages` has the default only.

`h_wpm.c:52` promises "an Abort if the message is segmented"; `h_wpm.c:82-88`
acknowledges a segmented WritePropertyMultiple and writes nothing (`AckedBlindly` of
`APDU`).

## Seen while modelling

What the models show of the code beside the properties; each is modelled as the
code has it unless the text says otherwise.

Transactions and dispatch:

- A list of properties that does not fit its buffer is given up with the id still
  reserved (`s_rpm.c:54`, `91`): the slot is lost.
- WritePropertyMultiple and the private block write each value as it is decoded,
  so a refused request may be half done; an empty WritePropertyMultiple is
  answered by an NPDU without an APDU.
- A private transfer casts the number of the block and its bytes to a `char`
  (`h_pt.c:83`, `138`, `151`: block 256 is block 0), ignores whether the string was
  decoded and cuts it (`h_pt.c:173-177`), and answers `MY_ERR_OK`.
- Minutes of communication control are cast to a `uint16_t` (`dcc.c:196`): 65536 of them
  are for ever.
- Communication control does not bind Who-Is to a network, unconfirmed COV, event
  and I-Am messages, nor the network layer.  The acknowledgement of a request that
  disables communication is sent.
- AtomicWriteFile compares with `<=` the largest APDU, every other sender with `<`.
  Answers are matched by id alone (`apdu.c:530`, FIXME at 581).  A file that does not
  open, or is not written in full, is acknowledged (`bacfile.c:503`).

COV, address cache, device, console:

- Cancelling an unknown subscription is refused when the table is full
  (`h_cov.c:427`), although `h_cov.c:434` says that it shall succeed; with the address
  list full a subscription is accepted without an address (`h_cov.c:414`).
- `SHORT_TTL` is never set, so a repeated bind request never changes an entry; the
  scan for a further entry in `rr_address_list_encode` (`address.c:866`) runs past the
  array once the last bound entry is found.
- A name that is too long is acknowledged but not stored, and the revision counted
  (`device.c:1516`); the database revision restarts at 0 (`device.c:642`); a flash
  that cannot be read once has the defaults written over the settings
  (`nvmem.c:41`).  Nobody looks at what the save (`nvmem.c:38`) returns.
- The count of the console's list of networks starts at 1 and is not reset with
  the list (`uart_console.c:141`, `481`).
- In the octet machine of MS/TP, which is not modelled, the first data octet moves
  SKIP_DATA to DATA (`mstp.c:529`), so that a data frame for another station is
  handed up.

Objects:

- A load control stays compliant if a client takes away or replaces its command; it
  sets its clock without the 1900 of `tm_year` (`lc.c:290-307`) and clears entry 0
  (`lc.c:607`).  An amount above the baseline is never commanded.
- Alarm acknowledgements of an analog value confuse fault and normal
  (`av.c:1094-1138`).  The acknowledgement notification carries the state of now; a
  recipient list of exactly `NC_MAX_RECIPIENTS` is refused (`nc.c:684`); the loop of
  `Device_local_reporting` leaves out the last object (`device.c:1736-1761`).
- Elements of the priority array of a binary value, and of the event time stamps,
  are read one place off.  A binary input's polarity changes its present value
  without a change of value.  A multi-state input keeps part of a refused array of
  texts.  Priorities of a notification class, whole shed levels, and a file's
  size are acknowledged and forgotten.  A lighting output takes any real.
- Numbers are cut to the width of their fields and acknowledged: units of an analog
  input (`ai.h:50`) and value (`av.h:49`), and the device's retries, time-out and
  vendor.  Units of 256, the first that others may use, become those of 0.
- A new measurement of an analog input changes what is read and reported without the
  check for a change of value (`htu21d.c:118`, `ai.c:209-213`); the check looks at the
  written present value, and nothing asks for its result.
- `ackRequired` of a notification whose class is absent, and the address of a
  confirmed recipient given by address (`nc.c:889`), are read uninitialised; both
  are any value, or left out, in the models.

Codecs (each left out of the messages of the run):

- The priority of a WritePropertyMultiple is lost (`wpm.c:250-252`); a boolean with a
  context tag is read as TRUE (`bacapp.c:192`), so is one of a property state
  (`bacpropstates.c:61`); dates and times are not in `BACAPP_ALL` (`config.h:146-160`).
- The error reply of WritePropertyMultiple is misread by `apdu_handler`
  (`apdu.c:595-609`); empty acknowledgements of GetEventInformation (`getevent.c:206-217`) and
  an empty list in one of ReadPropertyMultiple are misread; lighting commands do
  not come back (`lighting.c:170-223`); a time stamp's opening tag may be missing
  (`timestamp.c:187-199`).
- A date before 1900 wraps; years 100..254 do not come back, 256..1899 are refused.

BACnet/IPv6:

- An own Forwarded-NPDU that the multicast group loops back is forwarded again, for
  ever (nothing compares it with the node before `h_bbmd6.c:711`); forwards are not
  limited to peers of the table, although the comment at 701 says so.
- No function asks for an address, so a unicast to an unknown device goes to the
  zero address and is lost; an entry is never replaced (`h_bbmd6.c:170`).
- `bvlc6_encode_delete_foreign_device` writes 29 octets but counts 25.

## What is not modelled

- **BACnet/IP**: reception of BVLC messages is compiled out (`bvlc.c:1122`) and
  `BBMD_ENABLED` is not defined, so the build has no forwarding.  The same roles are
  modelled for IPv6.
- **WiFi manager, web server, sensors, pins**: input and output without logic of
  their own, or not in the build; the web server is a submodule without source here.
- **Queues** (`ringbuf.c`, `fifo.c`) and the transmit ring of `uart.c`: nothing in the
  build calls them.
- **Text tables** (`bactext.c`, ...), the formatting and parsing of values as text, the
  handlers that only print an answer.
- **Copies**: `gw_device.c`, `device-client.c`, and the merge leftovers of `rpm.c`.
- **In the codec**: what decoders do with octets that no encoder of the stack
  writes, except lists that end early; a read past the end of a message gives
  nothing, where the code would read what memory holds.
- **In `COV`**: the payload of a notification, the active subscription list, and
  what a slow encoding takes.  Answers are modelled as what they do to the table;
  an answer for the wrong request is possible in the model as in the code.
- **In `APDU`**: the start-up of the demo tools, which alone sets the invoke id
  (`dlenv.c`); segmentation, which the stack refuses.
- **In `AddressCache`**: the address file (not built), the size limit of the
  answer.
- **In `MSTPRing`**: single octets and their CRCs (a frame is received, invalid,
  or only noticed), nodes that start to talk in the same slot, slave nodes, and a
  node that is called too late in the `NO_TOKEN` state and misses its slot
  (`mstp.c:972`; the comment there rules it out for a good timer).  Every powered
  node at least notices that octets were on the line.
- **In `Objects`**: the binding of recipients, which is the address cache's; truncated
  requests, which are taken to be refused.  `INTRINSIC_REPORTING` is taken to be set.
- **In `BIP6`**: tables of BBMDs and foreign devices that are not empty - nothing in
  the repository fills them - and their timer; secure BVLL.
- **In `UART`, `Console`**: what is printed; the list of networks; a failed
  allocation, which returns at once and changes nothing.

## The plan

The order follows what the relay depends on: the transaction table first, then
what is built on it, then the data link, the outputs and the console, then what
the stack offers beyond the relay: the application layer as a whole, objects, log,
codecs and the IPv6 link.  All of this is written.

What would add most from here:

1. Theorems about the messages of `Codec`, one service at a time, from those about the
   values they are made of; this needs `++` of `Properties` in place of `@@` in `Decoder`.
2. The octet-level receive machine of `mstp.c` (275-582) and the slave node
   (1124-1183) with an ideal CRC, as a refinement that justifies the frame-sized
   steps of `MSTPRing`.
3. Decoders under arbitrary octets: that none reads past the end of a message.
