# Verification of the Profinet scanner

TLA+ models of `src/SendPacket/`, the TLC runs that check them and the TLAPS
proofs about them. Line numbers are of the files in `src/SendPacket/` unless a
path says otherwise.

## 1. The system

`pn_scanner` finds Profinet devices with raw frames sent and captured through
libpcap. One scan runs six *phases*. In each phase the main thread starts a
sniffer thread, sends the requests of the phase, and joins the sniffer. The
sniffer starts a third thread, the timer, which decides when the capture is over.
The threads share plain globals and a linked list; there is no lock.

| component | state | operations | talks to |
|---|---|---|---|
| **Scan session** (`main.c` 549-1130, capture functions, `loopTimerThread`, `timeDiff`, `platform_compat.h`) | phase, `t1_G`, `adhandle`, `g_scanStopRequested`, the threads | launch, send, join, open, stamp, loop, break, close | starts the handlers, is stamped by them |
| **Device list** (`linkedList.c`, the handlers, `packetHandler.c` 1263-1332) | `threadData->first`: a node per device with MAC, address, handle, `finished`, description | create first node, `add_to_list`, fill, count, walk | written by the sniffer, read by main |
| **Slot tree** (`packetCapture.c` 969-1373, `remoteScan.c` 542-1089) | slots and subslots per device, peers | replace tree, fill ports, fill I&M, walk | written by the sniffer, walked by main |
| **Topology** (`main.c` 71-447) | nodes, edges | merge edges, print chains | reads the slot trees at the end |
| **Target range** (`checkIP`) | target addresses | parse | main, before phase 1 |
| **Route** (`deviceHandler.c` 295-833) | own address, gateway | local or gateway MAC | every remote send |
| **Checksums** (`packetHandler.c` 1136-1208) | none | IP and UDP checksum | every send |
| **DCP parser** (`packetCapture.c` 131-251) | block offset | walk blocks | DCP handler |
| **Command line** (`main.c` 549-783, `deviceHandler.c` 17-632) | options, adapter, own address | parse, ask, look up the adapter | main, before phase 1 |
| **Requests** (`packetHandler.c`, `remoteScan.c` 1-1089) | none | bytes of the five requests | main's sends |
| **Annotation** (`packetCapture.c` 780-960) | none | cut a description into its parts | lookup handlers |
| **Records** (`packetCapture.c` 1048-1281) | none | find the interface, read a port | read handlers |
| **Cleanup** (`linkedList.c` 106-290) | list and trees | free | main, at the end |
| **Results file** (`fileHandler.c` 11-582) | file, `endpos` | append a device | nobody calls it at this commit |
| decode tables, Npcap loader | | | not modelled, see 7 |

What is hard in it:

* *three threads, no lock*: `timeDiff` reads the clock, loads `t1_G` twice and
  stores it, while handlers stamp it; main reads list nodes that the sniffer is
  creating;
* *time*: the timer looks once per TIMEOUT (8 s), a capture ends when TIMEOUT4
  (4 s) have been quiet at that moment, or when `--duration` is over;
* *the network*: answers are lost, repeated, late into another phase and
  reordered, and phases know devices by different keys (MAC or address);
* *partial failure*: a thread or adapter that does not start is not reported to
  main;
* *uninitialised memory*: `malloc`ed nodes and data sheets of which some fields
  are never set;
* *offsets*: requests are written and answers are read byte by byte, with lengths
  that stand as constants in the code, paddings, both byte orders and VLAN tags.

What makes the components correct:

* session: every capture listens long enough, ends, and is over - timer and
  handle included - before main goes on; a stop is not early, not too late and
  final;
* device list: one node per device; what a node says comes from that device;
  main's walks stay in the list and ask everyone;
* slot tree: an answer reaches the slot it was asked for; walks survive a tree
  that is replaced;
* session and list together: what a device says in time reaches its node;
* topology: every link is drawn once, every device has one name;
* requests: a receiver that follows their lengths reads what was meant;
* annotation, records, DCP parser: read right for just the answers the code is
  made for;
* command line: a scan starts just when it was fully asked for, and is that scan;
* cleanup: nothing is freed twice, unless freed memory has changed;
* results file: a document with every device that one run of the program has written;
* target range, route, checksums: equal to their definitions within bounds.

## 2. Modules

| module | what |
|---|---|
| `CaptureSession` | the scan session: main, sniffer, timer, clock, network |
| `CaptureSessionProofs` | theorems about it |
| `Inventory` | what the device list promises (abstract) |
| `DeviceList` | the device list, its handlers, main's sends; implements `Inventory` |
| `MCDeviceList` | instances of it for TLC |
| `DeviceListProofs` | theorems about it; that it implements `Inventory` |
| `SlotTree` | the trees of slots, the handlers that build and fill them, main's walks |
| `MCSlotTree` | instances of it for TLC |
| `SlotTreeProofs` | theorems about it |
| `Scan` | `CaptureSession` and `DeviceList` as one state machine, for the discovery of a local scan |
| `MCScan` | an instance of it for TLC |
| `ScanProofs` | theorems about it |
| `Topology`, `Checksum`, `DcpBlocks`, `Targets`, `Frames`, `Annotation`, `Records`, `CommandLine`, `Cleanup`, `Results` | the sequential parts, as operators |
| `Algorithms` | an input of one of them as the state, and what each is to compute |
| `MCAlgorithms` | inputs for TLC |
| `LeftFold` | theorems about folds, for any step: what a loop over an array computes |
| `PacketProofs` | theorems about packets: `Checksum`, `Frames`, `DcpBlocks`, the target range of `Targets`, `Records` |
| `TopologyProofs` | theorems about the arrays and the chain of `Topology` |
| `ListProofs` | theorems about lists: `Cleanup`, `Results`, the networks of `Algorithms`, the next hops of `Targets`, `CommandLine` |

### CaptureSession

One program counter per thread: `mpc` (main), `cpc` (sniffer), `tpc` (timer).

* main: `Launch` (CreateThread, which may fail unnoticed), `SendRequest` and
  `SendsOver` (the send loops, which never look at the capture), `Join`
  (WaitForSingleObject and the check of `g_scanStopRequested` and of the empty
  list behind it), `Finalize`.
* sniffer: `OpenAdapter` (open to setfilter, each may fail), `StartTimer` (stamp
  and CreateThread), `TakePacket` and the four `Handle...` actions (what any
  packet handler may do to the session: return early, new node and stamp, update
  and stamp, complete the list and break), `LeaveLoop`, `CloseAdapter`.
* timer: `CheckDuration`, then `timeDiff` as `ReadClock`, `CompareOrder` (first
  load of `t1_G`), `BreakWhenQuiet` / `KeepListening` (second load) and
  `StoreAndSleep`, then `Wake`. An optimising build may use the first load for
  both comparisons; `Loads` is the choice.
* `Arrive` and `Tick` are the environment. Time is discrete; a thread that is
  ready runs within `Lag` ticks; main spends at most `SendTime` on a request.

`openedAt`, `answeredAt` and `reason` are history variables for the properties.
The subtraction of `timeDiff` is modulo `ClockModulus`.

### DeviceList

The list is a sequence of nodes. `Sniffer` picks the handler of the phase:
`HandleIdentify` is `packet_handler_dcp`, `HandleUnknown` and `HandleDescription`
are the two ends of `packet_handler_IP`, `HandleRemote` is
`packet_handler_IP_rem`. The first node is published (`PublishFirst`) before it is
filled (`FillFirst`), later ones are linked when full (`Append1`, `add_to_list`).
Main's `SendLookup` and `PickDevice` / `SendResolved` run in between.

The network keeps the requests that were sent; any answer to any of them may
reach a handler at any later time, any number of times or never (`MayCome`), so
loss, repetition, delay and reordering need no state of their own. Device
behaviour is external: the endpoint mapper gives its first entry and a handle to
a request without handle, the next to a request with the handle it gave, nothing
otherwise. A *handle* is identified with the device that issued it. When a capture
ends is left open (`EndCapture`); `CaptureSession` says when it does. Addresses
in `AddressAssumption` are distinct, MACs too on one subnet.

A refinement mapping (`Implements`) shows that the nodes of the list are an
`Inventory`: a map from devices to what is known of them, where devices enter
once, after they may have answered, never leave, and are described only in ways
in which they may have answered.

### SlotTree

The phases of the implicit reads: slots, ports, I&M. A tree is the sequence of its
slots, a slot holds the sequence of its subslots, and a device keeps all trees ever
made for it: the last is `device->slotList`, the others are unreachable but not
freed, so main may still be in one.

* main: `EnterDevice`, `EnterSlot`, `NextSubslot`, `NextSlot` follow its own
  pointers (`cursor`); between two of them it calls `sendpacket_IM_rem`, which
  resolves the MAC (`Unresolved`) and then goes main's *positions* from
  `device->slotList` on (`FindSlot`, `FindSubslot`), maybe in another tree.
* sniffer: `TakeSlots`, `FillSlot`, `LinkSubslot`, `FillSubslot`, `LinkSlot` are
  `getRealidentificationData`, one step for each node that it links and each that
  it fills; `TakePort` and `TakeIM` are the handlers that look up a slot by number.
* a NULL that is dereferenced ends the process (`Die`).

What a node says between being linked and being filled is whatever `malloc` left
(`Junks`). `late`, `missed`, `got` and `fault` are history variables. `Ends` is the
early return at a module without submodules, after which later modules are not
read. Requests stay on the wire as in `DeviceList`.

### Scan

`CaptureSession` has packets without content, and `DeviceList` captures that end at
any time. `Scan` closes both ends for the first phases of a local scan: it is the
two modules as instances `S` and `L` over one set of variables, and an action of it
is the conjunction of an action of each.

* `SendRequest`, `SendsOver`, `Launch` and `Join` are one step of main in both;
  main's counter of requests *is* its place in the list (`k <- sent`).
* `Answer` puts what a device says into `buffer` while `adhandle` is open and has
  room, else it is lost. `TakePacket` hands the oldest to the handler of the phase,
  and `HandleIdentify`, `HandleUnknown`, `HandleDescription`, `LinkFirst` and
  `FillFirst` work it into the list *and* stamp or break as that handler does.
* the list is what the session knew only as `found`, and the session says when
  a capture of the list is over.
* `SetUp`, `LeaveLoop`, `CloseAdapter`, `TimerStep` and `Tick` leave the nodes alone.

`launchedAt`, `timely` and `cut` are history variables for `TimelyAnswersCount`.

### Algorithms

* `Topology`: `printResolvedTopology`. The slot trees become reports, with a label
  for each end; then two arrays of limited size (`EdgeCapacity`, `NodeCapacity`),
  `AppendEdge` and `AppendNode`, the degrees, and the chain as a fold of `ChainStep`.
  A label that is a pointer into the loop's own buffer is `Dead`.
* `Checksum`: both checksums and their two ways of being stored.
* `Frames`: every request as its layers, one after the other, with the numbers the
  code writes into them. The code fills fixed buffers at fixed places.
* `DcpBlocks`: VLAN tags, the header's place, and the walk over blocks by offsets. The
  loop is bounded by the length that the packet claims, as in the code, and not by
  `caplen`. A header where no block starts, or that was not captured, ends the walk as
  `Torn`, since the code goes on with whatever stands there; a value that was not captured, or
  is longer than its block, is `Torn` in its field alone. The handler has `left` at a name
  without BlockInfo, where `malloc` is asked for `(size_t)-1` bytes, and has `listed`
  the device at the end of the data. Lengths are rounded up in sixteen bits.
* `Annotation`: the 64 bytes cut by runs of three blanks, the revision and version
  around their 'V'. What is read behind an array is `Wild`.
* `Records`: the walk of `getPDRealData` to the interface block, whose pointer moves
  in units of headers, and the fields of a port at their offsets and paddings. What is
  read where nothing of the kind stands is `Stray`.
* `CommandLine`: the options as a fold over `argv`, the prompts, the list of real
  interfaces, their address and MAC as built on Linux.
* `Cleanup`: what `empty_list` frees, in order. Whether memory that was freed still
  reads as before is an input.
* `Results`: `writeToFile` as tokens; `endpos` is where the next call begins to
  overwrite the end of the document. A restart sets it to zero.
* `Targets`: `checkIP` behind `sscanf`, with the length of the text before and after its
  trailing blanks are cut, and `resolveRemoteDestinationMac`
  with the Linux routing table and ARP cache as sequences of lines.

`Algorithms` enumerates inputs as initial states and never moves. Each property
states what the result has to be without the code's own operators: the receiver's
check of RFC 1071 for checksums, a receiver's own way through a frame by the lengths in
it, the cables for edges, the bits of addresses for subnets, a reader of XML for the
file. Where code is right for some inputs only, the property says for which.

## 3. Runs

| run | expects | instance | shows |
|---|---|---|---|
| `capture_quiet` | pass | local, six phases, 2 answers, Lag 1 | when a capture is ended for quietness; who may use the handle; the scan ends; types |
| `capture_duration` | pass | remote, `--duration` 3, endless packets, failures, main slower than the capture | nobody outlives the join; not early, overrun bounded, stop final; the scan ends |
| `duration_overrun` | violation | the same, `--duration` 5 | `--duration` is overrun by up to a TIMEOUT |
| `stamp_wraps` | violation | local, 1 answer, Lag 2 | a stamp between two loads ends the capture |
| `list_local` | pass | 3 devices, one without address | the device list in a local scan; implements `Inventory` |
| `list_remote` | pass | 2 devices behind a router, 3 targets | nodes and their data in a remote scan; implements `Inventory` |
| `break_on_junk` | violation | local, 2 devices | uninitialised `finished` |
| `foreign_handle` | violation | remote, 2 devices | a first call with another device's handle |
| `scan` | pass | local, 2 devices, 2 phases, 3 answers | session and list together: answers given in time count |
| `slot_tree` | pass | 2 devices, 5 subslots and slots, one tree replaced | trees are right, walks complete, port data kept, NULL only after a late answer |
| `algorithms` | pass | boundary inputs of every part | the sequential parts compute what they are to |
| `gateway_elsewhere` | violation | a default route per adapter | the wrong gateway, and a request to the zero MAC |

### Bounds

* TIMEOUT = 4 and TIMEOUT4 = 2 ticks, or 2 and 1, keep the ratio 8000:4000 of the
  code; the properties compare times only with each other, so the unit does not
  matter. `Lag <= TIMEOUT4` is assumed: the code has no guard against a thread that is
  not scheduled for four seconds, and `ListensOneTimeout` is false without it.
* `Lag` = 1 in the passing runs is enough for every order of two threads that the code
  leaves open, the stamp between two loads included; `stamp_wraps` has the
  longest one. The theorems hold for every `Lag` that is allowed.
* `MaxRequests` = 1 request per phase beyond DCP in the capture runs: requests only spend time, and in
  `capture_duration` one request is longer than a whole capture.
* `Answers` = 2: one answer to be undone by the timer's store, one more to come
  after it. In `capture_duration` packets are endless instead.
* `QueueLimit` = 2 packets in the capture buffer, or 1: packets that find it full are
  lost, which `capture_duration` and `scan` reach.
* `Horizon` ends the model's clock later than any scan of the instance ends. A scan
  that never ended would stand still there, and `Terminates` would fail.
* `ClockModulus` = 1024 is larger than any time reached, as 2^64 is; what wraps is
  the difference, not the clock.
* `scan`: two phases hold one discovery and one lookup of every device found
  (`MaxRequests` = 2); `Phases` stops behind them. Three answers (`Budget`) are two
  devices that answer, or one that does in both phases, beside one of the other's.
  The two devices are alike in every constant, and the property names none, which
  makes `SYMMETRY` sound there.
* `MaxTrees` = 2 for one device of `slot_tree`: one tree, and one replacement of it,
  at any moment of either walk or of its own building. The other device has a module
  without submodules and one tree. `Layer` = 3 covers both modes: it adds the MAC
  that does not resolve. One `Junks` value, which is not a number that is plugged,
  is enough: no property tells two of them apart. Only one device walks at a time,
  so two show what happens at the change.
* Devices: three in a local scan (two that describe themselves in either order,
  one without address), two in a remote one and a target where nobody is.

Inputs of `algorithms`:

* networks: a line, a line with unlisted ends, a ring of two, a ring of three, a
  switch with nine peers (one more than its eight edges, seven more than its nodes)
  and a switch with unlisted peers beside one listed; reports come in every order of
  the devices. Up to one port is silent and one is not named; with everything else
  answered, up to one device has nothing to be called by;
* IP identifications and addresses around the carry, UDP data of up to three bytes
  of 0, 1 and 255 (odd and even);
* requests of all five kinds, to four addresses, with counters of one, three and four bytes, both
  handles and no node, both ports, slots and subslots with a high byte;
* up to three DCP blocks of lengths 0 (a name without BlockInfo), 5 (odd, and too short
  for some values), 14 (an address as it should be) and 65535 (rounded to 0), behind up to
  two VLAN tags of either type; two blocks of which any part was captured, from none of
  them to all of two addresses; another protocol, other services, and headers cut anywhere;
* annotations by the lengths of their columns, around the limits where two of them
  touch;
* PDRealData of up to three multiple blocks of up to two blocks each with names of 0
  to 8 bytes, ports whose IDs are around 8 bytes with 0 to 2 peers;
* command lines of up to two options of any kind or up to four of the usual ones
  (which may repeat), three systems, three ways to answer the prompts;
* lists of up to two devices with up to three slots to be freed; files with up to
  one device from an earlier run and up to two from this one;
* range ends around 0 and 255, prefixes of 16, 24 and 25 bits, two requests in a
  row, up to two lines of routing table and one missing line of ARP cache.

### Fairness

`FairSpec` assumes weak fairness of each thread and of the clock: the operating
system schedules every runnable thread, `Sleep` ends, `pcap_loop` returns after
`pcap_breakloop` (it has a read timeout of a second). Nothing is assumed of the
network: answers need never come, and in `capture_duration` packets never stop. Both
capture runs check `Terminates`; the others check safety only and need no fairness.

## 4. Findings

1. **`--duration` is overrun** (`duration_overrun`). The timer looks every 8 s.
   `OverrunBounded` is what holds: at most TIMEOUT and scheduling delays, and a
   capture launched later than that is broken at its timer's first look.
2. **A stamp ends the capture** (`stamp_wraps`): unsigned wrap in `timeDiff`.
3. **`finished` of the first node is never set** (`break_on_junk`).
   `BreakSparesOnlyFirst` is what holds: only the first device can be cut off.
4. **First calls carry a foreign handle** (`foreign_handle`). In a range scan every
   target asked after the first answer gets the first device's handle.

5. **The gateway of another adapter** (`gateway_elsewhere`). On Linux the first
   default route of any interface is taken, and its gateway is then looked for behind
   the chosen adapter: its MAC becomes zero, which is not reported. `NextHopRight` is
   what holds.

Also met, without a line in the repository that says otherwise in a checkable
way. Where a property describes one, it says exactly when it happens:

* a stamp only counts at the timer's next look, though the comment at `main.c:964`
  says that every packet restores the full timeout; a late first answer in a
  remote scan overwrites the description of the follow-up call; a handle opened by a
  capture function that fails later is never closed;
* a repeated answer for the slots while ports or I&M data are read may end the
  process with a NULL, in main or in a handler (`DiesOfLateAnswer`: nothing else
  does); modules behind one without submodules are not read;
* the chain of a topology leaves out what is behind a branch, and its arrays are full
  when many peers are not in the list; the labels of devices without a name and a
  type point to a buffer that is out of scope (`DevicesNamed`);
* `getPDRealData` moves a pointer to a header by a number of bytes
  (`packetCapture.c:1153`), so an interface behind the first multiple block is not
  found; `getSubmodulPDRealData` takes port IDs for eight bytes (`protocols.h:661`)
  and swaps the MAU type of a port without a peer (`RecordsRead`);
* the walk over DCP blocks looks at the claimed length only (`packetCapture.c:131`): of a packet
  that was not captured whole, or whose lengths do not add up, it reads bytes that are not the
  packet's; a vendor or name block without BlockInfo makes the handler leave without listing the device
  (176-181, 195-200), and a length of 65535 counts as 0 (133-134, `EveryBlockRead`);
* an annotation whose columns are filled to their end is cut in the wrong places, and
  a version that is no release ('V') is searched behind its end (`AnnotationRead`);
* `empty_list` of several devices leaves the last node, and reads nodes it has
  freed; of several slots the first stays; the hardware revision of a single device
  that was not described is a literal that is freed (`packetCapture.c:255`,
  `FreedOnce`);
* the own MAC is that of the first interface that has the own address, which may be
  a bridge (`ScanIsAsked`);
* a second run of the program would write its results over the first one's
  (`FileReadsBack`).

On the other hand the UDP checksum is right, although its pseudo header has every
byte in the wrong half of its word: storing it low byte first makes up for that
(`ChecksumsVerify`).

## 5. Proofs

Each theorem holds for every value of the constants that the named assumptions
allow. They are only what the code's own values satisfy: `TimeAssumption`
(TIMEOUT4 < TIMEOUT, `Lag` at most TIMEOUT4, a positive modulus),
`SessionAssumption` (types of the bounds), `ListAssumption` (types),
`DistinctAssumption` (uninitialised memory and the null handle are told apart from
device values), `AddressAssumption` (addresses are distinct; MACs too on one
subnet), `TreeAssumption` (types) and `NumberAssumption` (a device numbers its slots,
and the subslots of a slot, without repetition: what IEC 61158 asks of devices, and what
the handlers rely on when they look a slot up by its number), `NullAssumption` (NULL
is no string), `NetworksAssumption` (a cable joins two ports, a port has one cable, the
network is finite, and NULL is no device, port or text) and `MacsAssumption` (a MAC in the
ARP cache is neither zero nor a failure),
`AbsentAssumption` (an option that was not given is not taken for a value), `StrayAssumption` (what
is read behind a record is no result of the walk) and `TornAssumption` (the same of an answer's blocks).
TLC evaluates them in the runs of the module that states them.

`CaptureSessionProofs`:

| theorem | property | why it holds |
|---|---|---|
| `TypeCorrect` | `TypeOK` | |
| `TimerHandleSafe`, `ThreadsJoined` | `TimerOwnsOpenHandle`, `NoThreadOutlivesJoin` | `ThreadInv`: a running timer has a sniffer in its loop, an open handle and main inside the phase, also when threads or the adapter fail to start (`capture_quiet` checks the first without such failures) |
| `QuietEnd` | `QuietBreakIsQuiet` | `StampInv`: when the timer's store has undone a stamp, the timer still sleeps TIMEOUT > TIMEOUT4 from then on, so the lost stamp is old when it reads the clock again |
| `ListensLongEnough` | `ListensOneTimeout` | `RoundInv`: a round that has not slept is within `Lag` of the set-up stamp |
| `OverrunIsBounded` | `OverrunBounded` | `OverrunInv`: the latest time each point of the timer's round is reached after `--duration` |
| `NotStoppedEarly` | `StopsNotEarly` | the clock is monotone, only an elapsed duration sets the flag |
| `StopStands` | `StopIsFinal` | `StopInv`: the flag is set while main is inside a phase, and the join sees it |

`DeviceListProofs`:

| theorem | property | why it holds |
|---|---|---|
| `TypeCorrect` | `TypeOK` | with `SendInv` (what the remote send relies on between picking a device and sending) and `PhaseInv` (the first node is made in phase 1, before any local lookup) |
| `NodesUnique` | `OneNodePerDevice` | `LookupInv`: a local lookup went to the MAC *and* the address of a node, so a late answer finds its node by address, too |
| `WalksInRange` | `WalkInRange` | `CountInv`: nodes are numbered as they stand; the list only grows |
| `HandlesGoHome` | `LookupCarriesOwnHandle` (local mode) | `HandleInv`: until the last phase a node's handle was issued at the node's addresses |
| `OnlyFirstCutOff` | `BreakSparesOnlyFirst` | `FinishedInv`: behind the first node, `finished` comes from a description only |
| `EveryoneAsked` | `EveryDeviceAsked` | `AskedInv`: the walk has asked the first k nodes, and the list does not grow in these phases |
| `AnswersStay` | `AnswersStayWithSender` | `SenderInv`: a filled node has the MAC of one device and, unless its DCP answer had none, its address; a node that is not filled is nobody's, and the answer it waits for was asked for |
| `ListIsInventory` | `Implements` | `SenderInv` and `OneNodePerDevice` make `NodeOf` a function: each step of the list enters one device that has said so, describes one, or leaves the inventory as it is |

`SlotTreeProofs` (the invariants are conjuncts of `TreeInv`):

| theorem | property | why it holds |
|---|---|---|
| `TypeInvariant` | `TypeOK` | |
| `PluggedAsBuilt` | `TreeIsPlugged` | `PlugInv`: while a tree is built, all its slots but the last are as plugged, and the last as far as the handler's counters say (`Shape`, by the stage `StageOf` of the two nested loops) |
| `OnlyLateAnswersKill` | `DiesOfLateAnswer` | inductive together with `WalkInv`, `CursorInv` and `RequestInv`: in a device without a late answer main's cursor is in the current tree, at the positions it has counted, and what is asked for is plugged there |
| `NoPortLeftOut` | `EveryPortAsked` | `WalkedInv`: behind main's cursor (`Passed`), every subslot is asked for or its device is in `missed` or `late` |
| `DataWhereItBelongs` | `PortDataKept` | `DataInv`: a subslot is `answered` when its own answer came; trees that are filled are only relinked by replacing them |

`ScanProofs`:

| theorem | statement | why it holds |
|---|---|---|
| `ImplementsSession` | `Spec => S!Spec` | an action of `Scan` contains one of the session, or is one of the list that the session does not see: publishing the first node (`FirstNotFound`), an answer that is lost |
| `ImplementsList` | `Spec => L!Spec` | the same for the list, with `BufferInv`: the sniffer hands on nothing but answers |
| `TimelyAnswersReach` | `TimelyAnswersCount` | `TimelyInv`, see below |

The first theorem's session has no `--duration`, no failures and a budget of answers,
the second's list is that of a local scan. `PartsAssumption` says of `Scan`'s constants
what the proofs about the parts assume of theirs, so that those theorems hold in `Scan`:
`SP` and `LP` are the proof modules of the two parts as instances, with the same
substitutions as `S` and `L`.

That is what `TimelyAnswersReach` is made of. It takes from the session that a round of
the timer that has not slept is within a delay of the set-up, and that the clock it
reads is not ahead of the stamp it compares with unless the subtraction wraps
(`RoundInv`, `StampInv`); from the list that a lookup goes to a node's MAC (`LookupInv`)
and that a handler's break spares only the first (`BreakSparesOnlyFirst`). `TimelyInv` joins them:
a sniffer that has not set up was created a delay ago at most (`SetUpInv`), so whoever
answers later finds the adapter open or the capture over; a timely answer is in its node or
has been in the buffer, or with the handler, for less than a delay (`AnswerInv`), because the sniffer is
due as long as it is there; and a capture that is over was cut by a wrapped subtraction,
broken by a handler, or is a TIMEOUT old (`EndInv`), which no timely answer in the
buffer survives to see.

The sequential parts are loops, and the models have them as folds (`FoldLeft`). `LeftFold`
makes a fold accessible to proofs, for any step and start: `Induction` is induction over
the numbers up to n for a *set* of numbers (from the well-foundedness of `<`, as a
minimal number outside of the set), `FoldSteps` says that a fold is the last of the
states that the step makes one from another, and `FoldOfJoined` that a fold of two
sequences joined goes on with the second from where the first has led. A module takes
`LeftFold` as an instance with its own step, and states a loop invariant of the states, as one would in the code.

`TopologyProofs`, about `Topology` for any reports, edges and nodes:

| theorem | says | loop invariant |
|---|---|---|
| `CablesDrawnOnce` | edges are pairwise unmatched, each is the first report of its cable, each report has one while there is room, the array is not overrun | `DrawnRight`, of the first n reports; `Matches` is an equivalence |
| `DevicesPlacedOnce` | the same of nodes, and the first label stays | `PlacedRight` |
| `ChainIsWalk` | the chain is a walk that uses no edge twice, and loses its way only where a device has no node | `WalkRight`: the printed edges with the MACs between them |
| `LineIsPrinted` | edges that are the steps of a walk over all nodes are printed as one chain, whole | by induction over the chain, its i-th edge is the i-th step of the walk, or of the walk backwards |

`PacketProofs`:

| theorem | property | why it holds |
|---|---|---|
| `IPHeaderVerifies`, `UDPPacketVerifies`, `ChecksumsRight` | `ChecksumsVerify` (the last) | below |
| `LookupsRead`, `ReadsRead`, `RequestsRead` | `RequestReadsBack` (the last) | below |
| `TargetsAreAsked`, `TargetsRight` | `TargetsAreTheRange` (the last) | accepted numbers are bytes, so that `% 256` never bites |
| `PortIsRead`, `OtherIDsAreMisread`, `InterfaceIsFound`, `InterfaceIsLost`, `RecordsRight` | `RecordsRead` (the last) | below |
| `HeaderIsFound` | | the first type that is no tag is the last one, as far as the packet goes |
| `AnswerIsRead`, `EveryAnswerRead`, `BlocksRight` | `EveryBlockRead` (the last) | below |

`ListProofs`:

| theorem | property | why it holds |
|---|---|---|
| `BlocksFreedOnce`, `CleanupRight` | `FreedOnce` (the last) | below |
| `EveryEndReports`, `LinksDrawnOnce`, `DrawingNamed`, `LinesDrawnWhole` | `LinkDrawnOnce`, `DevicesNamed`, `LineDrawnWhole` (of any network) | below |
| `SubnetIsPrefix` | | a byte is the sum of its bits, which are weights: halving it again and again (`Halved`) shows each, and masking (`ByteMasked`) leaves those of the mask's weight or more |
| `KeptMacIsHarmless`, `NextHopsRight` | `NextHopRight` (the last) | `KeptRight`, from request to request: the MAC kept is the default gateway's or none |
| `FileIsDocument`, `SecondRunOverwrites`, `FilesRead` | `FileReadsBack` (the last) | below |
| `LastOptionsCount`, `MeantIsResolved`, `ScanBeginsAsAsked`, `ScansAsked` | `ScanIsAsked` (the last) | below |

The general theorems are of any packet, text or list; those that name a property follow for
the inputs of `Algorithms`, with any `Blocks` and `Data` (`BlocksAssumption`: lengths fit
in a frame or are the greatest of sixteen bits; `DataAssumption`: data are bytes).

The checksums: the sum that the code accumulates with end-around carries is congruent
to the plain total of the words modulo 65535, and zero only when all words are
(`SumOfTotal`). The total of a packet is 256 times the total of the bytes at odd places and
the total of those at even places (`TotalEven`, `TotalOdd`), and 256 * 256 is 1 modulo
65535: bytes that all move to the other half of their words, as they do in the pseudo
header without its leading zero, multiply the total by 256, and storing the checksum
low byte first does the same to it. So both ends agree whatever the data are.

The requests: `LookupsRead` and `ReadsRead` are of any addresses, counters, ports, handle,
identity, slot, subslot and index that fit into their fields (`HasEnds`, `IsRead`).
A frame is a chain of fields, appended one after the other, and `Stands(bytes, offset,
part)` says where one is. `Appended`, `StillLaid` and `AlsoLaid` carry the list of what stands
where along the chain (`Laid`), `StandsWithin` takes a field of a layer to its place in the
frame, and `PartIs`, `Big16Is`, `Low16Is` and `Low32Is` say what a receiver reads there. So
each layer has one lemma (`RpcHeaderReads`, `LookupReads`, `ReadReads`, `IPHeaderReads`,
`UDPReads`, `FrameReads`, `CallReads`), and the lengths that stand in the headers are compared with the
lengths of the chains, which the code has as buffer sizes. `HandlesAssumption` says that a
handle is not taken for the absence of a node (`NoNode`).

The DCP answers: `Walked` says that after so many rounds the walk stands at the start of a block,
and has in each field what the last of the blocks before it was read as (`LastSets`); the starts of the
blocks are strictly rising (`OffsetsAscend`), so no offset is another block's, and there are
rounds enough. So the walk gets to the first block that it does not get over (`GotOver`), or to the end,
and one more round tells how it ends there (`AnswerIsRead`). `EveryAnswerRead` is of any blocks and
any tags, captured to any byte: it finds what the walk gets over from the lengths and the capture
(`BlocksGotOver`, `AnswerEnds`), and which values are read right (`ValueIs`). It assumes of the
packet that its own sixteen-bit length counts the blocks up to one that claims the greatest
length (`Counted`), which those of any frame do (`FewAreCounted` for the runs').

The records: a port's record is a chain of fields too, now with paddings between them.
`PortStands` says where its fields are, for IDs of any length and any peers, and
`PeerBytesRead` where a peer's are. With IDs of eight bytes these places are the offsets that the
code has as numbers, whatever the padding behind the chassis ID (`PortIsRead`); with others a character of
an ID, or the padding, is taken for a count or a length (`OtherIDsAreMisread`).
The walk to the interface stands, after k rounds, at the k-th block of the first multiple block
(`Passed`, `WalkArrives`); the blocks' offsets are strictly rising, so the record has at least as many
headers and the fold enough rounds. So the first interface there is found
(`InterfaceIsFound`), and without one the pointer goes to the end, or to 16 times the
length of that multiple block (`InterfaceIsLost`). Records of any multiple blocks are folds
that lay header behind header (`BlocksAreLaid`, `MultipleIsLaid`, `FirstIsLaid`), and
those of `Algorithms` are too short for that pointer (`FewAreShort`).

Cleaning up joins what the levels of the tree free, one sequence behind the other
(`FlattenSeq`, a recursive function; `FlattenSteps` has it as steps). `Wrong` says which
block must not stand before which: itself, and a slot before a subslot of it. A whole
is in `RightOrder` when its parts are and nothing of a part is wrong before a later one
(`JoinOrder`, `FlattenIs`), which the numbers of device and slot tell: `SubSlotsFreed`,
`SlotsFreed` and `LoopFrees` go up the levels with it. Between the loop of `empty_list`
and what it frees as of a single device only the first node can be wrong (`WholeWrong`).

The topology of a network, of any size and with any faults, follows from what
`TopologyProofs` says of reports (`Net` is that module with the arrays of `Algorithms`).
`EveryEndReports` has the reports of a network: those of the cable ends whose port has
answered, with the labels that the two devices have wherever they occur. Two of them match
just when they are of one end, or of the two ends of a cable that are both named
(`ReportsMatch`); so the edges of a cable and the ends that are to have one correspond one
to one (`LinkOf`). An "unknown device" is one without a node that an edge leads to: the nodes
then are twice as many as the listed devices, each of them a listed device or a peer, and one
more device is left (`UnknownMeansMorePeers`). A drawing whose edges are the steps of a walk
over all nodes has its devices with one edge at the two ends of the walk only (`PathEnds`).

The file of results: what a reader makes of a text does not depend on where the text
stands nor on what was read before. `Tells(text, fields)` says that, from any place, a
reader of the text reads just these fields, under that place, and is back there at the end.
Joined texts tell their fields joined (`BothTold`), a text between an opening and a closing
tag tells its fields one place deeper (`ElementTold`); so subslot, slot and device are put
together to what a document tells (`DocumentRead`). `WriteFirst` and `WriteMore` say what a
call leaves of the file: the text of the devices so far between head and tail, with `endpos`
at the start of the tail, which the next call overwrites and writes anew (`FirstRun`). After
a restart `endpos` is 0, and `WrittenOver` holds from the second run's first call
on: the file begins with a device instead of a head.

The command line: the arguments are groups, an option with its value, one behind the
other. `GroupsTaken` says what the options are after the first n groups: of each option
the value in the last group that has it, until a group ends the program; the loop's next
two arguments keep that for n + 1, and a value that is missing at the end is seen by what is left
pending. The adapters are the real interfaces, in order: `AreReal` gives the i-th interface its number
among them by counting, so that a number means one of them at most, and a name does when
adapters have different names. `ScanBeginsAsAsked` puts the two together with
what is typed, and the first interface with the own address.

Hardly any property is inductive as it stands (`StopsNotEarly` is): each says what holds at one
point of one thread, and the invariants above say what the other threads have to
keep for it meanwhile. The invariants are in the module they are about, after its
properties; they held in TLC on the instances of section 3 before they were proved
(`TreeInv` on 1.4 million states, `TimelyInv` on 0.7 million).

## 6. Model-checked only

Liveness (`Terminates`) needs fairness, which TLAPS here does not handle. The refinement
theorems of `Scan` are about safety: neither specification there states fairness.
Every invariant and action property of a passing run is proved but `AnnotationRead`
of `Algorithms`, which holds for the inputs of section 3: it picks elements from a
sequence (`SelectSeq`), which the provers here know nothing of.

## 7. Not modelled

* The decode tables of `fileHandler.c` (a number to its text) and all printing:
  wording.
* The Npcap loader: compiled on Windows alone, it looks up each function in a DLL and
  forwards the call.
* The enumerations of `protocols.h`, and the structures that handlers copy as a whole
  (I&M0, the bytes of `getRealidentificationData`: `SlotTree` has what it links).
* The race of main and handlers on the counter of `createSeqNum`: no handler compares
  an answer's number with a request's, so no outcome differs.
* The Windows branches of `deviceHandler.c` and `platform_compat.h`; DNS, ARP and ping
  are external programs.
* `sendpacket_IM` of `packetHandler.c` has no caller left; `Frames` has its bytes
  all the same, as `sendpacket_IM_rem` is made after it.
* The later phases and the remote mode in `Scan`: the state space of the session times
  that of the list is beyond TLC there; each is checked by its own module.

## 8. Plan

In this order, the most important behaviour first:

1. *done* `CaptureSession`, `DeviceList`, `Inventory` and their runs and proofs.
2. *done* `SlotTree`; `Topology`, `Checksum`, `DcpBlocks`, `Targets` in `Algorithms`.
3. *done* `Scan`, which closes the open ends of `CaptureSession` and `DeviceList`, and
   the proofs that it implements both.
4. *done* `Frames`, `Annotation`, `Records`, `CommandLine`, `Cleanup`, `Results`; the
   labels of the topology and the VLAN tags of DCP answers.
5. *done* Proofs about `SlotTree`, of `AnswersStayWithSender` and `Implements`, and of
   `TimelyAnswersCount`.
6. *done* Folds (`LeftFold`), and with them the topology's arrays and chain, the checksums,
   the DCP walk and the targets, and what is freed of a list.
7. *done* From reports to networks: `LinkDrawnOnce`, `DevicesNamed` and `LineDrawnWhole`
   for any network.
8. *done* Next hops for any routes and cache, and the file of results for any devices
   (`FileReadsBack`).
9. *done* Requests with any values in their fields (`RequestReadsBack`).
10. *done* Any command line and any system (`ScanIsAsked`).
11. *done* Records with any blocks and any fields (`RecordsRead`).
