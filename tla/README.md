# Formal models of rhex_service

`rhex_service` is the software of a six-legged robot and of its ground station.
`src/rhex_air` runs on the robot: one main process forks a service for each
task (legs, camera, GPS, sensors, remote control, telemetry, link status).
`src/rhex_ground` runs on the ground: one main process forks a service for the
video player, the telemetry, the remote control, the control connections and
the link status. The two programs talk over wifi cards in monitor mode:
packets are broadcast, never acknowledged, and each card loses its own. The
libraries (`lib*`) carry the mechanisms: shared memory, logging, supervision,
the video stream with erasure coding, the packet link, netlink, I/O.

There is no locking anywhere. Everything works by single writers, polling,
numbering, and redundancy; that is what these modules are about.

Contents: 1 inventory, 2 modules, 3 runs, 4 bounds, 5 fairness, 6 proofs,
7 disagreements between the code and what is said of it, 8 what is not
modelled, 9 plan.

## 1. Inventory

| Component | State it keeps | Operations | What makes it correct |
|---|---|---|---|
| Shared memory segments, `libsvc/sharedmem.c` | a uint32 index, `SHM_COPIES` slots | `shm_map_init`, `shm_map_open`, `shm_map_write`, `shm_map_read` | a reader that is quick enough sees one whole version, the newest when it asked; every version arrives |
| Log ring, `liblog` | ring of 32-byte records, `head` (service), `tail` (main) | `log_create`, `log_put_record`, `log_print` | records printed in order, once, none lost while the ring is not overrun, and old ones in their place only where `head` overtakes a record; the printer comes to rest |
| Main and supervision, `rhex_air/main.c`, `rhex_ground/main.c`, `libsvc/svc.c`, `libsvc/timerfd.c` | list of services, a watchdog for each | `start_microservices`, `main_cycle`, `svc_cycle` | no service leaves while main is well; none outlives main |
| Video sender, `libwfb/wfb_tx_rawsock.c` | packets of the open block, sequence number, parity to leave out | `wfb_stream_init`, `wfb_tx_stream`, `pb_transmit_block`, `pb_transmit_packet` | no byte lost; each block has enough parity |
| Video receiver, `libwfb/wfb_rx_rawsock.c` | the block being collected, counters | `wfb_rx_stream_init`, `wfb_rx_stream`, `process_payload` | output is what was sent, in order, once; any 8 of 12 packets do; counters add up |
| Erasure code, `libwfb/fec.c` | tables | `fec_init`, `fec_encode`, `fec_decode` | any k of k+m packets give the data |
| Packet link, `libwfb/wfb_tx.c`, `wfb_rx.c` | cards, sequence number | `wfb_tx_init`, `wfb_tx_send`, `wfb_rx_init`, `wfb_rx_packet` | what is read is what was written, for every kind of card |
| Radiotap, `libwfb/radiotap.c`, `radiotap_rc.c` | iterator | `..._init`, `..._next` | each field is found where the driver put it |
| Leg motion, `rhex_air/control/motion.c`, `libio/canbus.c` | state, target, which drives are ready; the phase of the gait | `do_motion` every 10 ms, `make_step` | no leg moves before all drives report; the legs move together; the newest order wins; a tripod is always on the ground |
| Remote control, `rhex_ground/rhex_tx_rc.c`, `rhex_air/control/rhex_rc.c` | sequence numbers, segment `shm_rc` | one loop each | only orders given are obeyed; the last order arrives |
| Telemetry, `rhex_air/control/rhex_telemetry.c`, `rhex_ground/rhex_telemetry_rx.c` | sequence number; ring of known numbers | one loop each | nothing forwarded twice, little held back |
| GPS, `rhex_air/sensors/gps.c` | line buffer, status under construction | `gps_main`, `parse_line` | lines whole; what is published is of one moment; the receiver is read for ever |
| Camera, `rhex_air/control/camera.c` | child `raspivid`, two pipes | `camera_start`, `camera_cycle`, `camera_main` | video flows; no child left behind |
| Control connections, `rhex_ground/rhex_control.c` | slot table, bit mask | one loop | one slot for each client, one answer for each order |
| Video player feed, `rhex_ground/video.c` | child (player), its pipes | `gstreamer_start`, `video_main` | all video received is shown; neither service nor player outlives main |
| Link status, `rhex_ground/rssi_rx.c`, `qgc_forward.c`, `rhex_air/control/rssi_tx.c` | segments | one loop each | what is displayed is of this run of the program |
| Wifi setup, `libnetlink` | netlink sockets and what waits in them | `setup_wfb`, the requests for a card, the lists of interfaces | every failure noticed, no wait for ever, each asker gets its list |
| Sensors, `rhex_air/sensors/sensors.c`, `ina226.c`, `libio/i2c.c`, `spi.c` | none | read, publish | (register reads) |
| NMEA parser, checksum, netlink attributes | none | pure functions | (third-party or layout) |

How they interact: services share segments (`shm_rc`: remote control to legs;
GPS, sensors, motion to telemetry; link status to telemetry and forwarding);
each service shares a log ring and a watchdog with main, and inherits the netlink
socket main has opened; sender and receiver share the air.

What is hard: a reader that keeps a pointer into a slot while the writer goes
round; two cards at different places of the same stream; a restart of either
side, which numbers from 0 and finds the memory of the run before; children
that die; a main that dies; frames, packets and requests that fail where nobody
looks at the result. `PROJECT.json` lists these at their lines.

## 2. Modules

| Module | Models | State and actions against the code |
|---|---|---|
| `SnapshotRegister` | what a segment promises (abstract) | one step per publication, per question and per answer |
| `SharedMem` | `libsvc/sharedmem.c` | `index`, `mem[slot][word]`; `WriteBegin`, `StoreWord` (the memcpy word by word), `Publish` (the index), `MapRead`, `LoadWord`, `ReadDone` (a caller using the pointer), `MapInit` (a restart) |
| `SharedMemProofs`, `LogBufferProofs`, `SupervisorProofs`, `RcLinkProofs`, `StreamTxProofs`, `VideoLinkProofs`, `ServicesProofs`; `NatLemmas`, what they share | proofs | section 6 |
| `LogBuffer` | `liblog` | one action for each access of `log_put_record` and `log_print` to the ring; `StoreVisible` and `HeadVisible` are the memory, which shows the printer the stores in any order |
| `StreamFormat` | the interleaving of data and parity packets of a block | operators only |
| `StreamTx` | `wfb_tx_stream`, `pb_transmit_block`, `pb_transmit_packet` | `Call` (the camera gives bytes), `Pack` (one turn of the loop, with the block sent when full), `Restart`; a card may refuse a packet, which then no later card sends |
| `StreamRx` | `process_payload` | `Process(p)`: duplicate, late, restart, new block, close and decode, keep |
| `LossyFifo` | what the video link promises (abstract) | a block is broadcast; the receiver goes on to a later one, passing on what it has of the block in hand, or is thrown back |
| `VideoLink` | `StreamTx` + `StreamRx` + the radio | `Send`, `Hear(a)`, `Miss(a)`, `TxReboot` |
| `Motion` | the state machine of `motion.c`, `canbus.c` | `Cycle` is one `do_motion` with at most one CAN message, in which frames for any drives may fail to be written; `Answer`, `ReportStood` are the drives |
| `Gait` | `make_step` | functions: the advance of the common phase, the phase and angle of each leg, the command to its drive |
| `RcLink` | `rhex_tx_rc.c`, `wfb_rx.c`, `rhex_rc.c` + `Motion` | `Send`, `Receive`, `EmptyRead`, restarts of both ends |
| `Telemetry` | `rhex_telemetry.c`, `rhex_telemetry_rx.c`, and `rhex_tx_rc.c`, heard on the same port | `Send`, `SendRc`, `Process` (the ring of numbers), `EmptyRead`, `Restart` |
| `Supervisor` | `main.c`, `svc.c`, `timerfd.c` | `StartNext`, `ReadTime`, `WriteWatchdog`, `Work`, `ReadClock`, `TestWatchdog`, `Die`, `Tick`; `SetBack` is somebody setting the wall clock, on which the timers run |
| `GpsReader` | `gps.c` | `Ready`, `Timeout` (select), `Read` (read and the loop over its characters) |
| `Camera` | `camera.c` | `Check`, `Select`, `Read`, `Kill`, `Wait`; the child films, complains, crashes, dies of the signal |
| `ControlClients` | `rhex_control.c` | `Accept`, `Select`, `Serve`, `WriteEnds` (a `write()` that found no room); clients connect, send, read no more, leave, reset |
| `Player` | `video.c` | `Start`, `Receive`, `Write` (waits at a full pipe), `Leave`; the player plays, tells, crashes, ends |
| `LinkStatus` | `rssi_rx.c`, `qgc_forward.c`, `telemetry_rx_init`, `video_init`, over `sharedmem.c` | one action for each init, each service started (with its own `wfb_rx_init`, which may fail: `Unlisted`), each record written and each cycle of the display; `Restart` starts the program anew over the old segments |
| `WifiSetup` | `libnetlink`, `setup_wfb` | one action for each request, and for each datagram read; the kernel's queue of each socket is the state |
| `Fec`, `Radiotap`, `WfbFrame` | `fec.c`, `radiotap*.c`, `wfb_tx.c`/`wfb_rx.c` | functions, recursion as recursive functions; what the iterators read before it was set (`_next_ns_data`) and which vendor a namespace is of are inputs |
| `Codecs` | what is computed on the way of an order: `Radiotap`, `WfbFrame`, `Gait` | a behaviour takes one input (`Walk` a radiotap header, `Carry` a packet and the cards it goes out by, `Tick` a phase and two sticks) and computes its result |
| `MCVideoLink`, `MCServices`, `MCCodecs` | instances for TLC | symmetry; eight components that share no state, one at work in each behaviour; inputs for `Codecs`, and `Fec` as one more computation |

Conventions. The names are the source's where TLA+ allows. Data is abstracted
to what the properties tell apart: a word of a segment is the number of the
write it comes from, a video packet is the span of the stream it carries, a log
record is its ordinal, a GPS character is the sentence it belongs to. Variables
called history guard nothing but bounds. A definition under "Mutant of" is a
plausible mistake in the definition that follows it; no run uses it as it
stands. It is there to show that the property fails when the code is wrong.
`TypeOK` of `SharedMem` and `StreamTx` is proved, and so is that of `Motion` where the legs are alone; those
of the other modules are part of their documentation.

## 3. Runs

| Run | What it checks | What it shows |
|---|---|---|
| `SharedMem` | `NoTearing OneLapTear NothingOlder Implements Delivered` | With three slots, stores may be reordered as on the robot's ARM. Until an index store overtakes its copy, a reader the writer has not come round to sees one version. After it, what is torn is one round old, no more. The segment implements `SnapshotRegister`. |
| `LogBuffer` | `Fifo Drains SlipsOnlyMidMessage` | Stores become visible in any order, as on the ARM: there is no barrier in `put_record.c`. Until the ring is lapped or the printer runs out of records inside a message, a place is printed for each record put, in order; where `head` has overtaken the record an older one is printed in its place. The printer runs out only while the message is being put or part of it is not visible yet, unless `head` has overtaken a record. Afterwards `tail` is one past `head` and old records are printed again, but the printer still comes to rest. |
| `StreamTx` | `NoByteLost DecodableFromEachCard` | Any division of the stream into calls, any time to send, packets that a card refuses. The packets carry the stream without gap or overlap; and from every card alone each block can be rebuilt, as long as the card and those before it refused no more packets of the block than half the parity. |
| `VideoLink` | `Implements CountersAgree AnyEnoughPacketsDo` | Two adapters with separate losses, either neglected for as long as it happens: the link implements `LossyFifo`. A packet of long ago from a neglected adapter is taken for a restart of the sender; that throws away the block in hand, and nothing worse. |
| `VideoLinkRestart` | `RestartSpoilsOneBlock FollowsSender` | The sender restarts, and its numbers wrap within the run; until they wrap, the spoilt pieces are at most one block for each restart. The others are blocks sent, and in order, for there is one adapter: two that are at different places of the air can bring a block of before a restart back after one of a later run. Without loss, restart or wrap the player follows. |
| `RcLink` | `OnlyOnOrders LastCommandArrives` | Two cards, an empty read, restarts of both ends, **both on one port**. |
| `RcLinkPorts` | `LastCommandArrives` (violated) | The ports as the two programs have them: no command arrives. |
| `Supervisor` | `NoFalseAlarm OrphansLeave` | The clock is read and used in separate steps on both sides, fork may fail, main may die at any time, the wall clock may be set back. |
| `Services` | legs: `LegsTogether ObeysLastOrder WalkIsObeyed`; GPS: `PublishedIsRecent`; camera: `VideoFlows EndsAlone`; player: `NothingRemains VideoShown`; control: `OneSlotEach AnsweredOnce Heard`; telemetry: `PassedOnOnce`; setup: `NoFailureMissed SetupEnds ListsArrive`; link status: `OfThisRun RobotOfThisRun` | Eight components that share nothing, in one run: seventeen properties of legs, readers, children, connections and segments, each under the failures its code meets. |
| `InterfaceList` | `EveryServiceGetsList` (violated) | Services that inherited the route socket of main read each other's lists, or are refused one. |
| `GpsSilence` | `DataAfterSilenceRead` (violated) | After one silent second the GPS is never read again. |
| `Codecs` | `AnyPacketsDo FieldsWherePut PayloadFound WalksSteadily` | The pure parts against what they are meant to compute: any 8 of 12 packets give the data, the fields are found where the bitmap puts them, the payload is found behind every kind of header, the gait stands on a tripod and keeps within the speed of the drives. |

Some properties carry a condition that states where the code's promise ends,
and what happens beyond it is in the model too:

* `Fifo` ends at the first slip or lap, and where `head` has overtaken a record it only says
  that what is shown in its place is at least a round older. `SlipsOnlyMidMessage` ends there.
* `OneSlotEach` holds until a connection more than the table has slots (`ctz(0)` is undefined).
* `Heard` names what keeps the others from being read: such a connection; a `write()` that waits for room
  in the socket of a client that reads no more (`rhex_control.c:72`; the sockets block, and the watchdog is not
  looked at meanwhile); and SIGPIPE, which one client that orders and closes is enough to raise.
* `AnsweredOnce` counts orders not sent behind another message, because only the first message of a read is
  parsed, and allows a client that closed one answer more, since the message before is parsed again.
* `VideoFlows` names raspivid waiting at the full pipe of its standard error. `EndsAlone` has no exemption: the
  service ends and leaves no child, also when the child waits at that pipe.
* `PassedOnOnce` allows packets numbered 0 and, for each restart, one packet for each number in the ring to be
  held back, and speaks of it while no number is beyond the half that counts as old. It does not
  count telemetry whose number a packet of the remote control has had before: of that all may be held back.
* `OfThisRun` speaks of runs in which no `shm_map_init` failed, and of the video only if the `wfb_rx_init` of
  `video_init` did not fail: it does the first write, and without it the display shows the old record.
  `RobotOfThisRun` names the `rssi_rx_main` that got no list of its own, as in `InterfaceList`.
* `FieldsWherePut` says nothing of `radiotap_rc.c` behind field 18 or the vendor namespace that `wfb_rx.c` registers.
* `PayloadFound` speaks of packets that the send buffers hold.
* `Implements` of the video link ends at a restart or a wrap.
* `NoFalseAlarm` ends where the wall clock is set back by more than `Spare`.
* `WalkIsObeyed` takes every drive to have been asked.
* `WalksSteadily` leaves out the speed in a turn walked backwards, where the code asks the
  drives for more than they can do and cuts it off.
* `NoFailureMissed` allows for as many of the last requests on a socket as answers were left unread; `ListsArrive` holds
  where a list comes in one datagram with its end, or the service has a socket of its own.
* `NothingRemains` and `VideoShown` name the player that reads no more.

What must happen in the end is stated as `[]<>(not (trigger) or outcome)`. The trigger (a death of main, a
last button, a finished setup) is one that stays once it is there, or that the outcome need not follow if it goes
away again, so that this says that the outcome comes.

The ring of the telemetry must be twice as long as the skew between cards:
with a ring of only `Skew + 1` a packet is passed on twice, because packets only the late card heard,
and an empty read, push newer numbers out. The real ring has 100.

## 4. Bounds

Bounds on the length of a behaviour are the CONSTANTs named `Max...`; the rest of the
table gives the sizes of the sets and the parameters of the code that are made smaller.

| Run | Bounds | Why enough |
|---|---|---|
| `SharedMem` | 1 reader, 2 words, 3 slots, index modulo 6 starting at 4, 5 writes, 1 re-initialisation | readers do not affect each other; two words tear; five writes pass the wrap and lap every slot. The theorems drop these bounds |
| `LogBuffer` | ring of 3, messages up to 2 records, 4 records, parts of up to 2 records not visible yet | the ring is lapped, the printer slips, and `head` overtakes a record whole or in part, also one a round old |
| `StreamTx` | 3 data and 4 parity packets, calls of 1, 2 and 4 bytes, 14 bytes, 2 cards, 2 packets refused | more parity than data, and as few rounds as make the skipping pattern cross blocks; a packet minimum and maximum that differ; either card refuses up to half the parity |
| `VideoLink` | 2+2 packets, 2 adapters, 6 bytes, restart threshold of 1 block | up to three blocks; every loss pattern of each adapter; an adapter can fall behind by more than the threshold, which in the code is 128 blocks |
| `VideoLinkRestart` | 2+1 packets, 1 adapter, threshold of 1 block, 1 restart, sequence numbers modulo 11, 10 bytes | the numbers wrap, and the modulus is no multiple of the 3 packets of a block, as 2^32 is none of 12 |
| `RcLink` | 1 drive, 2 cards, 2 packets, 1 empty read, 1 restart of each end | two packets can be swapped and old; the legs have a run of their own |
| `Supervisor` | 2 services (1 waits for data without limit), deadline 5, main every 2, clock to 11, set back by 1 | one is forked while the other runs, both can outlive main by the deadline, and the step of the clock is what the deadline spares |
| `Services`, legs and GPS | 3 drives, any frames failing; 6 sentences of 3 characters | answers in any order; every cut of the sentences |
| `Services`, camera and player | pipes of 3, chunk of 2, 6 pieces of video, 4 of standard error, up to 5 received at once | either pipe fills, and more is received at once than one holds |
| `Services`, control | 3 clients of which 1 may stop reading, 2 slots, 2 messages | one connection too many; an order left over for a client that has closed, and the write after it |
| `Services`, telemetry | 2 cards, ring of 4, skew 2, 4 packets and 2 of the remote control, 1 empty read, 1 restart | the ring goes round, numbers come again after the restart, and both senders use the same ones |
| `Services`, setup | 2 wifi cards, 2 services, lists of one part, both kinds of kernel, 2 requests refused, 2 slips | a failure at any request of either card; two lists asked for at once |
| `Services`, link status | 2 runs, any service without a list of cards | a run that finds the records of another |
| `GpsSilence`, `InterfaceList`, `RcLinkPorts` | as `Services` with less of what the GPS does not use; as its setup; as `RcLink` with 1 packet, without loss | the counterexamples need no more |
| `Codecs` | GF(256) whole; 8+4 packets with up to 4 missing in every combination; headers of up to 3 words, each vendor the registered one or not, `_next_ns_data` before or inside the header; up to 3 cards, lengths up to the 384 bytes that a buffer holds; 161 phases of a step and 9 positions of each stick | parameters of the code itself, but for the number of words, of phases and of stick positions, which include full deflection and one step off the middle |

The sequence numbers of packets keep a width, `SeqMod`; 2^32 is beyond TLC's integers, so it
is 65536 where no run reaches its end, and 11 in `VideoLinkRestart`, where they wrap. The
uint32 index of a segment wraps within the run.

`Gait` replaces the floats of `make_step` by integers: phases in 1/20000 of a step, angles in
1/50 of the drive's unit, sticks in the steps of the remote control. Sums are exact; the
advance of the phase in a turn and the two products that scale a phase are rounded down. The
margins of `WalksSteadily` are larger than that by far: the drive's limit is 14.6 units in a
cycle, forwards at most 13.6 are asked for.

## 5. Fairness

Weak fairness only, and only where the code runs in a loop of its own:
`SharedMem` (a writer and readers each driven by a timer, neither waiting for the
other), `LogBuffer` (`main_cycle` calls `log_print` for ever; a service does not
stop inside `log_put_record`; it need not log again; no store stays invisible for ever), `VideoLinkRestart` (the receiver
reads from *some* adapter, since `wfb_rx_stream` takes the first that `select()`
reports: no fairness between adapters is assumed; `VideoLink` itself checks safety only), `RcLink` (`rc_main` reads
what there is), `Services` (each loop goes on; a drive that has power answers; a
child that lives goes on filming or playing; main and each service go on with their setup; the
inits and services of the link status are gone through, and the display goes on). Nothing is assumed of restarts, losses, refused
requests or frames, clients, the wall clock or the operator.

`Supervisor` states no fairness: its properties bound the time itself. Assumptions about
time are guards: `Skew` in `Telemetry` (a card's queue is short compared with
the ring), and `MainLag`/`Slice` in `Supervisor` (main and running services get the CPU
within their periods, longer by what their timers are late when the wall clock was set back).

## 6. Proofs

All for every value of the constants that the named assumptions of the module
allow (TLC evaluates those assumptions in the runs), and without any of the
bounds of section 4.

| Module | Theorems | Properties |
|---|---|---|
| `SharedMemProofs` | `TypeCorrect`, `ReadersSeeOneVersion`, `ReadersSeeNothingOlder`, `TornByOneRound`, `SegmentIsRegister` | (`TypeOK`), `NoTearing`, `NothingOlder`, `OneLapTear`, `Implements` |
| `LogBufferProofs` | `PrintedInOrder`, `SlipNeedsOpenMessage` | `Fifo`, `SlipsOnlyMidMessage` |
| `SupervisorProofs` | `MainAliveNoAlarm`, `OrphansEnd` | `NoFalseAlarm`, `OrphansLeave` |
| `RcLinkProofs` | `OrdersOnly`, `FieldsFound`, `PayloadsOpened`, `SteadyGait` | `OnlyOnOrders`, `FieldsWherePut`, `PayloadFound`, `WalksSteadily` |
| `StreamTxProofs` | `BaseCorrect`, `EveryByteKept`, `EachCardSuffices` | (`BaseInv`), `NoByteLost`, `DecodableFromEachCard` |
| `VideoLinkProofs` | `LinkCorrect`, `Counters`, `EnoughPackets`, `LinkImplementsFifo`, `OneBlockARestart` | (`LinkInv`), `CountersAgree`, `AnyEnoughPacketsDo`, `Implements`, `RestartSpoilsOneBlock` |
| `ServicesProofs` | `MoveTogether`, `LastOrderObeyed`, `RecordOfOneMoment`, `EachItsSlot`, `EachItsAnswer`, `TelemetryOnce`, `EveryFailureNoticed`, `NothingOfEarlierRuns` | `LegsTogether`, `ObeysLastOrder`, `PublishedIsRecent`, `OneSlotEach`, `AnsweredOnce`, `PassedOnOnce`, `NoFailureMissed`, `OfThisRun` |

Each module states an inductive invariant, has one lemma for each action (or, where actions
differ little, for each kind of step), and derives its theorems from it. Every safety property the
runs check is proved, but for `AnyPacketsDo`.

**Shared memory.** `NoTearing` is not inductive: it says nothing of what the slots
hold, of where the header points, or of which slot a reader's pointer means.
`IInv` adds

* `HeaderInv`: `index = Wrap(StartIdx + (version - base))`: the header counts the
  publications since the initialisation, modulo a multiple of the number of slots;
* `RingInv`: the slot of version v holds nothing older than v, and exactly v as long as the
  writer has begun fewer than `Copies` later ones; during a copy the words already
  stored are those of the version in hand;
* `PointerInv`: a reader in mid-read points to the slot of the version it asked for;
* `GotBounded`: nobody has loaded a version not yet begun.

The step that carries it is `SlotsApart`: versions fewer than `Copies` apart are in
different slots, so a store into the slot of version `version + 1` does not touch
the slot of a reader that is not overtaken. It rests on the facts on `%` in
`NatLemmas`, among them that reducing modulo a multiple of the number of slots
first does not change the slot: this is where the wrap of the index is
harmless, and it is harmless in the code because `SHM_COPIES` divides 2^32.

A CPU that makes the index visible before the copy breaks `RingInv`. The history
variable `swapped` records it, and what is proved inductive is
`BaseInv /\ LapInv /\ (~swapped => IInv)`. `BaseInv` (types, `HeaderInv`, `PointerInv`, no word of a
version not yet begun) and `LapInv` hold in whatever order stores become visible. `LapInv` says
that a slot the writer has not come round to holds its version but for the words of the newest that
are still on their way, and that those hold what was there one round before, or nothing newer
than the initialisation: exactly what `OneLapTear` lets a reader see. It is inductive because the next
copy begins only when the last store of the one before is visible, and versions `Copies` apart share a
slot.

`SegmentIsRegister` uses the mapping `started <- Started`, `snap <- seen`: the stores of
single words and the loads of single words are stutters of the register, `Publish`
is its `Commit`, `ReadDone` its `Obtain`.

**Log ring.** `mine` (the service's `head`), the printer's `head` and `tail` are counters of records modulo the
ring, less than a ring apart until the printer is lapped. A record the printer's `head` covers is in place, or some of the
stores into it are still on their way and `head` has overtaken it (`swapped`): then what stands in the slot is of
a round before. The invariant also says that behind a record that does not end a message
there is either the next one or a service that is still putting it: with that a
slip needs an open message, or one not all visible.

**Supervision.** While main is alive each watchdog was written at most `MainLag` ago
(`AliveInv`), with a time read at most `MainLag` before, since main read it after its
previous store to the same watchdog (`StampInv`); each of the two may be longer by what the
wall clock was set back meanwhile. So a watchdog is never older than twice `MainLag`
and that step of the clock together, which is within the deadline as long as the step is no
more than `Spare == Deadline - 2 * MainLag`: the condition of `NoFalseAlarm`. In the
code it is 1 s against cycles of 50 ms. `LoopInv` counts the slices a service has spent
since it last passed the test, which bounds its life after main.

**Remote control.** `RcLinkProofs` follows an order from the air through the segment and the
target to the state; a restart finds nothing in the segment but an old order. The rest of the module
is about what is computed on the way, for every input that the assumptions of `Codecs` name: any bitmap
words, length and vendors of a header, any number and kinds of cards and any packet that the buffers of these cards
hold, any phase and any two sticks. `CodecInv` says that a result is that of its input; what remains are
three results about functions.

* *Frames.* `wfb_write` carries `padlen` from card to card, and no card resets it. `FrameOpened` rests on
  `PaddedToMinimum`: only the first card can be of another type than 0, so a card that needs no padding finds none
  left over. That is true by the way `wfb_tx_init` fills its table (section 7), not by the loop that
  sends.
* *Radiotap.* Both iterators are one loop over the places of the bitmap (`Walked`). `WalkInv` says that after k
  places all fields announced below k are found, each as the one of its rank, at its alignment right behind the
  one before (`FoundUpto`), or that the walk has stopped at the first that does not fit. What `radiotap_rc.c` knows of the
  numbering (the current namespace, and whether it starts anew) is `HeadInv`; `RcStep` carries both through a place,
  where a word ends as well (`HeadTurns`). Where `radiotap_rc.c` goes astray (field 18, or the registered namespace) the
  walk is given up, and only that what was found stays (`Beyond`, `BitAdds`) is carried on.
* *Gait.* A leg's phase, and its angle, are each a ramp of two slopes put back on a circle.
  `RampClimbs` bounds how far a ramp moves for a step of its argument, the floors included; so the advance of the common
  phase (`AdvanceIs`: the tighter the turn the less, which `TightTurn` puts against the steeper ramp) bounds how far a
  leg moves in a cycle: 731 of 38400, the most a drive can do (the estimate is coarse, 680 is reached). `LegPhaseIs` and
  `AngleIs` give the tripod.

**Video sender.** `AirInv` says that the air is whole blocks, each packet in its place and known by its
block. With that `NoByteLost` is inductive: a turn of the loop leaves the packet open, finishes
it or fills the block, and in each case the spans still follow one another. `DecodableFromEachCard` needs to
know why a packet is not on a card: refused, or a parity packet with an odd number (`SentInv`). The places of
the parity packets are counted with a bijection.

**Video link.** `LinkInv` (types, `BaseInv` of the sender, the counters) holds through restarts and
wraps. `EpochInv` says that since its last start the sender has numbered the packets from 0 and no
adapter will hear one from before; `HandInv`, that in the first run the receiver holds packets of
one block that was sent and no others (`Pure`), so that what is decoded from it is that block, with
holes at most. `LinkImplementsFifo` maps the blocks on the air to the blocks sent, the block in the hands of the
receiver to `blockNum` and the player's to `out`: filling the buffer is a stutter, opening it the step of the
FIFO. `SpoiltInv` carries a witness through restarts: a set of places of `out` that are no block sent, and for each of the others
which block it is. The buffer holds a block of this run only, or
is itself the one that may be spoilt by the last restart, which then has spoilt no other.
The order of the others rests on the adapter being past the beginning of the block in the buffer.

**Legs.** `ReportInv` tells who has answered: a drive that is still
asked is not ready, and nobody reports to stand before the set is complete, so the
reset of the state machine happens once. `TargetInv` says the target is the last button. `CommandInv` says what
the legs were told: "mixed" where frames could not be written, and else the command of the state.

**GPS.** After n characters the line holds what came of sentence `n \div (Length + 1) + 1`, and both records
are functions of the sentences that ended (`GpsAt`). The loop of `Read` is a recursive function; that it
has a value is proved by induction on its length (`TakesExist`), and the invariant is carried along it.

**Control connections.** `SlotInv`: a connection is in one place of the queue or in one slot, and one that
has not connected in none. `SilentInv` keeps the counts of one that has not connected at 0. `AnswerInv` weighs
the answers of a connection against its orders: those that wait, the one being written, and the one
more that a connection may get once it has closed.

**Telemetry.** `RingInv` speaks of the log of all numbers remembered, in order: the ring holds its last
`BufSize`, an entry is at most `Skew` behind the greatest before it, and as long as a card has not heard
packet n, fewer than `BufSize` entries came after it. So a packet a card is late with is still known: that holds
for the packets of both senders, since it speaks of the places in the air and not of who sent them. `HeldInv`
takes the numbers the ring holds at a restart: only these, 0, and the numbers the remote control has had, can be
held back in the run that begins, each once.

**Setup, link status.** `SetupInv` counts, for each socket, the requests whose answer is not read yet: as many as were left
(`slips`), and the last ones asked. `LinkStatusInv` follows the order of the init functions on the ground:
which segments exist when a service starts, whether the `wfb_rx_init` of `video_init` has failed, and that each record a reader can reach is either of this
run or what the initialisation shows of the slot, which is why `OfThisRun` needs `RecordInv`.

Induction. The theorems of the library that take an operator are not usable; `NatLemmas` states induction
and the least element for a *set* of numbers (`SetInduction`, `Least`, `Greatest`), derived from well-founded
minima, and the proofs collect what they claim into a set.

Only model-checked: `AnyPacketsDo`, which needs the tables of GF(256), built with the operators on bits that no
module with a theorem may use, and Gaussian elimination over them; and all liveness (`Drains`, `Delivered`, `FollowsSender`,
`LastCommandArrives`, `WalkIsObeyed`, `VideoFlows`, `EndsAlone`, `Heard`, `NothingRemains`, `VideoShown`, `SetupEnds`,
`ListsArrive`, `RobotOfThisRun`), which is out of the prover's reach.

## 7. Disagreements

Shown by a run:

* `RcLinkPorts`. `rhex_tx_rc.c:58` sends on port 1, `rhex_rc.c:46` listens on port 30.
  The filter drops every packet; no command of the operator arrives.
* `GpsSilence`. `gps.c:286` fills the set of descriptors once before the loop. `select()`
  clears it when it times out, and from then on watches nothing, though the message says
  "waiting for new data ...".

* `InterfaceList`. `netlink_base.c:146`: the route socket, once main has opened it, is
  inherited by every service, and `nl_seq_id` is never counted up. Services that list interfaces at
  the same time read each other's answers or get EBUSY, and go on with fewer cards or
  none, or wait for an end that somebody else has read.

Read in the code, and modelled as the code has them:

* `wfb_tx_rawsock.c:503-506` compares the time to send, in nanoseconds, with a number of
  bytes: parity is left out after nearly every block, not only after slow ones.
  `DecodableFromEachCard` bounds the harm.
* `wfb_tx_rawsock.c:397`: when `write()` fails on one card the packet is not sent on the cards after it.
* `wfb_tx_rawsock.c:483`: 2^32 modulo 12 is 4, so that after the wrap of the sequence number (seven
  weeks of video) the blocks of the sender straddle those of the receiver.
* `wfb_rx_rawsock.c:834` reads only the first adapter `select()` reports: one that always has data
  starves the others, whose packets are old when they are read.
* `rhex_telemetry_rx.c:62`: the ring of known numbers starts full of zeros, so the packet
  numbered 0 is always dropped. `:73`: `lastseq` stays 0, so "received old seqno" is never
  said of an old packet.
* `rhex_tx_rc.c:58` numbers its packets from 0 on port 1, which `rhex_telemetry_rx.c:161` listens on, with all cards on
  one channel, and `process_packet` looks at nothing but the number: packets of the remote control are passed to the
  display as telemetry and fill the ring of known numbers, and telemetry with their numbers is dropped as already
  received.
* `put_record.c:38-54` has no barrier between the stores into a record and that of `head`: on the ARM a record may be
  printed as it was a round before, or an old end mark cut a message in two.
* `wfb_tx.c:170`: `wfb_write` copies a packet of any length into a buffer of 402 bytes. `rhex_tx_rc.c:76-80` passes on
  datagrams of up to 512 bytes, and the -1 of a failed `recvfrom()` as a length of 65535.
* `radiotap_rc.c:405-411`: of a vendor namespace that is registered, as `wfb_rx.c:33-58` does for 00:00:00, nothing is skipped;
  its fields 0 and 52 (`n_bits` is a `sizeof`, right since an entry is one byte wide) are reported as if they were radiotap
  fields of these numbers. `:366`: field 18, which has no size in the table, makes the walk go on from `_next_ns_data`, which
  nothing has set before the first vendor namespace.
* `rhex_rc.c`: `last_seqno` is never updated, so a late packet overrides a newer one; and the
  last command stays in force when the link is lost.
* `camera.c:174`: the first argument of `select()` lacks the + 1, so standard error of raspivid
  is never read. `camera.c:251` kills a process number that may have been reaped already.
* `rhex_control.c`: an orderly close never frees the slot; the message read before is parsed
  again, whoever sent it, and a second answer to a closed connection ends the service by SIGPIPE: a client that orders
  and closes does. A client that reads no more can hold up `write()` (`:72`), and all the others with it. With all slots
  in use `ctz(0)` is undefined. SHUTDOWN and REBOOT are acknowledged and not done.
* `wfb_rx.c:148`: a `select()` without a packet behind it counts as a packet of zeros. For the
  remote control that is no button, and both sticks 1500 below the middle: until the next packet
  a walking robot is told to walk backwards at full speed and turn.
* `wfb_tx.c`: the types of all cards go into one place of the table; `padlen` is not reset.
* `wfb_rx_rawsock.c`: a card more than 128 blocks behind the others looks like a restarted sender;
  the last block is passed on only when a later one comes; after a restart of a sender that
  had sent few blocks packets are ignored until it catches up.
* `motion.c`: nobody looks at the result of `send_can_msg`. `start_msg` asks each drive once and
  `parking_all` orders once: a drive that did not get the request keeps the robot from ever
  walking, a leg that did not get the order is left as it is. The drawing at `:465` has M4 on the left
  and M5 on the right; the code has them the other way round ("FIXME", `:222`), which makes
  legs 0, 3 and 5 a tripod.
* `libnetlink`: when `bind()` fails `init_netlink` returns 1, which is taken for a socket;
  `read_netlink_recv` returns 0, confirmed, when `recvmsg` fails; the loops over a list look
  at the type of a message behind its end. On the ground a card that pcap
  cannot open ends main (`exit(1)`), before anything is started.
* `video.c`: the service keeps the reading end of the player's standard input, so that writing
  to a dead player fills the pipe and then waits for ever, without a look at the
  watchdog; such a service outlives main. What the player prints is never read: a pipe of it stops
  the player. The result of `gstreamer_start` is ignored.
* `rssi_tx.c` opens `shm_rx_status`, `shm_rx_status_rc` and `shm_tx_status`, which no service of the
  robot creates: it ends at once, and what `qgc_forward` and the display await from it never
  comes. `rhex_tx_rc_init` initialises `shm_tx_status` a second time, 112 byte records are written
  to slots of the size of another record, and `qgc_forward.c` uses a segment it could not
  open. `rssi_rx_main` (`rssi_rx.c:138`) and `telemetry_rx_main` end for good when they get no list of cards, though main had one; when `wfb_rx_init` fails in `video_init` the old record of the video stays on display.
* `main.c`: the result of `start_svc` is ignored; a service that ends is not started again.

## 8. Not modelled

* Sensors (register reads and one write to a segment), the NMEA parser (third-party), checksums and the
  attributes in netlink messages (layout): pure input or pure functions without state to get wrong.
* An interface that goes down while it is in use. A `wfb_rx_init` that fails is in `LinkStatus`; a `wfb_tx_init` that
  fails in a service is not: the service ends and is not started again.
* What `wfb_write` does with a packet that its buffer does not hold.
* A control client that closes only its sending side (`shutdown()`): it counts as one that closed.
* A main that is started again while services of the old one still run: segments are
  initialised under their hands as in `SharedMem`, whose `MapInit` allows for it; watchdogs are
  not shared between runs (`memfd_create`).
* The MAVLink packing of telemetry; the signal strengths, bit rates, load and temperature in the records
  of the link status.
* The calibration of the legs, which no assignment ever asks for.
* Payload bytes: in `Fec` one symbol of each packet, since the code treats bytes alike.
* Two producers of one log ring; services of the code log from one thread.
* `Gait` takes sticks that stay as they are. When they move at once the angles jump, and the
  speed is cut off at the drive's limit.

## 9. Plan

Done: all modules of section 2 and the theorems of section 6. What all services rest on came first
(segments, logs, supervision), then the links, then the services.

Theorems to come: what follows from `LossyFifo` and `SnapshotRegister` alone.

Models to come: the log ring as an implementation of an abstract FIFO until its first slip;
the packet link under an interface that goes down.
