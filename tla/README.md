# Verification of the Ali_iot firmware

The repository is the firmware of an STM32F407 board that talks MQTT to the
Alibaba Cloud IoT platform: FreeRTOS 10, lwIP 2.1.2 with its MQTT client, an
Ethernet driver around the on-chip MAC, an SD card driver and small board
drivers. This directory holds TLA+ modules that model it, TLC runs that check
them on small instances, and TLAPS proofs for every value of the constants.
Paths below are relative to the repository; `mqtt.c` is
`Libraries/LwIP/src/apps/mqtt/mqtt.c`, `ethernetif.c` is
`Libraries/LwIP/port/FreeRTOS/ethernetif.c`.

## 1. Inventory

### How the parts run

    task_init (priority 1)  -> ETH_BSP_Config: LwIP_Init, link monitor task
    task_DHCP (4)           application task; in this commit it only delays
    tcpip thread (4)        all of lwIP: timers, TCP, MQTT client, application callbacks
    ethernetif_input (4)    woken by a semaphore, empties the receive ring into tcpip_input
    Eth_Link_IT_task (2)    polls the PHY, brings the interface up or down, starts DHCP
    ETH_IRQHandler          gives the semaphore for received frames
    MAC DMA                 fills the receive ring, empties the transmit ring

The parts interact by direct calls (MQTT client to TCP and back), callbacks
(client to application, which calls the client again from inside them),
mailboxes (tcpip thread), a binary semaphore (interrupt to input task) and
memory shared without a lock (descriptor rings, by OWN bits).

### Components

| Component | State | Operations | What is hard | What makes it correct |
|---|---|---|---|---|
| MQTT client (`mqtt.c`) | connection state, timer ticks, request queue with relative timeouts, output ring, parser position | connect, disconnect, publish, subscribe; callbacks for TCP connect, receive, sent, poll, error; interval timer | callbacks that call the client again; connecting again on the same object; request time-outs against late answers; TCP out of memory; full rings | one timer per connection; every request ends once, and with the right result; CONNECT first; dead links are noticed, healthy ones kept |
| MQTT output ring (`mqtt_ringbuf_*`) | 256 bytes, two indices | check, append, send | wrap, full against empty, 16-bit lengths, partial writes | bytes leave once and in order |
| Ali IoT application (`BSP/src/Ali_iot.c`) | static client and credentials | connect, callbacks | called from inside the client | `data_cb` set before a publish arrives |
| Ethernet reception (`ethernetif.c`, `stm32f4x7_eth.c`, `bsp_lan8720.c`) | descriptor ring, `DMARxDescToGet`, segment count, semaphore, DMA flags | interrupt handler, scan, copy, release, input | DMA, interrupt and task at once; full ring; failed allocations | no buffer used by both; no lost wake-up; order |
| Ethernet transmission (`low_level_output`) | descriptor ring, `DMATxDescToSet`, semaphore created on first use | output | several tasks; suspended DMA | one task at a time on the ring; frames leave whole and in order |
| lwIP pools and input path (`memp.c`, `pbuf.c`, `tcpip.c`, `sys_arch.c`) | free lists, pbuf chains, mailbox | allocate, chain, free, post, fetch | two tasks on unprotected lists; empty pools; full mailbox | an element has one holder; nothing leaks; frames arrive whole |
| Link monitor, DHCP (`bsp_lan8720.c`, `netconf.c`, `dhcp.c`) | last PHY status (never initialised), DHCP state, retries, lease clocks, PCB count | poll, connect, disconnect; timers, answers | calls lwIP without its lock, so that timers and answers come in between; lost messages; leases that run out | an address is held only under a lease; the PCB count is exact; a link gets an address |
| sys_arch, tcpip thread | mailboxes, semaphores, time-outs | post, fetch, lock | a full mailbox | messages given up are given back |
| SD card driver (`bsp_sdio.c`) | transfer flags shared with two interrupts, card type | block reads and writes, wait, stop, status | flags not reset, lost time-outs, failing commands, exchanged cards | success is true; the buffer is released; no transfer is left open |
| FatFs glue (`diskio.c`) | none | dispatch | results not awaited | - (never mounted) |
| EEPROM, bit-banged I2C | none | page writes | page boundaries | bytes land where asked (not in the build) |
| Boot, RTC, UART, hash, SRAM | hardware registers | initialisation, polling | little | - |
| lwIP core, FreeRTOS, FatFs, cJSON, StdPeriph, CMSIS | vendored | - | - | environment of the models |

The list of hazards, each at its line with the properties that would catch it,
is in `PROJECT.json`.

## 2. Plan

Done, in this order:

1. `MqttSession`, `MqttClient`: the core of the program, with the application.
2. `MqttRingBuf` and its proofs: the client's bytes, below the message level of 1.
3. `EthRx` and its proofs.
4. `EthTx` and its proofs.
5. `MempPools` and its proofs: what follows `EthRx`, from the frame copied to
   the tcpip thread; `EthRx!InputRefuses` and `MayLackPbuf` are its failures.
6. `SdTransfer` and its proofs.
7. `DhcpLink` and its proofs: the link task against the tcpip thread.

Left, most important first:

8. `MqttParser`: `mqtt_parse_incoming` over arbitrary pbuf boundaries, shown to
   deliver the message sequence that `MqttClient` assumes.
9. The mode of the cable changing without loss of link in `DhcpLink` (see
   section 6), and two TCP control blocks at once in `MqttClient`.
10. `Eeprom`: page splitting against a byte-array reference, should it be built.

Theorems left: every safety property that a passing run checks is proved;
section 5 says what the provers cannot do. New modules bring theorems of their own.

## 3. Modules and how they correspond to the code

**MqttClient** models `mqtt.c` and `Ali_iot.c`. All client code runs to
completion in the tcpip thread, so one handler is one action. Handlers call
functions that call back into the application, which calls the client again;
therefore each C function is an operator from state record to state record and an
action applies one to the variable `m`. The record's fields carry the names of
`struct mqtt_client_s`. The nesting is the code's: for example `Close` clears the
requests, removes one timeout, sets the state and only then calls `ConnectCb`,
which may call `ClientConnect`, which wipes the client. A loop of the code (over the
queue, the ring, the messages of a segment) is a recursive function whose argument
is what the loop has left; its body has a name of its own (`Parse`, `CompleteOne`,
`ElapseOne`), which starts from the client its callbacks have left behind. The fields of `Fresh`
that `Wipe` does not touch are what the C `memset` does not touch (lwIP's timer
list). Messages have unit size; the parser is abstracted to message boundaries.
`OnDown` and `OnRequestFail` choose what the application does in its callbacks:
what `Ali_iot.c` does, or what the client's documentation proposes (reconnect,
disconnect when a subscription fails). Broker, network and cable are external.

**MqttSession** is the abstract specification of the client: a session that opens
and is lost, and requests that only move forward, succeed only in an accepted
session and never outlive it. `MqttClient!ImplementsSession` is the refinement.

**MqttRingBuf** models `mqtt_ringbuf_*`, `mqtt_output_check_space`, the append
helpers and `mqtt_output_send` byte by byte. A byte is its serial number in the
stream, so loss, repetition and disorder are visible. Widths are kept:
`mqtt_output_check_space` computes in `u16_t`.

**EthRx** models the receive path: the DMA (external), the two halves of
`ETH_IRQHandler`, and `ethernetif_input` with `low_level_input` and
`ETH_Get_Received_Frame_interrupt`, one action between two accesses to shared
state. The task does not run inside the handler; the DMA does. `RBUS`
(`suspended`) and the OWN bits behave as the driver's comments use them. The
first-segment descriptor of the scan is initialised by NULL in each call;
`segCount` survives, as `DMA_RX_FRAME_infos->Seg_Count` does.

**EthTx** models `low_level_output` and `ETH_Prepare_Transmit_Descriptors` as run
by tasks of different priorities. The creation of the semaphore inside the
function, between a test and two further steps, is modelled as it is written, and
so is `xSemaphoreGive(xTxSemaphore)`, which reads the variable again. The
scheduler is part of the model (`Runs`): a task runs only when no task of higher
priority is ready. Frames of several descriptors are left out, as an `mtu` of
1500 makes every frame fit in one buffer of 1524. `MCEthTx` names three tasks.

**MempPools** models the pools of pbufs and input messages, whose lists
`do_memp_malloc_pool` and `do_memp_free_pool` change with `SYS_LIGHTWEIGHT_PROT`
0, hence with no protection, from two tasks of one priority. Every load and
store of a list is an action. `MEMP_SIZE` is 0, so the link of a free element
lies where a pbuf has `next` and a message has `type`; `next` is both. Around
it, `Receive`, `ChainPbuf` and `AllocFails` are the loop of `pbuf_alloc`,
`Unlink` that of `pbuf_free`, `PostMsg` is `tcpip_inpkt` with `sys_mbox_trypost`
and `Fetch` the tcpip thread, which in this configuration frees every frame
before it takes the next message. `who` and `overlap` are ghosts: who holds an
element, and whether both tasks were ever inside one pool at once.

**SdTransfer** models block reads and writes of `bsp_sdio.c` in DMA mode. The task
starts, waits and polls as the header's programming model says (`Habits` lets it
wait after a failed start or not). A start is a short program of commands
(`Program`), each of which may be lost, refused or badly answered (`MayFail`).
The flags keep their names; all but `DMAEndOfTransfer` are reset by `Begin`, as
in the code. SDIO, the DMA stream and the card (external) go on by themselves
and raise flags; both interrupts preempt the task (`At` is its guard). The first
loop of the wait may end with the data path still off: that is the time-out
whose value the second loop loads again. `InitCard` is `SD_Init` with the two
things that decide `CardType`, whether CMD8 was answered (the ghost `answered`) and
whether the card got ready; a lost CMD8 is no error to `SD_PowerON`.

**DhcpLink** models `Eth_Link_IT_task`, `netconf.c` and the DHCP client. The link
task has priority 2 and takes no lock, so each of its calls is cut into steps
between which the tcpip thread handles timers and answers; what that thread does
for one of them is one action, composed from the operators `Discover`, `DoSelect`,
`Bind`, `Restart`. Transaction ids are random: `mine` says whether the client
still has the last one drawn, `asked` which messages carry it. Ticks are kept
as in the code, 16 bits of minutes. `LinkUp` leaves out `dhcp_network_changed`,
which does nothing for a client that is off; `OffAtLinkUpHolds` proves that it is.
`late` is a ghost: whether the address of the interface was bound after
`netif_set_addr` had taken the one before away and before the client was off.

## 4. Runs

| Run | What it checks |
|---|---|
| `MqttReconnect` | Publishes of every QoS, refusals, resets, TCP out of memory, full rings, an application that reconnects in `connect_cb`: types, exactly one timer (`OneTimer`), exact deadlines (`RequestClock`), the queue holds just the requests that wait (`NoOrphanRequest`), `ConnectFirst`, `OkMeansServed`, `NoNullUse`, and the refinement of `MqttSession`. |
| `MqttCut` | After the cable is cut: `DeadLinkDetected`, and `RequestsEnd`, both under fairness. |
| `MqttKeepAlive` | The code's constants, `keep_alive = 60` as in `Ali_iot.c`, prompt peers: `TimerKeepsHealthy`, and `OkMeansServed` with wrapping identifiers. |
| `MqttRingBuf` | `IntactUntilFull`, `OnlyExactFill`. |
| `EthRx` | Frames of one and two descriptors, failing `pbuf_alloc` and `tcpip_input`: `RingWindow`, `ReceptionGoesOn`, `InputInOrder`, and `FramesReachStack` as long as no long frame came and none was dropped. |
| `EthTx` | Three tasks: `OneSender`, `QueueInRing`, `TransmissionGoesOn`, `FramesLeave`. |
| `MempPools` | Both tasks, pools that run empty, a full mailbox: `HandedOutOnce`, `FreedByOwner`, `FrameWhole`, `NothingLost`, `PoolRecovers`, up to an overlap. |
| `SdTransfer` | All operations, failing commands and transfers, cards of every kind exchanged, CMD8 lost: `OkMeansMoved`, `BufferReleased`, `TransferClosed`, `AddressUnit`, `OperationsEnd`. |
| `DhcpLink` | A cable pulled at any moment, timers and answers between any two steps of the link task, short leases, refusals, memory shortages: `PcbCounted`, `AddressTimed` (but for an address bound while the client is switched off), `LinkGetsAddress`. |
| `MqttTwoTimers` | violated (`OneTimer`): a request callback that disconnects leaves a timer running. |
| `MempRace` | violated (`NeverHandedOutTwice`): past an overlap an element in use is handed out again. |
| `SdUnderrun` | violated (`OkMeansMoved`): a single-block write that underruns is reported as done. |

The three violations are disagreements of the code with its own comments; each is
quoted under `findings` in `PROJECT.json`. `MqttTwoTimers` has a request callback that
disconnects, which `doc/mqtt_client.txt` calls normal behaviour and the Ali
application does not do.
`SD_WriteBlock` enables the overrun interrupt of reads in place of the underrun
interrupt, so nothing tells the wait that the transfer stopped; and `MempPools`
passes because its properties end at the first overlap, which the tick of the
scheduler decides about.

### Bounds, and why they are enough

- `MQTT_REQ_MAX_IN_FLIGHT = 2`, `RingCap = 2`, `SndBuf` 1 or 2: queue, ring and
  send buffer are each reached empty, partly full and full. Three requests per
  connection (`MaxReqs`) are needed for one to be taken from the middle of the
  others; `MaxPub` and `Window` bound what the broker sends.
- The time constants keep their relation where only that matters
  (`MQTT_REQ_TIMEOUT = MQTT_CONNECT_TIMOUT = 10`, two intervals) and are the
  code's own (5, 30, 100, 60) in `MqttKeepAlive`.
- `IdMod` (2^16 in the code) is 5 or 6: identifiers wrap within a run.
- `MqttRingBuf`: `SIZE = 8` and 24 bytes are three laps; `Remaining` holds
  messages that fill the ring exactly, that leave one byte, and that do not fit;
  `SEPTET = 4` makes length fields of one and two bytes occur.
- `EthRx`: three descriptors and six frames are at least two laps of the
  ring; `EthTx`: two descriptors, four frames, three tasks.
- `MempPools`: three pbufs and frames of one to three empty the pool in the middle
  of a chain; two messages and a mailbox of one make the queue full before the
  pool is. Nothing is counted, so the state space is finite without a bound on
  frames. `AfterOverlap` chooses whether behaviours are followed past an overlap.
- `SdTransfer`: three blocks (first, middle, last); all three kinds of
  cards, any after any other; `MayFail` leaves out CMD12 and CMD24 (section 6).
- `DhcpLink`: leases of 30, 300 and 600 s are 1, 5 and 10 minutes, so that every
  clock is seen at 0, 1 and more; `RequestTries = 5` is the code's; two
  refusals (`MaxRefusals`) let one come before and one after a bind. `Garbage` is
  what `old_i` holds before it is written.
- `CHECK_DEADLOCK FALSE` stands in the configurations of `EthRx` and `EthTx` only:
  there the bounded environment stops sending frames and the system rightly sleeps.

### Limits of the code that no run repeats

Constants chosen otherwise, or a property stated more strongly, show:

- MQTT. `KeepAlive` 1 to 9, 11, 12, 13 or 16 in `MqttKeepAlive.cfg` breaks
  `TimerKeepsHealthy` (PINGREQ waits for the interval and then for a poll, and the
  answer misses 1.5 * keep_alive). With `MQTT_REQ_MAX_IN_FLIGHT` and `Window` 3
  and `Kinds` `{"PUBLISH2"}`, `MqttTwoTimers.cfg` breaks `NoNullUse` too: after a
  refused SUBACK whose callback disconnects, the parser goes on, and a PUBREC of the
  same segment is answered without a connection (`mqtt.c:641`, against the assertion
  at `mqtt.c:240`). Requests pending when a connection closes
  end without their callback (`mqtt.c:556`, against `mqtt.c:282`). A message that
  fills the ring to the last byte is accepted and lost (`mqtt.c:529`, against
  `mqtt.c:511`); this is what `OnlyExactFill` leaves open. TCP acknowledgements
  reset the server watchdog, so only a peer whose TCP is dead is found
  unresponsive; a QoS 0 publish is reported sent at any acknowledgement.
- Ethernet. A frame scanned when only its first descriptor is stored makes
  `low_level_input` set OWN through a NULL pointer (`ethernetif.c:321`); the
  properties of `EthRx` end there (`nullWrite`). After a dropped frame the frames
  left in the ring wait for the next interrupt. `low_level_output` returns `ERR_OK`
  for frames it drops, where its comment promises an error (`ethernetif.c:174`).
  Equal priorities in `EthTx`, excluded by its assumption, break `OneSender`.
- SD card. `StatusMeansMoved` fails: in the header's programming model
  (`bsp_sdio.c:150-163`) the result of the wait overwrites that of the start, so a
  refused start is forgotten. A card that does not answer CMD8, of version 1 or
  because the command was lost, is taken for the kind of the card before it
  (`bsp_sdio.c:776`): after one of high capacity every address is then 512 times too
  small. This is what `AddressUnit` leaves open; without `answered` it fails.
  `MayFail` with CMD12 breaks `TransferClosed`, with CMD24 `OperationsEnd`. A caller
  that does not wait after a failed CMD18 or CMD25 leaves the card in its data state.
  `disk_read` and `disk_write` (`diskio.c:127`, `:177`) never wait at all, and
  return a variable nobody set.
- DHCP. If the garbage in `old_i` happens to equal the first reading of the PHY,
  the link-up is never seen. `ETH_LINK_FLAG` (0x10 of the low byte of `PHY_SR`) is
  the full-duplex bit, so that a change of mode calls `LwIP_ETH_Connect` twice in a
  row: `dhcp_start` then clears a client that is bound, and the address stays with
  no lease timer until a new one is bound. `AddressTimed` makes one exception:
  `dhcp_release_and_stop` takes the address away (`dhcp.c:1371`) before it switches the
  client off (`dhcp.c:1380`), and the tcpip thread, which preempts the link task
  anywhere, may bind in between: one ACK to a renewal is enough, and the interface
  keeps an address without a lease timer until the next bind, which
  `LinkGetsAddress` promises. As an invariant of `DhcpLink.cfg`, `StoppedUnaddressed`
  shows it: a client that was stopped has an address, against `dhcp.c:1370`.
  After a NAK the clocks of the old lease go on, so that a client may rebind without
  an address. A start that fails for want of memory is not
  tried again until the link changes. The correction for leases under a minute
  (`dhcp.c:1097-1100`) sets a field nothing reads, and an infinite lease keeps the
  `t0_timeout` of the one before.

### Fairness

- `MqttClient!FairSpec`: the timer list and TCP's polls are served (the tcpip
  thread never blocks in the client), TCP ends a handshake or gives up, a peer's
  TCP acknowledges what it can. Nothing is assumed of the application or of the
  broker. `PromptSpec` has no fairness: it restricts the timer to fire only when
  peers have caught up, which is the healthy connection `TimerKeepsHealthy` is about.
- `EthRx!FairSpec`: the DMA works, the interrupt is taken, the task of the highest
  priority runs. Frames need not arrive.
- `EthTx!FairSpec`: the DMA works, and a task goes on when it may: weak fairness,
  as tasks of higher priority make a bounded number of calls. Calls need not be made.

- `MempPools!FairSpec`: weak fairness of each task, which time slices give to ready
  tasks of one priority. Frames need not arrive.
- `SdTransfer!FairSpec`: the task goes on with what it began, interrupts are taken,
  SDIO, DMA and the card do their work or report an error. Operations need not begin.
- `DhcpLink!FairSpec`: weak fairness of the link task and of both DHCP timers; and
  strong fairness of what only the environment grants again and again: a timer
  that finds a pbuf for its DISCOVER, or for its REQUEST, and a server that
  answers either. Without the first memory could be short for ever, without the
  second the server silent.

## 5. Proofs

All are theorems of the form `Spec => []...`, and one refinement, for all values
of the constants that satisfy the module's assumption and the hypotheses named here.

**MqttClient_proofs** (`ClientConstants`: any positive limits of ring, queue and send
buffer, at least two identifiers, a broker that gives no two publishes in flight
one identifier). `TypeCorrect`, `TimerUnique`, `ClockExact`, `NoRequestOrphaned`,
`ConnectIsFirst`, `NullNeverUsed`, `KeepAliveWorks`. None of the first six properties is
inductive: whether
the clock is right depends on what the callback of an expired request did to the
queue, that on whether the queue holds just the pending requests, that on the
state, the pcb and what was sent. `IInv` therefore joins them:

- `Core`: types; a pcb exactly while connected; the queue holds the pending
  requests, each once; room in queue and ring; CONNECT first; and `Clock`, that the
  differences up to an entry and its age make the full time-out. `Core` holds between
  any two functions of a handler, not only between handlers, and so its clock is
  parameterised by the seconds the expiry loop has still to subtract.
- `Data`, `Hand`, `Timed` hold when a handler has ended: a client without
  `data_cb` has asked for no publish and none is on its way; until the broker has
  accepted, what it sent begins with its CONNACK; the interval timer runs just while
  the client does its handshake or is connected.

Each C function has a lemma, for every client that satisfies `Core`, and each loop
one that carries the invariant over a turn, in which callbacks may have closed the
connection and opened another. That the loops are defined at all is proved once
(`LoopExists`). `TimerUnique` and `NullNeverUsed` need that no request callback
disconnects (`OnRequestFail = "ignore"`, as in `Ali_iot.c`); `MqttTwoTimers` shows the
first to fail otherwise, and section 4 the second.

`KeepAliveWorks` states `TimerKeepsHealthy` for every `keep_alive` that suits the
interval: `PingInTime`, which any period of four intervals satisfies (`LongPeriod`),
and of the shorter ones those for which `MqttKeepAlive.cfg` passes (section 4).
`KeepInv` adds to `IInv` that on a connection `cyclic_tick` is not past the period,
and that `server_watchdog` counts no more than `cyclic_tick` unless something waits in
the ring or for an acknowledgement: whatever arrives or is acknowledged resets the
watchdog, and what a prompt peer has not answered keeps it excused only until the
timer's next turn. A step that both the timer and another handler could make is
excluded by the counters they leave (`NotBoth`).

**MqttClientSession_proofs**. `OkIsServed` and `SessionImplemented`, which is the
refinement of `MqttSession`. The invariant adds to `IInv` what ties an answer to
its request: `Asked` says that every message on its way with an identifier belongs
to the request of that number, that what the broker answered it has served, and that
requests were numbered by identifiers; `Unended` that one not yet made has no
result. A handler may make several steps of the abstract session at once when
callbacks close and reopen, so `Edge` describes which pairs of clients one abstract
step relates, and the lemmas chain the functions of a handler into one edge. The
hypothesis is `IdsLast`: a connection makes fewer requests than there are
identifiers (65535 in the code). The run `MqttKeepAlive` checks `OkMeansServed`
without it, with identifiers that wrap while requests are pending.

**MqttRingBuf_proofs** (`RingConstants`: the ring has at least two bytes and its
size fits `u16_t`). `RingTypeCorrect`, `RingDelivers`, `RingLosesByExactFill`.
The inductive invariant is the conjunction of the three properties: what a
message does to the ring depends on `mqtt_ringbuf_len` being right before it.
Lemmas give the arithmetic of going round (`WrapTwice`, `DistanceAfterPut`,
`PlaceOfByte`), and each operation has one lemma.

**EthRx_proofs** (`EthConstants`: at least two descriptors). `EthRxTypeCorrect`,
`OwnershipSplitsRing`, `FramesInOrder`, `ReceptionNeverStops`. `RingWindow` is not
inductive alone: `Working` says what the task's variables mean at each place,
`Segments` that the task's descriptors are the oldest held and that a first
segment is followed by its last, `Passing` orders the frame in the task's hands
after those passed on. `Awake`, for the last theorem, says who knows of a full
ring (a pending interrupt, the semaphore, or the task at work) and of a suspended
DMA. The window, order and progress properties hold until a descriptor at NULL
is given back (`nullWrite`), as their definitions say. Without frames longer than
a buffer that never happens.

**EthTx_proofs** (`EthTxConstants`: the tasks' priorities differ; at least one
descriptor). `TransmitExclusion`, `TransmitOrder`, `TransmissionNeverStops`,
`EthTxTypeCorrect`. The strengthening for exclusion is `Locked`: whoever is past
the test of `xTxSemaphore` has a higher priority than anyone who is still to
create another, so a semaphore is overwritten only when nobody uses the old one
(`CreatesAlone`). In the build the tcpip thread has priority 4 and the link
monitor 2, which is what the assumption asks for; an application task of priority
4 that transmits before the first frame was sent would violate it. `Prepared`
carries the copied frame from the copy to the OWN bit.

**MempPools_proofs** (`MempConstants`: any pool sizes, frames and queue).
`TypeOKHolds`, `HandedOutOnceHolds`, `FreedByOwnerHolds`, `FrameWholeHolds`,
`NothingLostHolds`. `Local` says what each
task's place says of its variables, also past an overlap. Up to an overlap, the
heads of lists are free, chains and elements in hand belong to who has them,
messages in the mailbox carry chains of their own, and a link leads to an
element of the same holder; a word just loaded still equals the word in memory,
because only the task inside a pool changes it. That last part is what an
overlap destroys. The last two theorems are about paths. `Walk` is the least
set that holds an element and is closed under links; `Whole` says that every element
not in a task's hands is a head, posted, or linked from another (`Covered`), and that
links go up in some ranking (`Acyclic`). Going back from an element then ends, by
well-foundedness, at a head, and that is the head of its own list or chain, for a
link leads to an element of the same holder (`Rooted`). The ranking is the witness
each load and store has to preserve.

**SdTransfer_proofs** (`SdConstants`). `TypeOKHolds`, `OkMeansMovedHolds`,
`BufferReleasedHolds`, on the assumption that DMA does not underrun or single-block
writes are not used; `TransferClosedHolds`, on the assumption that CMD12 itself does
not fail, which the driver sends once and never again; and, with no assumption,
`AddressUnitHolds`. The invariant `Outcome` says
that between the enabling of the data path and the result a transfer goes on, is
complete, or has an error that is known or about to be (`Failed`); `Masked` and
`Flags` say why no error can go unseen. That `DMAEndOfTransfer` may be left over
does not matter because the second loop waits for the data path. `OpenInv` says
which places of the task find the card in its data state, and that each leads to
`SD_StopTransfer`.

**DhcpLink_proofs** (`DhcpConstants`; `OneMode`: one mode of the cable). `TypeOKHolds`, `OffAtLinkUpHolds`, `PcbCountedHolds`,
`AddressTimedHolds`. `Steps` relates the place of the link task to whether the
client runs, and which address is left when it is switched off, `Pcbs` says who has the PCB, `Minutes` that a lease is noticed before
its clock passes it.

**Only model-checked**: liveness (`DeadLinkDetected`, `RequestsEnd`,
`FramesReachStack`, `FramesLeave`, `PoolRecovers`, `OperationsEnd`,
`LinkGetsAddress`), which needs fairness and ENABLED.

## 6. Not modelled

- MQTT: bytes of messages and the byte-wise parser; two TCP control blocks at once
  (`mqtt_close` leaves its poll callback on the old one); calls of the client from
  an application task without the core lock (`Ali_Mqtt_Connect` has no caller in
  this commit, the model calls it atomically); malformed messages, whose
  `goto out_disconnect` (`mqtt.c:690`, `724-748`, `774`, `792`, `808`, `823`) closes as
  a close by the peer does; UNSUBSCRIBE, which takes the way of SUBSCRIBE through
  queue and ring and has no caller in the Ali application.
- Ethernet: failed creation of the transmit semaphore; checksum and error bits of
  descriptors; what a write through NULL does.
- Pools: the heap, pbufs of other types, the other pools (UDP and TCP control
  blocks, timeouts), which only one task uses while the system runs, or the link
  task in `DhcpLink`'s steps; what happens once an element has two holders beyond
  the first violation.
- DHCP: options, `dhcp_inform`, AutoIP; `dhcp_reboot` and the state REBOOTING,
  which only `dhcp_network_changed` reaches and `OffAtLinkUpHolds` excludes; a
  change of mode without loss of link, and the race on `dhcp_pcb_refcount` it opens;
  a server whose renewal times differ from the defaults of the client.
- SD card: erase, wide bus, card information, polling mode; `diskio.c` and FatFs.
- `sys_mbox_post`, semaphores, mutexes and threads of `sys_arch.c`: each is one call of
  FreeRTOS, and nothing posts to a mailbox with it while the system runs.
- Boot, RTC, UART, hash and SRAM: register set-up without state of their own.
  EEPROM, bit-banged I2C and cJSON are not in the build of this commit.
- The vendored libraries (CMSIS, StdPeriph, FatFs, FreeRTOS, most of lwIP) are
  more than nine tenths of the repository's lines; they appear as environment where the
  firmware meets them.
