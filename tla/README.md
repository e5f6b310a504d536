# Formal models of the RTK Base firmware

RTK Base runs on an ESP32 with two cores under FreeRTOS. It reads corrections
(RTCM3) and other output from a UM980 GNSS receiver and hands them to two NTRIP
uplinks, a local NTRIP caster with four rovers, and one raw TCP client; a web
server configures, updates and restarts it. This directory holds TLA+ models of the
parts where tasks on both cores meet without locks, of what survives a restart, and
of what the web pages show; the TLC runs that check them; and proofs about all of
them. Paths are relative to `src/main`.

## 1. Inventory

| Component | State | Operations | What makes it correct |
|---|---|---|---|
| Frame pool (`frame_pool.c`) | 56 slots with an atomic count | alloc, set_refs, release | a slot is reused only when nobody needs it; never exhausted; no double release |
| GNSS reader (`gnss_uart.c`), core 1, priority 5 | splitter buffer, console rings | split bytes, publish a frame, post raw chunks, commands | every intact frame is published once; the reader never waits for a consumer |
| NTRIP uplinks (`ntrip_client.c`), core 0 | queue of 16 slots, socket, backoff | connect, send, reconnect, publish | frames in order and unaltered; slots given back; reconnects with bounded delay |
| NTRIP caster (`ntrip_caster.c`), core 0 | queue of 16 slots, four rovers | accept, handshake, forward, close | whole frames to each rover; a slow rover delays nobody |
| TCP bridge (`tcp_server.c`), core 0 | queue of 64 chunks, one client, pending frame, disconnect flag | post, accept, serve, disconnect | a stream of whole chunks; newest data kept; a request does not wait for a later client, and at most one chunk does |
| Wi-Fi station (`wifi.c`, `retry.c`) | connection flags, event bits, reconnect task, attempts | event handlers, reconnect | reconnects after every loss; never disturbs a link; status tells the truth |
| Start-up (`main.c`) | - | starts the services under a running reader; confirms a new image | no damage to the pool; the device comes up unless what was configured is refused |
| Configuration (`nvs_config.c`) | NVS items | load defaults, show, convert and write JSON, reset | what was answered with success is kept; a form sent back changes nothing |
| Web server (`web_server.c`) | HTTP task, one buffer, scheduled restart | configuration, OTA, restart, log, console, command | an interrupted update leaves a device that boots; commands are not torn apart |
| Web log (`log.c`) | pending line, character ring, under a spin lock | append, snapshot | newest kept, in order |
| Console ring (`gnss_uart.c`) | line, two rings that are swapped | push bytes, consume, clear | lines of consecutive bytes; nothing shown twice |
| Reset button (`reset_button.c`) | - | erases the configuration and restarts | defaults after the restart |
| Small parts | - | statistics, SNTP, core dump, utilities | - |

How they interact. The reader calls into the other components: it publishes
validated frames to the queues of the uplinks and the caster (pointers to shared
slots) and posts copies of raw chunks to the TCP bridge. It takes no lock and
never waits. The destination tasks take pointers out of their queues and release
the slots. The web server calls `tcp_server_disconnect_client` and the readers of
diagnostics from its own task. The event loop task runs the Wi-Fi handlers and
steers the reconnect task with `vTaskSuspend` and `vTaskResume`. The HTTP task serves
one request at a time; it reads the rings that the reader and the loggers write, and
shares the receiver's UART with the TCP bridge. A restart, which the web server
schedules, the button or a failed `ESP_ERROR_CHECK` can cause, comes between any two
steps of all others.

What is hard. Reads of shared state that are used later (queue handles, the
client's socket), loops over shared arrays that are not atomic (count, scan,
publish), counters handed over between cores, wake-ups that can come too early,
queues at their limit, errors half-way through a start-up, connections that end
inside a frame, and everything that is written in several steps and may be cut by a
lost connection, a restart or a loss of power. `PROJECT.json` lists
these hazards with their lines and the properties that cover them.

## 2. Plan

Order, the most important behaviour first. The models and most proofs are done.

1. `RtcmFanout`, its abstract specification `FrameDelivery`, the proofs
   `RtcmFanoutProofs`. **Done.**
2. `WifiSta`: station, reconnect task, retry schedule. **Done.**
3. `TcpBridge`: reader, server task, web disconnect. **Done.**
4. `RtcmSplitter`: UART driver, reading in chunks, bytes to frames; the proofs
   `RtcmSplitterProofs`. **Done.**
5. `NtripUplink` and `NtripCaster`, the consumer side of the fan-out, composed in
   `MCNtrip`; the proofs `NtripProofs`. **Done.**
6. `Appliance`: configuration, uploads, start-up and restarts; the proofs
   `ApplianceProofs`. **Done.**
7. `WebText`: console, web log, web commands; the proofs `WebTextProofs`. **Done.**
   Points 6 and 7 are composed in `MCAppliance`.
8. Proofs for the modules of points 2 and 3, `WifiStaProofs` and `TcpBridgeProofs`; and
   that `RtcmFanout` implements `FrameDelivery`, in `RtcmFanoutProofs`. **Done.**
9. Sums over functions (`SumTheorems`), and with them `ReadNeverWaits` and
   `BootDamageBounded`; `LossResetsSplitter`; `FramesFound`; the types of every
   module. **Done.** Every invariant and action property that a passing run checks is now
   a theorem.
10. The safety core of liveness: a number, or several in lexicographic order, that every
    step of a task makes smaller. **Done** for every liveness property that a passing run
    checks; the table is under "What is only model-checked".
11. That the tasks of `NtripUplink` and `NtripCaster` are the destinations that
    `FrameDelivery` and `RtcmFanout` assume. **Done.**

## 3. The models

### RtcmFanout: slots, publication, destinations, start-up

One action is one access to state another task reads or writes. The reader's
program counter `pc` walks through `publish_rtcm_frame`: `count` (handle by
handle, `CountActive`), `scan` (slot by slot, `AllocSlot`, `ScanNext`,
`PoolExhausted`), `copy`, `set_refs`, `send` (`SkipDest`, `SendFrame`,
`QueueFull`) and `drop` (the release for a full queue). The uplinks and the caster
are destinations `1..N` in publication order; the caster is the last. A
destination task is `Receive` and `Release`; between the two it reads the slot.
How it sends is the subject of `NtripUplink` and `NtripCaster`: any number of steps may
pass between the two actions, and `UplinkLetsGo` and the fairness of the caster's task
show that `Release` comes.

`Init` is the state after `app_main`: any set of services has a queue, and behind
each queue a task runs or does not (task creation failed, or the caster left
its start-up early). `BootInit` is the state after `gnss_uart_init` (`main.c:86`):
the reader runs while `BootOpen`, `BootStart`, `BootDeleteCaster` and
`BootCloseCaster` make the queues appear (and disappear) under it.

`FrameDelivery` says by value what the fan-out promises: each accepted frame is
offered to every subscriber; a subscriber that is full misses that frame; all
others get it in order, unaltered. It knows no slots and no counts. The mapping in
`RtcmFanout` (`Delivery`) reads queue contents through the slots, so a slot that is
reused too early shows up as a changed frame.

### WifiSta: station and reconnect task

`handler` is the step of the event loop task in the current handler; `task` and
`suspended` are the reconnect task, which goes on where it stopped when it is
resumed. `vTaskResume` of a task that is not suspended does nothing; a task
suspended in `vTaskDelay` continues at once after a resume. `Delay` is
`retry_delay` with `retry_init(true, 5, 2000, 60000)`. `WifiInit` is the end of
`wifi_init`, where the task is created and suspended while it may already run on
the other core. External: the driver (`link`), which answers an attempt with one
event and may lose a link; the netif (`dhcp`, `lost_timer`), whose handlers see an
event before those of `wifi.c`, whose address may still arrive after the link has
broken, and whose IP-lost timer has ESP-IDF's default setting. `sta_status_task` is
never created, so the calls for it do nothing; station diagnostics, the access
point and scanning are left out.

### TcpBridge: raw stream to one client

`rpc` walks through `post_raw_gnss_data_tcp` (check, send, drop oldest), `spc`
through the server's loop, `wpc` through `tcp_server_disconnect_client`. A chunk is
its number in the UART stream and is sent in `Parts` pieces, so that a send can be
deferred inside a chunk. Sessions are numbered; a descriptor is not: the
`shutdown` of the web request may hit the next client's connection, because lwIP
reuses descriptors. `sent` records the last piece the current client was given.
The server reads the volatile flag twice in a round, with the client's socket (`top`) and,
if that test fails, alone (`again`): a request that comes between the two is dropped with
the client there. `left` and `came` are history: the chunk last read when a client went
and when the next one came. The reader checks for a client and posts later, so a chunk
can be queued after the client has gone and the queue was emptied; the next client gets
it. `StaleDataDropped` says that this is the only one: of the data read before a client
came it is given at most the chunk that was in the reader's hands when the client before
it went.
The error exit deletes the queue under the reader; in the model the chunk is then
lost, while the firmware uses a freed handle or fails an assertion, which is not
followed. One step closes a client (`close`, `client_socket`, pending frame): seen
from the reader and the web server the intermediate states are the same as before.

### RtcmSplitter: bytes to frames

`pc` walks through `task_gnss_reader`: `flush` and `reset` (start-up and the answer to
`UART_FIFO_OVF` and `UART_BUFFER_FULL`; two calls between which interrupts may come),
`wait` (`TakeEvent`), `read` (`ReadChunkOf`) and `push`. One step of `push` is one byte
through `splitter_push_byte`: `Hunt`, `Header`, `BodyByte`, `GoodFrame`, `BadCrc`;
`Replay` and `EndOfReplay` are the two places where `splitter_process_bytes` changes
what it reads. A byte carries its number in the receiver's stream, so a
published frame tells which bytes it was made of. The length field and the checksum
are constants; `MCRtcmSplitter` gives small ones. External: the driver's ring,
the bytes it keeps back when the ring is full (`stash`), and its event queue, which
loses an event when it is full but keeps the bytes.

Three simplifications lose nothing. A byte gets its value when it is read, because
the driver does not look at it. Interrupts during `push` are left out, because the
splitter touches nothing of the driver. Dead values (locals, the chunk, the
replay buffer, the total length outside of a body) are reset.

`Visited` and `FramesIn` are the reference: a search over all bytes read since the
last reset, which goes on behind a frame and otherwise at the next byte.

### NtripUplink: one task per remote caster

`up[u].step` walks through `task_ntrip_uplink`: an attempt with NTRIP 2 (`v2`, `v2 reply`)
and, with a password, one with NTRIP 1 (`v1`, `v1 reply`); the wait before the next; the
two halves of `uplink_set_connected` (`LoadMask`, `StoreMask`), which reads, changes and
writes `connected_mask` without a lock; `Take`, `SendPart`, `SendAgain`, `SendFails`,
`Release`; and the peek that looks for the end of the connection. A frame is its number
and is sent in `Parts` pieces. `link[u]` is the connection as the caster sees it: what it
has answered, whether it has sent more than the task ever reads, whether it has ended.
`raced` remembers whose last change of the mask overlapped another one. Left out:
the length of the wait, counters, the text of requests.

### NtripCaster: one task in rounds

`at` walks through `task_ntrip_server`: `select` (what is readable is remembered in
`readable`, and may be old when it is used), `accept` (`Accept`, `Refuse`, `AcceptNone`),
`service` slot by slot (`ServiceData`, `AcceptRequest`, `RejectRequest`, `ServiceEnd`), then
`receive`, `send` to each slot and `give` until the queue is empty. `FlushPiece` and
`FlushBlocked` are `flush_rover_pending`, `SendPiece`, `SendBlocked` and `SendError` the rest
of `send_frame_to_rover`. Clients connect, send parts of requests or whole ones, and
leave, at any time. `told[s]` is the last piece the client of slot s got; `blocked` the
slots whose socket did not take data since their client came.

`MCNtrip` puts the two side by side. They get the same frames and share no state but the
pool (which is `RtcmFanout`'s), so a behaviour follows one of them and the other
rests; fairness is that of the one that is followed.

### Appliance: what survives a restart

`nvs[i]` is the value of a configuration item as it is read, `may[i]` what a restart can
leave of it: `nvs_set` adds a value, `nvs_commit` settles it, and what a restart did
leave shows when `InitNvs` reads it. Six items stand for the ways values are converted
(`json_get_bool_compat`, `json_get_u32_compat`, strings and secrets with their
placeholder) and for what the start makes of them: which networks there are (`ap`,
`sta`), the access point's authentication (`auth`), the name and addresses of the station
(`host`), the number, pins and format of the UART (`uart`). What is saved is not checked
against what the drivers accept - any number up to 255 is a UART or a pin
(`nvs_config.c:659`) - so one value of each of the last three stands for all that are
refused (`ApRefused`, `StaRefused`, `UartRefused`). `image`,
`ota_state` and `active` are the two firmware slots and otadata; the boot loader with
rollback (`Boot`) is external. `phase` walks through `app_main`; `Aborts` is where an
`ESP_ERROR_CHECK` in it fails. `gnss` is the task of the GNSS reader before its loop, on
the other core: it reads its settings once (`GnssRead`; after an erasure it goes on with
what was in its variables) and aborts when the UART driver refuses them (`GnssAborts`),
at any time while `app_main` goes on. `req` is the request the HTTP task works on, step by step:
`ReceiveConfig`, an item at a time (`SkipItem`, `StoreItem`, `ItemFails`), `Commit` or
`CommitFails`; `FactoryReset`; `BeginFirmware`, `EndFirmware`, `SetBoot`; `BeginWww`,
`EndWww`; the answer that is sent or lost. `PowerLoss`, `EraseInterrupted`, `ButtonReset`
and `DelayedRestart` come between any two of these steps. A request that receives into
the common buffer before it is allocated, or one that opens NVS after its erasure, aborts
(`RequestAborts`); an answer that finds no buffer is an error 500 (`AnswerLost`).
`req.before` is history: the configuration when the document came, as long as the document
says of each item what was shown of it.

A document of the configuration that is cut by the single receive cannot be parsed and
then has no items: it is answered with success and nothing is stored (`whole`). A
faulty image is one that starts and does not come to its confirmation.

### WebText: what the web pages show

Bytes from the receiver go through `Push` into the line and, when it is complete and
`Interesting`, into the active ring (`Store`). A newline after an empty line changes
nothing (`PushNewline`): after binary bytes, which leave the line empty, text is skipped up
to a likely beginning of a line, whatever newlines come in between. `Consume` swaps the two rings under the
lock, and `CopyChar` copies from the other one without it while bytes go on to come.
`LogVprintf` and `LogChar` are `append_formatted_text`: the task that logs keeps `s_log_mux`
from its first character to its last (`writing`), and `GetLog` takes its snapshot under
the same lock. `CommandCheck`, `SendCommand` and `SendLineEnd` are the web command, between
whose steps a TCP client comes and writes to the same UART (`TcpClientComes`,
`TcpClientWrites`), without the mutex. Escape sequences and carriage returns, which
are stripped, are left out; so is the terminator that a full pending line puts one
byte behind its buffer (`log.c:189`): the byte is taken to be nobody's.

`MCAppliance` composes the two. They share the HTTP task but no state that a property
is about, so once the firmware is up a behaviour goes on with one of them.

## 4. Runs

| Run | Module, cfg | Checks | Instance | Result |
|---|---|---|---|---|
| `fanout_steady` | `MCRtcmFanout`, `RtcmFanout_steady.cfg` | `NoOverwriteInUse`, `PoolNeverExhausted`, `ReaderNeverBlocked`, `CasterLetsGo` | N = 2, depth 1, 5 slots, 1 frame | holds, 29 k states |
| `fanout_delivery` | `MCRtcmFanout`, `RtcmFanout_delivery.cfg` | `TypeOK`, `RefCountExact`, `DeliversByValue` | N = 2, depth 2, 4 slots, 2 frames | holds, 515 k states |
| `fanout_boot` | `MCRtcmFanout`, `RtcmFanout_boot.cfg` | `BootDamageBounded` | N = 2, depth 1, 3 slots, 1 frame | holds, 32 k states |
| `fanout_boot_release` | `MCRtcmFanout`, `RtcmFanout_boot_release.cfg` | `NoDoubleRelease` | start-up, no task fails | **violated** |
| `wifi_sta` | `WifiSta`, `WifiSta.cfg` | `TypeOK`, `OnlyReconnectsWhenDown`, `StatusAgrees`, `BackoffNeverShrinks`, `StaleIpEnds` | queue of 3, counter modulo 14 | holds, 3 k states |
| `wifi_sta_reconnect` | `WifiSta`, `WifiSta_reconnect.cfg` | `ReconnectsAfterLoss` | same | **violated** |
| `tcp_bridge` | `TcpBridge`, `TcpBridge.cfg` | `TypeOK`, `StreamKeepsChunks`, `RequestDoesNotLinger`, `StaleDataDropped` | depth 2, 2 parts, 5 chunks, 2 clients | holds, 998 k states |
| `tcp_newest` | `TcpBridge`, `TcpBridge_newest.cfg` | `NewestPreserved` | same | **violated** |
| `rtcm_splitter` | `MCRtcmSplitter`, `RtcmSplitter.cfg` | `TypeOK`, `FitsBuffer`, `FramesFound`, `BytesUsedOnce`, `LossResetsSplitter`, `ReadNeverWaits`, `ReplayTerminates` | 8 bytes of 3 values, frames of 4 or 5, ring 2, 2 events, chunks of 2 | holds, 2.1 M states |
| `ntrip` | `MCNtrip`, `Ntrip.cfg` | `TypeOK`, `MaskExactWithoutRace`, `FastRoverMissesNothing`, `UplinkStream`, `ClosedPeerNoticed`, `UplinkLetsGo`, `RoverStream`, `RoverServed` | 2 uplinks, 2 connections, 2 frames of 2 parts; 2 rover slots, 3 clients, 2 frames of 3 pieces; queues of 1 | holds, 542 k states |
| `appliance` | `MCAppliance`, `Appliance.cfg` | `TypeOK`, `PromisedConfigKept`, `SameFormChangesNothing`, `FallbackExists`, `ShownIsNewest`, `ConsoleLinesAreRuns`, `CommandWhole`, `ComesUpUnlessDamaged` | 2 requests, 1 loss of power or press; rings of 4 and 5, lines of 3 and 4, 6 events | holds, 1.04 M states |
| `appliance_reachable` | `MCAppliance`, `Appliance_reachable.cfg` | `AccessibleInApMode` | 1 request, no loss | **violated** |

`FramesFound` excludes streams with nested false starts: when a false start fails
inside the replayed bytes of another one, `memcpy` at `gnss_uart.c:373` replaces the
replay buffer, and the part of it that was not looked at yet is gone with any frame it
holds (`2 2 0 2 1 0 0` in the alphabet of `MCRtcmSplitter`: the frame `2 1 0 0` is
lost). The header comment of the file promises complete frames, not all of them, so
this is recorded as a limit and not as a finding. `LossResetsSplitter` excludes losses
whose event is itself lost: the event queue was full, or the overflow came between
`uart_flush_input` and `xQueueReset`.

Five more properties carry a condition, each for something the code really does.
`MaskExactWithoutRace` excludes the uplinks whose last change of the mask overlapped
another: without that it is violated, and the status page then shows a wrong
connection until the next change. `ClosedPeerNoticed` excludes connections with unread
bytes: the peek of one byte sees them instead of the end behind them, until a send
fails. `CommandWhole` excludes TCP clients that came after the check.
`ComesUpUnlessDamaged` excludes a damaged web partition, a refused access point or
station and refused settings of the UART, with which every start aborts. Without any one of
the four it is violated; with them it says that nothing else keeps the device from coming
up. `StaleDataDropped` allows a client the one older chunk described above.
`PromisedConfigKept` says nothing between the erasure of
a factory reset and the restart, when nothing can be read.

### What the violated runs show

* `fanout_boot_release`. The services are started after the reader. A queue that
  appears between the count (`gnss_uart.c:245`) and the publish loop gets a frame it
  was not counted for; the last destination to release it finds the count at zero
  (`frame_pool.c:64`), and the slot may have been given to a new frame before. The
  run lets every task be created, so nothing but the order of `main.c` is needed.
  `fanout_boot` shows that the damage does not grow.
* `wifi_sta_reconnect`. The reconnect task suspends itself after
  `esp_wifi_connect`. A disconnect event handled before that resumes a task that is
  not suspended; it then suspends itself and no further event comes. The trace needs
  the priority-0 task to be delayed between two statements. In the one TLC finds it is
  `app_main` that delays it: the new task has run its first pass up to its own
  `vTaskSuspend` (`wifi.c:207`) when `app_main` suspends it (`wifi.c:525`); the first
  disconnect resumes it there, and it suspends itself.
* `tcp_newest`. `xQueueSend` finds the queue full; the server task on the other
  core drains it; `xQueueReceive` finds nothing to drop; the newest chunk is given
  up. The comment of the function promises the opposite.
* `appliance_reachable`. `wifi_init` reads the access point's authentication mode
  (`wifi.c:484`) and never its password; the driver refuses a protected network with
  an empty password, `ESP_ERROR_CHECK` (`wifi.c:495`) aborts, and so does every start
  after it, with the web server, which could change the mode, still ahead. One request
  for the configuration suffices. `main.c:66` expects the web server to be accessible in
  AP mode whatever happens to the station.

### Bounds and why they are enough

Two destinations suffice for the fan-out's order effects, because a destination meets
only the reader and the shared counts; uplink and caster differ in their start-up
and in fairness only, and both are present. Depths 1 and 2 have full, partly filled and empty queues.
`fanout_steady` uses the smallest pool that the proved bound admits
(`N * (Depth + 1) + 1`), `fanout_delivery` a smaller one, so that allocation also fails
and slots are reused at once; two frame values distinguish an old content from
a new one, and they are symmetric. In `WifiSta` the station has at most two or three
events under way; 14 attempts pass the longest delay (attempt 11) and wrap. In
`TcpBridge` five chunks overflow a queue of two while one is pending and one in hand;
two clients are one that leaves and one that comes after it.

In `RtcmSplitter` seven bytes are the shortest stream that loses a frame to nested
false starts and eight hold two frames; chunks of two end inside headers, bodies and
behind false starts; ring and event queue are small enough to overflow.

In `Ntrip.cfg` two uplinks are what a race on the mask needs, one with a password and
one without; two connections are one that breaks and one that comes after it, on the
same uplink or on both; a queue of one is full while a frame is in hand; two pieces and
one retry end a frame inside. Two rover slots are a slow rover and one that must not
suffer from it, three clients one more than the slots, so that one is refused or comes
after one that left; three pieces make a pending tail of two, which can be cut again.

In `Appliance.cfg` two requests are two uploads over each other, two configurations, or
one of each or the reset of it all after the other, with a loss of power at any step;
each of the six items takes each kind of value, the refused ones among them. What more
requests do is proved. Rings of four and five characters wrap within six
events; a line of three has room for two bytes and a newline and so is cut by
a third byte; a log line of four is cut by its fourth character.

### Fairness

* Reader (`ReaderStep`): alone at the highest priority of core 1; it never blocks in
  `publish_rtcm_frame`.
* `Receive(Caster)`: the caster polls its queue without waiting. Uplinks get no
  such fairness: one that cannot connect never looks at its queue.
* `Release`: between a receive and its release a destination's sends are bounded by
  retries (`ntrip_client.c:371`, `ntrip_caster.c:308`).
* `WifiSta`: tasks are scheduled, an attempt ends in one of two events, a running
  timer expires. Success of an attempt, DHCP answers and losses are never assumed.
* `TcpBridge`: the server task only. Its sockets do not block and its sends give
  up after 40 retries. The reader, clients and the web server may stop at any time.

* `RtcmSplitter`: the reader, as above.
* `NtripUplink` (`UplinkFairness`): each task that can go on does. A task that waits for
  an answer is not among them until there is one: nothing is assumed of the casters,
  because the socket has no receive timeout while it waits.
* `NtripCaster` (`CasterFairness`): its task; `select` has a timeout and sends give up.
  `RoverServed` further needs that the queue becomes empty, which the bound on frames
  gives; with frames faster than four rovers take them a round may last for ever.
* `Appliance` (`StartUp`, `GnssTask`): power stays on or comes back, and neither `app_main`
  nor the reader's task, which has the highest priority of core 1, is starved. No request
  has to come, and none has to end.
* `WebText` has no liveness property and no fairness.

`CHECK_DEADLOCK FALSE` is used where the system may really stop: the bounded inputs are
used up, or the station is stuck as `wifi_sta_reconnect` shows.

## 5. Proofs

### RtcmFanoutProofs

`RtcmFanoutProofs` proves for any number of destinations, any depth, any pool size and
any frames:

| Theorem | Statement |
|---|---|
| `TypeCorrect`, `TypeCorrectDuringBoot` | `TypeOK` from both initial states; the loops stay inside their arrays |
| `RefCountsAreExact` | `Spec => []RefCountExact` |
| `SlotsAreNotOverwritten` | `Spec => []NoOverwriteInUse` |
| `NothingIsReleasedTwice` | `Spec => []NoDoubleRelease` (after start-up; during it the run above is the counterexample) |
| `PoolIsLargeEnough` | `Spec => []PoolNeverExhausted` for `PoolSize > N * (Depth + 1)` |
| `DeliveryCorrect` | `Spec => DeliversByValue`: `RtcmFanout` implements `FrameDelivery` |
| `BootDamageIsBounded` | `BootSpec => []BootDamageBounded` |
| `PublicationIsBounded` | `Spec \/ BootSpec => ReaderAdvances`: a publication is at most `3 * N + PoolSize + 3` steps |
| `SlotsAreGivenBack` | `Spec => SlotsComeNearer`: at most `2 * Depth + 1` steps of a task give back a slot it was sent |

The assumptions are those of `RtcmFanout` (`SizesAssumption`, `NoFrameAssumption`) and,
for `PoolIsLargeEnough`, the size of the pool. The firmware has N = 3, Depth = 16 and 56
slots, and 56 > 51.

The argument. `RefCountExact` is not inductive: a queue that holds a slot twice, or a
destination with a slot both in hand and in its queue, would return two references for
one holder. `IInv` adds what excludes this: start-up is over (`Started`), no queue
repeats a slot and the slot in hand is not in the queue (`QueuesDistinct`), queues keep
their bound (`QueuesBounded`), the slot being published is nowhere it has not been
sent to (`NotYetSent`), only an open queue refuses (`Refused`), and `refs` is the number
of open queues looked at so far (`RefsCounted`). A send then moves a destination
from `Pending` to `Holders`, a drop or a release removes it, and each action changes
one count by the same amount. `NoOverwriteInUse` is part of `IInv`: a slot with count
zero has no holders when `AllocSlot` takes it, and nobody gets it before it is sent.

The scan is not atomic, so `PoolIsLargeEnough` cannot argue about one instant. A second
invariant, `FreeAhead`, says that while the reader scans, some slot at or ahead of its
position is free. It holds at the start by counting (`SomeSlotFree`: at most
`Depth + 1` slots per destination) and is kept because only the reader takes slots
and the others only free them.

The refinement adds to `IInv` what the contents need (`DInv`): the slot under publication
holds the frame, whatever waits or is in a hand has been written, and a slot is only
looked for when somebody is served. `AbstractStep` states the steps of `FrameDelivery` on the
mapped state; `RefinesStep` then finds one for each step of the code: `SetRefs` is the
abstract acceptance, `SendFrame` a delivery, `QueueFull` a miss, `Receive` and `Release` are
taking and finishing, and all others change nothing. That `CopyFrame` changes nothing is
where `NoOverwriteInUse` is used: nobody can see the slot that is overwritten.
`ValuesAppend` and `ValuesTail` say that reading a queue through the slots commutes with
adding to it and taking from it.

During start-up no count can be trusted, so `BootDamageIsBounded` argues about the sum of
all counts. `Damage` is by how much the pointers in circulation exceed it. A receive and a
release change neither or both; only the reader changes the difference. In the middle of a
publication `BootInv` charges it to what may still be sent (`Coming`: the queues the
frame is due to, and those that may yet open) and credits it with the count that is about
to be written; the sum stays below N (`Covered`). A queue that opens behind the reader goes
out of `Coming` without a pointer, one that opens ahead of it takes one that nobody
counted, and each can do so once. While the slot is filled, its old count is at most one,
because late releases only make it smaller.

`PublicationIsBounded` is what is left of `ReaderNeverBlocked` without fairness: `StepsLeft`
is a number, each step of the reader makes it smaller and no step of another task changes
it, so no loop of `publish_rtcm_frame` waits for anybody. `SlotsAreGivenBack` is the same for
`CasterLetsGo`, and for the uplinks: `Distance` is how many receives and releases of its
own a task is away from giving a slot back, each of them makes it smaller, and a send only
adds behind it, because no queue repeats a slot.

### SumTheorems

Sums over functions (`SumFunction` of the community modules) for the counts of slots and
the sizes of events: what a sum becomes when one entry changes (`SumChanges`), is added
(`SumNext`) or is taken from the front (`SumShifted`). The sum is a recursive function over
subsets, and the library's induction rules take an operator as a parameter, which the
provers cannot instantiate. `Induct` does without: instead of a property it takes a set
of numbers that contains 0 and with each number the next. It rests on `Least`, which is the
library's theorem on well-founded relations, for `<` as a set of pairs. The proofs about the
splitter use the same two lemmas.

### RtcmSplitterProofs

For any alphabet, length field, checksum, buffer sizes and chunk size:

| Theorem | Statement |
|---|---|
| `TypeCorrect` | `Spec => []TypeOK` |
| `BufferIsLargeEnough` | `Spec => []FitsBuffer`: the body state never meets a full buffer |
| `NoByteIsUsedTwice` | `Spec => []BytesUsedOnce` |
| `FramesAreFound` | `Spec => []FramesFound`: the published frames are those of the reference search |
| `LossesReset` | `Spec => []LossResetsSplitter` |
| `ReadsAreReady` | `Spec => []ReadNeverWaits` |
| `EveryStepShrinksTheWork` | `Spec => WorkShrinks`: the rest of the chunk, the length of the replay and the rest of the replay get smaller, in this order of weight |

The assumption is `SizesAssumption`; nothing is assumed of `PayloadLen` and `CrcOk`.
`TypeOK` needs two companions: indices stay inside what they index (`Reading`), and the
splitter holds less than a header or less than the announced frame (`Collected`),
from which `FitsBuffer` follows. `BytesUsedOnce` says nothing of bytes that are still
under way, so it is strengthened to `Ordered`: ring and stash are in order, chunk and
replay buffer are in order and before them, and every collected or published byte is
`Ahead` of all that is still to be looked at - the rest of the replay, the chunk from
where it will be resumed, ring and stash. Pushing a byte keeps this because the byte is
ahead of the rest in turn (`NextByte`); a replay keeps it because the replayed bytes
lie between everything published and the place where the chunk is resumed. A nested
replay drops bytes, which breaks no order.

`FramesFound` relates a machine that sees one byte at a time, and some of them again, to a
search over the whole stream, and says so between chunks only. `SearchInv` says it at every
byte. With `Seen` the position the splitter has come to, `Placed` states that what it has
collected is the beginning of a candidate that ends there (`Holds`), that the search comes to
that candidate, with exactly the published frames found on the way (`Following`), and that
what is replayed is the rest of a false start the search has been at, up to where
the chunk is resumed (`Replays`). That the search comes to a place is said without recursion
and without a bound on the stream: the place is in every set that contains the
first one and is closed under the step of the search (`Reaches`). Bytes that come
later do not change a step that has been made, so `Reaches` is kept as the stream grows.
When a replay fails inside another that ends later, `Nested` holds, and stays true.
The other half is about `Search` itself, a table that is filled from the end: by `Induct`,
backwards from the last place, the search from a place is what was found before it and
what the table says of it, so what is reached is what `FramesIn` and `Visited` compute,
and `Nested` is `NestedFalseStarts`.

For `ReadNeverWaits` the sizes of the waiting events are added up (`SumTheorems`): an
interrupt adds to the ring at least what its event announces, a read takes from both.
`LossResetsSplitter` needs more than sums: `InOrder` says of some number b that the
bytes seen so far end with it and either all that waits follows it without a gap
(`NothingLost`) or the gap lies behind the data of the events before an event of loss
(`LossAhead`), which the reader answers with a reset before it comes to it.

### NtripProofs: the uplinks

For any set of uplinks, queue depth, number of pieces, retries, frames and connections:

| Theorem | Statement |
|---|---|
| `UplinkTypeCorrect` | `UplinkSpec => []UplinkTypeOK` |
| `MaskCorrect` | `UplinkSpec => []MaskExactWithoutRace` |
| `StreamCorrect` | `UplinkSpec => UplinkStream` |
| `FramesAreGivenBack` | `UplinkSpec => FramesComeToAnEnd`: phase, pieces and tries left get smaller, in this order of weight |
| `EndsAreNoticed` | `UplinkSpec => EndIsNoticed`: once the peer has ended, stage, pieces and tries left get smaller until the socket is closed |
| `UplinksAreDestinations` | `UplinkSpec => UplinksDoTheirPart`: every step is a publication, `Take` or `Finish` of `FrameDelivery`, or touches neither queues nor hands |

The assumption is `UplinkAssumption`. `UplinkTypeOK` needs that a task that sends has not
sent all (`StepInv`). The mask needs what its loaders remember: two tasks between load
and store are both `raced`, and what a task has loaded is right about every uplink that
is not (`MaskInv`); a store then damages raced bits only. Most steps touch neither
mask nor race and are dealt with at once (`QuietStep`). The stream needs the order of
everything under way (`QueueOk`: queue above the frame in hand and the last one sent) and
agreement between the sending loop and the connection (`PieceOk`: a frame in the middle
of its pieces is the one the connection got last, up to the same piece). A connection
that breaks resets both.

`EndsAreNoticed` has to exclude that a task goes round its loop without looking. `Stage` orders
the steps on the way to the peek, which is the last of them; a frame in between costs pieces and
tries, and both are bounded. A peer that has ended stays ended and sends nothing new
(`EndStays`), and a socket always has a peer that can end (`PeerInv`), so the peek closes the
socket when it comes.

`RtcmFanout` models a destination as a task that takes a slot with empty hands and gives it
back once; that the real loops do so, through their failures and reconnections, is
`UplinksAreDestinations`. It needs that a task at its release has a frame (`HandInv`) and that one
at its queue has none (`StepInv`): otherwise the first would release a slot twice and the second
leak one.

### ApplianceProofs

For any number of requests and losses:

| Theorem | Statement |
|---|---|
| `FallbackCorrect` | `ApplianceSpec => []FallbackExists` |
| `PromiseCorrect` | `ApplianceSpec => []PromisedConfigKept` |
| `FormCorrect` | `ApplianceSpec => []SameFormChangesNothing` |
| `ApplianceTypeCorrect` | `ApplianceSpec => []ApplianceTypeOK` |
| `TypeCorrect` | `MCSpec => []TypeOK`, with the types of `WebText` |
| `StartsSucceed` | `ApplianceSpec => StartProgress`: there is always an image to start, and each step of a start lowers the tries or the steps left |

`FallbackExists` is not inductive, because it does not say which image is running. `BootInv`
adds where the firmware may run from (`RunsFrom`: the slot to boot, or the other one
while a new image waits for its first start), that a running image that came to its
confirmation is good, and that uploads begin only when the running image is
confirmed. An upload then overwrites the slot that nothing depends on. `ConfigInv` adds
to the other two that a promised configuration is certain (`may` has one value for each
item) and complete, that a request that writes has withdrawn the promise
(`PromiseInv`), and that a form that says of each item what was shown has changed none
so far (`FormInv`): the values shown convert back to themselves, and the placeholder
of a secret is skipped.

A start may end in another start: a new image that does not confirm itself is given up, and
the boot loader goes back to the old one; a factory reset leaves a store that stops the
start it happens in. `Tries` weighs these two causes, `StepsLeft` counts the steps of the
present start, those of `app_main` (`PhasesLeft`) and those of the reader's task
(`TaskLeft`), so that it does not matter in which order the two cores take them. In four
cases neither gets smaller: the web image is damaged, or the access point, the station or
the UART is refused its configuration, and `ComesUpUnlessDamaged` excludes just these. That
`gnss` is `refused` with good settings happens only after an erasure, which `Tries` counts.

### WebTextProofs

For rings and lines of any size with `SizesAssumption` (no line fills its ring):

| Theorem | Statement |
|---|---|
| `ShownCorrect` | `TextSpec => []ShownIsNewest` |
| `ConsoleCorrect` | `TextSpec => []ConsoleLinesAreRuns` |
| `CommandCorrect` | `TextSpec => []CommandWhole` |
| `TextTypeCorrect` | `TextSpec => []TextTypeOK` |

The lemmas `RingWritten` and `RingContent` are about rings alone: writing a text to a ring
that holds the newest characters of another leaves it holding the newest of both,
and reading it from its oldest character gives just those. `TextInv` then says that
both rings hold the newest of what was stored, that the ring that is copied is not
the one that is written, and that what was copied is the beginning of what is due
(`AnswerInv`); that the line ends with the last byte received, so that the next one
continues it, and what is stored ends with a newline (`LineInv`); and that a command
under way without a new client has no client (`CommandInv`).

### NtripProofs: the caster

For any number of rover slots, clients and frames, queue depth and pieces per frame:

| Theorem | Statement |
|---|---|
| `CasterTypeCorrect` | `CasterSpec => []CasterTypeOK` |
| `RoversCorrect` | `CasterSpec => RoverStream` |
| `FastRoversCorrect` | `CasterSpec => []FastRoverMissesNothing` |
| `RoversAreServed` | `CasterSpec => WaitingIsServed`: every round ends, and serves each rover that waited at its beginning |
| `CasterIsADestination` | `CasterSpec => CasterDoesItsPart`: as `UplinksAreDestinations`, for the caster's task |

`RoverStream` speaks of the steps that send; `StreamInv` says what a rover may be sent
next. The queue is in order and above the frame in hand (`OrderOk`). What a rover got last
is older than all that waits and, until its turn in the round, than the frame in hand
(`OlderOk`). A pending tail, or a frame the task is in the middle of, continues the last
piece the rover got; otherwise that piece was the end of a frame (`TailOk`). A slot that
the round has passed and whose socket never blocked has all of the frame in hand
(`ReachedOk`), which gives `FastRoverMissesNothing` when the round ends.

`RoversAreServed` has two halves. A round ends: the slots still to be looked at, the frames that
wait, the rovers still to get the frame in hand and what is left for the present one get smaller,
in this order of weight, and only a publication adds a frame. And a round serves:
select sees every rover that waits, what it saw is forgotten only in that slot's turn
(`ServiceInv`), and the turn takes something from what the rover waits for (`Demand`). A rover
may be passed over only because it came after select, which is the next round's business.

`BothTypesCorrect`, `MCSpec => []TypeOK`, joins the two: a behaviour follows one of them, and
the other keeps its initial types.

### WifiStaProofs

With `BoundsAssumption` only, so for any length of the event queue and any modulus of the
attempt counter:

| Theorem | Statement |
|---|---|
| `WifiTypeCorrect` | `Spec => []TypeOK` |
| `ReconnectCorrect` | `Spec => []OnlyReconnectsWhenDown` |
| `StatusCorrect` | `Spec => []StatusAgrees` |
| `BackoffCorrect` | `Spec => BackoffNeverShrinks` |
| `StaleEnds` | `Spec => StaleIsBrief`: while the address bit is set without a link, something is due, and the events still to come, the queue and the handler's rest get smaller, in this order of weight |

`OnlyReconnectsWhenDown` is about the one step in which the task calls
`esp_wifi_connect`; the handlers may suspend or resume it long before. What carries
it there is `OneAttempt`: an attempt is in one place only - the START event, the driver,
a DISCONNECTED event, or the reconnect task that was resumed for it. `LinkOk` and `AddressOk`
say what the events still in the queue make of the flags, so that with none left they are
what the driver and the netif know. `DelayOk` ties the delay to the attempts made; the rest
is the arithmetic of `retry_delay`.

A stale address bit can outlive events that bring new events: a late CONNECTED starts DHCP,
whose answer sets the bit once more, and only the timer that DISCONNECTED arms takes it
back. `Coming` counts how many events this can still be. By `AddressOk` and `LinkOk`, a bit
without a link is never all that is left.

### TcpBridgeProofs

With `SizesAssumption` only:

| Theorem | Statement |
|---|---|
| `BridgeTypeCorrect` | `Spec => []TypeOK` |
| `StreamCorrect` | `Spec => StreamKeepsChunks` |
| `StaleCorrect` | `Spec => StaleDataDropped` |
| `ServerRoundsEnd` | `Spec => RoundsEnd`: every pass of the server's loop ends; a web request is dealt with at its beginning, and a round without a client has found the queue empty |

`ServerOk` ties the place in the loop to the client, its connection and the pending frame;
`QueueOk` is the order of the queue, with the chunk in the reader's hand behind it. `SentOk`
relates what the client got to what is to come: it is `Older` than everything that waits,
and it ends where the pending frame goes on, or with a whole chunk if there is none. Both
tasks may drop from the front of the queue and the reader may post at its end at
any time; `OlderKept` says that none of this brings an old chunk back.

`StaleCorrect` rests on `TimelyOk`: what waits in the queue (but where it is about to be emptied),
what is pending, and what the reader has in hand behind its check was read since the client
came, or is the one chunk in its hands when the client before went. A drain makes it true of the
queue, and the check lets only that one chunk through behind a drain.

The pass of the server is measured by the queue, the way still to go in the loop (`Way`) and the
pieces left of the pending frame, in this order of weight. The queue comes first because the
server may go back in its way only after it has taken a chunk; the reader makes the queue longer,
by one chunk for each that it posts, and changes nothing else.

### What is only model-checked

Liveness under fairness is out of the prover's reach, so these properties stay with TLC, on
the instances of their runs. What carries each of them is proved for every instance: a
measure in the natural numbers that the steps of the task make smaller, and what the steps
of the others may do to it. Left to TLC is that fairness makes the task take its steps, and
the induction over the measure.

| Liveness property | Measure proved in |
|---|---|
| `ReaderNeverBlocked` | `PublicationIsBounded` |
| `CasterLetsGo` | `SlotsAreGivenBack` |
| `StaleIpEnds` | `StaleEnds` |
| `RequestDoesNotLinger` | `ServerRoundsEnd` |
| `ReplayTerminates` | `EveryStepShrinksTheWork` |
| `ClosedPeerNoticed` | `EndsAreNoticed` |
| `UplinkLetsGo` | `FramesAreGivenBack` |
| `RoverServed` | `RoversAreServed` |
| `ComesUpUnlessDamaged` | `StartsSucceed` |

The four violated properties are refuted by their traces.

## 6. Not modelled

The reasons are in `PROJECT.json` under `components`. In short:

* Displayed values without influence on control: stream statistics, counters, status
  JSON, scan results, the number of rovers, heap.
* Thin wrappers over ESP-IDF: core dump, SNTP, utilities; the browser interface.
* Of the configuration, 16- and 32-bit numbers and IP arrays (converted like the 8-bit
  number), and the erasure of the whole partition when the NVS library finds no free
  pages or a new version (`nvs_config.c:418`), which is the library's decision.
* Of Wi-Fi and the UART, the translation of settings into driver calls: of each group one
  value is accepted and one refused. A stored prefix length of 0 or above 32 shifts by the
  width of the mask or more (`wifi.c:377`).
* Starts that fail for want of memory: the mutex of the UART, the reader's task
  (`gnss_uart.c:569`, `:575`), the common buffer of the web server.
* Of the web server, authentication and files. With the hotspot method a request that is
  not authorised aborts while the access point is off (`web_server.c:262`); that is one more
  place for the restarts of `Appliance`. `gnss_uart_console_snapshot` has no
  caller.

The bytes of frames, messages and logs are abstracted to values that can be told apart.
