# TLA+ models of the Sonoff firmware for BK7239N

This directory models the program logic of the repository (the Matter-over-Thread/Wi-Fi plug
firmware under `src/sonoff`, `src/project/onoff_plug` and the Matter overlay in
`src/sonoff_modify`), checks the models with TLC and proves theorems about them with TLAPS.
Modelled are the firmware upgrade (OTA), the Wi-Fi and network managers, the item store with the
factory console and the boot, the relay, and the flash store of Matter.

Paths are relative to the repository root. `PROJECT.json` maps every definition to its lines.

## 1. Inventory

The repository is an application on top of the vendor's SDK: one FreeRTOS image with a dozen tasks.
Its own logic, and what is hard about each part:

| Component | Source | State | Operations | What is hard | What makes it correct |
|---|---|---|---|---|---|
| OTA core | `sonoff/ota/sonoff_ota.c` | one control block (task, queue, mutex, config, parser), one info block (state, sizes, erase position, timeouts) | `snfOtaStart/Write/Apply/Abort`; the worker `otaTask` | API calls of any task against the worker, borrowed buffers, power cuts, flash errors, timeouts | the boot flag is only set over a complete image; flash is erased before written, once; input is handled in order; every session ends |
| OTA flash adapter | `sonoff/ota/sonoff_ota_adapter.c` | the OTA partition, the secure flag | erase, write, read, set boot partition, reboot | range limits, failures half way | part of the core's properties |
| OTA package parser | `sonoff/ota/sonoff_ota_parse.c` | stage, positions, header cache, selected file | `Init`, `Data`, `Finish`, `Free` | input cut anywhere, lengths from the package in 32-bit arithmetic, duplicate targets | the verdict and the payload do not depend on the cuts; positions stay in the partition |
| OTA over HTTP | `sonoff/ota/sonoff_ota_http.c` | the view of the session that the callback writes and the handler polls; one receive buffer | the upload handler (server task), the callback (worker) | deadlines against late callbacks, stale view, lent buffers | the buffer is not refilled while lent; "success" is only answered for a committed upgrade |
| OTA over Matter | `sonoff/ota/sonoff_ota_matter.c`, `.../Beken/OTAImageProcessorImpl.cpp` | the view, `readHeader`, `flash_data_offset`, `mBlock` | prepare, process block, finalize, abort, apply (Matter task), the callback (worker) | as for HTTP, and an abort while a block is lent | as for HTTP |
| Wi-Fi manager | `sonoff/wifi/sonoff_wifi.c`, `sonoff_wifi_adapter.c` | mode, link status, scan flags in two layers, one queue for commands and events | connect, disconnect, AP start/stop, scan; a manager task fed by SDK callbacks | events of an earlier mode handled in a later one; scan-done against scan-start; mode change with rollback; a full queue loses events | both layers' modes agree; what is reported is so, or its correction is on its way |
| Network manager | `sonoff/net/sonoff_net.c`, `sonoff_net_adapter.c` | net state | connect, disconnect, AP; Wi-Fi and address events | three threads write one state without a lock, and after the call that already causes events | a waiting state waits for something that will come; READY means ready |
| NVDM store | `sonoff/nvdm/sonoff_nvdm.c`, `sonoff_nvdm_port.c` | items in flash, item tables | read, write, init check, clean | power cut between delete and default | no item is missing after a boot |
| NVDM configuration items | `sonoff/nvdm/sonoff_nvdm_config.c` | licence, Matter factory data, certificates, key session | get/set of items and groups; encodings of texts | one write of several fails or is cut; buffers and number ranges | a group is never a mixture; what a setter accepts its getter returns |
| HTTP server, CGI | `sonoff/http/sonoff_http.c`, `sonoff_http_cgi.c` | `started`, the task | start, accept loop, routes, toggle, clock | check-then-set start | a ready network gets its server; requests reach their route |
| Main task, entry | `sonoff/main/sonoff_main.c`, `sonoff/entry/*` | event queue; place of the boot | AP_READY starts the server; boot decides between factory and normal mode | licence read item by item while the console already runs; a reply that counts for a time | the mode fits the licence and the reply |
| Plug and Matter on/off | `project/onoff_plug/...` | GPIO, stored state | toggle, attribute change, start-up report | relay and store are two writes, two tasks set them | they agree at rest |
| CLI / AT | `sonoff/cli/sonoff_cli.c` | the command in progress | commands that write items, over the other components | a command is a list of writes, cut anywhere | as for the items |
| Matter flash store | `sonoff_modify/adapter_modify/matter/flash_namespace_value.c` | tables of namespaces and names, data sectors | write, read, clean, clear, erase, compaction | power cuts between any two flash operations; NOR flash | an entry has one place; other names keep their values |
| OTA build tools | `build_tool/ota/pack_ota.py` | none | lays out and encrypts a package | 32-bit offsets | the device accepts what it packs |
| Utilities, net test, rest of the SDK overlay | `sonoff/utils`, `sonoff/net/sonoff_net_test.c`, `sonoff_modify` | none relevant | pure computation, I/O, vendor code | | (not modelled) |

How they interact: the CLI, the HTTP CGI and the Matter callbacks call into the plug, NVDM and
network components; SDK callbacks post events to the Wi-Fi manager's task, which calls the network
manager back, which posts to the main task, which starts the HTTP server.  The HTTP server's
task and the Matter task are the two channels that feed the OTA core; the core's worker calls the
channel that started the session back, and both sides share nothing else but that view and the buffer
that is lent.

`PROJECT.json` lists every hazard with the line where it bites and the properties that cover it.

## 2. The modules

```
OtaSession                      the contract of sonoff_ota.h
   ^ implements
OtaCore          <- OtaCoreProofs            core, worker, flash, power
   ^ extends                \
OtaChannels                  \               views and callbacks, common to both channels
   ^ extends                  \
OtaHttp, OtaMatter             \             the two channels' tasks
   ^ extends                    \
OtaSystem        <- OtaSystemProofs          everything interleaved

OtaParse         <- OtaParseProofs           the package parser by itself
   ^ extends
OtaPack                                      the tool that makes packages
   ^ extends
MCOtaParse       -- OtaHttpHeader            packages for TLC; the upload's request header

OtaStart         <- OtaStartProofs           begin and end of a session, access by access

WifiAdapter                                  radio sides, links, scans; the SDK's events
   ^ extends
WifiManager                                  one queue and one task over it
   ^ extends
NetManager       <- NetManagerProofs         network state, main task, server start
   ^ extends
MCNetManager     -- HttpCgi                  bounds for TLC; routes and clock

Nvdm                                         items in flash, lists of writes, default check
   ^ extends               ^ extends
NvdmConfig                 Plug              groups of items, key session; the relay
   ^ extends               /
Cli                       /                  the console's commands
   ^ extends             /
Device  ---------<- DeviceProofs             the boot, power cuts, everything interleaved
   ^ extends
MCDevice         -- NvdmText                 bounds for TLC; the items' texts

MatterStore                                  the contract of the Matter flash store
   ^ implements
MatterFlash      <- MatterFlashProofs        the store, flash operation by flash operation
   ^ extends           ^ extends
MCMatterFlash        MatterContractProofs    names and values for TLC; the contract's proof

Text                                         numbers in texts, used by OtaHttpHeader and NvdmText
```

**OtaCore** is `sonoff_ota.c` with the adapter, and the parser by its effect (its stages are OtaParse).

* `task` is the place of the worker: `none` (no `task_handle`), `receive` (in `xQueueReceive`),
  `timeout` (it ran out, `otaHandleTimeout` not yet run), `data` (in `otaHandleData`), `notify`
  (state set, callback not yet returned), `boot` (about to call `snfOtaAdapterSetBootPartition`),
  `reboot`, `exit` (loop left, session not yet cleared).
* `Start`, `Write`, `Apply`, `Abort` are the API calls that succeed; a call that returns an error
  changes nothing and is no step.  Each runs under the mutex.  The worker writes `state` without it,
  but a call that reads `RECEIVING` or `VERIFY_SUCCESS` just before the worker changes it can be
  placed before that change: the call then only appends to the queue and moves `queued`, neither of
  which the worker touches between.  So a call is one action.
* The worker's handlers are split at every point where another task or a power cut can be seen:
  `Receive` with `TakeData/TakeApply/TakeAbort`, `Parse`, `EraseSector` (one sector each), `WriteFlash`,
  `DataDone` (which includes the verdict), `Callback`, `ReceiveTimeout` and `HandleTimeout`,
  `SetBootPartition`, `Exit`, `Reboot`; `ParseFails` and `FlashFails` are the error returns.
* The queue's send takes no time to wait (`xQueueSend(..., 0)`): a full queue is an error return.
* A flash cell is `stale` (not of this session), `erased` or `fresh` (written by it).  Data carries no
  values: the order of offsets tells whether the right part is in the right place.
* The layout of a package (where the selected file's plain data lies in the input) is fixed when the
  session starts, unknown to the core; the parser cuts pieces of any length up to the next boundary,
  may fail anywhere, and gives any verdict at the end.
* `PowerCycle` is possible at any time: RAM is lost, the boot loader consumes the confirm flag.

**OtaSession** is what `sonoff_ota.h` promises a caller, with no queue, worker or flash; `KeepsContract`
is the refinement, `phase` being the state, `progress` the processed length, `staged` that the image
is in the partition and `confirmed` the boot flag.

**OtaChannels**, **OtaHttp**, **OtaMatter** put the two channels on the core.  `view` is
`http_ota_state`/`matter_ota_state`; the callback runs inside the worker: `TellState` and
`TellReceived`, then for a verified image `Submit`, which is `snfOtaApply` from the callback, and
`Return`.  State and length are stored and read without a lock, so each store and each read is an
action of its own: the callback's (sonoff_ota_http.c:406 and 409), the reset before a session (494 and
495), the wait's (319 and 321), and the same of Matter.  Deadlines have no clock: a wait that may end
by its deadline may end at any time, and a wait whose end changes nothing (for an abort) is no step of
its own.

The separate stores have a consequence that `HttpBufferStable` names.  An upload's wait for a write
runs into its deadline, the abort it asks for is not done in time either, and the next request comes
while the worker tells the old session's end.  The callback stores `ABORT` (406), the handler resets
state and length (494, 495), the callback stores the old length (409).  The session is cleared and
`snfOtaStart` succeeds, over a view that says `RECEIVING` with the old length; the wait returns at
once and the next piece is received while the worker still holds the last.  The same length is left
when the whole callback comes after the reset; then `FAILED` is left with it, which the new session's
first store of a state takes away.  `outdated` is a history variable that marks exactly these uploads:
`HttpStart` sets it when the core accepts a session while the view's length is not 0.  The property
holds for all others.

The owner of a queued block (`owner`) is not in
the code's event: it names the lender whose memory the pointer is into.  The Matter SDK is outside the
repository; it appears as the order of its calls (prepare; blocks or end; abort or finalize), ending a
failed download with an abort.

**OtaSystem** interleaves the worker, the HTTP server's task and the Matter task.

**OtaParse** is `sonoff_ota_parse.c`: `stage` and the other variables are the members of
`SnfOtaParseContext`, `ParseInit`, `ParseData`, `ParseFinish` and `ParseFree` the four functions, and
`HandlePackage` gives `ParseData` the next block, as `otaHandlePackage` does until `input` is used up.

* A package is what its bytes say: its length, the cipher, whether the header's own checks pass, a
  table of files (own checks pass, has the wanted name, offset, size), whether tag and checksum match.
  Block boundaries are chosen freely, so a header may be cut anywhere.
* `Add` and `Sub` are `uint32_t` arithmetic (`% Word`).  The range checks of `otaSelectFile` are
  written to avoid a sum that wraps; a mutant of `InPackage` that computes the sum is caught.
* `file` is the selected file's range; `summed` is how much of the file `file_crc` covers, and the
  checksum matches when that is all of it and the package's checksum is right.
* The error codes are told apart only as far as it matters who is to blame: `INVALID` is the
  package's, `DECRYPT_FAILED` may also be want of memory (`GcmIv`, `ParseImage` may always fail so).
* The reference (`TableGood`, `Valid`, `Plain`) looks at the whole package at once, with integers that
  do not wrap.  `VerdictIsReference` and `PiecesFollowLayout` compare the parser with it.  The latter
  is what OtaCore's `Parse` supposes: a call never crosses a boundary of the file's data, and what it
  gives out lies at the input's position less the start of that data.  The link between the two
  modules is by this correspondence, not by a refinement.

**OtaStart** is `snfOtaStart` and the end of `otaTask` again, at the grain of their accesses to
`ota_control` (`mutex`, `task_handle`, `event_queue`), where OtaCore takes each for one step.  `at` is
where each caller and each task stands; a mutex is named by the caller that made it, since each makes
one at most.  `Lock` looks the handle up, `Take` waits for the mutex that was found then, `Unlock`
gives back the one found at that time.  `Early` are the callers that may come before there is a mutex:
with one of them everything holds that OtaCore takes for granted, with two it does not.  When
`xSemaphoreGive` is called by another than the holder the model has it succeed, as a FreeRTOS without
assertions does; the finding's trace ends before that.

**WifiAdapter**, **WifiManager** and **NetManager** are one stack, each extending the one below.

* `adapter` is `adapter_state` and `wifi` is `wifi_manage_state`; `radio` is what the SDK really does.
  `SetMode` is `snfWifiAdapterSetMode` with all its failures and its rollback; it is one action
  because only the manager's task calls it.  `events` are raised by the SDK and handled in order by
  its event thread (`TakeEvent`).
* The manager's task is cut (`wifi_step`) where another thread can come between: after the adapter's
  mode has changed, between the start of a scan and the flag, and before each callback.
* `net` is written by three threads, the caller's, the Wi-Fi task's and the event thread's.  Each first
  compares (`Tells`) and then assigns (`Write`), as `snfNetNotifyState` does without a lock; hence
  docs/network_wifi.md:77, by which an equal state is not told twice, does not hold between threads.
* `Ask` queues a command, `Answer` tells the state it stands for afterwards, in the order of the code.
* Nobody in the repository calls `snfNet*` requests yet; they are modelled as their header offers them.
  The console calls `snfWifi*` past the network manager (`CliUsed`), which
  `SONOFF_DISABLE_LOG_RX` switches off in normal mode.  `AP_STA` is never asked for, and the adapter's
  `Deinit` never called.
* `http` is `started`, which is set before the task is created and taken back when that fails.

**Nvdm**, **NvdmConfig**, **Cli**, **Plug** and **Device** are the device between power cuts.  Writing
one item is atomic, as EasyFlash (external) promises; every command is a `plan`, a list of such
writes, and the console's task carries it out one at a time.  A value is not its text but the frame or
input it came from, so that a group that is mixed from two can be told.  `entry` is where `sonoffEntry`
stands; `CheckLicence` reads the licence item by item, while the console already takes commands.
`SnfNvdmWrite` is `sonoff nvdm write`: it puts any text into any registered item and goes around the
business checks (docs/nvdm.md:202), so one such write can make a licence of five valid items from two
frames, or leave the certificates of two packages.  The history `bypassed` names the items this command
wrote last; they, and no others, are excepted from `LicenceWhole` and `CertNotMixed`.  `disturbed` and
`excused` become true with any change the console makes to the licence or to `plug.onoff`.
`PowerCut` leaves `flash`.  `DisableLogRx = FALSE` lets the console go on in normal mode, which
includes what the shipped build can do.

**MatterFlash** is `flash_namespace_value.c`.  A call decides by reading flash, then issues flash
operations: `todo` is that list, one is carried out at a time, power may fail in between
(`PowerCut`).  The two loops that plan are functions of the number of their turns (`Packing`, `WriteBack`).
A cell written twice without an erase becomes `Mixed`, as in NOR flash.  Any of the four functions
that allocate may fail to (`Failures`).  The two setters then fail; a lookup answers as if there were
nothing (`SlotsFound`, `EntriesFound`; lines 123 and 205), so `bk_clean_data` and `bK_clear_namespace`
do nothing, and so does `bK_clear_namespace` when it has no memory for its own copy, but `bk_write_data`
and `bk_ensure_namespace` go on and make what is there a second time: `doubled` remembers the names and
namespaces this befell, whose first match may from then on be the older one.  `bk_read_data` and
`bk_ensure_name_data` change nothing and are no steps.  **MatterStore** says what a caller may rely on,
and lists six weaknesses of the promise, each of which is the code's; the last is that a write or an
ensure of what is already there may give up the promise altogether.

**OtaPack**, **OtaHttpHeader**, **NvdmText**, **HttpCgi** and **Text** are pure algorithms: the layout
`pack_ota.py` writes, the request header of an upload, what setters accept and getters return, which
route serves a request, and the clock of the page.  They have no state; the modules that instantiate
them for TLC compare them, as named assumptions TLC evaluates, with a definition that says what is
wanted and not how it is computed.

## 3. The runs

| Run | Shows |
|---|---|
| `ota_core` | 34 325 states: type, the inductive invariant `CoreInv`, the boot flag only over a complete image (`ConfirmedIsComplete`), flash erased before it is written and written once (`NoDirtyWrite`), accepted data never refused later (`QueuedInOrder`), the contract (`KeepsContract`), and that receiving always ends (`ReceivingEnds`) |
| `ota_parse` | 122 599 states: for every package and cut, the verdict is the reference's (`VerdictIsReference`), each call gives out the right data for the right place (`PiecesFollowLayout`) and consumes something (`EveryCallConsumes`); the inductive invariant `ParseInv`.  Evaluated with it: what `pack_ota.py` packs is valid (`PackedIsValid`), and the upload's header is found however it is cut (`PiecesDoNotMatter`) and its length read exactly, from one line only (`LengthsAreExact`, `OneLineSaysTheLength`) |
| `ota_start` | 1 084 states: sessions exclude each other (`OneTask`), a queue is there exactly with a task (`QueueOfTask`), every path gives the mutex back (`MutexComesBack`); the inductive invariant `StartInv` |
| `ota_system` | 1.5 million states: `HttpBufferStable`, `SuccessIsCommitted`, `VerifiedIsDriven`, and `SessionEnds`: whatever the channels do, the worker ends and the next start is possible |
| `wifi_net` | 3 387 146 states: the sides of the radio follow the mode through every failure and rollback (`SidesFollowMode`), both layers agree on it (`ModesAgree`); what is believed of link and scan is so or its correction is under way (`LinkHonest`, `ScanHonest`); an awaited AP comes or its failure is known (`ApAwaited`); a ready AP starts the server (`ServerCalled`).  Evaluated with it: `RequestsReachTheirRoute`, `DaysFollow`, `ClockFollowsTicks` |
| `matter_kvs` | 1 854 070 states: the Matter flash store implements its contract across power cuts, until a lookup without memory has something made twice (`KeepsContract`); a name is in use once and a namespace has one slot, but for what was made twice (`OnePlace`); no two entries share a cell (`EntriesApart`) |
| `factory_device` | 2 791 080 states: a valid licence is one frame's (`LicenceWhole`); the boot's mode and address fit it (`BootFitsLicence`) and a reply taken is honoured (`ReplyHonoured`); certificates are mixed only by two failures (`CertNotMixed`), both but for items the generic write wrote last; a key decrypts first with its own peer (`KeyUsedOnce`); no item is missing after a boot (`NothingMissing`); at rest the relay is as stored (`RelayIsStored`).  Evaluated with it: what the setters accept the getters return (`AcceptedReadsBack`, with its exception `ZerosInFrontCount`), nothing else is read (`NothingElseIsRead`), and five more on codes, addresses and certificates |
| `ota_matter_write` | finding: `snfOtaMatterWrite` returns 0 for the last block of an image that failed its verification |
| `ota_matter_block` | finding: `HandleAbort` frees the block although the core still holds it |
| `ota_start_first` | finding: two first starts at once both succeed |
| `ota_lender` | finding: a stalled HTTP upload's data is accepted into Matter's session |
| `net_ap_stop` | finding: an AP start and an AP stop queued behind each other leave the manager in AP_READY without an AP |

Bounds.  `ota_core`: sectors of 2 in a partition of 4, images of 3 and 4, so that pieces start and end
inside sectors, fill the partition, or are refused; packages with every layout of header, file and
trailer that fits; queue of 3 (a data block, its successor, and an abort or apply); two timeouts in a
row.  One channel is enough there: the core never compares channels.  `ota_system`: an image of two
blocks and one unit each, so there is a first and a last block; a queue of 2, which the channels can
fill (the code's length is larger, but every abort whose wait times out leaves an event behind, so it
fills there too, only later); one timeout; a buffer and a header's remainder of one unit each, so that an
upload's data comes with its header, after it, or both.  The states of `ota_system` are finite without any
constraint.  `ota_parse`: words of 4 bits, so that offset and size of a file can wrap; a header of one
unit and rows and IVs of two, so that the latter are cut; a decryption buffer of one unit, so that an
encrypted image of two takes two calls; a partition of two units.  One-file packages have every mix of
bad header, bad row, wrong name, tag and checksum, a start in the table, right behind it, behind a gap
and at the end of the package, and sizes from nothing through exactly IV and tag to too large and
wrapping; two-file packages have none, one or two targets, gaps, overlaps and tails.
`ota_start`: the two channels as callers and memory for two tasks, so that a session may begin while
the task of the one before is still leaving.

`wifi_net`: three requests, so that a start, a stop and a third that finds either half done can meet; a
queue of two (the code has more), which they and the SDK's events fill, so that refused commands and
lost events both happen; one event of the SDK waiting when it raises another, besides those a stop
raises; a main queue of one, which makes the threads wait for it.  `matter_kvs`: one namespace slot
for two namespaces would never hold both, so there are two; fewer name slots and cells than the calls
can fill, so that compaction is needed and may itself find no room; two names, values of different
lengths; one mishap, which is a cut or a call that makes something twice, since what is kept after one
(with any later calls) is what a second would meet again; one allocation that fails in a call, any of
the four in turn and as often as calls are made (one that only makes its call fail is no mishap).  That
both lookups of a write fail is left to the theorems.  `DataBuffer` is as long as the longest value, as `data_buf` must be.
`factory_device`: two values, interchangeable (symmetry); one failed write and one cut, which may meet in
one command; three commands, so that a group is written, written over and deleted; one group of
commands in a behaviour, because the groups touch disjoint items, or half a group and with it `sonoff
nvdm write` for an item of that group (the address, the first and the last of the certificates, the
serial number, the relay's state).  What that write does to another group's item is what the group's own
behaviours show, and what it does besides the other half of a group is left to the theorems (a licence
written over by AT+LICENSE_WRITE after an item of it was typed, for instance): they know no such limit.

The pure algorithms are evaluated over all texts of a small alphabet with a character of each class, up
to one longer than the longest legal one, with a small largest number (so that it is overrun) and a
small buffer; the certificates' lengths are the real ones.  `ZerosInFrontCount` records what the code
does against docs/factory_at_commands.md:265, which allows a passcode ten characters at most: the
setter bounds the value and not the length, so a text with more zeros in front is accepted and its
last digits do not fit the getter's buffer.

Deadlock is checked in the runs of the OTA and of the Matter store.  `wifi_net`, `net_ap_stop` and
`factory_device` say `CHECK_DEADLOCK FALSE`: their systems really may come to rest, when the requests,
commands and cuts of a behaviour are used up and nothing is under way.

Fairness is weak fairness of the worker's next step alone (`WF(Worker)`, `WF(SystemWorker)`): it is a
ready FreeRTOS task whose only wait, `xQueueReceive`, has a timeout (`SNF_OTA_DATA_TIMEOUT_MS`).
Nothing is assumed of callers, channels, peers or the Matter SDK: they may stall for ever.  In
`ota_start` a process that is inside `snfOtaStart` or the end of `otaTask` runs on (weak fairness of
its own steps); that it ever gets a contended mutex is not assumed.  The other runs check safety only
and assume nothing.

## 4. What is proved

`OtaCoreProofs` (from `CoreAssumption` only: sizes are positive, `NoChannel` is no channel):

* `TypeCorrect`, `CoreInvariant`: `Spec => []TypeOK`, `Spec => []CoreInv`.
* `BootIsSafe`, `WritesAreClean`, `StreamIsInOrder`: the three safety properties, from `CoreInv`.
* `CoreKeepsContract`: `Spec => Session!Spec`, by a step-to-step simulation under `CoreInv`.

None of the safety properties is inductive.  `CoreInv` adds what they need: `PlaceInv` (the worker's
place and the state agree), `CountInv` (received <= queued <= total, no APPLY event before a verdict,
no data after it), `StreamInv` (the data events are consecutive intervals from what has been consumed
to `queued`), `LayoutInv` (the file fits input and partition) and `FlashInv` (fresh up to the write
position, erased up to the erase position, stale beyond).  `BootIsSafe`, for instance, needs that an
APPLY event implies a verdict (`CountInv`), that a verdict implies a complete file (`FlashInv`), and
that no data event is left that could be handled after it (`CountInv`, from `StreamInv`).

`OtaSystemProofs` (with the constants' assumptions of the channels):

* `SystemTypeCorrect`, and `SystemRunsCore`: `SystemSpec => Spec`, so all theorems above hold of the
  composed system; the steps of the channels that call the API are API steps.
* `VerifiedMovesOn` (`VerifiedIsDriven`) and `SuccessIsHonest` (`SuccessIsCommitted`).

`OtaParseProofs` (from `ParseAssumption`: sizes are positive, and a table, whose length is at most
24 + 76 * 255, does not wrap), for packages with any number of files:

* `ParseInvariant` (`Spec => []ParseInv`), `ParseTypeCorrect`, and `ParserVerdict`: a pass means a
  valid package, `INVALID` or a failed finish means an invalid one.
* `PiecesAreRight` (`PiecesFollowLayout`) and `CallsConsume` (`EveryCallConsumes`).

`ParseInv` says of each stage where `offset` stands and what is known by then: while the table is read
(`InTable`), that the rows so far are good, `previousEnd` is the end of the last file, and `file` is
the one target among them; afterwards, that the table is good as a whole, `file` is its target, and
where in that file the position is (`InFile`).  `VerdictIsReference` needs it because the finish looks
at stage and checksum only: that no stage before the tail can be left at the end of the input is a
consequence of all ranges lying inside the package.  Every position then is at most the package's
size, which is why no `Add` or `Sub` wraps.

`OtaStartProofs` (from `StartAssumption`, and `OneEarly`: at most one caller may come before there is
a mutex), for any number of callers and tasks: `StartInvariant`, and from it `SessionsExclude`
(`OneTask`), `QueueIsTheTasks` (`QueueOfTask`) and `SecondStart` (`SecondStartIsBusy`).  So the race
for the mutex is the only way in which a second start can succeed.  `StartInv` says that whoever is
inside holds the mutex (`Inside`), that a start past its check means no task, and that a handle is set
exactly while a task has not cleared it.

`NetManagerProofs` (from `NetAssumption` and `QueueSizeAssumption`: bounds are numbers, the task's queue
has room for one event), for queues of any length and any number of requests: `NetInvariant`, and from it
`NetTypeCorrect`, `RollbackHolds` (`SidesFollowMode`), `LayersAgree` (`ModesAgree`), `LinkIsHonest`
(`LinkHonest`), `ScanIsHonest` (`ScanHonest`), `ApIsAwaited` (`ApAwaited`) and `ReadyReachesServer`
(`ServerCalled`).  The beliefs are not inductive by themselves, because a step that hands an event on
needs to know what is queued behind it.  `NetInv` adds it: `LinkInv` says that while the link is not
up, every queued word of a connection is followed by one of its loss (`Followed`), in the SDK's queue
and in the task's, so that a late CONNECTED is never the last word; `ScanInv` extends `ScanHonest` to
the moment between the start of a scan and its flag; `ApInv` says that a caller that has yet to write AP_STARTING still has
its AP before it (`StillToCome`): its command is queued, in progress, or about to be told.

`DeviceProofs` (from `NvdmAssumption`: a value that comes in is none of the marks of a missing, an empty
or a default item, and the names of the factory fields are not those of other groups; `CliAssumption`
and `DeviceAssumption`: bounds are numbers), for any inputs, any factory items, any number of commands,
failed writes and power cuts: `DeviceInvariant`, and from it all eight properties of `factory_device`:
`DeviceTypeCorrect`, `LicenceIsWhole`, `BootIsTheLicences`, `ReplyCounts`, `CertsBelongTogether`,
`KeysAreFresh`, `NothingStaysMissing`, `RelayComesBack`.  The parts of `DeviceInv`:

* `CliInv`: the plan in progress is one of those its command can have (`Planned`).  With it a step of
  a business command writes items of that command's group only, and the generic write, which reaches
  any, marks the item.
* `LicenceInv`: the items that hold a frame's value and are not `bypassed` hold the same frame's, complete
  or not (`Agree`), and while a licence is written, the items before the next write hold the new frame's
  value and the ones behind it are still cleared.  `LicenceWhole` alone does not say why a cut in the
  middle leaves no mixture, nor why an incomplete licence that the generic write completes is none.
  `CertInv` does the same for the certificates, which are written over without being cleared first:
  hence the exception for a cut or a failed undoing (`torn`).
* `BootInv`: as long as the console has not changed the licence (`disturbed`), what `CheckLicence` has
  read so far is the beginning of what flash holds, and the address in RAM is the flash's.
* `SessionInv`: the keys of the session are the newest, and untried unless a certificate is under way.
* `RelayInv`: at most one task is between the relay and its stored state, with the relay's value.
* `MissInv`: only the cleaning of the user's group has an item missing, the one it is about to write.

`BufferIsStable` in `OtaSystemProofs` is `HttpBufferStable`: data of the HTTP handler that the worker has
still to read ends at the chunk the handler waits for (`LentInv`).  In an upload that did not begin over
an old length, the view's length is at most what its session has processed, between the two stores of a
callback as well, and a view without a failure means that the session still runs, since whoever ends one
stores its failure first (`HttpViewInv`).  So when the handler has seen its chunk processed and then no
failure, the worker is past the chunk.

`MatterFlashProofs` (from `MatterFlashAssumption`: there is a slot, an entry and a cell, values are not
empty and fit `DataBuffer`, and `NoName` is no namespace), for any numbers of namespaces, names, slots and
entries, any sector size, any number of power cuts and any allocations that fail: `MatterInvariantHolds`, and from it `TypesHold` (`TypeOK`),
`OnePlaceHolds` (`OnePlace`) and `EntriesApartHold` (`EntriesApart`).  None of the three is inductive: a
header that is about to be written keeps them only if flash is by then what its call expected.  So
`MatterInvariant` says, besides them in terms of `heads` and `table` alone (`OneEntryOf`, `Apart`,
`OneSlotOf`), which operations a call may still have to do (`Orderly`), relative to the flash of the moment:

* `MasksFirst`, `ErasedFirst`: an entry is masked, and headers are erased, before others are written;
* `NewApart`: new headers go from the first entry to the last, with different names, each with its data
  behind the data of the one before;
* `NewBehind`, `NewFree`, `NewAlone`: by the time a new header is written every entry before it is in
  flash and ends before its data, none from it on is, and none with its name is in use;
* `SpacesApart`: a namespace is written into the table only when the table does not hold it.

An operation takes the first element of the list and changes flash, and each part follows from the others
about the rest; a power cut empties the list.  That a call begins with an orderly list (`Sound`) is the
harder half.  For `bk_reorganize_name_data` it is an induction on the turns of its loop (`Packing`): what
has been packed so far ends no later than the entries it came from, so a compaction that only packs what
was in the sector never leaves it.  The induction is by `Induction`, about a set of numbers, which follows
from the well-foundedness of the order of the numbers.  What the parts say of one entry or one slot they
say of the names and namespaces in `Once`, those that are not doubled.  A write whose lookup had no memory
takes its own out of `Once` as it begins (`BeginKept`); no other step changes `Once`.  That entries are
apart needs no such exception: a second entry goes behind the last one, like any other.

`MatterContractProofs` proves `ContractKept`: `Spec => KeepsContract`, that is, the store implements
`MatterStore`, with the same assumption.  The contract changes its state when a call ends and the store
changes flash long before, so the invariant has to look ahead: `ContractInvariant` adds to
`MatterInvariant` that `held` is what the store held when the call in progress began, and that a run leads
from the flash of the moment through all of `todo` to flash the call may answer for (`ReturnAllowed`),
every state of which a power cut may leave (`CutAllowed`); this is `Leads`.  All of it holds as long as
nothing is doubled; the call that doubles something gives the promise up when it begins
(`Contract!GiveUp`), and what is doubled stays so (`DoubledStays`).  A flash operation is the first
step of the run, a return is its end, a power cut any state of it.  What remains is that each plan leads
there when its call begins (`PlanWriteRuns`, `PlanCleanRuns`, `PlanEnsureRuns`, `PlanClearRuns`,
`PlanEraseAllRuns`), which is again an induction over the loops: after each turn of the compaction the
names packed so far read what they did before and the others are lost (`Packs`), after each turn of
`bK_clear_namespace` the namespaces in the first slots of the table are back (`Restored`).  The parts one
level down are about a single slot: an entry that is written reads as its data unless the cells were not
erased (`NewRead`), and disturbs no other entry because entries are apart (`EntryEntered`); masking it
takes this name away and no other (`MaskRemoves`).

Only model-checked:

* everything about liveness (`ReceivingEnds`, `SessionEnds`, and `MutexComesBack`), which TLAPS does not do;
* the pure algorithms (`OtaPack`, `OtaHttpHeader`, `NvdmText`, `HttpCgi`, `Text`): they are evaluated over
  all short inputs.  What they compute for every text is an induction over its length, of the kind the
  flash store's loops needed; it has not been done for them.

So every safety property of the passing runs is a theorem, and so are both contracts.

## 5. What is not modelled, and why

* OTA: the data's values, CRC and GCM computations (by their verdict), progress percentages, logging,
  retries of the Matter requestor (external).  That OtaCore's `Parse` does what OtaParse does is shown by
  `PiecesFollowLayout` and the correspondence in section 2, not by a refinement.
* Wi-Fi and network: addresses, scan results and credentials (data without effect on the state), and
  liveness: a reconnect is the SDK's, and a queue that is full loses the event that would have
  ended a wait, so that nothing can be promised without assuming what the SDK does.
* HTTP server: the select loop and the page's text.  A slow client delays the others; the model of the
  upload has it by its deadlines.
* Items: EasyFlash (external, an item is written whole or not), hashes and ciphers (by their verdict;
  the plain text's layout is in `NvdmText`), commands that only read.
* Matter flash store: values longer than `data_buf` (2048 bytes, lines 648 and 684), which callers are
  assumed not to write (`MatterFlashAssumption`; there is no caller in this repository), as nothing checks
  it; the memory not given back when the second allocation at line 425 fails; the flash protection mode; a
  write or erase cut half way; reads of a part of a value; the partition helpers from line 1177 on, plain
  reads and writes of other partitions.
* Utilities, network throughput test, vendor overlay (`shell_task.c`, `bk_802154.c`, `ota_verify.c`,
  `FactoryDataProvider.cpp`), signing and conversion scripts: pure computation on bytes, vendor code with
  local patches, or I/O without state of this program.
