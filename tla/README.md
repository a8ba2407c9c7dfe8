# Verification of the nRF Connect SDK samples

The repository is a collection of small firmware samples. Most of them are a
`main()` of one line around configuration files. The one with a core logic of
its own is the **Bluetooth LE SMP client**
(`bootloader_samples/client_smp/smp_client_ble/src/main.c`, 1242 lines): a board
that updates another board's firmware over the air. This project models it with
its link and its peer, checks it with TLC, and proves its safety with TLAPS. The
server it talks to, and two samples that interrupts and resets make hard, a
comparator that switches the system off and on and a chip that protects itself
from being erased, are modelled too. In what follows `main.c` is the client's
file, unless a section is about another sample.

## 1. Inventory

### SMP client: connections, buttons, upload (`main.c`)

| State | Where | Written by |
|---|---|---|
| `default_conn`, one reference on it | 43, 93, 168, 207 | scan and connection callbacks |
| `dfu_smp`: handles, connection, the one outstanding command | 39 and library | discovery callback, every command, library on response and disconnection |
| `upload_sem` (0 or 1, starts at 1) | 865 takes, 396 gives | work queue thread, response handler |
| `upload_work_item` | 1126 | button handler, work queue |
| locals of `send_upload2` (`curr_addr`, `upload_chunk`, `update_complete`, `data`) | 840-931 | work queue thread |
| `smp_rsp_buff` | 62 | every response handler |
| `hash_value_primary_slot`, `hash_value_secondary_slot` | 69-70 | `smp_list_rsp_proc`; read by test and confirm |

Operations: the scan callbacks `scan_connecting` and `scan_connecting_error`; the
connection callbacks `connected` and `disconnected`; the three outcomes of
service discovery; `button_handler` for the four buttons (list, upload, test,
confirm); `send_upload2`; `smp_upload_rsp_proc` and `smp_list_rsp_proc`.

Interaction. The Bluetooth stack calls the callbacks. Buttons send list, test
and confirm at once, but only *queue* the upload, because `send_upload2` blocks:
it takes `upload_sem` before each chunk, and `smp_upload_rsp_proc` gives it back
when the chunk has been answered with success. Commands and their responses go
through `dfu_smp`, which carries one command at a time and refuses others.

What is hard. The three actors never look at each other's state. The upload is
told about nothing: not about a lost link, a refused command, a rejected or
missing response; the semaphore is its only information. While it waits it
blocks the thread that the buttons and `disconnected` need. The scan is started
again in two callbacks and nowhere else. The offset that the peer expects is
decoded and ignored (381-387). The last chunk is a special case in four ways
(867-870, 885, 891, 910).

What makes it correct: chunks are sent one at a time; what the peer counts as
received is a prefix of the image; an upload that ends normally has delivered
everything; an upload that has begun ends; the client holds one connection, one
reference, and reconnects, except where the code gives up (section 3).

### SMP client: responses (`main.c` 283-725)

State: `smp_rsp_buff`, shared by all handlers and never cleared; the offset of
the current response (in the library); the two hashes. Operations: append a
part; decode when the last part is in, in which case each check that fails
returns and keeps what was assigned so far. Hard: parts that do not fit are
skipped and the buffer is decoded all the same; what a response does not
overwrite is left from earlier ones; slots are told apart by position; a listing
without a second image leaves the old hash. Correct if a response that fits is
understood as sent, however it is cut and whatever preceded it.

### SMP client: the image that test and confirm name (`main.c` 400-722, 953-1075)

State: `hash_value_secondary_slot`, zero until a listing has a second entry, and
then that entry's hash until another listing has one. Operations: list, test,
confirm, and the one response handler they share. Hard: between the listing and
the command the peer's slot may be overwritten by an upload or swapped by its
bootloader, either board may reset, and the client's own slot, which is what an
upload reads, may be filled over the UART meanwhile. All uploads carry the same
`sha` (903), so that a peer that has kept the beginning of one image may continue
it with another. Correct if the peer only runs images that the client has seen
listed, whole, and if the hash is that of the peer's slot as long as nothing
moved there.

### SMP server (`smp/mcuboot_smp_ble/src/bluetooth_smp.c`)

State: one work item, the advertising and connection objects of the stack.
Operations: `bt_ready`, `advertise` (work), `connected`, `disconnected`,
`on_conn_recycled`. Hard: after a failed connection advertising is started from
`connected()` while the object is not yet recycled; submissions meet in one work
item; the client, which scans again in two callbacks of its own, notices a lost
link at another time. Correct if the server always advertises again and the two
boards find each other again and again. The image handling behind it is the
SDK's and not in the repository.

### LPCOMP system off (`peripherals/lpcomp_system_off/src/main.c`)

State: `poweroff`, `current_state`, the comparator's configuration. An interrupt
flips the state and reconfigures the comparator; the main loop looks at
`poweroff` every 5 s and switches off. Hard: the voltage may change while the
interrupt reconfigures, and between the test and the switching off. Correct if
threshold, interrupt and wake-up direction always belong to the state the
program waits in, and the system does not sleep through what should wake it.

### Erase protection (`lowlevel/eraseprotect/`)

State: UICR.ERASEPROTECT, the flash controller's mode, and the two key registers
of CTRL-AP. On each start the firmware sets its key and, if need be, writes the
word and resets; scripts set the debugger's key or the word. Hard: a reset may
come between any two of these steps and stop a write halfway, and the chip reads
the word only then. Correct if it converges to a protected chip that the script
can still erase.

### PSA certificate request, UICR word, detached signature

`crypto/psa_csr/src/main.c`: seven library calls, the last of which destroys two
keys. `lowlevel/uicr_write_customer/src/main.c`: one checked write on each boot.
`mcuboot_detached_signature/scripts/detached_signature.sh`: a list of tool calls.
See section 6.

### The rest

MCUboot action hooks (a switch that logs), the nRF5340 samples (`bt_enable`, one
`bt_le_adv_start`, no callbacks), and the build-system, key, encryption, serial
recovery, updatable bootloader and Thread samples: hello-world mains and
configuration for components that are not in the repository. They keep no state
to model. `PROJECT.json` lists each with its reason, and each hazard of the code
at its line.

## 2. Modules

| Module | What it is |
|---|---|
| `ImageTransfer` | Abstract: a receiver holds a prefix of the source, which grows by one chunk, starts over, or is forgotten. |
| `SmpClient` | The client, the link and the peer; all three actors. |
| `MCSmpClient` | Its instances for TLC. |
| `SmpClientProofs` | The inductive invariant of `SmpClient` and its theorems. |
| `SmpClientRefinement` | The proof that `SmpClient` implements `ImageTransfer`. |
| `SmpDeliveryProofs` | The proof that a finished upload is a delivered one, and stays in step until then. |
| `SmpResponse` | Reassembly and decoding of responses. |
| `MCSmpResponse`, `SmpResponseProofs` | The answers of peers for TLC; its inductive invariant and theorems. |
| `SmpImages` | Which image test and confirm name: the client's hash against the peer's slots and bootloader. |
| `MCSmpImages`, `SmpImagesProofs` | Its instances for TLC; its inductive invariant and theorems. |
| `SmpServerAdv` | The server's callbacks and work item over the stack's connection objects. |
| `SmpLink` | Composes `SmpClient` (by EXTENDS) and `SmpServerAdv` (by INSTANCE) over a link whose ends fail separately. |
| `MCSmpLink`, `SmpLinkProofs` | Its instance for TLC; its safety, and that it implements `SmpClient`. |
| `LpcompPoweroff`, `LpcompPoweroffProofs` | Comparator callback, main loop, system off. No constants. Its safety. |
| `EraseProtect` | Firmware and scripts over the chip's registers. |
| `EraseProtectProofs` | Its safety for any number of resets. |

### SmpClient and the code

* One action per callback and handler, named as in the code. `send_upload2` is
  four actions, cut where other threads can act: `start_upload` (the locals),
  `take_token` (the blocking `k_sem_take` and the size of the chunk), then
  either `give_up` (an error return before the command) or `send_chunk` (read,
  encode, command, advance). `pc` is the place in between.
* `conn`, `scanning`, `discovering`, `pending`, `air` and `srv` belong to the
  SDK and to the peer. They are modelled from how `main.c` uses them and marked
  External: a library object carries one command, and nothing tells
  `main.c` whether it forgets it when the connection is lost (both happen in the
  model); the peer starts an upload at offset 0, continues it at the
  expected offset, and answers any other offset with the one it expects.
* There is one peer. `main.c` connects to whichever advertises the service; with
  several in range an upload could be spread over them, which no variable of the
  program would show.
* A byte of flash is its address. So a byte at a wrong offset is visible.
* `button_handler` takes the set of keys of one interrupt, since the code tests
  the four masks in turn; only the first command can be accepted.
* A response is rejected (`ok = FALSE`) as a whole; why is the subject of
  `SmpResponse`. "server" in `Faults` is also how a peer refuses the last,
  padded chunk when it reaches past the image.
* `client_reset` is a reset of the client board: everything in RAM is as `main()`
  leaves it, what the peer received stays. Since every upload carries the same
  `sha`, the peer may answer the first chunk of the next upload with the offset
  at which the broken-off one is to go on (`server_upload`); the client ignores
  it and sends what the peer already has until the offsets meet.
* Failures of the scan are three: "scan" (`bt_scan_start` returns an error, which
  is printed), "create" (the connection cannot be created,
  `scan_connecting_error`) and "connect" (the attempt fails, `connected` with an
  error). After the first two nothing scans any more; the history variable
  `scan_failed` records that this is why.
* The loss of a link is two actions. `link_lost` is the stack's: what was in the
  air is gone, commands are refused, a discovery under way disappears.
  `disconnected` is the callback, some time later: only then is the reference
  released and the scan started. Security (`connected` raises the level) has no
  state here.
* Threads. Which thread runs a callback is the SDK's choice and not in the
  repository. `OnWorkQueue` names the callbacks that share the thread of
  `send_upload2` and so cannot run while it is between two chunks: in the SDK
  both `button_handler` (`dk_buttons` reports from a delayable work item) and
  `disconnected` (the host's deferred work on a closed connection). The other
  callbacks run on the Bluetooth receive thread. The end of an attempt by timeout
  needs the work queue as well; `connected_err` may nevertheless come at any time,
  which allows more, and cannot be held up but by the upload that
  `KeepsReconnecting` makes an exception of. `client_safety` has
  `OnWorkQueue = {}`, which allows every interleaving; the others have both; the
  proofs hold for any choice, but for the two theorems of `SmpDeliveryProofs`,
  which assume `"disconnected" \in OnWorkQueue`.

### SmpResponse and the code

A response is a sequence of cells, the header and then CBOR items, and a key
with its value is one cell, because the handlers check them one after the other
and return on either. `Part` is one call of a handler. What lies behind the
buffer is chosen by TLC. The number a header carries is the number of cells
behind it, and a listing has five cells for each image. Three assumptions say
which peers and buffers are meant: `AnswerAssumption` (answers are of the kinds
above, parts are not empty), `BufAssumption` (an answer to an upload fits, as it
does in 300 bytes) and `ListingAssumption` (a listing that fits has at most two
entries, and they carry the slot numbers 0 and 1 in this order: a peer with one
image. `smp_list_rsp_proc` never looks at the number, so that nothing could be
said of other peers). The listing is decoded with the patched
`zcbor_bool_expect` that the sample's README asks for, which returns false
instead of failing.

### SmpImages and the code

An image is its own hash, and the two commands of an upload that matter are its
first and its last chunk. `SmpClient` says how commands and chunks get lost; here
a connection is one message that may disappear, and an upload may be started
again after it broke off even where the client of `SmpClient` would wait for its
token, so that this module allows more than the program does. `own` is the
client's slot, filled by `load` at any time. `begun` is the image whose beginning
the peer has: `upload_end` leaves a whole image only if begin, end and the
client's slot agree. The peer's part (`server_set`, `restart`) is what mcumgr and
MCUboot do with two slots and a mark; neither is in the repository.

### SmpServerAdv, SmpLink and the code

One action per callback. `advertise` is two actions, the work queue taking the
item (which may be submitted again from then on) and the call of
`bt_le_adv_start`, which takes a free connection object, finds none, or fails.
An object goes through advertising, connected and closing back to free, and the
recycled callback runs some time after. In `SmpLink` an advertisement that the
scanner hears is `ScanHit`; `link` records the connections that both ends believe
in; each end may lose its half by itself (the client hears of it later,
`ClientHears`), a scan may not start or an attempt not be made
(`ConnectingFails`), and each board may restart.

### LpcompPoweroff and the code

`comp_callback` is three actions (test and stop, reconfigure, start), between
which the voltage moves but `main()` does not, since the callback is an
interrupt. `main()` is cut at `k_sleep`, at the test of `poweroff` and at
`sys_poweroff`. The input has three ranges, split by the two thresholds; the
hysteresis, which only suppresses short crossings, is left out. The comparator
remembers crossings, interrupts for one direction and wakes the system for one;
what it forgets on starting is left open. Leaving system off is a reset.

### EraseProtect and the code

One action per register access of `main()`, and one per script. The scripts
check nothing: `enable_eraseprotect.py` may be run on a chip without firmware,
and the history variable `set_empty` remembers it until the chip is erased.
`flash` ends with a reset and leaves the UICR alone. APPROTECT is not part of the
sample; as long as it is off, `west flash --recover` erases the chip in any state,
which is left out here: the properties are about the way of the keys. A reset that
nobody asked for may come at any step, and a word being written is then written,
begun or untouched; what the chip makes of a half-written word is left open, as
is whether the debugger's key survives a reset. `read_eraseprotect_status.py`
only reads.

## 3. Runs

| Run | Question | Result |
|---|---|---|
| `client_safety` | All failures, all interleavings, all four keys, resets of both boards. `TypeOK`, `OneToken`, `PeerHoldsPrefix`, `OneConnection`, `LostForGood`, `ImplementsTransfer`. | hold, 13568 states |
| `client_delivery` | All failures, buttons and `disconnected` on the work queue, resets of both boards. `OffsetInStep`, `FinishedMeansStored`, `UploadEnds`, `KeepsReconnecting`. | hold, 7122 states |
| `client_press` | Does a press of button 2 on a usable link start an upload? | no: finding 1 |
| `client_padding` | Is the terminating NUL kept out of what is sent? | no: finding 2 |
| `response` | `TypeOK`, `TokenForSuccessOnly`, `HashesFollowListing`: all cuts of all answers into parts. | hold, 27645 states |
| `response_key` | Is a response without `rc` dropped, as the message says? | no: finding 3 |
| `images` | Two images, of which one confirms itself; uploads, swaps, resets. `TypeOK`, `RunsWhatWasListed`, `HashIsCurrent`. | hold, 7884 states |
| `images_revert` | Does an update that confirmed itself stay, with the buttons of the README? | no: finding 4 |
| `link` | Both boards, two connection objects each, all losses, failed scans and attempts, and restarts. `ComposedTypeOK`, `ServerNotForgotten`, `ClientNotIdle`, `Reconnects`. | hold, 6576 states |
| `lpcomp` | All voltages at all steps. `TypeOK`, `WatchesForState`, `WakesUp`. | hold, 191 states |
| `lpcomp_log` | Is the voltage below 4/8 when the log says so? | no: finding 5 |
| `eraseprotect` | A reset at every step, both scripts. `TypeOK`, `NeverBricked`, `SettlesProtected`, `ScriptErases`. | hold, 296 states |

**Bounds.** `client_safety`: a slot of three whole chunks of two bytes, so that
there is a first, a middle and a last full chunk and then the empty one the code
sends when the slot is a multiple of `UPLOAD_CHUNK`; the other client runs have
a short last chunk. Two connection objects: one may be left over while another
is in use. Every failure may happen any number of times. The proofs lift all of
these bounds for safety. `response`: a buffer of 14 cells holds a listing of two
images exactly but not of four; parts of 5, 9, 14 and 20 cells cut a listing
inside an entry, between entries, at the buffer's end, and not at all. `images`:
two images besides the one the peer came with, so that a third may be uploaded
while two are in the peer's slots. `link`: one connection object may be closing,
or held by one end only, while the other is in use; no key is pressed, because
commands touch none of this. `eraseprotect`: three resets (`MaxResets`), one for
the first write, one for the second, and one more; the proof has no bound.
`lpcomp` has none.

**Fairness** (`FairSpec`) is weak on the work queue thread (a cooperative
thread whose callers block), the peer and the delivery of its answers (a
connection either delivers or is lost), scans and connection attempts (the peer
advertises), and the end of discoveries. It is strong on `disconnected`, which
waits for a thread that uploads may take again and again, because a work queue
takes its items in order; and on `connected`, because of endless attempts to
reach a peer in range some succeed. Nothing forces a button, a failure or the loss
of a link. `UploadEnds` counts the loss of the token as an end, since with
an unanswered chunk that is what happens, and so it does a reset of the client.
`KeepsReconnecting` makes an exception of a client that is reset for ever.

`LinkFairness` is strong where a loss or a restart may come in between again and
again: an advertisement is heard, an attempt succeeds, the server's work item is
run and its start completed some time, if they are possible infinitely often
(the two boards are in range, and losses and restarts are not synchronised with
their steps). It is weak for the rest: an attempt ends, a connection that only
one end believes in times out (the supervision timeout), callbacks are run.
`LpcompPoweroff` and `EraseProtect` assume that the processor executes its
program and, in the second, that the chip erases itself when told to; the
voltage does as it likes, and `WakesUp` is conditional on its swings.

**What rests on the threads of the SDK.** That `disconnected` runs on the thread
of `send_upload2` has a good and a bad side.

The good one: an upload that has sent a chunk keeps its connection, or the ruin
of it, until it returns (`HoldsLink`). With `"disconnected" \in OnWorkQueue`,
`OffsetInStep` and `FinishedMeansStored` are theorems (section 4). Without it they
fail: the work queue thread could hold the token while the link is lost, the
peer restarts and the discovery on the new connection completes; it would then
send the middle of the image to a peer that starts at 0, take the answer
(success, offset 0) for progress, and end with a hole. It is the thread that rules
this out, not the program, because `off` is ignored.

The bad one: an upload that waits for a token it will never get keeps
`disconnected` from running. The link is lost with a chunk unanswered (or a chunk
was refused earlier and the button is pressed once more), and from then on
nothing releases the connection or starts the scan. No text of the sample
promises that the client reconnects, so this is not among the findings;
`KeepsReconnecting` names it as an exception (`UploadStuck`), and fails without it.

**What the code gives up on.** `KeepsReconnecting` and `ClientNotIdle` name the
other exception, `scan_failed`: `scan_connecting_error` and a failing
`bt_scan_start` print and leave the client idle for good. These failures happen in
the runs. `Reconnects` names in addition a start the server's stack refused. What
the properties say is that nothing else ends the search.

`NeverBricked` excepts a chip on which `enable_eraseprotect.py` was run while it
was empty, and which was then reset: protected, without firmware to set the key.
It is the case the disclaimer of that sample's README warns of.

### Findings

1. `client_press`. When a chunk is refused (`main.c:926`: pressed before the
   connection is up, or while another command is out) or its answer never
   comes, the token is not given back. README step 7 promises an upload for
   button 2, and from then on no press starts one: `send_upload2` waits in
   `k_sem_take` for ever. `LostForGood` is the general form, and proved.
2. `client_padding`. `data` has one byte more "to store '/0'", but for the last
   chunk the NUL goes to `data[upload_chunk]`, and `zcbor_bstr_put_lit` sends
   all of `UPLOAD_CHUNK` bytes: the NUL and left-over bytes are sent as image
   and counted by the peer. `PeerHoldsPrefix` shows that they stay behind the
   image's end.
3. `response_key`. The check of the key `rc` compares with a character constant
   taken as an address, and has the wrong sign. A first key of two letters other
   than `rc` is accepted.
4. `images_revert`. README step 10 names button 4 as what resets the server, and
   says that after the update, which confirms itself, another reset "won't revert
   back". Button 4 sends confirm for the image listed second. Once the update
   runs and has been listed, that is the old image: button 4 marks it for good,
   and the next reset reverts the update.
5. `lpcomp_log`. "Voltage below VDD * 4/8" is logged when the comparator has
   seen the input rise above 4/8 (and "above VDD * 7/8" when it is below 7/8): the
   sample switches off on a rising voltage.

## 4. Proofs

`SmpClientProofs` proves, for every slot, chunk size, pool of connection
objects, set of keys and set of failures (assumptions: `SlotAssumption`,
`ConnAssumption`, `ChoiceAssumption`, all checked by TLC on each run of
`MCSmpClient`):

| Theorem | Statement |
|---|---|
| `TypeCorrect` | `Spec => []TypeOK`: flash is read inside the slot, references stay natural numbers |
| `OneTokenAlways` | `Spec => []OneToken`: stop-and-wait |
| `OneConnectionAlways` | `Spec => []OneConnection` |
| `PrefixAlways` | `Spec => []PeerHoldsPrefix` |
| `ResponsesMatch` | `Spec => []ResponseForHandler` |
| `LostTokenStaysLost` | `Spec => LostForGood` |
| `Refinement` (`SmpClientRefinement`) | `Spec => ImplementsTransfer` |

The inductive invariant is `IInv`. None of its parts is inductive alone:

* `TypeOK` needs `OneConnection` (releasing a connection subtracts one from a
  count that has to be one) and `WorkerInv` (the chunk worked out at the token
  still fits when it is read);
* `OneToken` needs `ResponseForHandler`: an answer gives the token only if it is
  an answer to a chunk;
* `PeerHoldsPrefix` needs `RequestMatchesSlot`, that a chunk under way carries
  the bytes of its own offset, which needs `WorkerInv` and that `send_chunk`
  reads where it counts.

Steps are sorted into three kinds (`StepKinds`), so that each part of `IInv` is
proved against the actions that can disturb it. The refinement proof shows that
what the peer holds is `Prefix(srv.off)`, so that a step is determined by what
it does to the offset (`OffsetMoves`). A reset of the client leads to `Started`,
which has every part of `IInv` that is not about the peer (`StartedInv`).

`SmpDeliveryProofs` adds what the client's user counts on, under
`"disconnected" \in OnWorkQueue` (a hypothesis of these two theorems and of no other): `OffsetAlwaysInStep`
(`OffsetInStep`) and `FinishedIsStored` (`FinishedMeansStored`). Both invariants
speak of moments at which nothing is on its way; the inductive `DeliveryInv` says
what holds in between:

* `InStep`: what is sent next, the chunk on its way and the one an answer
  acknowledges leave no hole at the peer;
* `WholeChunks`: both boards count in whole chunks until the last one, so that a
  chunk that starts behind the peer's offset ends no further than it
  (`MultipleGap`);
* `Finishing`: the last chunk reaches the end of the slot, its acceptance
  completes the image, and only that gives the token back;
* `ConnInv`: nothing is on its way without a connection, so that a loss leaves
  nothing that could be taken for an answer on the next one.

* `HoldsLink`: an upload that has sent a chunk still has the connection it sent
  it on, alive or lost, so that no other can come up under it (`Reconnection`).

The hypothesis is used in one lemma, `Disconnection`: the callback does not run
before `send_upload2` has returned. Faults, resets of both boards, keys and the
thread of the buttons are arbitrary.

`SmpResponseProofs`, for any buffer, any cut into parts and any peer
(`AnswerAssumption`, `BufAssumption`): `TypeCorrect`, `TokenDecided`
(`TokenForSuccessOnly`) and, with `ListingAssumption`, `HashesDecided`
(`HashesFollowListing`). The inductive `ResponseInv` says that the buffer starts
with a header, whoever sent it, so that a length can be read there even when the
response was skipped; that the handler is the one for the answer on its way; and
`Arrived`, that what has arrived of a response that fits is in the buffer. The
layout lemmas (`UploadLayout`, `ListLayout`, `RefusalLayout`, `ListingBody`) say
what is at which place of a response, and `WholePayload` that the decoder gets
all of it and nothing else. `TokenDecided` has two hypotheses: the bytes at the
address `'rc'` are not themselves "rc", and answers start with `rc` or `err`.
Without the second it is false, which is finding 3.

`SmpImagesProofs`, for any images (`ImageAssumption`): `OnlyListedRuns`
(`RunsWhatWasListed`), `HashStaysCurrent` (`HashIsCurrent`), `TypeCorrect`.
`RunsWhatWasListed` is about slot 0 only; what is inductive is `AsListed` (the
hash, a command on its way, slot 0, and slot 1 once it is marked), which needs
that nothing is marked while an upload rewrites slot 1 (`UploadInv`) and that a
listing on its way is still true (`ListingInv`).

`SmpLinkProofs`, for any pools (`ObjsAssumption`, `LinkFaults`):
`ServerNeverForgotten`, `ClientNeverIdle`, and `LinkImplementsClient`
(`LinkSpec => Spec`), by which every theorem about the client holds in the
composition; `ComposedTypeCorrect` (`ComposedTypeOK`) uses it for the client's
half. The first is inductive with the range of `pool`; what it rests on is
that a start without a free object means that some object is in use. The second is
inductive as it stands. No failure of the client is assumed away: `LinkFaults` only
says that a restart of the server is the action of `SmpLink` and not the fault
"reboot". Both statements name the refused start they make an exception of.

`EraseProtectProofs`, for any number of resets (`ResetsAssumption`):
`TypeCorrect` and `NeverBrickedAlways`. What is inductive is that a word that is
not all ones, and a chip that is protected, have the firmware with them or were
set while the chip was empty, and that the key is set once `main()` is past its
first instruction.

`LpcompPoweroffProofs`: `WatchesAlways` (`WatchesForState`) and `TypeCorrect`. The
module has no constants, so that the run alone decides both; the proof says why
they hold: `CallbackInOrder` (stopped while it is reconfigured, configured before
it is started) and `BeforeMain` (no interrupt before `main()` has set the
trigger, so that a reset cannot be overtaken by a callback).

Only model-checked: liveness (`UploadEnds`, `KeepsReconnecting`, `Reconnects`,
`WakesUp`, `SettlesProtected`, `ScriptErases`), which is out of the prover's
reach. Each of the other properties of the passing runs is a theorem.

## 5. Plan

Done: every module of section 2, and the proof of every safety property a run
checks. Left:

1. The relation of `SmpClient` and `SmpImages`: that what an upload does to the
   peer's slot is an `upload_begin`, an `upload_end` or a loss there is argued in
   section 2, not proved.
2. An upload of two images under the same `sha`: `SmpClient` has the bytes of one
   slot, so that the mixture the hazards at lines 877 and 903 speak of is nothing a
   property could see; `SmpImages` assumes that it does not boot.
3. Larger instances for the liveness properties, which no proof covers: a slot of
   four chunks, three connection objects.

## 6. Not modelled

* `send_smp_reset` and `send_smp_echo` are reached by no button, so neither their requests nor their response handlers are actions.
* The sizes of local buffers: `version_key` (line 512) has five bytes for the
  seven of `version`. What that overwrites is up to the compiler.
* Logging (but for finding 5), the progress bar, and the text of printed values.
* `crypto/psa_csr`: one pass over seven calls in a fixed order, each of which ends
  the program if it fails. The keys are volatile, nothing runs afterwards, and
  the cryptography is the library's; a model would restate the order.
* `lowlevel/uicr_write_customer`: one write, guarded by a library's check; nothing
  reads the word.
* `detached_signature.sh`: which of its steps run is edited by hand between runs
  ("Remember to comment out functions when not needed anymore"), and what a
  failing step leaves behind is decided by imgtool, west, openssl and nrfutil.
* MCUboot, mcumgr and the Bluetooth stack are not in the repository; they are
  modelled only as far as the samples use them.
* The other components of section 1 marked `not_modelled` in `PROJECT.json`.
