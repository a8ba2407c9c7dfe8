----------------------------- MODULE SmpClient -----------------------------
(***************************************************************************)
(* The Bluetooth LE SMP client                                             *)
(* (bootloader_samples/client_smp/smp_client_ble/src/main.c): a central    *)
(* that scans for one SMP server, discovers its DFU SMP service, and on    *)
(* button presses sends image-list, test and confirm commands or uploads   *)
(* the image in its own secondary slot, chunk by chunk.                    *)
(*                                                                         *)
(* Three actors interleave: the Bluetooth stack, which runs the callbacks; *)
(* the button handler; and the work queue thread, which runs send_upload2. *)
(* They meet in default_conn, in the one outstanding command of the        *)
(* dfu_smp object, and in the semaphore upload_sem.                        *)
(*                                                                         *)
(* Which thread runs a callback is the SDK's choice. In the SDK the button *)
(* handler and disconnected() run on the very thread that send_upload2     *)
(* blocks while it waits for an answer: OnWorkQueue says which of them do. *)
(*                                                                         *)
(* The scan module, the dfu_smp library, the link and the peer are not in  *)
(* the repository; they are modelled as main.c uses them and marked        *)
(* External below.                                                         *)
(*                                                                         *)
(* A name such as ChunkSize_OneShort is ChunkSize with the error a         *)
(* programmer could have made; no action uses it. Put in ChunkSize's       *)
(* place it makes TLC report the property that guards against the error.   *)
(***************************************************************************)
EXTENDS Integers

CONSTANTS
    start_addr,         \* PM_MCUBOOT_SECONDARY_ADDRESS
    last_addr,          \* PM_MCUBOOT_SECONDARY_END_ADDRESS
    UPLOAD_CHUNK,       \* bytes of image in one upload command
    Conns,              \* the stack's pool of connection objects
    NoConn,             \* NULL as a connection
    Nul, Junk, Erased,  \* bytes: '\0', uninitialised, erased flash
    Keys,               \* the buttons that get pressed
    Faults,             \* the failures that may happen, see FaultKinds
    OnWorkQueue         \* the callbacks that run on the thread of send_upload2

FaultKinds ==
    { "local",      \* flash_read or the CBOR encoder fails
      "refuse",     \* bt_dfu_smp_command fails although the link is up
      "server",     \* the response is one the handler rejects
      "silent",     \* the peer never answers
      "link",       \* an established connection is lost
      "reboot",     \* ... because the peer restarted
      "create",     \* a connection attempt cannot be made
      "connect",    \* a connection attempt fails
      "scan",       \* bt_scan_start fails
      "reset",      \* the client board resets
      "discovery" } \* discovery does not start, fails, or finds nothing

Commands == {"list", "test", "confirm"}

ASSUME SlotAssumption == /\ start_addr \in Nat
                         /\ last_addr \in Nat
                         /\ start_addr < last_addr
                         /\ UPLOAD_CHUNK \in Nat \ {0}
ASSUME ConnAssumption == NoConn \notin Conns
ASSUME ChoiceAssumption == /\ Keys \subseteq Commands \cup {"upload"}
                           /\ Faults \subseteq FaultKinds
                           /\ OnWorkQueue \subseteq {"button_handler", "disconnected"}

ImageLen == last_addr - start_addr

\* A flash byte is named by its address, so that a byte in the wrong place shows.
Byte == (start_addr .. last_addr - 1) \cup {Nul, Junk, Erased}
Chunk == [0 .. UPLOAD_CHUNK - 1 -> Byte]

NoMsg == [type |-> "none"]
UploadReq(off, data) == [type |-> "upload_req", off |-> off, data |-> data]
UploadRsp(ok, off) == [type |-> "upload_rsp", ok |-> ok, off |-> off]
StateReq == [type |-> "state_req"]
StateRsp == [type |-> "state_rsp"]

VARIABLES
    scanning,        \* External: bt_scan is running
    scan_failed,     \* history: the last scan did not start, or ended in an
                     \*   attempt to connect that could not be made
    conn,            \* External: state of each connection object
    refs,            \* references main.c holds on each connection object
    default_conn,
    discovering,     \* External: the connection bt_gatt_dm works on
    dfu_conn,        \* the connection whose handles dfu_smp was assigned
    pending,         \* External: the command dfu_smp waits to see answered
    air,             \* External: the message between the two boards
    srv,             \* External: the peer's upload offset and secondary slot
    queued,          \* upload_work_item is on the work queue
    pc,              \* where the work queue thread is in send_upload2
    upload_sem,
    curr_addr,
    upload_chunk,
    update_complete,
    data             \* the stack buffer data[UPLOAD_CHUNK+1]

bt == <<scanning, scan_failed, conn, refs, default_conn, discovering, dfu_conn>>
worker == <<queued, pc, curr_addr, upload_chunk, update_complete, data>>
vars == <<bt, worker, pending, air, srv, upload_sem>>

\* One type invariant: every variable stays in the range the code gives it.
BtTypeOK ==
    /\ scanning \in BOOLEAN
    /\ scan_failed \in BOOLEAN
    /\ conn \in [Conns -> {"free", "connecting", "connected", "lost"}]
    /\ refs \in [Conns -> Nat]
    /\ default_conn \in Conns \cup {NoConn}
    /\ discovering \in Conns \cup {NoConn}
    /\ dfu_conn \in Conns \cup {NoConn}

WorkerTypeOK ==
    /\ queued \in BOOLEAN
    /\ pc \in {"idle", "take", "send"}
    /\ upload_sem \in {0, 1}
    /\ curr_addr \in start_addr .. last_addr
    /\ upload_chunk \in 0 .. UPLOAD_CHUNK
    /\ update_complete \in BOOLEAN
    /\ data \in [0 .. UPLOAD_CHUNK -> Byte]

AirTypeOK ==
    \/ air \in {NoMsg, StateReq, StateRsp}
    \/ \E off \in 0 .. ImageLen, d \in Chunk : air = UploadReq(off, d)
    \/ \E ok \in BOOLEAN, off \in 0 .. ImageLen + UPLOAD_CHUNK :
          air = UploadRsp(ok, off)

LinkTypeOK ==
    /\ pending \in {"none", "upload"} \cup Commands
    /\ AirTypeOK
    /\ srv \in [off : 0 .. ImageLen + UPLOAD_CHUNK,
                image : [0 .. ImageLen + UPLOAD_CHUNK - 1 -> Byte]]

TypeOK == BtTypeOK /\ WorkerTypeOK /\ LinkTypeOK

\* External: bt_scan_start, whose error main.c prints and otherwise ignores.
bt_scan_start ==
    /\ scanning' \in IF "scan" \in Faults THEN BOOLEAN ELSE {TRUE}
    /\ scan_failed' = ~scanning'

\* The state main() leaves behind: work item and dfu_smp initialised, buttons
\* live, the scan started; nothing is connected yet.
Init ==
    /\ scanning \in IF "scan" \in Faults THEN BOOLEAN ELSE {TRUE}
    /\ scan_failed = ~scanning
    /\ conn = [c \in Conns |-> "free"]
    /\ refs = [c \in Conns |-> 0]
    /\ default_conn = NoConn
    /\ discovering = NoConn
    /\ dfu_conn = NoConn
    /\ pending = "none"
    /\ air = NoMsg
    /\ srv = [off |-> 0,
              image |-> [i \in 0 .. ImageLen + UPLOAD_CHUNK - 1 |-> Erased]]
    /\ queued = FALSE
    /\ pc = "idle"
    /\ upload_sem = 1
    /\ curr_addr = start_addr
    /\ upload_chunk = UPLOAD_CHUNK
    /\ update_complete = FALSE
    /\ data = [i \in 0 .. UPLOAD_CHUNK |-> Junk]

\* External: the client board resets, at any time, and main() runs again. It
\* knows nothing any more of an upload that the peer has received half of.
client_reset ==
    /\ "reset" \in Faults
    /\ bt_scan_start
    /\ conn' = [c \in Conns |-> "free"]
    /\ refs' = [c \in Conns |-> 0]
    /\ default_conn' = NoConn
    /\ discovering' = NoConn
    /\ dfu_conn' = NoConn
    /\ pending' = "none"
    /\ air' = NoMsg
    /\ queued' = FALSE
    /\ pc' = "idle"
    /\ upload_sem' = 1
    /\ curr_addr' = start_addr
    /\ upload_chunk' = UPLOAD_CHUNK
    /\ update_complete' = FALSE
    /\ data' = [i \in 0 .. UPLOAD_CHUNK |-> Junk]
    /\ UNCHANGED srv

-----------------------------------------------------------------------------
(* Connection callbacks, run by the Bluetooth stack.                       *)

\* The thread that runs this callback is not inside send_upload2.
ThreadFree(callback) == callback \in OnWorkQueue => pc = "idle"

\* bt_scan found the service: it stopped scanning and created a connection.
\* Only an object that nobody references can be taken from the pool.
scan_connecting(c) ==
    /\ scanning
    /\ conn[c] = "free" /\ refs[c] = 0
    /\ scanning' = FALSE
    /\ conn' = [conn EXCEPT ![c] = "connecting"]
    /\ refs' = [refs EXCEPT ![c] = @ + 1]
    /\ default_conn' = c
    /\ UNCHANGED <<scan_failed, discovering, dfu_conn, worker, pending, air, srv,
                   upload_sem>>

\* bt_scan stopped scanning but could not create the connection: the callback
\* prints, and nobody starts the scan again.
scan_connecting_error ==
    /\ "create" \in Faults
    /\ scanning
    /\ scanning' = FALSE
    /\ scan_failed' = TRUE
    /\ UNCHANGED <<conn, refs, default_conn, discovering, dfu_conn, worker,
                   pending, air, srv, upload_sem>>

\* What connected(conn, err) and disconnected() do when c is default_conn.
release_Leaking(c) ==
    IF default_conn = c
    THEN UNCHANGED refs /\ default_conn' = NoConn /\ bt_scan_start
    ELSE UNCHANGED <<refs, default_conn, scanning, scan_failed>>
release_Twice(c) ==
    IF default_conn = c
    THEN /\ refs' = [refs EXCEPT ![c] = @ - 2]
         /\ default_conn' = NoConn
         /\ bt_scan_start
    ELSE UNCHANGED <<refs, default_conn, scanning, scan_failed>>
release_NoScan(c) ==
    IF default_conn = c
    THEN /\ refs' = [refs EXCEPT ![c] = @ - 1]
         /\ default_conn' = NoConn
         /\ UNCHANGED <<scanning, scan_failed>>
    ELSE UNCHANGED <<refs, default_conn, scanning, scan_failed>>
release(c) ==
    IF default_conn = c
    THEN /\ refs' = [refs EXCEPT ![c] = @ - 1]
         /\ default_conn' = NoConn
         /\ bt_scan_start
    ELSE UNCHANGED <<refs, default_conn, scanning, scan_failed>>

connected(c) ==
    /\ conn[c] = "connecting"
    /\ conn' = [conn EXCEPT ![c] = "connected"]
    /\ \/ default_conn = c /\ discovering' = c
       \/ (default_conn # c \/ "discovery" \in Faults) /\ UNCHANGED discovering
    /\ UNCHANGED <<scanning, scan_failed, refs, default_conn, dfu_conn, worker,
                   pending, air, srv, upload_sem>>

connected_err(c) ==
    /\ "connect" \in Faults
    /\ conn[c] = "connecting"
    /\ conn' = [conn EXCEPT ![c] = "free"]
    /\ release(c)
    /\ UNCHANGED <<discovering, dfu_conn, worker, pending, air, srv, upload_sem>>

\* External: what was in the air on a lost connection is gone. The library may
\* forget the command, or wait for its answer and refuse others for good.
DropCommand(c) ==
    IF dfu_conn = c THEN pending' \in {"none", pending} /\ air' = NoMsg
                    ELSE UNCHANGED <<pending, air>>

\* External: the stack loses an established connection, whoever ended it. A peer
\* that restarted has forgotten how far the upload was, not what it stored.
link_lost(c) ==
    /\ "link" \in Faults
    /\ conn[c] = "connected"
    /\ conn' = [conn EXCEPT ![c] = "lost"]
    /\ discovering' = IF discovering = c THEN NoConn ELSE discovering
    /\ DropCommand(c)
    /\ \/ UNCHANGED srv
       \/ "reboot" \in Faults /\ srv' = [off |-> 0, image |-> srv.image]
    /\ UNCHANGED <<scanning, scan_failed, refs, default_conn, dfu_conn, worker,
                   upload_sem>>

\* The callback touches only the connection and the scan: it tells nobody that a
\* command went unanswered, and neither does the library.
disconnected_Gives(c) ==
    /\ conn[c] = "lost"
    /\ ThreadFree("disconnected")
    /\ conn' = [conn EXCEPT ![c] = "free"]
    /\ release(c)
    /\ upload_sem' = 1
    /\ UNCHANGED <<discovering, dfu_conn, worker, pending, air, srv>>
disconnected(c) ==
    /\ conn[c] = "lost"
    /\ ThreadFree("disconnected")
    /\ conn' = [conn EXCEPT ![c] = "free"]
    /\ release(c)
    /\ UNCHANGED <<discovering, dfu_conn, worker, pending, air, srv, upload_sem>>

discovery_completed_cb ==
    /\ discovering # NoConn
    /\ dfu_conn' = discovering
    /\ discovering' = NoConn
    /\ UNCHANGED <<scanning, scan_failed, conn, refs, default_conn, worker, pending,
                   air, srv, upload_sem>>

\* discovery_service_not_found_cb, discovery_error_found_cb, or
\* bt_dfu_smp_handles_assign failing: each only prints.
discovery_failed ==
    /\ "discovery" \in Faults
    /\ discovering # NoConn
    /\ discovering' = NoConn
    /\ UNCHANGED <<scanning, scan_failed, conn, refs, default_conn, dfu_conn, worker,
                   pending, air, srv, upload_sem>>

-----------------------------------------------------------------------------
(* Commands. The dfu_smp object carries one command at a time.             *)

CanSend == /\ dfu_conn # NoConn
           /\ conn[dfu_conn] = "connected"
           /\ pending = "none"

\* External: bt_dfu_smp_command returned 0.
Accepted(cmd, msg) == CanSend /\ pending' = cmd /\ air' = msg

\* External: bt_dfu_smp_command returned an error.
Refused == /\ ~CanSend \/ "refuse" \in Faults
           /\ UNCHANGED <<pending, air>>

\* The command button_handler tries first among the keys that went down.
FirstOf(keys) == IF "list" \in keys THEN "list"
                 ELSE IF "test" \in keys THEN "test" ELSE "confirm"

\* One interrupt may report several keys. Upload is only queued (again, if it
\* is running); the others are sent at once, and all but the first are refused
\* because dfu_smp is then busy.
button_handler(keys) ==
    /\ ThreadFree("button_handler")
    /\ queued' = (queued \/ "upload" \in keys)
    /\ \/ keys \cap Commands # {} /\ Accepted(FirstOf(keys), StateReq)
       \/ keys \cap Commands # {} /\ Refused
       \/ keys \cap Commands = {} /\ UNCHANGED <<pending, air>>
    /\ UNCHANGED <<bt, srv, upload_sem, pc, curr_addr, upload_chunk,
                   update_complete, data>>

-----------------------------------------------------------------------------
(* send_upload2, run by the work queue thread.                             *)

start_upload ==
    /\ pc = "idle" /\ queued
    /\ queued' = FALSE
    /\ pc' = "take"
    /\ curr_addr' = start_addr
    /\ upload_chunk' = UPLOAD_CHUNK
    /\ update_complete' = FALSE
    /\ data' = [i \in 0 .. UPLOAD_CHUNK |-> Junk]
    /\ UNCHANGED <<bt, pending, air, srv, upload_sem>>

\* A slot that is a whole number of chunks ends with a chunk of no bytes.
AtLastChunk == curr_addr + UPLOAD_CHUNK > last_addr

ChunkSize_NotShortened == upload_chunk
ChunkSize_OneShort == IF AtLastChunk /\ curr_addr < last_addr
                     THEN last_addr - curr_addr - 1 ELSE upload_chunk
ChunkSize == IF AtLastChunk THEN last_addr - curr_addr ELSE upload_chunk

\* k_sem_take(&upload_sem, K_FOREVER), then the size of the next chunk.
take_token ==
    /\ pc = "take" /\ upload_sem = 1
    /\ upload_sem' = 0
    /\ pc' = "send"
    /\ upload_chunk' = ChunkSize
    /\ update_complete' = (update_complete \/ AtLastChunk)
    /\ UNCHANGED <<bt, queued, curr_addr, data, pending, air, srv>>

\* flash_read or the encoder fails: return, without giving the token back.
give_up ==
    /\ "local" \in Faults
    /\ pc = "send"
    /\ pc' = "idle"
    /\ UNCHANGED <<bt, queued, upload_sem, curr_addr, upload_chunk,
                   update_complete, data, pending, air, srv>>

\* flash_read overwrites the first upload_chunk bytes of data and a '\0' goes
\* after them; the rest is what the previous chunk left.
FlashRead_FromStart == [i \in 0 .. UPLOAD_CHUNK |->
                        IF i < upload_chunk THEN start_addr + i
                        ELSE IF i = upload_chunk THEN Nul ELSE data[i]]
FlashRead == [i \in 0 .. UPLOAD_CHUNK |->
                IF i < upload_chunk THEN curr_addr + i
                ELSE IF i = upload_chunk THEN Nul ELSE data[i]]

\* zcbor_bstr_put_lit sends sizeof(data) - 1 bytes, whatever upload_chunk is.
EncodedData == [i \in 0 .. UPLOAD_CHUNK - 1 |-> FlashRead[i]]

ChunkOffset_Constant == 0
ChunkOffset == curr_addr - start_addr

Advance_Not == curr_addr
Advance == curr_addr + upload_chunk

send_chunk ==
    /\ pc = "send"
    /\ data' = FlashRead
    /\ curr_addr' = Advance
    /\ \/ /\ Accepted("upload", UploadReq(ChunkOffset, EncodedData))
          /\ pc' = IF update_complete THEN "idle" ELSE "take"
       \/ Refused /\ pc' = "idle"
    /\ UNCHANGED <<bt, queued, upload_sem, upload_chunk, update_complete, srv>>

send_upload2 == start_upload \/ take_token \/ give_up \/ send_chunk

-----------------------------------------------------------------------------
(* Responses.                                                              *)

\* The checks before the give: operation, group and command of the header, the
\* CBOR map, "rc" of value 0, then "off", which is decoded and ignored.
ChecksPass_AnyRc == air.type = "upload_rsp"
ChecksPass == air.type = "upload_rsp" /\ air.ok

\* On any failed check the handler returns before k_sem_give.
smp_upload_rsp_proc ==
    /\ pending = "upload"
    /\ air.type \in {"upload_rsp", "state_rsp"}
    /\ pending' = "none"
    /\ air' = NoMsg
    /\ upload_sem' = IF ChecksPass THEN 1 ELSE upload_sem
    /\ UNCHANGED <<bt, worker, srv>>

\* The handler of list, test and confirm leaves the upload alone.
smp_list_rsp_proc_Gives ==
    /\ pending \in Commands
    /\ air.type \in {"upload_rsp", "state_rsp"}
    /\ pending' = "none"
    /\ air' = NoMsg
    /\ upload_sem' = 1
    /\ UNCHANGED <<bt, worker, srv>>
smp_list_rsp_proc ==
    /\ pending \in Commands
    /\ air.type \in {"upload_rsp", "state_rsp"}
    /\ pending' = "none"
    /\ air' = NoMsg
    /\ UNCHANGED <<bt, worker, srv, upload_sem>>

\* External: the peer's upload handler. Offset 0 starts a new upload, the
\* expected offset continues it, any other offset is answered with the
\* expected one and stores nothing. Offset 0 may be answered like that too: the
\* client calls every image by the same "sha", so that the peer may take the
\* start of an upload for a question where the unfinished one is to go on.
Stored(off, d) ==
    [i \in 0 .. ImageLen + UPLOAD_CHUNK - 1 |->
        IF i >= off /\ i < off + UPLOAD_CHUNK THEN d[i - off]
        ELSE IF off = 0 THEN Erased ELSE srv.image[i]]

server_upload ==
    /\ air.type = "upload_req"
    /\ \/ /\ air.off \in {0, srv.off}
          /\ srv' = [off |-> air.off + UPLOAD_CHUNK,
                     image |-> Stored(air.off, air.data)]
          /\ air' = UploadRsp(TRUE, air.off + UPLOAD_CHUNK)
       \/ /\ air.off # srv.off
          /\ air.off = 0 => srv.off < ImageLen
          /\ air' = UploadRsp(TRUE, srv.off)
          /\ UNCHANGED srv
       \/ /\ "server" \in Faults
          /\ air' = UploadRsp(FALSE, 0)
          /\ UNCHANGED srv
    /\ UNCHANGED <<bt, worker, pending, upload_sem>>

\* External: the peer answers list, test and confirm.
server_state ==
    /\ air.type = "state_req"
    /\ air' = StateRsp
    /\ UNCHANGED <<bt, worker, pending, srv, upload_sem>>

\* External: the peer drops a request.
server_silent ==
    /\ "silent" \in Faults
    /\ air.type \in {"upload_req", "state_req"}
    /\ air' = NoMsg
    /\ UNCHANGED <<bt, worker, pending, srv, upload_sem>>

server == server_upload \/ server_state \/ server_silent

-----------------------------------------------------------------------------
Next ==
    \/ \E c \in Conns : \/ scan_connecting(c)
                        \/ connected(c)
                        \/ connected_err(c)
                        \/ link_lost(c)
                        \/ disconnected(c)
    \/ scan_connecting_error
    \/ discovery_completed_cb
    \/ discovery_failed
    \/ \E keys \in SUBSET Keys \ {{}} : button_handler(keys)
    \/ send_upload2
    \/ smp_upload_rsp_proc
    \/ smp_list_rsp_proc
    \/ server
    \/ client_reset

Spec == Init /\ [][Next]_vars

\* The work queue thread runs when it can, and takes what is queued in order,
\* so that a disconnected() that waits for its turn gets it; while a link is up
\* its messages are answered and delivered; a peer in range keeps advertising, so
\* that attempts to connect are made and end, and of endless attempts some
\* succeed; discovery ends. Button presses and failures are never forced.
Fairness ==
    /\ WF_vars(send_upload2)
    /\ SF_vars(\E c \in Conns : disconnected(c))
    /\ WF_vars(server)
    /\ WF_vars(smp_upload_rsp_proc \/ smp_list_rsp_proc)
    /\ WF_vars(\E c \in Conns : scan_connecting(c))
    /\ WF_vars(\E c \in Conns : connected(c) \/ connected_err(c))
    /\ SF_vars(\E c \in Conns : connected(c))
    /\ WF_vars(discovery_completed_cb \/ discovery_failed)

FairSpec == Spec /\ Fairness

-----------------------------------------------------------------------------
(* Properties.                                                             *)

UploadInAir == air.type \in {"upload_req", "upload_rsp"}
StateInAir == air.type \in {"state_req", "state_rsp"}

\* The token that stands for "a chunk may be sent" exists at most once: free
\* in upload_sem, held by the work queue thread, or travelling with the chunk
\* that is being answered. Two of them would pipeline chunks, which the
\* comment in send_upload2 ("Wait until response is received until sending
\* the next chunk") excludes, with any buttons, refusals and disconnections.
OneToken ==
    /\ upload_sem = 1 => pc # "send" /\ ~UploadInAir
    /\ pc = "send" => ~UploadInAir

\* A response reaches the handler of the command it answers. This rests on the
\* library, which carries one command at a time, and on the link; every
\* command has sequence number 0. Used by the proofs.
ResponseForHandler ==
    /\ UploadInAir => pending = "upload"
    /\ StateInAir => pending \in Commands

\* Every byte the peer has counted as received of the image is the byte of the
\* secondary slot at that offset, however the upload was interrupted and
\* restarted and whatever the last, padded chunk carries.
PeerHoldsPrefix ==
    \A i \in 0 .. ImageLen - 1 :
        i < srv.off => srv.image[i] = start_addr + i

\* The scan and the connection exclude each other, a live connection object is
\* default_conn, and main.c holds exactly one reference, on default_conn: no
\* path through scan_connecting, connected and disconnected leaks an object or
\* starts a second connection.
OneConnection ==
    /\ scanning => default_conn = NoConn
    /\ \A c \in Conns : /\ refs[c] = IF default_conn = c THEN 1 ELSE 0
                        /\ conn[c] # "free" => default_conn = c

\* The token is nowhere: not free, not held, not on its way.
TokenLost == upload_sem = 0 /\ pc # "send" /\ ~UploadInAir

\* A token lost to a failure or a disconnection stays lost: no button, no
\* reconnection and no other response ever brings the upload back (upload_sem
\* is given in one place, smp_upload_rsp_proc), short of resetting the board.
LostForGood == [][TokenLost => TokenLost' \/ client_reset]_vars

\* The upload implements the transfer of ImageTransfer: what the peer counts
\* as received is a prefix of the slot, growing by a chunk or starting over.
Transfer == INSTANCE ImageTransfer WITH
    Source <- [i \in 1 .. ImageLen |-> start_addr + i - 1],
    MaxChunk <- UPLOAD_CHUNK,
    received <- [i \in 1 .. (IF srv.off < ImageLen THEN srv.off ELSE ImageLen)
                    |-> srv.image[i - 1]]
ImplementsTransfer == Transfer!TSpec

\* While send_upload2 is under way and able to send, its next offset is not
\* beyond the one the peer expects, although the "off" of every response is
\* ignored: no hole is left. A client that was reset walks a peer that resumes
\* the unfinished upload through what it already has.
OffsetInStep ==
    /\ pc \in {"take", "send"} /\ curr_addr > start_addr /\ CanSend
    /\ pc = "send" \/ upload_sem = 1
    => srv.off >= curr_addr - start_addr

\* When send_upload2 has run to its end and the token is back, the peer has
\* stored the whole slot.
FinishedMeansStored ==
    pc = "idle" /\ upload_sem = 1 /\ update_complete
    => \A i \in 0 .. ImageLen - 1 : srv.image[i] = start_addr + i

\* An upload the peer has begun to receive ends: the peer gets all of it, or
\* the token is lost and with it the upload, or the client was reset and is
\* not uploading.
UploadEnds ==
    (0 < srv.off /\ srv.off < ImageLen)
    ~> (srv.off >= ImageLen \/ TokenLost \/ (pc = "idle" /\ ~UploadInAir))

\* send_upload2 waits for a token that nobody will give.
UploadStuck == pc = "take" /\ TokenLost

\* The client is connected again and again, whatever failed, unless it is reset
\* for ever, with three exceptions that the code does not recover from. Once the
\* token is lost (with the link, to a failed send, to an answer that is missed or
\* rejected), send_upload2 waits for it for ever, at once or at the next press,
\* and a disconnected() that needs its thread never runs. A scan that does not
\* start, or an attempt that cannot be made, is not tried again.
KeepsReconnecting ==
    \/ []<>(default_conn # NoConn /\ conn[default_conn] = "connected")
    \/ "disconnected" \in OnWorkQueue /\ <>[]UploadStuck
    \/ <>[]scan_failed
    \/ []<><<client_reset>>_vars

-----------------------------------------------------------------------------
(* What the texts of the sample say and the program does not do.           *)

\* README step 7: "Press button 2 on nRF52840DK_client to run the upload
\* command. The progress bar should appear". The bar is printed after the
\* token is taken, so with a usable link a press would have to lead there.
PressUploads == (queued /\ CanSend) ~> (pc = "send")

\* send_upload2: "One more byte, to store '/0'", that is, beside the bytes of
\* the image and not among those sent.
NulNotSent ==
    air.type = "upload_req" => \A i \in DOMAIN air.data : air.data[i] # Nul
=============================================================================
