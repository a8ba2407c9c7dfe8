------------------------- MODULE SmpDeliveryProofs -------------------------
(***************************************************************************)
(* An upload that runs to its end has delivered the whole image: the two   *)
(* invariants of SmpClient about a client that ignores the offset its peer *)
(* expects, for every slot, chunk size, pool, set of keys and of failures. *)
(*                                                                         *)
(* They rest on where the SDK runs disconnected(): on the thread of        *)
(* send_upload2, so that an upload that has begun to send does not see its *)
(* connection go and another one come. This is HoldsLink, and the thread   *)
(* is used in one place, Disconnection.                                    *)
(***************************************************************************)
EXTENDS SmpClientProofs

(* The bytes of the slot that send_upload2 has behind it.                  *)
Sent == curr_addr - start_addr

(* send_upload2 has a chunk it may send now.                               *)
Holding == pc = "send" \/ (pc = "take" /\ upload_sem = 1)

(* The peer has the whole slot.                                            *)
WholeStored == \A i \in 0 .. ImageLen - 1 : srv.image[i] = start_addr + i

(* A message or a discovery under way belongs to a connection that is up.  *)
ConnInv ==
    /\ discovering # NoConn => conn[discovering] = "connected"
    /\ air.type # "none" => dfu_conn # NoConn /\ conn[dfu_conn] = "connected"

(* An upload that has sent a chunk still has the connection it sent it on. *)
HoldsLink ==
    pc \in {"take", "send"} /\ curr_addr > start_addr =>
        default_conn # NoConn /\ conn[default_conn] \in {"connected", "lost"}

(* Until the last chunk both boards count in whole chunks.                 *)
Multiple(n) == \E k \in Nat : n = k * UPLOAD_CHUNK
WholeChunks ==
    /\ Multiple(srv.off)
    /\ air.type = "upload_req" => Multiple(air.off)
    /\ pc \in {"take", "send"} => Multiple(Sent)

(* What is sent next, what is on its way and what an answer acknowledges   *)
(* leaves no hole at the peer.                                             *)
Linked == default_conn # NoConn /\ conn[default_conn] = "connected"
MayContinue == Holding /\ Linked => Sent <= srv.off
RequestInStep ==
    air.type = "upload_req" =>
        /\ air.off <= srv.off
        /\ pc = "take" /\ curr_addr > start_addr => Sent = air.off + UPLOAD_CHUNK
AnswerInStep ==
    air.type = "upload_rsp" /\ air.ok /\ pc = "take" => Sent <= srv.off
InStep == MayContinue /\ RequestInStep /\ AnswerInStep

(* After the last chunk: it reaches the end of the slot, its acceptance    *)
(* completes the image, and only then does the token come back.            *)
Finishing ==
    pc = "idle" /\ update_complete =>
        /\ air.type = "upload_req" => air.off + UPLOAD_CHUNK >= ImageLen
        /\ air.type = "upload_rsp" /\ air.ok => WholeStored
        /\ upload_sem = 1 => WholeStored

DeliveryInv == ConnInv /\ HoldsLink /\ WholeChunks /\ InStep /\ Finishing

-----------------------------------------------------------------------------
(* Arithmetic of chunks.                                                   *)

\* The beginning of the slot is the end of a chunk, and so is what follows a chunk.
LEMMA MultipleZero == Multiple(0)
  BY SlotAssumption DEF Multiple

LEMMA MultipleNext ==
    ASSUME NEW n, Multiple(n)
    PROVE  Multiple(n + UPLOAD_CHUNK)
<1>1. PICK k \in Nat : n = k * UPLOAD_CHUNK
  BY DEF Multiple
<1>2. n + UPLOAD_CHUNK = (k + 1) * UPLOAD_CHUNK
  BY <1>1, SlotAssumption
<1> QED
  BY <1>2 DEF Multiple

\* Between two multiples there is room for a chunk.
LEMMA MultipleGap ==
    ASSUME NEW m, NEW n, Multiple(m), Multiple(n), m < n
    PROVE  m + UPLOAD_CHUNK <= n
<1>1. PICK j \in Nat : m = j * UPLOAD_CHUNK
  BY DEF Multiple
<1>2. PICK k \in Nat : n = k * UPLOAD_CHUNK
  BY DEF Multiple
<1>3. ASSUME k <= j
      PROVE  FALSE
  <2>1. (j - k) * UPLOAD_CHUNK >= 0
    BY <1>3, SlotAssumption
  <2>2. j * UPLOAD_CHUNK = k * UPLOAD_CHUNK + (j - k) * UPLOAD_CHUNK
    BY SlotAssumption
  <2>3. /\ j * UPLOAD_CHUNK \in Int /\ k * UPLOAD_CHUNK \in Int
        /\ (j - k) * UPLOAD_CHUNK \in Int
    BY SlotAssumption
  <2> QED
    BY <1>1, <1>2, <2>1, <2>2, <2>3
<1>4. (k - (j + 1)) * UPLOAD_CHUNK >= 0
  BY <1>3, SlotAssumption
<1>5. k * UPLOAD_CHUNK = j * UPLOAD_CHUNK + UPLOAD_CHUNK + (k - (j + 1)) * UPLOAD_CHUNK
  BY SlotAssumption
<1>6. /\ j * UPLOAD_CHUNK \in Int /\ k * UPLOAD_CHUNK \in Int
      /\ (k - (j + 1)) * UPLOAD_CHUNK \in Int
  BY SlotAssumption
<1> QED
  BY <1>1, <1>2, <1>4, <1>5, <1>6, SlotAssumption

\* curr_addr does not run behind the beginning of the slot.
LEMMA SentType ==
    ASSUME WorkerTypeOK
    PROVE  /\ Sent \in Nat
           /\ curr_addr = start_addr => Sent = 0
           /\ curr_addr > start_addr \/ curr_addr = start_addr
  BY SlotAssumption DEF WorkerTypeOK, Sent

-----------------------------------------------------------------------------
(* What a step of each kind does to the two boards.                        *)

\* Only default_conn is in use.
LEMMA InUseIsDefault ==
    ASSUME OneConnection, NEW c \in Conns, conn[c] # "free"
    PROVE  default_conn = c /\ c # NoConn
  BY ConnAssumption DEF OneConnection

\* A loss takes the message with it, and leaves no usable connection.
LEMMA Loss ==
    ASSUME IInv, ConnInv, NEW c \in Conns, link_lost(c)
    PROVE  /\ default_conn = c /\ default_conn' = c
           /\ conn[c] = "connected" /\ conn'[c] = "lost"
           /\ air'.type = "none"
           /\ srv'.image = srv.image
           /\ srv'.off \in {srv.off, 0}
<1>1. default_conn = c /\ default_conn' = c
  BY InUseIsDefault DEF link_lost, IInv
<1>2. conn[c] = "connected" /\ conn'[c] = "lost"
  BY DEF link_lost, IInv, TypeOK, BtTypeOK
<1>3. air'.type = "none"
  <2>1. CASE dfu_conn = c
    BY <2>1 DEF link_lost, DropCommand, NoMsg
  <2>2. CASE dfu_conn # c
    <3>1. air.type = "none"
      BY <1>1, <2>2, InUseIsDefault DEF IInv, TypeOK, BtTypeOK, ConnInv
    <3> QED
      BY <2>2, <3>1 DEF link_lost, DropCommand
  <2> QED
    BY <2>1, <2>2
<1>4. srv'.image = srv.image /\ srv'.off \in {srv.off, 0}
  BY DEF link_lost
<1> QED
  BY <1>1, <1>2, <1>3, <1>4

\* disconnected() does not run before send_upload2 has returned.
LEMMA Disconnection ==
    ASSUME "disconnected" \in OnWorkQueue, NEW c \in Conns, disconnected(c)
    PROVE  pc = "idle"
  BY DEF disconnected, ThreadFree

\* The connection callbacks leave messages, peer and worker alone.
LEMMA CallbacksQuiet ==
    ASSUME BtStep, \A c \in Conns : ~link_lost(c)
    PROVE  UNCHANGED <<air, srv, upload_sem, pc, curr_addr, update_complete>>
  BY DEF BtStep, scan_connecting, scan_connecting_error, connected, connected_err,
     release, disconnected, discovery_completed_cb, discovery_failed, worker

\* No connection comes up under an upload that has sent a chunk: the object is
\* no longer connecting, and the scan is off.
LEMMA Reconnection ==
    ASSUME IInv, HoldsLink, BtStep, \A c \in Conns : ~link_lost(c), Linked',
           pc \in {"take", "send"}, curr_addr > start_addr
    PROVE  Linked
<1> USE DEF IInv, TypeOK, BtTypeOK
<1>1. ~scanning /\ default_conn \in Conns
  BY DEF HoldsLink, OneConnection
<1>2. ASSUME NEW c \in Conns, connected(c) \/ connected_err(c)
      PROVE  FALSE
  <2>1. conn[c] = "connecting" /\ default_conn = c
    BY <1>2, InUseIsDefault DEF connected, connected_err
  <2> QED
    BY <2>1 DEF HoldsLink
<1>3. ASSUME NEW c \in Conns, disconnected(c)
      PROVE  FALSE
  <2>1. default_conn = c
    BY <1>3, InUseIsDefault DEF disconnected
  <2>2. default_conn' = NoConn
    BY <1>3, <2>1 DEF disconnected, release
  <2> QED
    BY <2>2 DEF Linked
<1>4. CASE discovery_completed_cb \/ discovery_failed
  BY <1>4 DEF discovery_completed_cb, discovery_failed, Linked
<1> QED
  BY <1>1, <1>2, <1>3, <1>4 DEF BtStep, scan_connecting, scan_connecting_error

\* HoldsLink is kept by the connection callbacks, because of the thread that
\* disconnected() runs on; send_upload2 goes on only over a connection.
LEMMA HoldsLinkKept ==
    ASSUME "disconnected" \in OnWorkQueue, IInv, ConnInv, HoldsLink, Step
    PROVE  HoldsLink'
<1> USE DEF HoldsLink, IInv, TypeOK, BtTypeOK
<1>1. CASE BtStep /\ pc \in {"take", "send"} /\ curr_addr > start_addr
  <2>1. ~scanning /\ default_conn \in Conns
    BY <1>1 DEF OneConnection
  <2>2. ASSUME NEW c \in Conns, connected(c) \/ connected_err(c)
        PROVE  FALSE
    <3>1. conn[c] = "connecting" /\ default_conn = c
      BY <2>2, InUseIsDefault DEF connected, connected_err
    <3> QED
      BY <1>1, <3>1
  <2>3. ASSUME NEW c \in Conns, link_lost(c)
        PROVE  HoldsLink'
    BY <2>1, <2>3, Loss, ConnAssumption
  <2>4. ASSUME NEW c \in Conns, disconnected(c)
        PROVE  FALSE
    BY <1>1, <2>4, Disconnection
  <2>5. CASE discovery_completed_cb \/ discovery_failed
    BY <1>1, <2>5 DEF discovery_completed_cb, discovery_failed, worker
  <2> QED
    BY <1>1, <2>1, <2>2, <2>3, <2>4, <2>5
       DEF BtStep, scan_connecting, scan_connecting_error
<1>2. CASE BtStep /\ ~(pc \in {"take", "send"} /\ curr_addr > start_addr)
  BY <1>2, WorkerUntouched
<1>3. CASE LinkStep
  BY <1>3, WorkerUntouched, BtUntouched DEF bt
<1>4. CASE send_upload2
  <2>1. UNCHANGED <<conn, default_conn, dfu_conn>>
    BY <1>4, BtUntouched DEF bt
  <2>2. CASE start_upload
    BY <2>2, SlotAssumption DEF start_upload
  <2>3. CASE take_token
    BY <2>1, <2>3 DEF take_token
  <2>4. CASE give_up
    BY <2>4 DEF give_up
  <2>5. CASE send_chunk
    <3>1. CASE pc' = "idle"
      BY <3>1
    <3>2. CASE CanSend
      <4>1. dfu_conn \in Conns /\ conn[dfu_conn] = "connected"
        BY <3>2 DEF CanSend
      <4>2. default_conn = dfu_conn /\ dfu_conn # NoConn
        BY <4>1, InUseIsDefault
      <4> QED
        BY <2>1, <4>1, <4>2
    <3> QED
      BY <2>5, <3>1, <3>2 DEF send_chunk, Accepted
  <2> QED
    BY <1>4, <2>2, <2>3, <2>4, <2>5 DEF send_upload2
<1> QED
  BY <1>1, <1>2, <1>3, <1>4 DEF Step

\* Commands, responses and the worker put a message on the air only in answer
\* to one or over a connection that is up.
LEMMA MessageOverLink ==
    ASSUME LinkStep \/ send_upload2
    PROVE  air'.type = "none" \/ air.type # "none" \/ CanSend
<1>1. ASSUME NEW keys \in SUBSET Keys, button_handler(keys)
      PROVE  air' = air \/ CanSend
  BY <1>1 DEF button_handler, Accepted, Refused
<1>2. CASE smp_upload_rsp_proc \/ smp_list_rsp_proc
  BY <1>2 DEF smp_upload_rsp_proc, smp_list_rsp_proc, NoMsg
<1>3. CASE server
  BY <1>3 DEF server, server_upload, server_state, server_silent
<1>4. CASE send_upload2
  BY <1>4 DEF send_upload2, start_upload, take_token, give_up, send_chunk,
     Accepted, Refused
<1> QED
  BY <1>1, <1>2, <1>3, <1>4 DEF LinkStep

\* ConnInv is kept: it is the loss that ends both.
LEMMA ConnPreserved ==
    ASSUME IInv, ConnInv, Step
    PROVE  ConnInv'
<1> USE DEF ConnInv, IInv, TypeOK, BtTypeOK
<1>1. ASSUME NEW c \in Conns, scan_connecting(c)
      PROVE  ConnInv'
  BY <1>1, ConnAssumption DEF scan_connecting
<1>2. ASSUME NEW c \in Conns, connected(c)
      PROVE  ConnInv'
  BY <1>2, ConnAssumption DEF connected
<1>3. ASSUME NEW c \in Conns, connected_err(c)
      PROVE  ConnInv'
  BY <1>3, ConnAssumption DEF connected_err
<1>4. ASSUME NEW c \in Conns, link_lost(c)
      PROVE  ConnInv'
  <2>1. air'.type = "none"
    BY <1>4, Loss
  <2>2. discovering' # NoConn => conn'[discovering'] = "connected"
    BY <1>4, ConnAssumption DEF link_lost
  <2> QED
    BY <2>1, <2>2
<1>5. CASE scan_connecting_error
  BY <1>5 DEF scan_connecting_error
<1>6. CASE discovery_completed_cb
  BY <1>6 DEF discovery_completed_cb
<1>7. CASE discovery_failed
  BY <1>7 DEF discovery_failed
<1>8. ASSUME NEW c \in Conns, disconnected(c)
      PROVE  ConnInv'
  BY <1>8, ConnAssumption DEF disconnected
<1>9. CASE LinkStep \/ send_upload2
  <2>1. UNCHANGED <<conn, discovering, dfu_conn>>
    BY <1>9, BtUntouched DEF bt
  <2> QED
    BY <1>9, <2>1, MessageOverLink DEF CanSend
<1> QED
  BY <1>1, <1>2, <1>3, <1>4, <1>5, <1>6, <1>7, <1>8, <1>9 DEF Step, BtStep

-----------------------------------------------------------------------------
(* Progress of the upload, action by action.                               *)
Progress == WholeChunks /\ InStep /\ Finishing

\* A step that touches neither the worker nor the peer, and at most ends the
\* conversation about the upload.
LEMMA QuietProgress ==
    ASSUME Progress,
           UNCHANGED <<pc, upload_sem, curr_addr, update_complete, srv>>,
           air' = air \/ air'.type \notin {"upload_req", "upload_rsp"},
           Holding /\ Linked' => Linked \/ Sent <= srv.off
    PROVE  Progress'
<1>1. WholeChunks'
  BY DEF Progress, WholeChunks, Sent
<1>2. InStep'
  <2>1. MayContinue'
    BY DEF Progress, InStep, MayContinue, Sent, Holding
  <2> QED
    BY <2>1 DEF Progress, InStep, RequestInStep, AnswerInStep, Sent
<1>3. Finishing'
  BY DEF Progress, Finishing, WholeStored
<1> QED
  BY <1>1, <1>2, <1>3 DEF Progress

\* The connection callbacks: a loss takes what is on its way with it, and the peer
\* may start over; a connection that comes up finds no upload that has sent.
LEMMA BtProgress ==
    ASSUME IInv, ConnInv, HoldsLink, Progress, BtStep
    PROVE  Progress'
<1>1. UNCHANGED <<pc, curr_addr, update_complete>>
  BY WorkerUntouched
<1>2. CASE \A c \in Conns : ~link_lost(c)
  <2>1. ASSUME Holding, Linked', ~Linked
        PROVE  Sent <= srv.off
    <3>1. curr_addr = start_addr
      BY <1>2, <2>1, Reconnection, SlotAssumption
         DEF Holding, IInv, TypeOK, WorkerTypeOK
    <3> QED
      BY <3>1, SlotAssumption DEF Sent, IInv, TypeOK, LinkTypeOK, ImageLen
  <2> QED
    BY <1>2, <2>1, CallbacksQuiet, QuietProgress
<1>3. ASSUME NEW c \in Conns, link_lost(c)
      PROVE  Progress'
  <2>1. UNCHANGED upload_sem
    BY <1>3 DEF link_lost
  <2>2. /\ ~Linked' /\ air'.type = "none"
        /\ srv'.image = srv.image /\ srv'.off \in {srv.off, 0}
    BY <1>3, Loss DEF Linked
  <2>3. WholeChunks'
    BY <1>1, <2>2, MultipleZero DEF Progress, WholeChunks, Sent
  <2>4. InStep'
    BY <2>2 DEF InStep, MayContinue, RequestInStep, AnswerInStep
  <2>5. Finishing'
    BY <1>1, <2>1, <2>2 DEF Progress, Finishing, WholeStored
  <2> QED
    BY <2>3, <2>4, <2>5 DEF Progress
<1> QED
  BY <1>2, <1>3

\* An answer gives the token back: what it acknowledges is at the peer.
LEMMA AnswerProgress ==
    ASSUME IInv, Progress, smp_upload_rsp_proc
    PROVE  Progress'
<1>1. /\ UNCHANGED <<pc, curr_addr, update_complete, srv, default_conn, conn>>
      /\ air'.type = "none"
      /\ upload_sem' = IF ChecksPass THEN 1 ELSE upload_sem
  BY DEF smp_upload_rsp_proc, worker, bt, NoMsg
<1>2. WholeChunks'
  BY <1>1 DEF Progress, WholeChunks, Sent
<1>3. InStep'
  BY <1>1 DEF Progress, InStep, MayContinue, RequestInStep, AnswerInStep,
     Sent, Holding, Linked, ChecksPass
<1>4. Finishing'
  BY <1>1 DEF Progress, Finishing, WholeStored, ChecksPass
<1> QED
  BY <1>2, <1>3, <1>4 DEF Progress

\* A chunk that is accepted brings the peer past it; one that is not was sent
\* to a peer that is past it already.
LEMMA ServerProgress ==
    ASSUME IInv, IInv', Progress, server_upload
    PROVE  Progress'
<1>1. /\ UNCHANGED <<pc, upload_sem, curr_addr, update_complete, default_conn>>
      /\ air.type = "upload_req" /\ air'.type = "upload_rsp"
  BY DEF server_upload, worker, bt, UploadRsp
<1>2. pc # "send" /\ upload_sem = 0
  BY <1>1 DEF IInv, TypeOK, WorkerTypeOK, OneToken, UploadInAir
<1>3. /\ air.off \in Nat /\ srv.off \in Nat /\ srv'.off \in Nat
      /\ Sent \in Nat /\ ImageLen \in Nat
  BY <1>1, AirFields, SentType, SlotAssumption
     DEF IInv, TypeOK, LinkTypeOK, ImageLen
<1>4. CASE ~air'.ok
  <2>1. UNCHANGED srv
    BY <1>4 DEF server_upload, UploadRsp
  <2>2. WholeChunks'
    BY <1>1, <2>1 DEF Progress, WholeChunks, Sent
  <2>3. InStep'
    BY <1>1, <1>2, <1>4, <2>1
       DEF Progress, InStep, MayContinue, RequestInStep, AnswerInStep, Holding
  <2>4. Finishing'
    BY <1>1, <1>2, <1>4 DEF Finishing
  <2> QED
    BY <2>2, <2>3, <2>4 DEF Progress
<1>5. CASE air'.ok
  <2>1. Multiple(srv'.off) /\ srv'.off >= air.off + UPLOAD_CHUNK
    <3>1. CASE srv'.off = air.off + UPLOAD_CHUNK
      BY <1>1, <1>3, <3>1, MultipleNext, SlotAssumption DEF Progress, WholeChunks
    <3>2. CASE UNCHANGED srv /\ air.off # srv.off
      <4>1. air.off < srv.off /\ Multiple(air.off) /\ Multiple(srv.off)
        BY <1>1, <1>3, <3>2 DEF Progress, InStep, RequestInStep, WholeChunks
      <4>2. air.off + UPLOAD_CHUNK <= srv.off
        BY <4>1, MultipleGap
      <4> QED
        BY <1>3, <3>2, <4>1, <4>2, SlotAssumption
    <3>3. \/ srv'.off = air.off + UPLOAD_CHUNK
          \/ UNCHANGED srv /\ air.off # srv.off
      BY <1>5 DEF server_upload, UploadRsp
    <3> QED
      BY <3>1, <3>2, <3>3
  <2>2. WholeChunks'
    BY <1>1, <2>1 DEF Progress, WholeChunks, Sent
  <2>3. InStep'
    <3>1. MayContinue' /\ RequestInStep'
      BY <1>1, <1>2 DEF MayContinue, RequestInStep, Holding
    <3>2. pc = "take" => Sent <= srv'.off
      BY <1>1, <1>3, <2>1, SentType
         DEF Progress, InStep, RequestInStep, IInv, TypeOK
    <3>3. AnswerInStep'
      BY <1>1, <3>2 DEF AnswerInStep, Sent
    <3> QED
      BY <3>1, <3>3 DEF InStep
  <2>4. Finishing'
    <3>1. pc = "idle" /\ update_complete => srv'.off >= ImageLen
      BY <1>1, <1>3, <2>1, SlotAssumption DEF Progress, Finishing
    <3>2. srv'.off >= ImageLen => WholeStored'
      BY <1>3 DEF IInv, ImageInv, PeerHoldsPrefix, WholeStored, ImageLen
    <3> QED
      BY <1>1, <1>2, <3>1, <3>2 DEF Finishing
  <2> QED
    BY <2>2, <2>3, <2>4 DEF Progress
<1> QED
  BY <1>4, <1>5

\* Buttons and the other responses do not touch the upload.
LEMMA LinkProgress ==
    ASSUME IInv, IInv', Progress, LinkStep
    PROVE  Progress'
<1>1. UNCHANGED <<pc, curr_addr, update_complete>> /\ Linked' = Linked
  BY WorkerUntouched, BtUntouched DEF bt, Linked
<1>2. ASSUME NEW keys \in SUBSET Keys, button_handler(keys)
      PROVE  Progress'
  <2>1. UNCHANGED <<upload_sem, srv>>
    BY <1>2 DEF button_handler
  <2>2. air' = air \/ air'.type \notin {"upload_req", "upload_rsp"}
    BY <1>2 DEF button_handler, Accepted, Refused, StateReq
  <2> QED
    BY <1>1, <2>1, <2>2, QuietProgress
<1>3. CASE smp_list_rsp_proc \/ server_state \/ server_silent
  <2>1. UNCHANGED <<upload_sem, srv>> /\ air' \in {NoMsg, StateRsp}
    BY <1>3 DEF smp_list_rsp_proc, server_state, server_silent
  <2>2. air'.type \notin {"upload_req", "upload_rsp"}
    BY <2>1 DEF NoMsg, StateRsp
  <2> QED
    BY <1>1, <2>1, <2>2, QuietProgress
<1> QED
  BY <1>2, <1>3, AnswerProgress, ServerProgress DEF LinkStep, server

\* The worker starts at the beginning, and a chunk that it sends starts where
\* the peer is, or before.
LEMMA WorkerProgress ==
    ASSUME IInv, Progress, send_upload2
    PROVE  Progress'
<1> USE DEF Progress, WholeChunks, InStep, MayContinue, RequestInStep,
            AnswerInStep, Finishing
<1>1. CASE start_upload
  <2>1. /\ pc' = "take" /\ Sent' = 0 /\ curr_addr' = start_addr
        /\ UNCHANGED <<air, srv>>
    BY <1>1, SlotAssumption DEF start_upload, Sent
  <2>2. 0 <= srv.off
    BY SlotAssumption DEF IInv, TypeOK, LinkTypeOK, ImageLen
  <2> QED
    BY <2>1, <2>2, MultipleZero, SlotAssumption
<1>2. CASE take_token
  <2>1. /\ pc = "take" /\ upload_sem = 1 /\ pc' = "send" /\ upload_sem' = 0
        /\ UNCHANGED <<air, srv, curr_addr>> /\ Linked' = Linked
    BY <1>2 DEF take_token, bt, Linked
  <2>2. air.type \notin {"upload_req", "upload_rsp"}
    BY <2>1 DEF IInv, OneToken, UploadInAir
  <2> QED
    BY <2>1, <2>2 DEF Sent, Holding
<1>3. ASSUME pc = "send", pc' = "idle", UNCHANGED <<air, srv, upload_sem>>
      PROVE  Progress'
  <2>1. air.type \notin {"upload_req", "upload_rsp"} /\ upload_sem = 0
    BY <1>3 DEF IInv, OneToken, UploadInAir, TypeOK, WorkerTypeOK
  <2> QED
    BY <1>3, <2>1 DEF Holding
<1>4. CASE give_up
  BY <1>3, <1>4 DEF give_up
<1>5. CASE send_chunk
  <2>1. pc = "send" /\ upload_sem = 0 /\ UNCHANGED <<srv, upload_sem, update_complete>>
    BY <1>5 DEF send_chunk, IInv, OneToken, TypeOK, WorkerTypeOK
  <2>2. CASE Refused /\ pc' = "idle"
    BY <1>3, <2>1, <2>2 DEF Refused
  <2>3. CASE /\ Accepted("upload", UploadReq(ChunkOffset, EncodedData))
             /\ pc' = IF update_complete THEN "idle" ELSE "take"
    <3>1. air'.type = "upload_req" /\ air'.off = Sent
      BY <2>3 DEF Accepted, UploadReq, ChunkOffset, Sent
    <3>2. Sent <= srv.off
      <4>1. Linked
        BY <2>3, InUseIsDefault
           DEF Linked, Accepted, CanSend, IInv, TypeOK, BtTypeOK
      <4> QED
        BY <2>1, <4>1 DEF Holding
    <3>3. ~update_complete => Sent' = Sent + UPLOAD_CHUNK
      BY <1>5, <2>1, SlotAssumption
         DEF send_chunk, Advance, Sent, IInv, WorkerInv, TypeOK, WorkerTypeOK
    <3>4. update_complete => Sent + UPLOAD_CHUNK >= ImageLen
      BY <2>1, SlotAssumption
         DEF Sent, ImageLen, IInv, WorkerInv, TypeOK, WorkerTypeOK
    <3>5. Multiple(Sent) /\ (~update_complete => Multiple(Sent'))
      BY <2>1, <3>3, MultipleNext
    <3>6. ~Holding'
      BY <2>1, <2>3 DEF Holding
    <3>7. WholeChunks'
      BY <2>1, <2>3, <3>1, <3>5
    <3>8. InStep'
      BY <2>1, <2>3, <3>1, <3>2, <3>3, <3>6
    <3>9. Finishing'
      BY <2>1, <2>3, <3>1, <3>4
    <3> QED
      BY <3>7, <3>8, <3>9
  <2> QED
    BY <1>5, <2>2, <2>3 DEF send_chunk
<1> QED
  BY <1>1, <1>2, <1>4, <1>5 DEF send_upload2

-----------------------------------------------------------------------------
(* The invariant and its two readings.                                     *)

(* What a reset of the client leaves of the upload.                        *)
PeerCounts == srv.off \in Nat /\ Multiple(srv.off)

\* Nothing is under way when main() has run, whatever the peer holds.
LEMMA StartedDelivery == Started /\ PeerCounts => DeliveryInv
<1> SUFFICES ASSUME Started, PeerCounts PROVE DeliveryInv
  OBVIOUS
<1>1. ConnInv
  BY DEF Started, ConnInv, NoMsg
<1>2. HoldsLink /\ WholeChunks /\ InStep /\ Finishing
  BY DEF Started, HoldsLink, PeerCounts, NoMsg, WholeChunks, InStep, MayContinue,
         RequestInStep, AnswerInStep, Finishing, Holding
<1> QED
  BY <1>1, <1>2 DEF DeliveryInv

\* Also after a step that leads there.
LEMMA StartedDeliveryNext == Started' /\ PeerCounts' => DeliveryInv'
  BY StartedDelivery, PTL

\* Nothing is under way and nothing is stored.
LEMMA InitDelivery == Init => DeliveryInv
<1> SUFFICES ASSUME Init PROVE DeliveryInv
  OBVIOUS
<1>1. Started /\ srv.off = 0
  BY DEF Init, Started
<1> QED
  BY <1>1, MultipleZero, StartedDelivery DEF PeerCounts

\* Every step keeps it, provided disconnected() runs on the work queue.
LEMMA NextDelivery ==
    ASSUME "disconnected" \in OnWorkQueue
    PROVE  IInv /\ IInv' /\ DeliveryInv /\ [Next]_vars => DeliveryInv'
<1> SUFFICES ASSUME IInv, IInv', DeliveryInv, [Next]_vars
             PROVE  DeliveryInv'
  OBVIOUS
<1>1. CASE Step
  <2>1. ConnInv'
    BY <1>1, ConnPreserved DEF DeliveryInv
  <2>2. Progress
    BY DEF DeliveryInv, Progress
  <2>3. HoldsLink'
    BY <1>1, HoldsLinkKept DEF DeliveryInv
  <2>4. Progress'
    BY <1>1, <2>2, BtProgress, LinkProgress, WorkerProgress
       DEF DeliveryInv, Step
  <2> QED
    BY <2>1, <2>3, <2>4 DEF DeliveryInv, Progress
<1>2. CASE client_reset
  <2>1. Started' /\ UNCHANGED srv
    BY <1>2 DEF client_reset, bt_scan_start, Started
  <2>2. PeerCounts'
    BY <2>1, SlotAssumption
       DEF PeerCounts, DeliveryInv, WholeChunks, IInv, TypeOK, LinkTypeOK,
           ImageLen
  <2> QED
    BY <2>1, <2>2, StartedDeliveryNext
<1>3. CASE UNCHANGED vars
  BY <1>3 DEF vars, bt, worker, DeliveryInv, ConnInv, HoldsLink, Linked,
     WholeChunks, InStep, MayContinue, RequestInStep, AnswerInStep, Finishing, Holding, Sent,
     WholeStored
<1> QED
  BY <1>1, <1>2, <1>3, StepKinds

\* The invariant, of every behaviour.
LEMMA DeliveryInvariant ==
    ASSUME "disconnected" \in OnWorkQueue
    PROVE  Spec => []DeliveryInv
  BY InitDelivery, NextDelivery, Invariance, PTL DEF Spec

\* OffsetInStep: with disconnected() on the thread it has in the SDK, what
\* send_upload2 sends next never leaves a hole at the peer, though it ignores
\* every offset the peer answers with, whatever fails or restarts.
THEOREM OffsetAlwaysInStep ==
    ASSUME "disconnected" \in OnWorkQueue
    PROVE  Spec => []OffsetInStep
<1>1. IInv /\ DeliveryInv => OffsetInStep
  <2> SUFFICES ASSUME IInv, DeliveryInv, Holding, CanSend
               PROVE  srv.off >= curr_addr - start_addr
    BY DEF OffsetInStep, Holding
  <2>1. Linked
    BY InUseIsDefault DEF Linked, CanSend, IInv, TypeOK, BtTypeOK
  <2>2. Sent <= srv.off
    BY <2>1 DEF DeliveryInv, InStep, MayContinue
  <2>3. Sent \in Nat /\ srv.off \in Nat
    BY SentType, SlotAssumption DEF IInv, TypeOK, LinkTypeOK, ImageLen
  <2> QED
    BY <2>2, <2>3 DEF Sent
<1> QED
  BY <1>1, Invariance, DeliveryInvariant, PTL

\* FinishedMeansStored: when send_upload2 has run to its end and its last chunk
\* has been answered with success, the peer has the whole image, byte by byte.
THEOREM FinishedIsStored ==
    ASSUME "disconnected" \in OnWorkQueue
    PROVE  Spec => []FinishedMeansStored
<1>1. DeliveryInv => FinishedMeansStored
  BY DEF DeliveryInv, Finishing, WholeStored, FinishedMeansStored
<1> QED
  BY <1>1, DeliveryInvariant, PTL
=============================================================================
