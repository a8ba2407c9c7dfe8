-------------------------- MODULE SmpClientProofs --------------------------
(***************************************************************************)
(* Proofs about SmpClient, for every slot, chunk size, pool of connection  *)
(* objects, set of keys and set of failures.                               *)
(***************************************************************************)
EXTENDS SmpClient, TLAPS

(* What send_upload2 knows of its locals between two steps: the next chunk *)
(* is a whole one until the size is worked out, and then fits in the slot. *)
WorkerInv ==
    /\ pc = "take" => upload_chunk = UPLOAD_CHUNK
    /\ pc = "send" => upload_chunk = IF curr_addr + UPLOAD_CHUNK > last_addr
                                     THEN last_addr - curr_addr
                                     ELSE UPLOAD_CHUNK
    /\ pc = "take" => ~update_complete
    /\ pc = "send" => (update_complete <=> curr_addr + UPLOAD_CHUNK > last_addr)

TypeInv == TypeOK /\ OneConnection /\ WorkerInv

(* The chunk on its way carries the slot's bytes at its offset.            *)
RequestMatchesSlot ==
    air.type = "upload_req" =>
        \A i \in 0 .. UPLOAD_CHUNK - 1 :
            air.off + i < ImageLen => air.data[i] = start_addr + air.off + i

-----------------------------------------------------------------------------
(* Every action but a reset is one of three kinds: connection callbacks    *)
(* leave the worker alone, worker steps leave the connections alone, and   *)
(* so do commands and responses.                                           *)
BtStep ==
    \/ \E c \in Conns : \/ scan_connecting(c)
                        \/ connected(c)
                        \/ connected_err(c)
                        \/ link_lost(c)
                        \/ disconnected(c)
    \/ scan_connecting_error
    \/ discovery_completed_cb
    \/ discovery_failed

LinkStep ==
    \/ \E keys \in SUBSET Keys \ {{}} : button_handler(keys)
    \/ smp_upload_rsp_proc
    \/ smp_list_rsp_proc
    \/ server

Step == BtStep \/ LinkStep \/ send_upload2

\* Each step is of one of the three kinds the proofs go by, or a reset.
LEMMA StepKinds == Next <=> Step \/ client_reset
  BY DEF Next, Step, BtStep, LinkStep

(* Connections: type and OneConnection together, because releasing a       *)
(* connection subtracts a reference.                                       *)
LEMMA BtPreserved ==
    ASSUME BtTypeOK, OneConnection, BtStep
    PROVE  BtTypeOK' /\ OneConnection'
<1> USE DEF BtTypeOK, OneConnection
<1>1. ASSUME NEW c \in Conns, scan_connecting(c)
      PROVE  BtTypeOK' /\ OneConnection'
  <2>1. default_conn = NoConn /\ \A d \in Conns : conn[d] = "free"
    BY <1>1, ConnAssumption DEF scan_connecting
  <2>2. BtTypeOK'
    <3>1. UNCHANGED <<discovering, dfu_conn>>
      BY <1>1 DEF scan_connecting
    <3>2. /\ scanning' = FALSE
          /\ UNCHANGED scan_failed
          /\ conn' = [conn EXCEPT ![c] = "connecting"]
          /\ refs' = [refs EXCEPT ![c] = @ + 1]
          /\ default_conn' = c
      BY <1>1 DEF scan_connecting
    <3>3. conn' \in [Conns -> {"free", "connecting", "connected", "lost"}]
      BY <3>2
    <3>4. refs' \in [Conns -> Nat]
      <4>1. refs[c] + 1 \in Nat
        OBVIOUS
      <4>2. QED
        BY <3>2, <4>1
    <3>5. QED
      BY <3>1, <3>2, <3>3, <3>4
  <2>3. OneConnection'
    BY <1>1, <2>1, ConnAssumption DEF scan_connecting
  <2>4. QED
    BY <2>2, <2>3
<1>2. ASSUME NEW c \in Conns, connected(c)
      PROVE  BtTypeOK' /\ OneConnection'
  BY <1>2 DEF connected
<1>3. ASSUME NEW c \in Conns, release(c), conn[c] # "free",
             conn' = [conn EXCEPT ![c] = "free"],
             discovering' \in Conns \cup {NoConn}, UNCHANGED dfu_conn
      PROVE  BtTypeOK' /\ OneConnection'
  <2>1. default_conn = c /\ refs[c] = 1
    BY <1>3
  <2>2. /\ scanning' \in BOOLEAN /\ scan_failed' \in BOOLEAN
        /\ refs' = [refs EXCEPT ![c] = @ - 1]
        /\ default_conn' = NoConn
    BY <1>3, <2>1 DEF release, bt_scan_start
  <2>3. BtTypeOK'
    BY <1>3, <2>1, <2>2
  <2>4. OneConnection'
    BY <1>3, <2>1, <2>2, ConnAssumption
  <2>5. QED
    BY <2>3, <2>4
<1>4. ASSUME NEW c \in Conns, connected_err(c)
      PROVE  BtTypeOK' /\ OneConnection'
  BY <1>3, <1>4 DEF connected_err
<1>5. ASSUME NEW c \in Conns, disconnected(c)
      PROVE  BtTypeOK' /\ OneConnection'
  BY <1>3, <1>5 DEF disconnected
<1>6. ASSUME NEW c \in Conns, link_lost(c)
      PROVE  BtTypeOK' /\ OneConnection'
  BY <1>6 DEF link_lost
<1>7. CASE scan_connecting_error
  BY <1>7 DEF scan_connecting_error
<1>8. CASE discovery_completed_cb
  BY <1>8 DEF discovery_completed_cb
<1>9. CASE discovery_failed
  BY <1>9 DEF discovery_failed
<1>10. QED
  BY <1>1, <1>2, <1>4, <1>5, <1>6, <1>7, <1>8, <1>9 DEF BtStep

\* Commands, responses and the worker leave scan, connections and
\* references alone.
LEMMA BtUntouched ==
    ASSUME LinkStep \/ send_upload2
    PROVE  UNCHANGED bt
<1>1. CASE LinkStep
  BY <1>1 DEF LinkStep, button_handler, smp_upload_rsp_proc, smp_list_rsp_proc,
              server, server_upload, server_state, server_silent
<1>2. CASE send_upload2
  BY <1>2 DEF send_upload2, start_upload, take_token, give_up, send_chunk
<1>3. QED
  BY <1>1, <1>2

\* Connection callbacks leave send_upload2 and the semaphore alone.
LEMMA WorkerUntouched ==
    ASSUME BtStep \/ LinkStep
    PROVE  UNCHANGED <<pc, curr_addr, upload_chunk, update_complete, data>>
<1>1. CASE BtStep
  BY <1>1 DEF BtStep, scan_connecting, scan_connecting_error, connected,
              connected_err, link_lost, disconnected, discovery_completed_cb,
              discovery_failed, worker
<1>2. CASE LinkStep
  BY <1>2 DEF LinkStep, button_handler, smp_upload_rsp_proc, smp_list_rsp_proc,
              server, server_upload, server_state, server_silent, worker
<1>3. QED
  BY <1>1, <1>2

-----------------------------------------------------------------------------
(* The token and the command it travels with.                              *)
LEMMA TokenPreserved ==
    ASSUME WorkerTypeOK, OneToken, ResponseForHandler, Step
    PROVE  OneToken' /\ ResponseForHandler'
<1> USE DEF OneToken, ResponseForHandler, UploadInAir, StateInAir, Commands,
            NoMsg, StateReq, StateRsp, UploadReq, UploadRsp
<1>1. ASSUME UNCHANGED <<pending, air, pc, upload_sem>>
      PROVE  OneToken' /\ ResponseForHandler'
  BY <1>1
<1>2. ASSUME UNCHANGED <<pc, upload_sem>>, pending' = "none", air' = NoMsg
      PROVE  OneToken' /\ ResponseForHandler'
  BY <1>2
<1>3. ASSUME NEW c \in Conns, link_lost(c)
      PROVE  OneToken' /\ ResponseForHandler'
  BY <1>1, <1>2, <1>3 DEF link_lost, DropCommand, worker
<1>4. CASE BtStep
  BY <1>1, <1>3, <1>4 DEF BtStep, scan_connecting, scan_connecting_error,
     connected, connected_err, disconnected, discovery_completed_cb,
     discovery_failed, worker
<1>5. ASSUME NEW keys \in SUBSET Keys, button_handler(keys)
      PROVE  OneToken' /\ ResponseForHandler'
  <2>1. UNCHANGED <<pc, upload_sem>>
    BY <1>5 DEF button_handler
  <2>2. CASE UNCHANGED <<pending, air>>
    BY <1>1, <2>1, <2>2
  <2>3. CASE Accepted(FirstOf(keys), StateReq)
    BY <2>1, <2>3 DEF Accepted, FirstOf
  <2>4. QED
    BY <1>5, <2>2, <2>3 DEF button_handler, Refused
<1>6. CASE smp_upload_rsp_proc
  BY <1>6 DEF smp_upload_rsp_proc, ChecksPass, worker, WorkerTypeOK
<1>7. CASE smp_list_rsp_proc
  BY <1>2, <1>7 DEF smp_list_rsp_proc, worker
<1>8. CASE server
  BY <1>8 DEF server, server_upload, server_state, server_silent, worker
<1>9. CASE send_upload2
  <2>1. CASE start_upload
    BY <2>1 DEF start_upload
  <2>2. CASE take_token
    BY <2>2 DEF take_token
  <2>3. CASE give_up
    BY <2>3 DEF give_up
  <2>4. CASE send_chunk
    BY <2>4 DEF send_chunk, Accepted, Refused, WorkerTypeOK
  <2>5. QED
    BY <1>9, <2>1, <2>2, <2>3, <2>4 DEF send_upload2
<1>10. QED
  BY <1>4, <1>5, <1>6, <1>7, <1>8, <1>9 DEF Step, LinkStep

-----------------------------------------------------------------------------
(* The locals of send_upload2.                                             *)
\* What flash_read fetches is slot bytes, the terminator, or what was there.
LEMMA ReadInSlot ==
    ASSUME WorkerTypeOK, WorkerInv, pc = "send"
    PROVE  /\ FlashRead \in [0 .. UPLOAD_CHUNK -> Byte]
           /\ EncodedData \in Chunk
           /\ curr_addr + upload_chunk \in start_addr .. last_addr
<1>1. curr_addr + upload_chunk \in start_addr .. last_addr
  BY SlotAssumption DEF WorkerTypeOK, WorkerInv
<1>2. ASSUME NEW i \in 0 .. UPLOAD_CHUNK
      PROVE  FlashRead[i] \in Byte
  <2>1. CASE i < upload_chunk
    BY <1>1, <2>1, SlotAssumption DEF FlashRead, Byte, WorkerTypeOK
  <2>2. CASE ~(i < upload_chunk)
    BY <2>2 DEF FlashRead, Byte, WorkerTypeOK
  <2>3. QED
    BY <2>1, <2>2
<1>3. FlashRead \in [0 .. UPLOAD_CHUNK -> Byte]
  BY <1>2 DEF FlashRead
<1>4. EncodedData \in Chunk
  BY <1>2, SlotAssumption DEF EncodedData, Chunk
<1>5. QED
  BY <1>1, <1>3, <1>4

\* curr_addr stays in the slot and every chunk fits behind it.
LEMMA WorkerPreserved ==
    ASSUME WorkerTypeOK, WorkerInv, Step
    PROVE  WorkerTypeOK' /\ WorkerInv'
<1>1. ASSUME BtStep \/ LinkStep
      PROVE  WorkerTypeOK' /\ WorkerInv'
  <2>1. queued' \in BOOLEAN /\ upload_sem' \in {0, 1}
    <3>1. CASE BtStep
      BY <3>1 DEF BtStep, scan_connecting, scan_connecting_error, connected,
         connected_err, link_lost, disconnected, discovery_completed_cb,
         discovery_failed, worker, WorkerTypeOK
    <3>2. CASE LinkStep
      BY <3>2 DEF LinkStep, button_handler, smp_upload_rsp_proc,
         smp_list_rsp_proc, server, server_upload, server_state, server_silent,
         worker, WorkerTypeOK
    <3>3. QED
      BY <1>1, <3>1, <3>2
  <2>2. QED
    BY <1>1, <2>1, WorkerUntouched DEF WorkerTypeOK, WorkerInv
<1>2. CASE start_upload
  <2>1. data' \in [0 .. UPLOAD_CHUNK -> Byte]
    BY <1>2 DEF start_upload, Byte
  <2>2. /\ queued' = FALSE /\ pc' = "take" /\ update_complete' = FALSE
        /\ curr_addr' = start_addr /\ upload_chunk' = UPLOAD_CHUNK
        /\ UNCHANGED upload_sem
    BY <1>2 DEF start_upload
  <2>3. WorkerTypeOK'
    <3>1. start_addr \in start_addr .. last_addr /\ UPLOAD_CHUNK \in 0 .. UPLOAD_CHUNK
      BY SlotAssumption
    <3>2. QED
      BY <2>1, <2>2, <3>1 DEF WorkerTypeOK
  <2>4. WorkerInv'
    BY <2>2 DEF WorkerInv
  <2>5. QED
    BY <2>3, <2>4
<1>3. CASE take_token
  <2>1. /\ pc = "take" /\ pc' = "send" /\ upload_sem' = 0
        /\ upload_chunk = UPLOAD_CHUNK /\ update_complete = FALSE
        /\ UNCHANGED <<queued, curr_addr, data>>
    BY <1>3 DEF take_token, WorkerTypeOK, WorkerInv
  <2>2. /\ upload_chunk' = IF curr_addr + UPLOAD_CHUNK > last_addr
                           THEN last_addr - curr_addr ELSE UPLOAD_CHUNK
        /\ update_complete' = (curr_addr + UPLOAD_CHUNK > last_addr)
    BY <1>3, <2>1 DEF take_token, ChunkSize, AtLastChunk
  <2>3. upload_chunk' \in 0 .. UPLOAD_CHUNK
    BY <2>2, SlotAssumption DEF WorkerTypeOK
  <2>4. WorkerTypeOK'
    BY <2>1, <2>2, <2>3 DEF WorkerTypeOK
  <2>5. WorkerInv'
    BY <2>1, <2>2 DEF WorkerInv
  <2>6. QED
    BY <2>4, <2>5
<1>4. CASE give_up
  BY <1>4 DEF give_up, WorkerTypeOK, WorkerInv
<1>5. CASE send_chunk
  <2>1. /\ pc = "send"
        /\ data' = FlashRead
        /\ curr_addr' = curr_addr + upload_chunk
        /\ pc' = "idle" \/ (pc' = "take" /\ ~update_complete)
        /\ UNCHANGED <<queued, upload_sem, upload_chunk, update_complete>>
    BY <1>5 DEF send_chunk, Advance, WorkerTypeOK
  <2>2. WorkerTypeOK'
    BY <2>1, ReadInSlot DEF WorkerTypeOK
  <2>3. WorkerInv'
    BY <2>1 DEF WorkerInv, WorkerTypeOK
  <2>4. QED
    BY <2>2, <2>3
<1>6. QED
  BY <1>1, <1>2, <1>3, <1>4, <1>5 DEF Step, send_upload2

-----------------------------------------------------------------------------
(* Messages and the peer. The records are typed in one place, so that the  *)
(* steps below only have to name the fields.                               *)
LEMMA AirFields ==
    ASSUME AirTypeOK
    PROVE  /\ air.type = "upload_req" => /\ air.off \in 0 .. ImageLen
                                         /\ air.data \in Chunk
           /\ air.type = "upload_rsp" =>
                 air.off \in 0 .. ImageLen + UPLOAD_CHUNK
  BY DEF AirTypeOK, NoMsg, StateReq, StateRsp, UploadReq, UploadRsp

\* Storing a chunk keeps the peer's slot a slot.
LEMMA StoredType ==
    ASSUME NEW off \in 0 .. ImageLen, NEW d \in Chunk, LinkTypeOK
    PROVE  Stored(off, d) \in [0 .. ImageLen + UPLOAD_CHUNK - 1 -> Byte]
<1>1. ASSUME NEW i \in 0 .. ImageLen + UPLOAD_CHUNK - 1
      PROVE  (IF i >= off /\ i < off + UPLOAD_CHUNK THEN d[i - off]
              ELSE IF off = 0 THEN Erased ELSE srv.image[i]) \in Byte
  <2>1. CASE i >= off /\ i < off + UPLOAD_CHUNK
    <3>1. i - off \in 0 .. UPLOAD_CHUNK - 1
      BY <2>1, SlotAssumption DEF ImageLen
    <3>2. QED
      BY <2>1, <3>1 DEF Chunk
  <2>2. CASE ~(i >= off /\ i < off + UPLOAD_CHUNK)
    BY <2>2 DEF LinkTypeOK, Byte
  <2>3. QED
    BY <2>1, <2>2
<1>2. QED
  BY <1>1 DEF Stored

\* Commands, messages and the peer's state stay well formed.
LEMMA LinkPreserved ==
    ASSUME LinkTypeOK, WorkerTypeOK, WorkerInv, Step
    PROVE  LinkTypeOK'
<1>1. ASSUME UNCHANGED <<pending, air, srv>>
      PROVE  LinkTypeOK'
  BY <1>1 DEF LinkTypeOK, AirTypeOK, Chunk, Byte
<1>2. ASSUME pending' = "none", air' = NoMsg, UNCHANGED srv
      PROVE  LinkTypeOK'
  BY <1>2 DEF LinkTypeOK, AirTypeOK
<1>3. ASSUME NEW c \in Conns, link_lost(c)
      PROVE  LinkTypeOK'
  <2>1. pending' \in {"none", "upload"} \cup Commands /\ AirTypeOK'
    BY <1>3 DEF link_lost, DropCommand, LinkTypeOK, AirTypeOK
  <2>2. srv' \in [off : 0 .. ImageLen + UPLOAD_CHUNK,
                  image : [0 .. ImageLen + UPLOAD_CHUNK - 1 -> Byte]]
    BY <1>3, SlotAssumption DEF link_lost, LinkTypeOK, ImageLen
  <2>3. QED
    BY <2>1, <2>2 DEF LinkTypeOK
<1>4. CASE BtStep
  BY <1>1, <1>3, <1>4 DEF BtStep, scan_connecting, scan_connecting_error,
     connected, connected_err, disconnected, discovery_completed_cb,
     discovery_failed
<1>5. ASSUME NEW keys \in SUBSET Keys, button_handler(keys)
      PROVE  LinkTypeOK'
  <2>1. CASE UNCHANGED <<pending, air>>
    BY <1>1, <1>5, <2>1 DEF button_handler
  <2>2. CASE Accepted(FirstOf(keys), StateReq)
    BY <1>5, <2>2 DEF button_handler, Accepted, FirstOf, Commands, LinkTypeOK,
       AirTypeOK
  <2>3. QED
    BY <1>5, <2>1, <2>2 DEF button_handler, Refused
<1>6. CASE smp_upload_rsp_proc \/ smp_list_rsp_proc
  BY <1>2, <1>6 DEF smp_upload_rsp_proc, smp_list_rsp_proc
<1>7. CASE server_upload
  <2>1. /\ air.off \in 0 .. ImageLen /\ air.data \in Chunk
        /\ srv.off \in 0 .. ImageLen + UPLOAD_CHUNK
    BY <1>7, AirFields DEF LinkTypeOK, server_upload
  <2>2. AirTypeOK'
    <3>1. \/ air' = UploadRsp(TRUE, air.off + UPLOAD_CHUNK)
          \/ air' = UploadRsp(TRUE, srv.off)
          \/ air' = UploadRsp(FALSE, 0)
      BY <1>7 DEF server_upload
    <3>2. /\ air.off + UPLOAD_CHUNK \in 0 .. ImageLen + UPLOAD_CHUNK
          /\ 0 \in 0 .. ImageLen + UPLOAD_CHUNK
      BY <2>1, SlotAssumption DEF ImageLen
    <3>3. \E ok \in BOOLEAN, off \in 0 .. ImageLen + UPLOAD_CHUNK :
             air' = UploadRsp(ok, off)
      BY <2>1, <3>1, <3>2, Zenon
    <3>4. QED
      BY <3>3, Zenon DEF AirTypeOK, UploadRsp, ImageLen
  <2>3. srv' \in [off : 0 .. ImageLen + UPLOAD_CHUNK,
                  image : [0 .. ImageLen + UPLOAD_CHUNK - 1 -> Byte]]
    <3>1. CASE UNCHANGED srv
      BY <3>1 DEF LinkTypeOK
    <3>2. CASE srv' = [off |-> air.off + UPLOAD_CHUNK,
                       image |-> Stored(air.off, air.data)]
      <4>1. air.off + UPLOAD_CHUNK \in 0 .. ImageLen + UPLOAD_CHUNK
        BY <2>1, SlotAssumption DEF ImageLen
      <4>2. QED
        BY <2>1, <3>2, <4>1, StoredType
    <3>3. QED
      BY <1>7, <3>1, <3>2 DEF server_upload
  <2>4. pending' = pending
    BY <1>7 DEF server_upload
  <2>5. QED
    BY <2>2, <2>3, <2>4 DEF LinkTypeOK
<1>8. CASE server_state \/ server_silent
  BY <1>8 DEF server_state, server_silent, LinkTypeOK, AirTypeOK
<1>9. CASE start_upload \/ take_token \/ give_up
  BY <1>1, <1>9 DEF start_upload, take_token, give_up
<1>10. CASE send_chunk
  <2>1. CASE UNCHANGED <<pending, air>>
    BY <1>1, <1>10, <2>1 DEF send_chunk
  <2>2. CASE Accepted("upload", UploadReq(ChunkOffset, EncodedData))
    <3>1. ChunkOffset \in 0 .. ImageLen
      BY SlotAssumption DEF ChunkOffset, ImageLen, WorkerTypeOK
    <3>2. EncodedData \in Chunk
      BY <1>10, ReadInSlot DEF send_chunk
    <3>3. \E off \in 0 .. ImageLen, d \in Chunk : air' = UploadReq(off, d)
      BY <2>2, <3>1, <3>2 DEF Accepted
    <3>5. AirTypeOK'
      BY <3>3, Zenon DEF AirTypeOK, UploadReq, ImageLen, Chunk, Byte
    <3>4. pending' = "upload" /\ srv' = srv
      BY <1>10, <2>2 DEF send_chunk, Accepted
    <3>6. QED
      BY <3>4, <3>5 DEF LinkTypeOK
  <2>3. QED
    BY <1>10, <2>1, <2>2 DEF send_chunk, Refused
<1>11. QED
  BY <1>4, <1>5, <1>6, <1>7, <1>8, <1>9, <1>10
     DEF Step, LinkStep, server, send_upload2

-----------------------------------------------------------------------------
(* The bytes. A request carries the slot's bytes at its offset, and the    *)
(* peer adds it where its prefix ends or starts over.                      *)
ImageInv == RequestMatchesSlot /\ PeerHoldsPrefix

\* A request that nobody touches keeps matching the slot.
LEMMA RequestStays ==
    ASSUME RequestMatchesSlot, air' = air \/ air'.type # "upload_req"
    PROVE  RequestMatchesSlot'
BY DEF RequestMatchesSlot, ImageLen

\* A peer that nobody touches keeps its prefix.
LEMMA PrefixStays ==
    ASSUME PeerHoldsPrefix, UNCHANGED srv
    PROVE  PeerHoldsPrefix'
BY DEF PeerHoldsPrefix, ImageLen

\* A chunk is encoded with the bytes of its own offset.
LEMMA NewRequest ==
    ASSUME WorkerTypeOK, WorkerInv, pc = "send",
           air' = UploadReq(ChunkOffset, EncodedData)
    PROVE  RequestMatchesSlot'
<1>1. /\ air'.off = curr_addr - start_addr
      /\ air'.data = EncodedData
  BY DEF UploadReq, ChunkOffset
<1>2. SUFFICES ASSUME NEW i \in 0 .. UPLOAD_CHUNK - 1,
                      air'.off + i < ImageLen
               PROVE  air'.data[i] = start_addr + air'.off + i
  BY DEF RequestMatchesSlot, ImageLen
<1>3. i < upload_chunk
  BY <1>1, <1>2, SlotAssumption DEF ImageLen, WorkerTypeOK, WorkerInv
<1>4. EncodedData[i] = curr_addr + i
  BY <1>3, SlotAssumption DEF EncodedData, FlashRead
<1>5. QED
  BY <1>1, <1>4, SlotAssumption DEF WorkerTypeOK

\* Storing a matching chunk at 0 or at the end of a prefix gives a prefix.
LEMMA AppendKeepsPrefix ==
    ASSUME LinkTypeOK, ImageInv, air.type = "upload_req",
           air.off \in {0, srv.off},
           srv' = [off |-> air.off + UPLOAD_CHUNK,
                   image |-> Stored(air.off, air.data)]
    PROVE  PeerHoldsPrefix'
<1>1. /\ air.off \in 0 .. ImageLen /\ air.data \in Chunk
      /\ srv.off \in 0 .. ImageLen + UPLOAD_CHUNK
  BY AirFields DEF LinkTypeOK
<1>2. SUFFICES ASSUME NEW i \in 0 .. ImageLen - 1, i < air.off + UPLOAD_CHUNK
               PROVE  Stored(air.off, air.data)[i] = start_addr + i
  BY DEF PeerHoldsPrefix, ImageLen
<1>3. i \in 0 .. ImageLen + UPLOAD_CHUNK - 1
  BY SlotAssumption DEF ImageLen
<1>4. CASE i >= air.off
  <2>1. /\ i - air.off \in 0 .. UPLOAD_CHUNK - 1
        /\ air.off + (i - air.off) = i
    BY <1>1, <1>2, <1>4, SlotAssumption DEF ImageLen
  <2>2. air.data[i - air.off] = start_addr + i
    BY <1>1, <2>1, SlotAssumption DEF ImageInv, RequestMatchesSlot, ImageLen
  <2>3. Stored(air.off, air.data)[i] = air.data[i - air.off]
    BY <1>2, <1>3, <1>4 DEF Stored
  <2>4. QED
    BY <2>2, <2>3
<1>5. CASE ~(i >= air.off)
  <2>1. air.off # 0 /\ i < srv.off
    BY <1>1, <1>5, SlotAssumption DEF ImageLen
  <2>2. Stored(air.off, air.data)[i] = srv.image[i]
    BY <1>3, <1>5, <2>1 DEF Stored
  <2>3. QED
    BY <2>1, <2>2 DEF ImageInv, PeerHoldsPrefix
<1>6. QED
  BY <1>4, <1>5

\* No step makes the peer count a byte that is not the slot's.
LEMMA ImagePreserved ==
    ASSUME LinkTypeOK, WorkerTypeOK, WorkerInv, ImageInv, Step
    PROVE  ImageInv'
<1>1. ASSUME UNCHANGED srv, air' = air \/ air'.type # "upload_req"
      PROVE  ImageInv'
  BY <1>1, RequestStays, PrefixStays DEF ImageInv
<1>2. ASSUME NEW c \in Conns, link_lost(c)
      PROVE  ImageInv'
  <2>1. air' = air \/ air'.type # "upload_req"
    BY <1>2 DEF link_lost, DropCommand, NoMsg
  <2>2. CASE UNCHANGED srv
    BY <1>1, <2>1, <2>2
  <2>3. CASE srv' = [off |-> 0, image |-> srv.image]
    <3>1. PeerHoldsPrefix'
      BY <2>3, SlotAssumption DEF PeerHoldsPrefix, ImageLen
    <3>2. QED
      BY <2>1, <3>1, RequestStays DEF ImageInv
  <2>4. QED
    BY <1>2, <2>2, <2>3 DEF link_lost
<1>3. CASE BtStep
  BY <1>1, <1>2, <1>3 DEF BtStep, scan_connecting, scan_connecting_error,
     connected, connected_err, disconnected, discovery_completed_cb,
     discovery_failed
<1>4. ASSUME NEW keys \in SUBSET Keys, button_handler(keys)
      PROVE  ImageInv'
  BY <1>1, <1>4 DEF button_handler, Accepted, Refused, StateReq
<1>5. CASE smp_upload_rsp_proc \/ smp_list_rsp_proc
  BY <1>1, <1>5 DEF smp_upload_rsp_proc, smp_list_rsp_proc, NoMsg
<1>6. CASE server_upload
  <2>1. air'.type # "upload_req"
    BY <1>6 DEF server_upload, UploadRsp
  <2>2. CASE UNCHANGED srv
    BY <1>1, <2>1, <2>2
  <2>3. CASE ~UNCHANGED srv
    BY <1>6, <2>1, <2>3, RequestStays, AppendKeepsPrefix
       DEF server_upload, ImageInv
  <2>4. QED
    BY <2>2, <2>3
<1>7. CASE server_state \/ server_silent
  BY <1>1, <1>7 DEF server_state, server_silent, StateRsp, NoMsg
<1>8. CASE start_upload \/ take_token \/ give_up
  BY <1>1, <1>8 DEF start_upload, take_token, give_up
<1>9. CASE send_chunk
  <2>1. UNCHANGED srv /\ pc = "send"
    BY <1>9 DEF send_chunk
  <2>2. CASE UNCHANGED air
    BY <1>1, <2>1, <2>2
  <2>3. CASE air' = UploadReq(ChunkOffset, EncodedData)
    BY <2>1, <2>3, NewRequest, PrefixStays DEF ImageInv
  <2>4. QED
    BY <1>9, <2>2, <2>3 DEF send_chunk, Accepted, Refused
<1>10. QED
  BY <1>3, <1>4, <1>5, <1>6, <1>7, <1>8, <1>9
     DEF Step, LinkStep, server, send_upload2

-----------------------------------------------------------------------------
(* The inductive invariant and what follows from it. Types need            *)
(* OneConnection (references do not go below zero) and WorkerInv (a chunk  *)
(* stays inside the slot); the prefix needs the types and WorkerInv.       *)
IInv == /\ TypeOK /\ OneConnection /\ WorkerInv
        /\ OneToken /\ ResponseForHandler
        /\ ImageInv

(* What main() leaves behind, whatever the peer holds.                     *)
Started ==
    /\ scanning \in BOOLEAN /\ scan_failed \in BOOLEAN
    /\ conn = [c \in Conns |-> "free"]
    /\ refs = [c \in Conns |-> 0]
    /\ default_conn = NoConn /\ discovering = NoConn /\ dfu_conn = NoConn
    /\ pending = "none" /\ air = NoMsg
    /\ queued = FALSE /\ pc = "idle" /\ upload_sem = 1
    /\ curr_addr = start_addr /\ upload_chunk = UPLOAD_CHUNK
    /\ update_complete = FALSE
    /\ data = [i \in 0 .. UPLOAD_CHUNK |-> Junk]

\* The parts of the invariant that are not about the peer.
ClientInv ==
    /\ BtTypeOK /\ OneConnection /\ WorkerTypeOK /\ WorkerInv
    /\ pending = "none" /\ AirTypeOK
    /\ OneToken /\ ResponseForHandler /\ RequestMatchesSlot

\* They hold there.
LEMMA StartedInv == Started => ClientInv
<1> SUFFICES ASSUME Started PROVE ClientInv
  OBVIOUS
<1>1. BtTypeOK /\ OneConnection
  BY ConnAssumption DEF Started, BtTypeOK, OneConnection
<1>2. WorkerTypeOK /\ WorkerInv
  <2>1. data \in [0 .. UPLOAD_CHUNK -> Byte]
    BY DEF Started, Byte
  <2>2. start_addr \in start_addr .. last_addr /\ UPLOAD_CHUNK \in 0 .. UPLOAD_CHUNK
    BY SlotAssumption
  <2>3. QED
    BY <2>1, <2>2 DEF Started, WorkerTypeOK, WorkerInv
<1>3. pending = "none" /\ AirTypeOK
  BY DEF Started, AirTypeOK
<1>4. OneToken /\ ResponseForHandler /\ RequestMatchesSlot
  BY DEF Started, OneToken, ResponseForHandler, RequestMatchesSlot, UploadInAir,
         StateInAir, NoMsg
<1>5. QED
  BY <1>1, <1>2, <1>3, <1>4 DEF ClientInv

\* Also after a step that leads there.
LEMMA StartedNext == Started' => ClientInv'
  BY StartedInv, PTL

(* It holds in the state main() leaves behind.                             *)
LEMMA InitIInv == Init => IInv
<1> SUFFICES ASSUME Init PROVE IInv
  OBVIOUS
<1>1. Started
  BY DEF Init, Started
<1>2. LinkTypeOK
  <2>1. srv.off = 0 /\ srv.image \in [0 .. ImageLen + UPLOAD_CHUNK - 1 -> Byte]
    BY DEF Init, Byte
  <2>2. 0 \in 0 .. ImageLen + UPLOAD_CHUNK
    BY SlotAssumption DEF ImageLen
  <2>3. QED
    BY <1>1, <2>1, <2>2, StartedInv DEF Init, ClientInv, LinkTypeOK
<1>3. PeerHoldsPrefix
  BY SlotAssumption DEF Init, PeerHoldsPrefix, ImageLen
<1>4. QED
  BY <1>1, <1>2, <1>3, StartedInv DEF ClientInv, IInv, TypeOK, ImageInv

\* A reset leads there, and the peer keeps what it holds.
LEMMA ResetPreserved == ASSUME IInv, client_reset PROVE IInv'
<1>1. Started' /\ UNCHANGED srv
  BY DEF client_reset, bt_scan_start, Started
<1>2. ClientInv'
  BY <1>1, StartedNext
<1>3. LinkTypeOK'
  BY <1>1, <1>2 DEF ClientInv, IInv, TypeOK, LinkTypeOK, ImageLen, Byte
<1>4. PeerHoldsPrefix'
  BY <1>1, PrefixStays DEF IInv, ImageInv
<1>5. QED
  BY <1>2, <1>3, <1>4 DEF ClientInv, IInv, TypeOK, ImageInv

(* Nothing about connections depends on anything but their variables.      *)
LEMMA BtStutter ==
    ASSUME BtTypeOK, OneConnection, UNCHANGED bt
    PROVE  BtTypeOK' /\ OneConnection'
BY DEF bt, BtTypeOK, OneConnection

(* Every step of every actor preserves it.                                 *)
LEMMA NextIInv == IInv /\ [Next]_vars => IInv'
<1> SUFFICES ASSUME IInv, [Next]_vars PROVE IInv'
  OBVIOUS
<1>1. CASE Step
  <2>1. BtTypeOK' /\ OneConnection'
    <3>1. CASE BtStep
      BY <3>1, BtPreserved DEF IInv, TypeOK
    <3>2. CASE LinkStep \/ send_upload2
      BY <3>2, BtUntouched, BtStutter DEF IInv, TypeOK
    <3>3. QED
      BY <1>1, <3>1, <3>2 DEF Step
  <2>2. WorkerTypeOK' /\ WorkerInv'
    BY <1>1, WorkerPreserved DEF IInv, TypeOK
  <2>3. LinkTypeOK'
    BY <1>1, LinkPreserved DEF IInv, TypeOK
  <2>4. OneToken' /\ ResponseForHandler'
    BY <1>1, TokenPreserved DEF IInv, TypeOK
  <2>5. ImageInv'
    BY <1>1, ImagePreserved DEF IInv, TypeOK
  <2>6. QED
    BY <2>1, <2>2, <2>3, <2>4, <2>5 DEF IInv, TypeOK
<1>2. CASE UNCHANGED vars
  BY <1>2 DEF vars, bt, worker, IInv, TypeOK, BtTypeOK, WorkerTypeOK, LinkTypeOK,
     AirTypeOK, OneConnection, WorkerInv, OneToken, ResponseForHandler,
     UploadInAir, StateInAir, ImageInv, RequestMatchesSlot, PeerHoldsPrefix,
     Byte, Chunk, ImageLen
<1>3. CASE client_reset
  BY <1>3, ResetPreserved
<1>4. QED
  BY <1>1, <1>2, <1>3, StepKinds

\* The inductive invariant holds of every behaviour of the client, its link
\* and its peer; the theorems below read off its parts.
THEOREM Invariance == Spec => []IInv
  BY InitIInv, NextIInv, PTL DEF Spec

\* Type correctness of the client: in particular curr_addr never leaves the
\* secondary slot and a reference count never goes below zero.
THEOREM TypeCorrect == Spec => []TypeOK
<1>1. IInv => TypeOK
  BY DEF IInv
<1>2. QED
  BY <1>1, Invariance, PTL

\* One token: send_upload2 never has two chunks under way.
THEOREM OneTokenAlways == Spec => []OneToken
<1>1. IInv => OneToken
  BY DEF IInv
<1>2. QED
  BY <1>1, Invariance, PTL

\* Every response is handled by the callback of the command it answers.
THEOREM ResponsesMatch == Spec => []ResponseForHandler
<1>1. IInv => ResponseForHandler
  BY DEF IInv
<1>2. QED
  BY <1>1, Invariance, PTL

\* One connection, one reference, no scan beside it.
THEOREM OneConnectionAlways == Spec => []OneConnection
<1>1. IInv => OneConnection
  BY DEF IInv
<1>2. QED
  BY <1>1, Invariance, PTL

\* What the peer counts as received is a prefix of the client's slot.
THEOREM PrefixAlways == Spec => []PeerHoldsPrefix
<1>1. IInv => PeerHoldsPrefix
  BY DEF IInv, ImageInv
<1>2. QED
  BY <1>1, Invariance, PTL

\* A lost token stays lost: no step of any actor brings an upload back that a
\* failure or a disconnection has cost its token, but a reset of the board.
THEOREM LostTokenStaysLost == Spec => LostForGood
<1>1. ASSUME TokenLost, Step
      PROVE  TokenLost'
  <2> USE <1>1 DEF TokenLost, UploadInAir
  <2>1. CASE BtStep
    BY <2>1 DEF BtStep, scan_connecting, scan_connecting_error, connected,
       connected_err, link_lost, disconnected, DropCommand,
       discovery_completed_cb, discovery_failed, worker, NoMsg
  <2>2. CASE LinkStep
    <3>1. ASSUME NEW keys \in SUBSET Keys, button_handler(keys)
          PROVE  TokenLost'
      BY <3>1 DEF button_handler, Accepted, Refused, StateReq
    <3>2. CASE smp_upload_rsp_proc
      BY <3>2 DEF smp_upload_rsp_proc, ChecksPass, worker, NoMsg
    <3>3. CASE smp_list_rsp_proc
      BY <3>3 DEF smp_list_rsp_proc, worker, NoMsg
    <3>4. CASE server
      <4>1. ~server_upload
        BY DEF server_upload
      <4>2. UNCHANGED <<pc, upload_sem>> /\ air' \in {StateRsp, NoMsg}
        BY <3>4, <4>1 DEF server, server_state, server_silent, worker
      <4>3. QED
        BY <4>2 DEF StateRsp, NoMsg
    <3>5. QED
      BY <2>2, <3>1, <3>2, <3>3, <3>4 DEF LinkStep
  <2>3. CASE send_upload2
    BY <2>3 DEF send_upload2, start_upload, take_token, give_up, send_chunk
  <2>4. QED
    BY <1>1, <2>1, <2>2, <2>3 DEF Step
<1>2. TokenLost /\ UNCHANGED vars => TokenLost'
  BY DEF TokenLost, UploadInAir, vars, worker
<1>3. [Next]_vars => [TokenLost => TokenLost' \/ client_reset]_vars
  BY <1>1, <1>2, StepKinds
<1>4. QED
  BY <1>3, PTL DEF Spec, LostForGood
=============================================================================
