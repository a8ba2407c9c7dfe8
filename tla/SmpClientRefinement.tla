------------------------ MODULE SmpClientRefinement ------------------------
(***************************************************************************)
(* SmpClient implements ImageTransfer, for every value of the constants.   *)
(*                                                                         *)
(* PeerHoldsPrefix makes what the peer holds a function of the offset it   *)
(* expects alone, Prefix(srv.off). A step of the client is then a step of  *)
(* the transfer according to what it does to that offset.                  *)
(***************************************************************************)
EXTENDS SmpClientProofs, SequenceTheorems

Source == [i \in 1 .. ImageLen |-> start_addr + i - 1]
HeldBy(s) == [i \in 1 .. (IF s.off < ImageLen THEN s.off ELSE ImageLen)
                |-> s.image[i - 1]]

(* The slot as a sequence.                                                 *)
LEMMA SourceSeq ==
    /\ ImageLen \in Nat
    /\ Source \in Seq(Nat)
    /\ Len(Source) = ImageLen
    /\ \A i \in 1 .. ImageLen : Source[i] = start_addr + i - 1
<1>1. ImageLen \in Nat
  BY SlotAssumption DEF ImageLen
<1>2. \A i \in 1 .. ImageLen : start_addr + i - 1 \in Nat
  BY <1>1, SlotAssumption
<1>3. Source \in [1 .. ImageLen -> Nat]
  BY <1>2 DEF Source
<1>4. Source \in Seq(Nat)
  BY <1>1, <1>3, SeqDef
<1>5. QED
  BY <1>1, <1>3, <1>4, LenProperties DEF Source

(* A prefix of the slot, element by element.                               *)
LEMMA PrefixElements ==
    ASSUME NEW n \in Nat
    PROVE  /\ Transfer!Prefix(n) =
                 [i \in 1 .. (IF n < ImageLen THEN n ELSE ImageLen) |-> start_addr + i - 1]
           /\ Len(Transfer!Prefix(n)) = IF n < ImageLen THEN n ELSE ImageLen
<1> DEFINE k == IF n < ImageLen THEN n ELSE ImageLen
<1>1. k \in Nat /\ k <= ImageLen
  BY SourceSeq
<1>2. Transfer!Prefix(n) = SubSeq(Source, 1, k)
  BY SourceSeq DEF Transfer!Prefix, Source
<1>3. SubSeq(Source, 1, k) = [i \in 1 .. k |-> Source[i]]
  BY <1>1, SourceSeq, SubSeqProperties
<1>4. \A i \in 1 .. k : Source[i] = start_addr + i - 1
  BY <1>1, SourceSeq
<1>5. Len(SubSeq(Source, 1, k)) = k
  BY <1>1, SourceSeq, SubSeqProperties
<1>6. QED
  BY <1>2, <1>3, <1>4, <1>5

(* A peer that counts only bytes of the slot holds the prefix up to its    *)
(* offset.                                                                 *)
LEMMA HeldIsPrefix ==
    ASSUME NEW s, s.off \in Nat,
           \A i \in 0 .. ImageLen - 1 : i < s.off => s.image[i] = start_addr + i
    PROVE  HeldBy(s) = Transfer!Prefix(s.off)
<1> DEFINE k == IF s.off < ImageLen THEN s.off ELSE ImageLen
<1>1. ASSUME NEW i \in 1 .. k
      PROVE  s.image[i - 1] = start_addr + i - 1
  <2>1. i - 1 \in 0 .. ImageLen - 1 /\ i - 1 < s.off
    BY SourceSeq
  <2>2. s.image[i - 1] = start_addr + (i - 1)
    BY <2>1
  <2>3. QED
    BY <2>2, SlotAssumption
<1>2. HeldBy(s) = [i \in 1 .. k |-> start_addr + i - 1]
  BY <1>1 DEF HeldBy
<1>3. QED
  BY <1>2, PrefixElements

(* The prefix of no bytes.                                                 *)
LEMMA EmptyPrefix == Transfer!Prefix(0) = << >>
<1>1. Transfer!Prefix(0) = SubSeq(Source, 1, 0)
  BY SourceSeq DEF Transfer!Prefix, Source
<1>2. QED
  BY <1>1, SourceSeq, SubSeqProperties

(* What becomes of the offset in a step.                                   *)
LEMMA OffsetMoves ==
    ASSUME LinkTypeOK, Next
    PROVE  \/ UNCHANGED srv
           \/ srv'.off = 0
           \/ srv'.off = UPLOAD_CHUNK
           \/ srv'.off = srv.off + UPLOAD_CHUNK
<1>1. CASE BtStep
  BY <1>1 DEF BtStep, scan_connecting, scan_connecting_error, connected,
     connected_err, link_lost, disconnected, discovery_completed_cb, discovery_failed
<1>2. CASE LinkStep
  <2>1. ASSUME NEW keys \in SUBSET Keys, button_handler(keys)
        PROVE  UNCHANGED srv
    BY <2>1 DEF button_handler
  <2>2. CASE server_upload
    <3>1. \/ UNCHANGED srv
          \/ /\ air.off \in {0, srv.off}
             /\ srv' = [off |-> air.off + UPLOAD_CHUNK,
                        image |-> Stored(air.off, air.data)]
      BY <2>2, Zenon DEF server_upload
    <3>2. QED
      BY <3>1, SlotAssumption
  <2>3. CASE smp_upload_rsp_proc \/ smp_list_rsp_proc \/ server_state \/ server_silent
    BY <2>3 DEF smp_upload_rsp_proc, smp_list_rsp_proc, server_state, server_silent
  <2>4. QED
    BY <1>2, <2>1, <2>2, <2>3 DEF LinkStep, server
<1>3. CASE send_upload2
  BY <1>3 DEF send_upload2, start_upload, take_token, give_up, send_chunk
<1>4. CASE client_reset
  BY <1>4 DEF client_reset
<1>5. QED
  BY <1>1, <1>2, <1>3, <1>4, StepKinds DEF Step

\* Every step of the client, the link and the peer is a step of ImageTransfer
\* or leaves what the peer holds as it is.
LEMMA StepRefines ==
    ASSUME IInv, IInv', [Next]_vars
    PROVE  Transfer!TNext \/ HeldBy(srv') = HeldBy(srv)
<1>1. srv.off \in Nat /\ srv'.off \in Nat
  BY SourceSeq, SlotAssumption DEF IInv, TypeOK, LinkTypeOK
<1>2. HeldBy(srv) = Transfer!Prefix(srv.off)
  BY <1>1, HeldIsPrefix DEF IInv, ImageInv, PeerHoldsPrefix
<1>3. HeldBy(srv') = Transfer!Prefix(srv'.off)
  BY <1>1, HeldIsPrefix DEF IInv, ImageInv, PeerHoldsPrefix
<1>4. CASE UNCHANGED srv
  BY <1>4
<1>5. CASE srv'.off = 0
  BY <1>3, <1>5, EmptyPrefix DEF Transfer!TNext, Transfer!Forget, HeldBy
<1>6. CASE srv'.off = UPLOAD_CHUNK
  BY <1>3, <1>6 DEF Transfer!TNext, Transfer!Begin, HeldBy
<1>7. CASE srv'.off = srv.off + UPLOAD_CHUNK
  <2>1. CASE srv.off < ImageLen
    <3>1. Len(HeldBy(srv)) = srv.off
      BY <1>1, <1>2, <2>1, PrefixElements
    <3>2. QED
      BY <1>3, <1>7, <2>1, <3>1, SourceSeq
         DEF Transfer!TNext, Transfer!Extend, HeldBy, Source
  <2>2. CASE srv.off >= ImageLen
    <3>1. Transfer!Prefix(srv.off) = Transfer!Prefix(srv'.off)
      BY <1>1, <1>7, <2>2, SourceSeq, SlotAssumption, PrefixElements
    <3>2. QED
      BY <1>2, <1>3, <3>1
  <2>3. QED
    BY <1>1, <2>1, <2>2, SourceSeq
<1>8. CASE Next
  BY <1>4, <1>5, <1>6, <1>7, <1>8, OffsetMoves DEF IInv, TypeOK
<1>9. QED
  BY <1>4, <1>8 DEF vars

\* The client implements the transfer: whatever fails, what the peer counts as
\* received of the image grows by one chunk of the slot, starts over with the
\* first one, or is forgotten, and is never anything but a prefix.
THEOREM Refinement == Spec => ImplementsTransfer
<1>1. Init => Transfer!TInit
  <2> SUFFICES ASSUME Init PROVE Transfer!TInit
    OBVIOUS
  <2>1. srv.off = 0
    BY DEF Init
  <2>2. HeldBy(srv) = Transfer!Prefix(0)
    BY <2>1, SlotAssumption, InitIInv, HeldIsPrefix DEF IInv, ImageInv, PeerHoldsPrefix
  <2>3. QED
    BY <2>2, EmptyPrefix DEF Transfer!TInit, HeldBy
<1>2. ASSUME IInv, IInv', [Next]_vars
      PROVE  [Transfer!TNext]_(HeldBy(srv))
  BY <1>2, StepRefines
<1>3. QED
  BY <1>1, <1>2, Invariance, PTL DEF Spec, ImplementsTransfer, Transfer!TSpec, HeldBy
=============================================================================
