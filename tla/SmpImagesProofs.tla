-------------------------- MODULE SmpImagesProofs --------------------------
(***************************************************************************)
(* The two invariants of SmpImages about the cached hash, for any images.  *)
(***************************************************************************)
EXTENDS SmpImages, TLAPS

Types ==
    /\ hash_value_secondary_slot \in Known \cup {ZeroHash}
    /\ own \in Images
    /\ uploading \in Images \cup {NoImage}
    /\ slot \in [0 .. 1 -> Known \cup {NoImage}]
    /\ mark \in {"none", "test", "permanent"}
    /\ confirmed \in BOOLEAN
    /\ listed \in SUBSET Known
    /\ moved \in BOOLEAN

\* What names an image, and what the bootloader runs or will run, was listed.
AsListed ==
    /\ hash_value_secondary_slot \in listed \cup {ZeroHash}
    /\ air.type = "set_req" => air.hash \in listed \cup {ZeroHash}
    /\ slot[0] \in listed \cup {Factory}
    /\ Swaps => slot[1] \in listed \cup {Factory}

\* While an upload is under way there is nothing to list or to mark.
UploadInv == uploading # NoImage => slot[1] = NoImage /\ ~Swaps /\ moved

\* A listing on its way is still true.
ListingInv ==
    air.type = "listing" /\ Len(air.hashes) = 2
    => slot[1] # NoImage /\ air.hashes[2] = slot[1]

IInv == Types /\ AsListed /\ UploadInv /\ ListingInv /\ HashIsCurrent

LEMMA Names ==
  /\ NoImage \notin Known /\ ZeroHash \notin Known /\ Factory \in Known
  /\ Images \subseteq Known
  BY ImageAssumption DEF Known

LEMMA InitIInv == Init => IInv
<1> SUFFICES ASSUME Init PROVE IInv
  OBVIOUS
<1>1. slot[0] = Factory /\ slot[1] = NoImage
  BY DEF Init
<1>2. air.type = "none"
  BY DEF Init, NoMsg
<1>3. Types
  BY Names DEF Init, Types
<1> QED
  BY <1>1, <1>2, <1>3
     DEF Init, IInv, AsListed, UploadInv, ListingInv, HashIsCurrent, Swaps

-----------------------------------------------------------------------------
(* The client.                                                             *)

LEMMA SendKeeps ==
  ASSUME IInv, send_smp_list \/ send_smp_test \/ send_smp_confirm
  PROVE  IInv'
<1>1. UNCHANGED <<client, peer, history>>
  BY DEF send_smp_list, send_smp_test, send_smp_confirm, send
<1>2. /\ air'.type # "listing"
      /\ air'.type = "set_req" => air'.hash = hash_value_secondary_slot
  BY DEF send_smp_list, send_smp_test, send_smp_confirm, send, ListReq, SetReq
<1> QED
  BY <1>1, <1>2
     DEF IInv, Types, AsListed, UploadInv, ListingInv, HashIsCurrent, Swaps,
         client, peer, history

LEMMA ListingKeeps == ASSUME IInv, smp_list_rsp_proc PROVE IInv'
<1>1. air'.type = "none" /\ UNCHANGED <<own, uploading, slot, mark, confirmed>>
  BY DEF smp_list_rsp_proc, NoMsg, peer
<1>2. CASE air.type = "listing" /\ Len(air.hashes) = 2
  <2>1. /\ hash_value_secondary_slot' = slot[1]
        /\ listed' = listed \cup {slot[1]}
        /\ moved' = FALSE
    BY <1>2 DEF smp_list_rsp_proc, Kept, IInv, ListingInv
  <2>2. slot[1] \in Known /\ uploading = NoImage
    BY <1>2 DEF IInv, Types, ListingInv, UploadInv
  <2> QED
    BY <1>1, <2>1, <2>2
       DEF IInv, Types, AsListed, UploadInv, ListingInv, HashIsCurrent, Swaps
<1>3. CASE ~(air.type = "listing" /\ Len(air.hashes) = 2)
  <2>1. UNCHANGED <<hash_value_secondary_slot, listed, moved>>
    BY <1>3 DEF smp_list_rsp_proc, Kept, history, IInv, Types
  <2> QED
    BY <1>1, <2>1
       DEF IInv, Types, AsListed, UploadInv, ListingInv, HashIsCurrent, Swaps
<1> QED BY <1>2, <1>3

LEMMA LoadKeeps == ASSUME IInv, NEW image \in Images, load(image) PROVE IInv'
  BY DEF load, IInv, Types, AsListed, UploadInv, ListingInv, HashIsCurrent,
         Swaps, peer, history

LEMMA UploadKeeps ==
  ASSUME IInv, upload_begin \/ upload_end \/ lost \/ client_reset
  PROVE  IInv'
<1>1. CASE upload_begin
  <2>1. air.type = "none" /\ ~Swaps /\ UNCHANGED <<hash_value_secondary_slot,
                                    own, air, mark, confirmed, listed>>
    BY <1>1 DEF upload_begin, NoMsg, Swaps
  <2>2. slot' \in [0 .. 1 -> Known \cup {NoImage}] /\ slot'[0] = slot[0]
        /\ slot'[1] = NoImage /\ uploading' = own /\ moved'
    BY <1>1 DEF upload_begin, IInv, Types
  <2> QED
    BY <2>1, <2>2, <1>1
       DEF upload_begin, IInv, Types, AsListed, UploadInv, ListingInv,
           HashIsCurrent, Swaps
<1>2. CASE upload_end
  <2>1. air.type = "none" /\ ~Swaps /\ moved
    BY <1>2 DEF upload_end, NoMsg, IInv, UploadInv
  <2>2. UNCHANGED <<hash_value_secondary_slot, own, air, mark, confirmed,
                    listed, moved>> /\ uploading' = NoImage
    BY <1>2 DEF upload_end, history
  <2>3. slot' \in [0 .. 1 -> Known \cup {NoImage}] /\ slot'[0] = slot[0]
    BY <1>2, Names DEF upload_end, IInv, Types
  <2> QED
    BY <2>1, <2>2, <2>3
       DEF IInv, Types, AsListed, UploadInv, ListingInv, HashIsCurrent, Swaps
<1>3. CASE lost
  BY <1>3 DEF lost, NoMsg, IInv, Types, AsListed, UploadInv, ListingInv,
              HashIsCurrent, Swaps, peer, history
<1>4. CASE client_reset
  BY <1>4 DEF client_reset, NoMsg, IInv, Types, AsListed, UploadInv, ListingInv,
              HashIsCurrent, Swaps, peer, history
<1> QED BY <1>1, <1>2, <1>3, <1>4

-----------------------------------------------------------------------------
(* The peer.                                                               *)

\* What it lists is what it holds.
LEMMA SlotsListed ==
  ASSUME Types, Len(Slots) = 2
  PROVE  slot[1] # NoImage /\ Slots[2] = slot[1]
  BY DEF Slots

LEMMA ServerListKeeps == ASSUME IInv, server_list PROVE IInv'
<1>1. air'.type = "listing" /\ air'.hashes = Slots
  BY DEF server_list, Listing
<1>2. UNCHANGED <<client, peer, history>>
  BY DEF server_list
<1>3. ListingInv'
  BY <1>1, <1>2, SlotsListed DEF ListingInv, IInv, peer
<1> QED
  BY <1>1, <1>2, <1>3
     DEF IInv, Types, AsListed, UploadInv, HashIsCurrent, Swaps,
         client, peer, history

LEMMA ServerSetKeeps == ASSUME IInv, server_set PROVE IInv'
<1>1. UNCHANGED <<client, slot, history>> /\ air.type = "set_req"
  BY DEF server_set
<1>2. /\ air'.type \in {"listing", "refusal"}
      /\ air'.type = "listing" => air'.hashes = Slots
  BY DEF server_set, Listing, Refusal
<1>3. ListingInv'
  BY <1>1, <1>2, SlotsListed DEF ListingInv, IInv
<1>4. CASE mark' = mark /\ confirmed' \in {confirmed, TRUE}
  BY <1>1, <1>2, <1>3, <1>4
     DEF IInv, Types, AsListed, UploadInv, HashIsCurrent, Swaps, client, history
<1>5. CASE /\ air.hash = slot[1]
           /\ mark' = IF air.confirm THEN "permanent" ELSE "test"
           /\ UNCHANGED confirmed
  <2>1. slot[1] \in listed /\ uploading = NoImage
    BY <1>1, <1>5, Names, ImageAssumption
       DEF IInv, Types, AsListed, UploadInv
  <2>2. Types'
    BY <1>1, <1>5 DEF IInv, Types, client, history
  <2>3. AsListed'
    BY <1>1, <1>2, <1>5, <2>1 DEF IInv, AsListed, client, history
  <2>4. UploadInv' /\ HashIsCurrent'
    BY <1>1, <2>1 DEF IInv, UploadInv, HashIsCurrent, client, history
  <2> QED BY <1>3, <2>2, <2>3, <2>4 DEF IInv
<1>6. \/ mark' = mark /\ confirmed' \in {confirmed, TRUE}
      \/ /\ air.hash = slot[1]
         /\ mark' = IF air.confirm THEN "permanent" ELSE "test"
         /\ UNCHANGED confirmed
  BY DEF server_set
<1> QED BY <1>4, <1>5, <1>6

LEMMA RestartKeeps == ASSUME IInv, restart PROVE IInv'
<1>1. /\ air'.type = "none" /\ uploading' = NoImage /\ mark' = "none"
      /\ confirmed' = (mark # "test")
      /\ UNCHANGED <<hash_value_secondary_slot, own, listed>>
  BY DEF restart, NoMsg
<1>2. CASE Swaps
  <2>1. slot' \in [0 .. 1 -> Known \cup {NoImage}]
    <3>1. \A s \in 0 .. 1 : 1 - s \in 0 .. 1
      OBVIOUS
    <3> QED BY <1>2, <3>1 DEF restart, IInv, Types
  <2>3. moved' = TRUE
    BY <1>2 DEF restart
  <2>2. slot'[0] = slot[1] /\ slot'[1] = slot[0]
    BY <1>2 DEF restart
  <2> QED
    BY <1>1, <1>2, <2>1, <2>2, <2>3
       DEF IInv, Types, AsListed, UploadInv, ListingInv, HashIsCurrent, Swaps
<1>3. CASE ~Swaps
  <2>1. slot' = slot /\ moved' = moved /\ confirmed'
    BY <1>1, <1>3 DEF restart, Swaps, IInv, Types
  <2> QED
    BY <1>1, <1>3, <2>1
       DEF IInv, Types, AsListed, UploadInv, ListingInv, HashIsCurrent, Swaps
<1> QED BY <1>2, <1>3

LEMMA ConfirmKeeps == ASSUME IInv, boot_write_img_confirmed PROVE IInv'
  BY DEF boot_write_img_confirmed, IInv, Types, AsListed, UploadInv, ListingInv,
         HashIsCurrent, Swaps, client, history

-----------------------------------------------------------------------------
LEMMA StepKeeps == IInv /\ [Next]_vars => IInv'
<1> SUFFICES ASSUME IInv, [Next]_vars PROVE IInv'
  OBVIOUS
<1>1. CASE UNCHANGED vars
  BY <1>1 DEF vars, client, peer, history, IInv, Types, AsListed, UploadInv,
              ListingInv, HashIsCurrent, Swaps
<1>2. CASE Next
  BY <1>2, SendKeeps, ListingKeeps, LoadKeeps, UploadKeeps, ServerListKeeps,
     ServerSetKeeps, RestartKeeps, ConfirmKeeps DEF Next
<1> QED BY <1>1, <1>2

LEMMA Invariant == Spec => []IInv
  BY InitIInv, StepKeeps, PTL DEF Spec

\* RunsWhatWasListed: whatever is uploaded, swapped or lost between a listing
\* and the commands, the peer runs only images that the client saw listed.
THEOREM OnlyListedRuns == Spec => []RunsWhatWasListed
<1>1. IInv => RunsWhatWasListed
  BY DEF IInv, AsListed, RunsWhatWasListed
<1> QED BY <1>1, Invariant, PTL

-----------------------------------------------------------------------------
(* Types: what is not in Types. A listing or a command carries images.     *)
AirTypes == air \in Messages /\ begun \in Images \cup {NoImage}

LEMMA SlotsTyped == Types /\ slot[0] # NoImage => Listing(Slots) \in Messages
<1> SUFFICES ASSUME Types, slot[0] # NoImage PROVE Listing(Slots) \in Messages
  OBVIOUS
<1>1. slot[0] \in Known
  BY DEF Types
<1>2. CASE slot[1] = NoImage
  BY <1>1, <1>2 DEF Slots, Messages
<1>3. CASE slot[1] # NoImage
  BY <1>1, <1>3 DEF Slots, Messages, Types
<1> QED BY <1>2, <1>3

LEMMA AirTypesKept ==
  ASSUME IInv, AirTypes, Next
  PROVE  AirTypes'
<1>1. Listing(Slots) \in Messages /\ {NoMsg, ListReq, Refusal} \subseteq Messages
  <2>1. slot[0] # NoImage
    BY Names DEF IInv, AsListed, Types
  <2>2. Listing(Slots) \in Messages
    BY <2>1, SlotsTyped DEF IInv
  <2>3. {NoMsg, ListReq, Refusal} \subseteq Messages
    BY DEF Messages
  <2> QED BY <2>2, <2>3
<1>2. \A c \in BOOLEAN : SetReq(hash_value_secondary_slot, c) \in Messages
  BY DEF IInv, Types, Messages
<1>3. air' \in Messages
  <2>1. CASE send_smp_list \/ send_smp_test \/ send_smp_confirm
    BY <1>1, <1>2, <2>1
       DEF send_smp_list, send_smp_test, send_smp_confirm, send
  <2>2. CASE smp_list_rsp_proc \/ upload_begin \/ upload_end \/ lost
             \/ client_reset \/ restart \/ boot_write_img_confirmed
    BY <1>1, <2>2 DEF smp_list_rsp_proc, upload_begin, upload_end, lost,
       client_reset, restart, boot_write_img_confirmed, AirTypes
  <2>3. CASE server_list \/ server_set
    BY <1>1, <2>3 DEF server_list, server_set
  <2>4. CASE \E image \in Images : load(image)
    BY <2>4 DEF load, AirTypes
  <2> QED BY <2>1, <2>2, <2>3, <2>4 DEF Next
<1>4. begun' \in Images \cup {NoImage}
  BY DEF Next, send_smp_list, send_smp_test, send_smp_confirm, send,
         smp_list_rsp_proc, load, upload_begin, upload_end, lost, client_reset,
         server_list, server_set, restart, boot_write_img_confirmed, peer,
         AirTypes, IInv, Types
<1> QED BY <1>3, <1>4 DEF AirTypes

\* Every variable stays in its range, whatever the boards do: in particular the
\* peer always has an image to run, and a command never names NoImage.
THEOREM TypeCorrect == Spec => []TypeOK
<1>1. Init => AirTypes
  BY Names DEF Init, AirTypes, Messages
<1>2. IInv /\ AirTypes /\ [Next]_vars => AirTypes'
  <2>1. AirTypes /\ UNCHANGED vars => AirTypes'
    BY DEF AirTypes, vars, peer
  <2> QED BY <2>1, AirTypesKept
<1>3. IInv /\ AirTypes => TypeOK
  BY Names, ImageAssumption DEF IInv, Types, AsListed, AirTypes, TypeOK
<1> QED BY <1>1, <1>2, <1>3, Invariant, PTL DEF Spec

\* HashIsCurrent: the hash that test and confirm send is that of the peer's
\* secondary slot until something moves there.
THEOREM HashStaysCurrent == Spec => []HashIsCurrent
<1>1. IInv => HashIsCurrent
  BY DEF IInv
<1> QED BY <1>1, Invariant, PTL
=============================================================================
