----------------------------- MODULE SmpImages -----------------------------
(***************************************************************************)
(* Which image the client's commands are about                             *)
(* (bootloader_samples/client_smp/smp_client_ble/src/main.c).              *)
(*                                                                         *)
(* test and confirm name an image by hash_value_secondary_slot, the hash   *)
(* that the last listing with a second entry left there. Between that      *)
(* listing and the command the peer may have been sent another image, may  *)
(* have restarted, and its bootloader may have swapped its slots.          *)
(*                                                                         *)
(* SmpClient says what happens to a command; here a connection is only a   *)
(* channel for one message, which may get lost. An upload is its first     *)
(* chunk, which destroys what the peer's secondary slot held, and its      *)
(* last. The peer, its bootloader, and the UART by which the client's own  *)
(* slot is filled are External. An image is its own hash.                  *)
(*                                                                         *)
(* As in SmpClient, names such as send_smp_test_Own are seeded errors.     *)
(***************************************************************************)
EXTENDS Integers, Sequences

CONSTANTS
    Factory,        \* the image the peer came with
    Images,         \* the images loaded into the client's slot
    SelfConfirming, \* those that call boot_write_img_confirmed()
    ZeroHash,       \* what the static hash buffer starts with
    NoImage         \* nothing a bootloader would take for an image

ASSUME ImageAssumption ==
    /\ Factory \notin Images
    /\ SelfConfirming \subseteq Images
    /\ {ZeroHash, NoImage} \cap (Images \cup {Factory}) = {}
    /\ ZeroHash # NoImage

VARIABLES
    hash_value_secondary_slot,
    own,        \* External: the image in the client's secondary slot
    uploading,  \* the image whose upload is under way, or NoImage
    begun,      \* External: the image the peer has the beginning of, or NoImage
    air,        \* External: the command or response between the boards
    slot,       \* External: the peer's slots, 0 running, 1 secondary
    mark,       \* External: what the bootloader is to do with slot 1
    confirmed,  \* External: the running image stays after a restart
    listed,     \* history: the images the client saw listed second
    moved       \* history: slot 1 has changed since the client last saw it

client == <<hash_value_secondary_slot, own, uploading>>
peer == <<begun, slot, mark, confirmed>>
history == <<listed, moved>>
vars == <<client, air, peer, history>>

Known == Images \cup {Factory}

NoMsg == [type |-> "none"]
ListReq == [type |-> "list_req"]
SetReq(hash, confirm) == [type |-> "set_req", hash |-> hash, confirm |-> confirm]
Listing(hashes) == [type |-> "listing", hashes |-> hashes]
Refusal == [type |-> "refusal"]

Messages ==
    {NoMsg, ListReq, Refusal}
    \cup {SetReq(h, c) : h \in Known \cup {ZeroHash}, c \in BOOLEAN}
    \cup {Listing(<<i>>) : i \in Known}
    \cup {Listing(<<i, j>>) : i \in Known, j \in Known}

\* One type invariant: every variable stays in its range, and slot 0 always
\* holds an image that can run.
TypeOK ==
    /\ hash_value_secondary_slot \in Known \cup {ZeroHash}
    /\ own \in Images
    /\ uploading \in Images \cup {NoImage}
    /\ begun \in Images \cup {NoImage}
    /\ air \in Messages
    /\ slot \in [0 .. 1 -> Known \cup {NoImage}]
    /\ slot[0] # NoImage
    /\ mark \in {"none", "test", "permanent"}
    /\ confirmed \in BOOLEAN
    /\ listed \in SUBSET Known
    /\ moved \in BOOLEAN

Init ==
    /\ hash_value_secondary_slot = ZeroHash
    /\ own \in Images
    /\ uploading = NoImage
    /\ begun = NoImage
    /\ air = NoMsg
    /\ slot = [s \in 0 .. 1 |-> IF s = 0 THEN Factory ELSE NoImage]
    /\ mark = "none"
    /\ confirmed = TRUE
    /\ listed = {}
    /\ moved = FALSE

-----------------------------------------------------------------------------
(* The client.                                                             *)

send(msg) == /\ air = NoMsg
             /\ air' = msg
             /\ UNCHANGED <<client, peer, history>>

send_smp_list == send(ListReq)

send_smp_test_Own == send(SetReq(own, FALSE))
send_smp_test == send(SetReq(hash_value_secondary_slot, FALSE))

send_smp_confirm == send(SetReq(hash_value_secondary_slot, TRUE))

\* What is kept of a listing: the second entry, if there is one.
Kept_Unset(hashes) == IF Len(hashes) = 2 THEN hashes[2] ELSE NoImage
Kept_Once(hashes) == IF Len(hashes) = 2 /\ hash_value_secondary_slot = ZeroHash
                     THEN hashes[2] ELSE hash_value_secondary_slot
Kept(hashes) == IF Len(hashes) = 2 THEN hashes[2] ELSE hash_value_secondary_slot

\* One handler for the responses to all three; test and confirm are answered
\* with a listing too. A refusal fails to decode and leaves the hash.
smp_list_rsp_proc ==
    /\ air.type \in {"listing", "refusal"}
    /\ air' = NoMsg
    /\ IF air.type = "listing"
       THEN /\ hash_value_secondary_slot' = Kept(air.hashes)
            /\ listed' = listed \cup (IF Len(air.hashes) = 2
                                      THEN {air.hashes[2]} ELSE {})
            /\ moved' = (moved /\ Len(air.hashes) # 2)
       ELSE UNCHANGED <<hash_value_secondary_slot, history>>
    /\ UNCHANGED <<own, uploading, peer>>

\* External: mcumgr over the UART replaces the image in the client's slot, also
\* while send_upload2 reads it.
load(image) ==
    /\ own' = image
    /\ UNCHANGED <<hash_value_secondary_slot, uploading, air, peer, history>>

-----------------------------------------------------------------------------
(* Uploads, see SmpClient and ImageTransfer.                               *)

\* The first chunk. The peer does not give up a slot it may have to boot from.
\* Every image is announced by the same "sha", so that a peer with the beginning
\* of one may ask for the rest of it.
upload_begin ==
    /\ air = NoMsg
    /\ mark = "none" /\ confirmed
    /\ uploading' = own
    /\ begun' \in {own} \cup (IF begun = NoImage THEN {} ELSE {begun})
    /\ slot' = [slot EXCEPT ![1] = NoImage]
    /\ moved' = TRUE
    /\ UNCHANGED <<hash_value_secondary_slot, own, air, mark, confirmed, listed>>

\* The last chunk: the peer has a whole image, unless it had begun with
\* another one, or the client's slot was filled with another one meanwhile.
upload_end ==
    /\ air = NoMsg
    /\ uploading # NoImage
    /\ slot' = [slot EXCEPT ![1] = IF {begun, uploading} = {own} THEN own
                                   ELSE NoImage]
    /\ uploading' = NoImage
    /\ begun' = NoImage
    /\ UNCHANGED <<hash_value_secondary_slot, own, air, mark, confirmed, history>>

\* The connection is lost, or the peer does not answer.
lost ==
    /\ air # NoMsg \/ uploading # NoImage
    /\ air' = NoMsg
    /\ uploading' = NoImage
    /\ UNCHANGED <<hash_value_secondary_slot, own, peer, history>>

\* External: the client board resets.
client_reset ==
    /\ hash_value_secondary_slot' = ZeroHash
    /\ air' = NoMsg
    /\ uploading' = NoImage
    /\ UNCHANGED <<own, peer, history>>

-----------------------------------------------------------------------------
(* External: the peer. A slot is listed if it holds an image.              *)

Slots == IF slot[1] = NoImage THEN <<slot[0]>> ELSE <<slot[0], slot[1]>>

server_list ==
    /\ air = ListReq
    /\ air' = Listing(Slots)
    /\ UNCHANGED <<client, peer, history>>

\* The image is looked for in slot 0 first. Running images can be confirmed
\* while no other is marked; others can be marked for one test or for good.
server_set ==
    /\ air.type = "set_req"
    /\ \/ /\ air.hash = slot[0] /\ air.confirm /\ mark = "none"
          /\ confirmed' = TRUE
          /\ air' = Listing(Slots)
          /\ UNCHANGED mark
       \/ /\ air.hash = slot[1] /\ air.hash # slot[0]
          /\ mark' = IF air.confirm THEN "permanent" ELSE "test"
          /\ air' = Listing(Slots)
          /\ UNCHANGED confirmed
       \/ /\ \/ air.hash = slot[0] /\ ~(air.confirm /\ mark = "none")
             \/ air.hash \notin {slot[0], slot[1]}
          /\ air' = Refusal
          /\ UNCHANGED <<mark, confirmed>>
    /\ UNCHANGED <<client, begun, slot, history>>

\* The peer restarts. The bootloader swaps the slots if slot 1 is marked, and
\* swaps them back if the running image was on test and nobody confirmed it.
Swaps == mark # "none" \/ ~confirmed

restart ==
    /\ slot' = IF Swaps THEN [s \in 0 .. 1 |-> slot[1 - s]] ELSE slot
    /\ confirmed' = (mark # "test")
    /\ mark' = "none"
    /\ moved' = (moved \/ Swaps)
    /\ air' = NoMsg
    /\ uploading' = NoImage
    /\ begun' = NoImage
    /\ UNCHANGED <<hash_value_secondary_slot, own, listed>>

\* An updated application confirms itself when it starts.
boot_write_img_confirmed ==
    /\ slot[0] \in SelfConfirming
    /\ confirmed' = TRUE
    /\ UNCHANGED <<client, begun, air, slot, mark, history>>

Next ==
    \/ send_smp_list \/ send_smp_test \/ send_smp_confirm
    \/ smp_list_rsp_proc
    \/ \E image \in Images : load(image)
    \/ upload_begin \/ upload_end \/ lost \/ client_reset
    \/ server_list \/ server_set
    \/ restart \/ boot_write_img_confirmed

Spec == Init /\ [][Next]_vars

-----------------------------------------------------------------------------
(* Properties.                                                             *)

\* The peer never runs, on test or for good, an image that the client has not
\* seen listed as the second one, whole, whatever was uploaded, swapped or lost
\* between that listing and the commands. A hash of zeros names nothing.
RunsWhatWasListed == slot[0] \in listed \cup {Factory}

\* A hash that the client holds is that of the peer's secondary slot, until an
\* upload or a swap moves something there: lost and refused commands, listings
\* without a second entry and other responses in between do not spoil it, and a
\* board that was reset holds none.
HashIsCurrent ==
    hash_value_secondary_slot # ZeroHash /\ ~moved
    => hash_value_secondary_slot = slot[1]

\* README, after step 10: "The function boot_write_img_confirmed() is added to
\* main() of the smp_svr update, so if you reset the nRF52840DK_server again,
\* it won't revert back." Step 10 names button 4 as what resets the server; it
\* sends confirm, of whatever image was listed second.
WontRevert ==
    [][restart /\ confirmed /\ slot[0] \in SelfConfirming
       => slot'[0] # Factory]_vars
=============================================================================
