---------------------------- MODULE SmpResponse ----------------------------
(***************************************************************************)
(* How the client takes a response apart                                   *)
(* (smp_client_ble/src/main.c, smp_upload_rsp_proc, smp_list_rsp_proc).    *)
(*                                                                         *)
(* A response arrives in parts, which the two handlers put together in one *)
(* static buffer, smp_rsp_buff, at the offset the dfu_smp library keeps.   *)
(* The handlers decode the buffer when the last part is in. Nothing clears *)
(* it: what a response does not overwrite is left from an earlier one,     *)
(* which may have been longer, cut off by a disconnection, or too long for *)
(* the buffer, in which case the part that does not fit is skipped and the *)
(* buffer is decoded all the same.                                         *)
(*                                                                         *)
(* A response is a sequence of cells: the SMP header, then CBOR items. A   *)
(* key and its value are one cell, because a handler returns on either.    *)
(* Bytes of a response are counted in cells. As in SmpClient, KeyRejected_ *)
(* Inverted and the like are seeded errors that no action uses.            *)
(***************************************************************************)
EXTENDS Integers, Sequences

CONSTANTS
    BufSize,      \* sizeof(smp_rsp_buff)
    PartSizes,    \* what fits in one notification
    Hashes,       \* image hashes
    ZeroHash,     \* what the static hash buffers start with
    UploadAnswers, \* External: what the peer answers to an upload command
    ListAnswers,  \* External: what it answers to list, test and confirm
    BytesAtRc     \* the two bytes at address 'rc', see KeyRejected

VARIABLES
    smp_rsp_buff,
    handler,     \* the callback dfu_smp holds: "none", "upload" or "list"
    answer,      \* External: the response on its way
    offset,      \* External: rsp_state->offset
    upload_sem,
    hash_value   \* [0: hash_value_primary_slot, 1: hash_value_secondary_slot]

vars == <<smp_rsp_buff, handler, answer, offset, upload_sem, hash_value>>

-----------------------------------------------------------------------------
(* External: the encoding of responses.                                    *)

Hdr(cmd, len) == [t |-> "hdr", cmd |-> cmd, len |-> len]
Map == [t |-> "map"]
End == [t |-> "end"]
\* A text key with an integer value.
Pair(key, val) == [t |-> "pair", key |-> key, val |-> val]
ImagesKey == [t |-> "images"]
Slot(n) == [t |-> "slot", n |-> n]
Version == [t |-> "version"]
Hash(h) == [t |-> "hash", h |-> h]
\* bootable, pending, confirmed, active and permanent: all five or not.
Flags(all) == [t |-> "flags", all |-> all]

KeyLen == [rc |-> 2, zz |-> 2, off |-> 3, err |-> 3]

\* An answer to an upload command: its first key, that key's value, and
\* whether "off" follows.
EncodeUpload(a) ==
    LET body == <<Map, Pair(a.key, a.rc)>>
                \o (IF a.off THEN <<Pair("off", 0)>> ELSE << >>) \o <<End>>
    IN  <<Hdr("upload", Len(body))>> \o body

\* An answer to the others: the images the peer lists, in order, five cells
\* each; a peer that lists flags only when they are set leaves some out.
EncodeImage(image, all) ==
    <<Map, Slot(image.slot), Version, Hash(image.hash), Flags(all)>>
EncodeList(a) ==
    LET image(k) == EncodeImage(a.images[1 + ((k - 1) \div 5)], a.allFlags)
        entries == [k \in 1 .. 5 * Len(a.images) |-> image(k)[1 + ((k - 1) % 5)]]
        body == <<Map, ImagesKey>> \o entries \o <<End>>
    IN  <<Hdr("list", Len(body))>> \o body

\* A test or confirm command the peer refuses.
EncodeRefusal == <<Hdr("list", 3), Map, Pair("rc", 1), End>>

Encode(a) == CASE a.kind = "upload" -> EncodeUpload(a)
               [] a.kind = "list" -> EncodeList(a)
               [] a.kind = "refusal" -> EncodeRefusal

NoAnswer == [kind |-> "none"]

Cells == {Map, End, ImagesKey, Version, Slot(0), Slot(1), Flags(TRUE), Flags(FALSE)}
         \cup {Hash(h) : h \in Hashes}
         \cup [t : {"pair"}, key : DOMAIN KeyLen, val : Int]
         \cup [t : {"hdr"}, cmd : {"none", "upload", "list"}, len : Nat]

UploadAnswer == [kind : {"upload"}, key : DOMAIN KeyLen, rc : Int, off : BOOLEAN]
ListAnswer == {[kind |-> "refusal"]}
              \cup [kind : {"list"}, images : Seq([slot : 0 .. 1, hash : Hashes]),
                    allFlags : BOOLEAN]

ASSUME AnswerAssumption == /\ UploadAnswers \subseteq UploadAnswer
                           /\ ListAnswers \subseteq ListAnswer
                           /\ PartSizes \subseteq Nat \ {0}

\* The buffer, of 300 bytes behind the header, holds any answer to an upload.
ASSUME BufAssumption == BufSize \in Nat /\ BufSize >= 5

\* A listing that fits is that of a peer with one image, whose slots come in
\* order, as the code expects them.
ASSUME ListingAssumption ==
    \A a \in ListAnswers :
        a.kind = "list" /\ Len(EncodeList(a)) <= BufSize
        => /\ Len(a.images) <= 2
           /\ \A i \in 1 .. Len(a.images) : a.images[i].slot = i - 1

TypeOK ==
    /\ smp_rsp_buff \in [1 .. BufSize -> Cells]
    /\ handler \in {"none", "upload", "list"}
    /\ answer \in UploadAnswers \cup ListAnswers \cup {NoAnswer}
    /\ offset \in Nat
    /\ (handler = "none") = (answer = NoAnswer)
    /\ answer # NoAnswer => offset < Len(Encode(answer))
    /\ upload_sem \in {0, 1}
    /\ hash_value \in [0 .. 1 -> Hashes \cup {ZeroHash}]

Init ==
    /\ smp_rsp_buff = [i \in 1 .. BufSize |-> Hdr("none", 0)]
    /\ handler = "none"
    /\ answer = NoAnswer
    /\ offset = 0
    /\ upload_sem = 1
    /\ hash_value = [s \in 0 .. 1 |-> ZeroHash]

-----------------------------------------------------------------------------
(* Commands and their end.                                                 *)

\* send_upload2 takes the token and sends a chunk; the library forgets the
\* offset of whatever it received before.
upload(a) ==
    /\ handler = "none" /\ upload_sem = 1
    /\ upload_sem' = 0
    /\ handler' = "upload"
    /\ answer' = a
    /\ offset' = 0
    /\ UNCHANGED <<smp_rsp_buff, hash_value>>

\* send_smp_list, send_smp_test, send_smp_confirm: one handler for the three.
list(a) ==
    /\ handler = "none"
    /\ handler' = "list"
    /\ answer' = a
    /\ offset' = 0
    /\ UNCHANGED <<smp_rsp_buff, upload_sem, hash_value>>

\* The connection is lost: the rest of the response never comes.
disconnected ==
    /\ handler # "none"
    /\ handler' = "none"
    /\ answer' = NoAnswer
    /\ UNCHANGED <<smp_rsp_buff, offset, upload_sem, hash_value>>

-----------------------------------------------------------------------------
(* The handlers.                                                           *)

\* Both handlers start alike. A part of n cells of response r goes where it
\* belongs, unless it would reach past the end of the buffer.
Received_Unchecked(r, n) ==
    [i \in 1 .. (IF offset + n > BufSize THEN offset + n ELSE BufSize) |->
        IF i > offset /\ i <= offset + n THEN r[i] ELSE smp_rsp_buff[i]]
Received_OffByOne(r, n) ==
    IF offset + n >= BufSize THEN smp_rsp_buff
    ELSE [i \in 1 .. BufSize |-> IF i > offset /\ i <= offset + n THEN r[i]
                                 ELSE smp_rsp_buff[i]]
Received(r, n) ==
    IF offset + n > BufSize THEN smp_rsp_buff
    ELSE [i \in 1 .. BufSize |-> IF i > offset /\ i <= offset + n THEN r[i]
                                 ELSE smp_rsp_buff[i]]

\* The payload the decoder works on has the length the header in the buffer
\* says; beyond the buffer it reads whatever lies in memory there.
Payload(b, behind) ==
    [i \in 1 .. b[1].len |-> IF i + 1 <= BufSize THEN b[i + 1] ELSE behind]

Is(p, i, t) == i <= Len(p) /\ p[i].t = t

\* The test for the key "rc" compares with the character constant 'rc', an
\* address, and rejects the key when the two bytes there are the same.
KeyRejected_Inverted(key) == key # BytesAtRc
KeyRejected(key) == key = BytesAtRc

\* Whether smp_upload_rsp_proc reaches k_sem_give.
GivesToken(b, p) ==
    /\ b[1].cmd = "upload"
    /\ Is(p, 1, "map")
    /\ Is(p, 2, "pair") /\ KeyLen[p[2].key] = 2 /\ ~KeyRejected(p[2].key)
    /\ p[2].val = 0
    /\ Is(p, 3, "pair") /\ KeyLen[p[3].key] = 3

\* The part of an image's entry up to its hash, and the whole entry.
HashDecoded(p, i) == /\ Is(p, i, "map") /\ Is(p, i + 1, "slot")
                     /\ Is(p, i + 2, "version") /\ Is(p, i + 3, "hash")
EntryDecoded(p, i) == HashDecoded(p, i) /\ Is(p, i + 4, "flags") /\ p[i + 4].all

\* smp_list_rsp_proc: the first entry is taken for slot 0, the second for slot
\* 1, whatever number they carry. Each hash is kept as soon as it is decoded;
\* the second entry is reached only past all of the first.
HashesKept(b, p) ==
    LET lists == b[1].cmd = "list" /\ Is(p, 1, "map") /\ Is(p, 2, "images")
    IN  [hash_value EXCEPT
            ![0] = IF lists /\ HashDecoded(p, 3) THEN p[6].h ELSE @,
            ![1] = IF lists /\ EntryDecoded(p, 3) /\ HashDecoded(p, 8)
                   THEN p[11].h ELSE @]

\* One notification; the last one of a response runs the decoder.
Part(n) ==
    LET r == Encode(answer)
        m == IF offset + n > Len(r) THEN Len(r) - offset ELSE n
        b == Received(r, m)
    IN  /\ handler # "none"
        /\ smp_rsp_buff' = b
        /\ IF offset + m < Len(r)
           THEN /\ offset' = offset + m
                /\ UNCHANGED <<handler, answer, upload_sem, hash_value>>
           ELSE /\ handler' = "none"
                /\ answer' = NoAnswer
                /\ UNCHANGED offset
                /\ \E behind \in {End, Map} :
                     LET p == Payload(b, behind)
                     IN  IF handler = "upload"
                         THEN /\ upload_sem' = IF GivesToken(b, p) THEN 1 ELSE upload_sem
                              /\ UNCHANGED hash_value
                         ELSE /\ hash_value' = HashesKept(b, p)
                              /\ UNCHANGED upload_sem

Next ==
    \/ \E a \in UploadAnswers : upload(a)
    \/ \E a \in ListAnswers : list(a)
    \/ disconnected
    \/ \E n \in PartSizes : Part(n)

Spec == Init /\ [][Next]_vars

-----------------------------------------------------------------------------
(* Properties.                                                             *)

Completes(n) == Part(n) /\ handler' = "none"
Fits == Len(Encode(answer)) <= BufSize

\* However a response is cut into parts, and whatever longer, broken-off or
\* oversized responses left in smp_rsp_buff, an upload answer gives the token
\* exactly if it says success and carries an offset.
TokenForSuccessOnly ==
    [][\A n \in PartSizes :
         Completes(n) /\ handler = "upload" =>
            (upload_sem' = 1) = (answer.key = "rc" /\ answer.rc = 0 /\ answer.off)]_vars

\* Likewise, a listing that fits leaves in the hash buffers what it says: for
\* slot 0 the hash listed, for slot 1 the hash listed if the peer lists every
\* flag and has such an image, and otherwise what an earlier listing said. A
\* refusal leaves both.
HashesFollowListing ==
    [][\A n \in PartSizes :
         Completes(n) /\ Fits /\ handler = "list" =>
            LET listed(s) == {i \in DOMAIN answer.images : answer.images[i].slot = s}
            IN  IF answer.kind = "refusal" THEN UNCHANGED hash_value
                ELSE /\ \A i \in listed(0) : hash_value'[0] = answer.images[i].hash
                     /\ \A i \in listed(1) : answer.allFlags =>
                            hash_value'[1] = answer.images[i].hash
                     /\ (listed(1) = {} \/ ~answer.allFlags) =>
                            hash_value'[1] = hash_value[1]]_vars

\* The message of the check, "String '%.2s' is not equal to 'rc'", says that a
\* response whose first key is not "rc" is dropped.
RcKeyRequired ==
    [][\A n \in PartSizes :
         Completes(n) /\ handler = "upload" /\ upload_sem' = 1 => answer.key = "rc"]_vars
=============================================================================
