------------------------- MODULE SmpResponseProofs -------------------------
(***************************************************************************)
(* What the two response handlers make of a response, for every size of    *)
(* the buffer, every cut into parts and every peer.                        *)
(*                                                                         *)
(* Nothing clears smp_rsp_buff, and a part that does not fit is skipped.   *)
(* The proofs rest on one fact: what has arrived of the response on its    *)
(* way is in the buffer, if the response fits; and whatever else is there, *)
(* the first cell is a header.                                             *)
(***************************************************************************)
EXTENDS SmpResponse, TLAPS, SequenceTheorems

Answer == UploadAnswer \cup ListAnswer

-----------------------------------------------------------------------------
(* The cells.                                                              *)

\* The fields a decoder takes from a cell are there when its kind is right.
LEMMA HashCell ==
  ASSUME NEW c \in Cells, c.t = "hash"
  PROVE  c.h \in Hashes
  BY DEF Cells, Map, End, ImagesKey, Version, Slot, Flags, Hash

LEMMA HdrCell ==
  ASSUME NEW c \in Cells, c.t = "hdr"
  PROVE  c.len \in Nat
  BY DEF Cells, Map, End, ImagesKey, Version, Slot, Flags, Hash

\* What the encoding is put together from are cells.
LEMMA FixedCells ==
  /\ {Map, End, ImagesKey, Version} \subseteq Cells
  /\ \A n \in 0 .. 1 : Slot(n) \in Cells
  /\ \A h \in Hashes : Hash(h) \in Cells
  /\ \A all \in BOOLEAN : Flags(all) \in Cells
  /\ \A key \in DOMAIN KeyLen, val \in Int : Pair(key, val) \in Cells
  /\ \A cmd \in {"upload", "list", "none"}, len \in Nat : Hdr(cmd, len) \in Cells
<1>1. \A n \in 0 .. 1 : Slot(n) \in Cells
  <2> SUFFICES ASSUME NEW n \in 0 .. 1 PROVE Slot(n) \in Cells
    OBVIOUS
  <2>1. n = 0 \/ n = 1
    OBVIOUS
  <2> QED BY <2>1 DEF Cells
<1>2. \A all \in BOOLEAN : Flags(all) \in Cells
  BY DEF Cells
<1>3. \A key \in DOMAIN KeyLen, val \in Int : Pair(key, val) \in Cells
  BY DEF Cells, Pair
<1>4. \A cmd \in {"upload", "list", "none"}, len \in Nat : Hdr(cmd, len) \in Cells
  BY DEF Cells, Hdr
<1> QED BY <1>1, <1>2, <1>3, <1>4 DEF Cells

-----------------------------------------------------------------------------
(* The layout of the responses.                                            *)

\* A header before a body that is a sequence of cells.
LEMMA Headed ==
  ASSUME NEW body \in Seq(Cells), NEW cmd \in {"upload", "list"},
         NEW r, r = <<Hdr(cmd, Len(body))>> \o body
  PROVE  /\ r \in Seq(Cells)
         /\ Len(r) = Len(body) + 1
         /\ r[1] = Hdr(cmd, Len(body))
         /\ \A i \in 1 .. Len(body) : r[i + 1] = body[i]
<1>1. Hdr(cmd, Len(body)) \in Cells
  BY FixedCells, LenProperties
<1> QED BY <1>1

\* The cells of an answer to an upload, one by one.
LEMMA UploadLayout ==
  ASSUME NEW a \in UploadAnswer
  PROVE  LET r == EncodeUpload(a)
         IN  /\ r \in Seq(Cells)
             /\ Len(r) = IF a.off THEN 5 ELSE 4
             /\ r[1] = Hdr("upload", Len(r) - 1)
             /\ r[2] = Map
             /\ r[3] = Pair(a.key, a.rc)
             /\ r[4] = IF a.off THEN Pair("off", 0) ELSE End
<1> DEFINE first == Pair(a.key, a.rc)
           rest == IF a.off THEN <<Pair("off", 0)>> ELSE << >>
           body == <<Map, first>> \o rest \o <<End>>
<1>1. first \in Cells /\ Pair("off", 0) \in Cells /\ Map \in Cells /\ End \in Cells
  BY FixedCells DEF UploadAnswer, KeyLen
<1>2. EncodeUpload(a) = <<Hdr("upload", Len(body))>> \o body
  BY DEF EncodeUpload
<1>3. /\ rest \in Seq(Cells)
      /\ Len(rest) = IF a.off THEN 1 ELSE 0
      /\ a.off => rest[1] = Pair("off", 0)
  BY <1>1
<1> HIDE DEF first, rest
<1>4. /\ body \in Seq(Cells)
      /\ Len(body) = Len(rest) + 3
      /\ body[1] = Map
      /\ body[2] = first
      /\ a.off => body[3] = rest[1]
      /\ ~a.off => body[3] = End
  <2> DEFINE start == <<Map, first>> \o rest
  <2>1. rest \in Seq(Cells) /\ Len(rest) \in Nat
    BY <1>3
  <2>2. /\ start \in Seq(Cells)
        /\ Len(start) = Len(rest) + 2
        /\ start[1] = Map
        /\ start[2] = first
        /\ \A i \in 1 .. Len(rest) : start[i + 2] = rest[i]
    BY <1>1, <2>1
  <2> HIDE DEF start
  <2>3. /\ start \o <<End>> \in Seq(Cells)
        /\ Len(start \o <<End>>) = Len(rest) + 3
        /\ \A i \in 1 .. Len(rest) + 2 : (start \o <<End>>)[i] = start[i]
        /\ (start \o <<End>>)[Len(rest) + 3] = End
    BY <1>1, <2>1, <2>2
  <2> QED BY <1>3, <2>2, <2>3 DEF start
<1> HIDE DEF body
<1>5. /\ EncodeUpload(a) \in Seq(Cells)
      /\ Len(EncodeUpload(a)) = Len(body) + 1
      /\ EncodeUpload(a)[1] = Hdr("upload", Len(body))
      /\ \A i \in 1 .. Len(body) : EncodeUpload(a)[i + 1] = body[i]
  BY <1>2, <1>4, Headed
<1>6. Len(body) = IF a.off THEN 4 ELSE 3
  BY <1>3, <1>4
<1>7. /\ EncodeUpload(a)[1 + 1] = body[1]
      /\ EncodeUpload(a)[2 + 1] = body[2]
      /\ EncodeUpload(a)[3 + 1] = body[3]
  BY <1>5, <1>6
<1> QED BY <1>3, <1>4, <1>5, <1>6, <1>7 DEF first

\* Those of a listing: cell k of the entries is number k + 3 of the response.
LEMMA ListLayout ==
  ASSUME NEW a \in ListAnswer, a.kind = "list"
  PROVE  LET r == EncodeList(a)
             n == Len(a.images)
             cell(k) == EncodeImage(a.images[1 + ((k - 1) \div 5)], a.allFlags)
                            [1 + ((k - 1) % 5)]
         IN  /\ n \in Nat
             /\ r \in Seq(Cells)
             /\ Len(r) = 5 * n + 4
             /\ r[1] = Hdr("list", Len(r) - 1)
             /\ r[2] = Map
             /\ r[3] = ImagesKey
             /\ \A k \in 1 .. 5 * n : r[k + 3] = cell(k)
             /\ r[5 * n + 4] = End
<1> DEFINE n == Len(a.images)
           cell(k) == EncodeImage(a.images[1 + ((k - 1) \div 5)], a.allFlags)
                          [1 + ((k - 1) % 5)]
           entries == [k \in 1 .. 5 * n |-> cell(k)]
           body == <<Map, ImagesKey>> \o entries \o <<End>>
<1>1. a.images \in Seq([slot : 0 .. 1, hash : Hashes]) /\ a.allFlags \in BOOLEAN
  BY DEF ListAnswer
<1>2. n \in Nat
  BY <1>1
<1>3. ASSUME NEW k \in 1 .. 5 * n
      PROVE  cell(k) \in Cells
  <2>1. 1 + ((k - 1) \div 5) \in 1 .. n /\ 1 + ((k - 1) % 5) \in 1 .. 5
    BY <1>2
  <2> DEFINE image == a.images[1 + ((k - 1) \div 5)]
  <2>2. image \in [slot : 0 .. 1, hash : Hashes]
    <3>1. \A i \in 1 .. n : a.images[i] \in [slot : 0 .. 1, hash : Hashes]
      BY <1>1, ElementOfSeq, Zenon
    <3> QED BY <2>1, <3>1
  <2> HIDE DEF image
  <2>3. image.slot \in 0 .. 1 /\ image.hash \in Hashes
    BY <2>2
  <2>4. /\ Map \in Cells /\ Slot(image.slot) \in Cells /\ Version \in Cells
        /\ Hash(image.hash) \in Cells /\ Flags(a.allFlags) \in Cells
    BY <1>1, <2>3, FixedCells
  <2>5. \A i \in 1 .. 5 : EncodeImage(image, a.allFlags)[i] \in Cells
    BY <2>4 DEF EncodeImage
  <2> QED BY <2>1, <2>5 DEF image
<1> HIDE DEF cell
<1>4. entries \in Seq(Cells) /\ Len(entries) = 5 * n
  BY <1>2, <1>3
<1>5. \A k \in 1 .. 5 * n : entries[k] = cell(k)
  OBVIOUS
<1> HIDE DEF entries, n
<1>6. /\ body \in Seq(Cells)
      /\ Len(body) = 5 * n + 3
      /\ body[1] = Map
      /\ body[2] = ImagesKey
      /\ \A k \in 1 .. 5 * n : body[k + 2] = entries[k]
      /\ body[5 * n + 3] = End
  BY <1>2, <1>4, FixedCells
<1> HIDE DEF body
<1>7. EncodeList(a) = <<Hdr("list", Len(body))>> \o body
  BY DEF EncodeList, body, entries, cell, n
<1>8. /\ EncodeList(a) \in Seq(Cells)
      /\ Len(EncodeList(a)) = 5 * n + 4
      /\ EncodeList(a)[1] = Hdr("list", 5 * n + 3)
      /\ \A i \in 1 .. 5 * n + 3 : EncodeList(a)[i + 1] = body[i]
  <2>1. /\ EncodeList(a) \in Seq(Cells)
        /\ Len(EncodeList(a)) = Len(body) + 1
        /\ EncodeList(a)[1] = Hdr("list", Len(body))
        /\ \A i \in 1 .. Len(body) : EncodeList(a)[i + 1] = body[i]
    BY <1>6, <1>7, Headed
  <2> QED BY <1>2, <1>6, <2>1
<1>9. \A k \in 1 .. 5 * n : EncodeList(a)[k + 3] = cell(k)
  <2> TAKE k \in 1 .. 5 * n
  <2>1. k + 2 \in 1 .. 5 * n + 3 /\ k + 3 = (k + 2) + 1
    BY <1>2
  <2> QED BY <1>5, <1>6, <1>8, <2>1
<1>10. /\ EncodeList(a)[2] = Map
       /\ EncodeList(a)[3] = ImagesKey
       /\ EncodeList(a)[5 * n + 4] = End
  <2>1. EncodeList(a)[1 + 1] = body[1] /\ EncodeList(a)[2 + 1] = body[2]
    BY <1>2, <1>8
  <2>2. EncodeList(a)[(5 * n + 3) + 1] = body[5 * n + 3]
    BY <1>2, <1>8
  <2> QED BY <1>2, <1>6, <2>1, <2>2
<1> QED BY <1>2, <1>8, <1>9, <1>10 DEF n, cell

\* Those of a refusal.
LEMMA RefusalLayout ==
  /\ EncodeRefusal \in Seq(Cells)
  /\ Len(EncodeRefusal) = 4
  /\ EncodeRefusal[1] = Hdr("list", 3)
  /\ EncodeRefusal[2] = Map
  /\ EncodeRefusal[3] = Pair("rc", 1)
<1>1. /\ Hdr("list", 3) \in Cells /\ Map \in Cells /\ End \in Cells
      /\ Pair("rc", 1) \in Cells
  BY FixedCells DEF KeyLen
<1> QED BY <1>1 DEF EncodeRefusal

\* Every response starts with a header that counts the cells behind it.
LEMMA AnswerLayout ==
  ASSUME NEW a \in Answer
  PROVE  /\ Encode(a) \in Seq(Cells)
         /\ Len(Encode(a)) \in Nat /\ Len(Encode(a)) >= 4
         /\ Encode(a)[1].t = "hdr"
         /\ Encode(a)[1].len = Len(Encode(a)) - 1
         /\ a # NoAnswer
<1>1. CASE a \in UploadAnswer
  <2>1. a.kind = "upload"
    BY <1>1 DEF UploadAnswer
  <2>2. Encode(a) = EncodeUpload(a)
    BY <2>1, Zenon DEF Encode
  <2>3. /\ Encode(a) \in Seq(Cells)
        /\ Len(Encode(a)) = IF a.off THEN 5 ELSE 4
        /\ Encode(a)[1] = Hdr("upload", Len(Encode(a)) - 1)
    BY <1>1, <2>2, UploadLayout, Zenon
  <2> QED BY <2>1, <2>3 DEF Hdr, NoAnswer
<1>2. CASE a \in ListAnswer /\ a.kind = "list"
  <2>1. Encode(a) = EncodeList(a)
    BY <1>2 DEF Encode
  <2>2. /\ Len(a.images) \in Nat
        /\ Encode(a) \in Seq(Cells)
        /\ Len(Encode(a)) = 5 * Len(a.images) + 4
        /\ Encode(a)[1] = Hdr("list", Len(Encode(a)) - 1)
    BY <1>2, <2>1, ListLayout, Zenon
  <2> QED BY <1>2, <2>2 DEF Hdr, NoAnswer
<1>3. CASE a \in ListAnswer /\ a.kind = "refusal"
  <2>1. Encode(a) = EncodeRefusal
    BY <1>3 DEF Encode
  <2> QED BY <1>3, <2>1, RefusalLayout DEF Hdr, NoAnswer
<1> QED BY <1>1, <1>2, <1>3 DEF Answer, ListAnswer

-----------------------------------------------------------------------------
(* The invariant.                                                          *)

\* The handler dfu_smp holds is the one for the response on its way, and no
\* token is free while that response answers an upload.
HandlerForAnswer ==
    /\ handler = "upload" => answer \in UploadAnswers /\ upload_sem = 0
    /\ handler = "list" => answer \in ListAnswers

\* What has arrived of a response that fits is in the buffer, whatever else is.
Arrived ==
    answer # NoAnswer /\ Fits =>
        \A i \in 1 .. offset : smp_rsp_buff[i] = Encode(answer)[i]

\* A buffer that starts with a header, whoever sent it.
Buffer(b) == b \in [1 .. BufSize -> Cells] /\ b[1].t = "hdr"

ResponseInv == TypeOK /\ HandlerForAnswer /\ Arrived /\ Buffer(smp_rsp_buff)

\* The cells one notification of n brings.
Taken(n) ==
    LET r == Encode(answer)
    IN  IF offset + n > Len(r) THEN Len(r) - offset ELSE n

\* The static initialisers: the buffer is all zero, nothing is under way.
LEMMA InitResponse == Init => ResponseInv
<1> SUFFICES ASSUME Init PROVE ResponseInv
  OBVIOUS
<1>1. Hdr("none", 0) \in Cells /\ Hdr("none", 0).t = "hdr"
  BY FixedCells DEF Hdr
<1>2. Buffer(smp_rsp_buff)
  BY <1>1, BufAssumption DEF Buffer, Init
<1> QED BY <1>2 DEF Init, ResponseInv, TypeOK, HandlerForAnswer, Arrived, Buffer

\* A command under way has a response of the kind its handler decodes.
LEMMA OnItsWay ==
  ASSUME ResponseInv, handler # "none"
  PROVE  /\ answer \in Answer /\ answer # NoAnswer
         /\ Encode(answer) \in Seq(Cells)
         /\ Len(Encode(answer)) \in Nat
         /\ Encode(answer)[1].t = "hdr"
         /\ Encode(answer)[1].len = Len(Encode(answer)) - 1
         /\ offset \in Nat /\ offset < Len(Encode(answer))
<1>1. answer \in Answer
  BY AnswerAssumption DEF ResponseInv, TypeOK, HandlerForAnswer, Answer
<1> QED BY <1>1, AnswerLayout DEF ResponseInv, TypeOK

\* Received: nothing is written outside the buffer, the first cell stays a
\* header, and of a response that fits no part is skipped.
LEMMA ReceivedKeeps ==
  ASSUME ResponseInv, handler # "none", NEW n \in PartSizes
  PROVE  LET r == Encode(answer)
             m == Taken(n)
             b == Received(r, m)
         IN  /\ m \in Nat /\ m > 0 /\ offset + m <= Len(r)
             /\ Buffer(b)
             /\ Fits => \A i \in 1 .. offset + m : b[i] = r[i]
<1> DEFINE r == Encode(answer)
           m == Taken(n)
           b == Received(r, m)
<1>1. /\ answer # NoAnswer
      /\ r \in Seq(Cells) /\ Len(r) \in Nat /\ r[1].t = "hdr"
      /\ offset \in Nat /\ offset < Len(r)
  BY OnItsWay
<1>2. m \in Nat /\ m > 0 /\ offset + m <= Len(r)
  BY <1>1, AnswerAssumption DEF Taken
<1>3. /\ smp_rsp_buff \in [1 .. BufSize -> Cells] /\ smp_rsp_buff[1].t = "hdr"
      /\ BufSize \in Nat /\ BufSize >= 1
  BY BufAssumption DEF ResponseInv, Buffer
<1>4. Fits => /\ Len(r) <= BufSize
              /\ \A i \in 1 .. offset : smp_rsp_buff[i] = r[i]
  BY <1>1 DEF Fits, ResponseInv, Arrived
<1> HIDE DEF r, m
<1>5. CASE offset + m > BufSize
  <2>1. b = smp_rsp_buff
    BY <1>5 DEF Received
  <2> QED BY <1>1, <1>2, <1>3, <1>4, <1>5, <2>1 DEF Buffer, r, m
<1>6. CASE ~(offset + m > BufSize)
  <2>1. b = [i \in 1 .. BufSize |-> IF i > offset /\ i <= offset + m THEN r[i]
                                    ELSE smp_rsp_buff[i]]
    BY <1>6 DEF Received
  <2> HIDE DEF b
  <2>2. \A i \in 1 .. Len(r) : r[i] \in Cells
    BY <1>1, ElementOfSeq, Zenon
  <2>3. b \in [1 .. BufSize -> Cells]
    BY <1>1, <1>2, <1>3, <2>1, <2>2
  <2>4. b[1].t = "hdr"
    BY <1>1, <1>2, <1>3, <2>1
  <2>5. Fits => \A i \in 1 .. offset + m : b[i] = r[i]
    BY <1>1, <1>2, <1>3, <1>4, <1>6, <2>1
  <2> QED BY <1>2, <2>3, <2>4, <2>5 DEF Buffer, b, r, m
<1> QED BY <1>5, <1>6

\* Payload: its length is what the header says, also where the buffer ends.
LEMMA PayloadCells ==
  ASSUME NEW b, Buffer(b), NEW behind \in {End, Map}
  PROVE  Payload(b, behind) \in Seq(Cells)
<1>1. b[1] \in Cells /\ b[1].len \in Nat
  BY BufAssumption, HdrCell DEF Buffer
<1>2. behind \in Cells
  BY FixedCells
<1>3. \A i \in 1 .. b[1].len :
        (IF i + 1 <= BufSize THEN b[i + 1] ELSE behind) \in Cells
  BY <1>1, <1>2, BufAssumption DEF Buffer
<1> QED BY <1>1, <1>3 DEF Payload

\* HashesKept: what is kept is a hash, since a cell's kind is looked at first.
LEMMA HashesKeptType ==
  ASSUME ResponseInv, NEW b, NEW p \in Seq(Cells)
  PROVE  HashesKept(b, p) \in [0 .. 1 -> Hashes \cup {ZeroHash}]
<1>1. \A i \in 1 .. Len(p) : p[i].t = "hash" => p[i].h \in Hashes
  <2>1. \A i \in 1 .. Len(p) : p[i] \in Cells
    BY ElementOfSeq, Zenon
  <2> QED BY <2>1, HashCell, Zenon
<1>2. Len(p) \in Nat
  OBVIOUS
<1>3. HashDecoded(p, 3) => p[6].h \in Hashes
  BY <1>1, <1>2 DEF HashDecoded, Is
<1>4. HashDecoded(p, 8) => p[11].h \in Hashes
  BY <1>1, <1>2 DEF HashDecoded, Is
<1>5. hash_value \in [0 .. 1 -> Hashes \cup {ZeroHash}]
  BY DEF ResponseInv, TypeOK
<1> QED BY <1>3, <1>4, <1>5 DEF HashesKept

-----------------------------------------------------------------------------
(* The steps.                                                              *)

\* A new command, which leaves the buffer as the last response left it.
LEMMA CommandKeeps ==
  ASSUME ResponseInv,
         \/ \E a \in UploadAnswers : upload(a)
         \/ \E a \in ListAnswers : list(a)
  PROVE  ResponseInv'
<1>1. ASSUME NEW a, a \in UploadAnswers \cup ListAnswers
      PROVE  a # NoAnswer /\ 0 < Len(Encode(a))
  BY <1>1, AnswerAssumption, AnswerLayout DEF Answer
<1>2. CASE \E a \in UploadAnswers : upload(a)
  BY <1>1, <1>2 DEF upload, ResponseInv, TypeOK, HandlerForAnswer, Arrived, Buffer
<1>3. CASE \E a \in ListAnswers : list(a)
  BY <1>1, <1>3 DEF list, ResponseInv, TypeOK, HandlerForAnswer, Arrived, Buffer
<1> QED BY <1>2, <1>3

\* A part that is not the last one.
LEMMA PartKeeps ==
  ASSUME ResponseInv, NEW n \in PartSizes, Part(n),
         offset + Taken(n) < Len(Encode(answer))
  PROVE  ResponseInv'
<1> DEFINE r == Encode(answer)
           m == Taken(n)
           b == Received(r, m)
<1>1. /\ handler # "none" /\ smp_rsp_buff' = b /\ offset' = offset + m
      /\ UNCHANGED <<handler, answer, upload_sem, hash_value>>
  BY DEF Part, Taken
<1>2. m \in Nat /\ Buffer(b) /\ (Fits => \A i \in 1 .. offset + m : b[i] = r[i])
  BY <1>1, ReceivedKeeps
<1> HIDE DEF m, b
<1>3. Buffer(smp_rsp_buff)' /\ smp_rsp_buff' \in [1 .. BufSize -> Cells]
  BY <1>1, <1>2 DEF Buffer
<1>4. Arrived'
  BY <1>1, <1>2 DEF Arrived, Fits
<1>5. offset' \in Nat /\ offset' < Len(Encode(answer'))
  BY <1>1, <1>2 DEF ResponseInv, TypeOK, m
<1> QED BY <1>1, <1>3, <1>4, <1>5 DEF ResponseInv, TypeOK, HandlerForAnswer

\* The last part, with what the decoder makes of the buffer.
LEMMA LastPart ==
  ASSUME ResponseInv, NEW n \in PartSizes, Part(n),
         ~(offset + Taken(n) < Len(Encode(answer)))
  PROVE  LET r == Encode(answer)
             b == Received(r, Taken(n))
         IN  /\ handler # "none" /\ handler' = "none" /\ answer' = NoAnswer
             /\ smp_rsp_buff' = b /\ offset' = offset
             /\ offset + Taken(n) = Len(r)
             /\ \E behind \in {End, Map} :
                  LET p == Payload(b, behind)
                  IN  \/ /\ handler = "upload"
                         /\ upload_sem' = IF GivesToken(b, p) THEN 1 ELSE upload_sem
                         /\ hash_value' = hash_value
                      \/ /\ handler = "list"
                         /\ hash_value' = HashesKept(b, p)
                         /\ upload_sem' = upload_sem
<1>1. handler # "none"
  BY DEF Part
<1>2. /\ Taken(n) \in Nat /\ offset + Taken(n) <= Len(Encode(answer))
      /\ offset \in Nat /\ Len(Encode(answer)) \in Nat
  BY <1>1, ReceivedKeeps, OnItsWay
<1>3. offset + Taken(n) = Len(Encode(answer))
  BY <1>2
<1>4. handler \in {"upload", "list"}
  BY <1>1 DEF ResponseInv, TypeOK
<1> QED BY <1>1, <1>3, <1>4 DEF Part, Taken

\* The last part, complete or skipped: no response is on its way any more.
LEMMA LastPartKeeps ==
  ASSUME ResponseInv, NEW n \in PartSizes, Part(n),
         ~(offset + Taken(n) < Len(Encode(answer)))
  PROVE  ResponseInv'
<1> DEFINE b == Received(Encode(answer), Taken(n))
<1>1. /\ handler # "none" /\ handler' = "none" /\ answer' = NoAnswer
      /\ smp_rsp_buff' = b /\ offset' = offset
  BY LastPart
<1>2. Buffer(b)
  BY <1>1, ReceivedKeeps
<1>3. PICK behind \in {End, Map} :
        LET p == Payload(b, behind)
        IN  \/ /\ upload_sem' = IF GivesToken(b, p) THEN 1 ELSE upload_sem
               /\ hash_value' = hash_value
            \/ hash_value' = HashesKept(b, p) /\ upload_sem' = upload_sem
  BY LastPart
<1> HIDE DEF b
<1>4. HashesKept(b, Payload(b, behind)) \in [0 .. 1 -> Hashes \cup {ZeroHash}]
  BY <1>2, PayloadCells, HashesKeptType
<1>5. upload_sem' \in {0, 1} /\ hash_value' \in [0 .. 1 -> Hashes \cup {ZeroHash}]
  BY <1>3, <1>4 DEF ResponseInv, TypeOK
<1>6. Buffer(smp_rsp_buff)' /\ smp_rsp_buff' \in [1 .. BufSize -> Cells]
  BY <1>1, <1>2 DEF Buffer
<1> QED BY <1>1, <1>5, <1>6 DEF ResponseInv, TypeOK, HandlerForAnswer, Arrived

\* The disconnection that breaks a response off, and the steps above.
LEMMA NextResponse == ResponseInv /\ [Next]_vars => ResponseInv'
<1> SUFFICES ASSUME ResponseInv, [Next]_vars PROVE ResponseInv'
  OBVIOUS
<1>1. CASE \/ \E a \in UploadAnswers : upload(a)
           \/ \E a \in ListAnswers : list(a)
  BY <1>1, CommandKeeps
<1>2. CASE disconnected
  BY <1>2 DEF disconnected, ResponseInv, TypeOK, HandlerForAnswer, Arrived, Buffer
<1>3. CASE \E n \in PartSizes : Part(n)
  BY <1>3, PartKeeps, LastPartKeeps
<1>4. CASE UNCHANGED vars
  BY <1>4 DEF vars, ResponseInv, TypeOK, HandlerForAnswer, Arrived, Buffer, Fits
<1> QED BY <1>1, <1>2, <1>3, <1>4 DEF Next

\* The reassembly keeps to its buffer: whatever lengths the responses and the
\* parts have, smp_upload_rsp_proc and smp_list_rsp_proc write no cell
\* beyond smp_rsp_buff, and take for a hash only what is one.
THEOREM TypeCorrect == Spec => []TypeOK
<1>1. ResponseInv => TypeOK
  BY DEF ResponseInv
<1> QED BY <1>1, InitResponse, NextResponse, PTL DEF Spec

-----------------------------------------------------------------------------
(* What a complete response does.                                          *)

\* The last part of a response that fits: the decoder gets all of its body and
\* nothing of another response.
LEMMA WholePayload ==
  ASSUME ResponseInv, handler # "none", NEW n \in PartSizes, Fits,
         offset + Taken(n) = Len(Encode(answer)), NEW behind \in {End, Map}
  PROVE  LET r == Encode(answer)
             b == Received(r, Taken(n))
             p == Payload(b, behind)
         IN  /\ b[1] = r[1]
             /\ Len(p) = Len(r) - 1
             /\ \A i \in 1 .. Len(r) - 1 : p[i] = r[i + 1]
<1> DEFINE r == Encode(answer)
           b == Received(r, Taken(n))
<1>1. /\ Len(r) \in Nat /\ Len(r) > 0 /\ r[1].len = Len(r) - 1
  BY OnItsWay
<1>2. \A i \in 1 .. Len(r) : b[i] = r[i]
  BY ReceivedKeeps
<1>3. b[1] = r[1] /\ b[1].len = Len(r) - 1
  BY <1>1, <1>2
<1>4. Len(r) <= BufSize
  BY DEF Fits
<1> HIDE DEF b, r
<1>5. Payload(b, behind) = [i \in 1 .. Len(r) - 1 |-> r[i + 1]]
  <2>1. \A i \in 1 .. Len(r) - 1 :
          (IF i + 1 <= BufSize THEN b[i + 1] ELSE behind) = r[i + 1]
    BY <1>1, <1>2, <1>4, BufAssumption
  <2> QED BY <1>3, <2>1 DEF Payload
<1> QED BY <1>1, <1>3, <1>5 DEF b, r

\* GivesToken, of a whole response in the buffer.
LEMMA UploadDecided ==
  ASSUME ResponseInv, handler = "upload", NEW n \in PartSizes,
         offset + Taken(n) = Len(Encode(answer)), NEW behind \in {End, Map},
         BytesAtRc # "rc", \A a \in UploadAnswers : a.key \in {"rc", "err"}
  PROVE  LET b == Received(Encode(answer), Taken(n))
         IN  GivesToken(b, Payload(b, behind))
             <=> answer.key = "rc" /\ answer.rc = 0 /\ answer.off
<1> DEFINE r == Encode(answer)
           b == Received(r, Taken(n))
           p == Payload(b, behind)
<1>1. answer \in UploadAnswers /\ answer \in UploadAnswer
  BY AnswerAssumption DEF ResponseInv, HandlerForAnswer
<1>2. r = EncodeUpload(answer)
  <2>1. answer.kind = "upload"
    BY <1>1 DEF UploadAnswer
  <2> QED BY <2>1, Zenon DEF Encode
<1>3. /\ r \in Seq(Cells)
      /\ Len(r) = IF answer.off THEN 5 ELSE 4
      /\ r[1] = Hdr("upload", Len(r) - 1)
      /\ r[2] = Map
      /\ r[3] = Pair(answer.key, answer.rc)
      /\ r[4] = IF answer.off THEN Pair("off", 0) ELSE End
  BY <1>1, <1>2, UploadLayout, Zenon
<1>4. Fits
  BY <1>3, BufAssumption DEF Fits
<1>5. /\ b[1] = r[1]
      /\ Len(p) = Len(r) - 1
      /\ \A i \in 1 .. Len(r) - 1 : p[i] = r[i + 1]
  BY <1>4, WholePayload
<1>6. p[1] = r[1 + 1] /\ p[2] = r[2 + 1] /\ p[3] = r[3 + 1]
  BY <1>3, <1>5
<1>7. Len(p) = IF answer.off THEN 4 ELSE 3
  BY <1>3, <1>5
<1> HIDE DEF p, b, r
<1>8. Is(p, 1, "map") /\ Is(p, 2, "pair") /\ b[1].cmd = "upload"
  BY <1>3, <1>5, <1>6, <1>7 DEF Is, Map, Pair, Hdr
<1>9. p[2].key = answer.key /\ p[2].val = answer.rc
  BY <1>3, <1>6 DEF Pair
<1>10. (Is(p, 3, "pair") /\ KeyLen[p[3].key] = 3) <=> answer.off
  <2>1. CASE answer.off
    BY <1>3, <1>6, <1>7, <2>1 DEF Is, Pair, KeyLen
  <2>2. CASE ~answer.off
    BY <1>3, <1>6, <1>7, <2>2 DEF Is, End
  <2> QED BY <2>1, <2>2
<1>11. (KeyLen[answer.key] = 2 /\ ~KeyRejected(answer.key)) <=> answer.key = "rc"
  <2>1. answer.key = "rc" \/ answer.key = "err"
    BY <1>1
  <2> QED BY <2>1 DEF KeyLen, KeyRejected
<1>12. GivesToken(b, p) <=> answer.key = "rc" /\ answer.rc = 0 /\ answer.off
  BY <1>8, <1>9, <1>10, <1>11, Zenon DEF GivesToken
<1> QED BY <1>12 DEF p, b, r

\* TokenForSuccessOnly, for every size of the buffer and every cut: of a peer
\* whose answers start with "rc" or "err", smp_upload_rsp_proc gives the token
\* exactly for a success with an offset. The hypothesis on the bytes at the
\* address 'rc' is what the comparison in the code rests on; without the one on
\* the keys it is false (RcKeyRequired).
THEOREM TokenDecided ==
  ASSUME BytesAtRc # "rc", \A a \in UploadAnswers : a.key \in {"rc", "err"}
  PROVE  Spec => TokenForSuccessOnly
<1> DEFINE Decided ==
        \A n \in PartSizes :
          Completes(n) /\ handler = "upload" =>
            (upload_sem' = 1) = (answer.key = "rc" /\ answer.rc = 0 /\ answer.off)
<1>1. ResponseInv /\ [Next]_vars => [Decided]_vars
  <2> SUFFICES ASSUME ResponseInv, NEW n \in PartSizes, Completes(n),
                      handler = "upload"
               PROVE  (upload_sem' = 1)
                      = (answer.key = "rc" /\ answer.rc = 0 /\ answer.off)
    OBVIOUS
  <2> DEFINE b == Received(Encode(answer), Taken(n))
  <2>1. Part(n) /\ ~(offset + Taken(n) < Len(Encode(answer)))
    BY DEF Completes, Part, Taken
  <2>2. PICK behind \in {End, Map} :
          upload_sem' = IF GivesToken(b, Payload(b, behind)) THEN 1 ELSE upload_sem
    BY <2>1, LastPart
  <2>3. offset + Taken(n) = Len(Encode(answer))
    BY <2>1, LastPart
  <2>4. GivesToken(b, Payload(b, behind))
        <=> answer.key = "rc" /\ answer.rc = 0 /\ answer.off
    BY <2>3, UploadDecided
  <2>5. upload_sem = 0
    BY DEF ResponseInv, HandlerForAnswer
  <2> HIDE DEF b
  <2>6. (upload_sem' = 1) <=> GivesToken(b, Payload(b, behind))
    BY <2>2, <2>5
  <2>7. answer.off \in BOOLEAN
    BY AnswerAssumption DEF ResponseInv, HandlerForAnswer, UploadAnswer
  <2> QED BY <2>4, <2>6, <2>7
<1> QED BY <1>1, InitResponse, NextResponse, PTL DEF Spec, TokenForSuccessOnly

-----------------------------------------------------------------------------
(* Listings.                                                               *)

\* Entries of five cells.
LEMMA QuotientOfFive ==
  ASSUME NEW x \in Nat, NEW y \in 0 .. 4, NEW z, z = 5 * x + y
  PROVE  z \div 5 = x /\ z % 5 = y
<1>1. CASE y = 0
  BY <1>1
<1>2. CASE y = 1
  BY <1>2
<1>3. CASE y = 2
  BY <1>3
<1>4. CASE y = 3
  BY <1>4
<1>5. CASE y = 4
  BY <1>5
<1> QED BY <1>1, <1>2, <1>3, <1>4, <1>5

\* The body of a listing: image k takes the five cells from 5k - 2 on.
LEMMA ListingBody ==
  ASSUME NEW a \in ListAnswer, a.kind = "list", NEW p,
         LET r == EncodeList(a)
         IN  /\ Len(p) = Len(r) - 1
             /\ \A i \in 1 .. Len(r) - 1 : p[i] = r[i + 1]
  PROVE  /\ Len(a.images) \in Nat
         /\ Len(p) = 5 * Len(a.images) + 3
         /\ p[1] = Map
         /\ p[2] = ImagesKey
         /\ \A k \in 1 .. Len(a.images) :
              /\ p[5 * k - 2] = Map
              /\ p[5 * k - 1] = Slot(a.images[k].slot)
              /\ p[5 * k] = Version
              /\ p[5 * k + 1] = Hash(a.images[k].hash)
              /\ p[5 * k + 2] = Flags(a.allFlags)
         /\ p[5 * Len(a.images) + 3] = End
<1> DEFINE r == EncodeList(a)
           n == Len(a.images)
           cell(k) == EncodeImage(a.images[1 + ((k - 1) \div 5)], a.allFlags)
                          [1 + ((k - 1) % 5)]
<1>1. /\ n \in Nat
      /\ Len(r) = 5 * n + 4
      /\ r[2] = Map
      /\ r[3] = ImagesKey
      /\ \A k \in 1 .. 5 * n : r[k + 3] = cell(k)
      /\ r[5 * n + 4] = End
  BY ListLayout, Zenon
<1>2. Len(p) = 5 * n + 3 /\ \A i \in 1 .. 5 * n + 3 : p[i] = r[i + 1]
  BY <1>1
<1>3. p[1] = r[1 + 1] /\ p[2] = r[2 + 1] /\ p[5 * n + 3] = r[(5 * n + 3) + 1]
  BY <1>1, <1>2
<1>4. \A k \in 1 .. n, j \in 1 .. 5 :
        p[5 * k - 3 + j] = EncodeImage(a.images[k], a.allFlags)[j]
  <2> SUFFICES ASSUME NEW k \in 1 .. n, NEW j \in 1 .. 5
               PROVE  p[5 * k - 3 + j] = EncodeImage(a.images[k], a.allFlags)[j]
    OBVIOUS
  <2> DEFINE i == 5 * (k - 1) + j
  <2>1. i \in 1 .. 5 * n /\ 5 * k - 3 + j = i + 2 /\ (i + 2) + 1 = i + 3
    BY <1>1
  <2>2. i + 2 \in 1 .. 5 * n + 3
    BY <1>1, <2>1
  <2>3. 1 + ((i - 1) \div 5) = k /\ 1 + ((i - 1) % 5) = j
    <3>1. i - 1 = 5 * (k - 1) + (j - 1) /\ k - 1 \in Nat /\ j - 1 \in 0 .. 4
      BY <1>1
    <3>2. (i - 1) \div 5 = k - 1 /\ (i - 1) % 5 = j - 1
      BY <3>1, QuotientOfFive
    <3> QED BY <1>1, <3>2
  <2> HIDE DEF i
  <2>4. p[i + 2] = r[i + 3] /\ r[i + 3] = cell(i)
    BY <1>1, <1>2, <2>1, <2>2
  <2> QED BY <2>1, <2>3, <2>4
<1> HIDE DEF r, n
<1>5. ASSUME NEW k \in 1 .. n
      PROVE  /\ p[5 * k - 2] = Map
             /\ p[5 * k - 1] = Slot(a.images[k].slot)
             /\ p[5 * k] = Version
             /\ p[5 * k + 1] = Hash(a.images[k].hash)
             /\ p[5 * k + 2] = Flags(a.allFlags)
  <2>1. \A j \in 1 .. 5 : p[5 * k - 3 + j] = EncodeImage(a.images[k], a.allFlags)[j]
    BY <1>4
  <2>2. /\ 5 * k - 3 + 1 = 5 * k - 2 /\ 5 * k - 3 + 2 = 5 * k - 1
        /\ 5 * k - 3 + 3 = 5 * k /\ 5 * k - 3 + 4 = 5 * k + 1
        /\ 5 * k - 3 + 5 = 5 * k + 2
    BY <1>1
  <2>3. /\ p[5 * k - 3 + 1] = Map
        /\ p[5 * k - 3 + 2] = Slot(a.images[k].slot)
        /\ p[5 * k - 3 + 3] = Version
        /\ p[5 * k - 3 + 4] = Hash(a.images[k].hash)
        /\ p[5 * k - 3 + 5] = Flags(a.allFlags)
    BY <2>1 DEF EncodeImage
  <2> QED BY <2>2, <2>3
<1> QED BY <1>1, <1>2, <1>3, <1>5 DEF n

\* An entry is decoded whole, but for its flags if the peer leaves some out.
LEMMA EntryAt ==
  ASSUME NEW p, NEW i \in Nat, Len(p) \in Nat, i + 4 <= Len(p),
         NEW s, NEW h, NEW all \in BOOLEAN,
         p[i] = Map, p[i + 1] = Slot(s), p[i + 2] = Version,
         p[i + 3] = Hash(h), p[i + 4] = Flags(all)
  PROVE  HashDecoded(p, i) /\ p[i + 3].h = h /\ (EntryDecoded(p, i) <=> all)
  BY DEF HashDecoded, EntryDecoded, Is, Map, Slot, Version, Hash, Flags

\* No entry is decoded where the list ends.
LEMMA NoEntryAt ==
  ASSUME NEW p, NEW i \in Nat, p[i] = End
  PROVE  ~HashDecoded(p, i)
  BY DEF HashDecoded, Is, End

\* HashesKept, of a whole response in the buffer.
LEMMA ListingDecoded ==
  ASSUME ResponseInv, handler = "list", Fits, NEW n \in PartSizes,
         offset + Taken(n) = Len(Encode(answer)), NEW behind \in {End, Map}
  PROVE  LET b == Received(Encode(answer), Taken(n))
             kept == HashesKept(b, Payload(b, behind))
             images == answer.images
         IN  IF answer.kind = "refusal" THEN kept = hash_value
             ELSE /\ answer.kind = "list"
                  /\ Len(images) \in 0 .. 2
                  /\ kept[0] = IF Len(images) > 0 THEN images[1].hash
                               ELSE hash_value[0]
                  /\ kept[1] = IF Len(images) = 2 /\ answer.allFlags
                               THEN images[2].hash ELSE hash_value[1]
<1> DEFINE r == Encode(answer)
           b == Received(r, Taken(n))
           p == Payload(b, behind)
           images == answer.images
<1>1. answer \in ListAnswers /\ answer \in ListAnswer
  BY AnswerAssumption DEF ResponseInv, HandlerForAnswer
<1>2. /\ b[1] = r[1]
      /\ Len(p) = Len(r) - 1
      /\ \A i \in 1 .. Len(r) - 1 : p[i] = r[i + 1]
  BY WholePayload
<1>3. hash_value \in [0 .. 1 -> Hashes \cup {ZeroHash}]
  BY DEF ResponseInv, TypeOK
<1>4. CASE answer.kind = "refusal"
  <2>1. r = EncodeRefusal
    BY <1>4 DEF Encode
  <2> HIDE DEF b, p
  <2>2. p[2] = r[2 + 1] /\ r[2 + 1] = Pair("rc", 1)
    BY <1>2, <2>1, RefusalLayout
  <2>3. ~Is(p, 2, "images")
    BY <2>2 DEF Is, Pair
  <2>4. HashesKept(b, p) = hash_value
    BY <1>3, <2>3 DEF HashesKept
  <2> QED BY <1>4, <2>4 DEF b, p
<1>5. CASE answer.kind = "list"
  <2>1. r = EncodeList(answer)
    BY <1>5 DEF Encode
  <2>2. Len(images) <= 2
    BY <1>1, <1>5, <2>1, ListingAssumption DEF Fits
  <2>3. /\ Len(images) \in Nat
        /\ Len(p) = 5 * Len(images) + 3
        /\ p[1] = Map
        /\ p[2] = ImagesKey
        /\ \A k \in 1 .. Len(images) :
             /\ p[5 * k - 2] = Map
             /\ p[5 * k - 1] = Slot(images[k].slot)
             /\ p[5 * k] = Version
             /\ p[5 * k + 1] = Hash(images[k].hash)
             /\ p[5 * k + 2] = Flags(answer.allFlags)
        /\ p[5 * Len(images) + 3] = End
    <3> HIDE DEF p
    <3>1. Len(p) = Len(EncodeList(answer)) - 1
          /\ \A i \in 1 .. Len(EncodeList(answer)) - 1 : p[i] = EncodeList(answer)[i + 1]
      BY <1>2, <2>1
    <3> QED BY <1>1, <1>5, <3>1, ListingBody
  <2>4. b[1].cmd = "list"
    <3> HIDE DEF b
    <3>1. r[1] = Hdr("list", Len(r) - 1)
      BY <1>1, <1>5, <2>1, ListLayout, Zenon
    <3> QED BY <1>2, <3>1 DEF Hdr
  <2>5. answer.allFlags \in BOOLEAN
    BY <1>1, <1>5 DEF ListAnswer
  <2> HIDE DEF p, b, r
  <2>6. Is(p, 1, "map") /\ Is(p, 2, "images")
    BY <2>3 DEF Is, Map, ImagesKey
  <2>7. HashesKept(b, p)
        = [hash_value EXCEPT
             ![0] = IF HashDecoded(p, 3) THEN p[6].h ELSE @,
             ![1] = IF EntryDecoded(p, 3) /\ HashDecoded(p, 8) THEN p[11].h ELSE @]
    BY <2>4, <2>6 DEF HashesKept
  <2>8. Len(images) > 0 =>
          /\ HashDecoded(p, 3) /\ p[6].h = images[1].hash
          /\ EntryDecoded(p, 3) <=> answer.allFlags
    <3> SUFFICES ASSUME Len(images) > 0
                 PROVE  /\ HashDecoded(p, 3) /\ p[6].h = images[1].hash
                        /\ EntryDecoded(p, 3) <=> answer.allFlags
      OBVIOUS
    <3>1. /\ p[5 * 1 - 2] = Map
          /\ p[5 * 1 - 1] = Slot(images[1].slot)
          /\ p[5 * 1] = Version
          /\ p[5 * 1 + 1] = Hash(images[1].hash)
          /\ p[5 * 1 + 2] = Flags(answer.allFlags)
      BY <2>3
    <3>2. /\ p[3] = Map /\ p[3 + 1] = Slot(images[1].slot)
          /\ p[3 + 2] = Version /\ p[3 + 3] = Hash(images[1].hash)
          /\ p[3 + 4] = Flags(answer.allFlags) /\ 3 + 4 <= Len(p)
      BY <2>3, <3>1
    <3>3. HashDecoded(p, 3) /\ p[3 + 3].h = images[1].hash
          /\ (EntryDecoded(p, 3) <=> answer.allFlags)
      BY <2>3, <2>5, <3>2, EntryAt
    <3> QED BY <3>3
  <2>9. Len(images) = 2 => HashDecoded(p, 8) /\ p[11].h = images[2].hash
    <3> SUFFICES ASSUME Len(images) = 2
                 PROVE  HashDecoded(p, 8) /\ p[11].h = images[2].hash
      OBVIOUS
    <3>1. /\ p[5 * 2 - 2] = Map
          /\ p[5 * 2 - 1] = Slot(images[2].slot)
          /\ p[5 * 2] = Version
          /\ p[5 * 2 + 1] = Hash(images[2].hash)
          /\ p[5 * 2 + 2] = Flags(answer.allFlags)
      BY <2>3
    <3> DEFINE i == 8
    <3>2. /\ p[i] = Map /\ p[i + 1] = Slot(images[2].slot)
          /\ p[i + 2] = Version /\ p[i + 3] = Hash(images[2].hash)
          /\ p[i + 4] = Flags(answer.allFlags) /\ i + 4 <= Len(p)
          /\ i \in Nat /\ Len(p) \in Nat
      BY <2>3, <3>1
    <3> HIDE DEF i
    <3>3. HashDecoded(p, i) /\ p[i + 3].h = images[2].hash
          /\ (EntryDecoded(p, i) <=> answer.allFlags)
      BY <2>5, <3>2, EntryAt
    <3> QED BY <3>3 DEF i
  <2>10. Len(images) = 0 => ~HashDecoded(p, 3) /\ ~EntryDecoded(p, 3)
    <3>1. Len(images) = 0 => p[3] = End
      BY <2>3
    <3> QED BY <3>1, NoEntryAt DEF EntryDecoded
  <2>11. Len(images) = 1 => ~HashDecoded(p, 8)
    <3>1. Len(images) = 1 => p[8] = End
      BY <2>3
    <3> QED BY <3>1, NoEntryAt
  <2>12. Len(images) = 0 \/ Len(images) = 1 \/ Len(images) = 2
    <3>1. \A k \in Nat : k <= 2 => k = 0 \/ k = 1 \/ k = 2
      OBVIOUS
    <3> QED BY <2>2, <2>3, <3>1
  <2>13. /\ HashesKept(b, p)[0] = IF Len(images) > 0 THEN images[1].hash
                                  ELSE hash_value[0]
         /\ HashesKept(b, p)[1] = IF Len(images) = 2 /\ answer.allFlags
                                  THEN images[2].hash ELSE hash_value[1]
    BY <1>3, <2>7, <2>8, <2>9, <2>10, <2>11, <2>12
  <2> QED BY <1>5, <2>12, <2>13 DEF p, b, r
<1> QED BY <1>1, <1>4, <1>5 DEF ListAnswer

\* HashesFollowListing, for every size of the buffer, every cut and every
\* listing: ListingAssumption is what smp_list_rsp_proc relies on when it takes
\* the first entry for slot 0 and the second for slot 1.
THEOREM HashesDecided == Spec => HashesFollowListing
<1> DEFINE Follows ==
        \A n \in PartSizes :
          Completes(n) /\ Fits /\ handler = "list" =>
            LET listed(s) == {i \in DOMAIN answer.images : answer.images[i].slot = s}
            IN  IF answer.kind = "refusal" THEN UNCHANGED hash_value
                ELSE /\ \A i \in listed(0) : hash_value'[0] = answer.images[i].hash
                     /\ \A i \in listed(1) : answer.allFlags =>
                            hash_value'[1] = answer.images[i].hash
                     /\ (listed(1) = {} \/ ~answer.allFlags) =>
                            hash_value'[1] = hash_value[1]
<1>1. ResponseInv /\ [Next]_vars => [Follows]_vars
  <2> SUFFICES ASSUME ResponseInv, NEW n \in PartSizes, Completes(n), Fits,
                      handler = "list"
               PROVE  LET listed(s) == {i \in DOMAIN answer.images :
                                            answer.images[i].slot = s}
                      IN  IF answer.kind = "refusal" THEN UNCHANGED hash_value
                          ELSE /\ \A i \in listed(0) :
                                     hash_value'[0] = answer.images[i].hash
                               /\ \A i \in listed(1) : answer.allFlags =>
                                     hash_value'[1] = answer.images[i].hash
                               /\ (listed(1) = {} \/ ~answer.allFlags) =>
                                     hash_value'[1] = hash_value[1]
    OBVIOUS
  <2> DEFINE b == Received(Encode(answer), Taken(n))
             images == answer.images
  <2>1. Part(n) /\ ~(offset + Taken(n) < Len(Encode(answer)))
    BY DEF Completes, Part, Taken
  <2>2. PICK behind \in {End, Map} : hash_value' = HashesKept(b, Payload(b, behind))
    BY <2>1, LastPart
  <2>3. offset + Taken(n) = Len(Encode(answer))
    BY <2>1, LastPart
  <2>4. IF answer.kind = "refusal" THEN hash_value' = hash_value
        ELSE /\ answer.kind = "list"
             /\ Len(images) \in 0 .. 2
             /\ hash_value'[0] = IF Len(images) > 0 THEN images[1].hash
                                 ELSE hash_value[0]
             /\ hash_value'[1] = IF Len(images) = 2 /\ answer.allFlags
                                 THEN images[2].hash ELSE hash_value[1]
    BY <2>2, <2>3, ListingDecoded
  <2>5. CASE answer.kind = "refusal"
    BY <2>4, <2>5
  <2>6. CASE answer.kind # "refusal"
    <3>1. answer \in ListAnswers /\ answer \in ListAnswer /\ answer.kind = "list"
      BY <2>4, <2>6, AnswerAssumption DEF ResponseInv, HandlerForAnswer
    <3>2. images \in Seq([slot : 0 .. 1, hash : Hashes])
      BY <3>1 DEF ListAnswer
    <3>3. \A i \in DOMAIN images : i \in 1 .. Len(images) /\ images[i].slot = i - 1
      <4>1. Encode(answer) = EncodeList(answer)
        BY <3>1 DEF Encode
      <4> QED BY <3>1, <3>2, <4>1, ListingAssumption DEF Fits
    <3>4. DOMAIN images = 1 .. Len(images)
      BY <3>2
    <3> HIDE DEF images
    <3>5. \A i \in DOMAIN images : images[i].slot = 0 => i = 1 /\ Len(images) > 0
      BY <2>4, <2>6, <3>3
    <3>6. \A i \in DOMAIN images : images[i].slot = 1 => i = 2 /\ Len(images) = 2
      BY <2>4, <2>6, <3>3
    <3>7. Len(images) = 2 => 2 \in DOMAIN images /\ images[2].slot = 1
      BY <3>3, <3>4
    <3> QED BY <2>4, <2>6, <3>5, <3>6, <3>7 DEF images
  <2> QED BY <2>5, <2>6
<1> QED BY <1>1, InitResponse, NextResponse, PTL DEF Spec, HashesFollowListing
=============================================================================
