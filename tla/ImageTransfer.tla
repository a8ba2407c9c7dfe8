--------------------------- MODULE ImageTransfer ---------------------------
(***************************************************************************)
(* What an image upload promises, whatever the links and commands below it *)
(* do: the receiver never holds anything but a prefix of the source image, *)
(* the prefix grows by one chunk at a time, and it is only ever shortened  *)
(* by starting over (a new upload) or by forgetting how far it was (the    *)
(* receiver restarted).                                                    *)
(***************************************************************************)
EXTENDS Integers, Sequences

CONSTANTS Source,   \* the bytes to transfer
          MaxChunk  \* the most bytes one message can carry

VARIABLE received

Prefix(n) == SubSeq(Source, 1, IF n < Len(Source) THEN n ELSE Len(Source))

TInit == received = << >>

\* A first chunk replaces whatever was there.
Begin == received' = Prefix(MaxChunk)

\* A further chunk follows the last byte received.
Extend == /\ Len(received) < Len(Source)
          /\ received' = Prefix(Len(received) + MaxChunk)

Forget == received' = << >>

TNext == Begin \/ Extend \/ Forget

TSpec == TInit /\ [][TNext]_received
=============================================================================
