--------------------------- MODULE MCSmpResponse ---------------------------
(***************************************************************************)
(* Answers of peers for TLC.                                               *)
(***************************************************************************)
EXTENDS SmpResponse

CONSTANTS h1, h2

Success == [kind |-> "upload", key |-> "rc", rc |-> 0, off |-> TRUE]
Failure == [kind |-> "upload", key |-> "rc", rc |-> 1, off |-> FALSE]
NoOffset == [kind |-> "upload", key |-> "rc", rc |-> 0, off |-> FALSE]
NewFormat == [kind |-> "upload", key |-> "err", rc |-> 1, off |-> FALSE]
OtherKey == [kind |-> "upload", key |-> "zz", rc |-> 0, off |-> TRUE]

Listing(images, all) == [kind |-> "list", images |-> images, allFlags |-> all]
Image(s, h) == [slot |-> s, hash |-> h]

MCUploadAnswers == {Success, Failure, NoOffset, NewFormat}

\* One image, two, a peer that leaves flags out, one that has nothing to list,
\* one that refuses the command,
\* and one with more images than the buffer holds.
MCListAnswers ==
    {Listing(<<Image(0, h)>>, TRUE) : h \in {h1, h2}}
    \cup {Listing(<<Image(0, h1), Image(1, h)>>, TRUE) : h \in {h1, h2}}
    \cup { Listing(<<Image(0, h1), Image(1, h2)>>, FALSE),
           Listing(<< >>, TRUE),
           [kind |-> "refusal"],
           Listing(<<Image(0, h2), Image(1, h1), Image(0, h1), Image(1, h1)>>, TRUE) }

MCOtherKeys == {Success, OtherKey}
=============================================================================
