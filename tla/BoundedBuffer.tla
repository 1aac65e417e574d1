--------------------------- MODULE BoundedBuffer ----------------------------
(***************************************************************************)
(* What a CircleBuffer of a given size promises: a first-in first-out      *)
(* buffer of size + 1 places, whose post answers whether there was room    *)
(* and whose get answers the oldest value, or NullPtr.                     *)
(***************************************************************************)
EXTENDS Naturals, Sequences

CONSTANTS Values, NullPtr, Places

VARIABLES contents, answer

BufferInit == contents = <<>> /\ answer = NullPtr

Accept(v) ==
    /\ Len(contents) < Places
    /\ contents' = Append(contents, v)
    /\ answer' = TRUE

Refuse ==
    /\ Len(contents) = Places
    /\ answer' = FALSE
    /\ UNCHANGED contents

Take ==
    /\ contents # <<>>
    /\ answer' = Head(contents)
    /\ contents' = Tail(contents)

TakeNothing ==
    /\ contents = <<>>
    /\ answer' = NullPtr
    /\ UNCHANGED contents

BufferNext == (\E v \in Values : Accept(v)) \/ Refuse \/ Take \/ TakeNothing

BufferSpec == BufferInit /\ [][BufferNext]_<<contents, answer>>
=============================================================================
