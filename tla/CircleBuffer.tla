---------------------------- MODULE CircleBuffer ----------------------------
(***************************************************************************)
(* basic::CircleBuffer (src/include/circle-buffer.h): the oldest value is  *)
(* kept in m_front, the others in a ring that both indices run through     *)
(* downwards.  One thread uses it: each call is one step.  Indices and     *)
(* counters have the width of SIZE_TYPE, which has to hold Size + 1: with  *)
(* the largest Size of its type the buffer refuses every value.            *)
(***************************************************************************)
EXTENDS Integers, Sequences

CONSTANTS
    Values,     \* the pointers callers post, none of them null
    NullPtr,    \* nullptr
    Size,       \* the constructor's argument
    Modulus     \* 2^w for a SIZE_TYPE of w bits

ASSUME ValuesAssumption == NullPtr \notin Values
ASSUME SizeAssumption == Modulus \in Nat \ {0} /\ Size \in 1..Modulus - 2

VARIABLES
    front,    \* m_front
    head,     \* m_head, where the next value goes
    tail,     \* m_tail, where the next value comes from
    free,     \* m_free
    ring,     \* m_ring
    answer    \* what the last call returned

vars == <<front, head, tail, free, ring, answer>>

Index == 0..Size - 1
Pointer == Values \cup {NullPtr}

TypeOK ==
    /\ front \in Pointer
    /\ head \in Index
    /\ tail \in Index
    /\ free \in 0..Modulus - 1
    /\ ring \in [Index -> Pointer]
    /\ answer \in Pointer \cup BOOLEAN

Init ==
    /\ front = NullPtr
    /\ head = 0
    /\ tail = 0
    /\ free = (Size + 1) % Modulus
    /\ ring = [i \in Index |-> NullPtr]
    /\ answer = NullPtr

\* The indices count down and wrap around below 0.
Down(i) == (IF i = 0 THEN Size ELSE i) - 1

-----------------------------------------------------------------------------

PostFirst(v) ==
    /\ front = NullPtr
    /\ front' = v
    /\ UNCHANGED <<head, ring>>

\* Fault: the index moves before the value is stored.
PostAfterMove(v) ==
    /\ front # NullPtr
    /\ ring' = [ring EXCEPT ![Down(head)] = v]
    /\ head' = Down(head)
    /\ UNCHANGED front

PostToRing(v) ==
    /\ front # NullPtr
    /\ ring' = [ring EXCEPT ![head] = v]
    /\ head' = Down(head)
    /\ UNCHANGED front

Post(v) ==
    /\ free # 0
    /\ free' = free - 1
    /\ PostFirst(v) \/ PostToRing(v)
    /\ answer' = TRUE
    /\ UNCHANGED tail

PostRefused ==
    /\ free = 0
    /\ answer' = FALSE
    /\ UNCHANGED <<front, head, tail, free, ring>>

\* m_free <= m_end once the place is freed: the ring holds a value.
GetFromRing ==
    /\ free' <= Size
    /\ front' = ring[tail]
    /\ tail' = Down(tail)

GetLast ==
    /\ free' > Size
    /\ front' = NullPtr
    /\ UNCHANGED tail

Get ==
    /\ front # NullPtr
    /\ answer' = front
    /\ free' = (free + 1) % Modulus
    /\ GetFromRing \/ GetLast
    /\ UNCHANGED <<head, ring>>

GetNothing ==
    /\ front = NullPtr
    /\ answer' = NullPtr
    /\ UNCHANGED <<front, head, tail, free, ring>>

Next == (\E v \in Values : Post(v)) \/ PostRefused \/ Get \/ GetNothing

Spec == Init /\ [][Next]_vars

-----------------------------------------------------------------------------

\* The values behind the front one: how many there are follows from m_free.
InRing == Size - free

\* The values held, oldest first.
Contents ==
    IF front = NullPtr THEN <<>>
    ELSE <<front>> \o [i \in 1..InRing |-> ring[(tail - (i - 1)) % Size]]

Buffer == INSTANCE BoundedBuffer WITH
    contents <- Contents, Places <- Size + 1

\* A buffer of size + 1 places: in order, nothing lost or invented, refused
\* only when full.
ImplementsBuffer == Buffer!BufferSpec
=============================================================================
