--------------------------- MODULE LogStreamProofs ---------------------------
(***************************************************************************)
(* What a LogStream keeps of what is written to it, for a buffer of any    *)
(* size.  Each theorem is about one insertion; a line is a sequence of     *)
(* them into an empty stream, which has all of these properties.           *)
(***************************************************************************)
EXTENDS LogStream, TLAPS

\* A stream with one more entry than another, and its position moved behind it.
IsExtended(result, stream, item, n) ==
    /\ result.size = stream.size /\ result.length = stream.length + n
    /\ result.stored \in Seq([item : Items, length : Nat])
    /\ DOMAIN stream.stored = 1..Len(stream.stored) /\ Len(stream.stored) \in Nat
    /\ DOMAIN result.stored = 1..Len(stream.stored) + 1
    /\ \A k \in 1..Len(stream.stored) : result.stored[k] = stream.stored[k]
    /\ result.stored[Len(stream.stored) + 1] = [item |-> item, length |-> n]

\* Store adds one entry behind the others.
LEMMA StoreEntries ==
    ASSUME NEW stream \in Streams, NEW item \in Items, NEW n \in Nat
    PROVE  IsExtended(Store(stream, item, n), stream, item, n)
<1> DEFINE entry == [item |-> item, length |-> n]
           Entry == [item : Items, length : Nat]
<1>1. stream.stored \in Seq(Entry) /\ entry \in Entry
  BY DEF Streams
<1> HIDE DEF entry, Entry
<1>2. /\ Append(stream.stored, entry) \in Seq(Entry)
      /\ DOMAIN stream.stored = 1..Len(stream.stored) /\ Len(stream.stored) \in Nat
      /\ DOMAIN Append(stream.stored, entry) = 1..Len(stream.stored) + 1
      /\ \A k \in 1..Len(stream.stored) : Append(stream.stored, entry)[k] = stream.stored[k]
      /\ Append(stream.stored, entry)[Len(stream.stored) + 1] = entry
  BY <1>1
<1>3. Store(stream, item, n) = [size |-> stream.size, length |-> stream.length + n,
                                stored |-> Append(stream.stored, entry)]
  BY DEF Store, entry
<1>4. /\ Store(stream, item, n).size = stream.size
      /\ Store(stream, item, n).length = stream.length + n
      /\ Store(stream, item, n).stored = Append(stream.stored, entry)
  BY <1>3
<1> QED BY <1>2, <1>4 DEF IsExtended, entry, Entry

\* An insertion stores a part of the item, or leaves the stream as it is.
LEMMA InsertStores ==
    ASSUME NEW stream \in Streams, NEW item \in Items
    PROVE  \/ Insert(stream, item) = stream
           \/ \E n \in Nat :
                /\ Insert(stream, item) = Store(stream, item, n)
                /\ stream.length + n <= stream.size
                /\ item.kind = "number" => n = item.length
                /\ n # item.length => stream.length + n = stream.size
<1>1. avail(stream) \in Nat /\ item.length \in Nat /\ stream.length + avail(stream) = stream.size
  BY DEF avail, Streams, Items
<1>2. CASE item.kind = "number"
  <2>1. Insert(stream, item) =
          IF avail(stream) >= kMaxNumericSize THEN Store(stream, item, item.length) ELSE stream
    BY <1>2 DEF Insert, AppendNumber
  <2>2. item.length < kMaxNumericSize
    BY <1>2 DEF Items, kMaxNumericSize
  <2>3. CASE avail(stream) >= kMaxNumericSize
    BY <1>1, <2>1, <2>2, <2>3 DEF Streams, kMaxNumericSize
  <2> QED BY <2>1, <2>3
<1>3. CASE item.kind # "number"
  <2>1. Insert(stream, item) =
          Store(stream, item, IF avail(stream) > item.length THEN item.length ELSE avail(stream))
    BY <1>3 DEF Insert, AppendText
  <2>2. CASE avail(stream) > item.length
    BY <1>1, <1>3, <2>1, <2>2 DEF Streams
  <2>3. CASE ~ (avail(stream) > item.length)
    BY <1>1, <1>3, <2>1, <2>3 DEF Streams
  <2> QED BY <2>2, <2>3
<1> QED BY <1>2, <1>3

\* Nothing is written behind the end of the buffer, however little room there
\* is (FixedBuffer::append, LogStream::formatInteger).
THEOREM BufferIsNotOverrun ==
    ASSUME NEW stream \in Streams, NEW item \in Items
    PROVE  Insert(stream, item) \in Streams
<1>1. CASE Insert(stream, item) = stream
  BY <1>1
<1>2. ASSUME NEW n \in Nat, Insert(stream, item) = Store(stream, item, n),
             stream.length + n <= stream.size
      PROVE  Insert(stream, item) \in Streams
  <2>0. IsExtended(Store(stream, item, n), stream, item, n)
    BY StoreEntries
  <2>1. Store(stream, item, n) \in [size : Nat, length : Nat,
                                   stored : Seq([item : Items, length : Nat])]
    BY <2>0 DEF IsExtended, Store, Streams
  <2>2. Store(stream, item, n).size = stream.size /\ Store(stream, item, n).length = stream.length + n
    BY <2>0 DEF IsExtended
  <2> QED BY <1>2, <2>1, <2>2 DEF Streams
<1> QED BY <1>1, <1>2, InsertStores

\* No number loses digits at the end of the buffer: a reader who sees one can
\* rely on it.
THEOREM NumbersStayWhole ==
    ASSUME NEW stream \in Streams, NEW item \in Items, NumbersAreWhole(stream)
    PROVE  NumbersAreWhole(Insert(stream, item))
<1>1. CASE Insert(stream, item) = stream
  BY <1>1
<1>2. ASSUME NEW n \in Nat, Insert(stream, item) = Store(stream, item, n),
             item.kind = "number" => n = item.length
      PROVE  NumbersAreWhole(Insert(stream, item))
  <2> DEFINE result == Store(stream, item, n)
             old == Len(stream.stored)
  <2>0. IsExtended(result, stream, item, n)
    BY StoreEntries
  <2> HIDE DEF result
  <2>1. /\ result.size = stream.size /\ result.length = stream.length + n
        /\ DOMAIN stream.stored = 1..old /\ DOMAIN result.stored = 1..old + 1 /\ old \in Nat
        /\ \A k \in 1..old : result.stored[k] = stream.stored[k]
        /\ result.stored[old + 1] = [item |-> item, length |-> n]
    BY <2>0 DEF IsExtended
  <2> SUFFICES ASSUME NEW k \in DOMAIN result.stored, result.stored[k].item.kind = "number"
               PROVE  result.stored[k].length = result.stored[k].item.length
    BY <1>2 DEF NumbersAreWhole, result
  <2>2. CASE k \in 1..old
    BY <2>1, <2>2 DEF NumbersAreWhole
  <2>3. CASE k = old + 1
    <3>1. result.stored[k].item = item /\ result.stored[k].length = n
      BY <2>1, <2>3
    <3> QED BY <1>2, <3>1
  <2> QED BY <2>1, <2>2, <2>3
<1> QED BY <1>1, <1>2, InsertStores

\* A text is cut only where the buffer is full, and what comes after that is
\* not stored in its place.
THEOREM CutsAreAtTheEnd ==
    ASSUME NEW stream \in Streams, NEW item \in Items, CutOnlyByEnd(stream)
    PROVE  CutOnlyByEnd(Insert(stream, item))
<1>1. CASE Insert(stream, item) = stream
  BY <1>1
<1>2. ASSUME NEW n \in Nat, Insert(stream, item) = Store(stream, item, n),
             stream.length + n <= stream.size,
             n # item.length => stream.length + n = stream.size
      PROVE  CutOnlyByEnd(Insert(stream, item))
  <2> DEFINE result == Store(stream, item, n)
             old == Len(stream.stored)
  <2>0. IsExtended(result, stream, item, n)
    BY StoreEntries
  <2> HIDE DEF result
  <2>1. /\ result.size = stream.size /\ result.length = stream.length + n
        /\ DOMAIN stream.stored = 1..old /\ DOMAIN result.stored = 1..old + 1 /\ old \in Nat
        /\ \A k \in 1..old : result.stored[k] = stream.stored[k]
        /\ result.stored[old + 1] = [item |-> item, length |-> n]
    BY <2>0 DEF IsExtended
  <2>2. stream.length = stream.size => stream.length + n = stream.size
    BY <1>2 DEF Streams
  <2> SUFFICES ASSUME NEW k \in DOMAIN result.stored,
                      result.stored[k].length # result.stored[k].item.length
               PROVE  result.length = result.size
    BY <1>2 DEF CutOnlyByEnd, result
  <2>3. CASE k \in 1..old
    BY <2>1, <2>2, <2>3 DEF CutOnlyByEnd
  <2>4. CASE k = old + 1
    <3>1. result.stored[k].item = item /\ result.stored[k].length = n
      BY <2>1, <2>4
    <3> QED BY <1>2, <2>1, <3>1
  <2> QED BY <2>1, <2>3, <2>4
<1> QED BY <1>1, <1>2, InsertStores

\* The time of day of a line is that of its message although it is formatted
\* only when the second changes; t_lastSecond is 0 before the first message, so
\* the claim holds from the second 1 of the epoch on.
THEOREM TimeIsOfTheMessage ==
    ASSUME NEW cache, NEW second \in Nat \ {0},
           cache.lastSecond # 0 => cache.time = cache.lastSecond
    PROVE  /\ FormatTime(cache, second).time = second
           /\ FormatTime(cache, second).lastSecond = second
BY DEF FormatTime
=============================================================================
