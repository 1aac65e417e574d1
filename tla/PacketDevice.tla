---------------------------- MODULE PacketDevice ----------------------------
(***************************************************************************)
(* SerialBufferDevice and SerialPacketDevice on top of SerialPort.  Port   *)
(* is of one of these classes:                                             *)
(*                                                                         *)
(*   "buffer"  a client reads chunks and acknowledges any part of them;    *)
(*   "packet"  the packetizer's thread cuts the stream at delimiters and   *)
(*             passes the packets on.                                      *)
(*                                                                         *)
(* Everywhere a byte is its position in `sent', so that the properties see *)
(* a byte that is lost, repeated or out of order.                          *)
(***************************************************************************)
EXTENDS SerialPort, SequencesExt

CONSTANTS
    Delimiters,    \* m_rxDelimiters, a sequence of sequences of bytes
    MaxPacketSize  \* m_maxPacketSize

\* The size of the array in a Delimiter.
kMaxSize == 3

ASSUME DelimitersAssumption ==
    Delimiters \in Seq(Seq(Bytes)) /\ \A n \in DOMAIN Delimiters : Len(Delimiters[n]) <= kMaxSize
ASSUME MaxPacketSizeAssumption == MaxPacketSize \in Nat

VARIABLES
    thread,     \* where the packetizer, or the client of the buffer, is
    running,    \* MAX_DELIMITER_SIZE is not yet cleared by the destructor
    rxIndex,    \* m_rx_index
    rxLen,      \* m_rx_data_len
    next,       \* i, how many bytes of the chunk are processed
    packet,     \* m_packet[0] .. m_packet[packet_end - 1]
    packetLen,  \* packet_len
    discard,    \* discard
    removed,    \* how many bytes were removed from the buffer
    gaps,       \* after how many bytes the packetizer saw nothing to read
    delivered   \* the packets m_rxHandler was called with

rxVars == <<rxIndex, rxLen, removed>>
packetVars == <<next, packet, packetLen, discard, delivered, gaps>>
packetizerVars == <<thread, running, rxVars, packetVars>>
vars == <<portVars, packetizerVars>>

MaxDelimiterSize ==
    CHOOSE size \in 0..kMaxSize :
        /\ \A n \in DOMAIN Delimiters : Len(Delimiters[n]) <= size
        /\ size = 0 \/ \E n \in DOMAIN Delimiters : Len(Delimiters[n]) = size

\* The size of m_packet.
Capacity == MaxPacketSize + MaxDelimiterSize

BytesAt(positions) == [i \in DOMAIN positions |-> sent[positions[i]]]

\* The chunk that ReadSome hands out.
Held == SubSeq(buffer, rxIndex + 1, rxIndex + rxLen)

TypeOK ==
    /\ PortTypeOK
    /\ thread \in {"start", "loop", "read", "bytes", "held", "ended", "undefined"}
    /\ running \in BOOLEAN /\ discard \in BOOLEAN
    /\ rxLen \in 0..BufferSize /\ rxIndex \in 0..BufferSize
    /\ next \in 0..rxLen
    /\ packet \in Seq(1..Len(sent)) /\ packetLen \in 0..Len(packet)
    /\ removed \in 0..taken
    /\ gaps \subseteq 0..taken
    /\ delivered \in Seq(Seq(1..Len(sent)))

Init ==
    /\ PortInit
    /\ thread = "start" /\ running = TRUE
    /\ rxIndex = 0 /\ rxLen = 0 /\ removed = 0
    /\ next = 0 /\ packet = <<>> /\ packetLen = 0 /\ discard = FALSE
    /\ gaps = {} /\ delivered = <<>>

-----------------------------------------------------------------------------
(* The receive buffer                                                      *)

\* ReadSome reads when the last chunk is removed, and keeps what it read.
FillBuffer ==
    /\ EndRead
    /\ rxIndex' = 0 /\ rxLen' = ReadSize
    /\ UNCHANGED removed

\* Fault: the index stays at the removed bytes.
RemoveInPlace(size) ==
    /\ rxLen' = IF rxLen > size THEN rxLen - size ELSE 0
    /\ rxIndex' = 0
    /\ removed' = removed + (rxLen - rxLen')

RemoveChunk(size) ==
    /\ rxLen' = IF rxLen > size THEN rxLen - size ELSE 0
    /\ rxIndex' = IF rxLen > size THEN rxIndex + size ELSE 0
    /\ removed' = removed + (rxLen - rxLen')

-----------------------------------------------------------------------------
(* The thread up to the first byte of a chunk                              *)

Class(class) == session.class = class

Exists == life[Port] \in {"ready", "closing", "closed"}

\* The packetizer tests IsValid; the owner of a device that is not valid
\* drops it.
Start ==
    /\ thread = "start"
    /\ \/ Exists /\ thread' = IF Class("packet") /\ MaxDelimiterSize * MaxPacketSize = 0
                              THEN "ended" ELSE "loop"
       \/ life[Port] = "invalid" /\ thread' = "ended"
    /\ UNCHANGED <<portVars, running, rxVars, packetVars>>

\* A ReadSome that has to read; the packetizer first tests for its end.
Call ==
    /\ thread = "loop" /\ running /\ rxLen = 0
    /\ BeginRead
    /\ thread' = "read"
    /\ UNCHANGED <<running, rxVars, packetVars>>

\* The packetizer's loop ends with the flag, a client whenever it likes.
End ==
    /\ thread = "loop" /\ (Class("packet") => ~ running)
    /\ thread' = "ended"
    /\ UNCHANGED <<portVars, running, rxVars, packetVars>>

\* The client of a buffer has its chunk.
Chunk ==
    /\ thread = "read" /\ Class("buffer")
    /\ FillBuffer
    /\ thread' = "held"
    /\ UNCHANGED <<running, packetVars>>

\* A ReadSome that finds the rest of the last chunk.
ChunkAgain ==
    /\ thread = "loop" /\ Class("buffer") /\ rxLen > 0
    /\ thread' = "held"
    /\ UNCHANGED <<portVars, running, rxVars, packetVars>>

\* The client acknowledges some of the chunk, all of it, or more.
Acknowledge(size) ==
    /\ thread = "held"
    /\ RemoveChunk(size)
    /\ thread' = "loop"
    /\ UNCHANGED <<portVars, running, packetVars>>

-----------------------------------------------------------------------------
(* The packetizer                                                          *)

BeginsWith(dp, n) == IsPrefix(Delimiters[n], dp)
MayBecome(dp, n) == Len(dp) < Len(Delimiters[n]) /\ IsPrefix(dp, Delimiters[n])

\* The delimiters at which the search ends.
Decisive(dp, best_match) ==
    {n \in DOMAIN Delimiters : \/ Len(Delimiters[n]) <= Len(dp) /\ BeginsWith(dp, n)
                               \/ ~ best_match /\ MayBecome(dp, n)}

\* Fault: a delimiter that may still become longer is not waited for.
FindShortest(dp, best_match) ==
    LET whole == {n \in DOMAIN Delimiters : BeginsWith(dp, n)}
    IN  IF dp = <<>> THEN 0
        ELSE IF whole # {} THEN Len(Delimiters[Min(whole)])
        ELSE IF \E n \in DOMAIN Delimiters : MayBecome(dp, n) THEN -Len(dp)
        ELSE 0

\* The size of the delimiter at dp, negative when there is only its beginning.
FindDelimiter(dp, best_match) ==
    LET decisive == Decisive(dp, best_match)
        first == CHOOSE n \in decisive : \A m \in decisive : n <= m
        size == Len(Delimiters[first])
    IN  IF dp = <<>> THEN 0
        ELSE IF decisive # {} THEN IF size <= Len(dp) THEN size ELSE -Len(dp)
        ELSE IF \E n \in DOMAIN Delimiters : MayBecome(dp, n) THEN -Len(dp)
        ELSE 0

\* m_packet[packet_len] up to its end: what may be a delimiter.
Undecided(p) == BytesAt(SubSeq(p, packetLen + 1, Len(p)))

\* Fault: the end is reset, the beginning of the delimiter is not.
NewPacketKeepsLength == packet' = <<>> /\ UNCHANGED packetLen

NewPacket == packet' = <<>> /\ packetLen' = 0

Deliver(p) ==
    delivered' = IF discard THEN delivered ELSE Append(delivered, SubSeq(p, 1, packetLen))

\* Nothing to read: a delimiter that is there although it might have become a
\* longer one ends the packet.
Gap ==
    /\ thread = "read" /\ Class("packet") /\ ReadSize = 0
    /\ FillBuffer
    /\ thread' = "loop"
    /\ gaps' = gaps \cup {removed}
    /\ IF FindDelimiter(Undecided(packet), TRUE) > 0
       THEN NewPacket /\ Deliver(packet) /\ discard' = FALSE
       ELSE UNCHANGED <<packet, packetLen, discard, delivered>>
    /\ UNCHANGED <<running, next>>

BeginChunk ==
    /\ thread = "read" /\ Class("packet") /\ ReadSize > 0
    /\ FillBuffer
    /\ thread' = "bytes" /\ next' = 0
    /\ UNCHANGED <<running, packet, packetLen, discard, delivered, gaps>>

\* The next byte is stored behind the others; beyond m_packet that is undefined.
Stored == Append(packet, Held[next + 1])
Storing == thread = "bytes" /\ next < rxLen /\ Len(packet) < Capacity
Match == FindDelimiter(Undecided(Stored), FALSE)

Overrun ==
    /\ thread = "bytes" /\ next < rxLen /\ Len(packet) >= Capacity
    /\ thread' = "undefined"
    /\ UNCHANGED <<portVars, running, rxVars, packetVars>>

\* Fault: the size is not limited.
PacketByteUnlimited ==
    /\ Storing /\ Match = 0
    /\ next' = next + 1
    /\ packet' = Stored
    /\ packetLen' = IF discard THEN packetLen ELSE Len(Stored)
    /\ UNCHANGED <<portVars, thread, running, rxVars, discard, delivered, gaps>>

\* No delimiter: the bytes belong to the packet, which may get too long.
PacketByte ==
    /\ Storing /\ Match = 0
    /\ next' = next + 1
    /\ IF discard THEN packet' = Stored /\ UNCHANGED <<packetLen, discard>>
       ELSE IF Len(Stored) > MaxPacketSize THEN NewPacket /\ discard' = TRUE
       ELSE packet' = Stored /\ packetLen' = Len(Stored) /\ UNCHANGED discard
    /\ UNCHANGED <<portVars, thread, running, rxVars, delivered, gaps>>

\* The beginning of a delimiter.
DelimiterByte ==
    /\ Storing /\ Match < 0
    /\ next' = next + 1
    /\ packet' = Stored
    /\ UNCHANGED <<portVars, thread, running, rxVars, packetLen, discard, delivered, gaps>>

\* Fault: the byte behind a shorter delimiter is dropped.
DelimiterEndsGreedily ==
    /\ Storing /\ Match > 0
    /\ next' = next + 1
    /\ NewPacket /\ Deliver(Stored) /\ discard' = FALSE
    /\ UNCHANGED <<portVars, thread, running, rxVars, gaps>>

\* A delimiter: when it took one more byte to know, that byte is processed again.
DelimiterEnds ==
    /\ Storing /\ Match > 0
    /\ next' = IF Len(Stored) - packetLen > Match THEN next ELSE next + 1
    /\ NewPacket /\ Deliver(Stored) /\ discard' = FALSE
    /\ UNCHANGED <<portVars, thread, running, rxVars, gaps>>

ChunkDone ==
    /\ thread = "bytes" /\ next = rxLen
    /\ RemoveChunk(rxLen)
    /\ next' = 0
    /\ thread' = "loop"
    /\ UNCHANGED <<portVars, running, packet, packetLen, discard, delivered, gaps>>

-----------------------------------------------------------------------------
(* The owner of the device, and everybody else                             *)

\* The destructor clears the flag first.
BeginDestruction ==
    /\ running /\ Class("packet") /\ life[Port] \in {"ready", "invalid"}
    /\ running' = FALSE
    /\ UNCHANGED <<portVars, thread, rxVars, packetVars>>

\* Close, of the packet device only in its destructor.
CloseDevice(d) ==
    /\ d = Port /\ Class("packet") => ~ running
    /\ CloseSettings(d) \/ CloseNonblock(d)
    /\ UNCHANGED packetizerVars

\* The end of the destructor, after the thread is joined; nobody destroys a
\* buffer that is in use.
Destroy(d) ==
    /\ d = Port => thread = "ended" /\ (Class("packet") => ~ running)
    /\ Release(d)
    /\ UNCHANGED packetizerVars

Packetizer ==
    \/ Gap \/ BeginChunk \/ Overrun \/ PacketByte \/ DelimiterByte \/ DelimiterEnds \/ ChunkDone

Client == Chunk \/ ChunkAgain \/ \E size \in 0..BufferSize + 1 : Acknowledge(size)

Reading ==
    /\ \/ \E n \in 1..BufferSize : ReadData(n)
       \/ ReadNothing \/ ReadFails \/ TestMode \/ SwitchMode
    /\ UNCHANGED packetizerVars

Constructing(d) ==
    Open(d) \/ LockTerminal(d) \/ InitTerminal(d) \/ InitFails(d)

SettingLines(c) ==
    \/ SetLineWrites(c) \/ SetLineCannotRead(c) \/ SetLineCannotWrite(c)
    \/ \E r \in Requests : SetLineReads(c, r)

\* The steps of the thread that reads, which cannot but go on.
ThreadStep ==
    \/ Start \/ Call \/ Client \/ Packetizer \/ Reading
    \/ Class("packet") /\ End

\* The steps that end what a call of Close or a destructor began.
Closing ==
    \/ CloseDevice(Port) /\ (Class("packet") \/ life[Port] = "closing")
    \/ Destroy(Port) /\ Class("packet")

Next ==
    \/ ThreadStep \/ End
    \/ BeginDestruction
    \/ \E d \in Devices : CloseDevice(d) \/ Destroy(d)
    \/ \E d \in Devices : Constructing(d) /\ UNCHANGED packetizerVars
    \/ \E c \in LineClients : SettingLines(c) /\ UNCHANGED packetizerVars
    \/ \E b \in Bytes : Arrive(b) /\ UNCHANGED packetizerVars

\* The thread runs, read() returns when it can, a Close, a destructor and a
\* SetLine that began go on; nobody has to open or to close a device, and no
\* byte has to come.
Fairness ==
    /\ WF_vars(ThreadStep)
    /\ WF_vars(Closing)
    /\ \A c \in LineClients : WF_vars(SetLineWrites(c) /\ UNCHANGED packetizerVars)

Spec == Init /\ [][Next]_vars /\ Fairness

-----------------------------------------------------------------------------
(* Properties                                                              *)

\* A client that acknowledges only some of a chunk gets the rest, and nothing
\* else, with the next ReadSome: no byte between the wire and the client is
\* lost, repeated or out of order.
RemovedInOrder ==
    reader = "idle" => Held = [i \in 1..taken - removed |-> removed + i]

\* The buffer of the packetizer is large enough for a packet of the maximal
\* size and the delimiter behind it; only the discard mode leaves it.
CapacitySuffices ==
    /\ ~ discard => /\ packetLen <= MaxPacketSize
                    /\ Len(packet) < Capacity \/ packet = <<>>
    /\ thread = "undefined" => discard

\* The delimiters that lie whole at k in the bytes read so far, with no gap
\* inside, and those that may still come to lie there.
WholeAt(k) ==
    {n \in DOMAIN Delimiters :
        LET size == Len(Delimiters[n])
        IN  /\ k + size - 1 <= removed
            /\ SubSeq(sent, k, k + size - 1) = Delimiters[n]
            /\ gaps \cap k..k + size - 2 = {}}

PendingAt(k) ==
    /\ gaps \cap k..removed = {}
    /\ \E n \in DOMAIN Delimiters :
         /\ MayBecome(SubSeq(sent, k, removed), n)
         /\ \A m \in WholeAt(k) : n < m

\* Where a delimiter lies, and the byte behind it.
Cuts == {k \in 1..removed : WholeAt(k) # {} /\ ~ PendingAt(k)}
Behind(k) == k + Len(Delimiters[Min(WholeAt(k))])
Begins == {1} \cup {Behind(k) : k \in Cuts}

\* What lies between two delimiters next to each other, as its first byte and
\* the byte behind it.
Between ==
    {run \in Begins \X Cuts : run[1] <= run[2] /\ Cuts \cap run[1]..run[2] - 1 = {}}

\* The bytes behind the last delimiter, without what may become one.
Unfinished ==
    {k \in Max(Begins)..removed : \A j \in Max(Begins)..k : ~ PendingAt(j)}

\* A packet as its first byte and the byte behind it; an empty packet is
\* where the delimiter is.
Positions(run) == [i \in 1..run[2] - run[1] |-> run[1] + i - 1]

Size(run) == run[2] - run[1]

\* The packets in the order in which they lie in the stream.
Before(run, runs) == {r \in runs : r[1] < run[1]}
Nth(n, runs) == CHOOSE run \in {r \in runs : Cardinality(Before(r, runs)) = n - 1} : TRUE
InOrder(runs) == [n \in 1..Cardinality(runs) |-> Positions(Nth(n, runs))]

\* The packets that the stream so far holds.
Packets == InOrder({run \in Between : Size(run) <= MaxPacketSize})

\* No packet so far that is too long by more than one byte.
Framed ==
    /\ \A run \in Between : Size(run) <= MaxPacketSize + 1
    /\ Cardinality(Unfinished) <= MaxPacketSize + 1

BetweenChunks == thread \in {"loop", "read", "ended"} /\ Class("packet") /\ rxLen = 0

\* The packets do not depend on how read() cuts the stream into chunks: they
\* are what lies between the delimiters, the longest that fits before a gap.
\* For delimiters of which the beginnings are listed and that do not overlap,
\* and up to the first packet that is too long by two bytes.
FramingFollowsStream == BetweenChunks /\ Framed => delivered = Packets

\* What begins a delimiter is one itself and comes behind it in the list, as in
\* CR LF, CR.  Otherwise the search may pass over a delimiter: it never goes
\* back by more than one byte.
BeginningsListed ==
    /\ \A n \in DOMAIN Delimiters : Delimiters[n] # <<>>
    /\ \A n \in DOMAIN Delimiters : \A l \in 1..Len(Delimiters[n]) :
         \E m \in DOMAIN Delimiters : Delimiters[m] = SubSeq(Delimiters[n], 1, l)
    /\ \A m, n \in DOMAIN Delimiters : MayBecome(Delimiters[m], n) => n < m

\* No delimiter begins inside another one.
NoOverlap ==
    \A m, n \in DOMAIN Delimiters : \A i \in 2..Len(Delimiters[n]) :
        Delimiters[n][i] # Delimiters[m][1]

\* Whatever was discarded before, what is delivered lies between delimiters, of
\* which the beginnings are listed.
PacketsAreWhole ==
    BetweenChunks => \A n \in DOMAIN delivered :
        \E run \in Between : delivered[n] = Positions(run) /\ Size(run) <= MaxPacketSize

\* Every packet of the stream that is not too long is passed on.
EveryPacketArrives ==
    BetweenChunks => \A run \in Between :
        Size(run) \in 1..MaxPacketSize => Contains(delivered, Positions(run))

\* The thread of a device does not outlive it.
ThreadEndsFirst == life[Port] = "gone" => thread = "ended" /\ reader = "idle"

\* Closing frees the thread that waits in read() for the first byte of a burst,
\* whatever it did when Close was called, and so the destructor of a packet
\* device returns.
ClosingEnds ==
    /\ (life[Port] = "closed") ~> (reader = "idle")
    /\ (~ running) ~> (life[Port] = "gone" \/ thread = "undefined")

\* Bytes that arrive are processed, in whatever mode the device is and whoever
\* sets its modem lines, unless it is destroyed.
BytesAreTaken ==
    (Class("packet") /\ thread = "loop")
        ~> (removed = Len(sent) \/ ~ running \/ thread = "undefined")
=============================================================================
