------------------------------ MODULE LogStream ------------------------------
(***************************************************************************)
(* A line of the log: what FixedBuffer and LogStream                       *)
(* (src/include/log-stream.h, src/src/log-stream.cpp) keep of what is      *)
(* written to them, and what Logger (src/src/logging.cpp) writes around a  *)
(* message.  These are pure functions of one thread, written as operators. *)
(*                                                                         *)
(* An item is one insertion: the field it belongs to, whether it is a text *)
(* or a number, and how many characters it takes.  A stream remembers how  *)
(* many characters of each item it stored, none of an item it skipped.     *)
(***************************************************************************)
EXTENDS Integers, Sequences, SequencesExt

kSmallBuffer == 4000
kMaxNumericSize == 32

Kinds == {"text", "number"}

\* No number takes kMaxNumericSize characters.
Items ==
    {item \in [field : STRING, kind : Kinds, length : Nat] :
        item.kind = "number" => item.length \in 1..kMaxNumericSize - 1}

Text(field, length) == [field |-> field, kind |-> "text", length |-> length]
Number(field, length) == [field |-> field, kind |-> "number", length |-> length]

Streams ==
    {stream \in [size : Nat, length : Nat, stored : Seq([item : Items, length : Nat])] :
        stream.length <= stream.size}

Empty(size) == [size |-> size, length |-> 0, stored |-> <<>>]

avail(stream) == stream.size - stream.length

\* The current position moves behind the next n characters.
Store(stream, item, n) ==
    [size |-> stream.size, length |-> stream.length + n,
     stored |-> Append(stream.stored, [item |-> item, length |-> n])]

\* A text is cut where the buffer ends.
AppendText(stream, item) ==
    Store(stream, item,
          IF avail(stream) > item.length THEN item.length ELSE avail(stream))

\* A number is written into the buffer itself, so it needs room for the longest
\* one, or it is left out.
AppendNumber(stream, item) ==
    IF avail(stream) >= kMaxNumericSize THEN Store(stream, item, item.length) ELSE stream

Insert(stream, item) ==
    IF item.kind = "number" THEN AppendNumber(stream, item) ELSE AppendText(stream, item)

WriteAll(stream, items) == FoldLeft(Insert, stream, items)

-----------------------------------------------------------------------------
(* Logger                                                                  *)

Levels == <<"FATAL", "ERROR", "WARN", "INFO", "DEBUG", "TRACE">>

\* The number of a level counts from 0.
LevelNumber(level) == (CHOOSE n \in DOMAIN Levels : Levels[n] = level) - 1

\* The level that the environment variables ask for.
initLogLevel(environment) ==
    CASE "BASIC_LOG_TRACE" \in environment -> "TRACE"
      [] "BASIC_LOG_DEBUG" \in environment -> "DEBUG"
      [] OTHER -> "INFO"

\* The macros: LOG_WARN and those above it write always, the others when the
\* level that is set is theirs or a graver one.
Logs(getLevel, level) ==
    level \in {"TRACE", "DEBUG", "INFO"} => LevelNumber(getLevel) <= LevelNumber(level)

\* t_lastSecond and t_time, which each thread keeps for itself: the time of day
\* is formatted again when the second is another one.
FormatTime(cache, second) ==
    IF second # cache.lastSecond THEN [lastSecond |-> second, time |-> second] ELSE cache

\* The constructor: color, time of day and milliseconds, level, and the error
\* number of LOG_SYSERR and LOG_SYSFATAL (0 characters when errno is 0; its text
\* is empty).
Prefix(errnoSize) ==
    << Text("color", 6), Text("time", 17), Text("milliseconds", 5), Text("level", 6) >>
    \o IF errnoSize = 0 THEN <<>>
       ELSE << Text("error", 0), Text(" (errno=", 8), Number("errno", errnoSize), Text(") ", 2) >>

\* LOG_TRACE and LOG_DEBUG begin with the name of the function.
Function(level, nameSize) ==
    IF level \in {"TRACE", "DEBUG"} THEN << Text("function", nameSize), Text(" ", 1) >> ELSE <<>>

\* finish: where the statement stands, and the end of the line.
Finish(fileSize, lineSize) ==
    << Text(" - ", 3), Text("file", fileSize), Text(":", 1), Number("line", lineSize),
       Text("reset", 6), Text("newline", 1) >>

Line(size, begin, message, end) == WriteAll(Empty(size), begin \o message \o end)

\* The destructor: one call of g_output for the line; after a fatal one the
\* output is flushed and the program aborts.
Output(process, level, line) ==
    LET out == Append(process.out, line)
    IN  [out |-> out,
         flushed |-> IF level = "FATAL" THEN Len(out) ELSE process.flushed,
         aborted |-> level = "FATAL"]

-----------------------------------------------------------------------------
(* What a line is worth to its reader                                      *)

\* Every number of a line is there with all its digits, or not at all.
NumbersAreWhole(stream) ==
    \A n \in DOMAIN stream.stored :
        LET entry == stream.stored[n]
        IN  entry.item.kind = "number" => entry.length = entry.item.length

\* What is cut is cut by the end of the buffer.
CutOnlyByEnd(stream) ==
    \A n \in DOMAIN stream.stored :
        stream.stored[n].length # stream.stored[n].item.length => stream.length = stream.size
=============================================================================
