----------------------------- MODULE MCEventLoop ----------------------------
(* The instance of EventLoop for TLC, and the log line of LogStream over    *)
(* bounded inputs, which TLC evaluates before the run.                      *)
EXTENDS EventLoop

Log == INSTANCE LogStream

SmallMessages ==
    UNION {[1..n -> {Log!Text("a", 0), Log!Text("b", 7), Log!Text("c", 50),
                     Log!Number("x", 1), Log!Number("y", 31)}] : n \in 0..4}

Lines(size, message) == Log!Line(size, Log!Prefix(3), message, Log!Finish(9, 2))

\* In a buffer of any of these sizes, and whatever is inserted, a line has whole
\* numbers, is cut by the end of the buffer only, and keeps its level; while at
\* least kMaxNumericSize characters are free it is complete.
ASSUME LinesAreSound ==
    \A size \in {40, 70, 100, 130, 200} : \A message \in SmallMessages :
        LET line == Lines(size, message)
            all == Log!Prefix(3) \o message \o Log!Finish(9, 2)
        IN  /\ line.length <= size
            /\ Log!NumbersAreWhole(line)
            /\ Log!CutOnlyByEnd(line)
            /\ line.stored[4] = [item |-> Log!Text("level", 6), length |-> 6]
            /\ size - line.length >= Log!kMaxNumericSize
               => line.stored = [n \in DOMAIN all |-> [item |-> all[n], length |-> all[n].length]]

\* The macros compare the wrong way round: asking for more detail in the
\* environment silences the less detailed levels, and asking for nothing writes
\* everything.
ASSUME LevelsAsCoded ==
    LET Written(environment) ==
            {level \in ToSet(Log!Levels) : Log!Logs(Log!initLogLevel(environment), level)}
    IN  /\ Written({}) = ToSet(Log!Levels)
        /\ Written({"BASIC_LOG_DEBUG"}) = ToSet(Log!Levels) \ {"INFO"}
        /\ Written({"BASIC_LOG_TRACE"}) = ToSet(Log!Levels) \ {"INFO", "DEBUG"}

\* Whatever was logged before, a fatal line ends the program and leaves no line
\* unflushed.
ASSUME FatalIsFlushed ==
    \A before \in UNION {[1..n -> {"WARN", "ERROR"}] : n \in 0..3} :
        LET start == [out |-> <<>>, flushed |-> 0, aborted |-> FALSE]
            Write(process, level) == Log!Output(process, level, level)
            process == FoldLeft(Write, start, Append(before, "FATAL"))
        IN  process.aborted /\ process.flushed = Len(before) + 1
=============================================================================
