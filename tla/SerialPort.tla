----------------------------- MODULE SerialPort -----------------------------
(***************************************************************************)
(* SerialDevice::Impl on unix (src/src/serial-device-unix.cpp): devices    *)
(* that open the same terminal, the modes that ReadSome switches between,  *)
(* Close against a read that is under way, and the modem lines.            *)
(*                                                                         *)
(* The terminal driver is external: bytes arrive in `sent', the settings   *)
(* in force are `tty', the modem lines are `lines'.  A read that is under  *)
(* way follows the settings of the moment, as the note of Close ("unblock- *)
(* ing any pending calls") takes for granted; a line that hangs up is left *)
(* out.  ReadSome reads state_ twice without the mutex, so the thread that *)
(* calls it can be inside read(), before the test of the mode, or before   *)
(* the mutex.                                                              *)
(***************************************************************************)
EXTENDS Integers, Sequences, FiniteSets, LineSettings

CONSTANTS
    Devices,      \* SerialDevice::Impl objects for one terminal
    Port,         \* the one that is read from
    NoDevice,
    Bytes,        \* the bytes that arrive
    BufferSize,   \* the size ReadSome is called with
    Sessions,     \* what may be tried
    LineClients,  \* threads that call SetLine
    Requests      \* the mask and value they call it with

Lines == {"RTS", "DTR"}

\* A session says which devices are constructed, the class of Port, the
\* configurations, and the settings and the unread bytes of the terminal before
\* them; it bounds the number of bytes and of other events: calls of SetLine and
\* system calls that fail.
ASSUME SessionsAssumption ==
    Sessions \subseteq
        [devices : SUBSET Devices, class : {"packet", "buffer"},
         config : [Devices -> Configuration], leftover : Termios, unread : Seq(Bytes),
         maxBytes : Nat, maxEvents : Nat]
ASSUME DevicesAssumption == Port \in Devices /\ NoDevice \notin Devices
ASSUME RequestsAssumption == Requests \subseteq [mask : SUBSET Lines, value : SUBSET Lines]
ASSUME ClientsAssumption == {"free", "close"} \cap LineClients = {}
ASSUME BufferAssumption == BufferSize \in Nat \ {0}

VARIABLES
    session,   \* the session of this behaviour
    life,      \* where each device is between its constructor and destructor
    state,     \* state_
    options,   \* options_
    nonblock,  \* O_NDELAY on fd_
    mutex,     \* Port's mutex_: free, or who holds it
    owner,     \* the device that has the terminal's flock
    tty,       \* the settings in force
    sent,      \* the bytes that arrived so far
    taken,     \* how many of them read() returned
    reader,    \* where the thread that reads from Port is in ReadSome
    buffer,    \* the positions in `sent' of the bytes read() returned last
    result,    \* sz
    quiet,     \* no byte was read since read() returned 0
    lines,     \* the modem lines that are up
    request,   \* what each client of SetLine is doing
    wanted,    \* the lines as the finished calls of SetLine left them
    events     \* how many bounded events happened

deviceVars == <<life, state, options, nonblock, owner, tty>>
streamVars == <<sent, taken>>
readVars == <<reader, buffer, result, quiet>>
lineVars == <<lines, request, wanted>>
portVars == <<session, deviceVars, mutex, streamVars, readVars, lineVars, events>>

\* SerialPacketDevice always reads in gap mode.
Config(d) ==
    IF d = Port /\ session.class = "packet"
    THEN [session.config[d] EXCEPT !.gap_sync = TRUE]
    ELSE session.config[d]

States == {"kTimeout", "kWaiting", "kReading", "kShutdown"}

NoRequest == [mask |-> {}, value |-> {}, at |-> "none", status |-> {}]

PortTypeOK ==
    /\ session \in Sessions
    /\ life \in [Devices -> {"new", "opened", "locked", "ready", "closing", "closed",
                             "invalid", "gone"}]
    /\ state \in [Devices -> States]
    /\ options \in [Devices -> Termios]
    /\ nonblock \in [Devices -> BOOLEAN]
    /\ mutex \in {"free", "close"} \cup LineClients
    /\ owner \in Devices \cup {NoDevice}
    /\ tty \in Termios
    /\ sent \in Seq(Bytes)
    /\ taken \in 0..Len(sent)
    /\ reader \in {"idle", "reading", "test", "switch", "returned"}
    /\ buffer \in Seq(1..Len(sent)) /\ Len(buffer) <= BufferSize
    /\ result \in -1..BufferSize
    /\ quiet \in BOOLEAN
    /\ lines \in SUBSET Lines
    /\ request \in [LineClients -> [mask : SUBSET Lines, value : SUBSET Lines,
                                    at : {"none", "locked", "done"}, status : SUBSET Lines]]
    /\ wanted \in SUBSET Lines
    /\ events \in Nat

PortInit ==
    /\ session \in Sessions
    /\ life = [d \in Devices |-> "new"]
    /\ state = [d \in Devices |-> IF Config(d).gap_sync THEN "kWaiting" ELSE "kTimeout"]
    /\ tty = session.leftover
    /\ options = [d \in Devices |-> tty]
    /\ nonblock = [d \in Devices |-> TRUE]
    /\ mutex = "free"
    /\ owner = NoDevice
    /\ sent = session.unread /\ taken = 0
    /\ reader = "idle" /\ buffer = <<>> /\ result = 0 /\ quiet = TRUE
    /\ lines = {} /\ wanted = {}
    /\ request = [c \in LineClients |-> NoRequest]
    /\ events = 0

\* One of the bounded events of the session.
CountEvent == events < session.maxEvents /\ events' = events + 1

-----------------------------------------------------------------------------
(* The constructor and the destructor                                      *)

Enter(d, stage) == life' = [life EXCEPT ![d] = stage]

\* open() with O_NDELAY.
Open(d) ==
    /\ d \in session.devices /\ life[d] = "new"
    /\ Enter(d, "opened")
    /\ UNCHANGED <<session, state, options, nonblock, owner, tty, mutex,
                   streamVars, readVars, lineVars, events>>

\* Fault: the lock's failure is overlooked.
LockTerminalOverlooked(d) ==
    /\ life[d] = "opened"
    /\ owner' = IF owner = NoDevice THEN d ELSE owner
    /\ Enter(d, "locked")
    /\ UNCHANGED <<session, state, options, nonblock, tty, mutex,
                   streamVars, readVars, lineVars, events>>

\* flock() with LOCK_NB: a device that does not get the terminal closes it.
LockTerminal(d) ==
    /\ life[d] = "opened"
    /\ IF owner = NoDevice THEN owner' = d /\ Enter(d, "locked")
                           ELSE owner' = owner /\ Enter(d, "invalid")
    /\ UNCHANGED <<session, state, options, nonblock, tty, mutex,
                   streamVars, readVars, lineVars, events>>

\* Init: blocking reads, the present settings with the configuration on top.
InitTerminal(d) ==
    /\ life[d] = "locked"
    /\ Accepted(Config(d))
    /\ Enter(d, "ready")
    /\ options' = [options EXCEPT ![d] = InitOptions(tty, Config(d))]
    /\ nonblock' = [nonblock EXCEPT ![d] = FALSE]
    /\ tty' = options'[d]
    /\ UNCHANGED <<session, state, owner, mutex, streamVars, readVars, lineVars, events>>

\* A configuration that is refused, or a system call that fails.
InitFails(d) ==
    /\ life[d] = "locked"
    /\ IF Accepted(Config(d)) THEN CountEvent ELSE events' = events
    /\ Enter(d, "invalid")
    /\ owner' = NoDevice
    /\ UNCHANGED <<session, state, options, nonblock, tty, mutex,
                   streamVars, readVars, lineVars>>

\* Close up to tcsetattr: the mode, then settings that make read() return.
CloseSettings(d) ==
    /\ life[d] = "ready"
    /\ IF d = Port THEN mutex = "free" /\ mutex' = "close" ELSE mutex' = mutex
    /\ Enter(d, "closing")
    /\ state' = [state EXCEPT ![d] = "kShutdown"]
    /\ options' = [options EXCEPT ![d].vmin = 0, ![d].vtime = 0]
    /\ tty' = options'[d]
    /\ UNCHANGED <<session, nonblock, owner, streamVars, readVars, lineVars, events>>

\* Fault: the mutex is not unlocked.
CloseKeepsMutex(d) ==
    /\ life[d] = "closing"
    /\ Enter(d, "closed")
    /\ nonblock' = [nonblock EXCEPT ![d] = TRUE]
    /\ UNCHANGED <<session, state, options, owner, tty, mutex, streamVars, readVars,
                   lineVars, events>>

\* The rest of Close.
CloseNonblock(d) ==
    /\ life[d] = "closing"
    /\ mutex' = IF d = Port THEN "free" ELSE mutex
    /\ Enter(d, "closed")
    /\ nonblock' = [nonblock EXCEPT ![d] = TRUE]
    /\ UNCHANGED <<session, state, options, owner, tty, streamVars, readVars, lineVars, events>>

\* close(fd_), after a Close that finds everything closed already; the lock
\* goes with the descriptor.
Release(d) ==
    /\ life[d] \in {"closed", "invalid"}
    /\ Enter(d, "gone")
    /\ owner' = IF owner = d THEN NoDevice ELSE owner
    /\ UNCHANGED <<session, state, options, nonblock, tty, mutex,
                   streamVars, readVars, lineVars, events>>

-----------------------------------------------------------------------------
(* ReadSome                                                                *)

\* The early return of a device that is shut down, or the call of read().
BeginRead ==
    /\ reader = "idle"
    /\ result' = 0
    /\ reader' = IF state[Port] = "kShutdown" THEN "returned" ELSE "reading"
    /\ UNCHANGED <<session, deviceVars, mutex, streamVars, buffer, quiet, lineVars, events>>

\* read() returns n bytes.
ReadData(n) ==
    /\ reader = "reading"
    /\ n \in 1..BufferSize /\ n <= Len(sent) - taken
    /\ taken' = taken + n
    /\ buffer' = [i \in 1..n |-> taken + i]
    /\ result' = n /\ quiet' = FALSE /\ reader' = "test"
    /\ UNCHANGED <<session, deviceVars, mutex, sent, lineVars, events>>

\* read() returns 0: the time of VTIME is over without a byte.
ReadNothing ==
    /\ reader = "reading" /\ taken = Len(sent)
    /\ tty.vmin = 0 /\ ~ nonblock[Port]
    /\ result' = 0 /\ quiet' = TRUE /\ reader' = "test"
    /\ UNCHANGED <<session, deviceVars, mutex, streamVars, buffer, lineVars, events>>

\* read() returns -1: there is nothing in a non-blocking descriptor, or an error.
ReadFails ==
    /\ reader = "reading"
    /\ IF nonblock[Port] /\ taken = Len(sent) THEN events' = events ELSE CountEvent
    /\ result' = -1 /\ reader' = "test"
    /\ UNCHANGED <<session, deviceVars, mutex, streamVars, buffer, quiet, lineVars>>

\* The mode is tested without the mutex.
TestMode ==
    /\ reader = "test"
    /\ reader' = IF state[Port] = "kTimeout" THEN "returned" ELSE "switch"
    /\ UNCHANGED <<session, deviceVars, mutex, streamVars, buffer, result, quiet,
                   lineVars, events>>

\* Fault: the mode is not looked at again under the mutex.
GapEndsUnchecked == result = 0

\* Fault: more data ends a burst.
GapEndsOnData == result > 0 /\ state[Port] = "kReading"

\* A gap ends a burst of bytes.
GapEnds == result = 0 /\ state[Port] = "kReading"

\* The first bytes of a burst, where there is a time-out to end it.
BurstBegins == result > 0 /\ state[Port] = "kWaiting" /\ options[Port].vtime # 0

\* The settings follow the mode.
EnterMode(mode, vmin) ==
    /\ state' = [state EXCEPT ![Port] = mode]
    /\ options' = [options EXCEPT ![Port].vmin = vmin]
    /\ tty' = options'[Port]

\* The switch between the modes, with the mutex held.
SwitchMode ==
    /\ reader = "switch" /\ mutex = "free"
    /\ \/ GapEnds /\ EnterMode("kWaiting", 1)
       \/ BurstBegins /\ EnterMode("kReading", 0)
       \/ ~ GapEnds /\ ~ BurstBegins /\ UNCHANGED <<state, options, tty>>
    /\ reader' = "returned"
    /\ UNCHANGED <<session, life, nonblock, owner, mutex, streamVars, buffer, result, quiet,
                   lineVars, events>>

\* What ReadSome returns.
ReadSize == IF result < 0 THEN 0 ELSE result

\* The caller has the result.
EndRead ==
    /\ reader = "returned" /\ reader' = "idle"
    /\ UNCHANGED <<session, deviceVars, mutex, streamVars, buffer, result, quiet,
                   lineVars, events>>

-----------------------------------------------------------------------------
(* SetLine                                                                 *)

\* Fault: the status is read before the mutex is locked.
SetLineReadsUnlocked(c, r) ==
    /\ CountEvent
    /\ life[Port] = "ready" /\ request[c].at = "none"
    /\ request' = [request EXCEPT ![c] =
         [mask |-> r.mask, value |-> r.value, at |-> "locked", status |-> lines]]
    /\ UNCHANGED <<session, deviceVars, mutex, streamVars, readVars, lines, wanted>>

\* The lock and the first ioctl of SetLine.
SetLineReads(c, r) ==
    /\ CountEvent
    /\ life[Port] = "ready" /\ request[c].at = "none"
    /\ mutex = "free" /\ mutex' = c
    /\ request' = [request EXCEPT ![c] =
         [mask |-> r.mask, value |-> r.value, at |-> "locked", status |-> lines]]
    /\ UNCHANGED <<session, deviceVars, streamVars, readVars, lines, wanted>>

\* The first ioctl fails: kError, and nothing is written.
SetLineCannotRead(c) ==
    /\ CountEvent
    /\ life[Port] = "ready" /\ request[c].at = "none" /\ mutex = "free"
    /\ request' = [request EXCEPT ![c].at = "done"]
    /\ UNCHANGED <<session, deviceVars, mutex, streamVars, readVars, lines, wanted>>

\* RTS belongs to the driver when it does the flow control.
Settable == IF "CRTSCTS" \in options[Port].flags THEN {"DTR"} ELSE Lines

\* The lines of the mask take their value, the others stay as they were.
Updated(status, r) ==
    LET mask == r.mask \cap Settable
    IN  (status \ mask) \cup (r.value \cap mask)

\* Fault: the mutex is not unlocked.
SetLineKeepsMutex(c) ==
    /\ request[c].at = "locked"
    /\ lines' = Updated(request[c].status, request[c])
    /\ wanted' = Updated(wanted, request[c])
    /\ request' = [request EXCEPT ![c].at = "done"]
    /\ UNCHANGED <<session, deviceVars, mutex, streamVars, readVars, events>>

\* The second ioctl of SetLine.
SetLineWrites(c) ==
    /\ request[c].at = "locked"
    /\ mutex \in {"free", c} /\ mutex' = "free"
    /\ lines' = Updated(request[c].status, request[c])
    /\ wanted' = Updated(wanted, request[c])
    /\ request' = [request EXCEPT ![c].at = "done"]
    /\ UNCHANGED <<session, deviceVars, streamVars, readVars, events>>

\* The second ioctl fails: kError, and the lines stay as they are.
SetLineCannotWrite(c) ==
    /\ CountEvent
    /\ request[c].at = "locked"
    /\ mutex = c /\ mutex' = "free"
    /\ request' = [request EXCEPT ![c].at = "done"]
    /\ UNCHANGED <<session, deviceVars, streamVars, readVars, lines, wanted>>

-----------------------------------------------------------------------------
(* The other end of the line                                               *)

Arrive(b) ==
    /\ Len(sent) < session.maxBytes
    /\ sent' = Append(sent, b)
    /\ UNCHANGED <<session, deviceVars, mutex, taken, readVars, lineVars, events>>

-----------------------------------------------------------------------------
(* Properties                                                              *)

\* The settings in force are those of the device that is set up, although
\* others open the terminal meanwhile: flock() comes before tcsetattr().
OwnerKeepsTerminal ==
    \A d \in Devices : life[d] \in {"ready", "closing", "closed"} =>
        owner = d /\ tty = options[d]

\* Speed, parity, stop bits and flow control of the line are what the
\* configuration asks for, and without parity so is the number of data bits,
\* whatever settings an earlier program or an earlier device left behind
\* (SetConfig starts from tcgetattr).
LineAsConfigured ==
    \A d \in Devices : life[d] = "ready" => Meets(tty, Config(d))

\* Close is final: a ReadSome that saw the mode before Close does not switch
\* the terminal back to settings in which the next read() blocks.
ClosedStaysShut ==
    life[Port] \in {"closing", "closed"} =>
        state[Port] = "kShutdown" /\ tty.vmin = 0 /\ tty.vtime = 0

\* In gap mode read() returns 0 once for every burst: a reader that takes a 0
\* for the end of a packet sees no second one before the next byte.
GapsAreSeparated ==
    [][ reader = "reading" /\ reader' = "test" /\ result' = 0
        /\ Config(Port).gap_sync /\ state[Port] # "kShutdown" => ~ quiet ]_portVars

\* Two clients that set different modem lines at the same time both have
\* their way, unless a system call fails: SetLine is one read-modify-write under
\* the mutex.
LineRequestsKept ==
    (\A c \in LineClients : request[c].at # "locked") => lines = wanted
=============================================================================
