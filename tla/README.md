# A verification project for basic-services

TLA+ models of the C++ library in `src/` (threads, queues, timers, a state machine, serial devices, the log), TLC
configurations that check them on small instances, and proofs that TLAPS checks for every instance. `PROJECT.json`
lists the runs, the mutants that show each property can fail, the source lines of each definition, the findings, the
hazards and the theorems.

## 1. Inventory

The library is a set of small services of the namespace `basic`; a program links those it needs. They share no
global state except the logger's level and output functions.

| component | state | operations | interacts through |
|---|---|---|---|
| `TimerManager`, `Timer` (`timer.cpp`) | one sorted `std::list` of timer nodes, `m_termination`, per node state, access, expiration, handler | create, `Start`, `Stop`, destroy, replace the handler, remaining time; destroy the manager; the worker's cycle | one mutex, one condition variable, handlers called by the worker with the mutex released |
| `Queue<T>` (`queue.h`) | `m_queue`, `m_capacity` | `Push`, `Pop`, `setCapacity`, queries | one mutex, two condition variables |
| `CountDownLatch` (`count-down-latch.cpp`) | atomic `m_count` | `countDown`, `wait`, `getCount` | a mutex that only `wait` takes, a condition variable |
| `ThreadPool` (`thread-pool.cpp`) and `Thread` (`thread.cpp`) | `m_tasks`, `m_isRunning`, `m_threads` | `Start`, `Stop`, `Run`; workers: `take`, `runInThread`; `Thread::Start`, `Join` | one mutex, two condition variables, tasks that may call `Run` |
| `CircleBuffer` (`circle-buffer.h`) | `m_front`, ring, two indices, `m_free` | `post`, `get`, `empty` | none: one thread |
| `Fsm`, `Event` (`fsm.cpp`), `ActiveObject` | `m_state`, `m_temp` | `init`, `dispatch` | state handlers called back, which may call `tran` or `dispatch` |
| `SerialDevice` on unix (`serial-device-unix.cpp`) | `state_`, `options_`, the descriptor | constructor with `flock` and `Init`, `ReadSome`, `WriteSome`, `Close`, `GetLine`, `SetLine` | the terminal and its driver; a mutex around changes of the mode and of the modem lines |
| `SerialDevice` on windows (`serial-device-wins.cpp`) | handle, DCB | constructor, `SetConfig`, `Close`; the rest has empty bodies | the same interface |
| `SerialBufferDevice` | chunk, index and length | `ReadSome`, `Remove`, `Close` | `SerialDevice`; one client |
| `SerialPacketDevice` | packet buffer, delimiters, discard flag, a thread | `Packetizer`, `WriteSome`, the destructor | `SerialBufferDevice`, the receive handler, an unsynchronised flag |
| `LogStream`, `FixedBuffer` (`log-stream.*`) | a fixed array and a position | `<<` of every type, `append` | none |
| `Logger` (`logging.cpp`) | level, output functions, a cached time per thread | constructor, `finish`, destructor | the environment, standard output |
| `ThreadSafeStack`, `Timestamp`, `Version`, allocator, `Date`, `JobScheduler` | value types and stubs | | |

What is hard in this code: the timer worker, which gives the mutex away in the middle of its loop and keeps an
iterator and two earlier decisions across it; every condition variable (who is woken, who is not, and what was
checked before the sleep); the latch, which changes its count without the mutex; shutting down (timers, pool, packet
thread) while work is under way; the mode of a terminal, which a reader changes after a read that a `Close` may have
overtaken; the framing of packets, which must not depend on how reads cut the stream; handlers that call back into
their machine; wrap-around and capacity limits. Nothing is persisted and there is no network, hence no crash recovery
and no lost messages. `PROJECT.json` has the whole list of hazards, line by line.

What makes each component correct, in a sentence:

- *Timer service*: each start is answered by at most one call, not early, by a worker that sleeps no longer than the
  first expiration; the node being serviced survives anything clients do; nothing runs after a stop or a
  destruction; the manager ends after its last timer, and does end.
- *Queue*: first in first out, exactly once, within the capacity, and nobody sleeps while there is something to do.
- *Latch*: a wait returns if and only if the count was brought down to zero, or its time is over.
- *Pool*: each task is executed at most once, by one worker, within the capacity, and never after `Stop`; `Stop` returns.
- *Circle buffer*: a bounded first-in first-out buffer of size + 1 places.
- *State machine*: one current state, exit and entry actions in pairs, an event only to a state that is entered.
- *Serial device*: the line works as the configuration says, one device has the terminal, `Close` releases a reader and
  stays in force, modem lines follow every client's request.
- *Buffer and packet device*: every byte once and in order; the packets are what lies between the delimiters of the
  stream, however it is cut; the destructor returns.
- *Log*: a line never leaves its buffer, its numbers are whole, and only the end of the buffer cuts a text.

## 2. The modules

| module | models | its state and actions in the code |
|---|---|---|
| `TimerManager` | `timer.cpp` | `timers` is `m_timerList` (a sequence of names), `node[t]` the `Timer::Impl` of `t`, `wpc` the worker's place in `workThread`/`updateTimers`. A client action is one critical section (`CreateTimer`, `UpdateTimer` for `Start` and `Stop`, `DestroyTimer`, `DestroyManager`) except `AssignCallback`, which takes no lock in the code and may fall anywhere. The worker's cycle is cut where the code reads the clock or releases the mutex: `WorkerEnter`, `ExpireActive`, `ServiceCall`/`ServiceSkip`/`ServiceDone`, `BeginCallback`/`AbortOnEmptyHandler`, `FinishCallback`, `Measure`, `TimedOut` |
| `TimerService` | the promise of `timer.h` | timers that are absent, stopped or running, a handler being called, an open, closing or closed service |
| `TimerStop` | `TimerManager` with a history variable | `stopped`: timers whose last request, a stop or a destruction, has returned |
| `Queue` | `queue.h` | a call is "ready" when it is about to evaluate the loop's condition with the mutex held and "asleep" in the wait; values are numbered as they enter; `raised` is a history variable: the capacity was raised while a producer slept |
| `CountDownLatch` | `count-down-latch.cpp` | the three accesses of `countDown` and the check and the sleep of `wait` are separate steps |
| `ThreadPool` | `thread-pool.cpp`, `thread.cpp` | a thread that calls `Run` (`submit`, `holds`), a worker's place in `runInThread` and `take` (`worker`, `job`), the owner in `Start` and `Stop` (`control`) |
| `CircleBuffer`, `BoundedBuffer` | `circle-buffer.h` and its promise | a call is a step; indices and counters modulo the width of `SIZE_TYPE` |
| `Fsm` | `fsm.cpp` | `frames` is the stack of the calls of `init` and `dispatch` under way, each with the handler it is in and whether that handler has called `tran`. A step goes from one call of a handler to the next. The asserts are compiled in; `failed` says which of them stopped the program |
| `EventLoop` | `CircleBuffer` and `Fsm` together | a loop takes an event from the buffer and dispatches it; the handlers post further events or dispatch to their own machine. The repository has the two parts and an event queue in its examples, but no such loop |
| `LineSettings` | `Baudrate`, `SetConfig`, `Init` of both ports | pure operators: a configuration and the settings found on the terminal give new settings (a `termios` or a DCB); `UnixFrame` and `WinsFrame` say what a line with these settings does, apart from the size of a character |
| `SerialPort` | `serial-device-unix.cpp` | `life` is a device's place from its constructor to the end of its destructor, `state`, `options`, `nonblock` its members, `owner` the `flock`, `tty` and `lines` the terminal, `reader` the place in `ReadSome`. `ReadSome` is cut at its unlocked read of `state_`, at `read()`, at the second unlocked test and at the mutex; `SetLine` at its two system calls, each of which may fail; `Close` behind `tcsetattr`, with the mutex held |
| `PacketDevice` | `serial-buffer-device-impl.h`, `serial-packet-device-impl.h`, `serial-packet-device.cpp` | on top of `SerialPort`: `Port` is a buffer device with a client, or a packet device with the thread of `Packetizer`, a step of which takes one byte of a chunk. A byte is its position in `sent` |
| `LogStream` | `log-stream.*`, `logging.cpp` | pure operators: a stream remembers how many characters it stored of each insertion |
| `MCTimerManager`, `MCThreadPool`, `MCEventLoop`, `MCPacketDevice` | instances | symmetry, the tasks of the pool's instance, the bounded inputs of the log, the sessions of the serial run |
| the eight `...Proofs` | proofs | section 4 |

`PacketDevice` extends `SerialPort`, which extends `LineSettings`; `EventLoop` extends `CircleBuffer` and `Fsm`.
`TimerManager` is shown to implement `TimerService`, and `CircleBuffer`, inside the event loop, to implement
`BoundedBuffer`, by `INSTANCE ... WITH` and the abstract specification as a property. The mapping of the timers makes
a timer absent as soon as its object is destroyed (also when its node is still in the list) and running until it is
taken up.

A definition whose comment begins with "Fault:" is no part of a model: it is a plausible slip in the definition after
it, and `PROJECT.json` says which property each of them breaks.

Abstractions. A timer's handler is called or empty; what it does is any sequence of client actions while `wpc =
"callback"`. Names of timers are used again after their node is freed. The clock counts ticks, two to a millisecond, so
that the cut to whole milliseconds shows. `notify_one` picks any sleeper, a notification that finds none is lost, and
every wait may end for no reason. `Timer`'s assignment of a handler tests and assigns in one step (`timer.cpp:119-121`
takes no lock; only a second client of the same timer could come in between), and the sleep of the timer's worker is
measured with the clock reading of `timer.cpp:397`, not with the later one inside `wait_for`. A pool without threads
executes only tasks that submit no other, a pool is not stopped before it was started, and `SetLine` is not called on a
device that was closed. Mutexes are fair only where a specification says so. The terminal driver is external: bytes
arrive, `read()` returns some of them, or 0 after VTIME without any, or fails; a `read()` under way follows the settings
of the moment, which is what the device's own comment on `Close` relies on. A log insertion is the number of characters
it takes.

## 3. What the runs check

Passing runs.

- `timer_safety`: three timers, durations 1 and 2, with and without handlers, the clock up to 4 ticks, which gives
  restarts, two timers due in one scan and a third one behind them; symmetric in the timers. The list keeps the three
  sections that `operator<` names although `operator<` is no strict weak ordering (`ListOrdered`); the serviced node
  stays (`ServicedTimerKept`); no expired node is forgotten (`ExpiredTimerPending`); nothing expires more than a
  millisecond early (`NeverEarly`); the manager outlives its timers (`NoTimerOutlivesManager`); and the service is
  implemented (`ImplementsService`), which includes that nobody without a handler or stopped before being taken up is
  called. Two timers would not show a node merged between two others, a fourth shows nothing a third does not:
  comparisons are between pairs of nodes.
- `timer_live`: two timers, handlers that may be empty or emptied. Under the assumption that the clock does not advance
  between the scan and the measurement of the sleep (`TickDuringScan = FALSE`) the worker never sleeps past an active
  timer, every started timer is served, and the destructor ends once the worker saw the flag.
- `queue`: three producers and three consumers, capacity 3, which is set to 1, 2 or no limit at any moment and any number
  of times, six values: more sleepers than places on both sides, so that a notification can reach the wrong thread. No
  wake-up is lost on either side (`NoStrandedConsumer`, `NoStrandedProducer`) and waiting threads get on
  (`WaitingConsumersPop`, `WaitingProducersPush`). The producers' half excepts the room that a raise makes while a
  producer sleeps: `setCapacity` notifies nobody.
- `latch`: two counters, two untimed waiters and a timed one, count 2 and three calls, so that the count can pass zero.
- `pool`: two workers, two callers, five tasks of which two submit another one, one place: both workers may wait for room
  at the same time with the deque full. `AcceptedTasksRun` and `StopReturnsOrTaskBlocked` say exactly when the pool
  stalls: only while tasks wait for ever for room in their own pool.
- `event_loop`: a ring of three places in a 3-bit type, two events, two states, dispatches nested two deep. The buffer is
  a bounded first-in first-out buffer around its wrap (`ImplementsBuffer`); exit actions are those of the state entered
  last (`ExitsMatchEntries`) and events reach only a state that is entered (`EventsReachEnteredState`), nested dispatches
  included, except where a handler takes a transition inside an entry action or dispatches inside the entry or exit
  action of a transition to the same state (`strayed`); a program whose handlers only post never fails the assert of
  `dispatch` (`PostingNeverAsserts`). Before this run TLC evaluates the assumptions of `MCEventLoop` on the log: lines
  of up to four insertions in buffers of five sizes (`LinesAreSound`), which levels each environment writes
  (`LevelsAsCoded`), and that a fatal line is flushed (`FatalIsFlushed`).
- `serial`: eleven sessions on one terminal, each a class of device, its configurations, the settings and unread bytes
  an earlier program left, and bounds on bytes and other events. Chunks of at most 2 bytes, delimiters CR LF and CR (one
  the beginning of the other, so that a gap or one more byte has to decide), packets of at most one byte (so that a
  packet fits, is one byte too long, or more than that, within streams of at most six bytes), two clients of `SetLine`
  whose system calls may fail, two devices that want the terminal. `LineAsConfigured` compares speed, parity, stop bits
  and flow control with the configuration, and the number of data bits where there is no parity (with parity the code
  does not do what is documented, section 5). Settings and locks: `OwnerKeepsTerminal`, `LineAsConfigured`,
  `ClosedStaysShut`, `LineRequestsKept`. The stream: `RemovedInOrder`, `CapacitySuffices` (except while a packet is
  discarded, when the packetizer does run past the end of `m_packet`: no line of the repository promises a bound there,
  and it is the mistake that `packet_lost` shows), and `FramingFollowsStream`, which compares the packets delivered with
  a definition over the stream that does not know chunks; `PacketsAreWhole` goes on where that one stops, behind a
  packet that is too long. Gap mode: one 0 for each burst (`GapsAreSeparated`). Liveness: `Close` frees a blocked reader
  and the destructor returns (`ClosingEnds`), arrived bytes are processed (`BytesAreTaken`).

Runs that end in a violation: what the code does and its documentation denies.

- `timer_lost_timeout`: a duration of 0 stands for "empty list" and for "due within a millisecond", and the worker
  waits without a time-out while a timer is active (`timer.cpp:400`, comment at 330).
- `timer_destructor`: `~TimerManager` during a handler; the worker does not look at `m_termination` before it waits, and
  the join never returns (`timer.cpp:332`, comment at 460).
- `timer_stop`: a handler called after `Stop`, or after the destruction of its timer (`timer.cpp:382`, `timer.h:80`).
- `latch_lost_wakeup`: the notification falls between the check and the sleep (`count-down-latch.cpp:26`,
  `count-down-latch.h:34`). With two counters there is a second way: both decrement before either looks, the count goes
  from 1 to -1, and nobody notifies.
- `packet_lost`: behind a packet that is more than a byte too long the packetizer compares the delimiters with the first
  bytes after the overflow and no longer with the last ones, so that a later delimiter is not recognised and the packets behind it
  are lost (`serial-packet-device.cpp:71`, `serial-device.h:184`).

Bounds. `MaxTime` (the clock and every expiration), `MaxCalls` (calls of `Push` and of `countDown`), the set of tasks,
`MaxDepth` (nested dispatches), a session's `maxBytes` and `maxEvents` (calls of `SetLine` and failing system calls).
Each is a guard, named where it stands. Deadlock is checked in the runs of the timers, the queue, the latch and the
pool; a `Finished` step marks the states in which these may really stop, and in `Queue` threads may call `Pop` for ever.
It is not checked in `event_loop` (a failed assert ends the program) and in `serial` and `packet_lost` (a
closed device and a silent line).

Fairness. A thread that can go on does: weak fairness of the timer's worker, of each thread inside `Push`, `Pop`, `Run`
and `countDown`, of the pool's owner and workers, of the thread that reads from a serial port, of a `Close`, a
destructor and a `SetLine` that began. That is the operating system's scheduler. The clock and the latch's waiters get
strong fairness, because other threads disable them for a moment again and again: time passes whatever threads do, and
a mutex is granted in the end. Handlers and tasks return. No fairness is given to clients that may call or not, to
`TimerManager`'s or the packet device's destruction, to bytes that may arrive, or to spurious wake-ups: whatever rests
on them is not promised by the code.

## 4. What is proved

All for every set of threads, timers, devices and every bound. TLC checked each inductive invariant before its proof.
The only assumptions are those the modules state on their constants (`...Assumption`), which TLC evaluates in the runs,
and what three theorems name as a hypothesis: `TickDuringScan = FALSE`, and what the two about whole packets ask of the
delimiters (`BeginningsListed`, `NoOverlap`).

- `TimerManagerProofs`: `IInv` is inductive. It is `TypeOK` (with the list free of repetitions), `ServicedTimerKept`,
  `ExpiredTimerPending` and `DestructionInOrder`; the last one is the strengthening: a freed node is clean, and the
  flag, the worker's last points and the destructor go together. Without it nothing says that the node a client creates
  is idle and unlocked, or that the worker finishes with an empty list. From it follow `TypeCorrect`,
  `ServicedTimerStaysListed`, `ExpiredTimersAreServiced` and `ManagerOutlivesTimers`. One lemma per action, over
  lemmas on the list: what taking a node out, merging it in and moving a prefix to the end do to its length, its order
  and the set of its nodes.
- `TimerServiceProofs`, on top of `IInv`, says what the timers are for. `ListStaysOrdered`: the three sections of the list
  survive every merge. `Precedes` (`operator<`) is no strict weak ordering, so the proof cannot appeal to one: it uses
  that a node which is merged is not expired and stops in front of the first entry it precedes. `NobodyExpiresEarly`
  needs `StampsArePast`: the worker's reading of the clock is never ahead of it. `NoTimerIsSleptOver` needs
  `DecisionIsFresh`: what the worker decided before the measurement it decided of the list as it is (it served nobody in
  this pass, or it looks again), which holds when the clock does not advance inside the scan. The run
  `timer_lost_timeout` shows that this assumption cannot go. `ManagerImplementsService` maps every action to a step of
  `TimerService` or to none; its temporal part has no fairness on either side.
- `QueueProofs`: `TypeCorrect`, `ItemsInOrder`, `NeverFilledBeyond` (no value enters a full queue), `ConsumersAreWoken`
  and `ProducersAreWoken`, for any number of lowerings and raises (the second one excepts what the run `queue` excepts,
  by the history variable `raised`). The heart of the last two is a lemma on `NotifyOne`: it moves one sleeper to the
  ready ones, so the count of ready threads grows with the number of values or places. Assumption: the sets of threads
  are finite.
- `LatchProofs`: `CallsAreCounted` (each call that saw a count other than zero decrements it once: the count and the
  calls under way add up), from which `TypeCorrect` and `WaitsForTheCount` follow.
- `ThreadPoolProofs`: `PoolInv` says that a worker runs if and only if it has a job, is inside `Run` if and only if it
  holds a task, sleeps in `take` only while the pool is running, and that a stopped pool has joined its workers. With it
  `NoStrandedWorker`, `NoStrandedSubmitter`, `EachTaskOnce` and `TypeOK` (which includes the capacity) are each
  preserved, over three lemmas that count: what a move from one place to another, an append and a take do to the number
  of threads or tasks. Theorems `PoolCorrect`, `WorkersAreWoken`, `SubmittersAreWoken`, `TasksAreAtOnePlace`,
  `StopIsFinal`, `TypeCorrect`. Assumption: finitely many workers and callers.
- `EventLoopProofs`, for any depth of nested calls. The invariant is about the whole stack, not its top: `StackInv` says
  that only a call inside a handler has others above it, and which of `m_state` and `m_temp` was entered last in each
  phase of the one on top; `FsmInv` adds what a call that took a transition knows of `m_temp`. They give
  `ExitsPairWithEntries` and `EventsMeetTheirState`. `PostInv` (one call at a time, and `m_temp` is the state between
  calls) gives `PostingIsSafe`. The buffer: `RingInv` ties `m_free` to the distance of the two indices, and the values a
  client may see are read off by going down from the tail; `CircleIsBuffer` and `LoopUsesBuffer` are the refinement of
  `BoundedBuffer`, for every size and width, with or without the loop around it. `LoopTypeCorrect` collects the types.
- `PacketDeviceProofs`: first the settings, `LineFollowsConfiguration`, for whatever settings the terminal had before
  (which is why `Init` has to clear and not only to set), and `WindowsFollowsExceptRts`: the DCB has the speed, parity,
  stop bits and flow control asked for, except that RTS is raised and never drops. Without parity the data bits are
  those asked for as well; with any parity a character on unix has one more. Then nine invariants, each on top of the
  ones before. `ThreadInv` relates the thread's place to the reader's and the device's life (`ThreadIsJoined`: no thread
  outlives its device). `TerminalInv` says that a device past its lock owns the terminal and knows the settings in
  force, and what Close leaves of them; from it follow `TerminalIsKept`, `LineIsAsConfigured` and `CloseIsFinal`.
  `LinesInv` says that the status a client of `SetLine` read is still in force when it writes (`RequestsAreKept`).
  `ReadInv` says where every byte between `removed` and `taken` is (`BytesAreInOrder`). `PacketInv` says how long the
  parts of the packet buffer are in each state (`CapacityIsEnough`): `FindDelimiter` ends undecided only on fewer bytes
  than the longest delimiter has. `GapInv` says which VMIN goes with which mode, and that a read() which returned 0
  inside a burst has its switch back still before it, so that no second one is possible (`GapsAreReportedOnce`).
  `RestInv` has the types that are left (`TypeCorrect`). `FrameInv` relates the packet buffer to the stream: what it
  holds is the last of what was processed and begins where a packet of the stream does; no first byte of a delimiter
  lies below `packet_len`, and what lies behind is the beginning of a delimiter, with no gap inside. It gives
  `DeliveredAreWhole` (`PacketsAreWhole`), under one hypothesis, `BeginningsListed`: every beginning of a delimiter is
  itself a delimiter that is listed behind it, as in CR LF, CR or in a single byte. The hypothesis cannot go: with CR LF
  alone the bytes CR, CR, LF hide the delimiter, because the search goes on behind both bytes it compared (line 70), and
  TLC then finds `PacketsAreWhole` violated. `MCPacketDevice` states it as an assumption, so that TLC evaluates it on
  the instances. `FollowInv` turns `FrameInv` into an equation, and `NoPacketIsMissed` (`FramingFollowsStream`) follows.
  A position is decided when each delimiter that begins in front of it is closed, that is, no later byte can make a
  longer one of it. The invariant says that the stream is decided up to where the packetizer waits, and that what was
  delivered are exactly the packets up to there that are not too long, in the order in which they lie. Every step leaves
  that position, moves it over a byte that begins no delimiter, or moves it behind a delimiter that is closed, in front
  of which lies one packet: the one that is delivered, or one that is discarded and one byte too long. The exception is
  a packet too long by two bytes: behind it the comparison goes on at a byte that begins no delimiter, and none is found
  again. For that, `FollowInv` says where what is discarded began, and `Framed` leaves these streams out. Besides
  `BeginningsListed` the theorem supposes `NoOverlap`, that no delimiter begins inside another one or itself, which
  `MCPacketDevice` assumes as well. With CR CR, CR it fails: `Cuts` counts the second CR for a delimiter of its own, the
  packetizer does not.
- `LogStreamProofs`: `BufferIsNotOverrun`, `NumbersStayWhole`, `CutsAreAtTheEnd` for any buffer size and insertion, and
  `TimeIsOfTheMessage` for the cached time of day.

Every invariant, action property and refinement of the passing runs is stated by a theorem. Only model-checked are the
ten properties that something happens at last (`StartedTimerServed`, `DrainCompletes`, `WaitingConsumersPop`,
`WaitingProducersPush`, `LateWaitReturns`, `TimedWaitReturns`, `AcceptedTasksRun`, `StopReturnsOrTaskBlocked`,
`ClosingEnds`, `BytesAreTaken`): liveness under fairness is out of the prover's reach. So are statements by induction over
data, as that a whole line of the log is sound (`LinesAreSound`), of which the theorems are the single step.

## 5. Not modelled, and known behaviour outside the properties

*Not modelled.* `JobScheduler` and `Date` have no bodies. `ThreadSafeStack` holds its mutex for whole operations (its
`Pop(T&)` has no `return true`, and its header does not compile by itself). `Timestamp` (whose `toString` prints
milliseconds with six digits), `Version`, `types` and the allocator are formatting and wrappers. `WriteSome` and
`GetLine` of the serial device are a system call each around which the device keeps no state; whether `Close` wakes a
write that waits on a stopped line is the driver's affair. `SerialPacketDevice::WriteSome` writes packet and delimiter in
two calls with no lock, so that packets of two writers may mix. `Queue::Clear` and the move constructor cannot be
instantiated. Calls that the code asserts against (starting a pool or a `Thread` twice) are not made by any model, and
neither are moves of a `Thread` nor its detaching destructor.

*Undefined behaviour noted only as hazards or here.* Overwriting a `std::function` while it runs; the logger's level and
output functions set without synchronisation; the packetizer's plain flag (taken as seen at the next test); `m_threads`
read by `Run` while `Start` appends to it.

*Known behaviour.* `setCapacity` to a larger value wakes nobody, and a sleeping producer stays asleep until the next
`Pop`. `ThreadPool::Stop` does not wake threads that wait for room. A `CircleBuffer` is given no null pointer and a size
smaller than the largest of its type: `post(nullptr)` on an empty buffer loses a place, and the largest size wraps
`m_free` to 0; `empty()` is always true. With NDEBUG `Fsm::init` takes no initial transition. With even or odd parity
both serial ports set a character to one bit more than `data_bits`, "number of data bits" (`serial-device.h:50`), and
the parity generator appends its bit to that (`serial-device-unix.cpp:179`, `serial-device-wins.cpp:99`): 7 data bits
with even parity go out as 8 data bits and a parity bit. On unix a space parity is the top bit of such a longer
character, which whoever writes has to leave 0; a time-out wraps in the 8 bits of VTIME; `ICRNL` and the XON and XOFF
characters stay as they were found. The windows `SetConfig` reports no error and takes an unknown speed for 115200;
`Init` sets `XonChar` to 0x13 and `XoffChar` to 0x19 (lines 182-183), where 0x13 is the usual XOFF on unix, so that the
two ports do not agree on a line with software flow control; with hardware flow control it raises RTS for good
(`RTS_CONTROL_ENABLE`, line 135). The packetizer's framing is proved for delimiters that do not overlap (`NoOverlap`)
and whose beginnings are listed (`BeginningsListed`); with others it does not find every delimiter of the stream
(`serial-packet-device.cpp:68-80`). A failing read counts as a gap. The logger's macros compare levels the wrong way
round, so that asking for more detail silences the less detailed levels; a line that is too long loses its end, the
newline included; the time-of-day cache takes a first message in second 0 for a hit.

## 6. Plan

Done: the timer service, queue, latch, pool, circle buffer, state machine and their composition, the settings and the
mode machine of the serial device, the buffer and packet devices on top of it, the log line; every safety property of the
passing runs proved, and both refinements.

Left, in this order:

1. `GetLine` and the writes, together with a model of the driver's output side (a stopped line, a full buffer).
