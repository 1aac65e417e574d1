------------------------- MODULE PacketDeviceProofs -------------------------
(***************************************************************************)
(* Theorems about SerialPort and PacketDevice, for any number of devices   *)
(* and of clients that set modem lines, any Sessions, delimiters and sizes.*)
(* Each part has an invariant of its own:                                  *)
(*                                                                         *)
(*   ThreadInv    where the reading thread is while its device is there;   *)
(*   TerminalInv  what a device was opened with is in the terminal;        *)
(*   LinesInv     the modem lines, and who is between TIOCMGET and TIOCMSET;*)
(*   ReadInv      the chunk in the buffer is the last of what was read;    *)
(*   PacketInv    the packet fits its array, unless it is discarded;       *)
(*   GapInv       the settings of the mode, and the 0 that ends a burst;   *)
(*   RestInv      the types that are left;                                 *)
(*   FrameInv     what is stored begins where a packet of the stream does; *)
(*   FollowInv    what is delivered are the packets of the stream so far.  *)
(*                                                                         *)
(* The later ones rest on ThreadInv, and from PacketInv on ReadInv, too.   *)
(* FrameInv supposes BeginningsListed of the delimiters: then the search   *)
(* waits exactly for the beginnings of delimiters, and a byte that ends    *)
(* the waiting is at most one byte behind a whole one.  FollowInv supposes *)
(* NoOverlap, too: then each byte that begins a delimiter is one's first.  *)
(***************************************************************************)
EXTENDS PacketDevice, FiniteSetTheorems, WellFoundedInduction, TLAPS

-----------------------------------------------------------------------------
(* The settings on the wire, whatever the terminal had before              *)

\* The flags that Init leaves in options_.
InitFlags(flags, config) ==
    (WithFlowControl(WithStopBits(WithParityChecks(WithParity(flags, config.parity)),
                                  config.stop_bits), config.flow_control)
        \ {"ICANON", "ECHO", "ECHOE", "ISIG", "OPOST"}) \cup {"CREAD", "CLOCAL"}

\* The fields of options_ after Init, one by one.
LEMMA InitFields ==
    ASSUME NEW found \in Termios, NEW config \in Configuration
    PROVE  /\ InitOptions(found, config).flags = InitFlags(found.flags, config)
           /\ InitOptions(found, config).speed = Baudrate(config.baudrate)
           /\ InitOptions(found, config).size = CharacterBits(config)
BY DEF Termios, Configuration, InitOptions, SetRaw, SetConfig, InitFlags

\* PARENB and PARODD follow the parity alone: an odd bit of an earlier setting
\* has no effect.
LEMMA ParityFlags ==
    ASSUME NEW flags \in SUBSET Flags, NEW config \in Configuration
    PROVE  /\ "PARENB" \in InitFlags(flags, config) <=> config.parity \in {"Even", "Odd"}
           /\ config.parity = "Odd" => "PARODD" \in InitFlags(flags, config)
           /\ config.parity = "Even" => "PARODD" \notin InitFlags(flags, config)
<1> DEFINE f1 == WithParity(flags, config.parity)
           f2 == WithParityChecks(f1)
           f3 == WithStopBits(f2, config.stop_bits)
           f4 == WithFlowControl(f3, config.flow_control)
<1>1. /\ "PARENB" \in f1 <=> config.parity \in {"Even", "Odd"}
      /\ config.parity = "Odd" => "PARODD" \in f1
      /\ config.parity = "Even" => "PARODD" \notin f1
  BY DEF WithParity, Configuration, Parities
<1>2. \A bit \in {"PARENB", "PARODD"} : bit \in f2 <=> bit \in f1
  BY DEF WithParityChecks, ParityChecks, ParityMarks
<1>3. \A bit \in {"PARENB", "PARODD"} : bit \in f3 <=> bit \in f2
  BY DEF WithStopBits
<1>4. \A bit \in {"PARENB", "PARODD"} : bit \in f4 <=> bit \in f3
  BY DEF WithFlowControl, SoftwareFlow
<1>5. \A bit \in {"PARENB", "PARODD"} : bit \in InitFlags(flags, config) <=> bit \in f4
  BY DEF InitFlags
<1> QED BY <1>1, <1>2, <1>3, <1>4, <1>5

\* So do the stop bits.
LEMMA StopFlags ==
    ASSUME NEW flags \in SUBSET Flags, NEW config \in Configuration
    PROVE  "CSTOPB" \in InitFlags(flags, config) <=> config.stop_bits # 1
<1> DEFINE f2 == WithParityChecks(WithParity(flags, config.parity))
           f3 == WithStopBits(f2, config.stop_bits)
           f4 == WithFlowControl(f3, config.flow_control)
<1>1. "CSTOPB" \in f3 <=> config.stop_bits # 1
  BY DEF WithStopBits
<1>2. "CSTOPB" \in f4 <=> "CSTOPB" \in f3
  BY DEF WithFlowControl, SoftwareFlow
<1> QED BY <1>1, <1>2 DEF InitFlags

\* And the flow control.
LEMMA FlowFlags ==
    ASSUME NEW flags \in SUBSET Flags, NEW config \in Configuration
    PROVE  /\ "CRTSCTS" \in InitFlags(flags, config) <=> config.flow_control = "RtsCts"
           /\ "IXON" \in InitFlags(flags, config) <=> config.flow_control = "XonXoff"
           /\ "IXOFF" \in InitFlags(flags, config) <=> config.flow_control = "XonXoff"
BY DEF InitFlags, WithFlowControl, SoftwareFlow, Configuration, FlowControls

\* Whatever settings the terminal had, a device that Init accepts has the speed,
\* parity, stop bits and flow control its configuration asks for and, without
\* parity, the number of data bits.  With any parity a character has one bit more
\* than the "number of data bits" (serial-device.h:50), and PARENB appends another.
THEOREM LineFollowsConfiguration ==
    ASSUME NEW found \in Termios, NEW config \in Configuration, Accepted(config)
    PROVE  /\ Meets(InitOptions(found, config), config)
           /\ config.parity # "None" =>
                InitOptions(found, config).size = config.data_bits + 1
<1> DEFINE set == InitOptions(found, config)
           frame == UnixFrame(set)
           asked == UnixAsked(config)
<1>1. found.flags \in SUBSET Flags
  BY DEF Termios
<1>2. /\ set.flags = InitFlags(found.flags, config)
      /\ set.speed = config.baudrate
      /\ set.size = CharacterBits(config)
  BY InitFields DEF Accepted, Baudrate
<1>3. frame.parity = asked.parity
  BY <1>1, <1>2, ParityFlags DEF UnixFrame, Asked, UnixAsked, Configuration, Parities
<1>4. frame.stop = asked.stop
  BY <1>1, <1>2, StopFlags DEF UnixFrame, Asked, UnixAsked, Accepted, Plausible
<1>5. frame.output = asked.output /\ frame.input = asked.input
  BY <1>1, <1>2, FlowFlags
     DEF UnixFrame, Asked, UnixAsked, Configuration, FlowControls
<1>6. frame.speed = asked.speed
  BY <1>2 DEF UnixFrame, Asked, UnixAsked
<1>7. frame = asked
  BY <1>3, <1>4, <1>5, <1>6 DEF UnixFrame, Asked, UnixAsked
<1>8. set.size = config.data_bits + IF config.parity = "None" THEN 0 ELSE 1
  BY <1>2 DEF CharacterBits, Configuration
<1> QED BY <1>7, <1>8 DEF Meets, Configuration

\* A plausible configuration with a speed that windows knows gives its DCB that
\* speed, the parity (a space bit, too), the stop bits and what stops the output,
\* and without parity the number of data bits.  Of what stops the other end RTS
\* is missing: it is raised and stays up.
THEOREM WindowsFollowsExceptRts ==
    ASSUME NEW config \in Configuration, Plausible(config), config.baudrate \in WinsRates
    PROVE  /\ WinsFrame(WinsInit(config)) = [Asked(config) EXCEPT !.input = @ \ {"Rts"}]
           /\ config.parity = "None" => WinsInit(config).ByteSize = config.data_bits
<1> DEFINE dcb == WinsInit(config)
           frame == WinsFrame(dcb)
           asked == [Asked(config) EXCEPT !.input = @ \ {"Rts"}]
<1>1. /\ dcb.BaudRate = config.baudrate
      /\ dcb.ByteSize = CharacterBits(config)
      /\ dcb.Parity = WinsParity(config.parity)
      /\ dcb.StopBits = WinsStopBits(config.stop_bits)
      /\ dcb.fRtsControl = WinsRtsControl(config.flow_control)
  BY DEF WinsInit, WinsSetConfig, WinsBaudrate
<1>2. \A flag \in {"fOutxCtsFlow", "fOutX", "fInX"} :
        flag \in dcb.flags <=> flag \in WinsFlow(config.flow_control)
  BY DEF WinsInit, WinsSetConfig
<1>3. frame.parity = asked.parity
  BY <1>1 DEF WinsFrame, Asked, WinsParity, Configuration, Parities
<1>4. frame.stop = asked.stop
  BY <1>1 DEF WinsFrame, Asked, WinsStopBits, Plausible
<1>5. frame.output = asked.output
  BY <1>2 DEF WinsFrame, Asked, WinsFlow, Configuration, FlowControls
<1>6. frame.input = asked.input
  BY <1>1, <1>2 DEF WinsFrame, Asked, WinsFlow, WinsRtsControl, Configuration, FlowControls
<1>7. frame.speed = asked.speed
  BY <1>1 DEF WinsFrame, Asked
<1>8. frame = asked
  BY <1>3, <1>4, <1>5, <1>6, <1>7 DEF WinsFrame, Asked
<1>9. config.parity = "None" => dcb.ByteSize = config.data_bits
  BY <1>1 DEF CharacterBits
<1> QED BY <1>8, <1>9

-----------------------------------------------------------------------------
(* What a step is to the devices                                            *)

Opening == {"locked", "ready", "closing", "closed"}
SetUp == {"ready", "closing", "closed"}

\* Every step of the thread that reads, of the owner and of the other end,
\* except the switch between the modes, leaves the devices alone.
LEMMA DeviceSteps ==
    ASSUME [Next]_vars
    PROVE  /\ session' = session
           /\ \/ reader = "switch" /\ reader' = "returned" /\ SwitchMode
              \/ \E d \in Devices :
                   \/ Constructing(d) \/ CloseSettings(d) \/ CloseNonblock(d)
                   \/ Release(d) /\ (d = Port => thread = "ended")
              \/ UNCHANGED deviceVars
<1>1. ASSUME ThreadStep \/ End
      PROVE  /\ session' = session
             /\ SwitchMode \/ UNCHANGED deviceVars
  <2>1. CASE Start \/ Call \/ End \/ Client
    BY <2>1 DEF Start, Call, End, Client, Chunk, ChunkAgain, Acknowledge, FillBuffer, EndRead,
                BeginRead, portVars, deviceVars
  <2>2. CASE Packetizer
    BY <2>2 DEF Packetizer, Gap, BeginChunk, Overrun, PacketByte, DelimiterByte, DelimiterEnds,
                ChunkDone, FillBuffer, EndRead, portVars, deviceVars
  <2>3. CASE Reading
    BY <2>3 DEF Reading, ReadData, ReadNothing, ReadFails, TestMode, SwitchMode
  <2> QED BY <1>1, <2>1, <2>2, <2>3 DEF ThreadStep
<1>2. CASE BeginDestruction
  BY <1>2 DEF BeginDestruction, portVars
<1>3. ASSUME NEW d \in Devices, CloseDevice(d) \/ Destroy(d)
      PROVE  /\ session' = session
             /\ CloseSettings(d) \/ CloseNonblock(d) \/ (Release(d) /\ (d = Port => thread = "ended"))
  BY <1>3 DEF CloseDevice, Destroy, CloseSettings, CloseNonblock, Release
<1>4. ASSUME NEW d \in Devices, Constructing(d) PROVE session' = session
  BY <1>4 DEF Constructing, Open, LockTerminal, InitTerminal, InitFails
<1>5. ASSUME NEW c \in LineClients, SettingLines(c)
      PROVE  session' = session /\ UNCHANGED deviceVars
  BY <1>5 DEF SettingLines, SetLineReads, SetLineWrites, SetLineCannotRead, SetLineCannotWrite
<1>6. ASSUME NEW b \in Bytes, Arrive(b) PROVE session' = session /\ UNCHANGED deviceVars
  BY <1>6 DEF Arrive
<1>7. CASE UNCHANGED vars
  BY <1>7 DEF vars, portVars
<1>8. SwitchMode => reader = "switch" /\ reader' = "returned"
  BY DEF SwitchMode
<1> QED BY <1>1, <1>2, <1>3, <1>4, <1>5, <1>6, <1>7, <1>8 DEF Next, portVars

-----------------------------------------------------------------------------
(* The thread and the device it reads from                                 *)

\* The thread is inside ReadSome only while the device is there, and the device
\* is there as long as the thread has not ended.
ThreadInv ==
    /\ reader # "idle" => thread = "read"
    /\ thread \notin {"start", "ended"} => life[Port] \in SetUp
    /\ life[Port] = "gone" => thread = "ended"
    /\ life \in [Devices -> {"new", "opened", "locked", "ready", "closing", "closed",
                             "invalid", "gone"}]

THEOREM ThreadCorrect == Spec => []ThreadInv
<1> USE DevicesAssumption DEF ThreadInv, SetUp
<1>1. Init => ThreadInv
  BY DEF Init, PortInit
<1>2. ThreadInv /\ [Next]_vars => ThreadInv'
  <2> SUFFICES ASSUME ThreadInv, [Next]_vars PROVE ThreadInv'
    OBVIOUS
  <2>1. CASE Start \/ Call \/ End
    BY <2>1 DEF Start, Call, End, Exists, BeginRead, portVars, deviceVars, readVars
  <2>2. CASE Client
    BY <2>2 DEF Client, Chunk, ChunkAgain, Acknowledge, FillBuffer, EndRead, portVars,
                deviceVars, readVars
  <2>3. CASE Gap \/ BeginChunk
    BY <2>3 DEF Gap, BeginChunk, FillBuffer, EndRead, deviceVars
  <2>4. CASE Overrun \/ PacketByte \/ DelimiterByte \/ DelimiterEnds \/ ChunkDone
    BY <2>4 DEF Overrun, PacketByte, DelimiterByte, DelimiterEnds, ChunkDone, Storing, portVars,
                deviceVars, readVars
  <2>5. CASE Reading
    BY <2>5 DEF Reading, ReadData, ReadNothing, ReadFails, TestMode, SwitchMode, deviceVars,
                packetizerVars
  <2>6. CASE BeginDestruction
    BY <2>6 DEF BeginDestruction, portVars, deviceVars, readVars
  <2>7. ASSUME NEW d \in Devices, CloseDevice(d) \/ Destroy(d) PROVE ThreadInv'
    BY <2>7 DEF CloseDevice, Destroy, CloseSettings, CloseNonblock, Release, Enter, readVars,
                packetizerVars
  <2>8. ASSUME NEW d \in Devices, Constructing(d) /\ UNCHANGED packetizerVars PROVE ThreadInv'
    BY <2>8 DEF Constructing, Open, LockTerminal, InitTerminal, InitFails, Enter, readVars,
                packetizerVars
  <2>9. ASSUME NEW c \in LineClients, SettingLines(c) /\ UNCHANGED packetizerVars
        PROVE  ThreadInv'
    BY <2>9 DEF SettingLines, SetLineReads, SetLineWrites, SetLineCannotRead,
               SetLineCannotWrite, deviceVars, readVars, packetizerVars
  <2>10. ASSUME NEW b \in Bytes, Arrive(b) /\ UNCHANGED packetizerVars PROVE ThreadInv'
    BY <2>10 DEF Arrive, deviceVars, readVars, packetizerVars
  <2>11. CASE UNCHANGED vars
    BY <2>11 DEF vars, portVars, deviceVars, readVars, packetizerVars
  <2> QED
    BY <2>1, <2>2, <2>3, <2>4, <2>5, <2>6, <2>7, <2>8, <2>9, <2>10, <2>11
       DEF Next, ThreadStep, Packetizer
<1> QED
  BY <1>1, <1>2, PTL DEF Spec

\* The thread of a device does not outlive it: the destructor closes the
\* terminal after it joined the packetizer.
THEOREM ThreadIsJoined == Spec => []ThreadEndsFirst
<1>1. ThreadInv => ThreadEndsFirst
  BY DEF ThreadInv, ThreadEndsFirst
<1> QED
  BY <1>1, ThreadCorrect, PTL

-----------------------------------------------------------------------------
(* The terminal and its settings                                           *)

LEMMA ConfigType ==
    ASSUME session \in Sessions, NEW d \in Devices
    PROVE  Config(d) \in Configuration
<1>1. session.config[d] \in Configuration
  BY SessionsAssumption
<1> HIDE DEF Configuration
<1>2. [session.config[d] EXCEPT !.gap_sync = TRUE] \in Configuration
  BY <1>1 DEF Configuration
<1> QED BY <1>1, <1>2 DEF Config

LEMMA InitOptionsType ==
    ASSUME NEW set \in Termios, NEW config \in Configuration, Accepted(config)
    PROVE  InitOptions(set, config) \in Termios
<1> DEFINE f4 == WithFlowControl(WithStopBits(WithParityChecks(WithParity(set.flags, config.parity)),
                                              config.stop_bits), config.flow_control)
           f5 == (f4 \ {"ICANON", "ECHO", "ECHOE", "ISIG", "OPOST"}) \cup {"CREAD", "CLOCAL"}
           conf == SetConfig(set, config)
<1>1. f4 \in SUBSET Flags /\ f5 \in SUBSET Flags
  <2>1. set.flags \in SUBSET Flags
    BY DEF Termios
  <2>2. \A flags \in SUBSET Flags : WithParity(flags, config.parity) \in SUBSET Flags
    BY DEF WithParity, Flags
  <2>3. \A flags \in SUBSET Flags : WithParityChecks(flags) \in SUBSET Flags
    BY DEF WithParityChecks, ParityChecks, ParityMarks, Flags
  <2>4. \A flags \in SUBSET Flags : WithStopBits(flags, config.stop_bits) \in SUBSET Flags
    BY DEF WithStopBits, Flags
  <2>5. \A flags \in SUBSET Flags : WithFlowControl(flags, config.flow_control) \in SUBSET Flags
    BY DEF WithFlowControl, SoftwareFlow, Flags
  <2>6. {"CREAD", "CLOCAL"} \subseteq Flags
    BY DEF Flags
  <2> QED BY <2>1, <2>2, <2>3, <2>4, <2>5, <2>6
<1>2. Baudrate(config.baudrate) \in Nat
  BY DEF Baudrate, UnixRates, B0
<1>3. CharacterBits(config) \in 5..8
  BY DEF CharacterBits, Accepted, Plausible, Configuration
<1>4. Deciseconds(config.timeout) \in 0..255
  BY DEF Deciseconds, Configuration
<1>5. conf = [set EXCEPT !.speed = Baudrate(config.baudrate), !.size = CharacterBits(config),
                         !.flags = f4]
  BY DEF SetConfig
<1> HIDE DEF f4, f5, Flags
<1>6. conf \in Termios /\ conf.flags = f4
  <2>1. conf \in Termios
    <3> DEFINE speed == Baudrate(config.baudrate)
               size == CharacterBits(config)
    <3>1. speed \in Nat /\ size \in 5..8 /\ f4 \in SUBSET Flags
      BY <1>1, <1>2, <1>3
    <3> HIDE DEF speed, size
    <3>2. [set EXCEPT !.speed = speed, !.size = size, !.flags = f4] \in Termios
      BY <3>1 DEF Termios
    <3> QED BY <1>5, <3>2 DEF speed, size
  <2>2. conf.flags = f4
    BY <1>5 DEF Termios
  <2> QED BY <2>1, <2>2
<1> HIDE DEF conf
<1>7. InitOptions(set, config) =
        [conf EXCEPT !.flags = f5, !.vmin = IF config.gap_sync THEN 1 ELSE 0,
                     !.vtime = Deciseconds(config.timeout)]
  BY <1>6 DEF InitOptions, SetRaw, conf, f5
<1> DEFINE vmin == IF config.gap_sync THEN 1 ELSE 0
<1>8. vmin \in {0, 1}
  OBVIOUS
<1> HIDE DEF vmin
<1>9. [conf EXCEPT !.flags = f5, !.vmin = vmin, !.vtime = Deciseconds(config.timeout)] \in Termios
  BY <1>1, <1>4, <1>6, <1>8 DEF Termios
<1> QED BY <1>7, <1>9 DEF vmin

\* The settings with which read() waits for at most the first byte.
LEMMA ShorterRead ==
    ASSUME NEW set \in Termios, NEW vmin \in {0, 1}
    PROVE  /\ [set EXCEPT !.vmin = vmin] \in Termios
           /\ [set EXCEPT !.vmin = vmin].vmin = vmin
           /\ [set EXCEPT !.vmin = vmin].vtime = set.vtime
           /\ \A config : Meets([set EXCEPT !.vmin = vmin], config) <=> Meets(set, config)
<1> HIDE DEF Flags
<1>1. [set EXCEPT !.vmin = vmin] \in Termios
  BY DEF Termios
<1>2. /\ [set EXCEPT !.vmin = vmin].vmin = vmin
      /\ [set EXCEPT !.vmin = vmin].vtime = set.vtime
      /\ [set EXCEPT !.vmin = vmin].speed = set.speed
      /\ [set EXCEPT !.vmin = vmin].size = set.size
      /\ [set EXCEPT !.vmin = vmin].flags = set.flags
  BY DEF Termios
<1>3. UnixFrame([set EXCEPT !.vmin = vmin]) = UnixFrame(set)
  BY <1>2 DEF UnixFrame
<1> QED BY <1>1, <1>2, <1>3 DEF Meets

LEMMA ShutRead ==
    ASSUME NEW set \in Termios
    PROVE  /\ [set EXCEPT !.vmin = 0, !.vtime = 0] \in Termios
           /\ [set EXCEPT !.vmin = 0, !.vtime = 0].vmin = 0
           /\ [set EXCEPT !.vmin = 0, !.vtime = 0].vtime = 0
<1> HIDE DEF Flags
<1>1. ASSUME NEW vmin \in {0, 1}, NEW vtime \in 0..255
      PROVE  [set EXCEPT !.vmin = vmin, !.vtime = vtime] \in Termios
  BY DEF Termios
<1>2. [set EXCEPT !.vmin = 0, !.vtime = 0].vmin = 0
  BY DEF Termios
<1>3. [set EXCEPT !.vmin = 0, !.vtime = 0].vtime = 0
  BY DEF Termios
<1> QED BY <1>1, <1>2, <1>3

DeviceTypes ==
    /\ session \in Sessions
    /\ life \in [Devices -> {"new", "opened", "locked", "ready", "closing", "closed",
                             "invalid", "gone"}]
    /\ state \in [Devices -> States]
    /\ options \in [Devices -> Termios]
    /\ nonblock \in [Devices -> BOOLEAN]
    /\ owner \in Devices \cup {NoDevice}
    /\ tty \in Termios

\* A device that has the terminal's lock knows the settings in force.  Shut is
\* what Close leaves, which no later switch of the mode undoes.
HasTerminal ==
    \A d \in Devices :
        /\ life[d] \in Opening => owner = d
        /\ life[d] \in SetUp => tty = options[d]
        /\ life[d] = "ready" =>
               Accepted(Config(d)) /\ Meets(options[d], Config(d))

Shut ==
    life[Port] \in {"closing", "closed"} =>
        state[Port] = "kShutdown" /\ options[Port].vmin = 0 /\ options[Port].vtime = 0

TerminalInv == DeviceTypes /\ HasTerminal /\ Shut

LEMMA ConstructionKeepsTerminal ==
    ASSUME TerminalInv, session' = session, NEW d \in Devices, Constructing(d)
    PROVE  TerminalInv'
<1> USE DEF TerminalInv, DeviceTypes, HasTerminal, Shut, Opening, SetUp
<1>1. \A e \in Devices : Config(e)' = Config(e)
  BY DEF Config
<1>2. CASE Open(d)
  BY <1>1, <1>2 DEF Open, Enter
<1>3. CASE LockTerminal(d)
  BY <1>1, <1>3, DevicesAssumption DEF LockTerminal, Enter
<1>4. CASE InitTerminal(d)
  <2> DEFINE set == InitOptions(tty, Config(d))
  <2>1. Accepted(Config(d)) /\ set \in Termios /\ Meets(set, Config(d))
    BY <1>4, ConfigType, InitOptionsType, LineFollowsConfiguration DEF InitTerminal
  <2> HIDE DEF set
  <2>2. /\ life[d] = "locked" /\ life' = [life EXCEPT ![d] = "ready"]
        /\ options' = [options EXCEPT ![d] = set] /\ tty' = options'[d]
        /\ nonblock' = [nonblock EXCEPT ![d] = FALSE]
        /\ UNCHANGED <<session, state, owner>>
    BY <1>4 DEF InitTerminal, Enter, set
  <2>3. DeviceTypes' /\ tty' = set
    BY <2>1, <2>2
  <2>4. HasTerminal'
    BY <1>1, <2>1, <2>2, <2>3
  <2>5. Shut'
    BY <2>2
  <2> QED BY <2>3, <2>4, <2>5
<1>5. CASE InitFails(d)
  BY <1>1, <1>5, DevicesAssumption DEF InitFails, Enter
<1> QED BY <1>2, <1>3, <1>4, <1>5 DEF Constructing

LEMMA ClosingKeepsTerminal ==
    ASSUME TerminalInv, session' = session, NEW d \in Devices,
           CloseSettings(d) \/ CloseNonblock(d) \/ Release(d)
    PROVE  TerminalInv'
<1> USE DEF TerminalInv, DeviceTypes, HasTerminal, Shut, Opening, SetUp
<1>1. \A e \in Devices : Config(e)' = Config(e)
  BY DEF Config
<1>2. CASE CloseSettings(d)
  <2> DEFINE set == [options[d] EXCEPT !.vmin = 0, !.vtime = 0]
  <2>1. set \in Termios /\ set.vmin = 0 /\ set.vtime = 0
    BY ShutRead
  <2> HIDE DEF set
  <2>2. /\ life[d] = "ready" /\ life' = [life EXCEPT ![d] = "closing"]
        /\ state' = [state EXCEPT ![d] = "kShutdown"]
        /\ options' = [options EXCEPT ![d] = set] /\ tty' = options'[d]
        /\ UNCHANGED <<session, nonblock, owner>>
    BY <1>2 DEF CloseSettings, Enter, set
  <2>3. DeviceTypes' /\ tty' = set
    BY <2>1, <2>2 DEF States
  <2>4. HasTerminal'
    BY <1>1, <2>2, <2>3
  <2>5. Shut'
    BY <2>1, <2>2
  <2> QED BY <2>3, <2>4, <2>5
<1>3. CASE CloseNonblock(d)
  BY <1>1, <1>3 DEF CloseNonblock, Enter
<1>4. CASE Release(d)
  BY <1>1, <1>4, DevicesAssumption DEF Release, Enter
<1> QED BY <1>2, <1>3, <1>4

LEMMA SwitchKeepsTerminal ==
    ASSUME TerminalInv, session' = session, life[Port] \in SetUp, SwitchMode
    PROVE  TerminalInv'
<1> USE DevicesAssumption DEF TerminalInv, DeviceTypes, HasTerminal, Shut, Opening, SetUp
<1>1. \A e \in Devices : Config(e)' = Config(e)
  BY DEF Config
<1>2. CASE UNCHANGED <<state, options, tty>>
  BY <1>1, <1>2 DEF SwitchMode
<1>3. ASSUME NEW mode \in {"kWaiting", "kReading"}, NEW vmin \in {0, 1}, EnterMode(mode, vmin),
             state[Port] # "kShutdown"
      PROVE  TerminalInv'
  <2> DEFINE set == [options[Port] EXCEPT !.vmin = vmin]
  <2>1. /\ set \in Termios
        /\ \A config : Meets(set, config) <=> Meets(options[Port], config)
    BY ShorterRead
  <2> HIDE DEF set
  <2>2. /\ state' = [state EXCEPT ![Port] = mode]
        /\ options' = [options EXCEPT ![Port] = set] /\ tty' = options'[Port]
        /\ UNCHANGED <<session, life, nonblock, owner>>
    BY <1>3 DEF SwitchMode, EnterMode, set
  <2>3. DeviceTypes' /\ tty' = set
    BY <2>1, <2>2 DEF States
  <2>4. HasTerminal'
    BY <1>1, <2>1, <2>2, <2>3
  <2>5. Shut'
    BY <1>3, <2>2
  <2> QED BY <2>3, <2>4, <2>5
<1> QED BY <1>2, <1>3 DEF SwitchMode, GapEnds, BurstBegins

THEOREM TerminalCorrect == Spec => []TerminalInv
<1>1. Init => TerminalInv
  <2> SUFFICES ASSUME Init PROVE TerminalInv
    OBVIOUS
  <2>1. session \in Sessions /\ session.leftover \in Termios
    BY SessionsAssumption DEF Init, PortInit
  <2>2. tty \in Termios /\ options \in [Devices -> Termios] /\ nonblock \in [Devices -> BOOLEAN]
    BY <2>1 DEF Init, PortInit
  <2>3. /\ life = [d \in Devices |-> "new"] /\ owner = NoDevice
        /\ state \in [Devices -> States]
    BY DEF Init, PortInit, States
  <2> QED
    BY <2>1, <2>2, <2>3, DevicesAssumption
       DEF TerminalInv, DeviceTypes, HasTerminal, Shut, Opening, SetUp
<1>2. TerminalInv /\ ThreadInv /\ [Next]_vars => TerminalInv'
  <2> SUFFICES ASSUME TerminalInv, ThreadInv, [Next]_vars PROVE TerminalInv'
    OBVIOUS
  <2>1. session' = session
    BY DeviceSteps
  <2>2. CASE reader = "switch" /\ SwitchMode
    BY <2>1, <2>2, SwitchKeepsTerminal DEF ThreadInv
  <2>3. ASSUME NEW d \in Devices,
               Constructing(d) \/ CloseSettings(d) \/ CloseNonblock(d) \/ Release(d)
        PROVE  TerminalInv'
    BY <2>1, <2>3, ConstructionKeepsTerminal, ClosingKeepsTerminal
  <2>4. CASE UNCHANGED deviceVars
    BY <2>1, <2>4 DEF deviceVars, TerminalInv, DeviceTypes, HasTerminal, Shut, Config
  <2> QED BY <2>2, <2>3, <2>4, DeviceSteps
<1> QED BY <1>1, <1>2, ThreadCorrect, PTL DEF Spec

\* However many devices open the terminal, the settings in force are those of
\* the one that is set up: flock() comes before tcsetattr() in the constructor.
THEOREM TerminalIsKept == Spec => []OwnerKeepsTerminal
<1>1. TerminalInv => OwnerKeepsTerminal
  BY DEF TerminalInv, HasTerminal, OwnerKeepsTerminal, Opening, SetUp
<1> QED BY <1>1, TerminalCorrect, PTL

\* And they give the line the speed, parity, stop bits, flow control and, without
\* parity, the number of data bits that its configuration asks for, whatever
\* another program left and however often the mode of reading was switched.
THEOREM LineIsAsConfigured == Spec => []LineAsConfigured
<1>1. TerminalInv => LineAsConfigured
  BY DEF TerminalInv, HasTerminal, LineAsConfigured, SetUp
<1> QED BY <1>1, TerminalCorrect, PTL

\* Close is final: no ReadSome that saw the mode before it gives read() settings
\* back in which it waits for a byte.
THEOREM CloseIsFinal == Spec => []ClosedStaysShut
<1>1. TerminalInv => ClosedStaysShut
  BY DevicesAssumption DEF TerminalInv, HasTerminal, Shut, ClosedStaysShut, SetUp
<1> QED BY <1>1, TerminalCorrect, PTL

-----------------------------------------------------------------------------
(* The modem lines                                                         *)

LineTypes ==
    /\ mutex \in {"free", "close"} \cup LineClients
    /\ lines \in SUBSET Lines
    /\ wanted \in SUBSET Lines
    /\ request \in [LineClients -> [mask : SUBSET Lines, value : SUBSET Lines,
                                    at : {"none", "locked", "done"}, status : SUBSET Lines]]

\* Whoever read the lines holds the mutex until it wrote them, so what it read
\* are still the lines; Close holds the mutex over its two steps.
LinesInv ==
    /\ LineTypes
    /\ lines = wanted
    /\ \A c \in LineClients : request[c].at = "locked" => mutex = c /\ request[c].status = lines
    /\ life[Port] = "closing" => mutex = "close"

LEMMA LineSteps ==
    ASSUME ThreadInv, [Next]_vars
    PROVE  \/ \E c \in LineClients : SettingLines(c)
           \/ CloseSettings(Port) \/ CloseNonblock(Port)
           \/ UNCHANGED <<lineVars, mutex>> /\ (life'[Port] = "closing" => life[Port] = "closing")
<1> USE DevicesAssumption DEF ThreadInv
<1>1. CASE ThreadStep \/ End
  <2>1. CASE Start \/ Call \/ End \/ Client
    BY <2>1 DEF Start, Call, End, Client, Chunk, ChunkAgain, Acknowledge, FillBuffer, EndRead,
                BeginRead, portVars, deviceVars, lineVars
  <2>2. CASE Packetizer
    BY <2>2 DEF Packetizer, Gap, BeginChunk, Overrun, PacketByte, DelimiterByte, DelimiterEnds,
                ChunkDone, FillBuffer, EndRead, portVars, deviceVars, lineVars
  <2>3. CASE Reading
    BY <2>3 DEF Reading, ReadData, ReadNothing, ReadFails, TestMode, SwitchMode, deviceVars,
                lineVars
  <2> QED BY <1>1, <2>1, <2>2, <2>3 DEF ThreadStep
<1>2. CASE BeginDestruction
  BY <1>2 DEF BeginDestruction, portVars, deviceVars, lineVars
<1>3. ASSUME NEW d \in Devices, d # Port, CloseDevice(d) \/ Destroy(d)
      PROVE  UNCHANGED <<lineVars, mutex>> /\ life'[Port] = life[Port]
  BY <1>3 DEF CloseDevice, Destroy, CloseSettings, CloseNonblock, Release, Enter
<1>4. CASE CloseDevice(Port) \/ Destroy(Port)
  BY <1>4 DEF CloseDevice, Destroy, Release, Enter
<1>5. ASSUME NEW d \in Devices, Constructing(d)
      PROVE  /\ UNCHANGED <<lineVars, mutex>>
             /\ life'[Port] = "closing" => life[Port] = "closing"
  BY <1>5 DEF Constructing, Open, LockTerminal, InitTerminal, InitFails, Enter
<1>6. ASSUME NEW b \in Bytes, Arrive(b) PROVE UNCHANGED <<life, lineVars, mutex>>
  BY <1>6 DEF Arrive, deviceVars
<1>7. CASE UNCHANGED vars
  BY <1>7 DEF vars, portVars, deviceVars
<1> QED BY <1>1, <1>2, <1>3, <1>4, <1>5, <1>6, <1>7 DEF Next

LEMMA UpdatedType ==
    ASSUME NEW status \in SUBSET Lines, NEW r, r.value \in SUBSET Lines
    PROVE  Updated(status, r) \in SUBSET Lines
BY DEF Updated

LEMMA ReadingLines ==
    ASSUME LinesInv, NEW c \in LineClients, NEW r \in Requests, SetLineReads(c, r)
    PROVE  LinesInv'
<1> DEFINE new == [mask |-> r.mask, value |-> r.value, at |-> "locked", status |-> lines]
<1>1. /\ mutex = "free" /\ mutex' = c /\ life[Port] = "ready" /\ life' = life
      /\ lines' = lines /\ wanted' = wanted
      /\ request' = [request EXCEPT ![c] = new]
  BY DEF SetLineReads, deviceVars
<1>2. r.mask \in SUBSET Lines /\ r.value \in SUBSET Lines
  BY RequestsAssumption
<1>3. /\ new \in [mask : SUBSET Lines, value : SUBSET Lines,
                  at : {"none", "locked", "done"}, status : SUBSET Lines]
      /\ new.status = lines
  BY <1>2 DEF LinesInv, LineTypes
<1> HIDE DEF new
<1>4. LineTypes'
  BY <1>1, <1>3 DEF LinesInv, LineTypes
<1>5. \A e \in LineClients : e # c => request'[e] = request[e] /\ request[e].at # "locked"
  BY <1>1, ClientsAssumption DEF LinesInv, LineTypes
<1>6. request'[c] = new
  BY <1>1 DEF LinesInv, LineTypes
<1> QED BY <1>1, <1>3, <1>4, <1>5, <1>6 DEF LinesInv

LEMMA WritingLines ==
    ASSUME LinesInv, NEW c \in LineClients, SetLineWrites(c)
    PROVE  LinesInv'
<1>1. /\ request[c].at = "locked" /\ mutex = c /\ mutex' = "free" /\ life' = life
      /\ lines' = Updated(request[c].status, request[c])
      /\ wanted' = Updated(wanted, request[c])
      /\ request' = [request EXCEPT ![c].at = "done"]
      /\ request[c].status = wanted /\ wanted \in SUBSET Lines
  BY DEF SetLineWrites, deviceVars, LinesInv, LineTypes
<1>2. lines' = wanted'
  BY <1>1
<1>3. request[c].value \in SUBSET Lines
  BY DEF LinesInv, LineTypes
<1>4. lines' \in SUBSET Lines
  BY <1>1, <1>3, UpdatedType
<1>5. /\ request' \in [LineClients -> [mask : SUBSET Lines, value : SUBSET Lines,
                                      at : {"none", "locked", "done"}, status : SUBSET Lines]]
      /\ request'[c].at = "done"
      /\ \A e \in LineClients : e # c => request'[e] = request[e]
  <2> DEFINE new == [request[c] EXCEPT !.at = "done"]
  <2>1. /\ new \in [mask : SUBSET Lines, value : SUBSET Lines,
                    at : {"none", "locked", "done"}, status : SUBSET Lines]
        /\ new.at = "done"
    BY DEF LinesInv, LineTypes
  <2>2. request' = [request EXCEPT ![c] = new]
    BY <1>1
  <2> HIDE DEF new
  <2> QED BY <2>1, <2>2 DEF LinesInv, LineTypes
<1>6. \A e \in LineClients : request'[e].at # "locked"
  BY <1>1, <1>5 DEF LinesInv
<1>7. life[Port] # "closing"
  BY <1>1, ClientsAssumption DEF LinesInv
<1> QED BY <1>1, <1>2, <1>4, <1>5, <1>6, <1>7 DEF LinesInv, LineTypes

\* A system call that fails leaves the lines as they are.
LEMMA FailingLines ==
    ASSUME LinesInv, NEW c \in LineClients, SetLineCannotRead(c) \/ SetLineCannotWrite(c)
    PROVE  LinesInv'
<1>1. /\ request' = [request EXCEPT ![c].at = "done"]
      /\ lines' = lines /\ wanted' = wanted /\ life' = life
      /\ \/ mutex = "free" /\ mutex' = mutex
         \/ mutex = c /\ mutex' = "free"
  BY DEF SetLineCannotRead, SetLineCannotWrite, deviceVars
<1>2. /\ request' \in [LineClients -> [mask : SUBSET Lines, value : SUBSET Lines,
                                      at : {"none", "locked", "done"}, status : SUBSET Lines]]
      /\ request'[c].at = "done"
      /\ \A e \in LineClients : e # c => request'[e] = request[e]
  <2> DEFINE new == [request[c] EXCEPT !.at = "done"]
  <2>1. /\ new \in [mask : SUBSET Lines, value : SUBSET Lines,
                    at : {"none", "locked", "done"}, status : SUBSET Lines]
        /\ new.at = "done"
    BY DEF LinesInv, LineTypes
  <2>2. request' = [request EXCEPT ![c] = new]
    BY <1>1
  <2> HIDE DEF new
  <2> QED BY <2>1, <2>2 DEF LinesInv, LineTypes
<1>3. \A e \in LineClients : request'[e].at # "locked"
  BY <1>1, <1>2, ClientsAssumption DEF LinesInv
<1>4. life[Port] # "closing"
  BY <1>1, ClientsAssumption DEF LinesInv
<1> QED BY <1>1, <1>2, <1>3, <1>4 DEF LinesInv, LineTypes

THEOREM LinesCorrect == Spec => []LinesInv
<1>1. Init => LinesInv
  BY DevicesAssumption DEF Init, PortInit, LinesInv, LineTypes, NoRequest
<1>2. LinesInv /\ ThreadInv /\ [Next]_vars => LinesInv'
  <2> SUFFICES ASSUME LinesInv, ThreadInv, [Next]_vars PROVE LinesInv'
    OBVIOUS
  <2>1. CASE CloseSettings(Port)
    BY <2>1, ClientsAssumption DEF CloseSettings, LinesInv, LineTypes, lineVars
  <2>2. CASE CloseNonblock(Port)
    BY <2>2, DevicesAssumption, ClientsAssumption
       DEF CloseNonblock, Enter, LinesInv, LineTypes, lineVars, ThreadInv
  <2>3. CASE UNCHANGED <<lineVars, mutex>> /\ (life'[Port] = "closing" => life[Port] = "closing")
    BY <2>3 DEF LinesInv, LineTypes, lineVars
  <2> QED BY <2>1, <2>2, <2>3, LineSteps, ReadingLines, WritingLines, FailingLines
       DEF SettingLines
<1> QED BY <1>1, <1>2, ThreadCorrect, PTL DEF Spec

\* Two clients that set different modem lines at the same time both have their
\* way, for any number of them and with Close at any moment.
THEOREM RequestsAreKept == Spec => []LineRequestsKept
<1>1. LinesInv => LineRequestsKept
  BY DEF LinesInv, LineRequestsKept
<1> QED BY <1>1, LinesCorrect, PTL

-----------------------------------------------------------------------------
(* The bytes between the wire and the one who reads them                   *)

ReadTypes ==
    /\ sent \in Seq(Bytes)
    /\ taken \in 0..Len(sent)
    /\ reader \in {"idle", "reading", "test", "switch", "returned"}
    /\ buffer \in Seq(1..Len(sent)) /\ Len(buffer) <= BufferSize
    /\ result \in -1..BufferSize
    /\ rxIndex \in Nat /\ rxLen \in Nat /\ removed \in Nat

\* The buffer holds the bytes that read() returned last; what of them is not
\* removed is at its end.  While ReadSome is at work the chunk before is removed,
\* and what it read is its result.
ReadInv ==
    /\ ReadTypes
    /\ \A i \in 1..Len(buffer) : buffer[i] = taken - Len(buffer) + i
    /\ reader = "reading" => result = 0
    /\ reader # "idle" => /\ rxLen = 0 /\ taken - removed = ReadSize
                          /\ ReadSize > 0 => Len(buffer) = ReadSize
    /\ reader = "idle" => taken - removed = rxLen
    /\ IF rxLen = 0 THEN rxIndex = 0 ELSE rxIndex + rxLen = Len(buffer)

LEMMA SeqGrows ==
    ASSUME NEW S, NEW T, S \subseteq T, NEW seq \in Seq(S)
    PROVE  seq \in Seq(T)
OBVIOUS

\* What reading does to the bytes.
LEMMA ReadSteps ==
    ASSUME rxLen \in Nat, [Next]_vars
    PROVE  \/ \E b \in Bytes : Arrive(b) /\ UNCHANGED rxVars
           \/ BeginRead /\ rxLen = 0 /\ UNCHANGED rxVars
           \/ \E n \in 1..BufferSize : ReadData(n) /\ UNCHANGED rxVars
           \/ (ReadNothing \/ ReadFails) /\ UNCHANGED rxVars
           \/ /\ reader \in {"test", "switch"} /\ reader' \in {"switch", "returned"}
              /\ UNCHANGED <<streamVars, buffer, result, rxVars>>
           \/ FillBuffer
           \/ /\ thread \in {"held", "bytes"} /\ \E size \in Nat : RemoveChunk(size)
              /\ UNCHANGED <<streamVars, readVars>>
           \/ UNCHANGED <<streamVars, readVars, rxVars>>
<1>1. CASE ThreadStep \/ End
  <2>1. CASE Start \/ End \/ ChunkAgain \/ Overrun \/ PacketByte \/ DelimiterByte \/ DelimiterEnds
    BY <2>1 DEF Start, End, ChunkAgain, Overrun, PacketByte, DelimiterByte, DelimiterEnds, portVars
  <2>2. CASE Call
    BY <2>2 DEF Call
  <2>3. CASE Chunk \/ Gap \/ BeginChunk
    BY <2>3 DEF Chunk, Gap, BeginChunk
  <2>4. ASSUME NEW size \in 0..BufferSize + 1, Acknowledge(size)
        PROVE  \E n \in Nat : RemoveChunk(n) /\ thread = "held" /\ UNCHANGED portVars
    BY <2>4, BufferAssumption DEF Acknowledge
  <2>5. CASE ChunkDone
    BY <2>5 DEF ChunkDone, portVars
  <2>6. CASE Reading
    BY <2>6 DEF Reading, TestMode, SwitchMode, packetizerVars
  <2> QED BY <1>1, <2>1, <2>2, <2>3, <2>4, <2>5, <2>6 DEF ThreadStep, Packetizer, Client, portVars
<1>2. CASE BeginDestruction
  BY <1>2 DEF BeginDestruction, portVars
<1>3. ASSUME NEW d \in Devices, CloseDevice(d) \/ Destroy(d)
      PROVE  UNCHANGED <<streamVars, readVars, rxVars>>
  BY <1>3 DEF CloseDevice, Destroy, CloseSettings, CloseNonblock, Release, packetizerVars
<1>4. ASSUME NEW d \in Devices, Constructing(d) PROVE UNCHANGED <<streamVars, readVars>>
  BY <1>4 DEF Constructing, Open, LockTerminal, InitTerminal, InitFails
<1>5. ASSUME NEW c \in LineClients, SettingLines(c) PROVE UNCHANGED <<streamVars, readVars>>
  BY <1>5 DEF SettingLines, SetLineReads, SetLineWrites, SetLineCannotRead, SetLineCannotWrite
<1>6. CASE UNCHANGED vars
  BY <1>6 DEF vars, portVars, packetizerVars
<1> QED BY <1>1, <1>2, <1>3, <1>4, <1>5, <1>6 DEF Next, packetizerVars

LEMMA ArrivalKeepsBytes ==
    ASSUME ReadInv, NEW b \in Bytes, Arrive(b), UNCHANGED rxVars
    PROVE  ReadInv'
<1>1. /\ sent' = Append(sent, b) /\ UNCHANGED <<taken, reader, buffer, result, rxVars>>
  BY DEF Arrive, readVars
<1>2. sent' \in Seq(Bytes) /\ Len(sent') = Len(sent) + 1 /\ Len(sent) \in Nat
  BY <1>1 DEF ReadInv, ReadTypes
<1>3. 1..Len(sent) \subseteq 1..Len(sent')
  BY <1>2
<1>4. buffer' \in Seq(1..Len(sent'))
  BY <1>1, <1>3, SeqGrows DEF ReadInv, ReadTypes
<1>5. ReadTypes'
  BY <1>1, <1>2, <1>4 DEF ReadInv, ReadTypes, rxVars
<1> QED BY <1>1, <1>5 DEF ReadInv, ReadSize, rxVars

LEMMA DataKeepsBytes ==
    ASSUME ReadInv, NEW n \in 1..BufferSize, ReadData(n), UNCHANGED rxVars
    PROVE  ReadInv'
<1>1. /\ reader = "reading" /\ n <= Len(sent) - taken
      /\ taken' = taken + n
      /\ buffer' = [i \in 1..n |-> taken + i]
      /\ result' = n /\ reader' = "test" /\ sent' = sent
      /\ rxIndex' = rxIndex /\ rxLen' = rxLen /\ removed' = removed
  BY DEF ReadData, rxVars
<1>2. n \in Nat /\ n > 0 /\ n <= BufferSize /\ BufferSize \in Nat /\ taken \in Nat /\ Len(sent) \in Nat
  BY BufferAssumption DEF ReadInv, ReadTypes
<1>3. /\ buffer' \in Seq(1..Len(sent)) /\ Len(buffer') = n
      /\ \A i \in 1..n : buffer'[i] = taken + i
  BY <1>1, <1>2
<1>4. rxLen = 0 /\ taken - removed = 0 /\ rxIndex = 0
  BY <1>1 DEF ReadInv, ReadSize
<1>5. ReadTypes'
  BY <1>1, <1>2, <1>3 DEF ReadInv, ReadTypes
<1>6. ReadSize' = n
  BY <1>1, <1>2 DEF ReadSize
<1>7. \A i \in 1..Len(buffer') : buffer'[i] = taken' - Len(buffer') + i
  BY <1>1, <1>2, <1>3
<1>8. /\ taken' - removed' = ReadSize' /\ Len(buffer') = ReadSize'
      /\ rxLen' = 0 /\ rxIndex' = 0
  BY <1>1, <1>2, <1>3, <1>4, <1>6 DEF ReadInv, ReadTypes
<1>9. reader' = "test"
  BY <1>1
<1> QED BY <1>5, <1>7, <1>8, <1>9 DEF ReadInv

LEMMA RemovalKeepsBytes ==
    ASSUME ReadInv, reader = "idle", NEW size \in Nat, RemoveChunk(size),
           UNCHANGED <<streamVars, readVars>>
    PROVE  ReadInv'
<1>1. /\ rxLen' = IF rxLen > size THEN rxLen - size ELSE 0
      /\ rxIndex' = IF rxLen > size THEN rxIndex + size ELSE 0
      /\ removed' = removed + (rxLen - rxLen')
      /\ UNCHANGED <<sent, taken, reader, buffer, result>>
  BY DEF RemoveChunk, streamVars, readVars
<1>2. /\ rxLen \in Nat /\ rxIndex \in Nat /\ removed \in Nat /\ taken \in Nat
      /\ taken - removed = rxLen
  BY DEF ReadInv, ReadTypes
<1>3. ReadTypes'
  BY <1>1 DEF ReadInv, ReadTypes
<1>4. taken' - removed' = rxLen'
  BY <1>1, <1>2
<1>5. IF rxLen' = 0 THEN rxIndex' = 0 ELSE rxIndex' + rxLen' = Len(buffer')
  <2>1. CASE rxLen > size
    <3>1. rxIndex + rxLen = Len(buffer)
      BY <1>2, <2>1 DEF ReadInv
    <3>2. rxIndex' = rxIndex + size /\ rxLen' = rxLen - size /\ buffer' = buffer
      BY <1>1, <2>1
    <3> QED BY <1>2, <2>1, <3>1, <3>2
  <2>2. CASE ~ rxLen > size
    BY <1>1, <2>2
  <2> QED BY <2>1, <2>2
<1>6. \A i \in 1..Len(buffer') : buffer'[i] = taken' - Len(buffer') + i
  BY <1>1 DEF ReadInv
<1>7. reader' = "idle"
  BY <1>1
<1> QED BY <1>3, <1>4, <1>5, <1>6, <1>7 DEF ReadInv

THEOREM BytesCorrect == Spec => []ReadInv
<1>1. Init => ReadInv
  BY SessionsAssumption, BufferAssumption DEF Init, PortInit, ReadInv, ReadTypes, ReadSize
<1>2. ReadInv /\ ThreadInv /\ [Next]_vars => ReadInv'
  <2> SUFFICES ASSUME ReadInv, ThreadInv, [Next]_vars PROVE ReadInv'
    OBVIOUS
  <2>1. CASE BeginRead /\ rxLen = 0 /\ UNCHANGED rxVars
    BY <2>1, BufferAssumption DEF BeginRead, ReadInv, ReadTypes, ReadSize, streamVars, rxVars
  <2>2. CASE (ReadNothing \/ ReadFails) /\ UNCHANGED rxVars
    BY <2>2, BufferAssumption DEF ReadNothing, ReadFails, ReadInv, ReadTypes, ReadSize, streamVars, rxVars
  <2>3. CASE /\ reader \in {"test", "switch"} /\ reader' \in {"switch", "returned"}
             /\ UNCHANGED <<streamVars, buffer, result, rxVars>>
    BY <2>3 DEF ReadInv, ReadTypes, ReadSize, streamVars, rxVars
  <2>4. CASE FillBuffer
    BY <2>4 DEF FillBuffer, EndRead, ReadInv, ReadTypes, ReadSize, streamVars
  <2>5. ASSUME thread \in {"held", "bytes"}, NEW size \in Nat, RemoveChunk(size),
               UNCHANGED <<streamVars, readVars>>
        PROVE  ReadInv'
    BY <2>5, RemovalKeepsBytes DEF ThreadInv
  <2>6. CASE UNCHANGED <<streamVars, readVars, rxVars>>
    BY <2>6 DEF ReadInv, ReadTypes, ReadSize, streamVars, readVars, rxVars
  <2>7. rxLen \in Nat
    BY DEF ReadInv, ReadTypes
  <2> QED BY <2>1, <2>2, <2>3, <2>4, <2>5, <2>6, <2>7, ReadSteps, ArrivalKeepsBytes, DataKeepsBytes
<1> QED BY <1>1, <1>2, ThreadCorrect, PTL DEF Spec

LEMMA ChunkInOrder == ReadInv => RemovedInOrder
<1> SUFFICES ASSUME ReadInv, reader = "idle"
             PROVE  Held = [i \in 1..taken - removed |-> removed + i]
  BY DEF RemovedInOrder
<1>1. /\ buffer \in Seq(1..Len(sent)) /\ rxIndex \in Nat /\ rxLen \in Nat
      /\ removed \in Nat /\ taken \in Nat /\ taken - removed = rxLen
  BY DEF ReadInv, ReadTypes
<1>2. CASE rxLen = 0
  BY <1>1, <1>2 DEF Held, ReadInv
<1>3. CASE rxLen # 0
  <2>1. rxIndex + rxLen = Len(buffer) /\ \A i \in 1..Len(buffer) : buffer[i] = taken - Len(buffer) + i
    BY <1>3 DEF ReadInv
  <2>2. Held = [i \in 1..rxLen |-> buffer[rxIndex + i]]
    BY <1>1, <2>1 DEF Held
  <2>3. ASSUME NEW i \in 1..rxLen PROVE buffer[rxIndex + i] = removed + i
    <3>1. rxIndex + i \in 1..Len(buffer)
      BY <1>1, <2>1
    <3>2. buffer[rxIndex + i] = taken - Len(buffer) + (rxIndex + i)
      BY <2>1, <3>1
    <3>3. taken = removed + rxLen /\ Len(buffer) = rxIndex + rxLen
      BY <1>1, <2>1
    <3>4. rxIndex \in Nat /\ rxLen \in Nat /\ removed \in Nat /\ i \in Nat
      BY <1>1
    <3> QED BY <3>2, <3>3, <3>4
  <2> QED BY <1>1, <2>2, <2>3
<1> QED BY <1>2, <1>3

\* No byte between the wire and the one who reads is lost, repeated or out of
\* order, whatever part of a chunk is removed at a time.
THEOREM BytesAreInOrder == Spec => []RemovedInOrder
BY ChunkInOrder, BytesCorrect, PTL

-----------------------------------------------------------------------------
(* The packetizer's buffer                                                 *)

LEMMA LargestDelimiter ==
    /\ MaxDelimiterSize \in 0..kMaxSize
    /\ \A n \in DOMAIN Delimiters : Len(Delimiters[n]) <= MaxDelimiterSize
<1> DEFINE Sizes == {Len(Delimiters[n]) : n \in DOMAIN Delimiters}
           Largest(size) == (\A s \in Sizes : s <= size) /\ (size = 0 \/ size \in Sizes)
<1>1. Sizes \subseteq 0..3
  BY DelimitersAssumption DEF kMaxSize
<1>2. \E size \in 0..3 : Largest(size)
  <2> HIDE DEF Sizes
  <2>1. CASE 3 \in Sizes
    BY <1>1, <2>1
  <2>2. CASE 3 \notin Sizes /\ 2 \in Sizes
    BY <1>1, <2>2
  <2>3. CASE 3 \notin Sizes /\ 2 \notin Sizes /\ 1 \in Sizes
    BY <1>1, <2>3
  <2>4. CASE 3 \notin Sizes /\ 2 \notin Sizes /\ 1 \notin Sizes
    BY <1>1, <2>4
  <2> QED BY <2>1, <2>2, <2>3, <2>4
<1>3. \E size \in 0..kMaxSize :
        /\ \A n \in DOMAIN Delimiters : Len(Delimiters[n]) <= size
        /\ size = 0 \/ \E n \in DOMAIN Delimiters : Len(Delimiters[n]) = size
  BY <1>2 DEF kMaxSize
<1> QED BY <1>3 DEF MaxDelimiterSize

\* A set of numbers has a smallest one.
LEMMA FirstOf ==
    ASSUME NEW T \in SUBSET Nat, T # {}
    PROVE  /\ (CHOOSE n \in T : \A m \in T : n <= m) \in T
           /\ \A k \in T : (CHOOSE n \in T : \A m \in T : n <= m) <= k
<1>1. PICK n \in T : \A m \in T : <<m, n>> \notin OpToRel(<, Nat)
  BY NatLessThanWellFounded, WFMin, Zenon
<1>2. n \in Nat /\ \A m \in T : m \in Nat /\ ~ m < n
  BY <1>1, Zenon DEF OpToRel
<1>3. \A m \in T : n <= m
  BY <1>2
<1> QED BY <1>3

\* The search waits for more bytes only while they are fewer than those of a
\* delimiter.
LEMMA BeginningIsShort ==
    ASSUME NEW dp \in Seq(Bytes), NEW best_match \in BOOLEAN,
           FindDelimiter(dp, best_match) < 0
    PROVE  Len(dp) < MaxDelimiterSize
<1> DEFINE decisive == Decisive(dp, best_match)
           first == CHOOSE n \in decisive : \A m \in decisive : n <= m
<1>1. /\ MaxDelimiterSize \in Nat
      /\ \A n \in DOMAIN Delimiters : Len(Delimiters[n]) \in Nat /\ Len(Delimiters[n]) <= MaxDelimiterSize
  BY LargestDelimiter, DelimitersAssumption DEF kMaxSize
<1>2. dp # <<>> /\ Len(dp) \in Nat
  BY DEF FindDelimiter
<1>3. CASE decisive # {}
  <2>1. decisive \subseteq DOMAIN Delimiters
    BY DEF Decisive
  <2>2. decisive \in SUBSET Nat
    BY <2>1, DelimitersAssumption
  <2>3. first \in decisive
    <3> HIDE DEF decisive
    <3> QED BY <1>3, <2>2, FirstOf
  <2>4. FindDelimiter(dp, best_match)
          = IF Len(Delimiters[first]) <= Len(dp) THEN Len(Delimiters[first]) ELSE -Len(dp)
    BY <1>2, <1>3 DEF FindDelimiter
  <2>5. Len(Delimiters[first]) \in Nat /\ Len(Delimiters[first]) <= MaxDelimiterSize
    BY <1>1, <2>1, <2>3
  <2> HIDE DEF first, decisive
  <2> QED BY <1>1, <1>2, <2>4, <2>5
<1>4. CASE decisive = {}
  <2>1. \E n \in DOMAIN Delimiters : MayBecome(dp, n)
    BY <1>2, <1>4 DEF FindDelimiter
  <2> QED BY <1>1, <1>2, <2>1 DEF MayBecome
<1> QED BY <1>3, <1>4

\* The packet is shorter than the array it is in, unless bytes are discarded, and
\* the packetizer has no array to overrun when there are no delimiters.
PacketInv ==
    /\ next \in Nat /\ discard \in BOOLEAN
    /\ packet \in Seq(1..Len(sent)) /\ packetLen \in Nat /\ packetLen <= Len(packet)
    /\ thread = "bytes" => Class("packet")
    /\ Class("packet") /\ thread \notin {"start", "ended"}
         => MaxDelimiterSize > 0 /\ MaxPacketSize > 0
    /\ CapacitySuffices

\* The byte that is processed next, behind the others.
LEMMA StoredByte ==
    ASSUME ReadInv, ThreadInv, PacketInv, Storing
    PROVE  /\ Stored \in Seq(1..Len(sent)) /\ Len(Stored) = Len(packet) + 1
           /\ Undecided(Stored) \in Seq(Bytes)
           /\ Len(Undecided(Stored)) = Len(Stored) - packetLen
<1>1. /\ buffer \in Seq(1..Len(sent)) /\ sent \in Seq(Bytes)
      /\ rxIndex \in Nat /\ rxLen \in Nat /\ next \in Nat /\ next < rxLen
  BY DEF ReadInv, ReadTypes, PacketInv, Storing
<1>2. rxIndex + rxLen = Len(buffer)
  BY <1>1 DEF ReadInv
<1>3. Held[next + 1] \in 1..Len(sent)
  <2>1. rxIndex + (next + 1) \in 1..Len(buffer)
    BY <1>1, <1>2
  <2>2. Held[next + 1] = buffer[rxIndex + (next + 1)]
    BY <1>1, <1>2 DEF Held
  <2> QED BY <1>1, <2>1, <2>2
<1>4. /\ packet \in Seq(1..Len(sent)) /\ packetLen \in Nat /\ packetLen <= Len(packet)
  BY DEF PacketInv
<1>5. Stored \in Seq(1..Len(sent)) /\ Len(Stored) = Len(packet) + 1
  BY <1>3, <1>4 DEF Stored
<1> HIDE DEF Stored
<1> DEFINE open == SubSeq(Stored, packetLen + 1, Len(Stored))
<1>6. open \in Seq(1..Len(sent)) /\ Len(open) = Len(Stored) - packetLen
  BY <1>4, <1>5
<1>7. Undecided(Stored) = [i \in 1..Len(open) |-> sent[open[i]]]
  BY <1>6 DEF Undecided, BytesAt
<1> HIDE DEF open
<1>8. \A i \in 1..Len(open) : sent[open[i]] \in Bytes
  BY <1>1, <1>6
<1>9. Len(open) \in Nat
  BY <1>6
<1>10. Undecided(Stored) \in Seq(Bytes) /\ Len(Undecided(Stored)) = Len(open)
  BY <1>7, <1>8, <1>9
<1> QED BY <1>5, <1>6, <1>10

LEMMA ProcessingKeepsPacket ==
    ASSUME ReadInv, ThreadInv, PacketInv,
           Overrun \/ PacketByte \/ DelimiterByte \/ DelimiterEnds
    PROVE  PacketInv'
<1>1. /\ session' = session /\ sent' = sent /\ thread = "bytes" /\ Class("packet")
      /\ MaxDelimiterSize \in Nat /\ MaxDelimiterSize > 0 /\ MaxPacketSize \in Nat /\ MaxPacketSize > 0
  BY LargestDelimiter, MaxPacketSizeAssumption
     DEF Overrun, PacketByte, DelimiterByte, DelimiterEnds, Storing, PacketInv, portVars,
         streamVars, kMaxSize
<1>2. /\ next \in Nat /\ discard \in BOOLEAN /\ packet \in Seq(1..Len(sent)) /\ packetLen \in Nat
      /\ Len(packet) \in Nat /\ packetLen <= Len(packet)
      /\ ~ discard => /\ packetLen <= MaxPacketSize
                      /\ Len(packet) < Capacity \/ packet = <<>>
  BY DEF PacketInv, CapacitySuffices
<1>3. Class("packet")' /\ MaxDelimiterSize' = MaxDelimiterSize
  BY <1>1 DEF Class
<1>4. Capacity \in Nat /\ Capacity > MaxPacketSize /\ Capacity = MaxPacketSize + MaxDelimiterSize
  BY <1>1 DEF Capacity
<1> HIDE DEF Class, MaxDelimiterSize, Capacity
<1>5. CASE Overrun
  <2>1. /\ thread' = "undefined" /\ Len(packet) >= Capacity
        /\ UNCHANGED <<next, discard, packet, packetLen>>
    BY <1>5 DEF Overrun, packetVars
  <2>2. ~ (Len(packet) < Capacity \/ packet = <<>>)
    <3>1. packet = <<>> => Len(packet) = 0
      OBVIOUS
    <3> QED BY <1>1, <1>2, <1>4, <2>1, <3>1
  <2>3. discard
    BY <1>2, <2>2, Zenon
  <2> QED BY <1>1, <1>2, <1>3, <2>1, <2>3 DEF PacketInv, CapacitySuffices
<1>6. CASE /\ thread' = "bytes" /\ next' \in Nat
           /\ packet' \in Seq(1..Len(sent)) /\ packetLen' \in Nat /\ packetLen' <= Len(packet')
           /\ discard' \in BOOLEAN
           /\ ~ discard' => /\ packetLen' <= MaxPacketSize
                            /\ Len(packet') < Capacity \/ packet' = <<>>
  <2>1. Capacity' = Capacity
    BY <1>3 DEF Capacity
  <2>2. CapacitySuffices'
    BY <1>6, <2>1 DEF CapacitySuffices
  <2> QED BY <1>1, <1>3, <1>6, <2>2 DEF PacketInv
<1>7. CASE PacketByte
  <2>1. Storing /\ next' = next + 1 /\ thread' = thread
    BY <1>7 DEF PacketByte
  <2>2. Stored \in Seq(1..Len(sent)) /\ Len(Stored) = Len(packet) + 1
    BY <2>1, StoredByte
  <2>3. CASE discard
    <3>1. packet' = Stored /\ packetLen' = packetLen /\ discard' = discard
      BY <1>7, <2>3 DEF PacketByte
    <3> HIDE DEF Stored
    <3> QED BY <1>1, <1>2, <1>6, <2>1, <2>2, <2>3, <3>1
  <2>4. CASE ~ discard /\ Len(Stored) > MaxPacketSize
    <3>1. packet' = <<>> /\ packetLen' = 0 /\ discard' = TRUE
      BY <1>7, <2>4 DEF PacketByte, NewPacket
    <3> QED BY <1>1, <1>2, <1>6, <2>1, <3>1
  <2>5. CASE ~ discard /\ ~ Len(Stored) > MaxPacketSize
    <3>1. packet' = Stored /\ packetLen' = Len(Stored) /\ discard' = discard
      BY <1>7, <2>5 DEF PacketByte
    <3> HIDE DEF Stored
    <3>2. Len(Stored) <= MaxPacketSize /\ Len(Stored) < Capacity
      BY <1>1, <1>2, <1>4, <2>2, <2>5
    <3> QED BY <1>1, <1>2, <1>6, <2>1, <2>2, <3>1, <3>2
  <2> QED BY <2>3, <2>4, <2>5
<1>8. CASE DelimiterByte
  <2>1. /\ Storing /\ next' = next + 1 /\ thread' = thread
        /\ packet' = Stored /\ packetLen' = packetLen /\ discard' = discard
        /\ FindDelimiter(Undecided(Stored), FALSE) < 0
    BY <1>8 DEF DelimiterByte, Match
  <2>2. /\ Stored \in Seq(1..Len(sent)) /\ Len(Stored) = Len(packet) + 1
        /\ Undecided(Stored) \in Seq(Bytes) /\ Len(Undecided(Stored)) = Len(Stored) - packetLen
    BY <2>1, StoredByte
  <2> HIDE DEF Stored
  <2>3. Len(Stored) - packetLen < MaxDelimiterSize
    BY <2>1, <2>2, BeginningIsShort
  <2>4. ~ discard => Len(Stored) < Capacity
    BY <1>1, <1>2, <1>4, <2>2, <2>3
  <2> QED BY <1>1, <1>2, <1>6, <2>1, <2>2, <2>4
<1>9. CASE DelimiterEnds
  <2>1. /\ Storing /\ next' \in {next, next + 1} /\ thread' = thread
        /\ packet' = <<>> /\ packetLen' = 0 /\ discard' = FALSE
    BY <1>9 DEF DelimiterEnds, NewPacket
  <2>2. packet' \in Seq(1..Len(sent)) /\ packetLen' \in Nat /\ packetLen' <= Len(packet')
    BY <2>1
  <2>3. next' \in Nat /\ packetLen' <= MaxPacketSize
    BY <1>1, <1>2, <2>1
  <2> QED BY <1>1, <1>6, <2>1, <2>2, <2>3
<1> QED BY <1>5, <1>7, <1>8, <1>9

THEOREM PacketCorrect == Spec => []PacketInv
<1>1. ASSUME Init PROVE PacketInv
  <2>1. /\ thread = "start" /\ next = 0 /\ packet = <<>> /\ packetLen = 0 /\ discard = FALSE
        /\ 0 <= MaxPacketSize
    BY <1>1, MaxPacketSizeAssumption DEF Init
  <2>2. CapacitySuffices
    BY <2>1 DEF CapacitySuffices
  <2>3. packet \in Seq(1..Len(sent)) /\ packetLen <= Len(packet)
    BY <2>1
  <2>4. next \in Nat /\ packetLen \in Nat /\ discard \in BOOLEAN
    BY <2>1
  <2> QED BY <2>1, <2>2, <2>3, <2>4 DEF PacketInv
<1>2. ReadInv /\ ThreadInv /\ PacketInv /\ [Next]_vars => PacketInv'
  <2> SUFFICES ASSUME ReadInv, ThreadInv, PacketInv, [Next]_vars PROVE PacketInv'
    OBVIOUS
  <2> DEFINE Kept == UNCHANGED <<session, sent, next, packet, packetLen, discard>>
             Alone == Kept /\ (thread' = thread
                               \/ /\ thread' \notin {"bytes", "undefined"}
                                  /\ thread \in {"start", "ended"} => thread' \in {"start", "ended"})
  <2>1. CASE Alone
    BY <2>1 DEF PacketInv, CapacitySuffices, Class, Capacity, MaxDelimiterSize
  <2>2. CASE Start
    <3>1. CASE thread' = "ended"
      BY <2>1, <2>2, <3>1 DEF Start, portVars, streamVars, packetVars
    <3>2. CASE thread' = "loop"
      <4>1. Kept /\ (Class("packet") => MaxDelimiterSize * MaxPacketSize # 0)
        BY <2>2, <3>2 DEF Start, portVars, streamVars, packetVars
      <4>2. MaxDelimiterSize \in Nat /\ MaxPacketSize \in Nat
        BY LargestDelimiter, MaxPacketSizeAssumption DEF kMaxSize
      <4>3. Class("packet") => MaxDelimiterSize > 0 /\ MaxPacketSize > 0
        <5> HIDE DEF MaxDelimiterSize
        <5> QED BY <4>1, <4>2
      <4>4. Class("packet")' = Class("packet") /\ MaxDelimiterSize' = MaxDelimiterSize
            /\ Capacity' = Capacity
        BY <4>1 DEF Class, MaxDelimiterSize, Capacity
      <4> QED BY <3>2, <4>1, <4>3, <4>4 DEF PacketInv, CapacitySuffices
    <3> QED BY <2>2, <3>1, <3>2 DEF Start
  <2>3. CASE Call \/ End \/ Client
    BY <2>1, <2>3 DEF Call, BeginRead, End, Client, Chunk, ChunkAgain, Acknowledge, FillBuffer,
                      EndRead, portVars, streamVars, packetVars
  <2>4. CASE Gap
    <3>1. /\ sent' = sent /\ session' = session /\ next' = next
          /\ thread = "read" /\ thread' = "loop"
          /\ \/ UNCHANGED <<packet, packetLen, discard>>
             \/ packet' = <<>> /\ packetLen' = 0 /\ discard' = FALSE
      BY <2>4 DEF Gap, FillBuffer, EndRead, NewPacket, streamVars
    <3>2. CASE UNCHANGED <<packet, packetLen, discard>>
      BY <2>1, <3>1, <3>2
    <3>3. CASE packet' = <<>> /\ packetLen' = 0 /\ discard' = FALSE
      <4>1. packetLen' <= MaxPacketSize
        BY <3>3, MaxPacketSizeAssumption
      <4>2. CapacitySuffices'
        BY <3>1, <3>3, <4>1 DEF CapacitySuffices
      <4>3. packet' \in Seq(1..Len(sent')) /\ packetLen' <= Len(packet')
        BY <3>3
      <4>4. packetLen' \in Nat /\ discard' \in BOOLEAN
        BY <3>3
      <4> QED BY <3>1, <4>2, <4>3, <4>4 DEF PacketInv, Class, MaxDelimiterSize
    <3> QED BY <3>1, <3>2, <3>3
  <2>5. CASE BeginChunk
    BY <2>5 DEF BeginChunk, FillBuffer, EndRead, streamVars, PacketInv, CapacitySuffices, Class,
                Capacity, MaxDelimiterSize
  <2>6. CASE ChunkDone
    BY <2>6 DEF ChunkDone, portVars, streamVars, PacketInv, CapacitySuffices, Class,
                Capacity, MaxDelimiterSize
  <2>7. CASE Reading
    BY <2>1, <2>7 DEF Reading, ReadData, ReadNothing, ReadFails, TestMode, SwitchMode,
                      streamVars, packetizerVars, packetVars
  <2>8. CASE BeginDestruction
    BY <2>1, <2>8 DEF BeginDestruction, portVars, streamVars, packetVars
  <2>9. ASSUME NEW d \in Devices, CloseDevice(d) \/ Destroy(d) PROVE PacketInv'
    BY <2>1, <2>9 DEF CloseDevice, Destroy, CloseSettings, CloseNonblock, Release, streamVars,
                      packetizerVars, packetVars
  <2>10. ASSUME NEW d \in Devices, Constructing(d) /\ UNCHANGED packetizerVars PROVE PacketInv'
    BY <2>1, <2>10 DEF Constructing, Open, LockTerminal, InitTerminal, InitFails, streamVars,
                       packetizerVars, packetVars
  <2>11. ASSUME NEW c \in LineClients, SettingLines(c) /\ UNCHANGED packetizerVars
         PROVE  PacketInv'
    BY <2>1, <2>11 DEF SettingLines, SetLineReads, SetLineWrites, SetLineCannotRead,
                       SetLineCannotWrite, streamVars, packetizerVars,
                       packetVars
  <2>12. ASSUME NEW b \in Bytes, Arrive(b) /\ UNCHANGED packetizerVars PROVE PacketInv'
    <3>1. sent' = Append(sent, b) /\ session' = session /\ UNCHANGED packetizerVars
      BY <2>12 DEF Arrive
    <3>2. sent \in Seq(Bytes) /\ packet \in Seq(1..Len(sent))
      BY DEF ReadInv, ReadTypes, PacketInv
    <3>3. 1..Len(sent) \subseteq 1..Len(sent')
      BY <3>1, <3>2
    <3>4. packet' \in Seq(1..Len(sent'))
      BY <3>1, <3>2, <3>3, SeqGrows DEF packetizerVars, packetVars
    <3> QED BY <3>1, <3>4 DEF packetizerVars, packetVars, PacketInv, CapacitySuffices, Class,
                              Capacity, MaxDelimiterSize
  <2>13. CASE UNCHANGED vars
    BY <2>1, <2>13 DEF vars, portVars, streamVars, packetizerVars, packetVars
  <2> QED
    BY <2>2, <2>3, <2>4, <2>5, <2>6, <2>7, <2>8, <2>9, <2>10, <2>11, <2>12, <2>13,
       ProcessingKeepsPacket DEF Next, ThreadStep, Packetizer
<1> QED BY <1>1, <1>2, BytesCorrect, ThreadCorrect, PTL DEF Spec

\* A packet of the maximal size and what may become the delimiter behind it are
\* never stored beyond the packetizer's array, for any delimiters and any size;
\* what is stored beyond it belongs to a packet that is discarded.
THEOREM CapacityIsEnough == Spec => []CapacitySuffices
<1>1. PacketInv => CapacitySuffices
  BY DEF PacketInv
<1> QED BY <1>1, PacketCorrect, PTL

-----------------------------------------------------------------------------
(* The gap between two bursts                                              *)

\* In gap mode the device waits for the first byte of a burst with VMIN 1, and
\* while it reads the rest of the burst, a read() that returned 0 is one whose
\* switch back is still to come.
GapInv ==
    /\ Config(Port).gap_sync => state[Port] # "kTimeout"
    /\ Config(Port).gap_sync /\ life[Port] \in SetUp /\ state[Port] = "kWaiting"
         => options[Port].vmin = 1
    /\ state[Port] = "kReading" /\ quiet => reader \in {"test", "switch"} /\ result = 0
    /\ reader \in {"test", "switch"} /\ result > 0 => ~ quiet

LEMMA InitWaits ==
    ASSUME NEW set \in Termios, NEW config \in Configuration, Accepted(config), config.gap_sync
    PROVE  InitOptions(set, config).vmin = 1
<1> DEFINE f4 == WithFlowControl(WithStopBits(WithParityChecks(WithParity(set.flags, config.parity)),
                                              config.stop_bits), config.flow_control)
           conf == [set EXCEPT !.speed = Baudrate(config.baudrate), !.size = CharacterBits(config),
                               !.flags = f4]
<1>1. SetConfig(set, config) = conf
  BY DEF SetConfig
<1> HIDE DEF f4
<1>2. DOMAIN conf = {"speed", "size", "flags", "vmin", "vtime"}
  BY DEF Termios
<1>3. InitOptions(set, config) =
        [conf EXCEPT !.flags = (@ \ {"ICANON", "ECHO", "ECHOE", "ISIG", "OPOST"})
                                 \cup {"CREAD", "CLOCAL"},
                     !.vmin = 1, !.vtime = Deciseconds(config.timeout)]
  BY <1>1 DEF InitOptions, SetRaw
<1> HIDE DEF conf
<1> QED BY <1>2, <1>3

\* What a step does to the reader and to the mode.
LEMMA ModeSteps ==
    ASSUME ThreadInv, [Next]_vars
    PROVE  \/ ReadNothing \/ ReadFails \/ TestMode \/ SwitchMode
           \/ \E n \in 1..BufferSize : ReadData(n)
           \/ BeginRead \/ EndRead
           \/ /\ UNCHANGED readVars
              /\ \/ UNCHANGED deviceVars
                 \/ \E d \in Devices :
                      Constructing(d) \/ CloseSettings(d) \/ CloseNonblock(d) \/ Release(d)
<1>1. CASE ThreadStep \/ End
  <2>1. CASE Start \/ ChunkAgain \/ End \/ Overrun \/ PacketByte \/ DelimiterByte \/ DelimiterEnds
             \/ ChunkDone
    BY <2>1 DEF Start, ChunkAgain, End, Overrun, PacketByte, DelimiterByte, DelimiterEnds,
                ChunkDone, portVars
  <2>2. CASE \E size \in 0..BufferSize + 1 : Acknowledge(size)
    BY <2>2 DEF Acknowledge, portVars
  <2>3. CASE Call \/ Chunk \/ Gap \/ BeginChunk
    BY <2>3 DEF Call, Chunk, Gap, BeginChunk, FillBuffer
  <2>4. CASE Reading
    BY <2>4 DEF Reading
  <2> QED BY <1>1, <2>1, <2>2, <2>3, <2>4 DEF ThreadStep, Packetizer, Client
<1>2. CASE BeginDestruction
  BY <1>2 DEF BeginDestruction, portVars
<1>3. ASSUME NEW d \in Devices, CloseDevice(d) \/ Destroy(d)
      PROVE  /\ UNCHANGED readVars
             /\ CloseSettings(d) \/ CloseNonblock(d) \/ Release(d)
  BY <1>3 DEF CloseDevice, Destroy, CloseSettings, CloseNonblock, Release
<1>4. ASSUME NEW d \in Devices, Constructing(d) PROVE UNCHANGED readVars
  BY <1>4 DEF Constructing, Open, LockTerminal, InitTerminal, InitFails
<1>5. ASSUME NEW c \in LineClients, SettingLines(c) PROVE UNCHANGED readVars /\ UNCHANGED deviceVars
  BY <1>5 DEF SettingLines, SetLineReads, SetLineWrites, SetLineCannotRead, SetLineCannotWrite
<1>6. ASSUME NEW b \in Bytes, Arrive(b) PROVE UNCHANGED readVars /\ UNCHANGED deviceVars
  BY <1>6 DEF Arrive
<1>7. CASE UNCHANGED vars
  BY <1>7 DEF vars, portVars
<1> QED BY <1>1, <1>2, <1>3, <1>4, <1>5, <1>6, <1>7 DEF Next

LEMMA ReadingKeepsGaps ==
    ASSUME GapInv, ReadInv, session' = session,
           \/ ReadNothing \/ ReadFails \/ TestMode
           \/ \E n \in 1..BufferSize : ReadData(n)
           \/ BeginRead \/ EndRead
    PROVE  GapInv'
<1> USE DEF GapInv
<1>1. Config(Port)' = Config(Port)
  BY DEF Config
<1>2. UNCHANGED deviceVars => UNCHANGED <<state, options, life>>
  BY DEF deviceVars
<1>3. CASE ReadNothing \/ ReadFails
  BY <1>1, <1>2, <1>3 DEF ReadNothing, ReadFails
<1>4. CASE TestMode
  BY <1>1, <1>2, <1>4 DEF TestMode
<1>5. ASSUME NEW n \in 1..BufferSize, ReadData(n) PROVE GapInv'
  BY <1>1, <1>2, <1>5 DEF ReadData
<1>6. CASE BeginRead \/ EndRead
  BY <1>1, <1>2, <1>6 DEF BeginRead, EndRead
<1> QED BY <1>3, <1>4, <1>5, <1>6

LEMMA SwitchKeepsGaps ==
    ASSUME GapInv, TerminalInv, session' = session, SwitchMode
    PROVE  GapInv'
<1>1. /\ Config(Port)' = Config(Port)
      /\ reader = "switch" /\ reader' = "returned"
      /\ UNCHANGED <<life, quiet, result>>
      /\ Port \in DOMAIN state /\ Port \in DOMAIN options
      /\ options[Port] \in Termios
  BY DevicesAssumption DEF Config, SwitchMode, TerminalInv, DeviceTypes
<1>2. CASE GapEnds /\ EnterMode("kWaiting", 1)
  <2> DEFINE set == [options[Port] EXCEPT !.vmin = 1]
  <2>1. set.vmin = 1
    BY <1>1, ShorterRead
  <2> HIDE DEF set
  <2>2. state'[Port] = "kWaiting" /\ options'[Port] = set
    BY <1>1, <1>2 DEF EnterMode, set
  <2> QED BY <1>1, <2>1, <2>2 DEF GapInv
<1>3. CASE BurstBegins /\ EnterMode("kReading", 0)
  <2>1. state'[Port] = "kReading" /\ ~ quiet
    BY <1>1, <1>3 DEF EnterMode, BurstBegins, GapInv
  <2> QED BY <1>1, <2>1 DEF GapInv
<1>4. CASE ~ GapEnds /\ ~ BurstBegins /\ UNCHANGED <<state, options, tty>>
  BY <1>1, <1>4 DEF GapEnds, GapInv
<1> QED BY <1>2, <1>3, <1>4 DEF SwitchMode

LEMMA DevicesKeepGaps ==
    ASSUME GapInv, TerminalInv, session' = session, UNCHANGED readVars, NEW d \in Devices,
           Constructing(d) \/ CloseSettings(d) \/ CloseNonblock(d) \/ Release(d)
    PROVE  GapInv'
<1> USE DevicesAssumption
<1>1. /\ Config(Port)' = Config(Port) /\ UNCHANGED <<reader, quiet, result>>
      /\ life \in [Devices -> {"new", "opened", "locked", "ready", "closing", "closed",
                               "invalid", "gone"}]
      /\ state \in [Devices -> States] /\ options \in [Devices -> Termios]
  BY DEF Config, readVars, TerminalInv, DeviceTypes
<1>2. CASE Open(d) \/ LockTerminal(d) \/ InitFails(d) \/ Release(d)
  BY <1>1, <1>2 DEF Open, LockTerminal, InitFails, Release, Enter, SetUp, GapInv
<1>3. CASE InitTerminal(d)
  <2>1. Config(d).gap_sync => InitOptions(tty, Config(d)).vmin = 1
    BY <1>3, ConfigType, InitWaits DEF InitTerminal, TerminalInv, DeviceTypes
  <2> DEFINE set == InitOptions(tty, Config(d))
  <2>2. /\ options' = [options EXCEPT ![d] = set] /\ life' = [life EXCEPT ![d] = "ready"]
        /\ state' = state
    BY <1>3 DEF InitTerminal, Enter
  <2> HIDE DEF set
  <2>3. Config(d).gap_sync => set.vmin = 1
    BY <2>1 DEF set
  <2> QED BY <1>1, <2>2, <2>3 DEF GapInv, SetUp
<1>4. CASE CloseSettings(d)
  <2>1. /\ life[d] = "ready" /\ life' = [life EXCEPT ![d] = "closing"]
        /\ state' = [state EXCEPT ![d] = "kShutdown"]
        /\ \A e \in Devices : e # d => options'[e] = options[e]
    BY <1>1, <1>4 DEF CloseSettings, Enter
  <2> QED BY <1>1, <2>1 DEF GapInv, SetUp
<1>5. CASE CloseNonblock(d)
  BY <1>1, <1>5 DEF CloseNonblock, Enter, SetUp, GapInv
<1> QED BY <1>2, <1>3, <1>4, <1>5 DEF Constructing

THEOREM GapsCorrect == Spec => []GapInv
<1>1. Init => GapInv
  <2> SUFFICES ASSUME Init PROVE GapInv
    OBVIOUS
  <2>1. /\ Port \in Devices /\ life[Port] = "new" /\ reader = "idle"
        /\ state[Port] = IF Config(Port).gap_sync THEN "kWaiting" ELSE "kTimeout"
    BY DevicesAssumption DEF Init, PortInit
  <2> QED BY <2>1 DEF GapInv, SetUp
<1>2. GapInv /\ ThreadInv /\ TerminalInv /\ ReadInv /\ [Next]_vars => GapInv'
  <2> SUFFICES ASSUME GapInv, ThreadInv, TerminalInv, ReadInv, [Next]_vars PROVE GapInv'
    OBVIOUS
  <2>1. session' = session
    BY DeviceSteps
  <2>2. CASE UNCHANGED readVars /\ UNCHANGED deviceVars
    BY <2>1, <2>2 DEF readVars, deviceVars, GapInv, Config
  <2> QED BY <2>1, <2>2, ModeSteps, ReadingKeepsGaps, SwitchKeepsGaps, DevicesKeepGaps
<1> QED BY <1>1, <1>2, ThreadCorrect, TerminalCorrect, BytesCorrect, PTL DEF Spec

\* In gap mode read() returns 0 once for every burst, for every configuration
\* and with Close and other devices at any moment.
THEOREM GapsAreReportedOnce == Spec => GapsAreSeparated
<1> DEFINE Separated ==
        reader = "reading" /\ reader' = "test" /\ result' = 0
        /\ Config(Port).gap_sync /\ state[Port] # "kShutdown" => ~ quiet
<1>1. GapInv /\ ThreadInv /\ TerminalInv /\ [Next]_vars => [Separated]_portVars
  <2> SUFFICES ASSUME GapInv, ThreadInv, TerminalInv, [Next]_vars,
                      reader = "reading", reader' = "test", result' = 0,
                      Config(Port).gap_sync, state[Port] # "kShutdown"
               PROVE  ~ quiet
    BY DEF Separated
  <2>1. ReadNothing
    <3>1. \A n \in 1..BufferSize : ReadData(n) => result' # 0
      BY DEF ReadData
    <3>2. ReadFails => result' = -1
      BY DEF ReadFails
    <3>3. (BeginRead \/ EndRead \/ TestMode \/ SwitchMode) => reader # "reading"
      BY DEF BeginRead, EndRead, TestMode, SwitchMode
    <3>4. ~ UNCHANGED readVars
      BY DEF readVars
    <3> QED BY ModeSteps, <3>1, <3>2, <3>3, <3>4
  <2>2. tty.vmin = 0
    BY <2>1 DEF ReadNothing
  <2>3. life[Port] \in SetUp /\ tty = options[Port]
    BY DevicesAssumption DEF ThreadInv, TerminalInv, HasTerminal
  <2>4. state[Port] \in States
    BY DevicesAssumption DEF TerminalInv, DeviceTypes
  <2>5. state[Port] = "kReading"
    BY <2>2, <2>3, <2>4 DEF GapInv, States
  <2> QED BY <2>5 DEF GapInv
<1>2. [][Separated]_portVars <=> GapsAreSeparated
  BY DEF GapsAreSeparated
<1> QED BY <1>1, <1>2, GapsCorrect, ThreadCorrect, TerminalCorrect, PTL DEF Spec

-----------------------------------------------------------------------------
(* Type correctness                                                        *)

\* What the parts above do not say of the types.
RestInv ==
    /\ thread \in {"start", "loop", "read", "bytes", "held", "ended", "undefined"}
    /\ running \in BOOLEAN /\ quiet \in BOOLEAN /\ events \in Nat
    /\ next <= rxLen
    /\ thread \notin {"bytes", "undefined"} => next = 0
    /\ gaps \subseteq 0..taken
    /\ delivered \in Seq(Seq(1..Len(sent)))

LEMMA PacketsGrow ==
    ASSUME NEW m \in Nat, NEW n \in Nat, m <= n, NEW seq \in Seq(Seq(1..m))
    PROVE  seq \in Seq(Seq(1..n))
<1>1. 1..m \subseteq 1..n
  OBVIOUS
<1>2. Seq(1..m) \subseteq Seq(1..n)
  BY <1>1, SeqGrows
<1> QED BY <1>2, SeqGrows

\* How many bytes are removed, and where in the buffer the others are.
LEMMA BufferBounds ==
    ASSUME ReadInv
    PROVE  rxLen \in 0..BufferSize /\ rxIndex \in 0..BufferSize /\ removed \in 0..taken
<1>1. /\ rxLen \in Nat /\ rxIndex \in Nat /\ removed \in Nat /\ taken \in Nat
      /\ Len(buffer) \in Nat /\ Len(buffer) <= BufferSize /\ BufferSize \in Nat
      /\ result \in Int
  BY BufferAssumption DEF ReadInv, ReadTypes
<1>2. rxLen <= BufferSize /\ rxIndex <= BufferSize
  BY <1>1 DEF ReadInv
<1>3. removed <= taken
  BY <1>1 DEF ReadInv, ReadSize
<1> QED BY <1>1, <1>2, <1>3

LEMMA DeliveryKeepsTypes ==
    ASSUME NEW n \in Nat, delivered \in Seq(Seq(1..n)),
           NEW p \in Seq(1..n), packetLen \in Nat, packetLen <= Len(p), Deliver(p)
    PROVE  delivered' \in Seq(Seq(1..n))
<1> DEFINE one == SubSeq(p, 1, packetLen)
<1>1. one \in Seq(1..n)
  OBVIOUS
<1> HIDE DEF one
<1>2. Append(delivered, one) \in Seq(Seq(1..n))
  BY <1>1
<1> QED BY <1>2 DEF Deliver, one

LEMMA PacketizingKeepsTypes ==
    ASSUME ReadInv, ThreadInv, PacketInv, RestInv, Packetizer
    PROVE  RestInv'
<1>1. /\ rxLen \in Nat /\ next \in Nat /\ removed \in 0..taken /\ Len(sent) \in Nat
      /\ packet \in Seq(1..Len(sent)) /\ packetLen \in Nat /\ packetLen <= Len(packet)
  BY BufferBounds DEF ReadInv, ReadTypes, PacketInv
<1>2. CASE Gap
  <2>1. /\ thread = "read" /\ thread' = "loop" /\ next' = next /\ rxLen' = ReadSize
        /\ gaps' = gaps \cup {removed}
        /\ delivered' = delivered \/ Deliver(packet)
        /\ UNCHANGED <<running, quiet, events, sent, taken>> /\ ReadSize \in Nat
    BY <1>2, BufferAssumption
       DEF Gap, FillBuffer, EndRead, streamVars, ReadSize, ReadInv, ReadTypes
  <2>2. delivered' \in Seq(Seq(1..Len(sent)))
    BY <1>1, <2>1, DeliveryKeepsTypes DEF RestInv
  <2> QED BY <1>1, <2>1, <2>2 DEF RestInv
<1>3. CASE BeginChunk
  <2>1. ReadSize \in Nat
    BY BufferAssumption DEF ReadSize, ReadInv, ReadTypes
  <2> QED BY <1>3, <2>1 DEF BeginChunk, FillBuffer, EndRead, streamVars, RestInv
<1>4. CASE Overrun
  BY <1>4 DEF Overrun, portVars, streamVars, readVars, rxVars, packetVars, RestInv
<1>5. CASE PacketByte \/ DelimiterByte
  <2>1. /\ thread = "bytes" /\ thread' = thread /\ next' = next + 1 /\ next < rxLen
        /\ UNCHANGED <<running, quiet, events, sent, taken, rxLen, gaps, delivered>>
    BY <1>5 DEF PacketByte, DelimiterByte, Storing, portVars, streamVars, readVars, rxVars
  <2> QED BY <1>1, <2>1 DEF RestInv
<1>6. CASE DelimiterEnds
  <2>1. /\ Storing /\ thread' = thread /\ next' \in {next, next + 1} /\ next < rxLen
        /\ thread = "bytes" /\ Deliver(Stored)
        /\ UNCHANGED <<running, quiet, events, sent, taken, rxLen, gaps>>
    BY <1>6 DEF DelimiterEnds, Storing, portVars, streamVars, readVars, rxVars
  <2>2. Stored \in Seq(1..Len(sent)) /\ Len(Stored) = Len(packet) + 1
    BY <2>1, StoredByte
  <2> HIDE DEF Stored
  <2>3. packetLen <= Len(Stored)
    BY <1>1, <2>2
  <2>4. delivered' \in Seq(Seq(1..Len(sent)))
    BY <1>1, <2>1, <2>2, <2>3, DeliveryKeepsTypes DEF RestInv
  <2> QED BY <1>1, <2>1, <2>4 DEF RestInv
<1>7. CASE ChunkDone
  <2>1. /\ next' = 0 /\ thread' = "loop" /\ rxLen' \in Nat
        /\ UNCHANGED <<running, quiet, events, sent, taken, gaps, delivered>>
    BY <1>1, <1>7 DEF ChunkDone, RemoveChunk, portVars, streamVars, readVars
  <2> QED BY <2>1 DEF RestInv
<1> QED BY <1>2, <1>3, <1>4, <1>5, <1>6, <1>7 DEF Packetizer

LEMMA ReadingKeepsTypes ==
    ASSUME ReadInv, RestInv, Reading
    PROVE  RestInv'
<1>1. /\ UNCHANGED <<sent, packetizerVars>>
      /\ quiet' \in BOOLEAN /\ events' \in Nat /\ taken \in Nat
      /\ taken' = taken \/ \E n \in 1..BufferSize : taken' = taken + n
  <2>1. UNCHANGED packetizerVars /\ taken \in Nat
    BY DEF Reading, ReadInv, ReadTypes
  <2>2. ASSUME NEW n \in 1..BufferSize, ReadData(n)
        PROVE  UNCHANGED <<sent, events>> /\ quiet' = FALSE /\ taken' = taken + n
    BY <2>2 DEF ReadData
  <2>3. CASE ReadNothing
    BY <2>1, <2>3 DEF ReadNothing, streamVars, RestInv
  <2>4. CASE ReadFails
    <3>1. UNCHANGED <<sent, taken, quiet>> /\ (events' = events \/ events' = events + 1)
      BY <2>4 DEF ReadFails, CountEvent, streamVars
    <3> QED BY <2>1, <3>1 DEF RestInv
  <2>5. CASE TestMode \/ SwitchMode
    BY <2>1, <2>5 DEF TestMode, SwitchMode, streamVars, RestInv
  <2> QED BY <2>1, <2>2, <2>3, <2>4, <2>5 DEF Reading, RestInv
<1>2. 0..taken \subseteq 0..taken'
  BY <1>1, BufferAssumption
<1> QED BY <1>1, <1>2 DEF packetizerVars, packetVars, rxVars, RestInv

THEOREM RestCorrect == Spec => []RestInv
<1>1. ASSUME Init PROVE RestInv
  <2>1. 0 <= rxLen /\ gaps = {} /\ delivered = <<>>
    BY <1>1 DEF Init
  <2>2. delivered \in Seq(Seq(1..Len(sent)))
    BY <2>1
  <2> QED BY <1>1, <2>1, <2>2 DEF Init, PortInit, RestInv
<1>2. ReadInv /\ ThreadInv /\ PacketInv /\ RestInv /\ [Next]_vars => RestInv'
  <2> SUFFICES ASSUME ReadInv, ThreadInv, PacketInv, RestInv, [Next]_vars PROVE RestInv'
    OBVIOUS
  <2>1. rxLen \in Nat /\ removed \in 0..taken /\ Len(sent) \in Nat
    BY BufferBounds DEF ReadInv, ReadTypes
  <2> DEFINE Kept == UNCHANGED <<running, quiet, events, next, rxLen, gaps, taken, sent, delivered>>
  <2>2. CASE Start \/ Call \/ End \/ ChunkAgain
    <3>1. Kept /\ thread \notin {"bytes", "undefined"} /\ thread' \in {"loop", "ended", "read", "held"}
      BY <2>2 DEF Start, Call, BeginRead, End, ChunkAgain, portVars, streamVars, readVars, rxVars,
                  packetVars
    <3> QED BY <3>1 DEF RestInv
  <2>3. CASE Chunk
    <3>1. ReadSize \in Nat
      BY BufferAssumption DEF ReadSize, ReadInv, ReadTypes
    <3>2. /\ thread = "read" /\ thread' = "held" /\ rxLen' = ReadSize
          /\ UNCHANGED <<running, quiet, events, next, gaps, taken, sent, delivered>>
      BY <2>3 DEF Chunk, FillBuffer, EndRead, streamVars, packetVars
    <3> QED BY <3>1, <3>2 DEF RestInv
  <2>4. ASSUME NEW size \in 0..BufferSize + 1, Acknowledge(size) PROVE RestInv'
    <3>1. /\ thread = "held" /\ thread' = "loop" /\ rxLen' \in Nat
          /\ UNCHANGED <<running, quiet, events, next, gaps, taken, sent, delivered>>
      BY <2>1, <2>4, BufferAssumption
         DEF Acknowledge, RemoveChunk, portVars, streamVars, readVars, packetVars
    <3> QED BY <3>1 DEF RestInv
  <2>5. CASE BeginDestruction
    BY <2>5 DEF BeginDestruction, portVars, streamVars, readVars, rxVars, packetVars, RestInv
  <2>6. ASSUME NEW d \in Devices,
               CloseDevice(d) \/ Destroy(d) \/ (Constructing(d) /\ UNCHANGED packetizerVars)
        PROVE  RestInv'
    <3>1. /\ UNCHANGED <<quiet, taken, sent, packetizerVars>> /\ events' \in Nat
      BY <2>6 DEF CloseDevice, Destroy, Constructing, CloseSettings, CloseNonblock, Release, Open,
                  LockTerminal, InitTerminal, InitFails, CountEvent, streamVars, readVars, RestInv
    <3> QED BY <3>1 DEF packetizerVars, packetVars, rxVars, RestInv
  <2>7. ASSUME NEW c \in LineClients, SettingLines(c) /\ UNCHANGED packetizerVars
        PROVE  RestInv'
    <3>1. /\ UNCHANGED <<quiet, taken, sent, packetizerVars>> /\ events' \in Nat
      BY <2>7 DEF SettingLines, SetLineReads, SetLineWrites, SetLineCannotRead, SetLineCannotWrite,
                  CountEvent, streamVars, readVars, RestInv
    <3> QED BY <3>1 DEF packetizerVars, packetVars, rxVars, RestInv
  <2>8. ASSUME NEW b \in Bytes, Arrive(b) /\ UNCHANGED packetizerVars PROVE RestInv'
    <3>1. sent' = Append(sent, b) /\ UNCHANGED <<taken, quiet, events, packetizerVars>>
      BY <2>8 DEF Arrive, readVars
    <3>2. Len(sent') \in Nat /\ Len(sent) <= Len(sent')
      BY <3>1 DEF ReadInv, ReadTypes
    <3>3. delivered \in Seq(Seq(1..Len(sent')))
      BY <2>1, <3>2, PacketsGrow DEF RestInv
    <3> QED BY <3>1, <3>3 DEF packetizerVars, packetVars, rxVars, RestInv
  <2>9. CASE UNCHANGED vars
    BY <2>9 DEF vars, portVars, streamVars, readVars, packetizerVars, rxVars, packetVars, RestInv
  <2> QED
    BY <2>2, <2>3, <2>4, <2>5, <2>6, <2>7, <2>8, <2>9, PacketizingKeepsTypes, ReadingKeepsTypes
       DEF Next, ThreadStep, Client
<1> QED BY <1>1, <1>2, BytesCorrect, ThreadCorrect, PacketCorrect, PTL DEF Spec

\* Every variable keeps its type: the settings that the modes and Close change
\* field by field stay settings, the chunk stays inside the buffer, and a packet
\* and what was delivered hold only bytes that arrived.
THEOREM TypeCorrect == Spec => []TypeOK
<1>1. TerminalInv /\ LinesInv /\ ReadInv /\ PacketInv /\ RestInv => TypeOK
  <2> SUFFICES ASSUME TerminalInv, LinesInv, ReadInv, PacketInv, RestInv PROVE TypeOK
    OBVIOUS
  <2>1. PortTypeOK
    <3>1. RestInv => quiet \in BOOLEAN /\ events \in Nat
      BY DEF RestInv
    <3>2. TerminalInv => DeviceTypes
      BY DEF TerminalInv
    <3>3. LinesInv => LineTypes
      BY DEF LinesInv
    <3>4. ReadInv => ReadTypes
      BY DEF ReadInv
    <3>5. DeviceTypes /\ LineTypes /\ ReadTypes /\ quiet \in BOOLEAN /\ events \in Nat => PortTypeOK
      BY Zenon DEF DeviceTypes, LineTypes, ReadTypes, PortTypeOK
    <3> QED BY <3>1, <3>2, <3>3, <3>4, <3>5
  <2>2. rxLen \in 0..BufferSize /\ rxIndex \in 0..BufferSize /\ removed \in 0..taken
    BY BufferBounds
  <2>3. next \in 0..rxLen
    BY <2>2 DEF PacketInv, RestInv
  <2>4. packet \in Seq(1..Len(sent)) /\ packetLen \in 0..Len(packet) /\ discard \in BOOLEAN
    BY DEF PacketInv
  <2> QED BY <2>1, <2>2, <2>3, <2>4 DEF RestInv, TypeOK
<1> QED BY <1>1, TerminalCorrect, LinesCorrect, BytesCorrect, PacketCorrect, RestCorrect, PTL

-----------------------------------------------------------------------------
(* The delimiters and the search for them                                  *)

\* A whole delimiter, the beginning of one, and what one begins with.
IsDelimiter(s) == \E n \in DOMAIN Delimiters : Delimiters[n] = s
Beginning(s) == s = <<>> \/ \E n \in DOMAIN Delimiters : MayBecome(s, n)
FirstBytes == {Delimiters[n][1] : n \in DOMAIN Delimiters}

\* A prefix byte by byte.
LEMMA PrefixLemma ==
    ASSUME NEW S, NEW s \in Seq(S), NEW t \in Seq(S)
    PROVE  IsPrefix(s, t) <=> Len(s) <= Len(t) /\ \A i \in 1..Len(s) : s[i] = t[i]
<1>1. Len(s) \in Nat /\ Len(t) \in Nat
  OBVIOUS
<1>2. SubSeq(s, 1, Len(s)) = s
  OBVIOUS
<1>3. ASSUME Len(s) <= Len(t)
      PROVE  /\ SubSeq(t, 1, Len(s)) \in Seq(S) /\ Len(SubSeq(t, 1, Len(s))) = Len(s)
             /\ \A i \in 1..Len(s) : SubSeq(t, 1, Len(s))[i] = t[i]
  BY <1>1, <1>3
<1>4. ASSUME NEW r \in Seq(S), Len(r) = Len(s), \A i \in 1..Len(s) : r[i] = s[i] PROVE r = s
  BY <1>4
<1> QED BY <1>2, <1>3, <1>4 DEF IsPrefix

\* The delimiters byte by byte.
LEMMA ListedLemma ==
    ASSUME BeginningsListed
    PROVE  /\ DOMAIN Delimiters \in SUBSET Nat
           /\ \A n \in DOMAIN Delimiters :
                /\ Delimiters[n] \in Seq(Bytes)
                /\ Len(Delimiters[n]) \in Nat /\ Len(Delimiters[n]) >= 1
                /\ \A i \in 1..Len(Delimiters[n]) : Delimiters[n][i] \in Bytes
           /\ \A n \in DOMAIN Delimiters : \A l \in 1..Len(Delimiters[n]) :
                \E m \in DOMAIN Delimiters :
                  Len(Delimiters[m]) = l /\ \A i \in 1..l : Delimiters[m][i] = Delimiters[n][i]
           /\ \A m, n \in DOMAIN Delimiters :
                /\ Len(Delimiters[m]) < Len(Delimiters[n])
                /\ \A i \in 1..Len(Delimiters[m]) : Delimiters[m][i] = Delimiters[n][i]
                => n < m
<1>1. DOMAIN Delimiters \in SUBSET Nat /\ \A n \in DOMAIN Delimiters : Delimiters[n] \in Seq(Bytes)
  BY DelimitersAssumption
<1>2. ASSUME NEW n \in DOMAIN Delimiters
      PROVE  /\ Len(Delimiters[n]) \in Nat /\ Len(Delimiters[n]) >= 1
             /\ \A i \in 1..Len(Delimiters[n]) : Delimiters[n][i] \in Bytes
  <2> DEFINE s == Delimiters[n]
  <2>1. s \in Seq(Bytes) /\ s # <<>>
    BY <1>1 DEF BeginningsListed
  <2> HIDE DEF s
  <2>2. Len(s) \in Nat /\ Len(s) >= 1 /\ \A i \in 1..Len(s) : s[i] \in Bytes
    BY <2>1
  <2> QED BY <2>2 DEF s
<1>3. ASSUME NEW n \in DOMAIN Delimiters, NEW l \in 1..Len(Delimiters[n])
      PROVE  \E m \in DOMAIN Delimiters :
               Len(Delimiters[m]) = l /\ \A i \in 1..l : Delimiters[m][i] = Delimiters[n][i]
  <2> DEFINE s == Delimiters[n]
  <2>1. PICK m \in DOMAIN Delimiters : Delimiters[m] = SubSeq(s, 1, l)
    BY DEF BeginningsListed
  <2>2. s \in Seq(Bytes) /\ l \in 1..Len(s)
    BY <1>1
  <2> HIDE DEF s
  <2>3. Len(SubSeq(s, 1, l)) = l /\ \A i \in 1..l : SubSeq(s, 1, l)[i] = s[i]
    BY <2>2
  <2> QED BY <2>1, <2>3 DEF s
<1>4. ASSUME NEW m \in DOMAIN Delimiters, NEW n \in DOMAIN Delimiters,
             Len(Delimiters[m]) < Len(Delimiters[n]),
             \A i \in 1..Len(Delimiters[m]) : Delimiters[m][i] = Delimiters[n][i]
      PROVE  n < m
  <2>1. IsPrefix(Delimiters[m], Delimiters[n])
    BY <1>1, <1>2, <1>4, PrefixLemma
  <2> QED BY <1>4, <2>1 DEF BeginningsListed, MayBecome
<1> QED BY <1>1, <1>2, <1>3, <1>4

\* What the search compares, byte by byte.
LEMMA Comparing ==
    ASSUME BeginningsListed, NEW dp \in Seq(Bytes), NEW n \in DOMAIN Delimiters
    PROVE  /\ MayBecome(dp, n) <=>
                /\ Len(dp) < Len(Delimiters[n])
                /\ \A i \in 1..Len(dp) : dp[i] = Delimiters[n][i]
           /\ BeginsWith(dp, n) <=>
                /\ Len(Delimiters[n]) <= Len(dp)
                /\ \A i \in 1..Len(Delimiters[n]) : dp[i] = Delimiters[n][i]
           /\ Delimiters[n] = dp <=>
                /\ Len(Delimiters[n]) = Len(dp)
                /\ \A i \in 1..Len(dp) : dp[i] = Delimiters[n][i]
<1> DEFINE d == Delimiters[n]
<1>1. d \in Seq(Bytes)
  BY ListedLemma
<1> HIDE DEF d
<1>2. IsPrefix(dp, d) <=> Len(dp) <= Len(d) /\ \A i \in 1..Len(dp) : dp[i] = d[i]
  BY <1>1, PrefixLemma
<1>3. IsPrefix(d, dp) <=> Len(d) <= Len(dp) /\ \A i \in 1..Len(d) : d[i] = dp[i]
  BY <1>1, PrefixLemma
<1>4. d = dp <=> Len(d) = Len(dp) /\ \A i \in 1..Len(dp) : dp[i] = d[i]
  BY <1>1
<1>5. Len(d) \in Nat /\ Len(dp) \in Nat
  BY <1>1
<1> QED BY <1>2, <1>3, <1>4, <1>5 DEF d, MayBecome, BeginsWith

\* The search ends at the first delimiter that decides.
LEMMA Searching ==
    ASSUME BeginningsListed, NEW dp \in Seq(Bytes), dp # <<>>, NEW best_match \in BOOLEAN,
           Decisive(dp, best_match) # {}
    PROVE  \E first \in Decisive(dp, best_match) :
             /\ first \in DOMAIN Delimiters
             /\ \A m \in Decisive(dp, best_match) : first <= m
             /\ FindDelimiter(dp, best_match) =
                  IF Len(Delimiters[first]) <= Len(dp) THEN Len(Delimiters[first]) ELSE -Len(dp)
<1> DEFINE decisive == Decisive(dp, best_match)
           first == CHOOSE n \in decisive : \A m \in decisive : n <= m
<1>1. decisive \subseteq DOMAIN Delimiters
  BY DEF Decisive
<1>2. decisive \in SUBSET Nat
  BY <1>1, ListedLemma
<1>3. FindDelimiter(dp, best_match)
        = IF Len(Delimiters[first]) <= Len(dp) THEN Len(Delimiters[first]) ELSE -Len(dp)
  BY DEF FindDelimiter
<1>4. decisive # {}
  OBVIOUS
<1> HIDE DEF decisive
<1>5. first \in decisive /\ \A m \in decisive : first <= m
  BY <1>2, <1>4, FirstOf
<1> HIDE DEF first
<1>6. first \in DOMAIN Delimiters
  BY <1>1, <1>5
<1> QED BY <1>3, <1>5, <1>6 DEF decisive

\* It waits for the next byte of a longer one, ...
LEMMA SearchWaits ==
    ASSUME BeginningsListed, NEW dp \in Seq(Bytes), dp # <<>>,
           NEW n \in DOMAIN Delimiters, MayBecome(dp, n)
    PROVE  FindDelimiter(dp, FALSE) < 0
<1>1. n \in Decisive(dp, FALSE)
  BY DEF Decisive
<1>2. PICK first \in Decisive(dp, FALSE) :
        /\ first \in DOMAIN Delimiters
        /\ \A m \in Decisive(dp, FALSE) : first <= m
        /\ FindDelimiter(dp, FALSE) =
             IF Len(Delimiters[first]) <= Len(dp) THEN Len(Delimiters[first]) ELSE -Len(dp)
  BY <1>1, Searching
<1>3. ASSUME Len(Delimiters[first]) <= Len(dp) PROVE FALSE
  <2>1. Len(Delimiters[first]) \in Nat /\ Len(dp) \in Nat /\ Len(Delimiters[n]) \in Nat
    BY <1>2, ListedLemma
  <2>2. BeginsWith(dp, first)
    BY <1>2, <1>3, <2>1 DEF Decisive, MayBecome
  <2>3. /\ Len(Delimiters[first]) < Len(Delimiters[n])
        /\ \A i \in 1..Len(Delimiters[first]) : Delimiters[first][i] = Delimiters[n][i]
    BY <1>2, <2>1, <2>2, Comparing
  <2>4. n < first /\ first <= n
    BY <1>1, <1>2, <2>3, ListedLemma
  <2>5. n \in Nat /\ first \in Nat
    BY <1>2, ListedLemma
  <2> QED BY <2>4, <2>5
<1>4. Len(dp) \in Nat /\ Len(dp) > 0
  OBVIOUS
<1>5. FindDelimiter(dp, FALSE) = -Len(dp)
  BY <1>2, <1>3
<1> DEFINE found == FindDelimiter(dp, FALSE)
           size == Len(dp)
<1>6. size \in Nat /\ size > 0 /\ found = -size
  BY <1>4, <1>5
<1> HIDE DEF found, size
<1>7. found < 0
  BY <1>6
<1> QED BY <1>7 DEF found

\* ... takes a whole one if there is nothing to wait for, ...
LEMMA SearchTakes ==
    ASSUME BeginningsListed, NEW dp \in Seq(Bytes), IsDelimiter(dp), NEW best_match \in BOOLEAN,
           best_match \/ ~ Beginning(dp)
    PROVE  FindDelimiter(dp, best_match) = Len(dp)
<1>1. PICK j \in DOMAIN Delimiters : Delimiters[j] = dp
  BY DEF IsDelimiter
<1>2. dp # <<>> /\ Len(dp) \in Nat
  BY <1>1 DEF BeginningsListed
<1>3. j \in Decisive(dp, best_match)
  BY <1>1, <1>2, Comparing DEF Decisive
<1>4. PICK first \in Decisive(dp, best_match) :
        /\ first \in DOMAIN Delimiters
        /\ \A m \in Decisive(dp, best_match) : first <= m
        /\ FindDelimiter(dp, best_match) =
             IF Len(Delimiters[first]) <= Len(dp) THEN Len(Delimiters[first]) ELSE -Len(dp)
  BY <1>2, <1>3, Searching
<1>5. BeginsWith(dp, first) /\ Len(Delimiters[first]) <= Len(dp)
  BY <1>4 DEF Decisive, Beginning
<1>6. ASSUME Len(Delimiters[first]) < Len(dp) PROVE FALSE
  <2>1. /\ Len(Delimiters[first]) < Len(Delimiters[j])
        /\ \A i \in 1..Len(Delimiters[first]) : Delimiters[first][i] = Delimiters[j][i]
    BY <1>1, <1>4, <1>5, <1>6, Comparing
  <2>2. j < first /\ first <= j /\ j \in Nat /\ first \in Nat
    BY <1>3, <1>4, <2>1, ListedLemma
  <2> QED BY <2>2
<1>7. Len(Delimiters[first]) \in Nat
  BY <1>4, ListedLemma
<1> QED BY <1>2, <1>4, <1>5, <1>6, <1>7

\* ... the one before the last byte if that byte leads nowhere, ...
LEMMA SearchGoesBack ==
    ASSUME BeginningsListed, NEW u \in Seq(Bytes), IsDelimiter(u), NEW x \in Bytes,
           ~ IsDelimiter(Append(u, x)), ~ Beginning(Append(u, x))
    PROVE  FindDelimiter(Append(u, x), FALSE) = Len(u)
<1> DEFINE dp == Append(u, x)
<1>1. PICK j \in DOMAIN Delimiters : Delimiters[j] = u
  BY DEF IsDelimiter
<1>2. /\ dp \in Seq(Bytes) /\ dp # <<>> /\ Len(u) \in Nat /\ Len(dp) = Len(u) + 1
      /\ \A i \in 1..Len(u) : dp[i] = u[i]
  OBVIOUS
<1>3. ~ IsDelimiter(dp) /\ ~ Beginning(dp)
  OBVIOUS
<1> HIDE DEF dp
<1>4. BeginsWith(dp, j)
  BY <1>1, <1>2, Comparing
<1>5. j \in Decisive(dp, FALSE)
  BY <1>1, <1>2, <1>4 DEF Decisive
<1>6. PICK first \in Decisive(dp, FALSE) :
        /\ first \in DOMAIN Delimiters
        /\ \A m \in Decisive(dp, FALSE) : first <= m
        /\ FindDelimiter(dp, FALSE) =
             IF Len(Delimiters[first]) <= Len(dp) THEN Len(Delimiters[first]) ELSE -Len(dp)
  BY <1>2, <1>5, Searching
<1>7. BeginsWith(dp, first) /\ Len(Delimiters[first]) <= Len(dp)
  BY <1>3, <1>6 DEF Decisive, Beginning
<1>8. Len(Delimiters[first]) \in Nat
  BY <1>6, ListedLemma
<1>9. Len(Delimiters[first]) # Len(dp)
  <2>1. Delimiters[first] # dp
    BY <1>3, <1>6 DEF IsDelimiter
  <2> QED BY <1>2, <1>6, <1>7, <2>1, Comparing
<1>10. ASSUME Len(Delimiters[first]) < Len(u) PROVE FALSE
  <2>1. /\ Len(Delimiters[first]) < Len(Delimiters[j])
        /\ \A i \in 1..Len(Delimiters[first]) : Delimiters[first][i] = Delimiters[j][i]
    <3>1. \A i \in 1..Len(Delimiters[first]) : dp[i] = Delimiters[first][i]
      BY <1>2, <1>6, <1>7, Comparing
    <3>2. \A i \in 1..Len(Delimiters[first]) : i \in 1..Len(u)
      BY <1>2, <1>8, <1>10
    <3> QED BY <1>1, <1>2, <1>10, <3>1, <3>2
  <2>2. j < first /\ first <= j /\ j \in Nat /\ first \in Nat
    BY <1>5, <1>6, <2>1, ListedLemma
  <2> QED BY <2>2
<1>11. Len(Delimiters[first]) = Len(u)
  BY <1>2, <1>7, <1>8, <1>9, <1>10
<1>12. FindDelimiter(dp, FALSE) = Len(Delimiters[first])
  BY <1>6, <1>7
<1> QED BY <1>11, <1>12 DEF dp

\* ... and finds nothing where no delimiter begins.
LEMMA SearchFails ==
    ASSUME BeginningsListed, NEW dp \in Seq(Bytes), dp # <<>>, dp[1] \notin FirstBytes,
           NEW best_match \in BOOLEAN
    PROVE  FindDelimiter(dp, best_match) = 0 /\ ~ Beginning(dp)
<1>1. ASSUME NEW n \in DOMAIN Delimiters PROVE ~ BeginsWith(dp, n) /\ ~ MayBecome(dp, n)
  <2>1. Len(Delimiters[n]) \in Nat /\ Len(Delimiters[n]) >= 1 /\ Len(dp) \in Nat /\ Len(dp) >= 1
    BY ListedLemma
  <2>2. Delimiters[n][1] # dp[1]
    BY DEF FirstBytes
  <2> QED BY <2>1, <2>2, Comparing
<1>2. Decisive(dp, best_match) = {}
  BY <1>1 DEF Decisive
<1> QED BY <1>1, <1>2 DEF FindDelimiter, Beginning


\* What the search finds, by cases.
LEMMA Found ==
    ASSUME BeginningsListed, NEW dp \in Seq(Bytes), NEW best_match \in BOOLEAN
    PROVE  /\ FindDelimiter(dp, best_match) \in Int
           /\ \/ dp = <<>> /\ FindDelimiter(dp, best_match) = 0
              \/ /\ dp # <<>> /\ Decisive(dp, best_match) = {}
                 /\ FindDelimiter(dp, best_match) = 0 \/ Beginning(dp)
                 /\ FindDelimiter(dp, best_match) <= 0
              \/ /\ dp # <<>>
                 /\ \E first \in Decisive(dp, best_match) :
                      /\ first \in DOMAIN Delimiters
                      /\ FindDelimiter(dp, best_match) =
                           IF Len(Delimiters[first]) <= Len(dp) THEN Len(Delimiters[first])
                                                                ELSE -Len(dp)
<1>1. Len(dp) \in Nat
  OBVIOUS
<1>2. CASE dp = <<>>
  <2>1. FindDelimiter(dp, best_match) = 0
    BY <1>2 DEF FindDelimiter
  <2> QED BY <1>2, <2>1
<1>3. CASE dp # <<>> /\ Decisive(dp, best_match) = {}
  <2> DEFINE found == FindDelimiter(dp, best_match)
  <2>1. \/ found = 0
        \/ found = -Len(dp) /\ Beginning(dp)
    BY <1>3 DEF FindDelimiter, Beginning
  <2> HIDE DEF found
  <2>2. found \in Int /\ found <= 0 /\ (found = 0 \/ Beginning(dp))
    BY <1>1, <2>1
  <2> QED BY <1>3, <2>2 DEF found
<1>4. CASE dp # <<>> /\ Decisive(dp, best_match) # {}
  <2> DEFINE found == FindDelimiter(dp, best_match)
  <2>1. PICK first \in Decisive(dp, best_match) :
          /\ first \in DOMAIN Delimiters
          /\ found = IF Len(Delimiters[first]) <= Len(dp) THEN Len(Delimiters[first]) ELSE -Len(dp)
    BY <1>4, Searching
  <2>2. Len(Delimiters[first]) \in Nat
    BY <2>1, ListedLemma
  <2> HIDE DEF found
  <2>3. found \in Int
    BY <1>1, <2>1, <2>2
  <2> QED BY <1>4, <2>1, <2>3 DEF found
<1> QED BY <1>2, <1>3, <1>4

\* The search waits only for what begins a delimiter, ...
LEMMA SearchNegative ==
    ASSUME BeginningsListed, NEW dp \in Seq(Bytes), FindDelimiter(dp, FALSE) < 0
    PROVE  dp # <<>> /\ Beginning(dp)
<1> DEFINE found == FindDelimiter(dp, FALSE)
<1>1. found < 0
  OBVIOUS
<1>2. \/ found = 0
      \/ dp # <<>> /\ Beginning(dp)
      \/ /\ dp # <<>>
         /\ \E first \in Decisive(dp, FALSE) :
              /\ first \in DOMAIN Delimiters
              /\ found = IF Len(Delimiters[first]) <= Len(dp) THEN Len(Delimiters[first])
                                                              ELSE -Len(dp)
  BY Found
<1> HIDE DEF found
<1>3. ASSUME NEW first \in Decisive(dp, FALSE), first \in DOMAIN Delimiters,
             found = IF Len(Delimiters[first]) <= Len(dp) THEN Len(Delimiters[first]) ELSE -Len(dp)
      PROVE  Beginning(dp)
  <2>1. Len(Delimiters[first]) \in Nat
    BY <1>3, ListedLemma
  <2>2. ~ Len(Delimiters[first]) <= Len(dp)
    BY <1>1, <1>3, <2>1
  <2> QED BY <1>3, <2>2 DEF Decisive, Beginning
<1>4. found # 0
  BY <1>1
<1> QED BY <1>2, <1>3, <1>4, Zenon

\* ... passes over a byte only when nothing is waited for, ...
LEMMA SearchZero ==
    ASSUME BeginningsListed, NEW u \in Seq(Bytes), Beginning(u), NEW x \in Bytes,
           FindDelimiter(Append(u, x), FALSE) = 0
    PROVE  u = <<>> /\ x \notin FirstBytes
<1> DEFINE dp == Append(u, x)
<1>1. dp \in Seq(Bytes) /\ dp # <<>> /\ Len(dp) = Len(u) + 1 /\ Len(u) \in Nat
      /\ dp[Len(u) + 1] = x /\ \A i \in 1..Len(u) : dp[i] = u[i]
  OBVIOUS
<1> DEFINE found == FindDelimiter(dp, FALSE)
<1>2. /\ found = 0
      /\ \/ Decisive(dp, FALSE) = {}
         \/ \E first \in Decisive(dp, FALSE) :
              /\ first \in DOMAIN Delimiters
              /\ found = IF Len(Delimiters[first]) <= Len(dp) THEN Len(Delimiters[first])
                                                              ELSE -Len(dp)
  BY <1>1, Found
<1> HIDE DEF found, dp
<1>3. Decisive(dp, FALSE) = {}
  <2> SUFFICES ASSUME NEW first \in DOMAIN Delimiters,
                      found = IF Len(Delimiters[first]) <= Len(dp) THEN Len(Delimiters[first])
                                                                   ELSE -Len(dp)
               PROVE  FALSE
    BY <1>2
  <2>1. Len(Delimiters[first]) \in Nat /\ Len(Delimiters[first]) >= 1
    BY ListedLemma
  <2> QED BY <1>1, <1>2, <2>1
<1>4. ASSUME NEW n \in DOMAIN Delimiters
      PROVE  ~ MayBecome(dp, n) /\ ~ (Len(Delimiters[n]) <= Len(dp) /\ BeginsWith(dp, n))
  BY <1>3 DEF Decisive
<1>5. u = <<>>
  <2> SUFFICES ASSUME u # <<>> PROVE FALSE
    OBVIOUS
  <2>1. PICK n \in DOMAIN Delimiters : MayBecome(u, n)
    BY DEF Beginning
  <2>2. Len(u) < Len(Delimiters[n]) /\ \A i \in 1..Len(u) : u[i] = Delimiters[n][i]
    BY <2>1, Comparing
  <2>3. Len(u) >= 1 /\ Len(Delimiters[n]) \in Nat
    BY ListedLemma
  <2>4. Len(u) \in 1..Len(Delimiters[n])
    BY <1>1, <2>2, <2>3
  <2>5. PICK m \in DOMAIN Delimiters :
          Len(Delimiters[m]) = Len(u) /\ \A i \in 1..Len(u) : Delimiters[m][i] = Delimiters[n][i]
    BY <2>4, ListedLemma
  <2>6. BeginsWith(dp, m)
    BY <1>1, <2>2, <2>5, Comparing
  <2> QED BY <1>1, <1>4, <2>5, <2>6
<1>6. x \notin FirstBytes
  <2> SUFFICES ASSUME NEW n \in DOMAIN Delimiters, x = Delimiters[n][1] PROVE FALSE
    BY DEF FirstBytes
  <2>1. Len(dp) = 1 /\ dp[1] = Delimiters[n][1]
    BY <1>1, <1>5
  <2>2. Len(Delimiters[n]) \in Nat /\ Len(Delimiters[n]) >= 1
    BY ListedLemma
  <2>3. CASE Len(Delimiters[n]) = 1
    <3>1. \A i \in 1..Len(Delimiters[n]) : dp[i] = Delimiters[n][i]
      BY <2>1, <2>3
    <3>2. Len(Delimiters[n]) <= Len(dp)
      BY <2>1, <2>3
    <3>3. BeginsWith(dp, n)
      BY <1>1, <3>1, <3>2, Comparing
    <3> QED BY <1>4, <3>2, <3>3
  <2>4. CASE Len(Delimiters[n]) > 1
    <3>1. Len(dp) < Len(Delimiters[n]) /\ \A i \in 1..Len(dp) : dp[i] = Delimiters[n][i]
      BY <2>1, <2>2, <2>4
    <3>2. MayBecome(dp, n)
      BY <1>1, <3>1, Comparing
    <3> QED BY <1>4, <3>2
  <2>5. Len(Delimiters[n]) = 1 \/ Len(Delimiters[n]) > 1
    <3> DEFINE size == Len(Delimiters[n])
    <3>1. size \in Nat /\ size >= 1
      BY <2>2
    <3> HIDE DEF size
    <3>2. size = 1 \/ size > 1
      BY <3>1
    <3> QED BY <3>2 DEF size
  <2> QED BY <2>3, <2>4, <2>5
<1> QED BY <1>5, <1>6

\* What is waited for behind at least one byte is a delimiter already.
LEMMA BeginningIsDelimiter ==
    ASSUME BeginningsListed, NEW u \in Seq(Bytes), u # <<>>, Beginning(u)
    PROVE  IsDelimiter(u)
<1>1. PICK n \in DOMAIN Delimiters : MayBecome(u, n)
  BY DEF Beginning
<1>2. Len(u) < Len(Delimiters[n]) /\ \A i \in 1..Len(u) : u[i] = Delimiters[n][i]
  BY <1>1, Comparing
<1>3. Len(u) >= 1 /\ Len(Delimiters[n]) \in Nat
  BY ListedLemma
<1>4. Len(u) \in 1..Len(Delimiters[n])
  BY <1>2, <1>3
<1>5. PICK m \in DOMAIN Delimiters :
        Len(Delimiters[m]) = Len(u) /\ \A i \in 1..Len(u) : Delimiters[m][i] = Delimiters[n][i]
  BY <1>4, ListedLemma
<1>6. Delimiters[m] = u
  BY <1>2, <1>5, Comparing
<1> QED BY <1>6 DEF IsDelimiter

\* ... and ends with the last byte or with the one before it.
LEMMA SearchPositive ==
    ASSUME BeginningsListed, NEW u \in Seq(Bytes), Beginning(u), NEW x \in Bytes,
           FindDelimiter(Append(u, x), FALSE) > 0
    PROVE  /\ ~ Beginning(Append(u, x))
           /\ \/ /\ IsDelimiter(Append(u, x))
                 /\ FindDelimiter(Append(u, x), FALSE) = Len(u) + 1
              \/ /\ ~ IsDelimiter(Append(u, x)) /\ IsDelimiter(u)
                 /\ FindDelimiter(Append(u, x), FALSE) = Len(u)
<1> DEFINE dp == Append(u, x)
<1>1. dp \in Seq(Bytes) /\ dp # <<>> /\ Len(dp) = Len(u) + 1 /\ Len(u) \in Nat
      /\ dp[Len(u) + 1] = x /\ \A i \in 1..Len(u) : dp[i] = u[i]
  OBVIOUS
<1>2. FindDelimiter(dp, FALSE) > 0
  OBVIOUS
<1>3. ~ Beginning(dp)
  <2>1. ASSUME NEW n \in DOMAIN Delimiters, MayBecome(dp, n) PROVE FALSE
    <3> DEFINE found == FindDelimiter(dp, FALSE)
    <3>1. found < 0
      BY <1>1, <2>1, SearchWaits
    <3>2. found > 0
      OBVIOUS
    <3>3. found \in Int
      BY <1>1, Found
    <3> HIDE DEF found
    <3> QED BY <3>1, <3>2, <3>3
  <2> QED BY <1>1, <2>1 DEF Beginning
<1>4. CASE IsDelimiter(dp)
  <2>1. FindDelimiter(dp, FALSE) = Len(dp)
    BY <1>1, <1>3, <1>4, SearchTakes
  <2> QED BY <1>1, <1>3, <1>4, <2>1
<1>5. CASE ~ IsDelimiter(dp)
  <2>1. u # <<>>
    <3> SUFFICES ASSUME u = <<>> PROVE FALSE
      OBVIOUS
    <3>1. Len(dp) = 1
      BY <1>1
    <3>2. Decisive(dp, FALSE) # {}
      <4> DEFINE found == FindDelimiter(dp, FALSE)
      <4>1. \/ found <= 0
            \/ \E first \in Decisive(dp, FALSE) : TRUE
        BY <1>1, Found
      <4>2. found > 0
        OBVIOUS
      <4>3. found \in Int
        BY <1>1, Found
      <4> HIDE DEF found
      <4>4. ~ found <= 0
        BY <4>2, <4>3
      <4> QED BY <4>1, <4>4, Zenon
    <3>3. PICK first \in Decisive(dp, FALSE) : first \in DOMAIN Delimiters
      BY <3>2 DEF Decisive
    <3>4. BeginsWith(dp, first) /\ Len(Delimiters[first]) <= Len(dp)
      BY <1>3, <3>3 DEF Decisive, Beginning
    <3>5. Len(Delimiters[first]) \in Nat /\ Len(Delimiters[first]) >= 1
      BY <3>3, ListedLemma
    <3>6. /\ Len(Delimiters[first]) <= Len(dp)
          /\ \A i \in 1..Len(Delimiters[first]) : dp[i] = Delimiters[first][i]
      BY <1>1, <3>3, <3>4, Comparing
    <3>7. Len(Delimiters[first]) = Len(dp)
      <4> DEFINE size == Len(Delimiters[first])
                 one == Len(dp)
      <4>1. size \in Nat /\ size >= 1 /\ size <= one /\ one = 1
        BY <3>1, <3>5, <3>6
      <4> HIDE DEF size, one
      <4>2. size = one
        BY <4>1
      <4> QED BY <4>2 DEF size, one
    <3>8. Delimiters[first] = dp
      <4>1. \A i \in 1..Len(dp) : dp[i] = Delimiters[first][i]
        BY <3>6, <3>7
      <4>2. dp \in Seq(Bytes)
        BY <1>1
      <4> HIDE DEF dp
      <4> QED BY <3>3, <3>7, <4>1, <4>2, Comparing
    <3> QED BY <1>5, <3>3, <3>8 DEF IsDelimiter
  <2>2. IsDelimiter(u)
    BY <2>1, BeginningIsDelimiter
  <2>3. FindDelimiter(dp, FALSE) = Len(u)
    BY <1>3, <1>5, <2>2, SearchGoesBack
  <2> QED BY <1>3, <1>5, <2>2, <2>3
<1> QED BY <1>4, <1>5

-----------------------------------------------------------------------------
(* The packets in the stream                                               *)

\* How many bytes are processed, and how many the packetizer has; where its
\* packet begins, and where in the stream m_packet[packet_len] is.
Done == removed + next
Seen == removed + rxLen
Begun == Done - Len(packet) + 1
Opened == Begun + packetLen

\* A delimiter lies at k, up to e, that no later byte makes a longer one.
Closed(k, e) ==
    /\ 1 <= k /\ e <= Seen
    /\ \E n \in DOMAIN Delimiters :
         /\ Len(Delimiters[n]) = e - k + 1
         /\ \A i \in 1..Len(Delimiters[n]) : sent[k + i - 1] = Delimiters[n][i]
         /\ gaps \cap k..e - 1 = {}
         /\ \/ e \in gaps
            \/ \A m \in DOMAIN Delimiters :
                 MayBecome(Delimiters[n], m)
                   => e < Seen /\ sent[e + 1] # Delimiters[m][Len(Delimiters[n]) + 1]

\* Where a packet may begin, and that no delimiter begins in b..c - 1.
Starts(b) == b = 1 \/ \E k \in Nat : k < b /\ Closed(k, b - 1)
Plain(b, c) == \A k \in b..c - 1 : sent[k] \notin FirstBytes

IsPacket(p) ==
    \E b, c, e \in Nat :
      /\ Starts(b) /\ b <= c /\ Plain(b, c) /\ Closed(c, e)
      /\ c - b <= MaxPacketSize
      /\ p = [i \in 1..c - b |-> b + i - 1]

\* The packetizer has the last bytes in their order, ...
InPlace ==
    /\ thread # "held"
    /\ gaps \subseteq 0..removed
    /\ \A i \in 1..Len(packet) : packet[i] = Begun + i - 1

\* ... a packet from where it begins on, then the beginning of a delimiter with
\* no gap inside; a packet that is discarded may hold anything.
InFrame ==
    /\ IF discard
       THEN /\ packetLen = 0
            /\ Beginning(Undecided(packet)) \/ Undecided(packet)[1] \notin FirstBytes
       ELSE Beginning(Undecided(packet)) /\ Starts(Begun) /\ Plain(Begun, Opened)
    /\ Beginning(Undecided(packet)) => gaps \cap Opened..Done = {}

AllPackets == \A n \in DOMAIN delivered : IsPacket(delivered[n])

FrameInv == Class("packet") => InPlace /\ InFrame /\ AllPackets

\* A packet is discarded, and no delimiter will be found behind it.
Hopeless == discard /\ ~ Beginning(Undecided(packet))

\* What a step does to the packet: a byte passes over, ...
PassedOver ==
    \/ discard /\ Hopeless' /\ Begun' = Begun
    \/ /\ ~ discard /\ Opened = Done + 1 /\ Opened' = Opened + 1
       /\ sent[Opened] \notin FirstBytes
       /\ \/ ~ discard' /\ Begun' = Begun
          \/ Begun' = Opened + 1 /\ packetLen = Len(packet) /\ Len(packet) >= MaxPacketSize

\* ... it waits for the next one, or is left alone, ...
Kept ==
    /\ UNCHANGED <<packetLen, discard, delivered>>
    /\ Begun' = Begun /\ Opened' = Opened
    /\ Hopeless => Hopeless'

\* ... or ends in front of a delimiter that is closed.
Ended ==
    \E c, e \in Nat :
      /\ c = Opened /\ c <= e /\ Closed(c, e)' /\ Done' = e
      /\ packet' = <<>> /\ packetLen' = 0 /\ discard' = FALSE
      /\ delivered' = IF discard THEN delivered
                      ELSE Append(delivered, [i \in 1..packetLen |-> Begun + i - 1])

FrameTypes ==
    /\ removed \in Nat /\ next \in Nat /\ rxLen \in Nat /\ next <= rxLen
    /\ sent \in Seq(Bytes) /\ Seen <= Len(sent)
    /\ packet \in Seq(1..Len(sent)) /\ packetLen \in Nat /\ packetLen <= Len(packet)
    /\ discard \in BOOLEAN /\ delivered \in Seq(Seq(1..Len(sent)))

LEMMA FrameTyped == ReadInv /\ PacketInv /\ RestInv => FrameTypes
<1> SUFFICES ASSUME ReadInv, PacketInv, RestInv PROVE FrameTypes
  OBVIOUS
<1>1. /\ removed \in Nat /\ rxLen \in Nat /\ taken \in Nat /\ Len(sent) \in Nat /\ taken <= Len(sent)
      /\ sent \in Seq(Bytes)
  BY DEF ReadInv, ReadTypes
<1>2. removed + rxLen <= taken
  <2>1. CASE reader = "idle"
    BY <1>1, <2>1 DEF ReadInv
  <2>2. CASE reader # "idle"
    <3>1. rxLen = 0 /\ removed <= taken
      BY <2>2, BufferBounds DEF ReadInv
    <3> QED BY <1>1, <3>1
  <2> QED BY <2>1, <2>2
<1>3. Seen <= Len(sent)
  BY <1>1, <1>2 DEF Seen
<1> QED BY <1>1, <1>3 DEF PacketInv, RestInv, FrameTypes

LEMMA TailLemma ==
    ASSUME NEW S, NEW p \in Seq(S), NEW l \in Nat, l <= Len(p)
    PROVE  /\ DOMAIN SubSeq(p, l + 1, Len(p)) = 1..Len(p) - l
           /\ \A i \in 1..Len(p) - l : SubSeq(p, l + 1, Len(p))[i] = p[l + i]
<1>1. Len(p) \in Nat
  OBVIOUS
<1> QED BY <1>1

\* The bytes that are not decided are the last ones that are processed.
LEMMA OpenBytes ==
    ASSUME FrameTypes, InPlace
    PROVE  /\ Undecided(packet) \in Seq(Bytes)
           /\ Len(Undecided(packet)) = Len(packet) - packetLen
           /\ \A i \in 1..Len(packet) - packetLen : Undecided(packet)[i] = sent[Opened + i - 1]
           /\ Done \in Nat /\ Begun \in Int /\ Opened \in Int
           /\ Opened + Len(Undecided(packet)) = Done + 1
           /\ Len(packet) > 0 => Begun >= 1
           /\ Done <= Seen /\ Seen \in Nat /\ Seen <= Len(sent) /\ Len(sent) \in Nat
<1>1. /\ Len(packet) \in Nat /\ packetLen \in Nat /\ packetLen <= Len(packet)
      /\ Done \in Nat /\ Seen \in Nat /\ Done <= Seen /\ Len(sent) \in Nat
      /\ packet \in Seq(1..Len(sent)) /\ sent \in Seq(Bytes)
  BY DEF FrameTypes, Done, Seen
<1>2. Begun \in Int /\ Opened \in Int /\ Begun = Done - Len(packet) + 1 /\ Opened = Begun + packetLen
  BY <1>1 DEF Begun, Opened
<1> DEFINE size == Len(packet) - packetLen
<1>3. Undecided(packet) = [i \in 1..size |-> sent[packet[packetLen + i]]]
  <2> DEFINE tail == SubSeq(packet, packetLen + 1, Len(packet))
  <2>1. DOMAIN tail = 1..size /\ \A i \in 1..size : tail[i] = packet[packetLen + i]
    BY <1>1, TailLemma
  <2>2. Undecided(packet) = [i \in DOMAIN tail |-> sent[tail[i]]]
    BY DEF Undecided, BytesAt
  <2> HIDE DEF tail, size
  <2> QED BY <2>1, <2>2
<1>4. ASSUME NEW i \in 1..size
      PROVE  sent[packet[packetLen + i]] \in Bytes /\ packet[packetLen + i] = Opened + i - 1
  <2>1. packetLen + i \in 1..Len(packet)
    BY <1>1
  <2>2. packet[packetLen + i] = Begun + (packetLen + i) - 1
    BY <2>1 DEF InPlace
  <2>3. packet[packetLen + i] \in 1..Len(sent)
    BY <1>1, <2>1
  <2> QED BY <1>1, <1>2, <2>2, <2>3
<1>5. size \in Nat
  BY <1>1
<1> HIDE DEF size
<1>6. /\ Undecided(packet) \in Seq(Bytes) /\ Len(Undecided(packet)) = size
      /\ \A i \in 1..size : Undecided(packet)[i] = sent[Opened + i - 1]
  BY <1>3, <1>4, <1>5
<1>7. Opened + size = Done + 1
  BY <1>1, <1>2 DEF size
<1>8. ASSUME Len(packet) > 0 PROVE Begun >= 1
  <2>1. 1 \in 1..Len(packet)
    BY <1>1, <1>8
  <2>2. packet[1] = Begun + 1 - 1 /\ packet[1] \in 1..Len(sent)
    BY <1>1, <2>1 DEF InPlace
  <2> QED BY <1>2, <2>2
<1> QED BY <1>1, <1>2, <1>6, <1>7, <1>8 DEF size, FrameTypes

-----------------------------------------------------------------------------
(* More of the stream                                                      *)

\* Bytes and gaps are added behind what the packetizer has.
Grows ==
    /\ Seen \in Nat /\ Seen' \in Nat /\ Seen <= Seen'
    /\ \A j \in 1..Seen : sent'[j] = sent[j]
    /\ gaps \subseteq gaps'
    /\ \A g \in gaps' : g \in gaps \/ g >= Seen

LEMMA ClosedStays ==
    ASSUME Grows, NEW k \in Nat, NEW e \in Nat, Closed(k, e)
    PROVE  Closed(k, e)'
<1>1. 1 <= k /\ e <= Seen
  BY DEF Closed
<1>2. PICK n \in DOMAIN Delimiters :
        /\ Len(Delimiters[n]) = e - k + 1
        /\ \A i \in 1..Len(Delimiters[n]) : sent[k + i - 1] = Delimiters[n][i]
        /\ gaps \cap k..e - 1 = {}
        /\ \/ e \in gaps
           \/ \A m \in DOMAIN Delimiters :
                MayBecome(Delimiters[n], m)
                  => e < Seen /\ sent[e + 1] # Delimiters[m][Len(Delimiters[n]) + 1]
  BY DEF Closed
<1>3. /\ Seen \in Nat /\ Seen' \in Nat /\ Seen <= Seen'
      /\ \A j \in 1..Seen : sent'[j] = sent[j]
      /\ gaps \subseteq gaps'
      /\ \A g \in gaps' : g \in gaps \/ g >= Seen
  BY DEF Grows
<1>4. 1 <= k /\ e <= Seen'
  BY <1>1, <1>3
<1>5. ASSUME NEW i \in 1..Len(Delimiters[n]) PROVE sent'[k + i - 1] = Delimiters[n][i]
  <2>1. i \in 1..e - k + 1
    BY <1>2
  <2>2. k + i - 1 \in 1..Seen
    BY <1>1, <1>3, <2>1
  <2>3. sent'[k + i - 1] = sent[k + i - 1]
    BY <1>3, <2>2
  <2> QED BY <1>2, <2>3
<1>6. gaps' \cap k..e - 1 = {}
  <2> SUFFICES ASSUME NEW g \in gaps', g \in k..e - 1 PROVE FALSE
    OBVIOUS
  <2>1. ~ g >= Seen
    BY <1>1, <1>3
  <2> QED BY <1>2, <1>3, <2>1
<1>7. \/ e \in gaps'
      \/ \A m \in DOMAIN Delimiters :
           MayBecome(Delimiters[n], m)
             => e < Seen' /\ sent'[e + 1] # Delimiters[m][Len(Delimiters[n]) + 1]
  <2>1. CASE e \in gaps
    BY <1>3, <2>1
  <2>2. ASSUME e \notin gaps, NEW m \in DOMAIN Delimiters, MayBecome(Delimiters[n], m)
        PROVE  e < Seen' /\ sent'[e + 1] # Delimiters[m][Len(Delimiters[n]) + 1]
    <3>1. e < Seen /\ sent[e + 1] # Delimiters[m][Len(Delimiters[n]) + 1]
      BY <1>2, <2>2
    <3>2. e + 1 \in 1..Seen /\ e < Seen'
      BY <1>3, <3>1
    <3> QED BY <1>3, <3>1, <3>2
  <2> QED BY <2>1, <2>2
<1> QED BY <1>2, <1>4, <1>5, <1>6, <1>7 DEF Closed

LEMMA StartStays ==
    ASSUME Grows, NEW b \in Int, Starts(b)
    PROVE  Starts(b)'
<1>1. CASE b = 1
  BY <1>1 DEF Starts
<1>2. ASSUME NEW k \in Nat, k < b, Closed(k, b - 1) PROVE Starts(b)'
  <2>1. b - 1 \in Nat
    BY <1>2
  <2>2. Closed(k, b - 1)'
    <3> DEFINE e == b - 1
    <3> HIDE DEF e
    <3>1. e \in Nat /\ Closed(k, e)
      BY <1>2, <2>1 DEF e
    <3>2. Closed(k, e)'
      BY <3>1, ClosedStays
    <3> QED BY <3>2 DEF e
  <2> QED BY <1>2, <2>2 DEF Starts
<1> QED BY <1>1, <1>2 DEF Starts

LEMMA PlainStays ==
    ASSUME Grows, NEW b \in Int, NEW c \in Int, b >= 1 \/ c <= b, c <= Seen + 1, Plain(b, c)
    PROVE  Plain(b, c)'
<1> SUFFICES ASSUME NEW k \in b..c - 1 PROVE sent'[k] \notin FirstBytes
  BY DEF Plain, FirstBytes
<1>1. k \in 1..Seen
  BY DEF Grows
<1> QED BY <1>1 DEF Grows, Plain

LEMMA PacketStays ==
    ASSUME Grows, NEW p, IsPacket(p)
    PROVE  IsPacket(p)'
<1>1. PICK b, c, e \in Nat :
        /\ Starts(b) /\ b <= c /\ Plain(b, c) /\ Closed(c, e)
        /\ c - b <= MaxPacketSize
        /\ p = [i \in 1..c - b |-> b + i - 1]
  BY DEF IsPacket
<1>2. Starts(b)' /\ Closed(c, e)'
  BY <1>1, StartStays, ClosedStays
<1>3. b >= 1
  BY <1>1 DEF Starts
<1>4. c <= Seen + 1
  <2>1. PICK n \in DOMAIN Delimiters : Len(Delimiters[n]) = e - c + 1
    BY <1>1 DEF Closed
  <2>2. Len(Delimiters[n]) \in Nat
    BY DelimitersAssumption
  <2>3. e <= Seen /\ Seen \in Nat
    BY <1>1 DEF Closed, Grows
  <2> QED BY <2>1, <2>2, <2>3
<1>5. Plain(b, c)'
  BY <1>1, <1>3, <1>4, PlainStays
<1> QED BY <1>1, <1>2, <1>5 DEF IsPacket

-----------------------------------------------------------------------------
(* What the steps do to the packet                                         *)

LEMMA EmptyTail == DOMAIN SubSeq(<<>>, 0 + 1, Len(<<>>)) = 1..0
<1>1. <<>> \in Seq(Nat) /\ 0 \in Nat /\ Len(<<>>) = 0
  OBVIOUS
<1> QED BY <1>1, TailLemma

\* A packet that is begun anew.
LEMMA FreshFrame ==
    ASSUME packet' = <<>>, packetLen' = 0, thread' # "held", gaps' \subseteq 0..removed',
           Done' \in Nat, discard' \in BOOLEAN, ~ discard' => Starts(Done + 1)'
    PROVE  InPlace' /\ InFrame'
<1>1. Undecided(packet)' = <<>>
  <2> DEFINE tail == SubSeq(<<>>, 0 + 1, Len(<<>>))
  <2>1. DOMAIN tail = 1..0
    BY EmptyTail
  <2>2. Undecided(packet)' = [i \in DOMAIN tail |-> sent'[tail[i]]]
    BY DEF Undecided, BytesAt
  <2> HIDE DEF tail
  <2>3. Undecided(packet)' = [i \in 1..0 |-> sent'[tail[i]]]
    BY <2>1, <2>2
  <2> QED BY <2>3
<1>2. Len(packet') = 0 /\ Begun' = Done' + 1 /\ Opened' = Done' + 1
  BY DEF Begun, Opened
<1>3. InPlace'
  BY <1>2 DEF InPlace
<1>4. gaps' \cap Opened'..Done' = {}
  <2>1. \A d \in Nat : \A g : g \notin d + 1..d
    OBVIOUS
  <2>2. \A g : g \notin Opened'..Done'
    BY <1>2, <2>1
  <2> QED BY <2>2
<1>5. Plain(Begun, Opened)'
  <2>1. \A d \in Nat : \A g : g \notin d + 1..d + 1 - 1
    OBVIOUS
  <2>2. \A g : g \notin Begun'..Opened' - 1
    BY <1>2, <2>1
  <2> QED BY <2>2 DEF Plain
<1>6. Beginning(Undecided(packet)')
  BY <1>1 DEF Beginning
<1>7. ~ discard' => Starts(Begun)'
  BY <1>2 DEF Starts
<1> QED BY <1>3, <1>4, <1>5, <1>6, <1>7 DEF InFrame

\* A packet that is left alone, whatever else is read.
LEMMA FrameStays ==
    ASSUME FrameTypes, InPlace, InFrame, Grows, Done' = Done,
           gaps' \subseteq 0..removed', Beginning(Undecided(packet)) => gaps' \cap Opened..Done = {},
           UNCHANGED <<packet, packetLen, discard>>, thread' # "held"
    PROVE  /\ InPlace' /\ InFrame'
           /\ Begun' = Begun /\ Opened' = Opened /\ (Hopeless => Hopeless')
<1>1. Begun' = Begun /\ Opened' = Opened
  BY DEF Begun, Opened
<1>2. InPlace'
  BY <1>1 DEF InPlace
<1>3. Undecided(packet)' = Undecided(packet)
  <2> DEFINE tail == SubSeq(packet, packetLen + 1, Len(packet))
             size == Len(packet) - packetLen
  <2>1. DOMAIN tail = 1..size /\ \A i \in 1..size : tail[i] = packet[packetLen + i]
    BY TailLemma DEF FrameTypes
  <2>2. /\ Undecided(packet) = [i \in DOMAIN tail |-> sent[tail[i]]]
        /\ Undecided(packet)' = [i \in DOMAIN tail |-> sent'[tail[i]]]
    BY DEF Undecided, BytesAt
  <2>3. ASSUME NEW i \in 1..size PROVE tail[i] \in 1..Seen
    <3>1. packetLen \in Nat /\ Len(packet) \in Nat /\ packetLen <= Len(packet)
      BY DEF FrameTypes
    <3>2. packetLen + i \in 1..Len(packet)
      BY <3>1
    <3>3. packet[packetLen + i] = Begun + (packetLen + i) - 1
      BY <3>2 DEF InPlace
    <3>4. Begun >= 1 /\ Begun \in Int /\ Begun = Done - Len(packet) + 1 /\ Done \in Nat /\ Done <= Seen
          /\ Seen \in Nat
      BY <3>1, <3>2, OpenBytes DEF Begun
    <3> HIDE DEF tail, size
    <3> QED BY <2>1, <3>1, <3>2, <3>3, <3>4
  <2> HIDE DEF tail, size
  <2>4. \A i \in 1..size : sent'[tail[i]] = sent[tail[i]]
    BY <2>3 DEF Grows
  <2> QED BY <2>1, <2>2, <2>4
<1>4. ~ discard => Starts(Begun)'
  <2>1. PICK b \in Int : b = Begun
    BY OpenBytes
  <2>2. ~ discard => Starts(b)'
    BY <2>1, StartStays DEF InFrame
  <2>3. b = Begun'
    BY <1>1, <2>1
  <2> QED BY <2>2, <2>3
<1>5. ~ discard => Plain(Begun, Opened)'
  <2>1. PICK b \in Int, c \in Int : b = Begun /\ c = Opened
    BY OpenBytes
  <2>2. (b >= 1 \/ c <= b) /\ c <= Seen + 1
    <3>1. /\ Len(packet) > 0 => Begun >= 1
          /\ Opened + (Len(packet) - packetLen) = Done + 1 /\ Done <= Seen /\ Seen \in Nat /\ Done \in Nat
      BY OpenBytes
    <3>2. packetLen \in Nat /\ Len(packet) \in Nat /\ packetLen <= Len(packet)
      BY DEF FrameTypes
    <3>3. c = b + packetLen
      BY <2>1 DEF Opened
    <3> QED BY <2>1, <3>1, <3>2, <3>3
  <2>3. ~ discard => Plain(b, c)'
    BY <2>1, <2>2, PlainStays DEF InFrame
  <2>4. b = Begun' /\ c = Opened'
    BY <1>1, <2>1
  <2> QED BY <2>3, <2>4
<1>6. Hopeless => Hopeless'
  BY <1>3 DEF Hopeless, Beginning
<1> QED BY <1>1, <1>2, <1>3, <1>4, <1>5, <1>6 DEF InFrame

LEMMA DeliveredStay ==
    ASSUME FrameTypes, AllPackets, Grows,
           \/ delivered' = delivered
           \/ \E p : delivered' = Append(delivered, p) /\ IsPacket(p)'
    PROVE  AllPackets'
<1>1. CASE delivered' = delivered
  BY <1>1, PacketStays DEF AllPackets
<1>2. ASSUME NEW p, delivered' = Append(delivered, p), IsPacket(p)'
      PROVE  AllPackets'
  <2>1. Len(delivered) \in Nat
    BY DEF FrameTypes
  <2>2. ASSUME NEW n \in DOMAIN delivered' PROVE IsPacket(delivered[n])'
    <3>1. CASE n = Len(delivered) + 1
      <4>1. delivered'[n] = p
        BY <1>2, <3>1 DEF FrameTypes
      <4> QED BY <1>2, <4>1 DEF IsPacket
    <3>2. CASE n # Len(delivered) + 1
      <4>1. n \in DOMAIN delivered /\ delivered'[n] = delivered[n]
        BY <1>2, <2>2, <3>2, <2>1 DEF FrameTypes
      <4>2. PICK old : old = delivered[n]
        OBVIOUS
      <4>3. IsPacket(old)'
        BY <4>1, <4>2, PacketStays DEF AllPackets
      <4> QED BY <4>1, <4>2, <4>3 DEF IsPacket
    <3> QED BY <3>1, <3>2
  <2> QED BY <2>2 DEF AllPackets
<1> QED BY <1>1, <1>2

LEMMA AppendLemma ==
    ASSUME NEW S, NEW s \in Seq(S), NEW e \in S
    PROVE  /\ Append(s, e) \in Seq(S) /\ Append(s, e) # <<>>
           /\ Len(s) \in Nat /\ Len(Append(s, e)) = Len(s) + 1
           /\ \A i \in 1..Len(s) : Append(s, e)[i] = s[i]
           /\ Append(s, e)[Len(s) + 1] = e
OBVIOUS

LEMMA StoredFrame ==
    ASSUME ReadInv, ThreadInv, PacketInv, FrameTypes, InPlace, Storing
    PROVE  /\ Stored \in Seq(1..Len(sent)) /\ Len(Stored) = Len(packet) + 1
           /\ \A i \in 1..Len(packet) + 1 : Stored[i] = Begun + i - 1
           /\ Done < Seen /\ sent[Done + 1] \in Bytes
           /\ Undecided(Stored) = Append(Undecided(packet), sent[Done + 1])
<1>1. /\ next \in Nat /\ rxLen \in Nat /\ removed \in Nat /\ next < rxLen
      /\ packet \in Seq(1..Len(sent)) /\ Len(packet) \in Nat
      /\ packetLen \in Nat /\ packetLen <= Len(packet) /\ sent \in Seq(Bytes)
  BY DEF FrameTypes, Storing
<1>2. Held[next + 1] = Done + 1
  <2>1. reader = "idle"
    BY DEF Storing, ThreadInv
  <2>2. taken - removed = rxLen
    BY <2>1 DEF ReadInv
  <2>3. Held = [i \in 1..rxLen |-> removed + i]
    BY <2>1, <2>2, ChunkInOrder DEF RemovedInOrder
  <2>4. next + 1 \in 1..rxLen
    BY <1>1
  <2>5. Held[next + 1] = removed + (next + 1)
    BY <2>3, <2>4
  <2> QED BY <1>1, <2>5 DEF Done
<1>3. /\ Done \in Nat /\ Seen \in Nat /\ Done < Seen /\ Begun \in Int /\ Opened \in Int
      /\ Begun = Done - Len(packet) + 1 /\ Opened = Begun + packetLen
  BY <1>1 DEF Done, Seen, Begun, Opened
<1>4. Done + 1 \in 1..Len(sent) /\ sent[Done + 1] \in Bytes
  BY <1>1, <1>3, OpenBytes
<1>5. Stored = Append(packet, Done + 1)
  BY <1>2 DEF Stored
<1>6. /\ Stored \in Seq(1..Len(sent)) /\ Len(Stored) = Len(packet) + 1
      /\ \A i \in 1..Len(packet) : Stored[i] = packet[i]
      /\ Stored[Len(packet) + 1] = Done + 1
  BY <1>1, <1>4, <1>5
<1> HIDE DEF Stored, Done, Seen, Begun, Opened
<1>7. \A i \in 1..Len(packet) + 1 : Stored[i] = Begun + i - 1
  <2> SUFFICES ASSUME NEW i \in 1..Len(packet) + 1 PROVE Stored[i] = Begun + i - 1
    OBVIOUS
  <2>1. CASE i \in 1..Len(packet)
    BY <1>6, <2>1 DEF InPlace
  <2>2. CASE i = Len(packet) + 1
    BY <1>1, <1>3, <1>6, <2>2
  <2> QED BY <1>1, <2>1, <2>2
<1>8. Undecided(Stored) = Append(Undecided(packet), sent[Done + 1])
  <2> DEFINE tail == SubSeq(Stored, packetLen + 1, Len(Stored))
             size == Len(packet) - packetLen
             u == Undecided(packet)
             x == sent[Done + 1]
  <2>1. /\ size \in Nat /\ size = Len(packet) - packetLen
        /\ Len(Stored) - packetLen = size + 1 /\ packetLen <= Len(Stored)
    BY <1>1, <1>6
  <2>2. DOMAIN tail = 1..size + 1 /\ \A i \in 1..size + 1 : tail[i] = Stored[packetLen + i]
    BY <1>1, <1>6, <2>1, TailLemma
  <2>3. Undecided(Stored) = [i \in DOMAIN tail |-> sent[tail[i]]]
    BY DEF Undecided, BytesAt
  <2>4. u \in Seq(Bytes) /\ Len(u) = size /\ \A i \in 1..size : u[i] = sent[Opened + i - 1]
    BY OpenBytes
  <2>5. x \in Bytes
    BY <1>4
  <2>6. ASSUME NEW i \in 1..size + 1
        PROVE  tail[i] = Opened + i - 1 /\ (i = size + 1 => Opened + i - 1 = Done + 1)
    <3>1. packetLen + i \in 1..Len(packet) + 1
      BY <1>1, <2>6
    <3>2. tail[i] = Begun + (packetLen + i) - 1
      BY <1>7, <2>2, <3>1
    <3>3. i \in Int
      BY <2>1
    <3>4. packetLen \in Nat /\ Len(packet) \in Nat /\ Begun \in Int /\ Done \in Nat
          /\ Opened = Begun + packetLen /\ Begun = Done - Len(packet) + 1
          /\ size = Len(packet) - packetLen
      BY <1>1, <1>3, <2>1
    <3>5. Opened + i - 1 = Begun + (packetLen + i) - 1
      BY <3>3, <3>4
    <3>6. ASSUME i = size + 1 PROVE Opened + i - 1 = Done + 1
      BY <3>4, <3>6
    <3> QED BY <3>2, <3>5, <3>6
  <2>7. x = sent[Done + 1]
    OBVIOUS
  <2> HIDE DEF tail, size, u, x
  <2>8. /\ Len(Append(u, x)) = size + 1 /\ DOMAIN Append(u, x) = 1..size + 1
        /\ \A i \in 1..size : Append(u, x)[i] = u[i]
        /\ Append(u, x)[size + 1] = x
    BY <2>1, <2>4, <2>5
  <2>9. ASSUME NEW i \in 1..size + 1 PROVE sent[tail[i]] = Append(u, x)[i]
    <3>1. CASE i = size + 1
      BY <2>6, <2>7, <2>8, <3>1
    <3>2. CASE i # size + 1
      <4>1. i \in 1..size
        BY <2>1, <3>2
      <4> QED BY <2>4, <2>6, <2>8, <4>1
    <3> QED BY <3>1, <3>2
  <2>10. Append(u, x) \in Seq(Bytes)
    BY <2>4, <2>5
  <2>11. Append(u, x) = [i \in 1..size + 1 |-> Append(u, x)[i]]
    <3> DEFINE r == Append(u, x)
    <3>1. r \in Seq(Bytes) /\ Len(r) = size + 1
      BY <2>8, <2>10
    <3> HIDE DEF r
    <3>2. r = [i \in 1..size + 1 |-> r[i]]
      BY <3>1
    <3> QED BY <3>2 DEF r
  <2>12. Undecided(Stored) = [i \in 1..size + 1 |-> Append(u, x)[i]]
    BY <2>2, <2>3, <2>9
  <2> QED BY <2>11, <2>12 DEF u, x
<1> QED BY <1>3, <1>4, <1>6, <1>7, <1>8

\* A byte that can be no part of a delimiter ...
LEMMA PacketByteFrames ==
    ASSUME BeginningsListed, ReadInv, ThreadInv, PacketInv, FrameTypes, InPlace, InFrame, PacketByte
    PROVE  InPlace' /\ InFrame' /\ PassedOver
<1> DEFINE u == Undecided(packet)
           x == sent[Done + 1]
<1>1. /\ Storing /\ FindDelimiter(Undecided(Stored), FALSE) = 0
      /\ thread' = "bytes" /\ next' = next + 1 /\ UNCHANGED <<sent, removed, rxLen, gaps>>
  BY DEF PacketByte, Match, Storing, portVars, streamVars, rxVars
<1>2. /\ Stored \in Seq(1..Len(sent)) /\ Len(Stored) = Len(packet) + 1
      /\ \A i \in 1..Len(packet) + 1 : Stored[i] = Begun + i - 1
      /\ Done < Seen /\ x \in Bytes
      /\ Undecided(Stored) = Append(u, x)
  BY <1>1, StoredFrame
<1>3. /\ u \in Seq(Bytes) /\ Len(u) = Len(packet) - packetLen
      /\ Done \in Nat /\ Begun \in Int /\ Opened \in Int /\ Seen \in Nat
      /\ Len(packet) \in Nat /\ packetLen \in Nat /\ packetLen <= Len(packet)
      /\ Opened + Len(u) = Done + 1
  BY OpenBytes DEF FrameTypes
<1>4. Done' = Done + 1 /\ Seen' = Seen
  BY <1>1 DEF Done, Seen, FrameTypes
<1>5. FindDelimiter(Append(u, x), FALSE) = 0
  BY <1>1, <1>2
<1>6. Grows
  BY <1>1, <1>3, <1>4 DEF Grows
<1>7. gaps' \subseteq 0..removed'
  BY <1>1 DEF InPlace
<1>8. CASE discard
  <2>1. packet' = Stored /\ packetLen' = packetLen /\ discard' = discard /\ packetLen = 0
    BY <1>8 DEF PacketByte, InFrame
  <2>2. Begun' = Begun /\ Opened' = Opened
    <3>1. Len(packet') = Len(packet) + 1 /\ packetLen' = packetLen /\ Done' = Done + 1
      BY <1>2, <1>4, <2>1
    <3>2. /\ Begun' = Done' - Len(packet') + 1 /\ Opened' = Begun' + packetLen'
          /\ Begun = Done - Len(packet) + 1 /\ Opened = Begun + packetLen
      BY DEF Begun, Opened
    <3>3. Done \in Nat /\ Len(packet) \in Nat /\ packetLen \in Nat
      BY <1>3
    <3> QED BY <3>1, <3>2, <3>3
  <2>3. InPlace'
    BY <1>1, <1>2, <1>7, <2>1, <2>2 DEF InPlace
  <2>4. Undecided(packet)' = Append(u, x)
    <3>1. Undecided(packet)' = Undecided(Stored)
      BY <1>1, <2>1 DEF Undecided, BytesAt
    <3> QED BY <1>2, <3>1
  <2>5. Append(u, x)[1] \notin FirstBytes
    <3>1. CASE Beginning(u)
      <4>1. u = <<>> /\ x \notin FirstBytes
        BY <1>2, <1>3, <1>5, <3>1, SearchZero
      <4> QED BY <4>1
    <3>2. CASE ~ Beginning(u)
      <4>1. u # <<>> /\ u[1] \notin FirstBytes
        BY <1>8, <3>2 DEF InFrame, Beginning
      <4>2. Append(u, x)[1] = u[1]
        BY <1>3, <4>1
      <4> QED BY <4>1, <4>2
    <3> QED BY <3>1, <3>2
  <2>6. Append(u, x) \in Seq(Bytes) /\ Append(u, x) # <<>>
    <3>1. u \in Seq(Bytes) /\ x \in Bytes
      BY <1>2, <1>3
    <3> HIDE DEF u, x
    <3> QED BY <3>1, AppendLemma
  <2>7. ~ Beginning(Append(u, x))
    BY <2>5, <2>6, SearchFails
  <2>8. PassedOver
    <3>1. ~ Beginning(Undecided(packet)')
      BY <2>4, <2>7 DEF Beginning
    <3>2. Hopeless'
      BY <1>8, <2>1, <3>1 DEF Hopeless, Beginning
    <3> QED BY <1>8, <2>2, <3>2 DEF PassedOver
  <2> QED BY <1>8, <2>1, <2>3, <2>4, <2>5, <2>7, <2>8 DEF InFrame
<1>9. CASE ~ discard
  <2>1. Beginning(u) /\ Starts(Begun) /\ Plain(Begun, Opened)
    BY <1>9 DEF InFrame
  <2>2. u = <<>> /\ x \notin FirstBytes
    BY <1>2, <1>3, <1>5, <2>1, SearchZero
  <2>3. packetLen = Len(packet) /\ Opened = Done + 1
    <3>1. Len(u) = 0
      BY <2>2
    <3> HIDE DEF u
    <3> QED BY <1>3, <3>1
  <2>4. CASE Len(Stored) > MaxPacketSize
    <3>1. packet' = <<>> /\ packetLen' = 0 /\ discard' = TRUE
      BY <1>9, <2>4 DEF PacketByte, NewPacket
    <3>2. Done' \in Nat
      BY <1>3, <1>4
    <3>3. InPlace' /\ InFrame'
      BY <1>1, <1>7, <3>1, <3>2, FreshFrame
    <3>4. Begun' = Done + 2 /\ Opened' = Done + 2
      <4>1. Begun' = Done' - Len(<<>>) + 1 /\ Opened' = Begun' + 0
        BY <3>1 DEF Begun, Opened
      <4> HIDE DEF u, x
      <4> QED BY <1>3, <1>4, <4>1
    <3>5. Len(packet) >= MaxPacketSize
      BY <1>2, <1>3, <2>4, MaxPacketSizeAssumption
    <3>6. sent[Opened] \notin FirstBytes
      BY <2>2, <2>3
    <3>7. Opened' = Opened + 1 /\ Begun' = Opened + 1
      <4> HIDE DEF u, x
      <4> QED BY <1>3, <2>3, <3>4
    <3> QED BY <1>9, <2>3, <3>1, <3>3, <3>5, <3>6, <3>7 DEF PassedOver
  <2>5. CASE ~ Len(Stored) > MaxPacketSize
    <3>1. packet' = Stored /\ packetLen' = Len(Stored) /\ discard' = FALSE
      BY <1>9, <2>5 DEF PacketByte
    <3>2. Begun' = Begun /\ Opened' = Done + 2
      <4>1. Len(packet') = Len(packet) + 1 /\ packetLen' = Len(packet) + 1 /\ Done' = Done + 1
        BY <1>2, <1>4, <3>1
      <4>2. /\ Begun' = Done' - Len(packet') + 1 /\ Opened' = Begun' + packetLen'
            /\ Begun = Done - Len(packet) + 1
        BY DEF Begun, Opened
      <4>3. Done \in Nat /\ Len(packet) \in Nat
        BY <1>3
      <4> QED BY <4>1, <4>2, <4>3
    <3>3. InPlace'
      BY <1>1, <1>2, <1>7, <3>1, <3>2 DEF InPlace
    <3>4. Starts(Begun)'
      <4>1. PICK b \in Int : b = Begun
        BY <1>3
      <4>2. Starts(b)'
        BY <1>6, <2>1, <4>1, StartStays
      <4>3. b = Begun'
        BY <3>2, <4>1
      <4> QED BY <4>2, <4>3
    <3>5. Plain(Begun, Opened)'
      <4> SUFFICES ASSUME NEW k \in Begun'..Opened' - 1 PROVE sent'[k] \notin FirstBytes
        BY DEF Plain, FirstBytes
      <4>1. k \in Begun..Done + 1
        BY <1>3, <3>2
      <4>2. CASE k = Done + 1
        BY <1>1, <2>2, <4>2
      <4>3. CASE k # Done + 1
        <5>1. k \in Begun..Opened - 1
          BY <1>3, <2>3, <4>1, <4>3
        <5> QED BY <1>1, <2>1, <5>1 DEF Plain
      <4> QED BY <4>2, <4>3
    <3>6. Undecided(packet)' = <<>>
      <4> DEFINE tail == SubSeq(Stored, Len(Stored) + 1, Len(Stored))
      <4>1. Len(Stored) \in Nat
        BY <1>2
      <4>2. DOMAIN tail = 1..Len(Stored) - Len(Stored)
        BY <1>2, <4>1, TailLemma
      <4>3. 1..Len(Stored) - Len(Stored) = 1..0
        BY <4>1
      <4>4. Undecided(packet)' = [i \in DOMAIN tail |-> sent[tail[i]]]
        BY <1>1, <3>1 DEF Undecided, BytesAt
      <4> HIDE DEF tail
      <4>5. Undecided(packet)' = [i \in 1..0 |-> sent[tail[i]]]
        BY <4>2, <4>3, <4>4
      <4> QED BY <4>5
    <3>7. gaps' \cap Opened'..Done' = {}
      <4>1. \A d \in Nat : \A g : g \notin d + 2..d + 1
        OBVIOUS
      <4> QED BY <1>3, <1>4, <3>2, <4>1
    <3>8. PassedOver
      <4>1. sent[Opened] \notin FirstBytes
        BY <2>2, <2>3
      <4>2. Opened' = Opened + 1
        <5> HIDE DEF u, x
        <5> QED BY <1>3, <2>3, <3>2
      <4> QED BY <1>9, <2>3, <3>1, <3>2, <4>1, <4>2 DEF PassedOver
    <3> QED BY <3>1, <3>3, <3>4, <3>5, <3>6, <3>7, <3>8 DEF InFrame, Beginning
  <2> QED BY <2>4, <2>5
<1> QED BY <1>8, <1>9

\* ... one that begins or continues a delimiter ...
LEMMA DelimiterByteFrames ==
    ASSUME BeginningsListed, ReadInv, ThreadInv, PacketInv, FrameTypes, InPlace, InFrame,
           DelimiterByte
    PROVE  InPlace' /\ InFrame' /\ Kept
<1> DEFINE u == Undecided(packet)
           x == sent[Done + 1]
<1>1. /\ Storing /\ FindDelimiter(Undecided(Stored), FALSE) < 0
      /\ thread' = "bytes" /\ next' = next + 1 /\ packet' = Stored
      /\ UNCHANGED <<sent, removed, rxLen, gaps, packetLen, discard, delivered>>
  BY DEF DelimiterByte, Match, Storing, portVars, streamVars, rxVars
<1>2. /\ Stored \in Seq(1..Len(sent)) /\ Len(Stored) = Len(packet) + 1
      /\ \A i \in 1..Len(packet) + 1 : Stored[i] = Begun + i - 1
      /\ Done < Seen /\ x \in Bytes
      /\ Undecided(Stored) = Append(u, x)
  BY <1>1, StoredFrame
<1>3. /\ u \in Seq(Bytes) /\ Len(u) = Len(packet) - packetLen
      /\ Done \in Nat /\ Begun \in Int /\ Opened \in Int /\ Seen \in Nat
      /\ Len(packet) \in Nat /\ packetLen \in Nat /\ packetLen <= Len(packet)
      /\ Opened + Len(u) = Done + 1
      /\ Len(packet) > 0 => Begun >= 1
  BY OpenBytes DEF FrameTypes
<1>4. Done' = Done + 1 /\ Seen' = Seen
  BY <1>1 DEF Done, Seen, FrameTypes
<1>5. FindDelimiter(Append(u, x), FALSE) < 0 /\ Append(u, x) \in Seq(Bytes) /\ Append(u, x) # <<>>
  <2>1. FindDelimiter(Append(u, x), FALSE) < 0
    BY <1>1, <1>2, Zenon
  <2>2. u \in Seq(Bytes) /\ x \in Bytes
    BY <1>2, <1>3
  <2>3. Append(u, x) \in Seq(Bytes) /\ Append(u, x) # <<>>
    BY <2>2, AppendLemma
  <2> QED BY <2>1, <2>3
<1>6. Grows
  BY <1>1, <1>3, <1>4 DEF Grows
<1>7. gaps' \subseteq 0..removed'
  BY <1>1 DEF InPlace
<1>8. Begun' = Begun /\ Opened' = Opened
  <2>1. Len(packet') = Len(packet) + 1 /\ packetLen' = packetLen /\ Done' = Done + 1
    BY <1>1, <1>2, <1>4
  <2>2. /\ Begun' = Done' - Len(packet') + 1 /\ Opened' = Begun' + packetLen'
        /\ Begun = Done - Len(packet) + 1 /\ Opened = Begun + packetLen
    BY DEF Begun, Opened
  <2>3. Done \in Nat /\ Len(packet) \in Nat /\ packetLen \in Nat
    BY <1>3
  <2> QED BY <2>1, <2>2, <2>3
<1>9. InPlace'
  BY <1>1, <1>2, <1>7, <1>8 DEF InPlace
<1>10. Undecided(packet)' = Append(u, x)
  <2>1. Undecided(packet)' = Undecided(Stored)
    BY <1>1 DEF Undecided, BytesAt
  <2> QED BY <1>2, <2>1
<1>11. Beginning(u)
  <2> SUFFICES ASSUME ~ Beginning(u) PROVE FALSE
    OBVIOUS
  <2>1. u # <<>> /\ u[1] \notin FirstBytes
    BY DEF InFrame, Beginning
  <2>2. Append(u, x)[1] = u[1]
    BY <1>3, <2>1
  <2> DEFINE found == FindDelimiter(Append(u, x), FALSE)
  <2>3. found = 0
    BY <1>5, <2>1, <2>2, SearchFails
  <2>4. found < 0
    BY <1>5
  <2> HIDE DEF found
  <2> QED BY <2>3, <2>4
<1>12. Beginning(Append(u, x))
  BY <1>5, SearchNegative
<1>13. gaps' \cap Opened'..Done' = {}
  <2> SUFFICES ASSUME NEW g \in gaps, g \in Opened..Done + 1 PROVE FALSE
    BY <1>1, <1>4, <1>8
  <2>1. gaps \cap Opened..Done = {}
    BY <1>11 DEF InFrame
  <2>2. g = Done + 1
    BY <1>3, <2>1
  <2>3. g \in 0..removed /\ removed \in Nat /\ next \in Nat
    BY DEF InPlace, FrameTypes
  <2> QED BY <2>2, <2>3 DEF Done
<1>14. ASSUME ~ discard PROVE Starts(Begun)' /\ Plain(Begun, Opened)'
  <2>1. PICK b \in Int, c \in Int : b = Begun /\ c = Opened
    BY <1>3
  <2>2. Starts(b)'
    BY <1>6, <1>14, <2>1, StartStays DEF InFrame
  <2>3. (b >= 1 \/ c <= b) /\ c <= Seen + 1
    <3>1. c = b + packetLen /\ Done < Seen
      BY <1>2, <2>1 DEF Opened
    <3>2. b = Done - Len(packet) + 1
      BY <2>1 DEF Begun
    <3> HIDE DEF u, x
    <3> QED BY <1>3, <2>1, <3>1, <3>2
  <2>4. Plain(b, c)'
    BY <1>6, <1>14, <2>1, <2>3, PlainStays DEF InFrame
  <2>5. b = Begun' /\ c = Opened'
    BY <1>8, <2>1
  <2> QED BY <2>2, <2>4, <2>5
<1>15. discard => packetLen = 0
  BY DEF InFrame
<1>16. Kept
  BY <1>1, <1>8, <1>11 DEF Kept, Hopeless
<1> QED BY <1>1, <1>9, <1>10, <1>12, <1>13, <1>14, <1>15, <1>16 DEF InFrame

\* ... and the end of a packet.
LEMMA EndFrames ==
    ASSUME FrameTypes, PacketInv, InPlace, InFrame, AllPackets, Grows,
           NEW c \in Nat, NEW e \in Nat, c = Opened, c <= e, Closed(c, e)', Done' = e,
           NEW p \in Seq(1..Len(sent)), packetLen <= Len(p),
           \A i \in 1..packetLen : p[i] = Begun + i - 1,
           NewPacket, Deliver(p), discard' = FALSE, thread' # "held", gaps' \subseteq 0..removed'
    PROVE  InPlace' /\ InFrame' /\ AllPackets' /\ Ended
<1>1. Starts(e + 1)'
  <2>1. e + 1 # 1 /\ e + 1 - 1 = e /\ c < e + 1
    BY DEF Closed
  <2> QED BY <2>1 DEF Starts
<1>2. Starts(Done + 1)'
  BY <1>1 DEF Starts
<1>3. InPlace' /\ InFrame'
  BY <1>2, FreshFrame DEF NewPacket
<1>4. ASSUME ~ discard, NEW q, q = SubSeq(p, 1, packetLen) PROVE IsPacket(q)'
  <2>1. PICK b \in Int : b = Begun
    BY OpenBytes
  <2>2. /\ packetLen \in Nat /\ packetLen <= Len(p) /\ Len(p) \in Nat /\ packetLen <= MaxPacketSize
        /\ c = b + packetLen
    BY <1>4, <2>1 DEF FrameTypes, PacketInv, CapacitySuffices, Opened
  <2>3. Starts(b)
    BY <1>4, <2>1 DEF InFrame
  <2>4. b >= 1
    BY <2>3 DEF Starts
  <2>5. Starts(b)'
    BY <2>3, StartStays
  <2>6. Plain(b, c)'
    <3>1. Plain(b, c)
      BY <1>4, <2>1 DEF InFrame
    <3>2. c <= Seen + 1
      <4>1. Opened + (Len(packet) - packetLen) = Done + 1 /\ Done <= Seen /\ Done \in Nat /\ Seen \in Nat
        BY OpenBytes
      <4>2. Len(packet) \in Nat /\ packetLen <= Len(packet) /\ packetLen \in Nat
        BY DEF FrameTypes
      <4> QED BY <4>1, <4>2
    <3> QED BY <2>4, <3>1, <3>2, PlainStays
  <2>7. q = [i \in 1..c - b |-> b + i - 1]
    <3>1. q = [i \in 1..packetLen |-> p[i]]
      BY <1>4, <2>2
    <3>2. c - b = packetLen
      BY <2>2
    <3>3. \A i \in 1..packetLen : p[i] = b + i - 1
      BY <2>1
    <3> QED BY <3>1, <3>2, <3>3
  <2>8. b \in Nat /\ b <= c /\ c - b <= MaxPacketSize
    BY <2>2, <2>4
  <2> QED BY <2>5, <2>6, <2>7, <2>8 DEF IsPacket
<1>5. \/ delivered' = delivered
      \/ \E q : delivered' = Append(delivered, q) /\ IsPacket(q)'
  <2>1. PICK q : q = SubSeq(p, 1, packetLen)
    OBVIOUS
  <2>2. CASE discard
    BY <2>2 DEF Deliver
  <2>3. CASE ~ discard
    <3>1. delivered' = Append(delivered, q)
      BY <2>1, <2>3 DEF Deliver
    <3>2. IsPacket(q)'
      BY <1>4, <2>1, <2>3
    <3> QED BY <3>1, <3>2
  <2> QED BY <2>2, <2>3
<1>6. AllPackets'
  BY <1>5, DeliveredStay
<1>7. SubSeq(p, 1, packetLen) = [i \in 1..packetLen |-> Begun + i - 1]
  <2>1. packetLen \in Nat /\ Len(p) \in Nat
    BY DEF FrameTypes
  <2>2. SubSeq(p, 1, packetLen) = [i \in 1..packetLen |-> p[i]]
    BY <2>1
  <2> QED BY <2>2
<1>8. delivered' = IF discard THEN delivered
                   ELSE Append(delivered, [i \in 1..packetLen |-> Begun + i - 1])
  BY <1>7 DEF Deliver
<1>9. Ended
  BY <1>8 DEF Ended, NewPacket
<1> QED BY <1>3, <1>6, <1>9

\* The search finds a delimiter only behind the beginning of one.
LEMMA OpenIsBeginning ==
    ASSUME BeginningsListed, InFrame, Undecided(packet) \in Seq(Bytes),
           \/ FindDelimiter(Undecided(packet), TRUE) > 0
           \/ \E x \in Bytes : FindDelimiter(Append(Undecided(packet), x), FALSE) > 0
    PROVE  Beginning(Undecided(packet))
<1> DEFINE u == Undecided(packet)
<1> SUFFICES ASSUME ~ Beginning(u) PROVE FALSE
  OBVIOUS
<1>1. u # <<>> /\ u[1] \notin FirstBytes /\ u \in Seq(Bytes)
  BY DEF InFrame, Beginning
<1>2. ASSUME FindDelimiter(u, TRUE) > 0 PROVE FALSE
  <2> DEFINE found == FindDelimiter(u, TRUE)
  <2>1. found = 0 /\ found > 0
    BY <1>1, <1>2, SearchFails
  <2> HIDE DEF found
  <2> QED BY <2>1
<1>3. ASSUME NEW x \in Bytes, FindDelimiter(Append(u, x), FALSE) > 0 PROVE FALSE
  <2> DEFINE found == FindDelimiter(Append(u, x), FALSE)
  <2>1. Append(u, x)[1] = u[1] /\ Append(u, x) \in Seq(Bytes) /\ Append(u, x) # <<>>
    <3> HIDE DEF u
    <3> QED BY <1>1
  <2>2. found = 0
    BY <1>1, <2>1, SearchFails
  <2>3. found > 0
    BY <1>3
  <2> HIDE DEF found
  <2> QED BY <2>2, <2>3
<1> QED BY <1>2, <1>3

\* The delimiter ends with this byte, or the byte before was its last one.
LEMMA DelimiterEndsFrames ==
    ASSUME BeginningsListed, ReadInv, ThreadInv, PacketInv, FrameTypes, InPlace, InFrame,
           AllPackets, DelimiterEnds
    PROVE  InPlace' /\ InFrame' /\ AllPackets' /\ Ended
<1> DEFINE u == Undecided(packet)
           x == sent[Done + 1]
           dp == Append(u, x)
           found == FindDelimiter(dp, FALSE)
<1>1. /\ Storing /\ Match > 0
      /\ next' = IF Len(Stored) - packetLen > Match THEN next ELSE next + 1
      /\ thread' = "bytes" /\ NewPacket /\ Deliver(Stored) /\ discard' = FALSE
      /\ UNCHANGED <<sent, removed, rxLen, gaps>>
  BY DEF DelimiterEnds, Storing, portVars, streamVars, rxVars
<1>2. /\ Stored \in Seq(1..Len(sent)) /\ Len(Stored) = Len(packet) + 1
      /\ \A i \in 1..Len(packet) + 1 : Stored[i] = Begun + i - 1
      /\ Done < Seen /\ x \in Bytes
      /\ Undecided(Stored) = dp
  BY <1>1, StoredFrame
<1>3. /\ u \in Seq(Bytes) /\ Len(u) = Len(packet) - packetLen
      /\ \A i \in 1..Len(packet) - packetLen : u[i] = sent[Opened + i - 1]
      /\ Done \in Nat /\ Begun \in Int /\ Opened \in Int /\ Seen \in Nat
      /\ Len(packet) \in Nat /\ packetLen \in Nat /\ packetLen <= Len(packet)
      /\ Opened + Len(u) = Done + 1
      /\ Len(packet) > 0 => Begun >= 1
  BY OpenBytes DEF FrameTypes
<1>4. found = Match /\ found > 0
  BY <1>1, <1>2 DEF Match
<1>5. Beginning(u)
  BY <1>2, <1>3, <1>4, OpenIsBeginning
<1>6. /\ ~ Beginning(dp)
      /\ \/ IsDelimiter(dp) /\ found = Len(u) + 1
         \/ ~ IsDelimiter(dp) /\ IsDelimiter(u) /\ found = Len(u)
  BY <1>2, <1>3, <1>4, <1>5, SearchPositive
<1>7. gaps \cap Opened..Done = {}
  BY <1>5 DEF InFrame
<1>8. PICK c \in Nat : c = Opened /\ 1 <= c
  <2>1. Begun = Done - Len(packet) + 1 /\ Opened = Begun + packetLen
    BY DEF Begun, Opened
  <2>2. Opened >= 1
    <3> HIDE DEF u, x, dp, found
    <3>1. CASE Len(packet) = 0
      BY <1>3, <2>1, <3>1
    <3>2. CASE Len(packet) > 0
      BY <1>3, <2>1, <3>2
    <3> QED BY <1>3, <3>1, <3>2
  <2> QED BY <1>3, <2>2
<1>9. PICK size \in Nat : size = Len(u) /\ size = Len(packet) - packetLen /\ c + size = Done + 1
  <2> DEFINE l == Len(u)
  <2>1. l \in Nat
    BY <1>3
  <2>2. l = Len(packet) - packetLen /\ Opened + l = Done + 1
    BY <1>3
  <2> HIDE DEF l
  <2>3. c + l = Done + 1
    BY <1>8, <2>2
  <2> QED BY <2>1, <2>2, <2>3 DEF l
<1> DEFINE Numbers == /\ c + size = Done + 1 /\ Done < Seen
                      /\ c \in Nat /\ size \in Nat /\ Done \in Nat /\ Seen \in Nat
<1>19. Numbers
  BY <1>2, <1>3, <1>8, <1>9, Zenon
<1>10. /\ dp \in Seq(Bytes) /\ Len(dp) = size + 1
       /\ \A i \in 1..size : dp[i] = u[i]
       /\ dp[size + 1] = x
  <2>1. u \in Seq(Bytes) /\ x \in Bytes /\ size = Len(u)
    BY <1>2, <1>3, <1>9
  <2> HIDE DEF u, x
  <2> QED BY <2>1, AppendLemma
<1>11. /\ \A i \in 1..size : u[i] = sent[c + i - 1]
       /\ x = sent[c + (size + 1) - 1]
  <2>1. c + (size + 1) - 1 = Done + 1
    BY <1>19
  <2> QED BY <1>3, <1>8, <1>9, <2>1
<1>12. Len(Stored) - packetLen = size + 1
  BY <1>2, <1>3, <1>9
<1>13. Seen' = Seen /\ Done' = removed + next' /\ Done = removed + next
       /\ removed \in Nat /\ next \in Nat
  BY <1>1 DEF Seen, Done, FrameTypes
<1>14. Grows
  BY <1>1, <1>3, <1>13 DEF Grows
<1>15. gaps' \subseteq 0..removed'
  BY <1>1 DEF InPlace
<1>16. ASSUME NEW e \in Nat, c <= e, Closed(c, e), Done' = e
       PROVE  InPlace' /\ InFrame' /\ AllPackets' /\ Ended
  <2>1. Closed(c, e)'
    BY <1>14, <1>16, ClosedStays
  <2>2. PICK p : p = Stored
    OBVIOUS
  <2>3. /\ p \in Seq(1..Len(sent)) /\ packetLen <= Len(p)
        /\ \A i \in 1..packetLen : p[i] = Begun + i - 1
        /\ Deliver(p)
    <3>1. \A i \in 1..packetLen : i \in 1..Len(packet) + 1
      BY <1>3
    <3>2. Deliver(p)
      BY <1>1, <2>2 DEF Deliver
    <3>3. packetLen <= Len(packet) + 1
      BY <1>3
    <3> QED BY <1>2, <2>2, <3>1, <3>2, <3>3
  <2>4. thread' # "held"
    BY <1>1
  <2> HIDE DEF u, x, dp, found
  <2> QED BY <1>1, <1>8, <1>14, <1>15, <1>16, <2>1, <2>3, <2>4, EndFrames
<1> HIDE DEF u, x, found
<1>17. CASE IsDelimiter(dp) /\ found = Len(u) + 1
  <2> HIDE DEF dp
  <2>1. PICK n \in DOMAIN Delimiters : Delimiters[n] = dp
    BY <1>17 DEF IsDelimiter
  <2>2. ASSUME NEW i \in 1..size + 1 PROVE sent[c + i - 1] = dp[i]
    <3>1. CASE i = size + 1
      BY <1>10, <1>11, <3>1
    <3>2. CASE i # size + 1
      <4>1. i \in 1..size
        BY <3>2
      <4> QED BY <1>10, <1>11, <4>1
    <3> QED BY <3>1, <3>2
  <2>3. ASSUME NEW m \in DOMAIN Delimiters PROVE ~ MayBecome(dp, m)
    BY <1>6 DEF Beginning
  <2>4. PICK e \in Nat : e = Done + 1
    BY <1>19
  <2>5. e - c + 1 = size + 1 /\ e <= Seen /\ c <= e /\ e - 1 = Done
    BY <1>19, <2>4
  <2>6. gaps \cap c..e - 1 = {}
    BY <1>7, <1>8, <2>5
  <2>7. Closed(c, e)
    <3>1. Len(Delimiters[n]) = e - c + 1 /\ 1 <= c /\ e <= Seen
      BY <1>8, <1>10, <2>1, <2>5
    <3>2. \A i \in 1..Len(Delimiters[n]) : sent[c + i - 1] = Delimiters[n][i]
      BY <1>10, <2>1, <2>2
    <3> QED BY <2>1, <2>3, <2>6, <3>1, <3>2 DEF Closed
  <2>8. Done' = e
    <3>1. ~ size + 1 > Match
      BY <1>4, <1>9, <1>17
    <3>2. next' = next + 1
      BY <1>1, <1>12, <3>1
    <3> QED BY <1>13, <2>4, <3>2
  <2> QED BY <1>16, <2>5, <2>7, <2>8
<1>18. CASE ~ IsDelimiter(dp) /\ IsDelimiter(u) /\ found = Len(u)
  <2>1. PICK n \in DOMAIN Delimiters : Delimiters[n] = u
    BY <1>18 DEF IsDelimiter
  <2>2. size >= 1
    BY <1>9, <2>1, ListedLemma
  <2>3. ASSUME NEW m \in DOMAIN Delimiters, MayBecome(u, m), x = Delimiters[m][size + 1]
        PROVE  FALSE
    <3>1. size < Len(Delimiters[m]) /\ \A i \in 1..size : u[i] = Delimiters[m][i]
      BY <1>3, <1>9, <2>3, Comparing
    <3>2. ASSUME NEW i \in 1..size + 1 PROVE dp[i] = Delimiters[m][i]
      <4>1. CASE i = size + 1
        BY <1>10, <2>3, <4>1
      <4>2. CASE i # size + 1
        <5>1. i \in 1..size
          BY <4>2
        <5> QED BY <1>10, <3>1, <5>1
      <4> QED BY <4>1, <4>2
    <3>3. CASE Len(Delimiters[m]) = size + 1
      <4>1. Delimiters[m] = dp
        <5> HIDE DEF dp
        <5> QED BY <1>10, <3>2, <3>3, Comparing
      <4> QED BY <1>18, <4>1 DEF IsDelimiter
    <3>4. CASE size + 1 < Len(Delimiters[m])
      <4>1. MayBecome(dp, m)
        <5> HIDE DEF dp
        <5> QED BY <1>10, <3>2, <3>4, Comparing
      <4> QED BY <1>6, <4>1 DEF Beginning
    <3>5. Len(Delimiters[m]) \in Nat
      BY ListedLemma
    <3>6. Len(Delimiters[m]) = size + 1 \/ size + 1 < Len(Delimiters[m])
      BY <3>1, <3>5
    <3> QED BY <3>3, <3>4, <3>6
  <2>4. Done - c + 1 = size /\ Done < Seen /\ Done <= Seen /\ c <= Done
    BY <1>19, <2>2
  <2>5. gaps \cap c..Done - 1 = {}
    BY <1>3, <1>7, <1>8
  <2>6. PICK e \in Nat : e = Done
    BY <1>3
  <2>7. sent[e + 1] = x
    BY <2>6 DEF x
  <2>8. Closed(c, e)
    BY <1>8, <1>9, <1>11, <2>1, <2>3, <2>4, <2>5, <2>6, <2>7 DEF Closed
  <2>9. Done' = e
    <3>1. size + 1 > Match
      BY <1>4, <1>9, <1>18
    <3>2. next' = next
      BY <1>1, <1>12, <3>1
    <3> QED BY <1>13, <2>6, <3>2
  <2> QED BY <1>16, <2>4, <2>6, <2>8, <2>9
<1> QED BY <1>6, <1>17, <1>18

\* The gap decides for what is there.
LEMMA GapFrames ==
    ASSUME BeginningsListed, ReadInv, PacketInv, RestInv, FrameTypes, InPlace, InFrame,
           AllPackets, Gap
    PROVE  InPlace' /\ InFrame' /\ AllPackets' /\ Grows /\ (Ended \/ Kept)
<1> DEFINE u == Undecided(packet)
           found == FindDelimiter(u, TRUE)
<1>1. /\ thread = "read" /\ thread' = "loop" /\ reader = "returned" /\ ReadSize = 0
      /\ rxLen' = ReadSize /\ gaps' = gaps \cup {removed}
      /\ UNCHANGED <<sent, removed, next>>
  BY DEF Gap, FillBuffer, EndRead, streamVars
<1>2. next = 0 /\ rxLen = 0 /\ removed \in Nat
  BY <1>1 DEF RestInv, ReadInv, FrameTypes
<1>3. Done = removed /\ Seen = removed /\ Done' = removed /\ Seen' = removed
  BY <1>1, <1>2 DEF Done, Seen
<1>4. Grows
  BY <1>1, <1>2, <1>3 DEF Grows
<1>5. gaps' \subseteq 0..removed'
  BY <1>1, <1>2 DEF InPlace
<1>6. /\ u \in Seq(Bytes) /\ Len(u) = Len(packet) - packetLen
      /\ \A i \in 1..Len(packet) - packetLen : u[i] = sent[Opened + i - 1]
      /\ Begun \in Int /\ Opened \in Int
      /\ Len(packet) \in Nat /\ packetLen \in Nat /\ packetLen <= Len(packet)
      /\ Opened + Len(u) = Done + 1
      /\ Len(packet) > 0 => Begun >= 1
  BY OpenBytes DEF FrameTypes
<1>7. CASE found > 0
  <2>1. Beginning(u)
    BY <1>6, <1>7, OpenIsBeginning
  <2>2. u # <<>>
    <3>1. u = <<>> => found = 0
      BY <1>6, Found
    <3> HIDE DEF found
    <3> QED BY <1>7, <3>1
  <2>3. PICK n \in DOMAIN Delimiters : Delimiters[n] = u
    BY <1>6, <2>1, <2>2, BeginningIsDelimiter DEF IsDelimiter
  <2>4. PICK size \in Nat : size = Len(u) /\ size >= 1
    BY <2>3, ListedLemma
  <2>5. PICK c \in Nat : c = Opened /\ 1 <= c
    <3>1. Len(packet) - packetLen = size /\ Opened = Begun + packetLen
      BY <1>6, <2>4 DEF Opened
    <3> HIDE DEF u, found
    <3> QED BY <1>6, <2>4, <3>1
  <2>6. PICK e \in Nat : e = removed
    BY <1>2
  <2>7. c + size = e + 1 /\ c <= e /\ e - c + 1 = size
    <3>1. c + size = e + 1
      BY <1>3, <1>6, <2>4, <2>5, <2>6
    <3> QED BY <2>4, <3>1
  <2>8. gaps' \cap c..e - 1 = {}
    <3>1. gaps \cap c..e = {}
      BY <1>3, <2>1, <2>5, <2>6 DEF InFrame
    <3> QED BY <1>1, <2>6, <3>1
  <2>9. \A i \in 1..Len(Delimiters[n]) : sent'[c + i - 1] = Delimiters[n][i]
    BY <1>1, <1>6, <2>3, <2>4, <2>5
  <2>10. Closed(c, e)'
    <3>1. e \in gaps' /\ e <= Seen'
      BY <1>1, <1>3, <2>6
    <3>2. Len(Delimiters[n]) = e - c + 1
      BY <2>3, <2>4, <2>7
    <3> QED BY <2>5, <2>8, <2>9, <3>1, <3>2 DEF Closed
  <2>11. NewPacket /\ Deliver(packet) /\ discard' = FALSE
    BY <1>7 DEF Gap
  <2>12. packet \in Seq(1..Len(sent)) /\ \A i \in 1..packetLen : packet[i] = Begun + i - 1
    <3>1. \A i \in 1..packetLen : i \in 1..Len(packet)
      BY <1>6
    <3> QED BY <3>1 DEF FrameTypes, InPlace
  <2>13. PICK p : p = packet
    OBVIOUS
  <2>14. /\ p \in Seq(1..Len(sent)) /\ packetLen <= Len(p)
         /\ \A i \in 1..packetLen : p[i] = Begun + i - 1
         /\ Deliver(p)
    BY <1>6, <2>11, <2>12, <2>13 DEF Deliver
  <2>15. Done' = e /\ thread' # "held"
    BY <1>1, <1>3, <2>6
  <2> HIDE DEF u, found
  <2> QED BY <1>4, <1>5, <2>5, <2>7, <2>10, <2>11, <2>14, <2>15, EndFrames
<1>8. CASE ~ found > 0
  <2>1. UNCHANGED <<packet, packetLen, discard, delivered>>
    BY <1>8 DEF Gap
  <2>2. Beginning(u) => u = <<>>
    <3> SUFFICES ASSUME Beginning(u), u # <<>> PROVE FALSE
      OBVIOUS
    <3>1. IsDelimiter(u)
      BY <1>6, BeginningIsDelimiter
    <3>2. found = Len(u)
      BY <1>6, <3>1, SearchTakes
    <3>3. Len(u) \in Nat /\ Len(u) >= 1
      BY <1>6
    <3> DEFINE size == Len(u)
    <3>4. found = size /\ size \in Nat /\ size >= 1 /\ ~ found > 0
      BY <1>8, <3>2, <3>3
    <3> HIDE DEF found, size
    <3> QED BY <3>4
  <2>3. Beginning(u) => gaps' \cap Opened..Done = {}
    <3> SUFFICES ASSUME u = <<>> PROVE gaps' \cap Opened..Done = {}
      BY <2>2
    <3>1. Opened = Done + 1 /\ Done \in Nat
      <4>1. Len(u) = 0
        OBVIOUS
      <4> HIDE DEF u
      <4> QED BY <1>2, <1>3, <1>6, <4>1
    <3>2. \A d \in Nat : \A g : g \notin d + 1..d
      OBVIOUS
    <3> QED BY <3>1, <3>2
  <2>4. InPlace' /\ InFrame' /\ Kept
    <3>1. Done' = Done /\ thread' # "held"
      BY <1>1, <1>3
    <3> QED BY <1>4, <1>5, <2>1, <2>3, <3>1, FrameStays DEF Kept
  <2>5. AllPackets'
    BY <1>4, <2>1, DeliveredStay
  <2> QED BY <1>4, <2>4, <2>5
<1> QED BY <1>7, <1>8

\* The other steps of a packet device at most read more.
LEMMA FrameSteps ==
    ASSUME ReadInv, RestInv, FrameTypes, thread # "held", Class("packet"), [Next]_vars
    PROVE  \/ Gap \/ PacketByte \/ DelimiterByte \/ DelimiterEnds
           \/ /\ UNCHANGED <<packet, packetLen, discard, delivered, gaps>>
              /\ Done' = Done /\ Seen' \in Nat /\ Seen <= Seen'
              /\ removed' \in Nat /\ removed <= removed'
              /\ thread' # "held"
              /\ sent' = sent \/ \E b \in Bytes : sent' = Append(sent, b)
<1> DEFINE Still == /\ UNCHANGED <<packetVars, rxVars>> /\ thread' # "held"
                    /\ sent' = sent \/ \E b \in Bytes : sent' = Append(sent, b)
<1>1. removed \in Nat /\ next \in Nat /\ rxLen \in Nat /\ Seen = removed + rxLen /\ Done = removed + next
      /\ Done' = removed' + next' /\ Seen' = removed' + rxLen'
  BY DEF FrameTypes, Seen, Done
<1>2. CASE Still
  BY <1>1, <1>2 DEF packetVars, rxVars
<1>3. CASE Start \/ Call \/ End \/ Overrun
  <2>1. Still
    BY <1>3 DEF Start, Call, BeginRead, End, Overrun, portVars, streamVars
  <2> QED BY <1>2, <2>1
<1>4. ASSUME Client PROVE FALSE
  BY <1>4 DEF Client, Chunk, ChunkAgain, Acknowledge, Class
<1>5. CASE BeginChunk
  <2>1. /\ thread = "read" /\ thread' = "bytes" /\ next' = 0 /\ rxLen' = ReadSize /\ ReadSize > 0
        /\ reader = "returned"
        /\ UNCHANGED <<packet, packetLen, discard, delivered, gaps, removed, sent>>
    BY <1>5 DEF BeginChunk, FillBuffer, EndRead, streamVars
  <2>2. next = 0 /\ rxLen = 0
    BY <2>1 DEF RestInv, ReadInv
  <2>3. ReadSize \in Nat
    BY BufferAssumption DEF ReadSize, ReadInv, ReadTypes
  <2> QED BY <1>1, <2>1, <2>2, <2>3
<1>6. CASE ChunkDone
  <2>1. /\ next = rxLen /\ next' = 0 /\ thread' = "loop"
        /\ rxLen' = 0 /\ removed' = removed + (rxLen - rxLen')
        /\ UNCHANGED <<packet, packetLen, discard, delivered, gaps, sent>>
    BY <1>1, <1>6 DEF ChunkDone, RemoveChunk, portVars, streamVars
  <2> QED BY <1>1, <2>1
<1>7. CASE Reading
  <2>1. Still
    BY <1>7 DEF Reading, ReadData, ReadNothing, ReadFails, TestMode, SwitchMode, streamVars,
                packetizerVars
  <2> QED BY <1>2, <2>1
<1>8. CASE BeginDestruction
  <2>1. Still
    BY <1>8 DEF BeginDestruction, portVars, streamVars
  <2> QED BY <1>2, <2>1
<1>9. ASSUME NEW d \in Devices,
             CloseDevice(d) \/ Destroy(d) \/ (Constructing(d) /\ UNCHANGED packetizerVars)
      PROVE  Still
  BY <1>9 DEF CloseDevice, Destroy, Constructing, CloseSettings, CloseNonblock, Release, Open,
              LockTerminal, InitTerminal, InitFails, streamVars, readVars, packetizerVars
<1>10. ASSUME NEW c \in LineClients, SettingLines(c) /\ UNCHANGED packetizerVars
       PROVE  Still
  BY <1>10 DEF SettingLines, SetLineReads, SetLineWrites, SetLineCannotRead,
               SetLineCannotWrite, streamVars, packetizerVars
<1>11. ASSUME NEW b \in Bytes, Arrive(b) /\ UNCHANGED packetizerVars PROVE Still
  BY <1>11 DEF Arrive, packetizerVars
<1>12. CASE UNCHANGED vars
  <2>1. Still
    BY <1>12 DEF vars, portVars, streamVars, packetizerVars
  <2> QED BY <1>2, <2>1
<1> HIDE DEF Still
<1> QED
  BY <1>2, <1>3, <1>4, <1>5, <1>6, <1>7, <1>8, <1>9, <1>10, <1>11, <1>12
     DEF Next, ThreadStep, Packetizer

\* What a step does to the packet and to the stream.
LEMMA StreamSteps ==
    ASSUME BeginningsListed, FrameInv, ReadInv, ThreadInv, PacketInv, RestInv, [Next]_vars,
           Class("packet")
    PROVE  /\ InPlace' /\ InFrame' /\ AllPackets' /\ Grows
           /\ \/ Ended \/ Kept
              \/ PassedOver /\ UNCHANGED <<sent, delivered>>
<1>1. InPlace /\ InFrame /\ AllPackets /\ FrameTypes
  BY FrameTyped DEF FrameInv
<1>2. CASE Gap
  BY <1>1, <1>2, GapFrames
<1>3. CASE PacketByte \/ DelimiterByte \/ DelimiterEnds
  <2>1. Seen \in Nat /\ UNCHANGED <<removed, rxLen, sent, gaps>>
    BY <1>1, <1>3, OpenBytes
       DEF PacketByte, DelimiterByte, DelimiterEnds, portVars, streamVars, rxVars
  <2>2. Grows
    BY <2>1 DEF Grows, Seen
  <2>3. CASE PacketByte
    <3>1. InPlace' /\ InFrame' /\ PassedOver /\ delivered' = delivered
      BY <1>1, <2>3, PacketByteFrames DEF PacketByte
    <3>2. AllPackets'
      BY <1>1, <2>2, <3>1, DeliveredStay
    <3> QED BY <2>1, <2>2, <3>1, <3>2
  <2>4. CASE DelimiterByte
    <3>1. InPlace' /\ InFrame' /\ Kept
      BY <1>1, <2>4, DelimiterByteFrames
    <3>2. AllPackets'
      BY <1>1, <2>2, <3>1, DeliveredStay DEF Kept
    <3> QED BY <2>2, <3>1, <3>2
  <2>5. CASE DelimiterEnds
    BY <1>1, <2>2, <2>5, DelimiterEndsFrames
  <2> QED BY <1>3, <2>3, <2>4, <2>5
<1>4. CASE /\ UNCHANGED <<packet, packetLen, discard, delivered, gaps>>
           /\ Done' = Done /\ Seen' \in Nat /\ Seen <= Seen'
           /\ removed' \in Nat /\ removed <= removed'
           /\ thread' # "held"
           /\ sent' = sent \/ \E b \in Bytes : sent' = Append(sent, b)
  <2>1. Seen \in Nat /\ Seen <= Len(sent) /\ Len(sent) \in Nat
    BY <1>1, OpenBytes
  <2>2. \A j \in 1..Seen : sent'[j] = sent[j]
    <3>1. CASE sent' = sent
      BY <3>1
    <3>2. ASSUME NEW b \in Bytes, sent' = Append(sent, b), NEW j \in 1..Seen
          PROVE  sent'[j] = sent[j]
      <4>1. j \in 1..Len(sent) /\ sent \in Seq(Bytes)
        BY <1>1, <2>1 DEF FrameTypes
      <4> QED BY <3>2, <4>1
    <3> QED BY <1>4, <3>1, <3>2
  <2>3. Grows
    BY <1>4, <2>1, <2>2 DEF Grows
  <2>4. gaps' \subseteq 0..removed'
    BY <1>1, <1>4 DEF InPlace, FrameTypes
  <2>5. Beginning(Undecided(packet)) => gaps' \cap Opened..Done = {}
    BY <1>1, <1>4 DEF InFrame
  <2>6. InPlace' /\ InFrame' /\ Kept
    BY <1>1, <1>4, <2>3, <2>4, <2>5, FrameStays DEF Kept
  <2>7. AllPackets'
    BY <1>1, <1>4, <2>3, DeliveredStay
  <2> QED BY <2>3, <2>6, <2>7
<1>5. thread # "held"
  BY <1>1 DEF InPlace
<1> QED BY <1>1, <1>2, <1>3, <1>4, <1>5, FrameSteps

THEOREM FrameCorrect == ASSUME BeginningsListed PROVE Spec => []FrameInv
<1>1. ASSUME Init PROVE FrameInv
  <2>1. /\ thread = "start" /\ gaps = {} /\ packet = <<>> /\ packetLen = 0 /\ discard = FALSE
        /\ delivered = <<>> /\ removed = 0 /\ next = 0
    BY <1>1 DEF Init
  <2>2. Done = 0 /\ Begun = 1 /\ Opened = 1
    BY <2>1 DEF Done, Begun, Opened
  <2>3. Undecided(packet) = <<>>
    <3> DEFINE tail == SubSeq(<<>>, 0 + 1, Len(<<>>))
    <3>1. DOMAIN tail = 1..0
      BY EmptyTail
    <3>2. Undecided(packet) = [i \in DOMAIN tail |-> sent[tail[i]]]
      BY <2>1 DEF Undecided, BytesAt
    <3> HIDE DEF tail
    <3>3. Undecided(packet) = [i \in 1..0 |-> sent[tail[i]]]
      BY <3>1, <3>2
    <3> QED BY <3>3
  <2>4. InPlace
    BY <2>1 DEF InPlace
  <2>5. InFrame
    BY <2>1, <2>2, <2>3 DEF InFrame, Beginning, Starts, Plain
  <2>6. AllPackets
    BY <2>1 DEF AllPackets
  <2> QED BY <2>4, <2>5, <2>6 DEF FrameInv
<1>2. FrameInv /\ ReadInv /\ ThreadInv /\ PacketInv /\ RestInv /\ [Next]_vars => FrameInv'
  <2> SUFFICES ASSUME FrameInv, ReadInv, ThreadInv, PacketInv, RestInv, [Next]_vars,
                      Class("packet")'
               PROVE  InPlace' /\ InFrame' /\ AllPackets'
    BY DEF FrameInv
  <2>1. Class("packet")
    BY DeviceSteps DEF Class
  <2> QED BY <2>1, StreamSteps
<1> QED BY <1>1, <1>2, BytesCorrect, ThreadCorrect, PacketCorrect, RestCorrect, PTL DEF Spec

-----------------------------------------------------------------------------
(* The packets and the delimiters of the stream                            *)

\* A delimiter that is whole at k, byte by byte.
LEMMA WholeBytes ==
    ASSUME FrameTypes, NEW k \in Nat, k >= 1, NEW n \in DOMAIN Delimiters,
           removed <= Len(sent)
    PROVE  n \in WholeAt(k) <=>
             /\ k + Len(Delimiters[n]) - 1 <= removed
             /\ \A i \in 1..Len(Delimiters[n]) : sent[k + i - 1] = Delimiters[n][i]
             /\ gaps \cap k..k + Len(Delimiters[n]) - 2 = {}
<1> DEFINE d == Delimiters[n]
           size == Len(d)
           part == SubSeq(sent, k, k + size - 1)
<1>1. d \in Seq(Bytes) /\ size \in Nat
  BY DelimitersAssumption
<1>2. sent \in Seq(Bytes) /\ removed \in Nat /\ Len(sent) \in Nat
  BY DEF FrameTypes
<1>3. n \in WholeAt(k) <=>
        /\ k + size - 1 <= removed
        /\ part = d
        /\ gaps \cap k..k + size - 2 = {}
  BY DEF WholeAt
<1>4. ASSUME k + size - 1 <= removed
      PROVE  part = d <=> \A i \in 1..size : sent[k + i - 1] = d[i]
  <2>1. k + size - 1 <= Len(sent)
    BY <1>1, <1>2, <1>4
  <2>2. /\ part \in Seq(Bytes) /\ Len(part) = size
        /\ \A i \in 1..size : part[i] = sent[k + i - 1]
    <3>1. size = Len(d)
      OBVIOUS
    <3> HIDE DEF size, d
    <3> QED BY <1>1, <1>2, <2>1
  <2>3. size = Len(d)
    OBVIOUS
  <2> HIDE DEF part, d, size
  <2> QED BY <1>1, <2>2, <2>3
<1> HIDE DEF part, d, size
<1>5. n \in WholeAt(k) <=>
        /\ k + size - 1 <= removed
        /\ \A i \in 1..size : sent[k + i - 1] = d[i]
        /\ gaps \cap k..k + size - 2 = {}
  BY <1>3, <1>4
<1> QED BY <1>5 DEF d, size

LEMMA SmallestOf ==
    ASSUME NEW T \in SUBSET Nat, T # {}
    PROVE  Min(T) \in T /\ \A m \in T : Min(T) <= m
BY FirstOf DEF Min

\* Between two chunks a delimiter that no later byte makes a longer one is one
\* of the stream, and the stream goes on behind it.
LEMMA ClosedIsCut ==
    ASSUME BeginningsListed, FrameTypes, rxLen = 0, NEW k \in Nat, NEW e \in Nat, Closed(k, e)
    PROVE  k \in Cuts /\ Behind(k) = e + 1 /\ k <= e
<1>1. PICK n \in DOMAIN Delimiters :
        /\ Len(Delimiters[n]) = e - k + 1
        /\ \A i \in 1..Len(Delimiters[n]) : sent[k + i - 1] = Delimiters[n][i]
        /\ gaps \cap k..e - 1 = {}
        /\ \/ e \in gaps
           \/ \A m \in DOMAIN Delimiters :
                MayBecome(Delimiters[n], m)
                  => e < Seen /\ sent[e + 1] # Delimiters[m][Len(Delimiters[n]) + 1]
  BY DEF Closed
<1>2. Seen = removed /\ removed \in Nat /\ Len(sent) \in Nat /\ removed <= Len(sent)
      /\ sent \in Seq(Bytes)
  BY DEF FrameTypes, Seen
<1>3. 1 <= k /\ e <= removed
  BY <1>2 DEF Closed
<1> PICK size \in Nat : size = Len(Delimiters[n])
  BY ListedLemma
<1>4. size >= 1 /\ size = e - k + 1 /\ k <= e /\ k + size - 1 = e /\ k + size - 2 = e - 1
  <2>1. size >= 1 /\ size = e - k + 1
    BY <1>1, ListedLemma
  <2> QED BY <2>1
<1>5. n \in WholeAt(k)
  BY <1>1, <1>2, <1>3, <1>4, WholeBytes
<1>6. Delimiters[n] \in Seq(Bytes)
  BY ListedLemma
<1>7. ASSUME PendingAt(k) PROVE FALSE
  <2> DEFINE s == SubSeq(sent, k, removed)
  <2>1. /\ s \in Seq(Bytes) /\ Len(s) = removed - k + 1
        /\ \A i \in 1..removed - k + 1 : s[i] = sent[k + i - 1]
    BY <1>2, <1>3, <1>4
  <2>2. PICK m \in DOMAIN Delimiters : MayBecome(s, m)
    BY <1>7 DEF PendingAt
  <2>3. gaps \cap k..removed = {}
    BY <1>7 DEF PendingAt
  <2> HIDE DEF s
  <2>4. /\ removed - k + 1 < Len(Delimiters[m])
        /\ \A i \in 1..removed - k + 1 : sent[k + i - 1] = Delimiters[m][i]
    BY <2>1, <2>2, Comparing
  <2>5. Len(Delimiters[m]) \in Nat
    BY ListedLemma
  <2>6. size < Len(Delimiters[m]) /\ \A i \in 1..size : i \in 1..removed - k + 1
    BY <1>2, <1>3, <1>4, <2>4, <2>5
  <2>7. MayBecome(Delimiters[n], m)
    BY <1>1, <1>6, <2>4, <2>6, Comparing
  <2>8. e \notin gaps
    BY <1>2, <1>3, <1>4, <2>3
  <2>9. e < removed /\ sent[e + 1] # Delimiters[m][size + 1]
    BY <1>1, <1>2, <2>7, <2>8
  <2>10. size + 1 \in 1..removed - k + 1 /\ k + (size + 1) - 1 = e + 1
    BY <1>2, <1>4, <2>9
  <2> QED BY <2>4, <2>9, <2>10
<1>8. k \in Cuts
  <2>1. k \in 1..removed
    BY <1>2, <1>3, <1>4
  <2> QED BY <1>5, <1>7, <2>1 DEF Cuts
<1>9. PICK m \in WholeAt(k) : m = Min(WholeAt(k)) /\ \A j \in WholeAt(k) : m <= j
  <2>1. WholeAt(k) \subseteq DOMAIN Delimiters
    BY DEF WholeAt
  <2>2. WholeAt(k) \in SUBSET Nat
    BY <2>1, ListedLemma
  <2> QED BY <1>5, <2>2, SmallestOf
<1>10. m \in DOMAIN Delimiters /\ m <= n /\ m \in Nat /\ n \in Nat
  <2>1. m \in DOMAIN Delimiters
    BY DEF WholeAt
  <2> QED BY <1>5, <1>9, <2>1, ListedLemma
<1>11. /\ k + Len(Delimiters[m]) - 1 <= removed
       /\ \A i \in 1..Len(Delimiters[m]) : sent[k + i - 1] = Delimiters[m][i]
       /\ gaps \cap k..k + Len(Delimiters[m]) - 2 = {}
  BY <1>2, <1>3, <1>10, WholeBytes
<1> PICK length \in Nat : length = Len(Delimiters[m])
  BY <1>10, ListedLemma
<1>12. ASSUME length < size PROVE FALSE
  <2>1. \A i \in 1..length : Delimiters[m][i] = Delimiters[n][i]
    BY <1>1, <1>11, <1>12
  <2>2. n < m
    BY <1>10, <1>12, <2>1, ListedLemma
  <2> QED BY <1>10, <2>2
<1>13. ASSUME size < length PROVE FALSE
  <2>1. \A i \in 1..size : Delimiters[n][i] = Delimiters[m][i]
    BY <1>1, <1>11, <1>13
  <2>2. MayBecome(Delimiters[n], m)
    BY <1>6, <1>10, <1>13, <2>1, Comparing
  <2>3. e \in k..k + length - 2
    BY <1>4, <1>13
  <2>4. e \notin gaps
    BY <1>11, <2>3
  <2>5. sent[e + 1] # Delimiters[m][size + 1]
    BY <1>1, <1>10, <2>2, <2>4
  <2>6. size + 1 \in 1..length /\ k + (size + 1) - 1 = e + 1
    BY <1>4, <1>13
  <2> QED BY <1>11, <2>5, <2>6
<1>14. length = size
  BY <1>12, <1>13
<1>15. Behind(k) = k + Len(Delimiters[m])
  BY <1>9 DEF Behind
<1>16. Behind(k) = k + size
  BY <1>14, <1>15
<1>17. k + size = e + 1
  BY <1>4
<1> QED BY <1>4, <1>8, <1>16, <1>17

\* No delimiter of the stream begins with another byte.
LEMMA CutBegins ==
    ASSUME BeginningsListed, FrameTypes, NEW k \in Cuts
    PROVE  sent[k] \in FirstBytes
<1>1. k \in 1..removed /\ removed \in Nat /\ removed <= Len(sent)
  <2>1. removed \in Nat /\ Len(sent) \in Nat /\ rxLen \in Nat /\ removed + rxLen <= Len(sent)
    BY DEF FrameTypes, Seen
  <2> QED BY <2>1 DEF Cuts
<1>2. PICK n \in WholeAt(k) : n \in DOMAIN Delimiters
  BY DEF Cuts, WholeAt
<1>3. \A i \in 1..Len(Delimiters[n]) : sent[k + i - 1] = Delimiters[n][i]
  BY <1>1, <1>2, WholeBytes
<1>4. Len(Delimiters[n]) \in Nat /\ Len(Delimiters[n]) >= 1
  BY <1>2, ListedLemma
<1>5. sent[k + 1 - 1] = Delimiters[n][1] /\ k + 1 - 1 = k
  <2>1. 1 \in 1..Len(Delimiters[n])
    BY <1>4
  <2> QED BY <1>1, <1>3, <2>1
<1> QED BY <1>2, <1>5 DEF FirstBytes

\* Where a packet may begin one of the stream begins.
LEMMA StartBegins ==
    ASSUME BeginningsListed, FrameTypes, rxLen = 0, NEW b \in Nat, Starts(b)
    PROVE  b \in Begins
<1>1. CASE b = 1
  BY <1>1 DEF Begins
<1>2. ASSUME NEW k \in Nat, k < b, Closed(k, b - 1) PROVE b \in Begins
  <2>1. PICK d \in Nat : d = b - 1
    BY <1>2
  <2>2. k \in Cuts /\ Behind(k) = d + 1
    BY <1>2, <2>1, ClosedIsCut
  <2>3. Behind(k) = b
    BY <2>1, <2>2
  <2> QED BY <2>2, <2>3 DEF Begins
<1> QED BY <1>1, <1>2 DEF Starts

\* What the packetizer delivers, after whatever it discarded, is what lies
\* between two delimiters of the stream, and not too long, however read() cuts
\* the stream into chunks, for delimiters of which every beginning is listed
\* behind it.
THEOREM DeliveredAreWhole == ASSUME BeginningsListed PROVE Spec => []PacketsAreWhole
<1>1. FrameInv /\ FrameTypes => PacketsAreWhole
  <2> SUFFICES ASSUME FrameInv, FrameTypes, BetweenChunks, NEW n \in DOMAIN delivered
               PROVE  \E run \in Between :
                        delivered[n] = Positions(run) /\ Size(run) <= MaxPacketSize
    BY DEF PacketsAreWhole
  <2>1. rxLen = 0 /\ Class("packet")
    BY DEF BetweenChunks
  <2>2. PICK b, c, e \in Nat :
          /\ Starts(b) /\ b <= c /\ Plain(b, c) /\ Closed(c, e)
          /\ c - b <= MaxPacketSize
          /\ delivered[n] = [i \in 1..c - b |-> b + i - 1]
    BY <2>1 DEF FrameInv, AllPackets, IsPacket
  <2>3. c \in Cuts
    BY <2>1, <2>2, ClosedIsCut
  <2>4. b \in Begins
    BY <2>1, <2>2, StartBegins
  <2>5. Cuts \cap b..c - 1 = {}
    <3> SUFFICES ASSUME NEW k \in Cuts, k \in b..c - 1 PROVE FALSE
      OBVIOUS
    <3>1. sent[k] \in FirstBytes
      BY CutBegins
    <3> QED BY <2>2, <3>1 DEF Plain
  <2> DEFINE run == <<b, c>>
  <2>6. run \in Between
    BY <2>2, <2>3, <2>4, <2>5 DEF Between
  <2>7. delivered[n] = Positions(run) /\ Size(run) <= MaxPacketSize
    BY <2>2 DEF Positions, Size
  <2> QED BY <2>6, <2>7
<1> QED BY <1>1, FrameTyped, FrameCorrect, BytesCorrect, PacketCorrect, RestCorrect, PTL

-----------------------------------------------------------------------------
(* The packets that are complete                                           *)

\* Each delimiter in front of position o is closed.
DecidedTo(o) ==
    \A k \in 1..o - 1 : sent[k] \in FirstBytes => \E e \in 1..o - 1 : Closed(k, e)

\* The packets in front of position o that are not too long.
FittingTo(o) ==
    {run \in (1..o) \X (1..o - 1) :
       /\ Starts(run[1]) /\ run[1] <= run[2] /\ Plain(run[1], run[2])
       /\ sent[run[2]] \in FirstBytes
       /\ Size(run) <= MaxPacketSize}

\* What is discarded begins at Lost, one byte more than a packet may have in
\* front of m_packet[0].
Lost == Begun - MaxPacketSize - 1
Overlong == Lost >= 1 /\ Starts(Lost) /\ Plain(Lost, Begun)

\* The stream is decided up to where the packetizer waits, and what was
\* delivered are the packets up to there, ...
AllDelivered == DecidedTo(Opened) /\ delivered = InOrder(FittingTo(Opened))

\* ... except behind a packet that is too long by two bytes.
Follows == (discard => Overlong) /\ (Hopeless \/ AllDelivered)

FollowInv == Class("packet") => Follows

\* A delimiter lies at k, up to e, and is not continued behind e.
LiesAt(s, gs, k, e, n) ==
    /\ Len(Delimiters[n]) = e - k + 1
    /\ \A i \in 1..Len(Delimiters[n]) : s[k + i - 1] = Delimiters[n][i]
    /\ gs \cap k..e - 1 = {}
IsLast(s, gs, e, n) ==
    \/ e \in gs
    \/ \A m \in DOMAIN Delimiters :
         MayBecome(Delimiters[n], m) => s[e + 1] # Delimiters[m][Len(Delimiters[n]) + 1]

LEMMA EndsOnce ==
    ASSUME BeginningsListed, NEW s, NEW gs, NEW k \in Nat, NEW d \in Nat, NEW e \in Nat,
           NEW m \in DOMAIN Delimiters, NEW n \in DOMAIN Delimiters,
           LiesAt(s, gs, k, d, m), IsLast(s, gs, d, m), LiesAt(s, gs, k, e, n)
    PROVE  ~ d < e
<1> SUFFICES ASSUME d < e PROVE FALSE
  OBVIOUS
<1> PICK size \in Nat, length \in Nat :
      /\ size = Len(Delimiters[m]) /\ length = Len(Delimiters[n]) /\ size >= 1
  BY ListedLemma
<1>1. size = d - k + 1 /\ length = e - k + 1 /\ size < length
  BY DEF LiesAt
<1>2. d \in k..e - 1
  BY <1>1
<1>3. \A i \in 1..size : Delimiters[m][i] = Delimiters[n][i]
  BY <1>1 DEF LiesAt
<1>4. MayBecome(Delimiters[m], n)
  <2>1. Delimiters[m] \in Seq(Bytes)
    BY ListedLemma
  <2> QED BY <1>1, <1>3, <2>1, Comparing
<1>5. s[d + 1] # Delimiters[n][size + 1]
  BY <1>2, <1>4 DEF LiesAt, IsLast
<1>6. size + 1 \in 1..length /\ k + (size + 1) - 1 = d + 1
  BY <1>1
<1> QED BY <1>5, <1>6 DEF LiesAt

LEMMA ClosedOnce ==
    ASSUME BeginningsListed, NEW k \in Nat, NEW d \in Nat, NEW e \in Nat, Closed(k, d), Closed(k, e)
    PROVE  d = e
<1>1. ASSUME NEW a \in Nat, NEW b \in Nat, Closed(k, a), Closed(k, b) PROVE ~ a < b
  <2>1. PICK m \in DOMAIN Delimiters : LiesAt(sent, gaps, k, a, m) /\ IsLast(sent, gaps, a, m)
    BY <1>1 DEF Closed, LiesAt, IsLast, MayBecome
  <2>2. PICK n \in DOMAIN Delimiters : LiesAt(sent, gaps, k, b, n)
    BY <1>1 DEF Closed, LiesAt
  <2>3. PICK s, gs : s = sent /\ gs = gaps
    OBVIOUS
  <2>4. LiesAt(s, gs, k, a, m) /\ IsLast(s, gs, a, m) /\ LiesAt(s, gs, k, b, n)
    BY <2>1, <2>2, <2>3
  <2> QED BY <1>1, <2>4, EndsOnce
<1>2. ~ d < e /\ ~ e < d
  BY <1>1
<1> QED BY <1>2

LEMMA ClosedAgrees ==
    ASSUME BeginningsListed, Grows, NEW k \in Nat, NEW d \in Nat, NEW e \in Nat,
           Closed(k, d), Closed(k, e)'
    PROVE  d = e
<1>1. Closed(k, d)'
  BY ClosedStays
<1>2. ASSUME NEW a \in Nat, NEW b \in Nat, Closed(k, a)', Closed(k, b)' PROVE ~ a < b
  <2>1. PICK m \in DOMAIN Delimiters : LiesAt(sent', gaps', k, a, m) /\ IsLast(sent', gaps', a, m)
    BY <1>2 DEF Closed, LiesAt, IsLast, MayBecome
  <2>2. PICK n \in DOMAIN Delimiters : LiesAt(sent', gaps', k, b, n)
    BY <1>2 DEF Closed, LiesAt
  <2>3. PICK s, gs : s = sent' /\ gs = gaps'
    OBVIOUS
  <2>4. LiesAt(s, gs, k, a, m) /\ IsLast(s, gs, a, m) /\ LiesAt(s, gs, k, b, n)
    BY <2>1, <2>2, <2>3
  <2> QED BY <1>2, <2>4, EndsOnce
<1>3. ~ d < e /\ ~ e < d
  BY <1>1, <1>2
<1> QED BY <1>3

\* The bytes of a delimiter.
LEMMA DelimiterBytes ==
    ASSUME BeginningsListed, NEW s, NEW gs, NEW k \in Nat, NEW e \in Nat,
           NEW n \in DOMAIN Delimiters, LiesAt(s, gs, k, e, n)
    PROVE  /\ k <= e /\ s[k] \in FirstBytes
           /\ NoOverlap => \A i \in k + 1..e : s[i] \notin FirstBytes
<1> PICK size \in Nat : size = Len(Delimiters[n]) /\ size >= 1
  BY ListedLemma
<1>1. size = e - k + 1 /\ k <= e
  BY DEF LiesAt
<1>2. s[k] \in FirstBytes
  <2>1. 1 \in 1..size /\ k + 1 - 1 = k
    OBVIOUS
  <2> QED BY <2>1 DEF LiesAt, FirstBytes
<1>3. ASSUME NoOverlap, NEW i \in k + 1..e, NEW m \in DOMAIN Delimiters PROVE s[i] # Delimiters[m][1]
  <2>1. PICK j \in 2..size : k + j - 1 = i
    <3>1. i - k + 1 \in 2..size /\ k + (i - k + 1) - 1 = i
      BY <1>1
    <3> QED BY <3>1
  <2>2. s[i] = Delimiters[n][j]
    BY <2>1 DEF LiesAt
  <2> QED BY <1>3, <2>2 DEF NoOverlap
<1> QED BY <1>1, <1>2, <1>3 DEF FirstBytes

LEMMA ClosedBytes ==
    ASSUME BeginningsListed, NEW k \in Nat, NEW e \in Nat, Closed(k, e)
    PROVE  /\ 1 <= k /\ k <= e /\ e <= Seen /\ sent[k] \in FirstBytes
           /\ NoOverlap => \A i \in k + 1..e : sent[i] \notin FirstBytes
<1>1. PICK n \in DOMAIN Delimiters : LiesAt(sent, gaps, k, e, n)
  BY DEF Closed, LiesAt
<1>2. 1 <= k /\ e <= Seen
  BY DEF Closed
<1>3. PICK s, gs : s = sent /\ gs = gaps
  OBVIOUS
<1>4. LiesAt(s, gs, k, e, n)
  BY <1>1, <1>3
<1> QED BY <1>2, <1>3, <1>4, DelimiterBytes

LEMMA NextClosedBytes ==
    ASSUME BeginningsListed, NEW k \in Nat, NEW e \in Nat, Closed(k, e)'
    PROVE  /\ 1 <= k /\ k <= e /\ e <= Seen' /\ sent'[k] \in FirstBytes
           /\ NoOverlap => \A i \in k + 1..e : sent'[i] \notin FirstBytes
<1>1. PICK n \in DOMAIN Delimiters : LiesAt(sent', gaps', k, e, n)
  BY DEF Closed, LiesAt
<1>2. 1 <= k /\ e <= Seen'
  BY DEF Closed
<1>3. PICK s, gs : s = sent' /\ gs = gaps'
  OBVIOUS
<1>4. LiesAt(s, gs, k, e, n)
  BY <1>1, <1>3
<1> QED BY <1>2, <1>3, <1>4, DelimiterBytes

\* Where a packet begins in the part that is decided was known before.
LEMMA StartsBack ==
    ASSUME BeginningsListed, Grows, NEW o \in Nat, o <= Seen + 1, DecidedTo(o),
           NEW b \in Nat, b <= o, Starts(b)'
    PROVE  Starts(b)
<1>1. CASE b = 1
  BY <1>1 DEF Starts
<1>2. ASSUME NEW k \in Nat, k < b, Closed(k, b - 1)' PROVE Starts(b)
  <2>1. PICK d \in Nat : d = b - 1
    BY <1>2
  <2>2. Closed(k, d)'
    BY <1>2, <2>1
  <2>3. 1 <= k /\ sent'[k] \in FirstBytes
    BY <2>2, NextClosedBytes
  <2>4. k \in 1..Seen /\ k \in 1..o - 1
    BY <1>2, <2>3 DEF Grows
  <2>5. sent[k] \in FirstBytes
    BY <2>3, <2>4 DEF Grows
  <2>6. PICK e \in 1..o - 1 : Closed(k, e)
    BY <2>4, <2>5 DEF DecidedTo
  <2>7. e = d
    BY <2>2, <2>6, ClosedAgrees
  <2> QED BY <1>2, <2>1, <2>6, <2>7 DEF Starts
<1> QED BY <1>1, <1>2 DEF Starts

LEMMA DecidedStays ==
    ASSUME Grows, NEW o \in Nat, o <= Seen + 1, DecidedTo(o)
    PROVE  DecidedTo(o)'
<1> SUFFICES ASSUME NEW k \in 1..o - 1, sent'[k] \in FirstBytes
             PROVE  \E e \in 1..o - 1 : Closed(k, e)'
  BY DEF DecidedTo, FirstBytes
<1>1. k \in 1..Seen /\ k \in Nat
  BY DEF Grows
<1>2. sent[k] \in FirstBytes
  BY <1>1 DEF Grows
<1>3. PICK e \in 1..o - 1 : Closed(k, e)
  BY <1>2 DEF DecidedTo
<1>4. Closed(k, e)'
  BY <1>1, <1>3, ClosedStays
<1> QED BY <1>4

\* A delimiter has one packet in front of it.
LEMMA StartOnce ==
    ASSUME BeginningsListed, NoOverlap, NEW b \in Nat, NEW d \in Nat, NEW c \in Nat,
           Starts(b), Starts(d), b <= c, d <= c, Plain(b, c)
    PROVE  ~ b < d
<1> SUFFICES ASSUME b < d PROVE FALSE
  OBVIOUS
<1>1. b >= 1
  BY DEF Starts
<1>2. PICK k \in Nat, e \in Nat : k < d /\ e = d - 1 /\ Closed(k, e)
  BY <1>1 DEF Starts
<1>3. /\ 1 <= k /\ k <= e /\ sent[k] \in FirstBytes
      /\ \A i \in k + 1..e : sent[i] \notin FirstBytes
  BY <1>2, ClosedBytes
<1>4. k < b
  <2> SUFFICES ASSUME ~ k < b PROVE FALSE
    OBVIOUS
  <2>1. k \in b..c - 1
    BY <1>2
  <2> QED BY <1>3, <2>1 DEF Plain
<1>5. PICK j \in Nat, f \in Nat : j < b /\ f = b - 1 /\ Closed(j, f)
  BY <1>3, <1>4 DEF Starts
<1>6. /\ j <= f /\ sent[j] \in FirstBytes
      /\ \A i \in j + 1..f : sent[i] \notin FirstBytes
  BY <1>5, ClosedBytes
<1>7. CASE j < k
  <2>1. k \in j + 1..f
    BY <1>4, <1>5, <1>7
  <2> QED BY <1>3, <1>6, <2>1
<1>8. CASE k < j
  <2>1. j \in k + 1..e
    BY <1>2, <1>5, <1>8
  <2> QED BY <1>3, <1>6, <2>1
<1>9. CASE j = k
  <2>1. f = e
    BY <1>2, <1>5, <1>9, ClosedOnce
  <2> QED BY <1>2, <1>5, <2>1
<1> QED BY <1>7, <1>8, <1>9

\* What is behind the part that is decided changes nothing of what is in it.
LEMMA FittingGrows ==
    ASSUME BeginningsListed, Grows, NEW o \in Nat, NEW p \in Nat, 1 <= o, o <= p, o <= Seen + 1,
           DecidedTo(o)
    PROVE  FittingTo(p)' = FittingTo(o) \cup {run \in FittingTo(p)' : run[2] >= o}
<1>1. ASSUME NEW b \in 1..p, NEW c \in 1..p - 1, <<b, c>> \in FittingTo(p)', ~ c >= o
      PROVE  <<b, c>> \in FittingTo(o)
  <2>1. /\ Starts(b)' /\ b <= c /\ Plain(b, c)' /\ sent'[c] \in FirstBytes
        /\ Size(<<b, c>>) <= MaxPacketSize
    BY <1>1 DEF FittingTo, FirstBytes, Size
  <2>2. b \in 1..o /\ c \in 1..o - 1 /\ b \in Nat
    BY <1>1, <2>1
  <2>3. Starts(b)
    BY <2>1, <2>2, StartsBack
  <2>4. \A k \in 1..o - 1 : sent'[k] = sent[k]
    BY DEF Grows
  <2>5. Plain(b, c)
    <3> SUFFICES ASSUME NEW k \in b..c - 1 PROVE sent[k] \notin FirstBytes
      BY DEF Plain
    <3>1. k \in 1..o - 1
      BY <2>2
    <3>2. sent'[k] \notin FirstBytes
      BY <2>1 DEF Plain, FirstBytes
    <3> QED BY <2>4, <3>1, <3>2
  <2> QED BY <2>1, <2>2, <2>3, <2>4, <2>5 DEF FittingTo
<1>2. ASSUME NEW b \in 1..o, NEW c \in 1..o - 1, <<b, c>> \in FittingTo(o)
      PROVE  <<b, c>> \in FittingTo(p)'
  <2>1. /\ Starts(b) /\ b <= c /\ Plain(b, c) /\ sent[c] \in FirstBytes
        /\ Size(<<b, c>>) <= MaxPacketSize
    BY <1>2 DEF FittingTo
  <2>2. b \in 1..p /\ c \in 1..p - 1 /\ b \in Int /\ c \in Int /\ b >= 1 /\ c <= Seen + 1
    BY <1>2 DEF Grows
  <2>3. Starts(b)'
    BY <2>1, <2>2, StartStays
  <2>4. Plain(b, c)'
    BY <2>1, <2>2, PlainStays
  <2>5. sent'[c] \in FirstBytes
    <3>1. c \in 1..Seen
      BY DEF Grows
    <3> QED BY <2>1, <3>1 DEF Grows
  <2> QED BY <2>1, <2>2, <2>3, <2>4, <2>5 DEF FittingTo, FirstBytes, Size
<1>3. FittingTo(o) \subseteq (1..o) \X (1..o - 1) /\ FittingTo(p)' \subseteq (1..p) \X (1..p - 1)
  BY DEF FittingTo
<1>4. ASSUME NEW run \in FittingTo(p)', ~ run[2] >= o PROVE run \in FittingTo(o)
  <2>1. PICK b \in 1..p, c \in 1..p - 1 : run = <<b, c>>
    BY <1>3
  <2> QED BY <1>1, <1>4, <2>1
<1>5. ASSUME NEW run \in FittingTo(o) PROVE run \in FittingTo(p)'
  <2>1. PICK b \in 1..o, c \in 1..o - 1 : run = <<b, c>>
    BY <1>3
  <2> QED BY <1>2, <1>5, <2>1
<1> QED BY <1>4, <1>5

\* A packet behind all others is the last one in their order.
LEMMA InOrderAppend ==
    ASSUME NEW runs \in SUBSET (Nat \X Nat), IsFiniteSet(runs), NEW run \in Nat \X Nat,
           \A r \in runs : r[1] < run[1]
    PROVE  InOrder(runs \cup {run}) = Append(InOrder(runs), Positions(run))
<1> DEFINE both == runs \cup {run}
<1> PICK size \in Nat : size = Cardinality(runs)
  BY FS_CardinalityType
<1>1. run \notin runs
  OBVIOUS
<1>2. Cardinality(both) = size + 1
  BY <1>1, FS_AddElement
<1>3. Before(run, both) = runs
  BY DEF Before
<1>4. \A r \in runs : Before(r, both) = Before(r, runs)
  BY DEF Before
<1>5. ASSUME NEW r \in runs PROVE Cardinality(Before(r, runs)) <= size - 1
  <2>1. IsFiniteSet(runs \ {r}) /\ Cardinality(runs \ {r}) = size - 1
    BY FS_RemoveElement
  <2>2. Before(r, runs) \in SUBSET (runs \ {r})
    BY DEF Before
  <2>3. Cardinality(Before(r, runs)) <= Cardinality(runs \ {r})
    BY <2>1, <2>2, FS_Subset
  <2> QED BY <2>1, <2>3
<1>6. \A r \in runs : Cardinality(Before(r, runs)) \in Nat
  <2> TAKE r \in runs
  <2>1. Before(r, runs) \in SUBSET runs
    BY DEF Before
  <2> QED BY <2>1, FS_Subset, FS_CardinalityType
<1> HIDE DEF both
<1>7. ASSUME NEW n \in 1..size PROVE Nth(n, both) = Nth(n, runs)
  <2>1. {r \in both : Cardinality(Before(r, both)) = n - 1}
          = {r \in runs : Cardinality(Before(r, runs)) = n - 1}
    <3>1. Cardinality(Before(run, both)) # n - 1
      BY <1>3
    <3> QED BY <1>4, <3>1 DEF both
  <2> QED BY <2>1 DEF Nth
<1>8. Nth(size + 1, both) = run
  <2>1. {r \in both : Cardinality(Before(r, both)) = size + 1 - 1} = {run}
    <3>1. \A r \in runs : Cardinality(Before(r, both)) # size + 1 - 1
      BY <1>4, <1>5, <1>6
    <3>2. Cardinality(Before(run, both)) = size + 1 - 1
      BY <1>3
    <3> QED BY <3>1, <3>2 DEF both
  <2> QED BY <2>1 DEF Nth
<1> DEFINE last == Positions(run)
           f == [n \in 1..size |-> Positions(Nth(n, runs))]
           g == [n \in 1..size + 1 |-> Positions(Nth(n, both))]
<1>9. InOrder(runs) = f /\ InOrder(both) = g
  BY <1>2 DEF InOrder
<1>10. \A n \in 1..size : g[n] = f[n]
  BY <1>7
<1>11. g[size + 1] = last
  BY <1>8
<1>12. DOMAIN f = 1..size /\ g = [n \in 1..size + 1 |-> g[n]] /\ f = [n \in 1..size |-> f[n]]
  OBVIOUS
<1> HIDE DEF f, g, last
<1> DEFINE S == {f[n] : n \in 1..size} \cup {last}
<1>13. f \in Seq(S) /\ Len(f) = size /\ last \in S
  <2>1. last \in S /\ \A n \in 1..size : f[n] \in S
    OBVIOUS
  <2> HIDE DEF S
  <2>2. f \in [1..size -> S]
    BY <1>12, <2>1
  <2> QED BY <2>1, <2>2
<1> HIDE DEF S
<1>14. Append(f, last) = [n \in 1..size + 1 |-> IF n \in 1..size THEN f[n] ELSE last]
  <2> DEFINE h == Append(f, last)
  <2>1. /\ h \in Seq(S) /\ Len(h) = size + 1 /\ h[size + 1] = last
        /\ \A n \in 1..size : h[n] = f[n]
    BY <1>13, AppendLemma
  <2> HIDE DEF h
  <2>2. h = [n \in 1..size + 1 |-> h[n]]
    BY <2>1
  <2>3. \A n \in 1..size + 1 : h[n] = IF n \in 1..size THEN f[n] ELSE last
    BY <2>1
  <2> QED BY <2>2, <2>3 DEF h
<1>15. g = [n \in 1..size + 1 |-> IF n \in 1..size THEN f[n] ELSE last]
  <2>1. \A n \in 1..size + 1 : g[n] = IF n \in 1..size THEN f[n] ELSE last
    BY <1>10, <1>11
  <2> QED BY <1>12, <2>1
<1> QED BY <1>9, <1>14, <1>15 DEF both, last

LEMMA FittingFinite ==
    ASSUME NEW o \in Nat
    PROVE  /\ FittingTo(o) \in SUBSET (Nat \X Nat) /\ IsFiniteSet(FittingTo(o))
           /\ \A run \in FittingTo(o) : run[2] <= o - 1
<1>1. IsFiniteSet((1..o) \X (1..o - 1))
  <2>1. o - 1 \in Int /\ o \in Int /\ 1 \in Int
    OBVIOUS
  <2>2. IsFiniteSet(1..o) /\ IsFiniteSet(1..o - 1)
    BY <2>1, FS_Interval
  <2> QED BY <2>2, FS_Product
<1>2. FittingTo(o) \in SUBSET ((1..o) \X (1..o - 1))
  BY DEF FittingTo
<1>3. IsFiniteSet(FittingTo(o))
  BY <1>1, <1>2, FS_Subset
<1>4. (1..o) \X (1..o - 1) \subseteq Nat \X Nat
  OBVIOUS
<1>5. \A run \in (1..o) \X (1..o - 1) : run[2] <= o - 1
  OBVIOUS
<1> QED BY <1>2, <1>3, <1>4, <1>5

-----------------------------------------------------------------------------
(* What the steps do to what is delivered                                  *)

\* Where in the stream the packetizer is.
LEMMA OpenPlace ==
    ASSUME FrameTypes, InPlace
    PROVE  /\ Opened \in Nat /\ 1 <= Opened /\ Opened <= Done + 1 /\ Done \in Nat
           /\ Opened <= Seen + 1 /\ Seen \in Nat /\ Begun \in Nat /\ 1 <= Begun
           /\ packetLen \in Nat /\ Opened = Begun + packetLen
<1>1. /\ Len(packet) \in Nat /\ packetLen \in Nat /\ packetLen <= Len(packet)
      /\ Done \in Nat /\ Seen \in Nat /\ Begun \in Int /\ Done <= Seen
      /\ Len(packet) > 0 => Begun >= 1
  BY OpenBytes DEF FrameTypes
<1>2. Begun = Done - Len(packet) + 1 /\ Opened = Begun + packetLen
  BY DEF Begun, Opened
<1>3. Begun >= 1
  BY <1>1, <1>2
<1> QED BY <1>1, <1>2, <1>3

\* What is discarded stays in the stream.
LEMMA OverlongStays ==
    ASSUME FrameTypes, InPlace, Grows, Overlong, Begun' = Begun
    PROVE  Overlong'
<1> PICK b \in Nat : b = Begun
  BY OpenPlace
<1> PICK l \in Int : l = b - MaxPacketSize - 1
  BY MaxPacketSizeAssumption
<1>1. l = Lost /\ l = Lost' /\ l >= 1 /\ Starts(l) /\ Plain(l, b)
  BY DEF Lost, Overlong
<1>2. b <= Seen + 1
  BY OpenPlace
<1>3. Starts(l)' /\ Plain(l, b)'
  BY <1>1, <1>2, StartStays, PlainStays
<1> QED BY <1>1, <1>3 DEF Overlong

LEMMA KeptFollows ==
    ASSUME BeginningsListed, FrameTypes, InPlace, Grows, Kept, Follows
    PROVE  Follows'
<1> PICK o \in Nat : o = Opened /\ 1 <= o /\ o <= Seen + 1
  BY OpenPlace
<1>1. /\ discard' = discard /\ delivered' = delivered /\ Begun' = Begun /\ o = Opened'
      /\ Hopeless => Hopeless'
  BY DEF Kept
<1>2. discard' => Overlong'
  BY <1>1, OverlongStays DEF Follows
<1>3. ASSUME AllDelivered PROVE AllDelivered'
  <2>1. DecidedTo(o) /\ delivered = InOrder(FittingTo(o))
    BY <1>3 DEF AllDelivered
  <2>2. DecidedTo(o)'
    BY <2>1, DecidedStays
  <2>3. FittingTo(o)' = FittingTo(o) \cup {run \in FittingTo(o)' : run[2] >= o}
    BY <2>1, FittingGrows
  <2>4. FittingTo(o)' \subseteq (1..o) \X (1..o - 1)
    BY DEF FittingTo
  <2>5. \A run \in FittingTo(o)' : ~ run[2] >= o
    BY <2>4
  <2>6. FittingTo(o)' = FittingTo(o)
    BY <2>3, <2>5
  <2> QED BY <1>1, <2>1, <2>2, <2>6 DEF AllDelivered
<1> QED BY <1>1, <1>2, <1>3 DEF Follows

LEMMA PassFollows ==
    ASSUME BeginningsListed, FrameTypes, PacketInv, InPlace, InFrame, Grows, Follows,
           PassedOver, UNCHANGED <<sent, delivered>>
    PROVE  Follows'
<1> PICK o \in Nat, b \in Nat :
      /\ o = Opened /\ b = Begun /\ 1 <= o /\ 1 <= b /\ o <= Seen + 1 /\ o = b + packetLen
      /\ packetLen \in Nat
  BY OpenPlace
<1>1. CASE discard
  <2>1. Hopeless' /\ Begun' = Begun
    BY <1>1 DEF PassedOver
  <2>2. Overlong'
    BY <1>1, <2>1, OverlongStays DEF Follows
  <2> QED BY <2>1, <2>2 DEF Follows
<1>2. CASE ~ discard
  <2>1. Opened' = o + 1 /\ sent'[o] \notin FirstBytes
    BY <1>2 DEF PassedOver
  <2>2. AllDelivered
    BY <1>2 DEF Follows, Hopeless
  <2>3. DecidedTo(o) /\ delivered = InOrder(FittingTo(o))
    BY <2>2 DEF AllDelivered
  <2>4. DecidedTo(o + 1)'
    <3> SUFFICES ASSUME NEW k \in 1..o + 1 - 1, sent'[k] \in FirstBytes
                 PROVE  \E e \in 1..o + 1 - 1 : Closed(k, e)'
      BY DEF DecidedTo, FirstBytes
    <3>1. k \in 1..o - 1
      BY <2>1
    <3>2. DecidedTo(o)'
      BY <2>3, DecidedStays
    <3>3. PICK e \in 1..o - 1 : Closed(k, e)'
      BY <3>1, <3>2 DEF DecidedTo, FirstBytes
    <3> QED BY <3>3
  <2>5. FittingTo(o + 1)' = FittingTo(o)
    <3> PICK p \in Nat : p = o + 1
      OBVIOUS
    <3>1. FittingTo(p)' = FittingTo(o) \cup {run \in FittingTo(p)' : run[2] >= o}
      BY <2>3, FittingGrows
    <3>2. FittingTo(p)' \subseteq (1..p) \X (1..p - 1)
      BY DEF FittingTo
    <3>3. \A run \in FittingTo(p)' : sent'[run[2]] \in FirstBytes
      BY DEF FittingTo, FirstBytes
    <3>4. \A run \in FittingTo(p)' : ~ run[2] >= o
      <4> TAKE run \in FittingTo(p)'
      <4>1. run[2] # o
        BY <2>1, <3>3
      <4>2. run[2] \in 1..o
        BY <3>2
      <4> QED BY <4>1, <4>2
    <3> QED BY <3>1, <3>4
  <2>6. AllDelivered'
    <3> PICK p \in Nat : p = o + 1
      OBVIOUS
    <3>1. DecidedTo(p)' /\ FittingTo(p)' = FittingTo(o) /\ Opened' = p
      BY <2>1, <2>4, <2>5
    <3> QED BY <2>3, <3>1 DEF AllDelivered
  <2>7. ASSUME discard' PROVE Overlong'
    <3>1. Begun' = o + 1 /\ packetLen = Len(packet) /\ Len(packet) >= MaxPacketSize
      BY <1>2, <2>7 DEF PassedOver
    <3>2. packetLen <= MaxPacketSize
      BY <1>2 DEF PacketInv, CapacitySuffices
    <3>3. packetLen = MaxPacketSize
      BY <3>1, <3>2, MaxPacketSizeAssumption
    <3>4. Lost' = b
      BY <3>1, <3>3, MaxPacketSizeAssumption DEF Lost
    <3>5. Starts(b) /\ Plain(b, o)
      BY <1>2 DEF InFrame
    <3>6. Starts(b)'
      BY <3>5, StartStays
    <3>7. Plain(b, o)'
      BY <3>5, PlainStays
    <3> PICK p \in Nat : p = o + 1
      OBVIOUS
    <3>8. Plain(b, p)'
      <4> SUFFICES ASSUME NEW k \in b..p - 1 PROVE sent'[k] \notin FirstBytes
        BY DEF Plain, FirstBytes
      <4>1. k = o \/ k \in b..o - 1
        OBVIOUS
      <4> QED BY <2>1, <3>7, <4>1 DEF Plain, FirstBytes
    <3> QED BY <3>1, <3>4, <3>6, <3>8 DEF Overlong
  <2> QED BY <2>6, <2>7 DEF Follows
<1> QED BY <1>1, <1>2

\* Where no delimiter is found any more, none is closed.
LEMMA EndingNeedsBeginning ==
    ASSUME BeginningsListed, FrameTypes, InPlace, InFrame, Grows,
           NEW o \in Nat, o = Opened, NEW e \in Nat, Closed(o, e)'
    PROVE  ~ Hopeless
<1> SUFFICES ASSUME Hopeless PROVE FALSE
  OBVIOUS
<1> o >= 1
  BY OpenPlace
<1>1. Undecided(packet)[1] \notin FirstBytes /\ Undecided(packet) # <<>>
  BY DEF Hopeless, InFrame, Beginning
<1> PICK u \in Seq(Bytes) : u = Undecided(packet)
  BY OpenBytes
<1>2. Len(u) \in Nat /\ Len(u) >= 1
  BY <1>1
<1>3. /\ Len(u) = Len(packet) - packetLen /\ o + Len(u) = Done + 1 /\ Done <= Seen
      /\ \A i \in 1..Len(packet) - packetLen : u[i] = sent[o + i - 1]
      /\ Done \in Nat /\ Seen \in Nat
  BY OpenBytes
<1>4. u[1] = sent[o] /\ o \in 1..Seen
  <2>1. 1 \in 1..Len(packet) - packetLen /\ o + 1 - 1 = o
    BY <1>2, <1>3
  <2> QED BY <1>2, <1>3, <2>1
<1>5. sent'[o] = sent[o]
  BY <1>4 DEF Grows
<1>6. sent'[o] \in FirstBytes
  BY NextClosedBytes
<1> QED BY <1>1, <1>4, <1>5, <1>6

LEMMA EndFollows ==
    ASSUME BeginningsListed, NoOverlap, FrameTypes, PacketInv, InPlace, InFrame, Grows, Follows,
           Ended
    PROVE  Follows'
<1> PICK o \in Nat, b \in Nat :
      /\ o = Opened /\ b = Begun /\ 1 <= o /\ 1 <= b /\ o <= Seen + 1 /\ o = b + packetLen
      /\ packetLen \in Nat
  BY OpenPlace
<1> PICK e \in Nat :
      /\ o <= e /\ Closed(o, e)' /\ Done' = e
      /\ packet' = <<>> /\ packetLen' = 0 /\ discard' = FALSE
      /\ delivered' = IF discard THEN delivered
                      ELSE Append(delivered, [i \in 1..packetLen |-> b + i - 1])
  BY DEF Ended
<1> PICK p \in Nat : p = e + 1
  OBVIOUS
<1>1. Opened' = p
  BY DEF Opened, Begun
<1>2. ~ Hopeless
  BY EndingNeedsBeginning
<1>3. DecidedTo(o) /\ delivered = InOrder(FittingTo(o))
  BY <1>2 DEF Follows, AllDelivered
<1>4. sent'[o] \in FirstBytes /\ \A k \in o + 1..e : sent'[k] \notin FirstBytes
  BY NextClosedBytes
<1>5. DecidedTo(p)'
  <2> SUFFICES ASSUME NEW k \in 1..p - 1, sent'[k] \in FirstBytes
               PROVE  \E f \in 1..p - 1 : Closed(k, f)'
    BY DEF DecidedTo, FirstBytes
  <2>1. CASE k = o
    <3>1. e \in 1..p - 1
      OBVIOUS
    <3> QED BY <2>1, <3>1
  <2>2. CASE k # o
    <3>1. k \in 1..o - 1
      <4>1. k \notin o + 1..e
        BY <1>4
      <4> QED BY <2>2, <4>1
    <3>2. DecidedTo(o)'
      BY <1>3, DecidedStays
    <3>3. PICK f \in 1..o - 1 : Closed(k, f)'
      BY <3>1, <3>2 DEF DecidedTo, FirstBytes
    <3> QED BY <3>3
  <2> QED BY <2>1, <2>2
<1> DEFINE new == {run \in FittingTo(p)' : run[2] >= o}
<1>6. FittingTo(p)' = FittingTo(o) \cup new
  BY <1>3, FittingGrows
<1>7. ASSUME NEW run \in new
      PROVE  \E a \in Nat : run = <<a, o>> /\ a <= o /\ Starts(a) /\ Plain(a, o) /\ o - a <= MaxPacketSize
  <2>1. PICK a \in 1..p, c \in 1..p - 1 : run = <<a, c>> /\ c >= o
    BY DEF FittingTo
  <2>2. /\ Starts(a)' /\ a <= c /\ Plain(a, c)' /\ sent'[c] \in FirstBytes /\ c - a <= MaxPacketSize
    BY <2>1 DEF FittingTo, FirstBytes, Size
  <2>3. c = o
    <3>1. c \notin o + 1..e
      BY <1>4, <2>2
    <3> QED BY <2>1, <3>1
  <2>4. Starts(a)
    BY <1>3, <2>2, <2>3, StartsBack
  <2>5. Plain(a, o)
    <3> SUFFICES ASSUME NEW k \in a..o - 1 PROVE sent[k] \notin FirstBytes
      BY DEF Plain
    <3>1. k \in 1..Seen
      BY DEF Grows
    <3>2. sent'[k] \notin FirstBytes
      BY <2>2, <2>3 DEF Plain, FirstBytes
    <3> QED BY <3>1, <3>2 DEF Grows
  <2> QED BY <2>1, <2>2, <2>3, <2>4, <2>5
<1>8. CASE discard
  <2>1. Overlong /\ packetLen = 0
    BY <1>8 DEF Follows, InFrame
  <2> PICK l \in Nat : l = b - MaxPacketSize - 1 /\ Starts(l) /\ Plain(l, o) /\ l <= o
    BY <2>1, MaxPacketSizeAssumption DEF Overlong, Lost
  <2>2. new = {}
    <3> SUFFICES ASSUME NEW run \in new PROVE FALSE
      OBVIOUS
    <3>1. PICK a \in Nat : a <= o /\ Starts(a) /\ Plain(a, o) /\ o - a <= MaxPacketSize
      BY <1>7
    <3>2. ~ a < l /\ ~ l < a
      BY <3>1, StartOnce
    <3> QED BY <2>1, <3>1, <3>2, MaxPacketSizeAssumption
  <2>3. FittingTo(p)' = FittingTo(o)
    BY <1>6, <2>2
  <2> QED BY <1>1, <1>3, <1>5, <1>8, <2>3 DEF Follows, AllDelivered
<1>9. CASE ~ discard
  <2>1. Starts(b) /\ Plain(b, o) /\ packetLen <= MaxPacketSize /\ b <= o
    BY <1>9 DEF InFrame, PacketInv, CapacitySuffices
  <2>2. new = {<<b, o>>}
    <3>1. ASSUME NEW run \in new PROVE run = <<b, o>>
      <4>1. PICK a \in Nat : run = <<a, o>> /\ a <= o /\ Starts(a) /\ Plain(a, o)
        BY <1>7
      <4>2. ~ a < b /\ ~ b < a
        BY <2>1, <4>1, StartOnce
      <4> QED BY <4>1, <4>2
    <3>2. Starts(b)' /\ Plain(b, o)'
      BY <2>1, StartStays, PlainStays
    <3>3. <<b, o>> \in FittingTo(p)'
      <4>1. b \in 1..p /\ o \in 1..p - 1 /\ o - b <= MaxPacketSize
        BY <2>1
      <4> QED BY <1>4, <2>1, <3>2, <4>1 DEF FittingTo, FirstBytes, Size
    <3> QED BY <3>1, <3>3
  <2>3. \A run \in FittingTo(o) : run[1] < b
    <3> SUFFICES ASSUME NEW run \in FittingTo(o), ~ run[1] < b PROVE FALSE
      BY FittingFinite
    <3>1. PICK a \in 1..o, c \in 1..o - 1 : run = <<a, c>> /\ a <= c /\ sent[c] \in FirstBytes
      BY DEF FittingTo
    <3>2. c \in b..o - 1
      BY <3>1
    <3> QED BY <2>1, <3>1, <3>2 DEF Plain
  <2>4. InOrder(FittingTo(o) \cup {<<b, o>>}) = Append(InOrder(FittingTo(o)), Positions(<<b, o>>))
    <3>1. PICK runs : runs = FittingTo(o)
      OBVIOUS
    <3>2. PICK run : run = <<b, o>>
      OBVIOUS
    <3>3. /\ runs \in SUBSET (Nat \X Nat) /\ IsFiniteSet(runs) /\ run \in Nat \X Nat
          /\ \A r \in runs : r[1] < run[1]
      BY <2>3, <3>1, <3>2, FittingFinite
    <3>4. InOrder(runs \cup {run}) = Append(InOrder(runs), Positions(run))
      BY <3>3, InOrderAppend
    <3> QED BY <3>1, <3>2, <3>4
  <2>5. Positions(<<b, o>>) = [i \in 1..packetLen |-> b + i - 1]
    BY DEF Positions
  <2>6. delivered' = InOrder(FittingTo(p)')
    BY <1>3, <1>6, <1>9, <2>2, <2>4, <2>5
  <2>7. AllDelivered'
    <3>1. InOrder(FittingTo(p))' = InOrder(FittingTo(p)')
      BY DEF InOrder, Nth, Before, Positions
    <3> QED BY <1>1, <1>5, <2>6, <3>1 DEF AllDelivered
  <2> QED BY <2>7 DEF Follows
<1> QED BY <1>8, <1>9

\* The packetizer delivers what the bytes it has decided about hold.
THEOREM FollowCorrect == ASSUME BeginningsListed, NoOverlap PROVE Spec => []FollowInv
<1>1. ASSUME Init PROVE FollowInv
  <2>1. /\ packet = <<>> /\ packetLen = 0 /\ discard = FALSE
        /\ delivered = <<>> /\ removed = 0 /\ next = 0
    BY <1>1 DEF Init
  <2>2. Opened = 1
    BY <2>1 DEF Done, Begun, Opened
  <2>3. FittingTo(1) = {}
    BY DEF FittingTo
  <2>4. InOrder({}) = <<>>
    <3>1. Cardinality({}) = 0
      BY FS_EmptySet
    <3> QED BY <3>1 DEF InOrder
  <2>5. DecidedTo(1)
    BY DEF DecidedTo
  <2>6. AllDelivered
    BY <2>1, <2>2, <2>3, <2>4, <2>5 DEF AllDelivered
  <2> QED BY <2>1, <2>6 DEF FollowInv, Follows
<1>2. /\ FollowInv /\ FrameInv /\ ReadInv /\ ThreadInv /\ PacketInv /\ RestInv /\ [Next]_vars
      => FollowInv'
  <2> SUFFICES ASSUME FollowInv, FrameInv, ReadInv, ThreadInv, PacketInv, RestInv, [Next]_vars,
                      Class("packet")'
               PROVE  Follows'
    BY DEF FollowInv
  <2>1. Class("packet")
    BY DeviceSteps DEF Class
  <2>2. Follows /\ InPlace /\ InFrame /\ FrameTypes
    BY <2>1, FrameTyped DEF FollowInv, FrameInv
  <2>3. Grows /\ (Ended \/ Kept \/ (PassedOver /\ UNCHANGED <<sent, delivered>>))
    BY <2>1, StreamSteps
  <2> QED BY <2>2, <2>3, KeptFollows, PassFollows, EndFollows
<1> QED BY <1>1, <1>2, FrameCorrect, BytesCorrect, ThreadCorrect, PacketCorrect, RestCorrect, PTL
        DEF Spec

-----------------------------------------------------------------------------
(* What is delivered and what lies between the delimiters                  *)

\* The bytes of the stream from one position on.
LEMMA RestOfStream ==
    ASSUME FrameTypes, NEW j \in Nat, 1 <= j, j <= removed
    PROVE  /\ SubSeq(sent, j, removed) \in Seq(Bytes)
           /\ Len(SubSeq(sent, j, removed)) = removed - j + 1
           /\ \A i \in 1..removed - j + 1 : SubSeq(sent, j, removed)[i] = sent[j + i - 1]
<1>1. removed \in Nat /\ Len(sent) \in Nat /\ removed <= Len(sent) /\ sent \in Seq(Bytes)
  <2>1. /\ removed \in Nat /\ rxLen \in Nat /\ Len(sent) \in Nat /\ removed + rxLen <= Len(sent)
        /\ sent \in Seq(Bytes)
    BY DEF FrameTypes, Seen
  <2> QED BY <2>1
<1> QED BY <1>1

\* What is waited for begins a delimiter.
LEMMA PendingBegins ==
    ASSUME BeginningsListed, FrameTypes, NEW j \in Nat, 1 <= j, j <= removed, PendingAt(j)
    PROVE  sent[j] \in FirstBytes
<1> PICK s \in Seq(Bytes) :
      /\ s = SubSeq(sent, j, removed) /\ Len(s) = removed - j + 1
      /\ \A i \in 1..removed - j + 1 : s[i] = sent[j + i - 1]
  BY RestOfStream
<1>1. PICK n \in DOMAIN Delimiters : MayBecome(s, n)
  BY DEF PendingAt
<1>2. \A i \in 1..Len(s) : s[i] = Delimiters[n][i]
  BY <1>1, Comparing
<1>3. 1 \in 1..removed - j + 1 /\ j + 1 - 1 = j
  BY DEF FrameTypes
<1>4. sent[j] = Delimiters[n][1]
  BY <1>2, <1>3
<1> QED BY <1>4 DEF FirstBytes

\* Up to the delimiter that may still become longer, each byte that begins a
\* delimiter is where one lies.
LEMMA CutsAre ==
    ASSUME BeginningsListed, NoOverlap, FrameTypes, InPlace, InFrame, rxLen = 0, next = 0,
           Beginning(Undecided(packet)), DecidedTo(Opened), NEW k \in Nat
    PROVE  k \in Cuts <=> k \in 1..Opened - 1 /\ sent[k] \in FirstBytes
<1> PICK o \in Nat : o = Opened /\ 1 <= o
  BY OpenPlace
<1> PICK u \in Seq(Bytes) : u = Undecided(packet)
  BY OpenBytes
<1>1. /\ Done = removed /\ removed \in Nat /\ removed <= Len(sent) /\ Len(u) \in Nat
      /\ o + Len(u) = removed + 1
      /\ \A i \in 1..Len(u) : u[i] = sent[o + i - 1]
  <2>1. Done = removed /\ removed \in Nat
    BY DEF FrameTypes, Done
  <2>2. Seen = removed
    BY <2>1 DEF Seen
  <2> QED BY <2>1, <2>2, OpenBytes
<1>2. ASSUME k \in 1..o - 1, sent[k] \in FirstBytes PROVE k \in Cuts
  <2>1. PICK e \in 1..o - 1 : Closed(k, e)
    BY <1>2 DEF DecidedTo
  <2> QED BY <2>1, ClosedIsCut
<1>3. ASSUME k \in Cuts PROVE sent[k] \in FirstBytes /\ k \in 1..removed /\ ~ PendingAt(k)
  BY <1>3, CutBegins DEF Cuts
<1>4. ASSUME k \in Cuts, k >= o PROVE FALSE
  <2>1. u # <<>> /\ Len(u) >= 1
    BY <1>1, <1>3, <1>4
  <2>2. PICK n \in DOMAIN Delimiters : MayBecome(u, n)
    BY <2>1 DEF Beginning
  <2> PICK size \in Nat : size = Len(Delimiters[n])
    BY ListedLemma
  <2>3. Len(u) < size /\ \A i \in 1..Len(u) : u[i] = Delimiters[n][i]
    BY <2>2, Comparing
  <2>4. CASE k > o
    <3>1. k - o + 1 \in 1..Len(u) /\ k - o + 1 \in 2..size /\ o + (k - o + 1) - 1 = k
      BY <1>1, <1>3, <1>4, <2>3, <2>4
    <3>2. sent[k] = Delimiters[n][k - o + 1]
      BY <1>1, <2>3, <3>1
    <3>3. PICK m \in DOMAIN Delimiters : sent[k] = Delimiters[m][1]
      BY <1>3, <1>4 DEF FirstBytes
    <3> QED BY <3>1, <3>2, <3>3 DEF NoOverlap
  <2>5. CASE k = o
    <3> 1 <= k /\ k <= removed /\ removed - k + 1 = Len(u)
      BY <1>1, <1>3, <1>4, <2>5
    <3> PICK s \in Seq(Bytes) :
          /\ s = SubSeq(sent, k, removed) /\ Len(s) = removed - k + 1
          /\ \A i \in 1..removed - k + 1 : s[i] = sent[k + i - 1]
      BY RestOfStream
    <3>1. Len(s) = Len(u) /\ \A i \in 1..Len(s) : s[i] = Delimiters[n][i]
      <4>1. Len(s) = Len(u)
        OBVIOUS
      <4>2. ASSUME NEW i \in 1..Len(s) PROVE s[i] = Delimiters[n][i]
        <5>1. i \in 1..removed - k + 1 /\ i \in 1..Len(u)
          BY <4>1
        <5>2. s[i] = sent[k + i - 1]
          BY <5>1
        <5>3. u[i] = sent[o + i - 1] /\ u[i] = Delimiters[n][i]
          BY <1>1, <2>3, <5>1
        <5> QED BY <2>5, <5>2, <5>3
      <4> QED BY <4>1, <4>2
    <3>2. MayBecome(s, n)
      BY <2>3, <3>1, Comparing
    <3>3. gaps \cap k..removed = {}
      BY <1>1, <2>5 DEF InFrame
    <3>4. ASSUME NEW m \in WholeAt(k) PROVE n < m
      <4>1. m \in DOMAIN Delimiters
        BY DEF WholeAt
      <4> PICK length \in Nat : length = Len(Delimiters[m])
        BY <4>1, ListedLemma
      <4>2. k + length - 1 <= removed /\ \A i \in 1..length : sent[k + i - 1] = Delimiters[m][i]
        BY <1>1, <2>5, <4>1, WholeBytes
      <4>3. length <= Len(u)
        BY <1>1, <2>5, <4>2
      <4>4. ASSUME NEW i \in 1..length PROVE Delimiters[m][i] = Delimiters[n][i]
        <5>1. i \in 1..Len(u)
          BY <1>1, <4>3
        <5>2. u[i] = sent[o + i - 1] /\ u[i] = Delimiters[n][i]
          BY <1>1, <2>3, <5>1
        <5> QED BY <2>5, <4>2, <5>2
      <4>5. length < size
        BY <1>1, <2>3, <4>3
      <4> QED BY <4>1, <4>4, <4>5, ListedLemma
    <3>5. PendingAt(k)
      BY <3>2, <3>3, <3>4 DEF PendingAt
    <3> QED BY <1>3, <1>4, <3>5
  <2> QED BY <1>4, <2>4, <2>5
<1>5. k \in Cuts => k \in 1..o - 1
  BY <1>1, <1>3, <1>4
<1> QED BY <1>2, <1>3, <1>5

\* The packets between the delimiters are those that were delivered.
LEMMA PacketsAre ==
    ASSUME BeginningsListed, NoOverlap, FrameTypes, InPlace, InFrame, rxLen = 0, next = 0,
           Beginning(Undecided(packet)), DecidedTo(Opened)
    PROVE  {run \in Between : Size(run) <= MaxPacketSize} = FittingTo(Opened)
<1> PICK o \in Nat : o = Opened /\ 1 <= o
  BY OpenPlace
<1>1. \A k \in Nat : k \in Cuts <=> k \in 1..o - 1 /\ sent[k] \in FirstBytes
  BY CutsAre
<1>2. Cuts \subseteq Nat
  BY DEF Cuts
<1>3. \A b \in Nat : Starts(b) => b \in Begins
  BY StartBegins
<1>4. ASSUME NEW b \in Begins PROVE b \in Nat /\ 1 <= b /\ Starts(b)
  <2>1. CASE b = 1
    BY <2>1 DEF Starts
  <2>2. ASSUME NEW k \in Cuts, b = Behind(k) PROVE b \in Nat /\ 1 <= b /\ Starts(b)
    <3>1. k \in Nat /\ k \in 1..o - 1 /\ sent[k] \in FirstBytes
      BY <1>1, <1>2
    <3>2. PICK e \in 1..o - 1 : Closed(k, e)
      BY <3>1 DEF DecidedTo
    <3>3. b = e + 1 /\ k <= e
      BY <2>2, <3>1, <3>2, ClosedIsCut
    <3>4. b - 1 = e /\ k < b /\ b \in Nat /\ 1 <= b
      BY <3>1, <3>3
    <3> QED BY <3>1, <3>2, <3>4 DEF Starts
  <2> QED BY <2>1, <2>2 DEF Begins
<1>5. ASSUME NEW b \in Nat, NEW c \in 1..o - 1, 1 <= b
      PROVE  Plain(b, c) <=> Cuts \cap b..c - 1 = {}
  <2>1. \A j \in b..c - 1 : j \in Nat /\ j \in 1..o - 1
    BY <1>5
  <2> QED BY <1>1, <2>1 DEF Plain
<1>6. ASSUME NEW run \in Between, Size(run) <= MaxPacketSize PROVE run \in FittingTo(o)
  <2>1. PICK b \in Begins, c \in Cuts : run = <<b, c>> /\ b <= c /\ Cuts \cap b..c - 1 = {}
    BY DEF Between
  <2>2. /\ b \in Nat /\ 1 <= b /\ Starts(b)
        /\ c \in Nat /\ c \in 1..o - 1 /\ sent[c] \in FirstBytes
    BY <1>1, <1>2, <1>4
  <2>3. Plain(b, c) /\ b \in 1..o
    BY <1>5, <2>1, <2>2
  <2> QED BY <1>6, <2>1, <2>2, <2>3 DEF FittingTo
<1>7. ASSUME NEW run \in FittingTo(o) PROVE run \in Between /\ Size(run) <= MaxPacketSize
  <2>1. PICK b \in 1..o, c \in 1..o - 1 :
          /\ run = <<b, c>> /\ Starts(b) /\ b <= c /\ Plain(b, c) /\ sent[c] \in FirstBytes
          /\ Size(run) <= MaxPacketSize
    BY DEF FittingTo
  <2>2. b \in Begins /\ c \in Cuts
    BY <1>1, <1>3, <2>1
  <2>3. Cuts \cap b..c - 1 = {}
    BY <1>5, <2>1
  <2> QED BY <2>1, <2>2, <2>3 DEF Between
<1> QED BY <1>6, <1>7

\* No delimiter in front of a packet that begins at b goes on behind b.
LEMMA BehindStarts ==
    ASSUME BeginningsListed, NoOverlap, FrameTypes, rxLen = 0, NEW b \in Nat, Starts(b),
           NEW k \in Cuts, k < b
    PROVE  Behind(k) \in Nat /\ Behind(k) <= b
<1>1. k \in Nat /\ 1 <= k /\ WholeAt(k) # {} /\ removed <= Len(sent)
  <2>1. /\ removed \in Nat /\ Len(sent) \in Nat /\ removed + rxLen <= Len(sent)
    BY DEF FrameTypes, Seen
  <2> QED BY <2>1 DEF Cuts
<1>2. PICK m \in DOMAIN Delimiters : m \in WholeAt(k) /\ Behind(k) = k + Len(Delimiters[m])
  <2>1. WholeAt(k) \subseteq DOMAIN Delimiters
    BY DEF WholeAt
  <2>2. WholeAt(k) \in SUBSET Nat
    BY <2>1, ListedLemma
  <2>3. Min(WholeAt(k)) \in WholeAt(k)
    BY <1>1, <2>2, SmallestOf
  <2> QED BY <2>1, <2>3 DEF Behind
<1> PICK size \in Nat : size = Len(Delimiters[m]) /\ size >= 1
  BY ListedLemma
<1>3. \A i \in 1..size : sent[k + i - 1] = Delimiters[m][i]
  BY <1>1, <1>2, WholeBytes
<1> DEFINE end == k + size - 1
<1> end \in Nat
  BY <1>1
<1> HIDE DEF end
<1> PICK e \in Nat : e = end
  OBVIOUS
<1> USE DEF end
<1>4. k <= e /\ sent[k] \in FirstBytes /\ \A i \in k + 1..e : sent[i] \notin FirstBytes
  <2>1. gaps \cap k..k + size - 2 = {}
    BY <1>1, <1>2, WholeBytes
  <2>2. size = e - k + 1 /\ k + size - 2 = e - 1
    BY <1>1
  <2> PICK s, gs : s = sent /\ gs = gaps
    OBVIOUS
  <2>3. LiesAt(s, gs, k, e, m)
    BY <1>3, <2>1, <2>2 DEF LiesAt
  <2>4. k \in Nat
    BY <1>1
  <2> QED BY <2>3, <2>4, DelimiterBytes
<1>5. Behind(k) = e + 1
  BY <1>1, <1>2
<1>6. ASSUME b < e + 1 PROVE FALSE
  <2>1. PICK j \in Nat, f \in Nat : j < b /\ f = b - 1 /\ Closed(j, f)
    BY <1>1 DEF Starts
  <2>2. /\ j <= f /\ sent[j] \in FirstBytes
        /\ \A i \in j + 1..f : sent[i] \notin FirstBytes
    BY <2>1, ClosedBytes
  <2>3. CASE j < k
    <3>1. k \in j + 1..f
      BY <1>1, <2>1, <2>3
    <3> QED BY <1>4, <2>2, <3>1
  <2>4. CASE k < j
    <3>1. j \in k + 1..e
      BY <1>1, <1>6, <2>1, <2>4
    <3> QED BY <1>4, <2>2, <3>1
  <2>5. CASE j = k
    <3>1. Behind(k) = f + 1
      BY <2>1, <2>5, ClosedIsCut
    <3> QED BY <1>5, <1>6, <2>1, <3>1
  <2> QED BY <1>1, <2>3, <2>4, <2>5
<1> QED BY <1>5, <1>6

\* Where no delimiter is found any more, a packet is too long by two bytes.
LEMMA HopelessIsNotFramed ==
    ASSUME BeginningsListed, NoOverlap, FrameTypes, InPlace, InFrame, rxLen = 0, next = 0,
           Hopeless, Overlong
    PROVE  ~ Framed
<1> PICK o \in Nat : o = Opened /\ o = Begun /\ 1 <= o
  <2>1. packetLen = 0
    BY DEF Hopeless, InFrame
  <2> QED BY <2>1, OpenPlace
<1> PICK u \in Seq(Bytes) : u = Undecided(packet)
  BY OpenBytes
<1>1. u # <<>> /\ u[1] \notin FirstBytes
  BY DEF Hopeless, InFrame, Beginning
<1>2. removed \in Nat /\ o <= removed /\ sent[o] \notin FirstBytes
  <2>1. Done = removed /\ removed \in Nat
    BY DEF FrameTypes, Done
  <2>2. /\ Len(u) = Len(packet) - packetLen /\ o + Len(u) = Done + 1
        /\ \A i \in 1..Len(packet) - packetLen : u[i] = sent[o + i - 1]
    BY OpenBytes
  <2>3. Len(u) \in Nat /\ Len(u) >= 1
    BY <1>1
  <2>4. 1 \in 1..Len(packet) - packetLen /\ o + 1 - 1 = o
    BY <2>2, <2>3
  <2>5. u[1] = sent[o]
    BY <2>2, <2>4
  <2> QED BY <1>1, <2>1, <2>2, <2>3, <2>5
<1> PICK l \in Nat : l = o - MaxPacketSize - 1 /\ 1 <= l /\ Starts(l) /\ Plain(l, o) /\ l <= o
  BY MaxPacketSizeAssumption DEF Overlong, Lost
<1>3. l \in Begins
  BY StartBegins
<1>4. \A k \in l..o : sent[k] \notin FirstBytes
  <2> TAKE k \in l..o
  <2>1. k = o \/ k \in l..o - 1
    OBVIOUS
  <2> QED BY <1>2, <2>1 DEF Plain
<1>5. Cuts \subseteq Nat /\ \A k \in Cuts : k \notin l..o
  BY <1>4, CutBegins DEF Cuts
<1>6. CASE \E k \in Cuts : k >= l
  <2> DEFINE T == {k \in Cuts : k >= l}
             c == Min(T)
  <2>1. T \in SUBSET Nat /\ T # {}
    BY <1>5, <1>6
  <2>2. c \in T /\ \A m \in T : c <= m
    <3> HIDE DEF T
    <3> QED BY <2>1, SmallestOf
  <2> HIDE DEF c
  <2>3. c \in Cuts /\ c \in Nat /\ l <= c /\ c > o
    BY <1>5, <2>2
  <2>4. Cuts \cap l..c - 1 = {}
    <3> SUFFICES ASSUME NEW k \in Cuts, k \in l..c - 1 PROVE FALSE
      OBVIOUS
    <3>1. k \in T
      OBVIOUS
    <3>2. c <= k
      BY <2>2, <3>1
    <3> QED BY <2>3, <3>2
  <2>5. <<l, c>> \in Between
    BY <1>3, <2>3, <2>4 DEF Between
  <2>6. ~ Size(<<l, c>>) <= MaxPacketSize + 1
    BY <2>3, MaxPacketSizeAssumption DEF Size
  <2> QED BY <2>5, <2>6 DEF Framed
<1>7. CASE \A k \in Cuts : ~ k >= l
  <2>1. ASSUME NEW b \in Begins PROVE b \in Nat /\ b <= l
    <3>1. CASE b = 1
      BY <3>1
    <3>2. ASSUME NEW k \in Cuts, b = Behind(k) PROVE b \in Nat /\ b <= l
      <4>1. k < l
        BY <1>5, <1>7
      <4> QED BY <3>2, <4>1, BehindStarts
    <3> QED BY <3>1, <3>2 DEF Begins
  <2>2. Max(Begins) = l
    <3>1. \A y \in Begins : l >= y
      BY <2>1
    <3>2. \A x \in Begins : (\A y \in Begins : x >= y) => x = l
      BY <1>3, <2>1
    <3> QED BY <1>3, <3>1, <3>2 DEF Max
  <2>3. Unfinished = {k \in l..removed : \A j \in l..k : ~ PendingAt(j)}
    BY <2>2 DEF Unfinished
  <2>4. l..o \in SUBSET Unfinished
    <3> SUFFICES ASSUME NEW k \in l..o, NEW j \in l..k PROVE k \in l..removed /\ ~ PendingAt(j)
      BY <2>3
    <3>1. j \in l..o /\ j \in Nat /\ 1 <= j /\ j <= removed /\ k \in l..removed
      BY <1>2
    <3> QED BY <1>4, <3>1, PendingBegins
  <2>5. IsFiniteSet(Unfinished)
    <3>1. IsFiniteSet(l..removed)
      BY <1>2, FS_Interval
    <3>2. Unfinished \in SUBSET (l..removed)
      BY <2>3
    <3> QED BY <3>1, <3>2, FS_Subset
  <2>6. Cardinality(l..o) = MaxPacketSize + 2 /\ Cardinality(l..o) <= Cardinality(Unfinished)
    <3>1. Cardinality(l..o) = o - l + 1
      BY FS_Interval
    <3>2. Cardinality(l..o) <= Cardinality(Unfinished)
      BY <2>4, <2>5, FS_Subset
    <3> QED BY <3>1, <3>2, MaxPacketSizeAssumption
  <2>7. Cardinality(Unfinished) \in Nat
    BY <2>5, FS_CardinalityType
  <2> QED BY <2>6, <2>7, MaxPacketSizeAssumption DEF Framed
<1> QED BY <1>6, <1>7

\* However read() cuts the stream into chunks, between two chunks the packets
\* delivered are those that lie between the delimiters and are not too long, all
\* of them and in their order, up to a packet that is too long by two bytes, for
\* delimiters of which every beginning is listed behind it and that do not overlap.
THEOREM NoPacketIsMissed ==
    ASSUME BeginningsListed, NoOverlap PROVE Spec => []FramingFollowsStream
<1>1. FollowInv /\ FrameInv /\ FrameTypes /\ RestInv => FramingFollowsStream
  <2> SUFFICES ASSUME FollowInv, FrameInv, FrameTypes, RestInv, BetweenChunks, Framed
               PROVE  delivered = Packets
    BY DEF FramingFollowsStream
  <2>1. rxLen = 0 /\ next = 0 /\ Class("packet")
    BY DEF BetweenChunks, RestInv
  <2>2. InPlace /\ InFrame /\ Follows
    BY <2>1 DEF FrameInv, FollowInv
  <2>3. ~ Hopeless
    BY <2>1, <2>2, HopelessIsNotFramed DEF Follows, Hopeless
  <2>4. DecidedTo(Opened) /\ delivered = InOrder(FittingTo(Opened))
    BY <2>2, <2>3 DEF Follows, AllDelivered
  <2>5. Beginning(Undecided(packet))
    BY <2>2, <2>3 DEF Hopeless, InFrame
  <2>6. {run \in Between : Size(run) <= MaxPacketSize} = FittingTo(Opened)
    BY <2>1, <2>2, <2>4, <2>5, PacketsAre
  <2> QED BY <2>4, <2>6 DEF Packets
<1> QED BY <1>1, FrameTyped, FollowCorrect, FrameCorrect, BytesCorrect, PacketCorrect, RestCorrect, PTL
=============================================================================
