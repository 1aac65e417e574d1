---------------------------- MODULE LineSettings ----------------------------
(***************************************************************************)
(* How a SerialDevice::Configuration becomes the settings of the terminal: *)
(* Baudrate, SetConfig and what Init adds to it, on unix                   *)
(* (src/src/serial-device-unix.cpp) and on windows                         *)
(* (src/src/serial-device-wins.cpp).  The bits of the four termios words   *)
(* are one set of flag names, and so are the one-bit fields of a DCB; a    *)
(* speed is its number, 0 for B0.                                          *)
(***************************************************************************)
EXTENDS Integers

Parities == {"None", "Even", "Odd", "Space"}
FlowControls == {"None", "RtsCts", "XonXoff"}

Flags ==
    {"PARENB", "PARODD", "CSTOPB", "CRTSCTS", "CREAD", "CLOCAL", "IXON", "IXOFF", "IXANY",
     "IGNPAR", "PARMRK", "INPCK", "ISTRIP", "ICANON", "ECHO", "ECHOE", "ISIG", "OPOST"}

Termios ==
    [speed : Nat, size : 5..8, flags : SUBSET Flags, vmin : {0, 1}, vtime : 0..255]

Configuration ==
    [baudrate : Nat, data_bits : 0..255, parity : Parities, stop_bits : 0..255,
     flow_control : FlowControls, gap_sync : BOOLEAN, timeout : Nat]

\* A configuration both ports take.
Plausible(config) ==
    /\ config.stop_bits \in {1, 2}
    /\ config.data_bits >= 5
    /\ config.data_bits <= IF config.parity = "None" THEN 8 ELSE 7

\* The character size that both ports set: one bit more with any parity.
CharacterBits(config) ==
    IF config.parity = "None" THEN config.data_bits ELSE config.data_bits + 1

-----------------------------------------------------------------------------
(* unix                                                                    *)

UnixRates ==
    {50, 75, 110, 134, 150, 200, 300, 600, 1200, 1800, 2400, 4800, 9600, 19200,
     38400, 57600, 115200, 230400, 460800, 500000, 576000, 921600, 1000000,
     1152000, 1500000, 2000000, 2500000, 3000000, 3500000, 4000000}

B0 == 0

Baudrate(baud) == IF baud \in UnixRates THEN baud ELSE B0

SoftwareFlow == {"IXON", "IXOFF", "IXANY"}
ParityMarks == {"IGNPAR", "PARMRK"}
ParityChecks == {"INPCK", "ISTRIP"}

\* Fault: the odd bit of an earlier setting is not masked.
KeepOddParity(flags, parity) ==
    IF parity \in {"Even", "Odd"}
    THEN flags \cup (IF parity = "Odd" THEN {"PARENB", "PARODD"} ELSE {"PARENB"})
    ELSE flags \ {"PARENB"}

WithParity(flags, parity) ==
    CASE parity = "Even" -> (flags \cup {"PARENB"}) \ {"PARODD"}
      [] parity = "Odd" -> flags \cup {"PARENB", "PARODD"}
      [] OTHER -> flags \ {"PARENB"}

WithParityChecks(flags) ==
    IF "PARENB" \in flags
    THEN (flags \cup ParityChecks) \ ParityMarks
    ELSE flags \ (ParityChecks \cup ParityMarks)

WithStopBits(flags, stop_bits) ==
    IF stop_bits = 1 THEN flags \ {"CSTOPB"} ELSE flags \cup {"CSTOPB"}

WithFlowControl(flags, flow_control) ==
    CASE flow_control = "RtsCts" -> (flags \cup {"CRTSCTS"}) \ SoftwareFlow
      [] flow_control = "XonXoff" -> (flags \cup SoftwareFlow) \ {"CRTSCTS"}
      [] OTHER -> flags \ ({"CRTSCTS"} \cup SoftwareFlow)

Accepted(config) == Baudrate(config.baudrate) # B0 /\ Plausible(config)

SetConfig(options, config) ==
    LET f1 == WithParity(options.flags, config.parity)
        f2 == WithParityChecks(f1)
        f3 == WithStopBits(f2, config.stop_bits)
    IN  [options EXCEPT !.speed = Baudrate(config.baudrate),
                        !.size = CharacterBits(config),
                        !.flags = WithFlowControl(f3, config.flow_control)]

\* A time in milliseconds as a cc_t of 8 bits that counts tenths of a second;
\* times of 2^32 - 99 ms and more, for which the sum wraps, are left out.
Deciseconds(timeout) == ((timeout + 99) \div 100) % 256

\* Raw input and output, receiver on, carrier ignored, read's time-out.
SetRaw(options, config) ==
    [options EXCEPT
        !.flags = (@ \ {"ICANON", "ECHO", "ECHOE", "ISIG", "OPOST"}) \cup {"CREAD", "CLOCAL"},
        !.vmin = IF config.gap_sync THEN 1 ELSE 0,
        !.vtime = Deciseconds(config.timeout)]

InitOptions(options, config) == SetRaw(SetConfig(options, config), config)

-----------------------------------------------------------------------------
(* windows                                                                 *)

WinsRates ==
    {110, 300, 600, 1200, 2400, 4800, 9600, 19200, 38400, 56000, 57600, 115200,
     128000, 256000}

WinsBaudrate(baud) == IF baud \in WinsRates THEN baud ELSE 115200

WinsParity(parity) ==
    CASE parity = "Even" -> "EVENPARITY"
      [] parity = "Odd" -> "ODDPARITY"
      [] parity = "Space" -> "SPACEPARITY"
      [] OTHER -> "NOPARITY"

\* ONESTOPBIT and TWOSTOPBITS.
WinsStopBits(stop_bits) == IF stop_bits = 1 THEN 0 ELSE 2

WinsFlow(flow_control) ==
    CASE flow_control = "RtsCts" -> {"fOutxCtsFlow"}
      [] flow_control = "XonXoff" -> {"fInX", "fOutX"}
      [] OTHER -> {}

\* RTS is raised for good; RTS_CONTROL_HANDSHAKE, which would drop it when the
\* receive buffer fills, is not used.
WinsRtsControl(flow_control) ==
    IF flow_control = "RtsCts" THEN "RTS_CONTROL_ENABLE" ELSE "RTS_CONTROL_DISABLE"

\* The return value is 0 for every configuration; one that is not plausible
\* leaves a cleared DCB with a speed.
WinsSetConfig(config) ==
    LET cleared == [BaudRate |-> WinsBaudrate(config.baudrate), ByteSize |-> 0,
                    Parity |-> "NOPARITY", StopBits |-> 0,
                    fRtsControl |-> "RTS_CONTROL_DISABLE", flags |-> {},
                    XonLim |-> 0, XoffLim |-> 0, XonChar |-> 0, XoffChar |-> 0]
    IN  IF ~ Plausible(config) THEN cleared
        ELSE [cleared EXCEPT
                !.ByteSize = CharacterBits(config),
                !.Parity = WinsParity(config.parity),
                !.StopBits = WinsStopBits(config.stop_bits),
                !.fRtsControl = WinsRtsControl(config.flow_control),
                !.flags = WinsFlow(config.flow_control)
                          \cup (IF config.parity = "None" THEN {} ELSE {"fParity"})]

\* The DCB for SetCommState.  0x13, here XON, is the character that a terminal
\* on unix takes for XOFF unless somebody changed it.
WinsInit(config) ==
    [WinsSetConfig(config) EXCEPT
        !.flags = (@ \cup {"fBinary"}) \ {"fErrorChar", "fNull", "fAbortOnError"},
        !.XonLim = 2, !.XoffLim = 4, !.XonChar = 19, !.XoffChar = 25]

-----------------------------------------------------------------------------
(* What the settings mean on the line                                      *)

\* Apart from the size of a character: speed, parity generator and stop bits,
\* what stops the output, and what stops the other end when input piles up.
\* Which characters are XON and XOFF is not part of it: unix keeps those it
\* found.  Neither is IXANY, with which any byte starts the output again.
UnixFrame(options) ==
    LET on(flag, mark) == IF flag \in options.flags THEN {mark} ELSE {}
    IN  [speed |-> options.speed,
         parity |-> IF "PARENB" \notin options.flags THEN "None"
                    ELSE IF "PARODD" \in options.flags THEN "Odd" ELSE "Even",
         stop |-> IF "CSTOPB" \in options.flags THEN 2 ELSE 1,
         output |-> on("CRTSCTS", "Cts") \cup on("IXON", "Xoff"),
         input |-> on("CRTSCTS", "Rts") \cup on("IXOFF", "Xoff")]

WinsFrame(dcb) ==
    LET on(flag, mark) == IF flag \in dcb.flags THEN {mark} ELSE {}
    IN  [speed |-> dcb.BaudRate,
         parity |-> CASE dcb.Parity = "EVENPARITY" -> "Even"
                      [] dcb.Parity = "ODDPARITY" -> "Odd"
                      [] dcb.Parity = "SPACEPARITY" -> "Space"
                      [] OTHER -> "None",
         stop |-> CASE dcb.StopBits = 0 -> 1 [] dcb.StopBits = 2 -> 2 [] OTHER -> 3,
         output |-> on("fOutxCtsFlow", "Cts") \cup on("fOutX", "Xoff"),
         input |-> (IF dcb.fRtsControl = "RTS_CONTROL_HANDSHAKE" THEN {"Rts"} ELSE {})
                   \cup on("fInX", "Xoff")]

\* What a configuration asks for, apart from the number of data bits.
Asked(config) ==
    [speed |-> config.baudrate,
     parity |-> config.parity,
     stop |-> config.stop_bits,
     output |-> CASE config.flow_control = "RtsCts" -> {"Cts"}
                  [] config.flow_control = "XonXoff" -> {"Xoff"}
                  [] OTHER -> {},
     input |-> CASE config.flow_control = "RtsCts" -> {"Rts"}
                 [] config.flow_control = "XonXoff" -> {"Xoff"}
                 [] OTHER -> {}]

\* termios has no generator for a space bit: it has to be a bit of the character
\* that whoever writes leaves 0.
UnixAsked(config) == [Asked(config) EXCEPT !.parity = IF @ = "Space" THEN "None" ELSE @]

\* Speed, parity, stop bits and flow control are those asked for, and so is the
\* number of data bits if there is no parity.
Meets(options, config) ==
    /\ UnixFrame(options) = UnixAsked(config)
    /\ config.parity = "None" => options.size = config.data_bits
=============================================================================
