--------------------------- MODULE MCPacketDevice ---------------------------
(* Instances of PacketDevice for TLC. *)
EXTENDS PacketDevice

CONSTANTS p, q, cr, lf

Default ==
    [baudrate |-> 9600, data_bits |-> 8, parity |-> "None", stop_bits |-> 1,
     flow_control |-> "None", gap_sync |-> FALSE, timeout |-> 10]

OddParity ==
    [Default EXCEPT !.data_bits = 7, !.parity = "Odd", !.flow_control = "RtsCts"]
EvenParity ==
    [Default EXCEPT !.baudrate = 115200, !.data_bits = 6, !.parity = "Even",
                    !.stop_bits = 2, !.flow_control = "XonXoff", !.gap_sync = TRUE]
Refused == [Default EXCEPT !.parity = "Odd"]
Patient == [Default EXCEPT !.timeout = 0]

Fresh == [speed |-> 9600, size |-> 8, flags |-> {"CREAD", "ICANON", "ECHO"}, vmin |-> 1, vtime |-> 0]
Odd == [Fresh EXCEPT !.flags = {"PARENB", "PARODD", "CSTOPB", "CRTSCTS", "IXON", "ICANON"}]

Session(class, devices, own, other, unread, maxBytes, maxEvents) ==
    [class |-> class, devices |-> devices, config |-> (p :> own @@ q :> other),
     leftover |-> IF own = Default THEN Fresh ELSE Odd,
     unread |-> unread, maxBytes |-> maxBytes, maxEvents |-> maxEvents]

PassSessions ==
    { Session("packet", {p}, Default, Default, <<>>, 4, 0),
      Session("packet", {p}, Default, Default, <<lf, lf>>, 5, 0),
      Session("packet", {p}, Default, Default, <<lf, lf, lf, lf>>, 6, 0),
      Session("packet", {p}, Default, Default, <<>>, 2, 1),
      Session("packet", {p}, Patient, Default, <<cr>>, 2, 1),
      Session("packet", {p}, Refused, Default, <<>>, 1, 0),
      Session("buffer", {p}, EvenParity, Default, <<cr, cr>>, 3, 1),
      Session("buffer", {p}, OddParity, Default, <<>>, 1, 2),
      Session("buffer", {p, q}, EvenParity, OddParity, <<>>, 1, 1),
      Session("buffer", {p, q}, OddParity, EvenParity, <<>>, 1, 1),
      Session("packet", {p, q}, Default, Refused, <<cr>>, 1, 2) }

StreamSessions == { Session("packet", {p}, Default, Default, <<lf, lf, lf, lf, lf, cr>>, 8, 0) }

CrLfOrCr == << <<cr, lf>>, <<cr>> >>
CrOnly == << <<cr>> >>
ASSUME MCBeginningsListed == BeginningsListed
ASSUME MCNoOverlap == NoOverlap

LineRequests ==
    { [mask |-> {"RTS"}, value |-> {"RTS"}], [mask |-> {"RTS", "DTR"}, value |-> {"DTR"}] }
=============================================================================
