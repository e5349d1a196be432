--------------------------- MODULE MCUdpInterface ---------------------------
(***************************************************************************)
(* Two clients of the Modbus server and another; two of three endpoints    *)
(* can be registered, so that one port is unknown.                         *)
(***************************************************************************)
EXTENDS UdpInterface

Cmd(nonce, fn, base, count, values, length) ==
  [nonce |-> nonce, fn |-> fn, base |-> base, count |-> count,
   values |-> values, length |-> length]

MCRequests ==
  {Cmd(1, 3, 0, 2, <<>>, "right"), Cmd(2, 3, 1, 2, <<>>, "right"),
   Cmd(2, 3, 0, 0, <<>>, "right"),
   Cmd(3, 6, 0, 0, <<7>>, "right"), Cmd(1, 6, 1, 0, <<8>>, "wrong"),
   Cmd(3, 6, 2, 0, <<9>>, "right"),
   Cmd(4, 16, 0, 2, <<5, 6>>, "right"), Cmd(4, 16, 0, 1, <<5, 6>>, "right"),
   Cmd(5, 16, 0, 1, <<5>>, "short"), Cmd(5, 99, 0, 0, <<>>, "right"),
   Cmd(1, 3, 0, 2, <<>>, "frame")}

MCRegistrations ==
  <<[port |-> 7, callback |-> "other"], modbusServerUDPinit(0),
    [port |-> 9, callback |-> "other"]>>
=============================================================================
