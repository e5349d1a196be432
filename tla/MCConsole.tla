------------------------------ MODULE MCConsole ------------------------------
(* One sender to the UDP console and a keyboard, a raster of three by      *)
(* three points in each of two transceivers, and buffers a few words long. *)
EXTENDS Console

\* The arguments of the commands, good and bad; the empty line; a line with
\* too many words; two commands that together are more than the buffer holds.
MCPackets ==
  {<<"boot", "-a", NL>>, <<"boot", "x", "x", NL>>, <<"gw", NL, "y", NL>>,
   <<"n", BS, "no", NL>>, <<"x", "x", "x", "x", NL>>,
   <<NL, "eye", "*", NL>>, <<"eye", "-d", "*", NL>>, <<"eye", "MGT1", NL>>,
   <<"gw", "10.0.0.1", NL>>, <<"gw", "x", NL, "log", NL>>,
   <<"debug", EraseValue, NL>>,
   <<"debug", "-s", "100", NL>>, <<"debug", "100", NL>>}

\* With a buffer of four words it has room behind one byte, and behind two or
\* three it has not.
MCAlarm == <<"LOCKED", NL>>

MCKeys == {"y", NL}

MCStoredParams ==
  {[network |-> "10.0.0.9/24", flags |-> {"show"}]}

MCNetworkOf == "10.0.0.1" :> "10.0.0.1/24"
MCFlagsOf   == "100" :> {"show"} @@ EraseValue :> {"tftp"}
MCChannelOf == "MGT1" :> 1

=============================================================================
