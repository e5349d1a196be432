---------------------------- MODULE MCLeepServer ----------------------------
(***************************************************************************)
(* Any two of the packets below, from any clients, with three seconds of   *)
(* clock, two events, of which the log holds one, and one lost link.       *)
(***************************************************************************)
EXTENDS LeepServer

R(name, i) == [reg |-> <<name, i>>, write |-> FALSE, value |-> 0]
W(name, i, v) == [reg |-> <<name, i>>, write |-> TRUE, value |-> v]

MCPackets ==
  { \* the time of day, and the log of events
    <<R("now", 0), R("nowTicks", 0)>>,
    <<R("event", 0), R("eventSec", 0), R("eventTicks", 0)>>,
    <<R("eventSec", 0), R("nowTicks", 0)>>,
    \* timers: configured, started and stopped in different orders
    <<W("timerEvent", 0, 7), W("timerDivisor", 0, 41), R("timerCsr", 0)>>,
    <<W("timerDivisor", 0, 40), W("timerEvent", 0, 0), W("timerCsr", 0, 3)>>,
    <<W("timerCsr", 0, 2), R("timerCsr", 0), R("timerEvent", 0)>>,
    <<W("timerDivisor", 0, 300), W("timerCsr", 0, 1), R("timerDivisor", 0)>>,
    \* triggers and distributed bus, behind selectors
    <<W("hwEvent", 0, 7), W("hwEvent", 1, 300), W("hwEvent", 2, 7)>>,
    <<R("hwCount", 0), R("hwEvent", 1), R("hwEvent", 0), R("hwEvent", 2)>>,
    <<W("dbus", 1, 1), R("dbus", 0), W("dbus", 0, 2), R("dbus", 1)>>,
    \* the table of the sequencer
    <<W("patternCode", 0, 7), W("patternDelay", 1, 9), W("patternCode", 1, 300)>>,
    <<R("patternDelay", 0), R("patternCode", 0), R("patternDelay", 1)>>,
    <<R("patternCode", 1), R("patternDelay", 2), R("patternCode", 2)>>,
    <<R("latency", 0), R("latency", 2)>>,
    \* outputs of the event receiver
    <<W("action", 1, 5), R("action", 1), R("action", 2), W("source", 0, PULSE)>>,
    <<W("delay", 0, 1), W("width", 0, 6), R("delay", 0)>>,
    <<W("delay", 0, 5), W("width", 0, 3), R("width", 0)>>,
    <<W("source", 0, 2), W("width", 0, 9), R("source", 0), R("width", 1)>>,
    \* protection
    <<W("important", 1, 1), R("goodState", 1), R("important", 0)>>,
    <<W("goodState", 1, 5), R("important", 1), R("firstFault", 0),
      R("goodState", 1)>>,
    <<W("required", 0, 3), R("required", 0), W("invert", 0, 3),
      W("forceTrip", 0, 2), R("invert", 0), R("forceTrip", 0)>>,
    \* the reference clock
    <<W("refclk", 0, SI570_CLK), W("si570", 0, 1), R("refclk", 0)>>,
    <<W("si570", 1, 2), R("si570", 0), R("si570", 1)>>,
    <<W("refclk", 0, DISABLE_OUTPUT), W("refclk", 0, DISABLE_OUTPUT + 1),
      R("si570", 2), R("si570", 3)>>,
    \* the node
    <<W("powerUp", 0, 0), R("powerUp", 0), W("powerUp", 0, 1), R("powerUp", 0)>>,
    <<W("reboot", 0, 1), R("reboot", 0), W("reboot", 0, 100)>>,
    \* not served
    <<>>, [i \in 1..LEEP_REG_CAPACITY + 1 |-> W("timerCsr", 0, 3)] }
=============================================================================
