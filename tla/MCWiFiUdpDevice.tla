--------------------------- MODULE MCWiFiUdpDevice ---------------------------
(* WiFiUdpDevice on small instances, for TLC.                               *)
EXTENDS WiFiUdpDevice, TLC

CONSTANTS c1, c2

ExchangeConfigs == Permutations({c1, c2})

\* lockOn is read only by a call that waits for the lock: states that differ in
\* the rest behave alike.
WiFiView ==
    <<socketVars, mode, configWaiter, pc, tries, timers, failedWrites,
      [c \in ConfigCalls |-> IF pc[c] = "lock" THEN lockOn[c] ELSE 0],
      dataVars, txVars, toBoard, toHost, boardVars, faults>>
=============================================================================
