-------------------------- MODULE MCHelionetDevice --------------------------
(* HelionetDevice on small instances, for TLC.  The calls are model values  *)
(* whose roles differ from run to run; a run with two configurations lets   *)
(* them be exchanged.                                                       *)
EXTENDS HelionetDevice, TLC

CONSTANTS c1, c2, i1

ExchangeConfigs == Permutations({c1, c2})

FrameNumbers(messages) ==
    LET frames == SelectSeq(messages, LAMBDA m : m[1] = "frame")
    IN  [i \in 1..Len(frames) |-> frames[i][2]]

\* Of what the splitter was fed only the frames come out again, and lockOn is
\* read only by a call that waits for the lock: states that differ in the rest
\* behave alike.
DeviceView ==
    <<portVars, configWaiter, infoWaiter, pc, tries, timers, failedWrites,
      [c \in Calls |-> IF pc[c] = "lock" THEN lockOn[c] ELSE 0],
      configBuffer, infoBuffer, FrameNumbers(fed), txVars, toBoard, toHost, boardVars, faults>>
=============================================================================
