-------------------------------- MODULE Parts --------------------------------
(***************************************************************************)
(* The parts of the firmware and of the serial driver that are modelled on *)
(* their own: the radios of the duplex build (as BoardRadio) and of the    *)
(* other builds (Single), the command parser, the values in flash, the     *)
(* splitter of the serial driver, the bodies of the commands and the       *)
(* layers of the tunnel's payload.                                         *)
(*                                                                         *)
(* No two parts share state, so a behaviour runs one part, chosen at the   *)
(* start, while the others stand still: a state of a part that can be      *)
(* reached at all is reached this way.                                     *)
(***************************************************************************)
EXTENDS BoardRadio, Sequences

CONSTANTS
    SingleRefusable,                \* Refusable, of Single
    Base, BodyCommands, InfoCommand, InBufSize, Bodies, Sources, \* of FirmwareParser
    MaxValue,                       \* of BoardSecrets
    MaxBody, MaxItems, MaxResets, MaxAttempts, \* of LogSplitter
    MaxText, MaxCred, BodySize,     \* of ConfigBodies: BodySize is its InBufSize
    Texts, RawBodies, Channels, TxPowers, Preambles,
    Keys, NoKey                     \* of TunnelPayload

\* Codes and bodies are made of bytes, and a length fits into two.
ASSUME ParserAssumption ==
    /\ Base \in Nat /\ InBufSize \in Nat \ {0}
    /\ BodyCommands \cup {InfoCommand} \subseteq 0..(Base - 1) /\ InfoCommand \notin BodyCommands
    /\ \A b \in Bodies : b \in Seq(0..(Base - 1)) /\ Len(b) < Base * Base

ASSUME SplitterAssumption == MaxBody \in Nat \ {0}

\* Strings and bodies are made of bytes, which are what a length can be.
ASSUME ConfigAssumption ==
    /\ {MaxText, MaxCred, BodySize} \subseteq Nat
    /\ \A b \in Texts \cup RawBodies : b \in Seq(0..MaxText)

VARIABLES
    part,
    sTx, sRx, sChip, sReceiving, sFifo, sReady, sPc, sDone, sEmitted,
    pState, pCmd, pLen, pHave, pLenLo, pBuf, line, result, ended, upset,
    nvs, ram, bootPc, puts, wifiOk, udpUp, lastValue, told,
    item, items, owed, mode, logLine, frameRemaining, frameBuf, configuring, configBuffer,
    feeding, out, fed, aligned, torn, resets, attempts,
    given, body, got,
    ends, stage, frame, damaged, written

singleVars   == <<sTx, sRx, sChip, sReceiving, sFifo, sReady, sPc, sDone, sEmitted>>
parserVars   == <<pState, pCmd, pLen, pHave, pLenLo, pBuf, line, result, ended, upset>>
flashVars    == <<nvs, ram, bootPc, puts, wifiOk, udpUp, lastValue, told>>
splitterVars == <<item, items, owed, mode, logLine, frameRemaining, frameBuf, configuring,
                  configBuffer, feeding, out, fed, aligned, torn, resets, attempts>>
configVars   == <<given, body, got>>
payloadVars  == <<ends, stage, frame, damaged, written>>

Single == INSTANCE BoardRadio WITH
    Duplex <- FALSE, Refusable <- SingleRefusable,
    tx <- sTx, rx <- sRx, chip <- sChip, receiving <- sReceiving, fifo <- sFifo,
    ready <- sReady, pc <- sPc, done <- sDone, emitted <- sEmitted

Parser == INSTANCE FirmwareParser

Flash == INSTANCE BoardSecrets WITH pc <- bootPc

Splitter == INSTANCE LogSplitter WITH upset <- torn

Config == INSTANCE ConfigBodies WITH InBufSize <- BodySize, Powers <- TxPowers

Payload == INSTANCE TunnelPayload

Parts == {"duplex", "single", "parser", "flash", "splitter", "config", "payload"}

PartsInit ==
    /\ part \in Parts
    /\ Init /\ Single!Init /\ Parser!Init /\ Flash!Init /\ Splitter!Init /\ Config!Init /\ Payload!Init

\* Every part but p stands still.
Only(p) ==
    /\ part = p /\ UNCHANGED part
    /\ IF p = "duplex" THEN TRUE ELSE UNCHANGED vars
    /\ IF p = "single" THEN TRUE ELSE UNCHANGED singleVars
    /\ IF p = "parser" THEN TRUE ELSE UNCHANGED parserVars
    /\ IF p = "flash" THEN TRUE ELSE UNCHANGED flashVars
    /\ IF p = "splitter" THEN TRUE ELSE UNCHANGED splitterVars
    /\ IF p = "config" THEN TRUE ELSE UNCHANGED configVars
    /\ IF p = "payload" THEN TRUE ELSE UNCHANGED payloadVars

PartsNext ==
    \/ Only("duplex") /\ Next
    \/ Only("single") /\ Single!Next
    \/ Only("parser") /\ Parser!Next
    \/ Only("flash") /\ Flash!Next
    \/ Only("splitter") /\ Splitter!Next
    \/ Only("config") /\ Config!Next
    \/ Only("payload") /\ Payload!Next

PartsSpec ==
    PartsInit /\ [][PartsNext]_<<part, vars, singleVars, parserVars, flashVars, splitterVars,
                                configVars, payloadVars>>

-----------------------------------------------------------------------------
(* Properties                                                              *)

\* A single chip transmits within a kHz of the frequency asked for last, although
\* "RC" and the end of each transmission tune it as well, and after a
\* transmission it listens on the receive frequency again.
SingleChipRetunes == Single!TransmitsOnTxFrequency /\ Single!HearsAfterSending

\* feedParser carries out a valid command that meets an idle parser whole, up to
\* the one that fills pBuf, and never writes past its end, whatever bytes come
\* from whichever source.
CommandsFit == Parser!AlignedIsCarriedOut /\ Parser!WithinBuffer

\* feedParser carries out nothing that was not sent, unless bytes were lost, a
\* body was too long or the sources got mixed since it was last idle at the
\* start of a command.
OnlyWhatWasSent == Parser!OnlyWhatWasSent

\* At every moment flash holds values the host knows of.
StoredIsExpected == Flash!StoredIsExpected

\* A running board uses what it has stored, the host has been told it, and on the
\* WiFi it listens for datagrams.
RunsAsTold == Flash!RunsAsTold

\* The splitter lets a frame that begins between two items come out whole.
AlignedFrameComesOut == Splitter!AlignedFrameComesOut

\* The splitter lets nothing else come out, unless a reset or a repeated attempt
\* tore a frame, and then only until the next item that begins in 'scan'.
OnlyReceivedFrames == Splitter!OnlyReceivedFrames

\* The handlers of "WC", "HA", "TC" and "RC" read what the driver was given, and
\* never look behind the end of a body, whatever lengths it claims.
BodiesAreRead == Config!BodiesAreRead

\* What a tunnel writes to its interface is what its peer read from its own,
\* whatever options the two have and whatever happens to the frame, with the
\* exceptions TunnelPayload names.
OnlySentIsWritten == Payload!OnlySentIsWritten

\* Tunnels whose options agree understand each other, with AEAD if they use ROHC.
AgreeingEndsDeliver == Payload!AgreeingEndsDeliver
=============================================================================
