----------------------------- MODULE BoardRadio -----------------------------
(***************************************************************************)
(* The firmware's radios (firmware/helionet/src/main.cpp): what the        *)
(* commands make of the settings and of the chips' modes, the flag the     *)
(* interrupt raises, and the loop that tests it.  Two builds: Duplex has a *)
(* chip for each direction (USE_DUPLEX), the others use one chip for both. *)
(*                                                                         *)
(* Frequencies are in kHz above the initial 868 MHz.  A modulation stands  *)
(* for bandwidth, spreading factor, coding rate, preamble and CRC, which   *)
(* are stored and applied alike.  0 is the initial value of each.          *)
(***************************************************************************)
EXTENDS Naturals

CONSTANTS
    Duplex,     \* USE_DUPLEX
    Freqs,      \* frequencies the host asks for
    Mods,       \* modulations
    Powers,     \* transmit powers
    Refusable   \* the settings whose setter may fail

ASSUME RadioAssumption ==
    /\ Duplex \in BOOLEAN
    /\ Freqs \subseteq Nat /\ 0 \in Freqs
    /\ Mods \subseteq Nat /\ 0 \in Mods
    /\ Powers \subseteq Nat /\ 0 \in Powers
    /\ Refusable \subseteq {"freq", "mod", "power"}

TxChip == 0
RxChip == IF Duplex THEN 1 ELSE 0
Chips == {TxChip, RxChip}

Settings == [freq : Freqs, mod : Mods, power : Powers]
Initial == [freq |-> 0, mod |-> 0, power |-> 0]

\* What the receiver's FIFO holds that nobody has read: a packet from the air
\* or the board's own transmission, picked up from the other chip.
Packets == {"none", "air", "own"}

VARIABLES
    tx, rx,     \* the firmware's settings of the two directions
    chip,       \* the settings each chip really has
    receiving,  \* the receiver is in receive mode
    fifo,       \* what it holds unread
    ready,      \* packetReady of each chip (packetReady0 and 1, or the only one)
    pc,         \* where loop() stands
    done,       \* the last command carried out
    emitted     \* what kinds of frames the host has been given

settings == <<tx, rx, chip>>
vars == <<settings, receiving, fifo, ready, pc, done, emitted>>

TypeOK ==
    /\ tx \in Settings /\ rx \in Settings /\ chip \in [Chips -> Settings]
    /\ receiving \in BOOLEAN /\ fifo \in Packets /\ ready \in [Chips -> BOOLEAN]
    /\ pc \in {"loop", "reading", "rearming", "returning", "transmitting"}
    /\ done \in {"none", "TC", "RC", "Tc", "send"}
    /\ emitted \subseteq {"air", "own", "stale"}

\* After setup().
Init ==
    /\ tx = Initial /\ rx = Initial /\ chip = [c \in Chips |-> Initial]
    /\ receiving = TRUE /\ fifo = "none" /\ ready = [c \in Chips |-> FALSE]
    /\ pc = "loop" /\ done = "none" /\ emitted = {}

-----------------------------------------------------------------------------
(* Helpers                                                                 *)

Distance(f, g) == IF f > g THEN f - g ELSE g - f

\* applySettings(): a setter that fails leaves the chip its old value.
Applied(old, new, refused) ==
    [freq |-> IF "freq" \in refused THEN old.freq ELSE new.freq,
     mod |-> IF "mod" \in refused THEN old.mod ELSE new.mod,
     power |-> IF "power" \in refused THEN old.power ELSE new.power]

\* Mutant of SameFreq: the receiver is silenced at every transmission.
SameFreqAlways == tx.freq \in Nat

\* Mutant of SameFreq: it never is.
SameFreqNever == tx.freq \notin Nat

\* sameFreq in handleSendBody (0.01f, in MHz).
SameFreq == Distance(tx.freq, rx.freq) < 10

\* Mutant of Retunes: the duplex build's threshold.
RetunesFar == Distance(tx.freq, rx.freq) >= 10

\* A single chip is retuned to send, and back (0.001f, in MHz).
Retunes == Distance(tx.freq, rx.freq) > 1

\* startReceive(): receive mode, with an empty FIFO.
StartReceive == receiving' = TRUE /\ fifo' = "none"

-----------------------------------------------------------------------------
(* Commands                                                                *)

\* The settings after "Tc".
Retune(f, refused) ==
    /\ tx' = [tx EXCEPT !.freq = f]
    /\ chip' = [chip EXCEPT ![TxChip] = Applied(@, [@ EXCEPT !.freq = f], refused)]

\* "TC": transmit settings.  A single chip goes on listening, with them.
ConfigTx(new, refused) ==
    /\ pc = "loop"
    /\ tx' = new
    /\ chip' = [chip EXCEPT ![TxChip] = Applied(@, new, refused)]
    /\ IF Duplex THEN UNCHANGED <<receiving, fifo>> ELSE StartReceive
    /\ done' = "TC"
    /\ UNCHANGED <<rx, ready, pc, emitted>>

\* "RC": receive settings.  The command has no power: rx keeps the initial one,
\* and the chip gets it.
ConfigRx(f, m, refused) ==
    /\ pc = "loop"
    /\ rx' = [rx EXCEPT !.freq = f, !.mod = m]
    /\ chip' = [chip EXCEPT ![RxChip] = Applied(@, rx', refused)]
    /\ StartReceive
    /\ done' = "RC"
    /\ UNCHANGED <<tx, ready, pc, emitted>>

\* "Tc": retunes the transmitter.  No startReceive follows: whether a single
\* chip still receives is up to its setter.
RetuneTx(f, refused) ==
    /\ pc = "loop"
    /\ Retune(f, refused)
    /\ receiving' \in IF Duplex THEN {receiving} ELSE {receiving, FALSE}
    /\ done' = "Tc"
    /\ UNCHANGED <<rx, fifo, ready, pc, emitted>>

\* handleSendBody() up to transmit(), which blocks.  One chip for both stops
\* receiving and uses the same FIFO.
Send(refused) ==
    /\ pc = "loop" /\ pc' = "transmitting"
    /\ IF Duplex
       THEN receiving' = (receiving /\ ~SameFreq) /\ UNCHANGED <<chip, fifo>>
       ELSE /\ chip' = IF Retunes /\ "freq" \notin refused
                       THEN [chip EXCEPT ![TxChip].freq = tx.freq] ELSE chip
            /\ receiving' = FALSE /\ fifo' = "none"
    /\ UNCHANGED <<tx, rx, ready, done, emitted>>

\* transmit() returns, with TxDone (which raises the flag) or with an error.
SendDone(txDone, refused) ==
    /\ pc = "transmitting" /\ pc' = "loop"
    /\ ready' = [ready EXCEPT ![TxChip] = @ \/ txDone]
    /\ IF Duplex
       THEN UNCHANGED chip /\ (IF SameFreq THEN StartReceive ELSE UNCHANGED <<receiving, fifo>>)
       ELSE /\ chip' = IF Retunes /\ "freq" \notin refused
                       THEN [chip EXCEPT ![TxChip].freq = rx.freq] ELSE chip
            /\ StartReceive
    /\ done' = "send"
    /\ UNCHANGED <<tx, rx, emitted>>

-----------------------------------------------------------------------------
(* The radio and its interrupt                                             *)

\* The receiver's chip ends a packet and interrupts.  It hears the other chip
\* when that one transmits on the same frequency.
PacketHeard(packet) ==
    /\ receiving
    /\ packet = "own" =>
         /\ Duplex /\ pc = "transmitting"
         /\ Distance(chip[TxChip].freq, chip[RxChip].freq) < 10
    /\ fifo' = packet
    /\ ready' = [ready EXCEPT ![RxChip] = TRUE]
    /\ UNCHANGED <<settings, receiving, pc, done, emitted>>

-----------------------------------------------------------------------------
(* loop() and emitReceivedFrame()                                          *)

\* Mutant of ClearFlag: the flag is cleared when the frame has been handled.
ClearFlagLate == IF pc = "returning" THEN ready' = [ready EXCEPT ![RxChip] = FALSE] ELSE UNCHANGED ready

\* packetReady = false, before emitReceivedFrame.
ClearFlag == IF pc = "loop" THEN ready' = [ready EXCEPT ![RxChip] = FALSE] ELSE UNCHANGED ready

\* The receiver's flag is found raised.
TakeFlag ==
    /\ pc = "loop" /\ pc' = "reading"
    /\ ready[RxChip]
    /\ ClearFlag
    /\ UNCHANGED <<settings, receiving, fifo, done, emitted>>

\* The transmitter's own flag says nothing.
TakeTxFlag ==
    /\ Duplex /\ pc = "loop" /\ ready[TxChip]
    /\ ready' = [ready EXCEPT ![TxChip] = FALSE]
    /\ UNCHANGED <<settings, receiving, fifo, pc, done, emitted>>

\* getPacketLength and readData, then sendToHost: the packet, unless it is
\* damaged.  After a TxDone, or for a packet read in the round before, the chip
\* has no new packet: it says so, or gives old bytes.
ReadPacket ==
    /\ pc = "reading" /\ pc' = "rearming"
    /\ \E given \in {"none", IF fifo = "none" THEN "stale" ELSE fifo} :
         emitted' = emitted \cup ({given} \ {"none"})
    /\ fifo' = "none"
    /\ UNCHANGED <<settings, receiving, ready, done>>

\* startReceive at the end of emitReceivedFrame.
Rearm ==
    /\ pc = "rearming" /\ pc' = "returning"
    /\ StartReceive
    /\ UNCHANGED <<settings, ready, done, emitted>>

\* The rest of loop().
EndLoop ==
    /\ pc = "returning" /\ pc' = "loop"
    /\ ClearFlag
    /\ UNCHANGED <<settings, receiving, fifo, done, emitted>>

\* The board resets: setup() again, with the initial settings.
Restart ==
    /\ tx' = Initial /\ rx' = Initial /\ chip' = [c \in Chips |-> Initial]
    /\ receiving' = TRUE /\ fifo' = "none" /\ ready' = [c \in Chips |-> FALSE]
    /\ pc' = "loop" /\ done' = "none"
    /\ UNCHANGED emitted

Next ==
    \/ \E refused \in SUBSET Refusable :
         \/ \E new \in Settings : ConfigTx(new, refused)
         \/ \E f \in Freqs, m \in Mods : ConfigRx(f, m, refused)
         \/ \E f \in Freqs : RetuneTx(f, refused)
         \/ Send(refused)
         \/ \E txDone \in BOOLEAN : SendDone(txDone, refused)
    \/ \E packet \in {"air", "own"} : PacketHeard(packet)
    \/ TakeFlag \/ TakeTxFlag \/ ReadPacket \/ Rearm \/ EndLoop \/ Restart

Spec == Init /\ [][Next]_vars

-----------------------------------------------------------------------------
(* Properties                                                              *)

\* What the duplex build promises: every transmission is made with the
\* settings of the last "TC" and "Tc", whatever was configured, sent or
\* received in between.
TransmitsWithTx == pc = "transmitting" => chip[TxChip] = tx

\* The receiver of the duplex build is deaf only while the board sends on
\* nearly the receive frequency; otherwise it listens, with the settings of
\* the last "RC".
ListensWithRx ==
    pc # "transmitting" \/ Distance(tx.freq, rx.freq) >= 10 =>
        receiving /\ chip[RxChip].freq = rx.freq /\ chip[RxChip].mod = rx.mod

\* The board's own transmission is never handed to the host as a frame it has
\* received.
NoSelfEcho == "own" \notin emitted

\* With well separated frequencies a transmission costs no packet: neither its
\* start nor its end drops one that has not been read.
SendsKeepPackets ==
    [][/\ pc = "transmitting" \/ pc' = "transmitting"
       /\ pc' # pc /\ done' # "none"
       /\ Distance(tx.freq, rx.freq) >= 10
       => fifo' = fifo]_vars

\* However interrupt and loop interleave, the loop knows of every unread
\* packet: the flag is raised, or the packet is about to be read, or to be
\* dropped by startReceive.
NoPacketForgotten == fifo # "none" => ready[RxChip] \/ pc = "reading"

\* A single chip transmits within a kHz of the frequency asked for last,
\* although it is also tuned by "RC" and after each transmission.
TransmitsOnTxFrequency ==
    pc = "transmitting" => Distance(chip[TxChip].freq, tx.freq) <= 1

\* After a transmission a single chip is back on the receive frequency and
\* listens, until the next configuration.
HearsAfterSending ==
    done = "send" /\ pc # "transmitting" =>
        receiving /\ Distance(chip[RxChip].freq, rx.freq) <= 1
=============================================================================
