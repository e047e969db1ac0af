----------------------------- MODULE PartsProofs -----------------------------
(***************************************************************************)
(* What the parts of the firmware and of the serial driver promise, for    *)
(* all values of the constants of Parts.                                   *)
(*                                                                         *)
(* The radios of the duplex build are those of BoardRadio: their theorems  *)
(* are about its Spec, with the setters that must not fail as hypotheses;  *)
(* NoPacketIsForgotten needs nothing and holds for both builds.  The other *)
(* parts follow, each with its inductive invariant; PartsRun says that     *)
(* whatever part runs, each takes only steps of its own.                   *)
(***************************************************************************)
EXTENDS Parts, SequenceFacts

-----------------------------------------------------------------------------
(* The radios                                                              *)

\* The step of each kind, one level below Next, for the proofs by cases.
Command(refused) ==
    \/ \E new \in Settings : ConfigTx(new, refused)
    \/ \E f \in Freqs, m \in Mods : ConfigRx(f, m, refused)
    \/ \E f \in Freqs : RetuneTx(f, refused)
    \/ Send(refused)
    \/ \E txDone \in BOOLEAN : SendDone(txDone, refused)

LEMMA AppliedType ==
    ASSUME NEW old \in Settings, NEW new \in Settings, NEW refused
    PROVE  Applied(old, new, refused) \in Settings
  BY DEF Applied, Settings

LEMMA AppliedFreq ==
    ASSUME NEW old, NEW new, NEW refused, "freq" \notin refused
    PROVE  Applied(old, new, refused).freq = new.freq
  BY DEF Applied

LEMMA AppliedMod ==
    ASSUME NEW old, NEW new, NEW refused, "mod" \notin refused
    PROVE  Applied(old, new, refused).mod = new.mod
  BY DEF Applied

\* When no setter fails, the chip has exactly what was asked for.
LEMMA AppliedAll ==
    ASSUME NEW old, NEW new \in Settings
    PROVE  Applied(old, new, {}) = new
  BY DEF Applied, Settings

LEMMA InitialType == Initial \in Settings
  BY RadioAssumption DEF Initial, Settings

-----------------------------------------------------------------------------

\* Type correctness: settings, chips, flags and the loop's position stay in
\* their domains.
THEOREM TypeCorrect == Spec => []TypeOK
  <1>1. Init => TypeOK
    BY InitialType DEF Init, TypeOK, Packets
  <1>2. TypeOK /\ [Next]_vars => TypeOK'
    <2> SUFFICES ASSUME TypeOK, [Next]_vars PROVE TypeOK'
      OBVIOUS
    <2>1. CASE \E refused \in SUBSET Refusable : Command(refused)
      <3> PICK refused \in SUBSET Refusable : Command(refused)
        BY <2>1
      <3>1. ASSUME NEW new \in Settings, ConfigTx(new, refused) PROVE TypeOK'
        <4>1. Applied(chip[TxChip], new, refused) \in Settings
          BY AppliedType DEF TypeOK, Chips
        <4> QED BY <3>1, <4>1 DEF TypeOK, ConfigTx, StartReceive, Packets
      <3>2. ASSUME NEW f \in Freqs, NEW m \in Mods, ConfigRx(f, m, refused) PROVE TypeOK'
        <4>1. rx' \in Settings
          BY <3>2 DEF TypeOK, ConfigRx, Settings
        <4>2. Applied(chip[RxChip], rx', refused) \in Settings
          BY <4>1, AppliedType DEF TypeOK, Chips
        <4> QED BY <3>2, <4>1, <4>2 DEF TypeOK, ConfigRx, StartReceive, Packets
      <3>3. ASSUME NEW f \in Freqs, RetuneTx(f, refused) PROVE TypeOK'
        <4>1. tx' \in Settings
          BY <3>3 DEF TypeOK, RetuneTx, Retune, Settings
        <4>2. chip[TxChip] \in Settings /\ [chip[TxChip] EXCEPT !.freq = f] \in Settings
          BY DEF TypeOK, Chips, Settings
        <4>3. Applied(chip[TxChip], [chip[TxChip] EXCEPT !.freq = f], refused) \in Settings
          BY <4>2, AppliedType
        <4>4. chip' \in [Chips -> Settings]
          BY <3>3, <4>3 DEF TypeOK, RetuneTx, Retune
        <4> QED BY <3>3, <4>1, <4>4 DEF TypeOK, RetuneTx
      <3>4. CASE Send(refused)
        <4>1. chip' \in [Chips -> Settings]
          BY <3>4 DEF TypeOK, Send, Settings, Chips
        <4> QED BY <3>4, <4>1 DEF TypeOK, Send, Packets
      <3>5. ASSUME NEW txDone \in BOOLEAN, SendDone(txDone, refused) PROVE TypeOK'
        <4>1. chip' \in [Chips -> Settings]
          BY <3>5 DEF TypeOK, SendDone, Settings, Chips
        <4> QED BY <3>5, <4>1 DEF TypeOK, SendDone, StartReceive, Packets
      <3> QED BY <3>1, <3>2, <3>3, <3>4, <3>5 DEF Command
    <2>2. ASSUME NEW packet \in {"air", "own"}, PacketHeard(packet) PROVE TypeOK'
      BY <2>2 DEF TypeOK, PacketHeard, settings, Packets
    <2>3. CASE TakeFlag
      BY <2>3 DEF TypeOK, TakeFlag, ClearFlag, settings
    <2>4. CASE TakeTxFlag
      BY <2>4 DEF TypeOK, TakeTxFlag, settings
    <2>5. CASE ReadPacket
      BY <2>5 DEF TypeOK, ReadPacket, settings, Packets
    <2>6. CASE Rearm
      BY <2>6 DEF TypeOK, Rearm, StartReceive, settings, Packets
    <2>7. CASE EndLoop
      BY <2>7 DEF TypeOK, EndLoop, ClearFlag, settings
    <2>8. CASE Restart
      BY <2>8, InitialType DEF TypeOK, Restart, Packets
    <2>9. CASE UNCHANGED vars
      BY <2>9 DEF TypeOK, vars, settings
    <2> QED BY <2>1, <2>2, <2>3, <2>4, <2>5, <2>6, <2>7, <2>8, <2>9 DEF Next, Command
  <1> QED BY <1>1, <1>2, PTL DEF Spec

-----------------------------------------------------------------------------

\* The loop never forgets a packet, in both builds, for any settings and
\* failing setters.  The commands raise flags or empty the FIFO; the flag is
\* lowered only on the way to reading.
THEOREM NoPacketIsForgotten == Spec => []NoPacketForgotten
  <1>1. Init => NoPacketForgotten
    BY DEF Init, NoPacketForgotten
  <1>2. TypeOK /\ NoPacketForgotten /\ [Next]_vars => NoPacketForgotten'
    <2> SUFFICES ASSUME TypeOK, NoPacketForgotten, [Next]_vars PROVE NoPacketForgotten'
      OBVIOUS
    <2> RxChip \in Chips
      BY DEF Chips
    <2>1. CASE \E refused \in SUBSET Refusable : Command(refused)
      <3> PICK refused \in SUBSET Refusable : Command(refused)
        BY <2>1
      <3>1. ASSUME NEW new \in Settings, ConfigTx(new, refused) PROVE NoPacketForgotten'
        BY <3>1 DEF NoPacketForgotten, ConfigTx, StartReceive
      <3>2. ASSUME NEW f \in Freqs, NEW m \in Mods, ConfigRx(f, m, refused)
            PROVE NoPacketForgotten'
        BY <3>2 DEF NoPacketForgotten, ConfigRx, StartReceive
      <3>3. ASSUME NEW f \in Freqs, RetuneTx(f, refused) PROVE NoPacketForgotten'
        BY <3>3 DEF NoPacketForgotten, RetuneTx
      <3>4. CASE Send(refused)
        BY <3>4 DEF NoPacketForgotten, Send
      <3>5. ASSUME NEW txDone \in BOOLEAN, SendDone(txDone, refused) PROVE NoPacketForgotten'
        <4>1. ready[RxChip] => ready'[RxChip]
          BY <3>5 DEF SendDone, TypeOK, Chips
        <4>2. fifo' = fifo \/ fifo' = "none"
          BY <3>5 DEF SendDone, StartReceive
        <4> QED BY <3>5, <4>1, <4>2 DEF NoPacketForgotten, SendDone
      <3> QED BY <3>1, <3>2, <3>3, <3>4, <3>5 DEF Command
    <2>2. ASSUME NEW packet \in {"air", "own"}, PacketHeard(packet) PROVE NoPacketForgotten'
      BY <2>2 DEF NoPacketForgotten, PacketHeard, TypeOK
    <2>3. CASE TakeFlag
      BY <2>3 DEF NoPacketForgotten, TakeFlag
    <2>4. CASE TakeTxFlag
      <3>1. TxChip # RxChip
        BY <2>4 DEF TakeTxFlag, TxChip, RxChip
      <3> QED BY <2>4, <3>1 DEF NoPacketForgotten, TakeTxFlag, TypeOK
    <2>5. CASE ReadPacket
      BY <2>5 DEF NoPacketForgotten, ReadPacket
    <2>6. CASE Rearm
      BY <2>6 DEF NoPacketForgotten, Rearm, StartReceive
    <2>7. CASE EndLoop
      BY <2>7 DEF NoPacketForgotten, EndLoop, ClearFlag
    <2>8. CASE Restart
      BY <2>8 DEF NoPacketForgotten, Restart
    <2>9. CASE UNCHANGED vars
      BY <2>9 DEF NoPacketForgotten, vars
    <2> QED BY <2>1, <2>2, <2>3, <2>4, <2>5, <2>6, <2>7, <2>8, <2>9 DEF Next, Command
  <1> QED BY <1>1, <1>2, TypeCorrect, PTL DEF Spec

-----------------------------------------------------------------------------
(* The duplex build                                                        *)

LEMMA DuplexChips ==
    ASSUME Duplex
    PROVE  TxChip = 0 /\ RxChip = 1 /\ Chips = {0, 1}
  BY DEF TxChip, RxChip, Chips

\* When no setter fails, the transmitter's chip has the settings of the last
\* "TC" and "Tc", always, and so at every transmission.
THEOREM DuplexTransmitsWithTx ==
    ASSUME Duplex, Refusable = {}
    PROVE  Spec => []TransmitsWithTx
  <1> DEFINE Inv == chip[TxChip] = tx
  <1>1. Init => Inv
    BY DEF Init, Chips
  <1>2. TypeOK /\ Inv /\ [Next]_vars => Inv'
    <2> SUFFICES ASSUME TypeOK, Inv, [Next]_vars PROVE Inv'
      OBVIOUS
    <2> TxChip \in Chips /\ RxChip \in Chips /\ TxChip # RxChip
      BY DuplexChips
    <2>1. CASE \E refused \in SUBSET Refusable : Command(refused)
      <3> PICK refused \in SUBSET Refusable : Command(refused)
        BY <2>1
      <3> refused = {}
        OBVIOUS
      <3>1. ASSUME NEW new \in Settings, ConfigTx(new, refused) PROVE Inv'
        BY <3>1, AppliedAll DEF ConfigTx, TypeOK
      <3>2. ASSUME NEW f \in Freqs, NEW m \in Mods, ConfigRx(f, m, refused) PROVE Inv'
        BY <3>2 DEF ConfigRx, TypeOK
      <3>3. ASSUME NEW f \in Freqs, RetuneTx(f, refused) PROVE Inv'
        <4>1. [tx EXCEPT !.freq = f] \in Settings
          BY DEF TypeOK, Settings
        <4>2. chip[TxChip]' = Applied(chip[TxChip], [tx EXCEPT !.freq = f], {})
          BY <3>3 DEF RetuneTx, Retune, TypeOK
        <4> QED BY <3>3, <4>1, <4>2, AppliedAll DEF RetuneTx, Retune
      <3>4. CASE Send(refused)
        BY <3>4 DEF Send
      <3>5. ASSUME NEW txDone \in BOOLEAN, SendDone(txDone, refused) PROVE Inv'
        BY <3>5 DEF SendDone
      <3> QED BY <3>1, <3>2, <3>3, <3>4, <3>5 DEF Command
    <2>2. CASE Restart
      BY <2>2 DEF Restart, Chips
    <2>3. CASE UNCHANGED <<tx, chip>>
      BY <2>3
    <2> QED BY <2>1, <2>2, <2>3
            DEF Next, Command, PacketHeard, TakeFlag, TakeTxFlag, ReadPacket, Rearm, EndLoop,
                settings, vars
  <1>3. Inv => TransmitsWithTx
    BY DEF TransmitsWithTx
  <1> QED BY <1>1, <1>2, <1>3, TypeCorrect, PTL DEF Spec

\* Both chips are tuned as asked, and the receiver is in receive mode unless
\* the board transmits nearby; so it never hears the board itself.
DuplexListening ==
    /\ chip[TxChip].freq = tx.freq
    /\ chip[RxChip].freq = rx.freq
    /\ pc # "transmitting" \/ ~SameFreq => receiving
    /\ pc = "transmitting" /\ SameFreq => ~receiving
    /\ fifo # "own" /\ "own" \notin emitted

\* It holds as long as the frequency can be set, whatever other setters do.
LEMMA DuplexInvariant ==
    ASSUME Duplex, "freq" \notin Refusable
    PROVE  Spec => []DuplexListening
  <1>1. Init => DuplexListening
    BY DEF Init, DuplexListening, Chips
  <1>2. TypeOK /\ DuplexListening /\ [Next]_vars => DuplexListening'
    <2> SUFFICES ASSUME TypeOK, DuplexListening, [Next]_vars PROVE DuplexListening'
      OBVIOUS
    <2> TxChip \in Chips /\ RxChip \in Chips /\ TxChip # RxChip
      BY DuplexChips
    <2> USE DEF DuplexListening
    <2>1. CASE \E refused \in SUBSET Refusable : Command(refused)
      <3> PICK refused \in SUBSET Refusable : Command(refused)
        BY <2>1
      <3> "freq" \notin refused
        OBVIOUS
      <3>1. ASSUME NEW new \in Settings, ConfigTx(new, refused) PROVE DuplexListening'
        <4>1. chip'[TxChip].freq = tx'.freq /\ chip'[RxChip] = chip[RxChip]
          BY <3>1, AppliedFreq DEF ConfigTx, TypeOK
        <4> QED BY <3>1, <4>1 DEF ConfigTx
      <3>2. ASSUME NEW f \in Freqs, NEW m \in Mods, ConfigRx(f, m, refused)
            PROVE DuplexListening'
        <4>1. chip'[RxChip] = Applied(chip[RxChip], rx', refused) /\ chip'[TxChip] = chip[TxChip]
          BY <3>2 DEF ConfigRx, TypeOK
        <4>2. chip'[RxChip].freq = rx'.freq
          BY <4>1, AppliedFreq
        <4> QED BY <3>2, <4>1, <4>2 DEF ConfigRx, StartReceive
      <3>3. ASSUME NEW f \in Freqs, RetuneTx(f, refused) PROVE DuplexListening'
        <4>1. chip'[TxChip].freq = f /\ chip'[RxChip] = chip[RxChip]
          BY <3>3, AppliedFreq DEF RetuneTx, Retune, TypeOK, Settings
        <4>2. tx'.freq = f
          BY <3>3 DEF RetuneTx, Retune, TypeOK, Settings
        <4> QED BY <3>3, <4>1, <4>2 DEF RetuneTx
      <3>4. CASE Send(refused)
        BY <3>4 DEF Send, SameFreq
      <3>5. ASSUME NEW txDone \in BOOLEAN, SendDone(txDone, refused) PROVE DuplexListening'
        BY <3>5 DEF SendDone, SameFreq, StartReceive
      <3> QED BY <3>1, <3>2, <3>3, <3>4, <3>5 DEF Command
    <2>2. ASSUME NEW packet \in {"air", "own"}, PacketHeard(packet) PROVE DuplexListening'
      <3>1. packet # "own"
        BY <2>2 DEF PacketHeard, SameFreq
      <3> QED BY <2>2, <3>1 DEF PacketHeard, SameFreq, settings
    <2>3. CASE TakeFlag
      BY <2>3 DEF TakeFlag, SameFreq, settings
    <2>4. CASE TakeTxFlag
      BY <2>4 DEF TakeTxFlag, SameFreq, settings
    <2>5. CASE ReadPacket
      <3>1. "own" \notin emitted'
        BY <2>5 DEF ReadPacket
      <3> QED BY <2>5, <3>1 DEF ReadPacket, SameFreq, settings
    <2>6. CASE Rearm
      BY <2>6 DEF Rearm, StartReceive, SameFreq, settings
    <2>7. CASE EndLoop
      BY <2>7 DEF EndLoop, SameFreq, settings
    <2>8. CASE Restart
      BY <2>8 DEF Restart, SameFreq, Chips
    <2>9. CASE UNCHANGED vars
      BY <2>9 DEF vars, settings, SameFreq
    <2> QED BY <2>1, <2>2, <2>3, <2>4, <2>5, <2>6, <2>7, <2>8, <2>9 DEF Next, Command
  <1> QED BY <1>1, <1>2, TypeCorrect, PTL DEF Spec

\* The host is never given the board's own transmissions.
THEOREM NoEcho ==
    ASSUME Duplex, "freq" \notin Refusable
    PROVE  Spec => []NoSelfEcho
  <1>1. DuplexListening => NoSelfEcho
    BY DEF DuplexListening, NoSelfEcho
  <1> QED BY <1>1, DuplexInvariant, PTL

\* The receiver listens, as "RC" asked, unless the board transmits nearby.
THEOREM DuplexListens ==
    ASSUME Duplex, "freq" \notin Refusable, "mod" \notin Refusable
    PROVE  Spec => []ListensWithRx
  <1> DEFINE Inv == chip[RxChip].mod = rx.mod
  <1>1. Init => Inv
    BY DEF Init, Chips
  <1>2. TypeOK /\ Inv /\ [Next]_vars => Inv'
    <2> SUFFICES ASSUME TypeOK, Inv, [Next]_vars PROVE Inv'
      OBVIOUS
    <2> TxChip \in Chips /\ RxChip \in Chips /\ TxChip # RxChip
      BY DuplexChips
    <2>1. CASE \E refused \in SUBSET Refusable : Command(refused)
      <3> PICK refused \in SUBSET Refusable : Command(refused)
        BY <2>1
      <3> "mod" \notin refused
        OBVIOUS
      <3>1. ASSUME NEW new \in Settings, ConfigTx(new, refused) PROVE Inv'
        BY <3>1 DEF ConfigTx, TypeOK
      <3>2. ASSUME NEW f \in Freqs, NEW m \in Mods, ConfigRx(f, m, refused) PROVE Inv'
        <4>1. chip'[RxChip] = Applied(chip[RxChip], rx', refused)
          BY <3>2 DEF ConfigRx, TypeOK
        <4> QED BY <4>1, AppliedMod
      <3>3. ASSUME NEW f \in Freqs, RetuneTx(f, refused) PROVE Inv'
        BY <3>3 DEF RetuneTx, Retune, TypeOK
      <3>4. CASE Send(refused)
        BY <3>4 DEF Send
      <3>5. ASSUME NEW txDone \in BOOLEAN, SendDone(txDone, refused) PROVE Inv'
        BY <3>5 DEF SendDone
      <3> QED BY <3>1, <3>2, <3>3, <3>4, <3>5 DEF Command
    <2>2. CASE Restart
      BY <2>2 DEF Restart, Chips
    <2>3. CASE UNCHANGED <<rx, chip>>
      BY <2>3
    <2> QED BY <2>1, <2>2, <2>3
            DEF Next, Command, PacketHeard, TakeFlag, TakeTxFlag, ReadPacket, Rearm, EndLoop,
                settings, vars
  <1>3. TypeOK /\ Inv /\ DuplexListening => ListensWithRx
    <2> SUFFICES ASSUME TypeOK, Inv, DuplexListening,
                        pc # "transmitting" \/ Distance(tx.freq, rx.freq) >= 10
                 PROVE  receiving
      BY DEF ListensWithRx, DuplexListening
    <2>1. tx.freq \in Nat /\ rx.freq \in Nat
      BY RadioAssumption DEF TypeOK, Settings
    <2>2. Distance(tx.freq, rx.freq) >= 10 => ~SameFreq
      BY <2>1 DEF SameFreq, Distance
    <2> QED BY <2>2 DEF DuplexListening
  <1> QED BY <1>1, <1>2, <1>3, TypeCorrect, DuplexInvariant, PTL DEF Spec

\* Transmitting far from the receive frequency leaves the receiver's FIFO
\* alone.  No invariant is needed: it is a matter of the two steps.
THEOREM DuplexSendsKeepPackets ==
    ASSUME Duplex
    PROVE  Spec => SendsKeepPackets
  <1> DEFINE Keeps == /\ pc = "transmitting" \/ pc' = "transmitting"
                      /\ pc' # pc /\ done' # "none"
                      /\ Distance(tx.freq, rx.freq) >= 10
                      => fifo' = fifo
  <1>1. TypeOK /\ [Next]_vars => [Keeps]_vars
    <2> SUFFICES ASSUME TypeOK, [Next]_vars,
                        pc = "transmitting" \/ pc' = "transmitting", pc' # pc,
                        done' # "none", Distance(tx.freq, rx.freq) >= 10
                 PROVE  fifo' = fifo
      OBVIOUS
    <2>1. tx.freq \in Nat /\ rx.freq \in Nat
      BY RadioAssumption DEF TypeOK, Settings
    <2>2. ~SameFreq
      BY <2>1 DEF SameFreq, Distance
    <2>3. CASE \E refused \in SUBSET Refusable : Command(refused)
      BY <2>2, <2>3 DEF Command, ConfigTx, ConfigRx, RetuneTx, Send, SendDone
    <2> QED BY <2>3 DEF Next, Command, PacketHeard, TakeFlag, TakeTxFlag, ReadPacket, Rearm,
                        EndLoop, Restart, vars
  <1> QED BY <1>1, TypeCorrect, PTL DEF Spec, SendsKeepPackets

-----------------------------------------------------------------------------
(* The parts                                                               *)

partsVars == <<part, vars, singleVars, parserVars, flashVars, splitterVars, configVars, payloadVars>>

\* Whatever part runs, each one takes only steps of its own.
LEMMA PartsRun ==
    PartsSpec => /\ Spec /\ Single!Spec /\ Parser!Spec /\ Flash!Spec /\ Splitter!Spec
                 /\ Config!Spec /\ Payload!Spec
  <1>1. PartsInit => /\ Init /\ Single!Init /\ Parser!Init /\ Flash!Init /\ Splitter!Init
                     /\ Config!Init /\ Payload!Init
    BY DEF PartsInit
  <1>2. [PartsNext]_partsVars => [Next]_vars
    BY DEF PartsNext, Only, partsVars
  <1>3. [PartsNext]_partsVars => [Single!Next]_(Single!vars)
    BY DEF PartsNext, Only, partsVars, singleVars, Single!vars, Single!settings
  <1>4. [PartsNext]_partsVars => [Parser!Next]_(Parser!vars)
    BY DEF PartsNext, Only, partsVars, parserVars, Parser!vars, Parser!parserVars
  <1>5. [PartsNext]_partsVars => [Flash!Next]_(Flash!vars)
    BY DEF PartsNext, Only, partsVars, flashVars, Flash!vars
  <1>6. [PartsNext]_partsVars => [Splitter!Next]_(Splitter!vars)
    BY DEF PartsNext, Only, partsVars, splitterVars, Splitter!vars, Splitter!boardVars,
           Splitter!splitterVars, Splitter!seenVars
  <1>7. [PartsNext]_partsVars => [Config!Next]_(Config!vars)
    BY DEF PartsNext, Only, partsVars, configVars, Config!vars
  <1>8. [PartsNext]_partsVars => [Payload!Next]_(Payload!vars)
    BY DEF PartsNext, Only, partsVars, payloadVars, Payload!vars
  <1> QED BY <1>1, <1>2, <1>3, <1>4, <1>5, <1>6, <1>7, <1>8, PTL
          DEF PartsSpec, partsVars, Spec, Single!Spec, Parser!Spec, Flash!Spec, Splitter!Spec, Config!Spec,
              Payload!Spec

-----------------------------------------------------------------------------
(* The builds with one chip                                                *)

\* The steps of Single that tune the chip, one level below its Next.
SingleCommand(refused) ==
    \/ \E new \in Settings : Single!ConfigTx(new, refused)
    \/ \E f \in Freqs, m \in Mods : Single!ConfigRx(f, m, refused)
    \/ \E f \in Freqs : Single!RetuneTx(f, refused)
    \/ Single!Send(refused)
    \/ \E txDone \in BOOLEAN : Single!SendDone(txDone, refused)

LEMMA SingleFacts ==
    /\ Single!TxChip = 0 /\ Single!RxChip = 0 /\ Single!Chips = {0}
    /\ Single!Settings = Settings /\ Single!Initial = Initial
    /\ \A f, g : Single!Distance(f, g) = Distance(f, g)
  BY DEF Single!TxChip, Single!RxChip, Single!Chips, Single!Settings, Settings, Single!Initial,
         Initial, Single!Distance, Distance

\* A setting that is applied is a setting, and with the frequency asked for if
\* its setter does not fail.
LEMMA SingleApplied ==
    ASSUME NEW old \in Settings, NEW new \in Settings, NEW refused, "freq" \notin refused
    PROVE  /\ Single!Applied(old, new, refused) \in Settings
           /\ Single!Applied(old, new, refused).freq = new.freq
  BY DEF Single!Applied, Settings

\* The chip is tuned to one of the two frequencies; to the transmit frequency,
\* or nearly, while it sends, and to the receive frequency afterwards.
SingleTuned ==
    /\ sTx \in Settings /\ sRx \in Settings /\ sChip \in [{0} -> Settings]
    /\ sChip[0].freq \in {sTx.freq, sRx.freq}
    /\ sPc = "transmitting" => Distance(sChip[0].freq, sTx.freq) <= 1
    /\ sDone = "send" /\ sPc # "transmitting" =>
         sReceiving /\ Distance(sChip[0].freq, sRx.freq) <= 1

LEMMA DistanceFacts ==
    ASSUME NEW f \in Nat, NEW g \in Nat
    PROVE  /\ Distance(f, g) \in Nat
           /\ Distance(f, g) = Distance(g, f)
           /\ Distance(f, f) = 0
  BY DEF Distance

LEMMA NearBoth ==
    ASSUME NEW f \in Nat, NEW g \in Nat, NEW c \in {f, g}, ~(Distance(f, g) > 1)
    PROVE  Distance(c, f) <= 1 /\ Distance(c, g) <= 1
  BY DEF Distance

LEMMA SettingsChange ==
    ASSUME NEW s \in Settings, NEW f \in Freqs
    PROVE  /\ s.freq \in Freqs /\ s.freq \in Nat
           /\ [s EXCEPT !.freq = f] \in Settings /\ [s EXCEPT !.freq = f].freq = f
  BY RadioAssumption DEF Settings

\* A transmission, and its end, retune the chip from one frequency to the other.
LEMMA SingleCommands ==
    ASSUME SingleTuned, NEW refused, "freq" \notin refused, SingleCommand(refused)
    PROVE  SingleTuned'
  <1> USE SingleFacts DEF SingleTuned
  <1>0. sTx.freq \in Nat /\ sRx.freq \in Nat /\ sChip[0] \in Settings
        /\ sTx.freq \in Freqs /\ sRx.freq \in Freqs
    <2>1. sChip[0] \in Settings
      OBVIOUS
    <2>2. sTx.freq \in Freqs /\ sRx.freq \in Freqs
      BY DEF Settings
    <2> QED BY <2>1, <2>2, RadioAssumption
  <1>1. ASSUME NEW new \in Settings, Single!ConfigTx(new, refused) PROVE SingleTuned'
    <2>1. /\ sTx' = new /\ sRx' = sRx /\ sPc' = "loop" /\ sDone' = "TC"
          /\ sChip' = [sChip EXCEPT ![0] = Single!Applied(sChip[0], new, refused)]
      BY <1>1 DEF Single!ConfigTx
    <2>2. /\ Single!Applied(sChip[0], new, refused) \in Settings
          /\ Single!Applied(sChip[0], new, refused).freq = new.freq
      BY <1>0, SingleApplied
    <2> QED BY <2>1, <2>2
  <1>2. ASSUME NEW f \in Freqs, NEW m \in Mods, Single!ConfigRx(f, m, refused) PROVE SingleTuned'
    <2>1. /\ sRx' = [sRx EXCEPT !.freq = f, !.mod = m] /\ sTx' = sTx /\ sPc' = "loop" /\ sDone' = "RC"
          /\ sChip' = [sChip EXCEPT ![0] = Single!Applied(sChip[0], sRx', refused)]
      BY <1>2 DEF Single!ConfigRx
    <2>2. sRx' \in Settings
      BY <2>1 DEF Settings
    <2>3. /\ Single!Applied(sChip[0], sRx', refused) \in Settings
          /\ Single!Applied(sChip[0], sRx', refused).freq = sRx'.freq
      BY <1>0, <2>2, SingleApplied
    <2> QED BY <2>1, <2>2, <2>3
  <1>3. ASSUME NEW f \in Freqs, Single!RetuneTx(f, refused) PROVE SingleTuned'
    <2> DEFINE new == [sChip[0] EXCEPT !.freq = f]
    <2>1. /\ sTx' = [sTx EXCEPT !.freq = f] /\ sRx' = sRx /\ sPc' = "loop" /\ sDone' = "Tc"
          /\ sChip' = [sChip EXCEPT ![0] = Single!Applied(sChip[0], new, refused)]
      BY <1>3 DEF Single!RetuneTx, Single!Retune
    <2>2. new \in Settings /\ new.freq = f /\ sTx' \in Settings /\ sTx'.freq = f
      BY <1>0, <2>1, SettingsChange
    <2> HIDE DEF new
    <2>3. /\ Single!Applied(sChip[0], new, refused) \in Settings
          /\ Single!Applied(sChip[0], new, refused).freq = f
      BY <1>0, <2>2, SingleApplied
    <2> QED BY <2>1, <2>2, <2>3
  <1>4. ASSUME NEW g \in Freqs, sChip' = [sChip EXCEPT ![0].freq = g]
        PROVE  sChip' \in [{0} -> Settings] /\ sChip'[0].freq = g
    BY <1>4 DEF Settings
  <1>5. CASE Single!Send(refused)
    <2>1. sTx' = sTx /\ sRx' = sRx /\ sPc' = "transmitting"
      BY <1>5 DEF Single!Send
    <2>2. CASE Single!Retunes
      <3> DEFINE g == sTx.freq
      <3>1. sChip' = [sChip EXCEPT ![0].freq = g]
        BY <1>5, <2>2 DEF Single!Send
      <3>2. g \in Freqs /\ g \in Nat
        BY <1>0
      <3> HIDE DEF g
      <3>3. sChip' \in [{0} -> Settings] /\ sChip'[0].freq = g
        BY <1>4, <3>1, <3>2
      <3> QED BY <1>0, <2>1, <3>3, DistanceFacts DEF g
    <2>3. CASE ~Single!Retunes
      <3>1. sChip' = sChip
        BY <1>5, <2>3 DEF Single!Send
      <3>2. Distance(sChip[0].freq, sTx.freq) <= 1
        BY <1>0, <2>3, NearBoth DEF Single!Retunes
      <3> QED BY <2>1, <3>1, <3>2
    <2> QED BY <2>2, <2>3
  <1>6. ASSUME NEW txDone \in BOOLEAN, Single!SendDone(txDone, refused) PROVE SingleTuned'
    <2>1. sTx' = sTx /\ sRx' = sRx /\ sPc' = "loop" /\ sReceiving' = TRUE
      BY <1>6 DEF Single!SendDone, Single!StartReceive
    <2>2. CASE Single!Retunes
      <3> DEFINE g == sRx.freq
      <3>1. sChip' = [sChip EXCEPT ![0].freq = g]
        BY <1>6, <2>2 DEF Single!SendDone
      <3>2. g \in Freqs /\ g \in Nat
        BY <1>0
      <3> HIDE DEF g
      <3>3. sChip' \in [{0} -> Settings] /\ sChip'[0].freq = g
        BY <1>4, <3>1, <3>2
      <3> QED BY <1>0, <2>1, <3>3, DistanceFacts DEF g
    <2>3. CASE ~Single!Retunes
      <3>1. sChip' = sChip
        BY <1>6, <2>3 DEF Single!SendDone
      <3>2. Distance(sChip[0].freq, sRx.freq) <= 1
        BY <1>0, <2>3, NearBoth DEF Single!Retunes
      <3> QED BY <2>1, <3>1, <3>2
    <2> QED BY <2>2, <2>3
  <1> QED BY <1>1, <1>2, <1>3, <1>5, <1>6 DEF SingleCommand

\* One chip for both directions transmits on the transmit frequency and is back
\* on the receive frequency, listening, when it is done, as long as the
\* frequency can be set.
THEOREM SingleRetunes ==
    ASSUME "freq" \notin SingleRefusable
    PROVE  PartsSpec => []SingleChipRetunes
  <1>1. Single!Init => SingleTuned
    <2>1. Initial \in Settings
      BY RadioAssumption DEF Initial, Settings
    <2> QED BY <2>1, SingleFacts DEF Single!Init, SingleTuned, Initial
  <1>2. SingleTuned /\ [Single!Next]_(Single!vars) => SingleTuned'
    <2> SUFFICES ASSUME SingleTuned, [Single!Next]_(Single!vars) PROVE SingleTuned'
      OBVIOUS
    <2>1. ASSUME NEW refused \in SUBSET SingleRefusable, SingleCommand(refused) PROVE SingleTuned'
      BY <2>1, SingleCommands
    <2>2. ASSUME NEW packet \in {"air", "own"}, Single!PacketHeard(packet) PROVE SingleTuned'
      BY <2>2 DEF SingleTuned, Single!PacketHeard, Single!settings
    <2>3. CASE Single!TakeFlag
      BY <2>3 DEF SingleTuned, Single!TakeFlag, Single!settings
    <2>4. CASE Single!TakeTxFlag
      BY <2>4 DEF SingleTuned, Single!TakeTxFlag, Single!settings
    <2>5. CASE Single!ReadPacket
      BY <2>5 DEF SingleTuned, Single!ReadPacket, Single!settings
    <2>6. CASE Single!Rearm
      BY <2>6 DEF SingleTuned, Single!Rearm, Single!StartReceive, Single!settings
    <2>7. CASE Single!EndLoop
      BY <2>7 DEF SingleTuned, Single!EndLoop, Single!settings
    <2>8. CASE Single!Restart
      <3>1. Initial \in Settings
        BY RadioAssumption DEF Initial, Settings
      <3> QED BY <2>8, <3>1, SingleFacts DEF Single!Restart, SingleTuned, Initial
    <2>9. CASE UNCHANGED Single!vars
      BY <2>9 DEF SingleTuned, Single!vars, Single!settings
    <2>10. CASE \E refused \in SUBSET SingleRefusable : SingleCommand(refused)
      BY <2>1, <2>10
    <2> QED BY <2>2, <2>3, <2>4, <2>5, <2>6, <2>7, <2>8, <2>9, <2>10, SingleFacts
            DEF Single!Next, SingleCommand
  <1>3. SingleTuned => SingleChipRetunes
    BY SingleFacts DEF SingleTuned, SingleChipRetunes, Single!TransmitsOnTxFrequency,
                       Single!HearsAfterSending
  <1> QED BY <1>1, <1>2, <1>3, PartsRun, PTL DEF Single!Spec

-----------------------------------------------------------------------------
(* The command parser                                                      *)

LineStates ==
    [of : Parser!Commands \cup {Parser!None}, next : Nat \ {0}, heard : BOOLEAN, intact : BOOLEAN]

ParserTypeOK ==
    /\ pState \in {"IDLE", "NEED_LEN", "NEED_BODY"}
    /\ pLen \in Nat /\ pHave \in Nat /\ pLenLo \in Nat /\ pBuf \in Seq(Nat)
    /\ IF pState = "NEED_BODY" THEN pLen <= InBufSize ELSE pBuf = <<>>
    /\ line \in [Sources -> LineStates]
    /\ \A s \in Sources : Parser!Under(s) => line[s].next <= Len(Parser!Wire(line[s].of))

\* The first k - 1 bytes of command c are what the parser has read.
InPlace(c, k) ==
    /\ pCmd = c.code
    /\ k = 2 => pState = "NEED_LEN" /\ pHave = 0
    /\ k = 3 => pState = "NEED_LEN" /\ pHave = 1 /\ pLenLo = Len(c.body) % Base
    /\ k > 3 => /\ pState = "NEED_BODY" /\ pLen = Len(c.body) /\ pHave = k - 4
                /\ Len(pBuf) = k - 4 /\ \A i \in 1..(k - 4) : pBuf[i] = c.body[i]

\* Before its first byte the parser has to be idle.
Ready(c, k) == IF k = 1 THEN pState = "IDLE" ELSE InPlace(c, k)

\* A command under way that nothing came between is where the parser is.
Intact ==
    \A s \in Sources :
        Parser!Begun(s) /\ line[s].intact /\ Parser!Valid(line[s].of) =>
            InPlace(line[s].of, line[s].next)

\* When nothing is upset the parser is idle between commands, or in one.
Clean ==
    upset = {} =>
      \/ pState = "IDLE" /\ \A s \in Sources : ~Parser!Begun(s)
      \/ \E s \in Sources :
           /\ Parser!Begun(s) /\ line[s].heard /\ Parser!Valid(line[s].of)
           /\ InPlace(line[s].of, line[s].next)
           /\ \A t \in Sources \ {s} : ~Parser!Begun(t)

ParserInv == ParserTypeOK /\ Intact /\ Clean /\ CommandsFit /\ OnlyWhatWasSent

LEMMA LengthOfTwoBytes ==
    ASSUME NEW n \in Nat, Base \in Nat \ {0}
    PROVE  Parser!Length(n % Base, n \div Base) = n
  BY DEF Parser!Length

LEMMA BaseFacts == Base \in Nat \ {0} /\ InBufSize \in Nat \ {0}
  BY ParserAssumption

LEMMA CommandFacts ==
    ASSUME NEW c \in Parser!Commands
    PROVE  /\ c # Parser!None /\ c = [code |-> c.code, body |-> c.body]
           /\ c.code \in BodyCommands \cup {InfoCommand} /\ c.body \in Seq(Nat) /\ Len(c.body) \in Nat
           /\ \A i \in 1..Len(c.body) : c.body[i] \in Nat
           /\ c.code \in Nat
  <1>1. c.code \in BodyCommands \cup {InfoCommand} /\ c.body \in Bodies
        /\ c = [code |-> c.code, body |-> c.body]
    BY DEF Parser!Commands
  <1>2. c.code \in 0..(Base - 1) /\ Base \in Nat
    BY <1>1, ParserAssumption
  <1>3. c.body \in Seq(0..(Base - 1))
    BY <1>1, ParserAssumption
  <1>4. c.body \in Seq(Nat)
    <2>1. 0..(Base - 1) \subseteq Nat
      BY <1>2
    <2> QED BY <1>3, <2>1, SeqMonotonic
  <1>5. c.code # Base
    BY <1>2
  <1>6. c # Parser!None
    BY <1>5 DEF Parser!None
  <1>7. \A i \in 1..Len(c.body) : c.body[i] \in Nat
    BY <1>4, ElementOfSeq
  <1> QED BY <1>1, <1>2, <1>4, <1>6, <1>7, LenProperties

LEMMA WireFacts ==
    ASSUME NEW c \in Parser!Commands
    PROVE  /\ Len(Parser!Wire(c)) = Len(c.body) + 3
           /\ Parser!Wire(c)[1] = c.code
           /\ Parser!Wire(c)[2] = Len(c.body) % Base /\ Parser!Wire(c)[3] = Len(c.body) \div Base
           /\ \A i \in 1..Len(c.body) : Parser!Wire(c)[i + 3] = c.body[i]
           /\ \A k \in 1..Len(Parser!Wire(c)) : Parser!Wire(c)[k] \in Nat
  <1> DEFINE n == Len(c.body)
             head == <<c.code, n % Base, n \div Base>>
             wire == Parser!Wire(c)
  <1>1. n \in Nat /\ c.code \in Nat /\ c.body \in Seq(Nat) /\ Base \in Nat \ {0}
    BY CommandFacts, BaseFacts
  <1>2. n % Base \in Nat /\ n \div Base \in Nat
    <2> HIDE DEF n
    <2> QED BY <1>1
  <1>3. head \in Seq(Nat) /\ Len(head) = 3 /\ head[1] = c.code /\ head[2] = n % Base
        /\ head[3] = n \div Base
    <2> HIDE DEF n
    <2> QED BY <1>1, <1>2
  <1>4. wire = head \o c.body
    BY DEF Parser!Wire
  <1> HIDE DEF head, wire
  <1>5. /\ wire \in Seq(Nat) /\ Len(wire) = 3 + n
        /\ \A i \in 1..3 : wire[i] = head[i]
        /\ \A i \in 1..n : wire[3 + i] = c.body[i]
    <2>0. head \in Seq(Nat) /\ c.body \in Seq(Nat)
      BY <1>1, <1>3
    <2>1. /\ wire \in Seq(Nat) /\ Len(wire) = Len(head) + Len(c.body)
          /\ \A i \in 1..Len(head) : wire[i] = head[i]
          /\ \A i \in 1..Len(c.body) : wire[Len(head) + i] = c.body[i]
      BY <1>4, <2>0, ConcatParts
    <2> QED BY <1>3, <2>1
  <1>6. \A k \in 1..Len(wire) : wire[k] \in Nat
    BY <1>5, ElementOfSeq
  <1>7. \A i \in 1..n : wire[i + 3] = c.body[i]
    <2> SUFFICES ASSUME NEW i \in 1..n PROVE wire[i + 3] = c.body[i]
      OBVIOUS
    <2>1. 3 + i = i + 3
      BY <1>1
    <2> QED BY <1>5, <2>1
  <1>8. Len(wire) = n + 3 /\ wire[1] = c.code /\ wire[2] = n % Base /\ wire[3] = n \div Base
    <2> HIDE DEF n
    <2>1. wire[1] = head[1] /\ wire[2] = head[2] /\ wire[3] = head[3] /\ Len(wire) = n + 3
      BY <1>1, <1>5
    <2> QED BY <1>3, <2>1
  <1> QED BY <1>6, <1>7, <1>8 DEF wire

\* The parser takes the next byte of a valid command it has read so far.
LEMMA TakesItsByte ==
    ASSUME ParserTypeOK, NEW c \in Parser!Commands, Parser!Valid(c),
           NEW k \in 1..Len(Parser!Wire(c)), Ready(c, k), Parser!FeedParser(Parser!Wire(c)[k])
    PROVE  /\ k < Len(Parser!Wire(c)) => InPlace(c, k + 1)' /\ result' = Parser!None
           /\ k = Len(Parser!Wire(c)) => pState' = "IDLE" /\ result' = c
  <1> DEFINE n == Len(c.body)
             b == Parser!Wire(c)[k]
  <1>1. /\ n \in Nat /\ c.body \in Seq(Nat) /\ c = [code |-> c.code, body |-> c.body]
        /\ c.code \in BodyCommands \cup {InfoCommand} /\ Base \in Nat \ {0} /\ InBufSize \in Nat
    BY CommandFacts, BaseFacts
  <1>2. Len(Parser!Wire(c)) = n + 3 /\ k \in 1..(n + 3) /\ b \in Nat
    BY WireFacts
  <1>3. CASE k = 1
    <2>1. b = c.code /\ pState = "IDLE"
      BY <1>3, WireFacts DEF Ready
    <2>2. Parser!Opens(b)
      BY <2>1 DEF Parser!FeedParser, Parser!LowByte, Parser!HighByte, Parser!BodyByte
    <2>3. pState' = "NEED_LEN" /\ pCmd' = c.code /\ pHave' = 0 /\ result' = Parser!None
      BY <1>1, <2>1, <2>2 DEF Parser!Opens
    <2>4. k < Len(Parser!Wire(c)) /\ k + 1 = 2
      BY <1>1, <1>2, <1>3
    <2> QED BY <2>3, <2>4 DEF InPlace
  <1>4. CASE k = 2
    <2>1. b = n % Base /\ pState = "NEED_LEN" /\ pHave = 0 /\ pCmd = c.code
      BY <1>4, WireFacts DEF Ready, InPlace
    <2>2. Parser!LowByte(b)
      BY <2>1 DEF Parser!FeedParser, Parser!Opens, Parser!HighByte, Parser!BodyByte
    <2>3. /\ pState' = "NEED_LEN" /\ pCmd' = c.code /\ pHave' = 1 /\ pLenLo' = n % Base
          /\ result' = Parser!None
      BY <2>1, <2>2 DEF Parser!LowByte
    <2>4. k < Len(Parser!Wire(c)) /\ k + 1 = 3
      BY <1>1, <1>2, <1>4
    <2> QED BY <2>3, <2>4 DEF InPlace
  <1>5. CASE k = 3
    <2>1. /\ b = n \div Base /\ pState = "NEED_LEN" /\ pHave = 1 /\ pLenLo = n % Base
          /\ pCmd = c.code /\ pBuf = <<>>
      BY <1>5, WireFacts DEF Ready, InPlace, ParserTypeOK
    <2>2. Parser!HighByte(b)
      BY <2>1 DEF Parser!FeedParser, Parser!Opens, Parser!LowByte, Parser!BodyByte
    <2>3. Parser!Length(pLenLo, b) = n
      <3> HIDE DEF n, b
      <3> QED BY <1>1, <2>1, LengthOfTwoBytes
    <2>4. CASE n = 0
      <3>1. c.code = InfoCommand /\ c.body = <<>>
        BY <1>1, <2>4 DEF Parser!Valid
      <3>2. pState' = "IDLE" /\ result' = [code |-> c.code, body |-> <<>>]
        BY <2>1, <2>2, <2>3, <2>4, <3>1 DEF Parser!HighByte, Parser!ResetParser
      <3>3. k = Len(Parser!Wire(c))
        BY <1>2, <1>5, <2>4
      <3> QED BY <1>1, <3>1, <3>2, <3>3
    <2>5. CASE n # 0
      <3>1. n \in 1..InBufSize
        BY <1>1, <2>5 DEF Parser!Valid
      <3>2. /\ pState' = "NEED_BODY" /\ pHave' = 0 /\ pBuf' = <<>> /\ pLen' = n /\ pCmd' = c.code
            /\ result' = Parser!None
        BY <1>1, <2>1, <2>2, <2>3, <3>1 DEF Parser!HighByte, Parser!Oversize
      <3>3. k < Len(Parser!Wire(c)) /\ k + 1 = 4
        BY <1>1, <1>2, <1>5, <3>1
      <3> QED BY <3>2, <3>3 DEF InPlace
    <2> QED BY <2>4, <2>5
  <1>6. CASE k > 3
    <2> DEFINE j == k - 3
    <2>1. j \in 1..n /\ k = j + 3 /\ j - 1 = k - 4
      BY <1>1, <1>2, <1>6
    <2>2. /\ b = c.body[j] /\ pState = "NEED_BODY" /\ pLen = n /\ pHave = j - 1 /\ pCmd = c.code
          /\ Len(pBuf) = j - 1 /\ \A i \in 1..(j - 1) : pBuf[i] = c.body[i]
          /\ pBuf \in Seq(Nat)
      <3>1. Parser!Wire(c)[j + 3] = c.body[j]
        BY <2>1, WireFacts
      <3>2. InPlace(c, k)
        BY <1>6 DEF Ready
      <3>3. pBuf \in Seq(Nat)
        BY DEF ParserTypeOK
      <3> QED BY <1>6, <2>1, <3>1, <3>2, <3>3 DEF InPlace
    <2>3. Parser!BodyByte(b)
      BY <2>2 DEF Parser!FeedParser, Parser!Opens, Parser!LowByte, Parser!HighByte
    <2>4. c.code \in BodyCommands
      BY <1>1, <2>1 DEF Parser!Valid
    <2>5. LET a == Append(pBuf, b) IN
          a \in Seq(Nat) /\ Len(a) = j /\ \A i \in 1..j : a[i] = c.body[i]
      <3> DEFINE a == Append(pBuf, b)
      <3>1. /\ a \in Seq(Nat) /\ Len(a) = Len(pBuf) + 1 /\ a[Len(pBuf) + 1] = b
            /\ \A i \in 1..Len(pBuf) : a[i] = pBuf[i]
        BY <1>2, <2>2, AppendProperties
      <3> HIDE DEF a
      <3>2. \A i \in 1..j : a[i] = c.body[i]
        <4> SUFFICES ASSUME NEW i \in 1..j PROVE a[i] = c.body[i]
          OBVIOUS
        <4>1. CASE i = j
          BY <2>1, <2>2, <3>1, <4>1
        <4>2. CASE i # j
          <5>1. i \in 1..(j - 1)
            BY <2>1, <4>2
          <5> QED BY <2>2, <3>1, <5>1
        <4> QED BY <4>1, <4>2
      <3> QED BY <2>1, <2>2, <3>1, <3>2 DEF a
    <2> DEFINE a == Append(pBuf, b)
    <2> HIDE DEF a, b
    <2>6. CASE j = n
      <3>1. pHave + 1 >= pLen
        BY <1>1, <2>1, <2>2, <2>6
      <3>2. pState' = "IDLE" /\ result' = [code |-> c.code, body |-> a]
        BY <2>2, <2>3, <2>4, <3>1 DEF Parser!BodyByte, Parser!ResetParser, a
      <3>3. a = c.body
        BY <1>1, <2>5, <2>6, SeqEqual DEF a
      <3>4. k = Len(Parser!Wire(c))
        BY <1>2, <2>1, <2>6
      <3> QED BY <1>1, <3>2, <3>3, <3>4
    <2>7. CASE j # n
      <3>1. ~(pHave + 1 >= pLen)
        BY <1>1, <2>1, <2>2, <2>7
      <3>2. /\ pState' = "NEED_BODY" /\ pHave' = j /\ pBuf' = a /\ result' = Parser!None
            /\ pCmd' = c.code /\ pLen' = n
        BY <2>1, <2>2, <2>3, <3>1 DEF Parser!BodyByte, a
      <3>3. k < Len(Parser!Wire(c)) /\ (k + 1) - 4 = j /\ k + 1 > 3 /\ k + 1 # 2 /\ k + 1 # 3
        <4> DEFINE w == Len(Parser!Wire(c))
        <4>1. n \in Nat /\ w = n + 3 /\ j \in 1..n /\ k = j + 3 /\ j # n
          BY <1>1, <1>2, <2>1, <2>7
        <4> HIDE DEF n, j, w
        <4>2. k < w /\ (k + 1) - 4 = j /\ k + 1 > 3 /\ k + 1 # 2 /\ k + 1 # 3
          BY ONLY <4>1
        <4> QED BY <4>2 DEF w
      <3>4. Len(a) = j /\ \A i \in 1..j : a[i] = c.body[i]
        BY <2>5 DEF a
      <3> QED BY <3>2, <3>3, <3>4 DEF InPlace
    <2> QED BY <2>6, <2>7
  <1> QED BY <1>1, <1>2, <1>3, <1>4, <1>5, <1>6

-----------------------------------------------------------------------------

\* The parser stays well formed, and within its buffer, whatever it is fed.
LEMMA FeedsWithinBuffer ==
    ASSUME ParserTypeOK, Parser!WithinBuffer, NEW b \in Nat, Parser!FeedParser(b)
    PROVE  /\ pState' \in {"IDLE", "NEED_LEN", "NEED_BODY"} /\ pLen' \in Nat /\ pHave' \in Nat
           /\ pLenLo' \in Nat /\ pBuf' \in Seq(Nat)
           /\ IF pState' = "NEED_BODY" THEN pLen' <= InBufSize ELSE pBuf' = <<>>
           /\ (Parser!WithinBuffer)'
  <1> USE BaseFacts DEF ParserTypeOK, Parser!WithinBuffer
  <1>0. <<>> \in Seq(Nat)
    BY EmptySeq
  <1>1. CASE Parser!Opens(b)
    BY <1>1 DEF Parser!Opens
  <1>2. CASE Parser!LowByte(b)
    BY <1>2 DEF Parser!LowByte
  <1>3. CASE Parser!HighByte(b)
    <2> DEFINE len == Parser!Length(pLenLo, b)
    <2>1. len \in Nat
      BY DEF Parser!Length
    <2>2. pLen' = len /\ UNCHANGED pLenLo
      BY <1>3 DEF Parser!HighByte
    <2>3. CASE len = 0 \/ Parser!Oversize(len)
      <3>1. pState' = "IDLE" /\ pHave' = 0 /\ pBuf' = <<>>
        BY <1>3, <2>3 DEF Parser!HighByte, Parser!ResetParser
      <3> HIDE DEF len
      <3> QED BY <1>0, <2>1, <2>2, <3>1
    <2>4. CASE ~(len = 0 \/ Parser!Oversize(len))
      <3>1. pState' = "NEED_BODY" /\ pHave' = 0 /\ pBuf' = pBuf
        BY <1>3, <2>4 DEF Parser!HighByte
      <3> HIDE DEF len
      <3>2. len \in Nat \ {0} /\ len <= InBufSize
        BY <2>1, <2>4 DEF Parser!Oversize
      <3> QED BY <2>1, <2>2, <3>1, <3>2
    <2> QED BY <2>3, <2>4
  <1>4. CASE Parser!BodyByte(b)
    <2>1. Append(pBuf, b) \in Seq(Nat)
      BY AppendProperties
    <2>2. pState = "NEED_BODY" /\ pLen' = pLen /\ pLenLo' = pLenLo
      BY <1>4 DEF Parser!BodyByte
    <2>3. CASE pHave + 1 >= pLen
      <3>1. pState' = "IDLE" /\ pHave' = 0 /\ pBuf' = <<>>
        BY <1>4, <2>3 DEF Parser!BodyByte, Parser!ResetParser
      <3> QED BY <1>0, <2>2, <3>1
    <2>4. CASE ~(pHave + 1 >= pLen)
      <3>1. pState' = "NEED_BODY" /\ pHave' = pHave + 1 /\ pBuf' = Append(pBuf, b)
        BY <1>4, <2>2, <2>4 DEF Parser!BodyByte
      <3> QED BY <2>1, <2>2, <2>4, <3>1
    <2> QED BY <2>3, <2>4
  <1> QED BY <1>1, <1>2, <1>3, <1>4 DEF Parser!FeedParser

LEMMA LineInterrupted ==
    ASSUME NEW r \in LineStates, NEW b \in BOOLEAN
    PROVE  LET q == [r EXCEPT !.intact = b] IN
           /\ q \in LineStates /\ q.of = r.of /\ q.next = r.next /\ q.heard = r.heard
           /\ q.intact = b
  BY DEF LineStates

LEMMA LineStarts ==
    ASSUME NEW c \in Parser!Commands, NEW h \in BOOLEAN, NEW i \in BOOLEAN
    PROVE  [[of |-> Parser!None, next |-> 1, heard |-> h, intact |-> i] EXCEPT !.of = c] \in LineStates
  BY DEF LineStates

LEMMA ParserSends ==
    ASSUME ParserInv, NEW s \in Sources, NEW c \in Parser!Commands, Parser!HostSends(s, c)
    PROVE  ParserInv'
  <1>1. /\ line[s].of = Parser!None /\ line' = [line EXCEPT ![s] = [Parser!Silent EXCEPT !.of = c]]
        /\ UNCHANGED <<pState, pCmd, pLen, pHave, pLenLo, pBuf, result, ended, upset>>
    BY DEF Parser!HostSends, Parser!Under, Parser!parserVars
  <1>2. /\ line'[s] = [of |-> c, next |-> 1, heard |-> FALSE, intact |-> FALSE]
        /\ \A t \in Sources : t # s => line'[t] = line[t]
    BY <1>1 DEF ParserInv, ParserTypeOK, Parser!Silent
  <1>3. ParserTypeOK'
    <2>0. [Parser!Silent EXCEPT !.of = c] \in LineStates
      BY LineStarts DEF Parser!Silent
    <2>1. line' \in [Sources -> LineStates]
      BY <1>1, <2>0 DEF ParserInv, ParserTypeOK
    <2>2. 1 <= Len(Parser!Wire(c))
      BY WireFacts, CommandFacts
    <2> QED BY <1>1, <1>2, <2>1, <2>2 DEF ParserInv, ParserTypeOK, Parser!Under
  <1>4. \A t \in Sources : (Parser!Begun(t))' <=> Parser!Begun(t)
    BY <1>1, <1>2 DEF Parser!Begun, Parser!Under
  <1>5. \A t \in Sources : Parser!Begun(t) => t # s
    BY <1>1 DEF Parser!Begun, Parser!Under
  <1>6. Intact' /\ Clean'
    BY <1>1, <1>2, <1>4, <1>5 DEF ParserInv, Intact, Clean, InPlace
  <1> QED BY <1>1, <1>3, <1>6
          DEF ParserInv, CommandsFit, OnlyWhatWasSent, Parser!AlignedIsCarriedOut,
              Parser!WithinBuffer, Parser!OnlyWhatWasSent

LEMMA ParserLoses ==
    ASSUME ParserInv, NEW s \in Sources, Parser!Lose(s)
    PROVE  ParserInv'
  <1> DEFINE c == line[s].of
             k == line[s].next
  <1>1. /\ c # Parser!None /\ c \in Parser!Commands /\ k \in Nat \ {0} /\ k <= Len(Parser!Wire(c))
        /\ line[s] \in LineStates
    BY DEF ParserInv, ParserTypeOK, LineStates, Parser!Lose, Parser!Under
  <1>2. /\ upset' = upset \cup {"lost"} /\ result' = Parser!None
        /\ ended' = [of |-> Parser!None, intact |-> FALSE]
        /\ UNCHANGED <<pState, pCmd, pLen, pHave, pLenLo, pBuf>>
    BY DEF Parser!Lose, Parser!parserVars
  <1>3. line' \in [Sources -> {line'[t] : t \in Sources}] /\ \A t \in Sources : t # s => line'[t] = line[t]
    BY DEF Parser!Lose, ParserInv, ParserTypeOK
  <1>4. Len(Parser!Wire(c)) \in Nat
    BY <1>1, WireFacts, CommandFacts
  <1>5. /\ line'[s] \in LineStates /\ ~line'[s].intact
        /\ line'[s].of # Parser!None => line'[s].next <= Len(Parser!Wire(line'[s].of))
    <2>1. CASE k = Len(Parser!Wire(c))
      <3>1. line'[s] = Parser!Silent
        BY <2>1 DEF Parser!Lose, ParserInv, ParserTypeOK
      <3> QED BY <3>1 DEF Parser!Silent, LineStates
    <2>2. CASE k # Len(Parser!Wire(c))
      <3>1. line'[s] = [of |-> c, next |-> k + 1, heard |-> FALSE, intact |-> FALSE]
        BY <2>2 DEF Parser!Lose, ParserInv, ParserTypeOK
      <3> HIDE DEF c, k
      <3>2. k + 1 <= Len(Parser!Wire(c)) /\ k + 1 \in Nat \ {0}
        BY <1>1, <1>4, <2>2
      <3> QED BY <1>1, <3>1, <3>2 DEF LineStates
    <2> QED BY <2>1, <2>2
  <1> HIDE DEF c, k
  <1>6. ParserTypeOK'
    <2>1. line' \in [Sources -> LineStates]
      BY <1>2, <1>3, <1>5 DEF ParserInv, ParserTypeOK
    <2> QED BY <1>2, <1>3, <1>5, <2>1 DEF ParserInv, ParserTypeOK, Parser!Under
  <1>7. Intact'
    BY <1>2, <1>3, <1>5 DEF ParserInv, Intact, InPlace, Parser!Begun, Parser!Under
  <1>8. Clean' /\ OnlyWhatWasSent' /\ CommandsFit'
    BY <1>2 DEF ParserInv, Clean, OnlyWhatWasSent, Parser!OnlyWhatWasSent, CommandsFit,
                Parser!AlignedIsCarriedOut, Parser!WithinBuffer
  <1> QED BY <1>6, <1>7, <1>8 DEF ParserInv

LEMMA ParserFeeds ==
    ASSUME ParserInv, NEW s \in Sources, Parser!Feed(s)
    PROVE  ParserInv'
  <1> DEFINE mixed == \E t \in Sources \ {s} : Parser!Begun(t)
  <1>1. PICK c \in Parser!Commands, k \in Nat \ {0} :
          c = line[s].of /\ k = line[s].next /\ k <= Len(Parser!Wire(c)) /\ c # Parser!None
    BY DEF ParserInv, ParserTypeOK, LineStates, Parser!Feed, Parser!Under
  <1> DEFINE heard == IF k = 1 THEN pState = "IDLE" ELSE line[s].heard
             intact == IF k = 1 THEN heard ELSE line[s].intact
             last == k = Len(Parser!Wire(c))
             before == IF k = 1 /\ pState = "IDLE" /\ ~mixed THEN {} ELSE upset
  <1>2. /\ Parser!FeedParser(Parser!Wire(c)[k])
        /\ line' = [t \in Sources |->
                      IF t = s
                      THEN IF last THEN Parser!Silent
                           ELSE [of |-> c, next |-> k + 1, heard |-> heard, intact |-> intact]
                      ELSE [line[t] EXCEPT !.intact = line[t].intact /\ line[t].next = 1]]
        /\ ended' = IF last /\ heard THEN [of |-> c, intact |-> intact]
                    ELSE [of |-> Parser!None, intact |-> FALSE]
        /\ upset' = before \cup (IF mixed THEN {"mixed"} ELSE {})
                          \cup (IF Parser!Valid(c) THEN {} ELSE {"size"})
    BY <1>1 DEF Parser!Feed
  <1>3. /\ k \in 1..Len(Parser!Wire(c)) /\ Parser!Wire(c)[k] \in Nat /\ Len(Parser!Wire(c)) \in Nat
        /\ heard \in BOOLEAN /\ intact \in BOOLEAN
    <2>1. Len(Parser!Wire(c)) \in Nat
      BY WireFacts, CommandFacts
    <2>2. k \in 1..Len(Parser!Wire(c))
      BY <1>1, <2>1
    <2>3. line[s].heard \in BOOLEAN /\ line[s].intact \in BOOLEAN
      BY DEF ParserInv, ParserTypeOK, LineStates
    <2> QED BY <2>1, <2>2, <2>3, WireFacts
  <1>4. /\ pState' \in {"IDLE", "NEED_LEN", "NEED_BODY"} /\ pLen' \in Nat /\ pHave' \in Nat
        /\ pLenLo' \in Nat /\ pBuf' \in Seq(Nat)
        /\ IF pState' = "NEED_BODY" THEN pLen' <= InBufSize ELSE pBuf' = <<>>
        /\ (Parser!WithinBuffer)'
    BY <1>2, <1>3, FeedsWithinBuffer DEF ParserInv, CommandsFit
  <1>5. ASSUME Parser!Valid(c), Ready(c, k)
        PROVE  /\ ~last => InPlace(c, k + 1)' /\ result' = Parser!None
               /\ last => pState' = "IDLE" /\ result' = c
    <2>1. k # Len(Parser!Wire(c)) => k < Len(Parser!Wire(c))
      BY <1>3
    <2> QED BY <1>2, <1>3, <1>5, <2>1, TakesItsByte DEF ParserInv
  <1> HIDE DEF heard, intact, last, before, mixed
  <1>6. /\ line'[s] = IF last THEN Parser!Silent
                      ELSE [of |-> c, next |-> k + 1, heard |-> heard, intact |-> intact]
        /\ \A t \in Sources \ {s} :
             line'[t] = [line[t] EXCEPT !.intact = line[t].intact /\ line[t].next = 1]
    BY <1>2
  <1>7. \A t \in Sources \ {s} :
          /\ line'[t] \in LineStates /\ line'[t].of = line[t].of /\ line'[t].next = line[t].next
          /\ line'[t].intact => line[t].next = 1
    <2> SUFFICES ASSUME NEW t \in Sources \ {s}
                 PROVE  /\ line'[t] \in LineStates /\ line'[t].of = line[t].of
                        /\ line'[t].next = line[t].next /\ (line'[t].intact => line[t].next = 1)
      OBVIOUS
    <2> DEFINE b == line[t].intact /\ line[t].next = 1
    <2>1. line[t] \in LineStates /\ b \in BOOLEAN /\ (b => line[t].next = 1)
      BY DEF ParserInv, ParserTypeOK
    <2>2. line'[t] = [line[t] EXCEPT !.intact = b]
      BY <1>6
    <2> HIDE DEF b
    <2> QED BY <2>1, <2>2, LineInterrupted
  <1>8. line'[s] \in LineStates
        /\ (line'[s].of # Parser!None => line'[s].next <= Len(Parser!Wire(line'[s].of)))
    <2>1. CASE last
      BY <1>6, <2>1 DEF Parser!Silent, LineStates
    <2>2. CASE ~last
      <3>1. k + 1 <= Len(Parser!Wire(c)) /\ k + 1 \in Nat \ {0}
        BY <1>3, <2>2 DEF last
      <3> QED BY <1>3, <1>6, <2>2, <3>1 DEF LineStates
    <2> QED BY <2>1, <2>2
  <1>9. ParserTypeOK'
    <2>1. line' \in [Sources -> LineStates]
      BY <1>2, <1>7, <1>8
    <2>2. ASSUME NEW t \in Sources, (Parser!Under(t))'
          PROVE  line'[t].next <= Len(Parser!Wire(line'[t].of))
      <3>1. CASE t = s
        BY <1>8, <2>2, <3>1 DEF Parser!Under
      <3>2. CASE t # s
        <4>1. line'[t].of = line[t].of /\ line'[t].next = line[t].next
          BY <1>7, <3>2
        <4>2. Parser!Under(t)
          BY <2>2, <4>1 DEF Parser!Under
        <4> QED BY <4>1, <4>2 DEF ParserInv, ParserTypeOK
      <3> QED BY <3>1, <3>2
    <2> QED BY <1>4, <2>1, <2>2 DEF ParserTypeOK
  <1>10. \A t \in Sources \ {s} : (Parser!Begun(t))' <=> Parser!Begun(t)
    BY <1>7 DEF Parser!Begun, Parser!Under
  <1>11. (Parser!Begun(s))' <=> ~last
    <2>1. CASE last
      BY <1>6, <2>1 DEF Parser!Begun, Parser!Under, Parser!Silent
    <2>2. CASE ~last
      <3>1. line'[s].of = c /\ line'[s].next = k + 1 /\ k + 1 > 1
        BY <1>1, <1>6, <2>2
      <3> QED BY <1>1, <2>2, <3>1 DEF Parser!Begun, Parser!Under
    <2> QED BY <2>1, <2>2
  <1>12. intact /\ Parser!Valid(c) => Ready(c, k)
    <2>1. CASE k = 1
      BY <2>1 DEF intact, heard, Ready
    <2>2. CASE k # 1
      <3>1. k > 1
        BY <1>1, <2>2
      <3>2. Parser!Begun(s) /\ (intact => line[s].intact)
        BY <1>1, <2>2, <3>1 DEF Parser!Begun, Parser!Under, intact
      <3> QED BY <1>1, <2>2, <3>2 DEF ParserInv, Intact, Ready
    <2> QED BY <2>1, <2>2
  <1>13. Intact'
    <2> SUFFICES ASSUME NEW t \in Sources, (Parser!Begun(t))', line'[t].intact,
                        Parser!Valid(line'[t].of)
                 PROVE  InPlace(line[t].of, line[t].next)'
      BY DEF Intact
    <2>1. CASE t = s
      <3>0. ~last
        BY <1>11, <2>1
      <3>1. line'[t].of = c /\ line'[t].next = k + 1 /\ (line'[t].intact => intact)
        BY <1>3, <1>6, <2>1, <3>0
      <3> QED BY <1>5, <1>12, <3>0, <3>1 DEF InPlace
    <2>2. CASE t # s
      <3>1. line'[t].next = 1
        BY <1>7, <2>2
      <3> QED BY <3>1 DEF Parser!Begun
    <2> QED BY <2>1, <2>2
  <1>14. CommandsFit'
    <2> SUFFICES ASSUME ended'.of # Parser!None, ended'.intact, Parser!Valid(ended'.of)
                 PROVE  result' = ended'.of
      BY <1>4 DEF CommandsFit, Parser!AlignedIsCarriedOut
    <2>1. last /\ ended'.of = c /\ ended'.intact = intact
      BY <1>2
    <2> QED BY <1>5, <1>12, <2>1
  <1>15. ASSUME upset' = {}
         PROVE  /\ ~mixed /\ Parser!Valid(c) /\ heard /\ Ready(c, k)
    <2>1. ~mixed /\ Parser!Valid(c) /\ before = {}
      BY <1>2, <1>15
    <2>2. CASE k = 1 /\ pState = "IDLE"
      BY <2>1, <2>2 DEF heard, Ready
    <2>3. CASE ~(k = 1 /\ pState = "IDLE")
      <3>1. upset = {}
        BY <2>1, <2>3 DEF before
      <3>2. CASE k = 1
        <4>1. \A t \in Sources : ~Parser!Begun(t)
          <5>1. ~Parser!Begun(s)
            BY <1>1, <3>2 DEF Parser!Begun
          <5>2. \A t \in Sources \ {s} : ~Parser!Begun(t)
            BY <2>1 DEF mixed
          <5> QED BY <5>1, <5>2
        <4> QED BY <2>3, <3>1, <3>2, <4>1 DEF ParserInv, Clean
      <3>3. CASE k # 1
        <4>1. Parser!Begun(s)
          BY <1>1, <3>3 DEF Parser!Begun, Parser!Under
        <4>2. line[s].heard /\ InPlace(c, k)
          BY <1>1, <3>1, <4>1 DEF ParserInv, Clean
        <4> QED BY <2>1, <3>3, <4>2 DEF heard, Ready
      <3> QED BY <3>2, <3>3
    <2> QED BY <2>2, <2>3
  <1>16. Clean'
    <2> SUFFICES ASSUME upset' = {}
                 PROVE  \/ pState' = "IDLE" /\ \A t \in Sources : ~(Parser!Begun(t))'
                        \/ /\ (Parser!Begun(s))' /\ line'[s].heard /\ Parser!Valid(line'[s].of)
                           /\ InPlace(line[s].of, line[s].next)'
                           /\ \A t \in Sources \ {s} : ~(Parser!Begun(t))'
      BY DEF Clean
    <2>1. \A t \in Sources \ {s} : ~(Parser!Begun(t))'
      BY <1>10, <1>15 DEF mixed
    <2>2. CASE last
      BY <1>5, <1>11, <1>15, <2>1, <2>2
    <2>3. CASE ~last
      <3>1. line'[s].of = c /\ line'[s].next = k + 1 /\ line'[s].heard = heard
        BY <1>6, <2>3
      <3> QED BY <1>5, <1>11, <1>15, <2>1, <2>3, <3>1 DEF InPlace
    <2> QED BY <2>2, <2>3
  <1>17. OnlyWhatWasSent'
    <2> SUFFICES ASSUME upset' = {}, result' # Parser!None PROVE result' = ended'.of
      BY DEF OnlyWhatWasSent, Parser!OnlyWhatWasSent
    <2>1. last /\ result' = c /\ heard
      BY <1>5, <1>15
    <2> QED BY <1>2, <2>1
  <1> QED BY <1>9, <1>13, <1>14, <1>16, <1>17 DEF ParserInv

LEMMA ParserInvariant == Parser!Spec => []ParserInv
  <1>1. Parser!Init => ParserInv
    <2> SUFFICES ASSUME Parser!Init PROVE ParserInv
      OBVIOUS
    <2>1. /\ pState = "IDLE" /\ pLen = 0 /\ pHave = 0 /\ pBuf = <<>>
          /\ line = [s \in Sources |-> Parser!Silent] /\ result = Parser!None
          /\ ended = [of |-> Parser!None, intact |-> FALSE] /\ upset = {}
      BY DEF Parser!Init
    <2>2. Parser!Silent \in LineStates /\ Parser!Silent.of = Parser!None
      BY DEF Parser!Silent, LineStates
    <2>3. ParserTypeOK
      <3>1. pState = "IDLE" /\ pLen \in Nat /\ pHave \in Nat /\ pBuf = <<>> /\ pBuf \in Seq(Nat)
            /\ pLenLo \in Nat
        BY <2>1, EmptySeq DEF Parser!Init
      <3>2. line \in [Sources -> LineStates] /\ \A s \in Sources : ~Parser!Under(s)
        BY <2>1, <2>2 DEF Parser!Under
      <3> QED BY <3>1, <3>2 DEF ParserTypeOK
    <2>4. \A s \in Sources : ~Parser!Begun(s)
      BY <2>1, <2>2 DEF Parser!Begun, Parser!Under
    <2> QED BY <2>1, <2>3, <2>4
            DEF ParserInv, Intact, Clean, CommandsFit, OnlyWhatWasSent, Parser!OnlyWhatWasSent,
                Parser!AlignedIsCarriedOut, Parser!WithinBuffer
  <1>2. ParserInv /\ [Parser!Next]_(Parser!vars) => ParserInv'
    <2>1. ParserInv /\ UNCHANGED Parser!vars => ParserInv'
      BY DEF Parser!vars, Parser!parserVars, ParserInv, ParserTypeOK, Intact, Clean, InPlace,
             Parser!Begun, Parser!Under, CommandsFit, OnlyWhatWasSent, Parser!OnlyWhatWasSent,
             Parser!AlignedIsCarriedOut, Parser!WithinBuffer
    <2> QED BY <2>1, ParserSends, ParserLoses, ParserFeeds DEF Parser!Next
  <1> QED BY <1>1, <1>2, PTL DEF Parser!Spec

\* feedParser carries out every valid command that meets an idle parser whole,
\* up to the longest, and stays within pBuf, whatever bytes come from where.
THEOREM ParserFits == PartsSpec => []CommandsFit
  <1>1. ParserInv => CommandsFit
    BY DEF ParserInv
  <1> QED BY <1>1, ParserInvariant, PartsRun, PTL

\* It carries out nothing that was not sent, unless bytes were lost, a body was
\* too long or sources got mixed since it was last idle at a command's start.
THEOREM ParserInventsNothing == PartsSpec => []OnlyWhatWasSent
  <1>1. ParserInv => OnlyWhatWasSent
    BY DEF ParserInv
  <1> QED BY <1>1, ParserInvariant, PartsRun, PTL

-----------------------------------------------------------------------------
(* The values in flash                                                     *)

\* A field and the value it is to get.
FlashWrites == Flash!Fields \X Nat

FlashTypeOK ==
    /\ nvs \in [Flash!Fields -> Nat] /\ ram \in [Flash!Fields -> Nat]
    /\ bootPc \in {"off", "boot", "idle", "AK", "HA", "WC"}
    /\ puts \in Seq(FlashWrites) /\ lastValue \in Nat \ {0}
    /\ wifiOk \in BOOLEAN /\ udpUp \in BOOLEAN
    /\ told \in [Flash!Fields -> SUBSET Nat]

\* Field f has still to be written.
Owed(f) == \E i \in 1..Len(puts) : puts[i][1] = f

\* While the board boots, what it has drawn is what it writes back, which changes
\* nothing the host knows of.
Booting ==
    /\ \A i \in 1..Len(puts) : puts[i][2] = ram[puts[i][1]]
    /\ \A f \in Flash!Fields : nvs[f] = ram[f] \/ Owed(f)
    /\ \A f \in Flash!Fields : told[f] # {} => nvs[f] = ram[f]
    /\ \A f \in Flash!Secrets : ram[f] # 0

\* While a command is carried out, only the fields it touches are written, with
\* the value the host has sent.
Saving ==
    /\ \A i \in 1..Len(puts) : puts[i][1] \in Flash!Touched(bootPc) /\ puts[i][2] = lastValue
    /\ \A f \in Flash!Touched(bootPc) :
         /\ nvs[f] = lastValue \/ Owed(f)
         /\ lastValue \in told[f] /\ (bootPc # "WC" => ram[f] = lastValue)
    /\ \A f \in Flash!Fields \ Flash!Touched(bootPc) :
         nvs[f] = ram[f] /\ (f \in Flash!Secrets => told[f] = {ram[f]})

FlashInv ==
    /\ FlashTypeOK
    /\ StoredIsExpected
    /\ \A f \in Flash!Secrets : 0 \notin told[f]
    /\ \A f \in Flash!Fields \ Flash!Secrets : told[f] # {}
    /\ wifiOk => udpUp
    /\ bootPc \in {"off", "idle"} => puts = <<>>
    /\ bootPc = "boot" => Booting
    /\ bootPc \in {"AK", "HA", "WC"} => Saving
    /\ RunsAsTold

LEMMA TouchedFields ==
    \A cmd \in {"AK", "HA", "WC"} : Flash!Touched(cmd) \subseteq Flash!Fields
  BY DEF Flash!Touched, Flash!Fields, Flash!Secrets, Flash!WifiFields

\* What is owed after the first write.
LEMMA OwedAfter ==
    ASSUME puts \in Seq(FlashWrites), puts # <<>>, puts' = Tail(puts)
    PROVE  /\ Head(puts) = puts[1] /\ puts[1] \in FlashWrites /\ Len(puts) >= 1
           /\ puts' \in Seq(FlashWrites)
           /\ \A i \in 1..Len(puts') : i + 1 \in 1..Len(puts) /\ puts'[i] = puts[i + 1]
           /\ \A f : Owed(f) => f = puts[1][1] \/ (Owed(f))'
  <1>1. /\ Len(puts) \in Nat /\ Len(puts) >= 1 /\ Head(puts) = puts[1]
        /\ puts' \in Seq(FlashWrites) /\ Len(puts') = Len(puts) - 1
        /\ \A i \in 1..Len(puts') : puts'[i] = puts[i + 1]
    BY HeadTailProperties, EmptySeq, LenProperties
  <1>2. puts[1] \in FlashWrites
    BY <1>1, ElementOfSeq
  <1>3. ASSUME NEW f, Owed(f), f # puts[1][1]
        PROVE  (Owed(f))'
    <2>1. PICK i \in 1..Len(puts) : puts[i][1] = f
      BY <1>3 DEF Owed
    <2>2. i - 1 \in 1..Len(puts') /\ puts'[i - 1] = puts[i]
      BY <1>1, <1>3, <2>1
    <2> QED BY <2>1, <2>2 DEF Owed
  <1> QED BY <1>1, <1>2, <1>3

\* The writes of a boot and of a command: each of their fields, once.
LEMMA WriteBackFacts ==
    ASSUME NEW values \in [Flash!Fields -> Nat]
    PROVE  LET w == Flash!WriteBack(values) IN
           /\ w \in Seq(FlashWrites)
           /\ \A i \in 1..Len(w) : w[i][2] = values[w[i][1]]
           /\ \A f \in Flash!Secrets : \E i \in 1..Len(w) : w[i][1] = f
  <1> DEFINE w == Flash!WriteBack(values)
  <1>1. /\ w = <<<<"udpkey", values["udpkey"]>>, <<"httpuser", values["httpuser"]>>,
                 <<"httppass", values["httppass"]>>>>
        /\ \A f \in Flash!Secrets : <<f, values[f]>> \in FlashWrites
    BY DEF Flash!WriteBack, FlashWrites, Flash!Fields, Flash!Secrets
  <1>2. w \in Seq(FlashWrites) /\ Len(w) = 3
    BY <1>1 DEF Flash!Secrets
  <1>3. w[1][1] = "udpkey" /\ w[2][1] = "httpuser" /\ w[3][1] = "httppass"
    BY <1>1
  <1>4. \A i \in 1..3 : w[i][2] = values[w[i][1]]
    BY <1>1
  <1> HIDE DEF w
  <1>5. QED BY <1>2, <1>3, <1>4 DEF w, Flash!Secrets

\* The writes w give the value v to the fields, and to no others.
GivesAll(w, fields, v) ==
    /\ w \in Seq(FlashWrites)
    /\ \A i \in 1..Len(w) : w[i][1] \in fields /\ w[i][2] = v
    /\ \A f \in fields : \E i \in 1..Len(w) : w[i][1] = f

LEMMA WritesFacts ==
    ASSUME NEW cmd \in {"AK", "HA", "WC"}, NEW v \in Nat
    PROVE  GivesAll(Flash!Writes(cmd, v), Flash!Touched(cmd), v)
  <1> \A f \in Flash!Fields : <<f, v>> \in FlashWrites
    BY DEF FlashWrites
  <1> USE DEF Flash!Fields, Flash!Secrets, Flash!WifiFields
  <1>1. CASE cmd = "AK"
    BY <1>1 DEF Flash!Writes, Flash!Touched, GivesAll
  <1>2. CASE cmd = "HA"
    <2> DEFINE w == <<<<"httpuser", v>>, <<"httppass", v>>>>
    <2>1. /\ w \in Seq(FlashWrites) /\ Len(w) = 2
          /\ w[1][1] = "httpuser" /\ w[1][2] = v /\ w[2][1] = "httppass" /\ w[2][2] = v
      OBVIOUS
    <2> HIDE DEF w
    <2>2. Flash!Writes(cmd, v) = w /\ Flash!Touched(cmd) = {"httpuser", "httppass"}
      BY <1>2 DEF Flash!Writes, Flash!Touched, w
    <2>3. GivesAll(w, {"httpuser", "httppass"}, v)
      <3>1. 1..Len(w) = {1, 2}
        BY <2>1
      <3> QED BY <2>1, <3>1 DEF GivesAll
    <2> QED BY <2>2, <2>3
  <1>3. CASE cmd = "WC"
    <2> DEFINE w == <<<<"ssid", v>>, <<"pass", v>>, <<"host", v>>>>
    <2>1. /\ w \in Seq(FlashWrites) /\ Len(w) = 3
          /\ w[1][1] = "ssid" /\ w[2][1] = "pass" /\ w[3][1] = "host"
          /\ w[1][2] = v /\ w[2][2] = v /\ w[3][2] = v
      OBVIOUS
    <2> HIDE DEF w
    <2>2. Flash!Writes(cmd, v) = w /\ Flash!Touched(cmd) = {"ssid", "pass", "host"}
      BY <1>3 DEF Flash!Writes, Flash!Touched, w
    <2>3. GivesAll(w, {"ssid", "pass", "host"}, v)
      <3>1. 1..Len(w) = {1, 2, 3}
        BY <2>1
      <3> QED BY <2>1, <3>1 DEF GivesAll
    <2> QED BY <2>2, <2>3
  <1> QED BY <1>1, <1>2, <1>3

LEMMA FlashBoot ==
    ASSUME FlashInv, Flash!Boot
    PROVE  FlashInv'
  <1> DEFINE drawn == [f \in Flash!Fields |->
                         IF f \in Flash!Secrets /\ Flash!Missing(f)
                         THEN (IF f = "httpuser" THEN Flash!Admin
                               ELSE lastValue + (IF f = "udpkey" THEN 1 ELSE 2))
                         ELSE nvs[f]]
  <1>1. /\ bootPc = "off" /\ bootPc' = "boot" /\ ram' = drawn
        /\ lastValue' = IF \E f \in Flash!Secrets : Flash!Missing(f) THEN lastValue + 2 ELSE lastValue
        /\ puts' = IF \E f \in Flash!Secrets : Flash!Missing(f) THEN Flash!WriteBack(drawn) ELSE <<>>
        /\ UNCHANGED <<nvs, wifiOk, udpUp, told>>
    BY DEF Flash!Boot
  <1>2. drawn \in [Flash!Fields -> Nat] /\ \A f \in Flash!Secrets : drawn[f] # 0
    BY DEF FlashInv, FlashTypeOK, Flash!Missing, Flash!Admin, Flash!Fields
  <1>3. \A f \in Flash!Fields : told[f] # {} => drawn[f] = nvs[f]
    BY DEF FlashInv, StoredIsExpected, Flash!StoredIsExpected, Flash!Missing, Flash!Fields
  <1>4. \A f \in Flash!Fields : f \notin Flash!Secrets \/ ~Flash!Missing(f) => drawn[f] = nvs[f]
    OBVIOUS
  <1> HIDE DEF drawn
  <1>5. puts' \in Seq(FlashWrites) /\ Booting'
    <2>1. CASE \E f \in Flash!Secrets : Flash!Missing(f)
      BY <1>1, <1>2, <1>3, <1>4, <2>1, WriteBackFacts DEF Booting, Owed
    <2>2. CASE ~\E f \in Flash!Secrets : Flash!Missing(f)
      BY <1>1, <1>2, <1>3, <1>4, <2>2 DEF Booting, Owed
    <2> QED BY <2>1, <2>2
  <1>6. FlashTypeOK'
    BY <1>1, <1>2, <1>5 DEF FlashInv, FlashTypeOK
  <1> QED BY <1>1, <1>5, <1>6
          DEF FlashInv, StoredIsExpected, Flash!StoredIsExpected, RunsAsTold, Flash!RunsAsTold

LEMMA FlashPut ==
    ASSUME FlashInv, Flash!Put
    PROVE  FlashInv'
  <1> DEFINE g == puts[1][1]
  <1>1. /\ puts # <<>> /\ puts' = Tail(puts) /\ nvs' = [nvs EXCEPT ![Head(puts)[1]] = Head(puts)[2]]
        /\ UNCHANGED <<ram, bootPc, wifiOk, udpUp, lastValue, told>>
    BY DEF Flash!Put
  <1>2. /\ Head(puts) = puts[1] /\ puts[1] \in FlashWrites /\ Len(puts) >= 1
        /\ puts' \in Seq(FlashWrites)
        /\ \A i \in 1..Len(puts') : i + 1 \in 1..Len(puts) /\ puts'[i] = puts[i + 1]
        /\ \A f : Owed(f) => f = g \/ (Owed(f))'
    BY <1>1, OwedAfter DEF FlashInv, FlashTypeOK
  <1>3. /\ g \in Flash!Fields /\ puts[1][2] \in Nat
        /\ nvs' \in [Flash!Fields -> Nat] /\ nvs'[g] = puts[1][2]
        /\ \A f \in Flash!Fields : f # g => nvs'[f] = nvs[f]
    BY <1>1, <1>2 DEF FlashWrites, FlashInv, FlashTypeOK
  <1>4. FlashTypeOK'
    BY <1>1, <1>2, <1>3 DEF FlashInv, FlashTypeOK
  <1> HIDE DEF g
  <1>5. CASE bootPc = "boot"
    <2>1. Booting /\ nvs'[g] = ram[g]
      BY <1>2, <1>3, <1>5 DEF FlashInv, Booting, g
    <2>2. Booting'
      BY <1>1, <1>2, <1>3, <2>1 DEF Booting
    <2>3. StoredIsExpected'
      BY <1>1, <1>3, <2>1 DEF FlashInv, StoredIsExpected, Flash!StoredIsExpected, Booting
    <2> QED BY <1>1, <1>4, <1>5, <2>2, <2>3 DEF FlashInv, RunsAsTold, Flash!RunsAsTold
  <1>6. CASE bootPc \in {"AK", "HA", "WC"}
    <2>1. Saving /\ nvs'[g] = lastValue /\ g \in Flash!Touched(bootPc)
      BY <1>2, <1>3, <1>6 DEF FlashInv, Saving, g
    <2>2. Saving'
      <3>1. \A i \in 1..Len(puts') : puts'[i][1] \in Flash!Touched(bootPc) /\ puts'[i][2] = lastValue
        BY <1>2, <2>1 DEF Saving
      <3>2. \A f \in Flash!Touched(bootPc) : nvs'[f] = lastValue \/ (Owed(f))'
        BY <1>2, <1>3, <1>6, <2>1, TouchedFields DEF Saving
      <3>3. \A f \in Flash!Fields \ Flash!Touched(bootPc) : nvs'[f] = nvs[f]
        BY <1>3, <2>1
      <3> QED BY <1>1, <2>1, <3>1, <3>2, <3>3 DEF Saving
    <2>3. StoredIsExpected'
      BY <1>1, <1>3, <2>1 DEF FlashInv, StoredIsExpected, Flash!StoredIsExpected, Saving
    <2> QED BY <1>1, <1>4, <1>6, <2>2, <2>3 DEF FlashInv, RunsAsTold, Flash!RunsAsTold
  <1>7. bootPc \notin {"off", "idle"}
    BY <1>1 DEF FlashInv
  <1> QED BY <1>5, <1>6, <1>7 DEF FlashInv, FlashTypeOK

\* Nothing owed: flash holds it all.
LEMMA NothingOwed ==
    ASSUME puts = <<>>
    PROVE  \A f : ~Owed(f)
  BY DEF Owed

LEMMA FlashBootDone ==
    ASSUME FlashInv, Flash!BootDone
    PROVE  FlashInv'
  <1>1. /\ bootPc = "boot" /\ puts = <<>> /\ bootPc' = "idle"
        /\ told' = [f \in Flash!Fields |-> IF f \in Flash!Secrets THEN {ram[f]} ELSE told[f]]
        /\ wifiOk' \in BOOLEAN /\ udpUp' = (udpUp \/ wifiOk')
        /\ UNCHANGED <<nvs, ram, puts, lastValue>>
    BY DEF Flash!BootDone, Flash!ConnectWifi, Flash!ListenWhenConnected
  <1>2. Booting /\ \A f \in Flash!Fields : nvs[f] = ram[f]
    BY <1>1, NothingOwed DEF FlashInv, Booting
  <1>3. nvs = ram
    BY <1>2 DEF FlashInv, FlashTypeOK
  <1>4. \A f \in Flash!Secrets : told'[f] = {ram[f]} /\ ram[f] # 0
    BY <1>1, <1>2 DEF Booting, Flash!Fields
  <1>5. FlashTypeOK'
    BY <1>1 DEF FlashInv, FlashTypeOK
  <1>6. StoredIsExpected'
    BY <1>1, <1>3 DEF FlashInv, StoredIsExpected, Flash!StoredIsExpected
  <1> QED BY <1>1, <1>3, <1>4, <1>5, <1>6 DEF FlashInv, RunsAsTold, Flash!RunsAsTold

LEMMA FlashPowerLoss ==
    ASSUME FlashInv, Flash!PowerLoss
    PROVE  FlashInv'
  <1>1. /\ bootPc' = "off" /\ ram' \in [Flash!Fields -> Nat] /\ puts' = <<>>
        /\ wifiOk' = FALSE /\ udpUp' = FALSE /\ UNCHANGED <<nvs, lastValue, told>>
    BY DEF Flash!PowerLoss, Flash!Nothing
  <1>2. FlashTypeOK'
    <2>1. puts' \in Seq(FlashWrites)
      BY <1>1, EmptySeq
    <2> QED BY <1>1, <2>1 DEF FlashInv, FlashTypeOK
  <1> QED BY <1>1, <1>2
          DEF FlashInv, StoredIsExpected, Flash!StoredIsExpected, RunsAsTold, Flash!RunsAsTold

LEMMA FlashCommand ==
    ASSUME FlashInv, NEW cmd \in {"AK", "HA", "WC"}, Flash!Command(cmd)
    PROVE  FlashInv'
  <1> DEFINE v == lastValue + 1
             touched == Flash!Touched(cmd)
  <1>1. /\ bootPc = "idle" /\ bootPc' = cmd /\ lastValue' = v /\ puts' = Flash!Writes(cmd, v)
        /\ ram' = IF cmd = "WC" THEN ram
                  ELSE [f \in Flash!Fields |-> IF f \in touched THEN v ELSE ram[f]]
        /\ told' = [f \in Flash!Fields |-> IF f \in touched THEN told[f] \cup {v} ELSE told[f]]
        /\ UNCHANGED <<nvs, wifiOk, udpUp>>
    BY DEF Flash!Command, Flash!Set
  <1>2. v \in Nat \ {0} /\ touched \subseteq Flash!Fields
    BY TouchedFields DEF FlashInv, FlashTypeOK
  <1> HIDE DEF v, touched
  <1>3. /\ puts' \in Seq(FlashWrites)
        /\ \A i \in 1..Len(puts') : puts'[i][1] \in touched /\ puts'[i][2] = v
        /\ \A f \in touched : (Owed(f))'
    <2>1. v \in Nat
      BY <1>2
    <2>2. GivesAll(puts', touched, v)
      BY <1>1, <2>1, WritesFacts DEF touched
    <2> QED BY <2>2 DEF GivesAll, Owed
  <1>4. FlashTypeOK'
    BY <1>1, <1>2, <1>3 DEF FlashInv, FlashTypeOK
  <1>5. ram = nvs /\ \A f \in Flash!Secrets : told[f] = {ram[f]}
    BY <1>1 DEF FlashInv, RunsAsTold, Flash!RunsAsTold
  <1>6. Saving'
    <2>1. touched = Flash!Touched(bootPc')
      BY <1>1 DEF touched
    <2>2. \A f \in touched : v \in told'[f] /\ (bootPc' # "WC" => ram'[f] = v)
      BY <1>1, <1>2
    <2>3. \A f \in Flash!Fields \ touched :
            nvs'[f] = ram'[f] /\ (f \in Flash!Secrets => told'[f] = {ram'[f]})
      BY <1>1, <1>5
    <2> QED BY <1>1, <1>3, <2>1, <2>2, <2>3 DEF Saving
  <1>7. StoredIsExpected' /\ \A f \in Flash!Secrets : 0 \notin told'[f]
    <2>1. \A f \in Flash!Fields : told[f] # {} => nvs[f] \in told[f]
      BY DEF FlashInv, StoredIsExpected, Flash!StoredIsExpected
    <2>2. \A f \in Flash!Secrets : told[f] # {} /\ f \in Flash!Fields
      BY <1>5 DEF Flash!Fields
    <2>3. \A f \in Flash!Fields : told[f] # {}
      BY <2>2 DEF FlashInv, Flash!Fields
    <2> QED BY <1>1, <1>2, <2>1, <2>2, <2>3 DEF FlashInv, StoredIsExpected, Flash!StoredIsExpected
  <1> QED BY <1>1, <1>4, <1>6, <1>7 DEF FlashInv, RunsAsTold, Flash!RunsAsTold

LEMMA FlashCommandDone ==
    ASSUME FlashInv, Flash!CommandDone
    PROVE  FlashInv'
  <1> DEFINE touched == Flash!Touched(bootPc)
  <1>1. /\ bootPc \in {"AK", "HA", "WC"} /\ puts = <<>> /\ bootPc' = "idle"
        /\ told' = [f \in Flash!Fields |-> IF f \in touched THEN {lastValue} ELSE told[f]]
        /\ UNCHANGED <<nvs, puts, lastValue>>
    BY DEF Flash!CommandDone
  <1>2. /\ ram' = IF bootPc = "WC"
                  THEN [f \in Flash!Fields |-> IF f \in Flash!WifiFields THEN lastValue ELSE ram[f]]
                  ELSE ram
        /\ wifiOk' \in BOOLEAN /\ udpUp' \in BOOLEAN /\ (wifiOk' => udpUp')
    BY DEF Flash!CommandDone, Flash!Set, Flash!ConnectWifi, Flash!ListenWhenConnected, FlashInv,
           FlashTypeOK
  <1>3. touched \subseteq Flash!Fields /\ (bootPc = "WC" => touched = Flash!WifiFields)
    BY <1>1, TouchedFields DEF Flash!Touched
  <1> HIDE DEF touched
  <1>4. /\ \A f \in touched : nvs[f] = lastValue /\ (bootPc # "WC" => ram[f] = lastValue)
        /\ \A f \in Flash!Fields \ touched :
             nvs[f] = ram[f] /\ (f \in Flash!Secrets => told[f] = {ram[f]})
    BY <1>1, NothingOwed DEF FlashInv, Saving, touched
  <1>5. FlashTypeOK'
    BY <1>1, <1>2 DEF FlashInv, FlashTypeOK
  <1>6. \A f \in Flash!Fields : ram'[f] = nvs[f]
    BY <1>2, <1>3, <1>4
  <1>7. ram' = nvs'
    BY <1>1, <1>5, <1>6 DEF FlashTypeOK
  <1>8. \A f \in Flash!Secrets : told'[f] = {ram'[f]}
    <2>1. \A f \in Flash!Secrets : f \in Flash!Fields /\ f \notin Flash!WifiFields
      BY DEF Flash!Fields, Flash!Secrets, Flash!WifiFields
    <2> QED BY <1>1, <1>2, <1>3, <1>4, <1>6, <2>1
  <1>9. /\ \A f \in Flash!Fields : told'[f] # {} => nvs'[f] \in told'[f]
        /\ \A f \in Flash!Secrets : 0 \notin told'[f]
        /\ \A f \in Flash!Fields \ Flash!Secrets : told'[f] # {}
    BY <1>1, <1>4
       DEF FlashInv, FlashTypeOK, StoredIsExpected, Flash!StoredIsExpected, Flash!Fields
  <1> QED BY <1>1, <1>2, <1>5, <1>7, <1>8, <1>9
          DEF FlashInv, StoredIsExpected, Flash!StoredIsExpected, RunsAsTold, Flash!RunsAsTold

LEMMA FlashInvariant == Flash!Spec => []FlashInv
  <1>1. Flash!Init => FlashInv
    <2> SUFFICES ASSUME Flash!Init PROVE FlashInv
      OBVIOUS
    <2>1. /\ nvs \in [Flash!Fields -> Nat] /\ ram \in [Flash!Fields -> Nat] /\ bootPc = "off"
          /\ puts = <<>> /\ wifiOk = FALSE /\ udpUp = FALSE /\ lastValue = 1
          /\ \A f \in Flash!Fields : nvs[f] = 0
          /\ told = [f \in Flash!Fields |-> IF f \in Flash!Secrets THEN {} ELSE {0}]
      BY DEF Flash!Init, Flash!Nothing, Flash!Admin
    <2>2. FlashTypeOK
      <3>1. puts \in Seq(FlashWrites) /\ told \in [Flash!Fields -> SUBSET Nat]
        <4>1. \A f \in Flash!Fields : (IF f \in Flash!Secrets THEN {} ELSE {0}) \in SUBSET Nat
          OBVIOUS
        <4> QED BY <2>1, <4>1, EmptySeq
      <3>2. wifiOk \in BOOLEAN /\ udpUp \in BOOLEAN
        BY <2>1
      <3>3. bootPc \in {"off", "boot", "idle", "AK", "HA", "WC"} /\ lastValue \in Nat \ {0}
        BY <2>1
      <3> QED BY <2>1, <3>1, <3>2, <3>3 DEF FlashTypeOK
    <2>3. \A f \in Flash!Secrets : f \in Flash!Fields
      BY DEF Flash!Fields
    <2> QED BY <2>1, <2>2, <2>3
            DEF FlashInv, StoredIsExpected, Flash!StoredIsExpected, RunsAsTold, Flash!RunsAsTold
  <1>2. FlashInv /\ [Flash!Next]_(Flash!vars) => FlashInv'
    <2>1. FlashInv /\ UNCHANGED Flash!vars => FlashInv'
      BY DEF Flash!vars, FlashInv, FlashTypeOK, Owed, Booting, Saving, StoredIsExpected,
             Flash!StoredIsExpected, RunsAsTold, Flash!RunsAsTold
    <2> QED BY <2>1, FlashBoot, FlashPut, FlashBootDone, FlashPowerLoss, FlashCommand,
               FlashCommandDone
            DEF Flash!Next
  <1> QED BY <1>1, <1>2, PTL DEF Flash!Spec

\* At every moment, so whenever power is lost, flash holds values the host knows
\* of: printed or acknowledged ones, or what it has sent since.
THEOREM FlashIsExpected == PartsSpec => []StoredIsExpected
  <1>1. FlashInv => StoredIsExpected
    BY DEF FlashInv
  <1> QED BY <1>1, FlashInvariant, PartsRun, PTL

\* After any number of interrupted boots and commands a running board uses what
\* it has stored, the host was told it, and on the WiFi it listens.
THEOREM BoardRunsAsTold == PartsSpec => []RunsAsTold
  <1>1. FlashInv => RunsAsTold
    BY DEF FlashInv
  <1> QED BY <1>1, FlashInvariant, PartsRun, PTL

-----------------------------------------------------------------------------
(* The splitter of the serial driver                                       *)

Words == {Splitter!Hash, Splitter!NewLine, Splitter!Text, Splitter!Ok} \cup
         {Splitter!Announcement(n) : n \in 1..MaxBody}
Kinds == {"log", "frame", "ok", "noise"}
SymbolSet == [word : Words, of : Nat, at : Nat \ {0}, last : BOOLEAN, kind : Kinds]

\* What the board may write at a time.
Contents ==
    {[words |-> Splitter!Log, kind |-> "log"], [words |-> <<Splitter!Ok>>, kind |-> "ok"]}
    \cup {[words |-> Splitter!Frame(b), kind |-> "frame"] : b \in Splitter!BytesUpTo(MaxBody)}
    \cup {[words |-> w, kind |-> "noise"] : w \in Splitter!BytesUpTo(2)}

\* Symbol s is one of what the board has written, which is c.
Fits(c, s) ==
    LET x == c[s.of] IN
    /\ s.of \in 1..Len(c) /\ s.at \in 1..Len(x.words)
    /\ s.word = x.words[s.at] /\ s.kind = x.kind /\ (s.last <=> s.at = Len(x.words))

AllFit(c, q) == q \in Seq(SymbolSet) /\ \A i \in 1..Len(q) : Fits(c, q[i])

\* The splitter has followed the item it is being fed to the symbol fed last.
InStep(c) ==
    /\ fed.last => mode = "scan"
    /\ ~fed.last /\ fed.at = 1 => mode = "in-log" /\ Len(logLine) = 1
    /\ ~fed.last /\ fed.at = 2 => mode = "in-log" /\ Len(logLine) = 2 /\ logLine[2].word = fed.word
    /\ ~fed.last /\ fed.at > 2 =>
         /\ mode = "frame-body" /\ frameRemaining = Len(c[fed.of].words) - fed.at
         /\ Len(frameBuf) = fed.at - 3
         /\ \A i \in 1..(fed.at - 3) :
              frameBuf[i].kind = "frame" /\ frameBuf[i].of = fed.of /\ frameBuf[i].at = i + 3

SplitterTypeOK(c) ==
    /\ items \in Nat /\ c \in Seq(Contents) /\ Len(c) = items
    /\ AllFit(c, item) /\ AllFit(c, configBuffer) /\ AllFit(c, feeding)
    /\ fed \in SymbolSet /\ (fed.of = 0 \/ Fits(c, fed)) /\ (aligned => fed.of # 0)
    /\ logLine \in Seq(SymbolSet) /\ frameBuf \in Seq(SymbolSet)
    /\ mode \in {"scan", "in-log", "frame-body"} /\ (mode # "frame-body" => frameBuf = <<>>)

SplitterInv(c) ==
    /\ SplitterTypeOK(c)
    /\ aligned /\ fed.kind # "noise" => InStep(c)
    /\ torn = {} => (fed.last /\ mode = "scan") \/ (aligned /\ fed.kind # "noise")
    /\ AlignedFrameComesOut /\ OnlyReceivedFrames

-----------------------------------------------------------------------------

LEMMA WordFacts ==
    /\ Splitter!Text # Splitter!NewLine /\ Splitter!Ok # Splitter!Hash
    /\ Splitter!Hash # Splitter!NewLine
    /\ \A n : /\ Splitter!Announcement(n) # Splitter!NewLine
              /\ Splitter!Announcement(n) # Splitter!Text
              /\ Splitter!Announcement(n)[2] = n
  BY DEF Splitter!Text, Splitter!NewLine, Splitter!Ok, Splitter!Hash, Splitter!Announcement

LEMMA ByteSequences ==
    ASSUME NEW m \in Nat, NEW b \in Splitter!BytesUpTo(m)
    PROVE  b \in Seq(Words) /\ Len(b) \in 1..m
  <1>1. PICK k \in 1..m : b \in [1..k -> Splitter!Bytes]
    BY DEF Splitter!BytesUpTo
  <1>2. Splitter!Bytes \subseteq Words
    BY DEF Splitter!Bytes, Words
  <1>3. b \in [1..k -> Words] /\ k \in Nat
    BY <1>1, <1>2
  <1>4. b \in Seq(Words)
    BY <1>3, SeqDef
  <1>5. Len(b) = k
    BY <1>3, <1>4, LenProperties
  <1> QED BY <1>1, <1>4, <1>5

\* A line that announces nothing, a frame behind its announcement, or no line.
Described(x) ==
    /\ x.words \in Seq(Words) /\ Len(x.words) \in Nat \ {0} /\ x.kind \in Kinds
    /\ x.kind = "frame" => Len(x.words) > 3
    /\ x.kind # "noise" =>
         \/ Len(x.words) = 1 /\ x.words[1] # Splitter!Hash
         \/ /\ Len(x.words) >= 3 /\ x.words[1] = Splitter!Hash
            /\ x.words[2] # Splitter!NewLine /\ x.words[3] = Splitter!NewLine
            /\ Len(x.words) = 3 => x.words[2] = Splitter!Text
            /\ Len(x.words) > 3 => /\ x.kind = "frame" /\ Len(x.words) - 3 \in 1..MaxBody
                                   /\ x.words[2] = Splitter!Announcement(Len(x.words) - 3)

LEMMA ContentFacts ==
    ASSUME NEW x \in Contents
    PROVE  Described(x)
  <1> MaxBody \in Nat \ {0}
    BY SplitterAssumption
  <1>1. CASE x = [words |-> Splitter!Log, kind |-> "log"]
    <2>1. /\ Splitter!Log \in Seq(Words) /\ Len(Splitter!Log) = 3
          /\ Splitter!Log[1] = Splitter!Hash /\ Splitter!Log[2] = Splitter!Text
          /\ Splitter!Log[3] = Splitter!NewLine
      BY DEF Splitter!Log, Words
    <2>2. x.words = Splitter!Log /\ x.kind = "log"
      BY <1>1
    <2> HIDE <1>1
    <2>3. /\ x.words \in Seq(Words) /\ Len(x.words) = 3 /\ x.words[1] = Splitter!Hash
          /\ x.words[2] = Splitter!Text /\ x.words[3] = Splitter!NewLine
      BY <2>1, <2>2
    <2>4. x.words[2] # Splitter!NewLine /\ ~(Len(x.words) > 3) /\ Len(x.words) \in Nat \ {0}
      BY <2>3, WordFacts
    <2> QED BY <2>2, <2>3, <2>4 DEF Described, Kinds
  <1>2. CASE x = [words |-> <<Splitter!Ok>>, kind |-> "ok"]
    <2>1. <<Splitter!Ok>> \in Seq(Words) /\ Len(<<Splitter!Ok>>) = 1 /\ <<Splitter!Ok>>[1] = Splitter!Ok
      BY DEF Words
    <2> QED BY <1>2, <2>1, WordFacts DEF Described, Kinds
  <1>3. ASSUME NEW b \in Splitter!BytesUpTo(MaxBody), x = [words |-> Splitter!Frame(b), kind |-> "frame"]
        PROVE  Described(x)
    <2> DEFINE head == <<Splitter!Hash, Splitter!Announcement(Len(b)), Splitter!NewLine>>
               w == Splitter!Frame(b)
    <2>1. b \in Seq(Words) /\ Len(b) \in 1..MaxBody
      BY ByteSequences
    <2>2. /\ head \in Seq(Words) /\ Len(head) = 3 /\ head[1] = Splitter!Hash
          /\ head[2] = Splitter!Announcement(Len(b)) /\ head[3] = Splitter!NewLine
      <3>1. Splitter!Announcement(Len(b)) \in Words /\ Splitter!Hash \in Words /\ Splitter!NewLine \in Words
        BY <2>1 DEF Words
      <3> QED BY <3>1
    <2>3. w = head \o b
      BY DEF Splitter!Frame
    <2> HIDE DEF head, w
    <2>4. w \in Seq(Words) /\ Len(w) = Len(head) + Len(b) /\ \A i \in 1..Len(head) : w[i] = head[i]
      <3>1. head \in Seq(Words) /\ b \in Seq(Words)
        BY <2>1, <2>2
      <3>2. /\ head \o b \in Seq(Words) /\ Len(head \o b) = Len(head) + Len(b)
            /\ \A i \in 1..Len(head) : (head \o b)[i] = head[i]
        BY ONLY <3>1, ConcatParts
      <3> QED BY <2>3, <3>2
    <2>5. /\ Len(w) - 3 = Len(b) /\ Len(w) > 3 /\ w[1] = Splitter!Hash
          /\ w[2] = Splitter!Announcement(Len(b)) /\ w[3] = Splitter!NewLine
      BY <2>1, <2>2, <2>4
    <2>6. x.words = w /\ x.kind = "frame"
      BY <1>3 DEF w
    <2>7. /\ Len(w) \in Nat \ {0} /\ Len(w) >= 3 /\ Len(w) # 3 /\ Len(w) - 3 \in 1..MaxBody
          /\ w[2] = Splitter!Announcement(Len(w) - 3)
      BY <2>1, <2>2, <2>4, <2>5
    <2>8. w[2] # Splitter!NewLine
      BY <2>5, WordFacts
    <2> QED BY <2>4, <2>5, <2>6, <2>7, <2>8 DEF Described, Kinds
  <1>4. ASSUME NEW w \in Splitter!BytesUpTo(2), x = [words |-> w, kind |-> "noise"]
        PROVE  Described(x)
    BY <1>4, ByteSequences DEF Described, Kinds
  <1> QED BY <1>1, <1>2, <1>3, <1>4 DEF Contents

\* Sequences of symbols, shortened, put together and written on.
LEMMA FitsNothing == \A c : AllFit(c, <<>>)
  BY DEF AllFit

LEMMA FitsHead ==
    ASSUME NEW c, NEW q, AllFit(c, q), q # <<>>
    PROVE  Head(q) \in SymbolSet /\ Fits(c, Head(q)) /\ AllFit(c, Tail(q)) /\ AllFit(c, <<Head(q)>>)
  <1> USE DEF AllFit
  <1> DEFINE h == Head(q) t == Tail(q)
  <1>1. /\ Len(q) \in Nat \ {0} /\ h = q[1] /\ h \in SymbolSet
        /\ t \in Seq(SymbolSet) /\ Len(t) = Len(q) - 1
        /\ \A i \in 1..Len(t) : t[i] = q[i + 1]
    BY HeadTailProperties, EmptySeq, LenProperties
  <1>2. Fits(c, h)
    BY <1>1
  <1>3. <<h>> \in Seq(SymbolSet) /\ Len(<<h>>) = 1 /\ <<h>>[1] = h
    BY <1>1
  <1> HIDE DEF h, t
  <1>4. AllFit(c, t)
    <2> SUFFICES ASSUME NEW i \in 1..Len(t) PROVE Fits(c, t[i])
      BY <1>1
    <2>1. i + 1 \in 1..Len(q) /\ t[i] = q[i + 1]
      BY <1>1
    <2> QED BY <2>1
  <1>5. AllFit(c, <<h>>)
    BY <1>2, <1>3
  <1> QED BY <1>1, <1>2, <1>4, <1>5 DEF h, t

LEMMA FitsAppend ==
    ASSUME NEW c, NEW q, NEW s \in SymbolSet, AllFit(c, q), Fits(c, s)
    PROVE  AllFit(c, Append(q, s))
  <1> DEFINE a == Append(q, s)
  <1>1. /\ Len(q) \in Nat /\ a \in Seq(SymbolSet) /\ Len(a) = Len(q) + 1 /\ a[Len(q) + 1] = s
        /\ \A i \in 1..Len(q) : a[i] = q[i]
    BY AppendProperties, LenProperties DEF AllFit
  <1> HIDE DEF a
  <1>2. ASSUME NEW i \in 1..Len(a) PROVE Fits(c, a[i])
    <2>1. CASE i = Len(q) + 1
      BY <1>1, <2>1
    <2>2. CASE i # Len(q) + 1
      <3>1. i \in 1..Len(q)
        BY <1>1, <2>2
      <3> QED BY <1>1, <3>1 DEF AllFit
    <2> QED BY <2>1, <2>2
  <1> QED BY <1>1, <1>2 DEF AllFit, a

LEMMA FitsLonger ==
    ASSUME NEW c \in Seq(Contents), NEW x \in Contents
    PROVE  LET d == Append(c, x) IN
           /\ d \in Seq(Contents) /\ Len(d) = Len(c) + 1 /\ d[Len(c) + 1] = x
           /\ \A i \in 1..Len(c) : d[i] = c[i]
           /\ \A s : Fits(c, s) => Fits(d, s)
           /\ \A q : AllFit(c, q) => AllFit(d, q)
  <1> DEFINE d == Append(c, x)
  <1>1. /\ Len(c) \in Nat /\ d \in Seq(Contents) /\ Len(d) = Len(c) + 1 /\ d[Len(c) + 1] = x
        /\ \A i \in 1..Len(c) : d[i] = c[i]
    BY AppendProperties, LenProperties
  <1> HIDE DEF d
  <1>2. ASSUME NEW s, Fits(c, s) PROVE Fits(d, s)
    <2>1. s.of \in 1..Len(c) /\ s.of \in 1..Len(d) /\ d[s.of] = c[s.of]
      BY <1>1, <1>2 DEF Fits
    <2> QED BY <1>2, <2>1 DEF Fits
  <1>3. \A q : AllFit(c, q) => AllFit(d, q)
    BY <1>2 DEF AllFit
  <1> QED BY <1>1, <1>2, <1>3 DEF d

-----------------------------------------------------------------------------

\* The board begins an item, and there are symbols of one more.
LEMMA SplitterBegins ==
    ASSUME NEW c, SplitterInv(c), NEW x \in Contents,
           items' = items + 1, item' = Splitter!Symbols(x.words, items + 1, x.kind),
           UNCHANGED <<mode, logLine, frameRemaining, frameBuf, configBuffer, feeding,
                       out, fed, aligned, torn>>
    PROVE  \E d : SplitterInv(d)'
  <1> DEFINE d == Append(c, x)
             n == items + 1
  <1>1. /\ d \in Seq(Contents) /\ Len(d) = items + 1 /\ d[n] = x
        /\ \A i \in 1..Len(c) : d[i] = c[i]
        /\ \A s : Fits(c, s) => Fits(d, s)
        /\ \A q : AllFit(c, q) => AllFit(d, q)
    BY FitsLonger DEF SplitterInv, SplitterTypeOK
  <1>2. items \in Nat /\ n \in Nat \ {0}
    BY DEF SplitterInv, SplitterTypeOK
  <1>3. x.words \in Seq(Words) /\ Len(x.words) \in Nat \ {0} /\ x.kind \in Kinds
    BY ContentFacts DEF Described
  <1> HIDE DEF d, n
  <1>4. ASSUME NEW i \in 1..Len(x.words)
        PROVE  item'[i] \in SymbolSet /\ Fits(d, item'[i])
    <2> DEFINE b == i = Len(x.words)
    <2>1. item'[i] = [word |-> x.words[i], of |-> n, at |-> i, last |-> b, kind |-> x.kind]
      BY DEF Splitter!Symbols, n
    <2>2. b \in BOOLEAN /\ (b <=> i = Len(x.words)) /\ x.words[i] \in Words /\ i \in Nat \ {0}
      BY <1>3, ElementOfSeq
    <2> HIDE DEF b
    <2>3. item'[i] \in SymbolSet
      BY <1>2, <1>3, <2>1, <2>2 DEF SymbolSet
    <2>4. /\ item'[i].word = x.words[i] /\ item'[i].of = n /\ item'[i].at = i /\ item'[i].kind = x.kind
          /\ item'[i].last = b
      BY <2>1
    <2>5. n \in 1..Len(d)
      BY <1>1, <1>2 DEF n
    <2> QED BY <1>1, <2>2, <2>3, <2>4, <2>5 DEF Fits
  <1>5. AllFit(d, item')
    <2>1. item' = [i \in 1..Len(x.words) |-> item'[i]]
      BY DEF Splitter!Symbols
    <2>2. item' \in [1..Len(x.words) -> SymbolSet] /\ Len(x.words) \in Nat
      BY <1>3, <1>4, <2>1
    <2>3. item' \in Seq(SymbolSet) /\ Len(item') = Len(x.words)
      BY <2>2, SeqDef, LenProperties
    <2> QED BY <1>4, <2>3 DEF AllFit
  <1>6. SplitterTypeOK(d)'
    BY <1>1, <1>2, <1>5 DEF SplitterInv, SplitterTypeOK, n
  <1>7. aligned /\ fed.kind # "noise" => InStep(d)'
    <2> SUFFICES ASSUME aligned, fed.kind # "noise" PROVE InStep(d)'
      OBVIOUS
    <2>1. fed.of \in 1..Len(c) /\ InStep(c)
      BY DEF SplitterInv, SplitterTypeOK, Fits
    <2>2. d[fed.of] = c[fed.of]
      BY <1>1, <2>1
    <2> QED BY <2>1, <2>2 DEF InStep
  <1>8. SplitterInv(d)'
    BY <1>6, <1>7 DEF SplitterInv, AlignedFrameComesOut, Splitter!AlignedFrameComesOut,
                      OnlyReceivedFrames, Splitter!OnlyReceivedFrames, Splitter!IsReceived
  <1> QED BY <1>8

\* The splitter is fed the next symbol, and follows the item it is of if it has
\* so far, or if the item begins while the splitter scans.
LEMMA FollowsStart ==
    ASSUME NEW c, SplitterInv(c), NEW s \in SymbolSet, Fits(c, s), s.kind # "noise",
           s.at = 1, mode = "scan", fed' = s,
           Splitter!FeedBody(s) \/ Splitter!FeedLineEnd(s) \/ Splitter!FeedLine(s) \/ Splitter!FeedScan(s)
    PROVE  InStep(c)' /\ out' = <<>> /\ ~(s.last /\ s.kind = "frame")
  <1>1. Described(c[s.of])
    <2>1. c[s.of] \in Contents
      BY ElementOfSeq DEF SplitterInv, SplitterTypeOK, Fits
    <2> QED BY <2>1, ContentFacts
  <1>2. Splitter!FeedScan(s)
    BY DEF Splitter!FeedBody, Splitter!FeedLineEnd, Splitter!FeedLine
  <1> DEFINE words == c[s.of].words
  <1>3. s.word = words[1] /\ (s.last <=> Len(words) = 1) /\ s.kind = c[s.of].kind
    BY DEF Fits
  <1>4. out' = <<>>
    BY <1>2 DEF Splitter!FeedScan
  <1>5. CASE Len(words) = 1 /\ words[1] # Splitter!Hash
    <2>1. s.last /\ mode' = "scan"
      BY <1>2, <1>3, <1>5 DEF Splitter!FeedScan
    <2>2. s.kind # "frame"
      BY <1>1, <1>3, <1>5 DEF Described
    <2> QED BY <1>4, <2>1, <2>2 DEF InStep
  <1>6. CASE Len(words) >= 3 /\ words[1] = Splitter!Hash
    <2>1. ~s.last /\ mode' = "in-log" /\ logLine' = <<s>>
      BY <1>1, <1>2, <1>3, <1>6 DEF Splitter!FeedScan, Described
    <2>2. Len(logLine') = 1
      BY <2>1
    <2> QED BY <1>4, <2>1, <2>2 DEF InStep
  <1> QED BY <1>1, <1>3, <1>5, <1>6 DEF Described

LEMMA FollowsOn ==
    ASSUME NEW c, SplitterInv(c), NEW s \in SymbolSet, Fits(c, s), s.kind # "noise",
           aligned, fed.kind # "noise", fed.of = s.of, fed.at + 1 = s.at, fed' = s,
           Splitter!FeedBody(s) \/ Splitter!FeedLineEnd(s) \/ Splitter!FeedLine(s) \/ Splitter!FeedScan(s)
    PROVE  /\ InStep(c)'
           /\ s.last /\ s.kind = "frame" => out' # <<>>
           /\ out' # <<>> => (Splitter!IsReceived(out))'
  <1> DEFINE words == c[s.of].words
             n == Len(words)
             k == s.at
  <1>1. Described(c[s.of]) /\ InStep(c) /\ Fits(c, fed)
    <2>1. c[s.of] \in Contents
      BY ElementOfSeq DEF SplitterInv, SplitterTypeOK, Fits
    <2> QED BY <2>1, ContentFacts DEF SplitterInv, SplitterTypeOK
  <1>2. /\ s.word = words[k] /\ (s.last <=> k = n) /\ s.kind = c[s.of].kind /\ k \in 1..n
        /\ fed.word = words[k - 1] /\ ~fed.last /\ fed.at = k - 1 /\ n \in Nat /\ k > 1
    <2>1. s.word = words[k] /\ (s.last <=> k = n) /\ s.kind = c[s.of].kind /\ k \in 1..n
      BY DEF Fits
    <2>2. fed.word = words[fed.at] /\ (fed.last <=> fed.at = n) /\ fed.at \in 1..n
      BY <1>1 DEF Fits
    <2>3. n \in Nat
      BY <1>1 DEF Described
    <2>4. fed.at + 1 = k
      OBVIOUS
    <2> HIDE DEF words, n, k
    <2>5. fed.at = k - 1 /\ k > 1 /\ fed.at # n
      BY <2>1, <2>2, <2>3, <2>4
    <2> QED BY <2>1, <2>2, <2>3, <2>5
  <1>3. /\ n >= 3 /\ words[2] # Splitter!NewLine /\ words[3] = Splitter!NewLine
        /\ (n = 3 => words[2] = Splitter!Text /\ s.kind # "frame")
        /\ (n > 3 => /\ s.kind = "frame" /\ n - 3 \in 1..MaxBody
                     /\ words[2] = Splitter!Announcement(n - 3))
    <2>1. /\ s.kind = "frame" => n > 3
          /\ \/ n = 1
             \/ /\ n >= 3 /\ words[2] # Splitter!NewLine /\ words[3] = Splitter!NewLine
                /\ n = 3 => words[2] = Splitter!Text
                /\ n > 3 => /\ s.kind = "frame" /\ n - 3 \in 1..MaxBody
                            /\ words[2] = Splitter!Announcement(n - 3)
      <3>1. s.kind = c[s.of].kind
        BY <1>2
      <3> QED BY <1>1, <3>1 DEF Described
    <2> HIDE DEF words, n, k
    <2> QED BY <1>2, <2>1
  <1>4. logLine \in Seq(SymbolSet) /\ frameBuf \in Seq(SymbolSet) /\ (mode # "frame-body" => frameBuf = <<>>)
    BY DEF SplitterInv, SplitterTypeOK
  <1> HIDE DEF words, n, k
  <1>5. CASE k = 2
    <2>1. mode = "in-log" /\ Len(logLine) = 1
      BY <1>1, <1>2, <1>5 DEF InStep
    <2>2. s.word # Splitter!NewLine
      BY <1>2, <1>3, <1>5
    <2>3. mode' = "in-log" /\ logLine' = Append(logLine, s) /\ out' = <<>>
      BY <2>1, <2>2 DEF Splitter!FeedBody, Splitter!FeedLineEnd, Splitter!FeedLine, Splitter!FeedScan
    <2>4. Len(logLine') = 2 /\ logLine'[2] = s
      <3>1. Len(Append(logLine, s)) = Len(logLine) + 1 /\ Append(logLine, s)[Len(logLine) + 1] = s
        BY <1>4, AppendProperties
      <3> QED BY <2>1, <2>3, <3>1
    <2>5. ~s.last /\ s.at = 2
      BY <1>2, <1>3, <1>5 DEF k
    <2> QED BY <2>3, <2>4, <2>5 DEF InStep
  <1>6. CASE k = 3
    <2>1. mode = "in-log" /\ Len(logLine) = 2 /\ logLine[2].word = words[2]
      BY <1>1, <1>2, <1>6 DEF InStep
    <2>2. s.word = Splitter!NewLine
      BY <1>2, <1>3, <1>6
    <2>3. Splitter!FeedLineEnd(s)
      BY <2>1, <2>2 DEF Splitter!FeedBody, Splitter!FeedLine, Splitter!FeedScan
    <2>4. out' = <<>> /\ frameBuf' = <<>>
      BY <1>4, <2>1, <2>3 DEF Splitter!FeedLineEnd
    <2>5. CASE n = 3
      <3>1. ~Splitter!Announces(logLine)
        BY <1>3, <2>1, <2>5, WordFacts DEF Splitter!Announces
      <3>2. mode' = "scan" /\ s.last
        BY <1>2, <1>6, <2>3, <2>5, <3>1 DEF Splitter!FeedLineEnd
      <3> QED BY <1>3, <2>4, <2>5, <3>2 DEF InStep
    <2>6. CASE n # 3
      <3>1. Splitter!Announces(logLine) /\ Splitter!BodyLength(logLine) = n - 3
        BY <1>2, <1>3, <2>1, <2>6, WordFacts DEF Splitter!Announces, Splitter!BodyLength
      <3>2. mode' = "frame-body" /\ frameRemaining' = n - 3
        BY <2>3, <3>1 DEF Splitter!FeedLineEnd
      <3>3. ~s.last /\ s.at = 3 /\ Len(frameBuf') = 0
        BY <1>2, <1>6, <2>4, <2>6 DEF k
      <3> QED BY <2>4, <3>2, <3>3 DEF InStep, n, words
    <2> QED BY <2>5, <2>6
  <1>7. CASE k > 3
    <2>1. /\ mode = "frame-body" /\ frameRemaining = n - (k - 1) /\ Len(frameBuf) = k - 4
          /\ \A i \in 1..(k - 4) : frameBuf[i].kind = "frame" /\ frameBuf[i].of = s.of
                                   /\ frameBuf[i].at = i + 3
      <3>1. ~fed.last /\ fed.at > 2 /\ fed.at - 3 = k - 4
        BY <1>2, <1>7
      <3> QED BY <1>1, <1>2, <3>1 DEF InStep, n, words
    <2>2. Splitter!FeedBody(s)
      BY <2>1 DEF Splitter!FeedLineEnd, Splitter!FeedLine, Splitter!FeedScan
    <2>3. s.kind = "frame"
      BY <1>2, <1>3, <1>7
    <2> DEFINE a == Append(frameBuf, s)
    <2>4. /\ a # <<>> /\ Len(a) = k - 3 /\ a[k - 3] = s
          /\ \A i \in 1..(k - 3) : a[i].kind = "frame" /\ a[i].of = s.of /\ a[i].at = i + 3
      <3>1. /\ a \in Seq(SymbolSet) /\ Len(a) = Len(frameBuf) + 1 /\ a[Len(frameBuf) + 1] = s
            /\ \A i \in 1..Len(frameBuf) : a[i] = frameBuf[i]
        BY <1>4, AppendProperties
      <3> HIDE DEF a
      <3>2. Len(a) = k - 3 /\ a[k - 3] = s /\ \A i \in 1..(k - 4) : a[i] = frameBuf[i]
        BY <1>2, <2>1, <3>1
      <3>3. ASSUME NEW i \in 1..(k - 3)
            PROVE  a[i].kind = "frame" /\ a[i].of = s.of /\ a[i].at = i + 3
        <4>1. CASE i = k - 3
          BY <1>2, <2>3, <3>2, <4>1 DEF k
        <4>2. CASE i # k - 3
          <5>1. i \in 1..(k - 4)
            BY <1>2, <4>2
          <5> QED BY <2>1, <3>2, <5>1
        <4> QED BY <4>1, <4>2
      <3>4. a # <<>>
        BY <1>2, <1>7, <3>1, <3>2, EmptySeq
      <3> QED BY <3>2, <3>3, <3>4
    <2> HIDE DEF a
    <2>5. CASE k = n
      <3>1. mode' = "scan" /\ out' = a /\ s.last
        BY <1>2, <2>1, <2>2, <2>5 DEF Splitter!FeedBody, a
      <3>2. (Splitter!IsReceived(out))'
        <4>1. 1 \in 1..(k - 3)
          BY <1>2, <1>7
        <4> QED BY <2>4, <3>1, <4>1 DEF Splitter!IsReceived
      <3> QED BY <2>4, <3>1, <3>2 DEF InStep
    <2>6. CASE k # n
      <3>1. frameRemaining # 1 /\ ~s.last
        BY <1>2, <2>1, <2>6
      <3>2. mode' = "frame-body" /\ out' = <<>> /\ frameBuf' = a /\ frameRemaining' = frameRemaining - 1
        BY <2>1, <2>2, <3>1 DEF Splitter!FeedBody, a
      <3>3. frameRemaining' = n - k /\ s.at = k /\ s.at > 2
        BY <1>2, <1>7, <2>1, <3>2 DEF k
      <3> QED BY <2>4, <3>1, <3>2, <3>3 DEF InStep, n, words
    <2> QED BY <2>5, <2>6
  <1>8. k = 2 \/ k = 3 \/ k > 3
    BY <1>2
  <1> QED BY <1>5, <1>6, <1>7, <1>8

LEMMA SplitterFeeds ==
    ASSUME NEW c, SplitterInv(c), Splitter!Feed
    PROVE  SplitterInv(c)'
  <1> DEFINE s == Head(feeding)
             begins == s.at = 1 /\ mode = "scan"
             gap == IF s.at = 1 THEN ~fed.last ELSE fed.of # s.of \/ fed.at + 1 # s.at
  <1>1. /\ feeding # <<>> /\ feeding' = Tail(feeding) /\ fed' = s
        /\ Splitter!FeedBody(s) \/ Splitter!FeedLineEnd(s) \/ Splitter!FeedLine(s) \/ Splitter!FeedScan(s)
        /\ aligned' = (IF s.at = 1 THEN begins ELSE aligned /\ ~gap)
        /\ torn' = (IF begins THEN {} ELSE torn)
                   \cup (IF s.kind = "noise" THEN {"reset"} ELSE IF gap THEN {"retry"} ELSE {})
        /\ UNCHANGED <<item, items, configBuffer>>
    BY DEF Splitter!Feed, Splitter!boardVars
  <1>2. s \in SymbolSet /\ Fits(c, s) /\ AllFit(c, feeding')
    BY <1>1, FitsHead DEF SplitterInv, SplitterTypeOK
  <1> HIDE DEF s
  <1>3. s.of \in Nat /\ s.of # 0 /\ s.at \in Nat \ {0} /\ fed.of \in Nat /\ fed.at \in Nat
    BY <1>2 DEF SymbolSet, Fits, SplitterInv, SplitterTypeOK
  <1>4. SplitterTypeOK(c)'
    <2> USE DEF SplitterInv, SplitterTypeOK
    <2>1. Append(frameBuf, s) \in Seq(SymbolSet) /\ Append(logLine, s) \in Seq(SymbolSet)
          /\ <<s>> \in Seq(SymbolSet)
      BY <1>2, AppendProperties
    <2>2. /\ logLine' \in Seq(SymbolSet) /\ frameBuf' \in Seq(SymbolSet)
          /\ mode' \in {"scan", "in-log", "frame-body"}
          /\ (mode' # "frame-body" => frameBuf' = <<>>)
      BY <1>1, <2>1, EmptySeq
         DEF Splitter!FeedBody, Splitter!FeedLineEnd, Splitter!FeedLine, Splitter!FeedScan
    <2> QED BY <1>1, <1>2, <1>3, <2>2
  <1>5. ASSUME aligned', s.kind # "noise"
        PROVE  /\ InStep(c)'
               /\ s.last /\ s.kind = "frame" => out' # <<>>
               /\ out' # <<>> => (Splitter!IsReceived(out))'
    <2>1. CASE s.at = 1
      BY <1>1, <1>2, <1>5, <2>1, FollowsStart
    <2>2. CASE s.at # 1
      <3>1. aligned /\ fed.of = s.of /\ fed.at + 1 = s.at
        BY <1>1, <1>5, <2>2
      <3>2. fed.kind # "noise"
        BY <1>2, <1>3, <1>5, <3>1 DEF SplitterInv, SplitterTypeOK, Fits
      <3> QED BY <1>1, <1>2, <1>5, <3>1, <3>2, FollowsOn
    <2> QED BY <2>1, <2>2
  <1>6. torn' = {} => aligned' /\ s.kind # "noise"
    <2> SUFFICES ASSUME torn' = {}, ~begins PROVE aligned' /\ s.kind # "noise"
      BY <1>1
    <2>1. torn = {} /\ ~gap /\ s.kind # "noise"
      BY <1>1
    <2>2. CASE s.at = 1
      <3>1. fed.last /\ mode # "scan"
        BY <2>1, <2>2
      <3> QED BY <2>1, <3>1 DEF SplitterInv, InStep
    <2>3. CASE s.at # 1
      <3>1. fed.of = s.of /\ fed.at + 1 = s.at
        BY <2>1, <2>3
      <3>2. ~fed.last
        BY <1>2, <1>3, <3>1 DEF Fits, SplitterInv, SplitterTypeOK
      <3> QED BY <1>1, <2>1, <2>3, <3>2 DEF SplitterInv
    <2> QED BY <2>2, <2>3
  <1>7. AlignedFrameComesOut' /\ OnlyReceivedFrames'
    BY <1>1, <1>5, <1>6 DEF AlignedFrameComesOut, Splitter!AlignedFrameComesOut,
                            OnlyReceivedFrames, Splitter!OnlyReceivedFrames
  <1> QED BY <1>1, <1>4, <1>5, <1>6, <1>7 DEF SplitterInv


\* onSerialData hands on what came, and keeps it while it is configuring.
LEMMA SplitterReceives ==
    ASSUME NEW c, SplitterInv(c), Splitter!Receive
    PROVE  SplitterInv(c)'
  <1> DEFINE s == Head(item)
  <1>1. /\ item # <<>> /\ item' = Tail(item)
        /\ UNCHANGED <<items, mode, logLine, frameRemaining, frameBuf, out, fed, aligned, torn>>
        /\ \/ feeding' = <<s>> /\ UNCHANGED configBuffer
           \/ configBuffer' = Append(configBuffer, s) /\ UNCHANGED feeding
           \/ feeding' = configBuffer /\ configBuffer' = <<>>
    BY DEF Splitter!Receive, Splitter!splitterVars, Splitter!seenVars
  <1>2. /\ s \in SymbolSet /\ Fits(c, s) /\ AllFit(c, item') /\ AllFit(c, <<s>>)
        /\ AllFit(c, configBuffer) /\ AllFit(c, feeding)
    BY <1>1, FitsHead DEF SplitterInv, SplitterTypeOK
  <1> HIDE DEF s
  <1>3. AllFit(c, Append(configBuffer, s)) /\ AllFit(c, <<>>)
    BY <1>2, FitsAppend, FitsNothing
  <1>4. AllFit(c, feeding') /\ AllFit(c, configBuffer')
    BY <1>1, <1>2, <1>3
  <1>5. SplitterTypeOK(c)'
    BY <1>1, <1>2, <1>4 DEF SplitterInv, SplitterTypeOK
  <1> QED BY <1>1, <1>5 DEF SplitterInv, InStep, AlignedFrameComesOut, Splitter!AlignedFrameComesOut,
                            OnlyReceivedFrames, Splitter!OnlyReceivedFrames, Splitter!IsReceived

\* The other steps of driver and board leave the splitter alone.
LEMMA SplitterWaits ==
    ASSUME NEW c, SplitterInv(c), Splitter!SendConfigOnce \/ Splitter!Timeout \/ UNCHANGED Splitter!vars
    PROVE  SplitterInv(c)'
  <1>1. /\ UNCHANGED <<item, items, mode, logLine, frameRemaining, frameBuf, feeding, out, fed,
                       aligned, torn>>
        /\ configBuffer' \in {<<>>, configBuffer}
    BY DEF Splitter!SendConfigOnce, Splitter!Timeout, Splitter!vars, Splitter!boardVars,
           Splitter!splitterVars, Splitter!seenVars
  <1>2. AllFit(c, configBuffer')
    BY <1>1, FitsNothing DEF SplitterInv, SplitterTypeOK
  <1>3. SplitterTypeOK(c)'
    BY <1>1, <1>2 DEF SplitterInv, SplitterTypeOK
  <1> QED BY <1>1, <1>3 DEF SplitterInv, InStep, AlignedFrameComesOut, Splitter!AlignedFrameComesOut,
                            OnlyReceivedFrames, Splitter!OnlyReceivedFrames, Splitter!IsReceived

LEMMA SplitterWrites ==
    ASSUME NEW c, SplitterInv(c), Splitter!Write \/ Splitter!WriteOk \/ Splitter!Reset
    PROVE  \E d : SplitterInv(d)'
  <1>1. \E x \in Contents : Splitter!Begin(x.words, x.kind)
    <2>1. CASE Splitter!Begin(Splitter!Log, "log")
      <3> DEFINE x == [words |-> Splitter!Log, kind |-> "log"]
      <3>1. x \in Contents /\ x.words = Splitter!Log /\ x.kind = "log"
        BY DEF Contents
      <3> HIDE DEF x
      <3> QED BY <2>1, <3>1
    <2>2. CASE Splitter!Begin(<<Splitter!Ok>>, "ok")
      <3> DEFINE x == [words |-> <<Splitter!Ok>>, kind |-> "ok"]
      <3>1. x \in Contents /\ x.words = <<Splitter!Ok>> /\ x.kind = "ok"
        BY DEF Contents
      <3> HIDE DEF x
      <3> QED BY <2>2, <3>1
    <2>3. ASSUME NEW b \in Splitter!BytesUpTo(MaxBody), Splitter!Begin(Splitter!Frame(b), "frame")
          PROVE  \E x \in Contents : Splitter!Begin(x.words, x.kind)
      <3> DEFINE x == [words |-> Splitter!Frame(b), kind |-> "frame"]
      <3>1. x \in Contents /\ x.words = Splitter!Frame(b) /\ x.kind = "frame"
        BY DEF Contents
      <3> HIDE DEF x
      <3> QED BY <2>3, <3>1
    <2>4. ASSUME NEW w \in Splitter!BytesUpTo(2), Splitter!Begin(w, "noise")
          PROVE  \E x \in Contents : Splitter!Begin(x.words, x.kind)
      <3> DEFINE x == [words |-> w, kind |-> "noise"]
      <3>1. x \in Contents /\ x.words = w /\ x.kind = "noise"
        BY DEF Contents
      <3> HIDE DEF x
      <3> QED BY <2>4, <3>1
    <2> QED BY <2>1, <2>2, <2>3, <2>4 DEF Splitter!Write, Splitter!WriteOk, Splitter!Reset
  <1>2. PICK x \in Contents : Splitter!Begin(x.words, x.kind)
    BY <1>1
  <1>3. UNCHANGED <<mode, logLine, frameRemaining, frameBuf, configBuffer, feeding, out, fed,
                    aligned, torn>>
    BY DEF Splitter!Write, Splitter!WriteOk, Splitter!Reset, Splitter!splitterVars, Splitter!seenVars
  <1> QED BY <1>2, <1>3, SplitterBegins DEF Splitter!Begin

SplitterFollows == \E c : SplitterInv(c)

LEMMA SplitterInvariant == Splitter!Spec => []SplitterFollows
  <1>1. Splitter!Init => SplitterFollows
    <2> SUFFICES ASSUME Splitter!Init PROVE SplitterInv(<<>>)
      BY DEF SplitterFollows
    <2> USE DEF Splitter!Init, Splitter!NothingFed
    <2>1. fed \in SymbolSet
      <3>1. Splitter!Text \in Words /\ "noise" \in Kinds
        BY DEF Words, Kinds
      <3> QED BY <3>1 DEF SymbolSet
    <2>2. SplitterTypeOK(<<>>)
      <3>1. <<>> \in Seq(Contents) /\ Len(<<>>) = 0 /\ <<>> \in Seq(SymbolSet)
        BY EmptySeq
      <3>2. AllFit(<<>>, item) /\ AllFit(<<>>, configBuffer) /\ AllFit(<<>>, feeding)
        BY FitsNothing
      <3>3. fed.of = 0 /\ ~aligned
        OBVIOUS
      <3>4. items = 0 /\ logLine = <<>> /\ frameBuf = <<>> /\ mode = "scan"
        OBVIOUS
      <3> HIDE DEF Splitter!Init
      <3> QED BY <2>1, <3>1, <3>2, <3>3, <3>4 DEF SplitterTypeOK
    <2> QED BY <2>2 DEF SplitterInv, AlignedFrameComesOut, Splitter!AlignedFrameComesOut,
                        OnlyReceivedFrames, Splitter!OnlyReceivedFrames
  <1>2. SplitterFollows /\ [Splitter!Next]_(Splitter!vars) => SplitterFollows'
    <2> SUFFICES ASSUME NEW c, SplitterInv(c), [Splitter!Next]_(Splitter!vars)
                 PROVE  \E d : SplitterInv(d)'
      BY DEF SplitterFollows
    <2>1. CASE Splitter!Feed
      BY <2>1, SplitterFeeds
    <2>2. CASE Splitter!Receive
      BY <2>2, SplitterReceives
    <2>3. CASE Splitter!SendConfigOnce \/ Splitter!Timeout \/ UNCHANGED Splitter!vars
      BY <2>3, SplitterWaits
    <2>4. CASE Splitter!Write \/ Splitter!WriteOk \/ Splitter!Reset
      BY <2>4, SplitterWrites
    <2> QED BY <2>1, <2>2, <2>3, <2>4 DEF Splitter!Next
  <1> QED BY <1>1, <1>2, PTL DEF Splitter!Spec

\* The splitter lets a frame that begins between two items come out whole, however
\* long it is, whatever it contains and whatever came before.
THEOREM AlignedFramesComeOut == PartsSpec => []AlignedFrameComesOut
  <1>1. SplitterFollows => AlignedFrameComesOut
    BY DEF SplitterFollows, SplitterInv
  <1> QED BY <1>1, SplitterInvariant, PartsRun, PTL

\* It lets nothing else come out, unless a reset or a repeated attempt tore a
\* frame, and then only until the next item that begins in 'scan'.
THEOREM NothingElseComesOut == PartsSpec => []OnlyReceivedFrames
  <1>1. SplitterFollows => OnlyReceivedFrames
    BY DEF SplitterFollows, SplitterInv
  <1> QED BY <1>1, SplitterInvariant, PartsRun, PTL

-----------------------------------------------------------------------------
(* The bodies of the configuration commands                                *)

\* Body b has the length of t at offset off, and t behind it.
Stands(b, off, t) ==
    /\ off + 1 + Len(t) <= Len(b) /\ b[off + 1] = Len(t)
    /\ \A i \in 1..Len(t) : b[off + 1 + i] = t[i]

LEMMA PrefixedStands ==
    ASSUME NEW t \in Seq(Nat)
    PROVE  /\ Config!Prefixed(t) \in Seq(Nat) /\ Len(Config!Prefixed(t)) = Len(t) + 1
           /\ Stands(Config!Prefixed(t), 0, t)
  <1> DEFINE n == Len(t)
             head == <<n>>
             b == Config!Prefixed(t)
  <1>1. n \in Nat
    BY LenProperties
  <1>2. head \in Seq(Nat) /\ Len(head) = 1 /\ head[1] = n
    BY <1>1
  <1>3. b = head \o t
    BY DEF Config!Prefixed
  <1> HIDE DEF b, head
  <1>4. /\ b \in Seq(Nat) /\ Len(b) = Len(head) + Len(t)
        /\ \A i \in 1..Len(head) : b[i] = head[i]
        /\ \A i \in 1..Len(t) : b[Len(head) + i] = t[i]
    <2>1. head \in Seq(Nat)
      BY <1>2
    <2> HIDE DEF n
    <2> QED BY <1>3, <2>1, ConcatParts
  <1>5. Len(b) = n + 1 /\ b[1] = n /\ \A i \in 1..n : b[1 + i] = t[i]
    <2> HIDE DEF n
    <2>1. Len(b) = 1 + Len(t) /\ b[1] = head[1] /\ \A i \in 1..Len(t) : b[1 + i] = t[i]
      BY <1>2, <1>4
    <2> QED BY <1>1, <1>2, <2>1 DEF n
  <1>6. 0 + 1 = 1 /\ 0 + 1 + n <= n + 1
    BY <1>1
  <1> QED BY <1>4, <1>5, <1>6 DEF Stands, b

LEMMA StandsBefore ==
    ASSUME NEW b \in Seq(Nat), NEW z \in Seq(Nat), NEW off \in Nat, NEW t \in Seq(Nat),
           Stands(b, off, t)
    PROVE  Stands(b \o z, off, t)
  <1> DEFINE c == b \o z
             n == Len(t)
  <1>1. /\ c \in Seq(Nat) /\ Len(c) = Len(b) + Len(z) /\ \A i \in 1..Len(b) : c[i] = b[i]
    BY ConcatParts
  <1>2. Len(b) \in Nat /\ Len(z) \in Nat /\ n \in Nat
    BY LenProperties
  <1>3. off + 1 + n <= Len(b) /\ b[off + 1] = n /\ \A i \in 1..n : b[off + 1 + i] = t[i]
    BY DEF Stands
  <1> HIDE DEF c, n
  <1>4. off + 1 + n <= Len(c) /\ off + 1 \in 1..Len(b) /\ \A i \in 1..n : off + 1 + i \in 1..Len(b)
    <2>1. off + 1 + n <= Len(b) /\ Len(c) = Len(b) + Len(z)
      BY <1>1, <1>3
    <2> QED BY ONLY <1>2, <2>1, off \in Nat
  <1>5. c[off + 1] = n /\ \A i \in 1..n : c[off + 1 + i] = t[i]
    BY <1>1, <1>3, <1>4
  <1> QED BY <1>4, <1>5 DEF Stands, c, n

LEMMA StandsAfter ==
    ASSUME NEW a \in Seq(Nat), NEW b \in Seq(Nat), NEW t \in Seq(Nat), Stands(b, 0, t)
    PROVE  Stands(a \o b, Len(a), t)
  <1> DEFINE c == a \o b
             n == Len(t)
             m == Len(a)
  <1>1. /\ c \in Seq(Nat) /\ Len(c) = m + Len(b) /\ \A i \in 1..Len(b) : c[m + i] = b[i]
    BY ConcatParts
  <1>2. Len(b) \in Nat /\ m \in Nat /\ n \in Nat
    BY LenProperties
  <1>3. 0 + 1 + n <= Len(b) /\ b[0 + 1] = n /\ \A i \in 1..n : b[0 + 1 + i] = t[i]
    BY DEF Stands
  <1> HIDE DEF c, n, m
  <1>4. m + 1 + n <= Len(c) /\ c[m + 1] = n
    <2>1. 0 + 1 + n <= Len(b) /\ Len(c) = m + Len(b)
      BY <1>1, <1>3
    <2>2. m + 1 + n <= Len(c) /\ 1 \in 1..Len(b) /\ 0 + 1 = 1
      BY ONLY <1>2, <2>1
    <2> QED BY <1>1, <1>3, <2>2
  <1>5. ASSUME NEW i \in 1..n PROVE c[m + 1 + i] = t[i]
    <2>1. 1 + i \in 1..Len(b) /\ m + 1 + i = m + (1 + i) /\ 0 + 1 + i = 1 + i
      BY <1>2, <1>3
    <2> QED BY <1>1, <1>3, <2>1
  <1> QED BY <1>4, <1>5 DEF Stands, c, n, m

FieldIs(b, off, t, spare) ==
    LET f == Config!Field(b, off, spare) IN
    /\ f.next = off + 1 + Len(t) /\ f.text = t
    /\ f.ok <=> off + 1 + Len(t) + spare <= Len(b)
    /\ Config!ByteAt(b, off) = Len(t)

\* A handler reads the string that stands at an offset.
LEMMA FieldReads ==
    ASSUME NEW b \in Seq(Nat), NEW off \in Nat, NEW t \in Seq(Nat), NEW spare \in Nat,
           Stands(b, off, t)
    PROVE  FieldIs(b, off, t, spare)
  <1> DEFINE n == Len(t)
             m == off + 2
             u == SubSeq(b, m, off + 1 + n)
  <1>1. Len(b) \in Nat /\ n \in Nat
    BY LenProperties
  <1>2. off + 1 + n <= Len(b) /\ b[off + 1] = n /\ \A i \in 1..n : b[off + 1 + i] = t[i]
    BY DEF Stands
  <1>3. Config!ByteAt(b, off) = n
    <2>1. off < Len(b)
      <3> HIDE DEF n
      <3> QED BY <1>1, <1>2
    <2> QED BY <1>2, <2>1 DEF Config!ByteAt
  <1>4. u = t
    <2> HIDE DEF n
    <2>1. \A i \in m..(off + 1 + n) : b[i] \in Nat
      <3> SUFFICES ASSUME NEW i \in m..(off + 1 + n) PROVE b[i] \in Nat
        OBVIOUS
      <3>1. i \in 1..Len(b)
        BY <1>1, <1>2
      <3> QED BY <3>1, ElementOfSeq
    <2>2. m \in Int /\ off + 1 + n \in Int /\ m <= off + 1 + n + 1
      BY <1>1
    <2>3. /\ u \in Seq(Nat) /\ Len(u) = n
          /\ \A i \in 1..n : u[i] = b[m + i - 1]
      <3>1. /\ u \in Seq(Nat)
            /\ Len(u) = IF m <= off + 1 + n THEN (off + 1 + n) - m + 1 ELSE 0
            /\ \A i \in 1..((off + 1 + n) - m + 1) : u[i] = b[m + i - 1]
        BY <2>1, <2>2, SubSeqProperties
      <3>2. (off + 1 + n) - m + 1 = n /\ (~(m <= off + 1 + n) => n = 0)
        BY <1>1
      <3> HIDE DEF u, m
      <3> QED BY <3>1, <3>2
    <2> HIDE DEF u
    <2>4. \A i \in 1..n : u[i] = t[i]
      <3> SUFFICES ASSUME NEW i \in 1..n PROVE u[i] = t[i]
        OBVIOUS
      <3>1. m + i - 1 = off + 1 + i
        BY <1>1
      <3> QED BY <1>2, <2>3, <3>1
    <2> QED BY <2>3, <2>4, SeqEqual DEF n
  <1> HIDE DEF n, m
  <1> QED BY <1>1, <1>2, <1>3, <1>4 DEF FieldIs, Config!Field, n, m


\* Where the driver puts the strings of a body.
LEMMA WifiLayout ==
    ASSUME NEW s \in Seq(Nat), NEW p \in Seq(Nat), NEW h \in Seq(Nat)
    PROVE  LET b == Config!BuildWifi(s, p, h) IN
           /\ b \in Seq(Nat) /\ Len(b) = Len(s) + Len(p) + Len(h) + 3
           /\ Stands(b, 0, s) /\ Stands(b, Len(s) + 1, p) /\ Stands(b, Len(s) + Len(p) + 2, h)
  <1> DEFINE x == Config!Prefixed(s) y == Config!Prefixed(p) z == Config!Prefixed(h)
             b == Config!BuildWifi(s, p, h)
  <1>1. /\ x \in Seq(Nat) /\ Len(x) = Len(s) + 1 /\ Stands(x, 0, s)
        /\ y \in Seq(Nat) /\ Len(y) = Len(p) + 1 /\ Stands(y, 0, p)
        /\ z \in Seq(Nat) /\ Len(z) = Len(h) + 1 /\ Stands(z, 0, h)
        /\ Len(s) \in Nat /\ Len(p) \in Nat /\ Len(h) \in Nat
    BY PrefixedStands, LenProperties
  <1>2. b = (x \o y) \o z
    BY DEF Config!BuildWifi
  <1> HIDE DEF x, y, z, b
  <1>3. /\ x \o y \in Seq(Nat) /\ Len(x \o y) = Len(x) + Len(y)
        /\ Stands(x \o y, 0, s) /\ Stands(x \o y, Len(x), p)
    <2>1. x \o y \in Seq(Nat) /\ Len(x \o y) = Len(x) + Len(y)
      BY <1>1, ConcatParts
    <2>2. 0 \in Nat
      OBVIOUS
    <2>3. Stands(x \o y, 0, s)
      BY <1>1, <2>2, StandsBefore
    <2>4. Stands(x \o y, Len(x), p)
      BY <1>1, StandsAfter
    <2> QED BY <2>1, <2>3, <2>4
  <1>4. /\ b \in Seq(Nat) /\ Len(b) = Len(x \o y) + Len(z)
        /\ Stands(b, 0, s) /\ Stands(b, Len(x), p) /\ Stands(b, Len(x \o y), h)
    <2>1. b \in Seq(Nat) /\ Len(b) = Len(x \o y) + Len(z)
      BY <1>1, <1>2, <1>3, ConcatParts
    <2>2. Stands(b, Len(x \o y), h)
      BY <1>1, <1>2, <1>3, StandsAfter
    <2>3. Len(x) \in Nat /\ 0 \in Nat
      BY <1>1
    <2>4. Stands(b, 0, s) /\ Stands(b, Len(x), p)
      BY <1>1, <1>2, <1>3, <2>3, StandsBefore
    <2> QED BY <2>1, <2>2, <2>4
  <1>5. Len(x) = Len(s) + 1 /\ Len(x \o y) = Len(s) + Len(p) + 2
    BY <1>1, <1>3
  <1>6. Len(b) = Len(s) + Len(p) + Len(h) + 3
    BY <1>1, <1>4, <1>5
  <1> QED BY <1>4, <1>5, <1>6 DEF b

LEMMA HttpLayout ==
    ASSUME NEW u \in Seq(Nat), NEW p \in Seq(Nat)
    PROVE  LET b == Config!BuildHttp(u, p) IN
           /\ b \in Seq(Nat) /\ Len(b) = Len(u) + Len(p) + 2
           /\ Stands(b, 0, u) /\ Stands(b, Len(u) + 1, p)
  <1> DEFINE x == Config!Prefixed(u) y == Config!Prefixed(p)
             b == Config!BuildHttp(u, p)
  <1>1. /\ x \in Seq(Nat) /\ Len(x) = Len(u) + 1 /\ Stands(x, 0, u)
        /\ y \in Seq(Nat) /\ Len(y) = Len(p) + 1 /\ Stands(y, 0, p)
        /\ Len(u) \in Nat /\ Len(p) \in Nat
    BY PrefixedStands, LenProperties
  <1>2. b = x \o y
    BY DEF Config!BuildHttp
  <1> HIDE DEF x, y, b
  <1>3. /\ b \in Seq(Nat) /\ Len(b) = Len(x) + Len(y)
        /\ Stands(b, 0, u) /\ Stands(b, Len(x), p)
    BY <1>1, <1>2, ConcatParts, StandsBefore, StandsAfter
  <1>4. Len(x) = Len(u) + 1 /\ Len(b) = Len(u) + Len(p) + 2
    BY <1>1, <1>3
  <1> QED BY <1>3, <1>4 DEF b

\* What the handlers make of the driver's bodies.
LEMMA WifiIsRead ==
    ASSUME NEW s \in Seq(Nat), NEW p \in Seq(Nat), NEW h \in Seq(Nat)
    PROVE  Config!ReadWifi(Config!BuildWifi(s, p, h)).texts = <<s, p, h>>
  <1> DEFINE b == Config!BuildWifi(s, p, h)
             i == Len(s) + 1
             j == Len(s) + Len(p) + 2
             fs == Config!Field(b, 0, 1)
             fp == Config!Field(b, i, 1)
             fh == Config!Field(b, j, 0)
  <1>1. /\ b \in Seq(Nat) /\ Len(b) = Len(s) + Len(p) + Len(h) + 3
        /\ Stands(b, 0, s) /\ Stands(b, i, p) /\ Stands(b, j, h)
    BY WifiLayout
  <1>2. Len(s) \in Nat /\ Len(p) \in Nat /\ Len(h) \in Nat
    BY LenProperties
  <1>3. i \in Nat /\ j \in Nat /\ 0 + 1 + Len(s) = i /\ i + 1 + Len(p) = j /\ Len(b) >= 3
    BY <1>1, <1>2
  <1>4. i + 1 <= Len(b) /\ j + 1 <= Len(b) /\ j + 1 + Len(h) + 0 <= Len(b)
    BY <1>1, <1>2
  <1> HIDE DEF b, i, j
  <1>5. fs.next = i /\ fs.ok /\ fs.text = s
    <2>1. FieldIs(b, 0, s, 1)
      BY <1>1, <1>3, FieldReads
    <2> QED BY <1>2, <1>3, <1>4, <2>1 DEF FieldIs
  <1>6. fp.next = j /\ fp.ok /\ fp.text = p
    <2>1. FieldIs(b, i, p, 1)
      BY <1>1, <1>3, FieldReads
    <2> QED BY <1>2, <1>3, <1>4, <2>1 DEF FieldIs
  <1>7. fh.ok /\ fh.text = h
    <2>1. FieldIs(b, j, h, 0)
      BY <1>1, <1>3, FieldReads
    <2> QED BY <1>2, <1>3, <1>4, <2>1 DEF FieldIs
  <1> HIDE DEF fs, fp, fh
  <1>8. /\ Config!Field(b, 0, Config!WifiSpare(1)) = fs
        /\ Config!Field(b, fs.next, Config!WifiSpare(2)) = fp
        /\ Config!Field(b, fp.next, Config!WifiSpare(3)) = fh
    BY <1>5, <1>6 DEF Config!WifiSpare, fs, fp, fh
  <1>9. Config!ReadWifi(b).texts = <<fs.text, fp.text, fh.text>>
    BY <1>3, <1>5, <1>6, <1>7, <1>8 DEF Config!ReadWifi
  <1> QED BY <1>5, <1>6, <1>7, <1>9 DEF b

LEMMA HttpIsRead ==
    ASSUME NEW u \in Seq(Nat), NEW p \in Seq(Nat), Len(u) \in 1..MaxCred, Len(p) \in 1..MaxCred
    PROVE  LET r == Config!ReadHttp(Config!BuildHttp(u, p)) IN r.ok /\ r.texts = <<u, p>>
  <1> DEFINE b == Config!BuildHttp(u, p)
             i == Len(u) + 1
             fu == Config!Field(b, 0, 1)
             fp == Config!Field(b, i, 0)
  <1>1. b \in Seq(Nat) /\ Len(b) = Len(u) + Len(p) + 2 /\ Stands(b, 0, u) /\ Stands(b, i, p)
    BY HttpLayout
  <1>2. Len(u) \in Nat /\ Len(p) \in Nat
    BY LenProperties
  <1>3. i \in Nat /\ 0 + 1 + Len(u) = i /\ Len(b) >= 2
    BY <1>1, <1>2
  <1>4. i + 1 <= Len(b) /\ i + 1 + Len(p) + 0 <= Len(b)
    BY <1>1, <1>2
  <1> HIDE DEF b, i
  <1>5. fu.next = i /\ fu.ok /\ fu.text = u /\ Config!CredFits(Config!ByteAt(b, 0))
    <2>1. FieldIs(b, 0, u, 1)
      BY <1>1, <1>3, FieldReads
    <2> QED BY <1>2, <1>3, <1>4, <2>1 DEF FieldIs, Config!CredFits
  <1>6. fp.ok /\ fp.text = p /\ Config!CredFits(Config!ByteAt(b, i))
    <2>1. FieldIs(b, i, p, 0)
      BY <1>1, <1>3, FieldReads
    <2> QED BY <1>2, <1>3, <1>4, <2>1 DEF FieldIs, Config!CredFits
  <1> HIDE DEF fu, fp
  <1>7. Config!Field(b, 0, 1) = fu /\ Config!Field(b, fu.next, 0) = fp
    BY <1>5 DEF fu, fp
  <1>8. Config!ReadHttp(b).ok /\ Config!ReadHttp(b).texts = <<fu.text, fp.text>>
    <2>1. ~(Len(b) < 2)
      BY <1>1, <1>2
    <2>2. fu.next = i /\ fu.ok /\ fp.ok /\ Config!CredFits(Config!ByteAt(b, 0))
          /\ Config!CredFits(Config!ByteAt(b, i))
      BY <1>5, <1>6
    <2> QED BY <1>7, <2>1, <2>2 DEF Config!ReadHttp
  <1> QED BY <1>5, <1>6, <1>8 DEF b

\* A string is read where it says it is, and what follows is in the body.
LEMMA FieldReaches ==
    ASSUME NEW b \in Seq(Nat), NEW off \in Nat, NEW spare \in Nat
    PROVE  LET f == Config!Field(b, off, spare) IN
           f.next \in Nat /\ f.reach = off + 1 /\ (f.ok => f.next + spare <= Len(b))
  <1> DEFINE n == Config!ByteAt(b, off)
             fits == off + 1 + n + spare <= Len(b)
  <1>1. n \in Nat /\ Len(b) \in Nat
    <2>1. Len(b) \in Nat
      BY LenProperties
    <2>2. CASE off < Len(b)
      <3>1. off + 1 \in 1..Len(b)
        BY <2>1, <2>2
      <3> QED BY <2>1, <2>2, <3>1, ElementOfSeq DEF Config!ByteAt
    <2>3. CASE ~(off < Len(b))
      BY <2>1, <2>3 DEF Config!ByteAt
    <2> QED BY <2>2, <2>3
  <1>2. /\ Config!Field(b, off, spare).next = off + 1 + n
        /\ Config!Field(b, off, spare).reach = off + 1
        /\ Config!Field(b, off, spare).ok <=> fits
    BY DEF Config!Field
  <1> HIDE DEF n
  <1> QED BY <1>1, <1>2

\* Whatever stands in a body, no handler looks behind its end.
LEMMA WifiReaches ==
    ASSUME NEW b \in Seq(Nat)
    PROVE  Config!ReadWifi(b).reach <= Len(b)
  <1> DEFINE fs == Config!Field(b, 0, Config!WifiSpare(1))
             fp == Config!Field(b, fs.next, Config!WifiSpare(2))
             fh == Config!Field(b, fp.next, Config!WifiSpare(3))
  <1>1. Len(b) \in Nat
    BY LenProperties
  <1>2. Config!WifiSpare(1) = 1 /\ Config!WifiSpare(2) = 1 /\ Config!WifiSpare(3) = 0
    BY DEF Config!WifiSpare
  <1>3. fs.next \in Nat /\ fs.reach = 1 /\ (fs.ok => fs.next + 1 <= Len(b))
    BY <1>2, FieldReaches
  <1> HIDE DEF fs
  <1>4. fp.next \in Nat /\ fp.reach = fs.next + 1 /\ (fp.ok => fp.next + 1 <= Len(b))
    <2>1. fs.next \in Nat /\ 1 \in Nat
      BY <1>3
    <2>2. fp = Config!Field(b, fs.next, 1)
      BY <1>2
    <2> HIDE DEF fp
    <2> QED BY <2>1, <2>2, FieldReaches
  <1> HIDE DEF fp
  <1>5. fh.reach = fp.next + 1
    <2>1. fp.next \in Nat /\ 0 \in Nat
      BY <1>4
    <2>2. fh = Config!Field(b, fp.next, 0)
      BY <1>2
    <2> HIDE DEF fh
    <2> QED BY <2>1, <2>2, FieldReaches
  <1> HIDE DEF fh
  <1>6. CASE Len(b) < 3
    BY <1>1, <1>6 DEF Config!ReadWifi, Config!Unread
  <1>7. CASE ~(Len(b) < 3)
    <2>1. Config!ReadWifi(b).reach = IF ~fs.ok THEN fs.reach ELSE IF ~fp.ok THEN fp.reach ELSE fh.reach
      BY <1>7 DEF Config!ReadWifi, Config!Unread, fs, fp, fh
    <2> QED BY <1>1, <1>3, <1>4, <1>5, <1>7, <2>1
  <1> QED BY <1>6, <1>7

LEMMA HttpReaches ==
    ASSUME NEW b \in Seq(Nat)
    PROVE  Config!ReadHttp(b).reach <= Len(b)
  <1> DEFINE fu == Config!Field(b, 0, 1)
             fp == Config!Field(b, fu.next, 0)
             fits == Config!CredFits(Config!ByteAt(b, 0))
  <1>1. Len(b) \in Nat
    BY LenProperties
  <1>2. fu.next \in Nat /\ fu.reach = 1 /\ (fu.ok => fu.next + 1 <= Len(b))
    BY FieldReaches
  <1> HIDE DEF fu
  <1>3. fp.reach = fu.next + 1
    BY <1>2, FieldReaches
  <1> HIDE DEF fp, fits
  <1>4. CASE Len(b) < 2
    BY <1>1, <1>4 DEF Config!ReadHttp, Config!Unread
  <1>5. CASE ~(Len(b) < 2)
    <2>1. Config!ReadHttp(b).reach = IF ~fu.ok \/ ~fits THEN fu.reach ELSE fp.reach
      BY <1>5 DEF Config!ReadHttp, Config!Unread, fu, fp, fits
    <2> QED BY <1>1, <1>2, <1>3, <1>5, <2>1
  <1> QED BY <1>4, <1>5

\* A radio's settings are read where the driver put them.
LEMMA SettingsLayout ==
    ASSUME NEW cfg \in Config!RadioConfigs
    PROVE  /\ LET b == Config!BuildTx(cfg) IN
              /\ b[2] = cfg.channel /\ b[7] = cfg.power /\ b[9] = cfg.bandwidth
              /\ b[10] = cfg.datarate /\ b[11] = cfg.coderate /\ b[12] = cfg.preambleLen
              /\ b[14] = cfg.crcOn
           /\ LET b == Config!BuildRx(cfg) IN
              /\ b[2] = cfg.channel /\ b[7] = cfg.bandwidth /\ b[8] = cfg.datarate
              /\ b[9] = cfg.coderate /\ b[11] = cfg.preambleLen /\ b[15] = cfg.crcOn
  BY DEF Config!BuildTx, Config!BuildRx

\* The codes of bandwidth, coding rate and CRC stand for what they are.
LEMMA CodesAreRead ==
    ASSUME NEW cfg \in Config!RadioConfigs
    PROVE  /\ Config!BandwidthKHz(cfg.bandwidth) = <<125, 250, 500>>[cfg.bandwidth + 1]
           /\ Config!CodingRate(cfg.coderate) - 4 = cfg.coderate
           /\ cfg.crcOn # 0 <=> cfg.crcOn = 1
  <1>1. cfg.bandwidth \in {0, 1, 2} /\ cfg.coderate \in 1..4 /\ cfg.crcOn \in {0, 1}
    BY DEF Config!RadioConfigs
  <1>2. Config!BandwidthKHz(cfg.bandwidth) = <<125, 250, 500>>[cfg.bandwidth + 1]
    <2>1. CASE cfg.bandwidth = 0
      BY <2>1 DEF Config!BandwidthKHz
    <2>2. CASE cfg.bandwidth = 1
      BY <2>2 DEF Config!BandwidthKHz
    <2>3. CASE cfg.bandwidth = 2
      BY <2>3 DEF Config!BandwidthKHz
    <2> QED BY <1>1, <2>1, <2>2, <2>3
  <1>3. Config!CodingRate(cfg.coderate) - 4 = cfg.coderate
    BY <1>1 DEF Config!CodingRate
  <1> QED BY <1>1, <1>2, <1>3

SettingsMatch(s, cfg) ==
    /\ s.freq = cfg.channel /\ s.sf = cfg.datarate /\ s.preambleLen = cfg.preambleLen
    /\ s.bwKHz = <<125, 250, 500>>[cfg.bandwidth + 1] /\ s.cr - 4 = cfg.coderate
    /\ s.crcOn = (cfg.crcOn = 1)

LEMMA TxIsRead ==
    ASSUME NEW cfg \in Config!RadioConfigs
    PROVE  LET s == Config!ReadTx(Config!BuildTx(cfg)) IN
           SettingsMatch(s, cfg) /\ s.power = cfg.power
  <1> DEFINE b == Config!BuildTx(cfg)
             on == b[14] # 0
             s == Config!ReadTx(b)
  <1>1. /\ s.freq = b[2] /\ s.power = b[7] /\ s.bwKHz = Config!BandwidthKHz(b[9]) /\ s.sf = b[10]
        /\ s.cr = Config!CodingRate(b[11]) /\ s.preambleLen = b[12] /\ s.crcOn = on
    BY DEF Config!ReadTx
  <1> HIDE DEF s, b
  <1> QED BY <1>1, SettingsLayout, CodesAreRead DEF SettingsMatch, s, b

LEMMA RxIsRead ==
    ASSUME NEW cfg \in Config!RadioConfigs
    PROVE  SettingsMatch(Config!ReadRx(Config!BuildRx(cfg)), cfg)
  <1> DEFINE b == Config!BuildRx(cfg)
             on == b[15] # 0
             s == Config!ReadRx(b)
  <1>1. /\ s.freq = b[2] /\ s.bwKHz = Config!BandwidthKHz(b[7]) /\ s.sf = b[8]
        /\ s.cr = Config!CodingRate(b[9]) /\ s.preambleLen = b[11] /\ s.crcOn = on
    BY DEF Config!ReadRx
  <1> HIDE DEF s, b
  <1> QED BY <1>1, SettingsLayout, CodesAreRead DEF SettingsMatch, s, b

-----------------------------------------------------------------------------

\* What was called, the body that was made of it, and what the handler made of
\* the body, if it has read it yet.
Called(call, made, reading) == given = call /\ body = made /\ got \in {Config!Unread, reading}

ConfigInv ==
    \/ given = <<"nothing">> /\ got = Config!Unread
    \/ \E s \in Texts, p \in Texts, h \in Texts :
         Called(<<"WC", s, p, h>>, Config!BuildWifi(s, p, h), Config!ReadWifi(Config!BuildWifi(s, p, h)))
    \/ \E u \in Texts, p \in Texts :
         /\ Len(u) \in 1..MaxCred /\ Len(p) \in 1..MaxCred
         /\ Called(<<"HA", u, p>>, Config!BuildHttp(u, p), Config!ReadHttp(Config!BuildHttp(u, p)))
    \/ \E cfg \in Config!RadioConfigs :
         \/ Called(<<"TC", cfg>>, Config!BuildTx(cfg), [settings |-> Config!ReadTx(Config!BuildTx(cfg))])
         \/ Called(<<"RC", cfg>>, Config!BuildRx(cfg), [settings |-> Config!ReadRx(Config!BuildRx(cfg))])
    \/ \E b \in RawBodies :
         \/ Called(<<"raw WC">>, b, Config!ReadWifi(b))
         \/ Called(<<"raw HA">>, b, Config!ReadHttp(b))

LEMMA ConfigCalls ==
    ASSUME ConfigInv, Config!Call
    PROVE  ConfigInv'
  <1>1. got = Config!Unread /\ got' = got
    BY DEF ConfigInv, Config!Call, Called
  <1>2. CASE \E s \in Texts, p \in Texts, h \in Texts :
               given' = <<"WC", s, p, h>> /\ body' = Config!BuildWifi(s, p, h)
    BY <1>1, <1>2 DEF ConfigInv, Called
  <1>3. CASE \E u \in Texts, p \in Texts :
               Config!HttpAccepted(u, p) /\ given' = <<"HA", u, p>> /\ body' = Config!BuildHttp(u, p)
    BY <1>1, <1>3 DEF ConfigInv, Called, Config!HttpAccepted
  <1>4. CASE \E cfg \in Config!RadioConfigs :
               \/ given' = <<"TC", cfg>> /\ body' = Config!BuildTx(cfg)
               \/ given' = <<"RC", cfg>> /\ body' = Config!BuildRx(cfg)
    BY <1>1, <1>4 DEF ConfigInv, Called
  <1>5. CASE \E b \in RawBodies, cmd \in {"raw WC", "raw HA"} : given' = <<cmd>> /\ body' = b
    BY <1>1, <1>5 DEF ConfigInv, Called
  <1> QED BY <1>2, <1>3, <1>4, <1>5 DEF Config!Call

LEMMA ConfigHandles ==
    ASSUME ConfigInv, Config!Handle
    PROVE  ConfigInv'
  <1>1. /\ given' = given /\ body' = body
        /\ \/ given[1] \in {"WC", "raw WC"} /\ got' = Config!ReadWifi(body)
           \/ given[1] \in {"HA", "raw HA"} /\ got' = Config!ReadHttp(body)
           \/ given[1] = "TC" /\ got' = [settings |-> Config!ReadTx(body)]
           \/ given[1] = "RC" /\ got' = [settings |-> Config!ReadRx(body)]
    BY DEF Config!Handle
  <1>2. CASE given = <<"nothing">>
    BY <1>1, <1>2
  <1>3. ASSUME NEW s \in Texts, NEW p \in Texts, NEW h \in Texts,
               given = <<"WC", s, p, h>>, body = Config!BuildWifi(s, p, h)
        PROVE  ConfigInv'
    <2>1. got' = Config!ReadWifi(body)
      BY <1>1, <1>3
    <2> QED BY <1>1, <1>3, <2>1 DEF ConfigInv, Called
  <1>4. ASSUME NEW u \in Texts, NEW p \in Texts, Len(u) \in 1..MaxCred, Len(p) \in 1..MaxCred,
               given = <<"HA", u, p>>, body = Config!BuildHttp(u, p)
        PROVE  ConfigInv'
    <2>1. got' = Config!ReadHttp(body)
      BY <1>1, <1>4
    <2> QED BY <1>1, <1>4, <2>1 DEF ConfigInv, Called
  <1>5. ASSUME NEW cfg \in Config!RadioConfigs, given = <<"TC", cfg>>, body = Config!BuildTx(cfg)
        PROVE  ConfigInv'
    <2>1. got' = [settings |-> Config!ReadTx(body)]
      BY <1>1, <1>5
    <2> QED BY <1>1, <1>5, <2>1 DEF ConfigInv, Called
  <1>6. ASSUME NEW cfg \in Config!RadioConfigs, given = <<"RC", cfg>>, body = Config!BuildRx(cfg)
        PROVE  ConfigInv'
    <2>1. got' = [settings |-> Config!ReadRx(body)]
      BY <1>1, <1>6
    <2> QED BY <1>1, <1>6, <2>1 DEF ConfigInv, Called
  <1>7. ASSUME NEW b \in RawBodies, given = <<"raw WC">>, body = b
        PROVE  ConfigInv'
    <2>1. got' = Config!ReadWifi(body)
      BY <1>1, <1>7
    <2> QED BY <1>1, <1>7, <2>1 DEF ConfigInv, Called
  <1>8. ASSUME NEW b \in RawBodies, given = <<"raw HA">>, body = b
        PROVE  ConfigInv'
    <2>1. got' = Config!ReadHttp(body)
      BY <1>1, <1>8
    <2> QED BY <1>1, <1>8, <2>1 DEF ConfigInv, Called
  <1> QED BY <1>2, <1>3, <1>4, <1>5, <1>6, <1>7, <1>8 DEF ConfigInv, Called

LEMMA TextsOfBytes == \A t \in Texts \cup RawBodies : t \in Seq(Nat)
  <1>1. 0..MaxText \subseteq Nat
    BY ConfigAssumption
  <1> QED BY <1>1, ConfigAssumption, SeqMonotonic

\* What the invariant says is what the properties ask for.
LEMMA ConfigReads == ConfigInv => BodiesAreRead
  <1> SUFFICES ASSUME ConfigInv, got # Config!Unread PROVE BodiesAreRead
    BY DEF BodiesAreRead, Config!BodiesAreRead, Config!ReadsWithinBody, Config!IsText,
           Config!TextsAreRead, Config!SettingsAreRead
  <1> USE DEF BodiesAreRead, Config!BodiesAreRead, Config!ReadsWithinBody, Config!IsText,
              Config!TextsAreRead, Config!SettingsAreRead
  <1>1. ASSUME NEW s \in Texts, NEW p \in Texts, NEW h \in Texts, given = <<"WC", s, p, h>>,
               body = Config!BuildWifi(s, p, h), got = Config!ReadWifi(body)
        PROVE  BodiesAreRead
    <2>1. s \in Seq(Nat) /\ p \in Seq(Nat) /\ h \in Seq(Nat)
      BY TextsOfBytes
    <2>2. got.texts = <<s, p, h>>
      BY <1>1, <2>1, WifiIsRead
    <2>3. got.reach <= Len(body)
      BY <1>1, <2>1, WifiLayout, WifiReaches
    <2>4. given[1] = "WC" /\ Tail(given) = <<s, p, h>>
      BY <1>1
    <2> QED BY <2>2, <2>3, <2>4
  <1>2. ASSUME NEW u \in Texts, NEW p \in Texts, Len(u) \in 1..MaxCred, Len(p) \in 1..MaxCred,
               given = <<"HA", u, p>>, body = Config!BuildHttp(u, p), got = Config!ReadHttp(body)
        PROVE  BodiesAreRead
    <2>1. u \in Seq(Nat) /\ p \in Seq(Nat)
      BY TextsOfBytes
    <2>2. got.ok /\ got.texts = <<u, p>>
      BY <1>2, <2>1, HttpIsRead
    <2>3. got.reach <= Len(body)
      BY <1>2, <2>1, HttpLayout, HttpReaches
    <2>4. given[1] = "HA" /\ Tail(given) = <<u, p>>
      BY <1>2
    <2> QED BY <2>2, <2>3, <2>4
  <1>3. ASSUME NEW cfg \in Config!RadioConfigs, given = <<"TC", cfg>>,
               got = [settings |-> Config!ReadTx(Config!BuildTx(cfg))]
        PROVE  BodiesAreRead
    <2> DEFINE s == Config!ReadTx(Config!BuildTx(cfg))
    <2>1. SettingsMatch(s, cfg) /\ s.power = cfg.power
      BY TxIsRead
    <2> HIDE DEF s
    <2>2. got = [settings |-> s]
      BY <1>3 DEF s
    <2>3. got.settings = s /\ given[1] = "TC" /\ given[2] = cfg /\ "texts" \notin DOMAIN got
      BY <1>3, <2>2
    <2> QED BY <2>1, <2>3 DEF SettingsMatch
  <1>4. ASSUME NEW cfg \in Config!RadioConfigs, given = <<"RC", cfg>>,
               got = [settings |-> Config!ReadRx(Config!BuildRx(cfg))]
        PROVE  BodiesAreRead
    <2> DEFINE s == Config!ReadRx(Config!BuildRx(cfg))
    <2>1. SettingsMatch(s, cfg)
      BY RxIsRead
    <2> HIDE DEF s
    <2>2. got = [settings |-> s]
      BY <1>4 DEF s
    <2>3. got.settings = s /\ given[1] = "RC" /\ given[2] = cfg /\ "texts" \notin DOMAIN got
      BY <1>4, <2>2
    <2> QED BY <2>1, <2>3 DEF SettingsMatch
  <1>5. ASSUME NEW b \in RawBodies, given[1] \in {"raw WC", "raw HA"}, body = b,
               got \in {Config!ReadWifi(b), Config!ReadHttp(b)}
        PROVE  BodiesAreRead
    BY <1>5, TextsOfBytes, WifiReaches, HttpReaches
  <1> HIDE DEF BodiesAreRead
  <1>6. ASSUME NEW b \in RawBodies, Called(<<"raw WC">>, b, Config!ReadWifi(b))
        PROVE  BodiesAreRead
    <2>1. body = b /\ given = <<"raw WC">> /\ got = Config!ReadWifi(b)
      BY <1>6 DEF Called
    <2>2. given[1] = "raw WC"
      BY <2>1
    <2> QED BY <1>5, <2>1, <2>2
  <1>7. ASSUME NEW b \in RawBodies, Called(<<"raw HA">>, b, Config!ReadHttp(b))
        PROVE  BodiesAreRead
    <2>1. body = b /\ given = <<"raw HA">> /\ got = Config!ReadHttp(b)
      BY <1>7 DEF Called
    <2>2. given[1] = "raw HA"
      BY <2>1
    <2> QED BY <1>5, <2>1, <2>2
  <1> QED BY <1>1, <1>2, <1>3, <1>4, <1>6, <1>7 DEF ConfigInv, Called

\* The handlers of "WC", "HA", "TC" and "RC" read what the driver was given,
\* whatever strings and settings those are, and never look behind the end of a
\* body, whatever bytes another host puts into it.
THEOREM HandlersRead == PartsSpec => []BodiesAreRead
  <1>1. Config!Init => ConfigInv
    BY DEF Config!Init, ConfigInv
  <1>2. ConfigInv /\ [Config!Next]_(Config!vars) => ConfigInv'
    <2> SUFFICES ASSUME ConfigInv, [Config!Next]_(Config!vars) PROVE ConfigInv'
      OBVIOUS
    <2>1. CASE Config!Again
      BY <2>1 DEF Config!Again, ConfigInv
    <2>2. CASE UNCHANGED Config!vars
      BY <2>2 DEF Config!vars, ConfigInv, Called
    <2> QED BY <2>1, <2>2, ConfigCalls, ConfigHandles DEF Config!Next
  <1> QED BY <1>1, <1>2, ConfigReads, PartsRun, PTL DEF Config!Spec

-----------------------------------------------------------------------------
(* The layers of the tunnel's payload                                      *)

Layers ==
    {<<"rohc">>, <<"unrohc">>, <<"zlib">>, <<"damage">>, <<"failed">>}
    \cup {<<"xor", key>> : key \in Keys}
    \cup {<<"aead", key, flags>> : key \in Keys, flags \in SUBSET Payload!Flags}

\* The outermost layer of p is l.
EndsWith(p, l) == p # <<>> /\ Payload!Last(p) = l

\* No two kinds of layers are the same.
LEMMA LayersDiffer ==
    /\ \A l, m \in {"rohc", "unrohc", "zlib", "damage", "failed"} : l # m => <<l>> # <<m>>
    /\ \A l, m, n, key : <<l>> # <<m, key>> /\ <<l>> # <<m, key, n>>
    /\ \A l, m, n, key, k : <<l, k>> # <<m, key, n>>
  OBVIOUS

LEMMA AppendLayer ==
    ASSUME NEW p \in Seq(Layers), NEW l \in Layers
    PROVE  /\ Append(p, l) \in Seq(Layers) /\ EndsWith(Append(p, l), l)
           /\ Payload!Front(Append(p, l)) = p
           /\ \A m : EndsWith(Append(p, l), m) => m = l
  <1> DEFINE a == Append(p, l)
  <1>1. /\ a \in Seq(Layers) /\ a # <<>> /\ Len(a) = Len(p) + 1 /\ Len(p) \in Nat
        /\ a[Len(p) + 1] = l /\ \A i \in 1..Len(p) : a[i] = p[i]
    BY AppendProperties, LenProperties
  <1> HIDE DEF a
  <1>2. /\ SubSeq(a, 1, Len(p)) \in Seq(Layers) /\ Len(SubSeq(a, 1, Len(p))) = Len(p)
        /\ \A i \in 1..Len(p) : SubSeq(a, 1, Len(p))[i] = a[i]
    <2>1. \A i \in 1..Len(p) : a[i] \in Layers
      BY <1>1, ElementOfSeq
    <2> QED BY <1>1, <2>1, SubSeqProperties
  <1>3. SubSeq(a, 1, Len(p)) = p
    BY <1>1, <1>2, SeqEqual
  <1> QED BY <1>1, <1>3 DEF EndsWith, Payload!Last, Payload!Front, a

\* What is left when the outermost layer is taken off.
LEMMA FrontLayer ==
    ASSUME NEW p \in Seq(Layers), p # <<>>
    PROVE  /\ Payload!Front(p) \in Seq(Layers) /\ Len(Payload!Front(p)) = Len(p) - 1
           /\ \A i \in 1..(Len(p) - 1) : Payload!Front(p)[i] = p[i]
  <1>0. Len(p) \in Nat /\ Len(p) >= 1
    BY EmptySeq, LenProperties
  <1>1. Len(p) \in Nat /\ \A i \in 1..(Len(p) - 1) : p[i] \in Layers
    BY <1>0, ElementOfSeq
  <1>2. Len(p) - 1 \in Int /\ 1 \in Int
    BY <1>1
  <1>3. /\ SubSeq(p, 1, Len(p) - 1) \in Seq(Layers)
        /\ Len(SubSeq(p, 1, Len(p) - 1)) = IF 1 <= Len(p) - 1 THEN (Len(p) - 1) - 1 + 1 ELSE 0
        /\ \A i \in 1..((Len(p) - 1) - 1 + 1) : SubSeq(p, 1, Len(p) - 1)[i] = p[1 + i - 1]
    BY <1>1, <1>2, SubSeqProperties
  <1>4. Len(SubSeq(p, 1, Len(p) - 1)) = Len(p) - 1
    <2>1. CASE 1 <= Len(p) - 1
      BY <1>1, <1>3, <2>1
    <2>2. CASE ~(1 <= Len(p) - 1)
      <3>1. Len(p) - 1 = 0
        <4> DEFINE n == Len(p)
        <4>1. n \in Nat /\ n >= 1 /\ ~(1 <= n - 1)
          BY <1>0, <2>2
        <4> HIDE DEF n
        <4>2. n - 1 = 0
          BY <4>1
        <4> QED BY <4>2 DEF n
      <3>2. SubSeq(p, 1, 0) = <<>>
        BY SubSeqEmpty
      <3> QED BY <3>1, <3>2
    <2> QED BY <2>1, <2>2
  <1>5. ASSUME NEW i \in 1..(Len(p) - 1) PROVE SubSeq(p, 1, Len(p) - 1)[i] = p[i]
    <2>1. i \in 1..((Len(p) - 1) - 1 + 1) /\ 1 + i - 1 = i
      BY <1>1
    <2> QED BY <1>3, <2>1
  <1> QED BY <1>3, <1>4, <1>5 DEF Payload!Front

LEMMA XorUndoes ==
    ASSUME NEW p \in Seq(Layers), NEW key \in Keys, ~EndsWith(p, <<"xor", key>>)
    PROVE  Payload!Xor(p, key) = Append(p, <<"xor", key>>) /\ Payload!Xor(Payload!Xor(p, key), key) = p
  <1>1. <<"xor", key>> \in Layers
    BY DEF Layers
  <1>2. Payload!Xor(p, key) = Append(p, <<"xor", key>>)
    BY DEF Payload!Xor, EndsWith
  <1> QED BY <1>1, <1>2, AppendLayer DEF Payload!Xor, EndsWith

LEMMA AppendedNoFailure ==
    ASSUME NEW p \in Seq(Layers), NEW l \in Layers, l # <<"failed">>
    PROVE  ~EndsWith(Append(p, l), <<"failed">>)
  BY AppendLayer

LEMMA StripUndoes ==
    ASSUME NEW p \in Seq(Layers), NEW l \in Layers
    PROVE  Payload!Strip(Append(p, l), l) = p
  BY AppendLayer DEF Payload!Strip, EndsWith

\* The layers of a payload: ROHC, zlib, XOR, AEAD.
Compressed(o, smaller) ==
    IF o.zlib /\ smaller THEN Append(Payload!ClearPayload(o), <<"zlib">>) ELSE Payload!ClearPayload(o)

Ciphered(o, smaller) ==
    IF o.cipher # NoKey THEN Payload!Xor(Compressed(o, smaller), o.cipher) ELSE Compressed(o, smaller)

LEMMA LayersOfPayload ==
    ASSUME NEW o \in Payload!Options, NEW smaller \in BOOLEAN
    PROVE  /\ Payload!ClearPayload(o) \in Seq(Layers) /\ Compressed(o, smaller) \in Seq(Layers)
           /\ \A key : ~EndsWith(Compressed(o, smaller), <<"xor", key>>)
           /\ Ciphered(o, smaller) \in Seq(Layers)
           /\ \A key, flags : ~EndsWith(Ciphered(o, smaller), <<"aead", key, flags>>)
           /\ Payload!WirePayload(o, smaller) =
                IF o.aead # NoKey
                THEN Append(Ciphered(o, smaller), <<"aead", o.aead, Payload!Aad(o, smaller)>>)
                ELSE Ciphered(o, smaller)
           /\ o.aead # NoKey => <<"aead", o.aead, Payload!Aad(o, smaller)>> \in Layers
           /\ Payload!WirePayload(o, smaller) \in Seq(Layers)
  <1> DEFINE clear == Payload!ClearPayload(o)
             zipped == Compressed(o, smaller)
             ciphered == Ciphered(o, smaller)
  <1>1. clear \in Seq(Layers) /\ (clear = <<>> \/ EndsWith(clear, <<"rohc">>))
    <2>1. <<>> \in Seq(Layers) /\ <<"rohc">> \in Layers
      BY EmptySeq DEF Layers
    <2>2. clear = <<>> \/ clear = Append(<<>>, <<"rohc">>)
      BY DEF Payload!ClearPayload, Payload!Packet
    <2> QED BY <2>1, <2>2, AppendLayer
  <1>2. /\ zipped \in Seq(Layers)
        /\ \A key : ~EndsWith(zipped, <<"xor", key>>)
        /\ \A key, flags : ~EndsWith(zipped, <<"aead", key, flags>>)
    <2>1. <<"zlib">> \in Layers
      BY DEF Layers
    <2>2. CASE zipped = clear
      BY <1>1, <2>2, LayersDiffer DEF EndsWith
    <2>3. CASE zipped = Append(clear, <<"zlib">>)
      BY <1>1, <2>1, <2>3, AppendLayer, LayersDiffer
    <2> QED BY <2>2, <2>3 DEF Compressed
  <1> HIDE DEF zipped
  <1>3. ciphered \in Seq(Layers) /\ \A key, flags : ~EndsWith(ciphered, <<"aead", key, flags>>)
    <2>1. CASE o.cipher = NoKey
      BY <1>2, <2>1 DEF Ciphered, zipped
    <2>2. CASE o.cipher # NoKey
      <3>1. o.cipher \in Keys /\ <<"xor", o.cipher>> \in Layers
        BY <2>2 DEF Payload!Options, Layers
      <3>2. ciphered = Append(zipped, <<"xor", o.cipher>>)
        BY <1>2, <2>2, <3>1, XorUndoes DEF Ciphered, zipped
      <3> QED BY <1>2, <3>1, <3>2, AppendLayer, LayersDiffer
    <2> QED BY <2>1, <2>2
  <1>4. Payload!WirePayload(o, smaller) =
          IF o.aead # NoKey THEN Append(ciphered, <<"aead", o.aead, Payload!Aad(o, smaller)>>)
          ELSE ciphered
    BY DEF Payload!WirePayload, Ciphered, Compressed
  <1>5. ASSUME o.aead # NoKey PROVE <<"aead", o.aead, Payload!Aad(o, smaller)>> \in Layers
    <2>1. o.aead \in Keys /\ Payload!Aad(o, smaller) \in SUBSET Payload!Flags
      BY <1>5 DEF Payload!Options, Payload!Aad
    <2> QED BY <2>1 DEF Layers
  <1> HIDE DEF ciphered
  <1>6. Payload!WirePayload(o, smaller) \in Seq(Layers)
    BY <1>3, <1>4, <1>5, AppendLayer
  <1> QED BY <1>1, <1>2, <1>3, <1>4, <1>5, <1>6 DEF zipped, ciphered

\* The receiver's steps undo the sender's, if it has the keys the sender used and
\* the header says what was done.
LEMMA Inflates ==
    ASSUME NEW o \in Payload!Options, NEW t \in Payload!Options, NEW smaller \in BOOLEAN, NEW f,
           f.flags = Payload!FrameFlags(o, smaller), f.wire = Payload!WirePayload(o, smaller),
           o.cipher \in {NoKey, t.cipher}, o.aead \in {NoKey, t.aead}
    PROVE  Payload!Inflated(t, f) = Payload!ClearPayload(o)
  <1> DEFINE clear == Payload!ClearPayload(o)
             zipped == Compressed(o, smaller)
             ciphered == Ciphered(o, smaller)
  <1>1. Payload!Opened(t, f) = ciphered
    <2>1. CASE o.aead = NoKey
      <3>1. "aead" \notin f.flags
        BY <2>1 DEF Payload!FrameFlags
      <3> QED BY <2>1, <3>1, LayersOfPayload DEF Payload!Opened
    <2>2. CASE o.aead # NoKey
      <3>1. "aead" \in f.flags /\ f.flags = Payload!Aad(o, smaller) /\ t.aead = o.aead
        BY <2>2 DEF Payload!FrameFlags, Payload!Aad, Payload!Flags
      <3> DEFINE seal == <<"aead", o.aead, f.flags>>
      <3>2. f.wire = Append(ciphered, seal) /\ ciphered \in Seq(Layers) /\ seal \in Layers
        BY <2>2, <3>1, LayersOfPayload
      <3> HIDE DEF ciphered, seal
      <3>3. Payload!Strip(f.wire, seal) = ciphered
        BY <3>2, StripUndoes
      <3> QED BY <2>2, <3>1, <3>3 DEF Payload!Opened, seal
    <2> QED BY <2>1, <2>2
  <1>2. zipped \in Seq(Layers) /\ clear \in Seq(Layers) /\ \A key : ~EndsWith(zipped, <<"xor", key>>)
        /\ \A p \in Seq(Layers) : ~EndsWith(p, <<"failed">>) => p # Payload!Failed
    <2>1. <<>> \in Seq(Layers) /\ <<"failed">> \in Layers /\ Payload!Failed = Append(<<>>, <<"failed">>)
      BY EmptySeq DEF Layers, Payload!Failed
    <2>2. EndsWith(Payload!Failed, <<"failed">>)
      BY <2>1, AppendLayer
    <2>3. /\ zipped \in Seq(Layers) /\ clear \in Seq(Layers)
          /\ \A key : ~EndsWith(zipped, <<"xor", key>>)
      BY LayersOfPayload
    <2> QED BY <2>2, <2>3
  <1>3. clear # Payload!Failed /\ zipped # Payload!Failed /\ ciphered # Payload!Failed
    <2>1. /\ ~EndsWith(clear, <<"failed">>) /\ ~EndsWith(zipped, <<"failed">>)
          /\ ~EndsWith(ciphered, <<"failed">>)
      <3>1. /\ <<"rohc">> \in Layers /\ <<"zlib">> \in Layers /\ <<>> \in Seq(Layers)
            /\ o.cipher # NoKey => <<"xor", o.cipher>> \in Layers /\ o.cipher \in Keys
        BY EmptySeq DEF Layers, Payload!Options
      <3>2. ~EndsWith(clear, <<"failed">>)
        <4>1. clear = <<>> \/ clear = Append(<<>>, <<"rohc">>)
          BY DEF Payload!ClearPayload, Payload!Packet
        <4> QED BY <3>1, <4>1, AppendLayer, LayersDiffer DEF EndsWith
      <3>3. ~EndsWith(zipped, <<"failed">>)
        <4>1. zipped = clear \/ zipped = Append(clear, <<"zlib">>)
          BY DEF Compressed
        <4> HIDE DEF zipped, clear
        <4>2. <<"zlib">> # <<"failed">>
          OBVIOUS
        <4> QED BY <1>2, <3>1, <3>2, <4>1, <4>2, AppendedNoFailure
      <3>4. ~EndsWith(ciphered, <<"failed">>)
        <4>1. ciphered = zipped \/ (o.cipher # NoKey /\ ciphered = Append(zipped, <<"xor", o.cipher>>))
          <5>1. CASE o.cipher = NoKey
            BY <5>1 DEF Ciphered
          <5>2. CASE o.cipher # NoKey
            BY <1>2, <3>1, <5>2, XorUndoes DEF Ciphered
          <5> QED BY <5>1, <5>2
        <4> HIDE DEF ciphered, zipped, clear
        <4>2. <<"xor", o.cipher>> # <<"failed">>
          OBVIOUS
        <4> QED BY <1>2, <3>1, <3>3, <4>1, <4>2, AppendedNoFailure
      <3> QED BY <3>2, <3>3, <3>4
    <2> QED BY <1>2, <2>1, LayersOfPayload
  <1>4. Payload!Deciphered(t, f) = zipped
    <2>1. CASE o.cipher = NoKey
      <3>1. "cipher" \notin f.flags
        BY <2>1 DEF Payload!FrameFlags
      <3> QED BY <1>1, <2>1, <3>1 DEF Payload!Deciphered, Ciphered
    <2>2. CASE o.cipher # NoKey
      <3>1. "cipher" \in f.flags /\ t.cipher = o.cipher /\ o.cipher \in Keys
        BY <2>2 DEF Payload!FrameFlags, Payload!Flags, Payload!Options
      <3>2. Payload!Xor(ciphered, t.cipher) = zipped
        BY <1>2, <2>2, <3>1, XorUndoes DEF Ciphered
      <3> HIDE DEF ciphered, zipped
      <3> QED BY <1>1, <1>3, <2>2, <3>1, <3>2 DEF Payload!Deciphered
    <2> QED BY <2>1, <2>2
  <1> QED
    <2>1. CASE o.zlib /\ smaller
      <3>1. "compress" \in f.flags
        BY <2>1 DEF Payload!FrameFlags, Payload!Flags
      <3>2. <<"zlib">> \in Layers /\ zipped = Append(clear, <<"zlib">>)
        BY <2>1 DEF Layers, Compressed
      <3>3. Payload!Strip(zipped, <<"zlib">>) = clear
        BY <1>2, <3>2, StripUndoes
      <3> HIDE DEF zipped, clear
      <3>4. Payload!Inflated(t, f) = clear
        BY <1>3, <1>4, <3>1, <3>3 DEF Payload!Inflated
      <3> QED BY <3>4 DEF clear
    <2>2. CASE ~(o.zlib /\ smaller)
      <3>1. "compress" \notin f.flags
        BY <2>2 DEF Payload!FrameFlags
      <3>2. zipped = clear
        BY <2>2 DEF Compressed
      <3> HIDE DEF zipped, clear
      <3>3. Payload!Inflated(t, f) = clear
        BY <1>4, <3>1, <3>2 DEF Payload!Inflated
      <3> QED BY <3>3 DEF clear
    <2> QED BY <2>1, <2>2

\* ROHC is the innermost layer, if at all.
NoRohcAbove(p) == p \in Seq(Layers) /\ \A i \in 2..Len(p) : p[i] # <<"rohc">>

LEMMA RohcStaysBelow ==
    ASSUME NEW p, NoRohcAbove(p)
    PROVE  /\ \A l \in Layers : l # <<"rohc">> => NoRohcAbove(Append(p, l))
           /\ p # <<>> => NoRohcAbove(Payload!Front(p))
  <1>1. ASSUME NEW l \in Layers, l # <<"rohc">> PROVE NoRohcAbove(Append(p, l))
    <2> DEFINE a == Append(p, l)
    <2>1. /\ a \in Seq(Layers) /\ Len(a) = Len(p) + 1 /\ Len(p) \in Nat
          /\ a[Len(p) + 1] = l /\ \A i \in 1..Len(p) : a[i] = p[i]
      BY AppendProperties, LenProperties DEF NoRohcAbove
    <2> HIDE DEF a
    <2>2. ASSUME NEW i \in 2..Len(a) PROVE a[i] # <<"rohc">>
      <3>1. i = Len(p) + 1 \/ (i \in 1..Len(p) /\ i \in 2..Len(p))
        BY <2>1
      <3> QED BY <1>1, <2>1, <3>1 DEF NoRohcAbove
    <2> QED BY <2>1, <2>2 DEF NoRohcAbove, a
  <1>2. ASSUME p # <<>> PROVE NoRohcAbove(Payload!Front(p))
    <2>1. /\ Payload!Front(p) \in Seq(Layers) /\ Len(Payload!Front(p)) = Len(p) - 1
          /\ \A i \in 1..(Len(p) - 1) : Payload!Front(p)[i] = p[i]
          /\ Len(p) \in Nat
      BY <1>2, FrontLayer, LenProperties DEF NoRohcAbove
    <2> QED BY <2>1 DEF NoRohcAbove
  <1> QED BY <1>1, <1>2

LEMMA FailedHasNoRohc == NoRohcAbove(Payload!Failed)
  <1>1. <<"failed">> \in Layers
    BY DEF Layers
  <1> QED BY <1>1 DEF NoRohcAbove, Payload!Failed

\* No step of the receiver puts a layer of ROHC on top of something.
LEMMA InflatedHasNoRohc ==
    ASSUME NEW t \in Payload!Options, NEW f, NoRohcAbove(f.wire)
    PROVE  NoRohcAbove(Payload!Inflated(t, f))
  <1>1. ASSUME NEW p, NoRohcAbove(p), NEW l PROVE NoRohcAbove(Payload!Strip(p, l))
    BY <1>1, RohcStaysBelow, FailedHasNoRohc DEF Payload!Strip
  <1>2. ASSUME NEW p, NoRohcAbove(p), NEW key \in Keys PROVE NoRohcAbove(Payload!Xor(p, key))
    <2>1. <<"xor", key>> \in Layers /\ <<"xor", key>> # <<"rohc">>
      BY DEF Layers
    <2> QED BY <1>2, <2>1, RohcStaysBelow DEF Payload!Xor
  <1>3. NoRohcAbove(Payload!Opened(t, f))
    BY <1>1, FailedHasNoRohc DEF Payload!Opened
  <1>4. NoRohcAbove(Payload!Deciphered(t, f))
    <2>1. t.cipher = NoKey \/ t.cipher \in Keys
      BY DEF Payload!Options
    <2> QED BY <1>2, <1>3, <2>1, FailedHasNoRohc DEF Payload!Deciphered
  <1> QED BY <1>1, <1>4, FailedHasNoRohc DEF Payload!Inflated

\* So nothing the receiver makes of a payload by ROHC is the payload itself.
LEMMA NotUndoneTwice ==
    ASSUME NEW p, NoRohcAbove(p), NEW clear \in Payload!Decompressions(p)
    PROVE  clear # <<<<"rohc">>>>
  <1>1. p \in Seq(Layers) /\ <<"unrohc">> \in Layers /\ <<"unrohc">> # <<"rohc">>
    BY DEF NoRohcAbove, Layers
  <1> SUFFICES ASSUME clear = <<<<"rohc">>>> PROVE FALSE
    OBVIOUS
  <1>2. clear[1] = <<"rohc">> /\ Len(clear) = 1
    OBVIOUS
  <1>3. CASE p # <<>> /\ Payload!Last(p) = <<"rohc">> /\ clear = Payload!Front(p)
    <2>1. Len(clear) = Len(p) - 1 /\ Len(p) \in Nat
      BY <1>1, <1>3, FrontLayer, LenProperties
    <2>2. Len(p) = 2
      BY <1>2, <2>1
    <2>3. p[2] = <<"rohc">>
      BY <1>3, <2>2 DEF Payload!Last
    <2> QED BY <2>2, <2>3 DEF NoRohcAbove
  <1>4. CASE clear = Payload!Failed
    BY <1>2, <1>4 DEF Payload!Failed
  <1>5. CASE clear = Append(p, <<"unrohc">>)
    <2>1. Len(clear) = Len(p) + 1 /\ clear[Len(p) + 1] = <<"unrohc">> /\ Len(p) \in Nat
      BY <1>1, <1>5, AppendProperties, LenProperties
    <2>2. Len(p) = 0
      BY <1>2, <2>1
    <2> QED BY <1>1, <1>2, <2>1, <2>2
  <1> QED BY <1>3, <1>4, <1>5 DEF Payload!Decompressions

LEMMA WireHasNoRohc ==
    ASSUME NEW o \in Payload!Options, NEW smaller \in BOOLEAN
    PROVE  NoRohcAbove(Payload!WirePayload(o, smaller))
  <1>1. NoRohcAbove(Payload!ClearPayload(o))
    <2>1. <<"rohc">> \in Layers
      BY DEF Layers
    <2>2. CASE o.rohc
      <3>1. Payload!ClearPayload(o) = <<<<"rohc">>>>
        BY <2>2 DEF Payload!ClearPayload, Payload!Packet
      <3> QED BY <2>1, <3>1 DEF NoRohcAbove
    <2>3. CASE ~o.rohc
      <3>1. Payload!ClearPayload(o) = <<>>
        BY <2>3 DEF Payload!ClearPayload, Payload!Packet
      <3> QED BY <3>1, EmptySeq DEF NoRohcAbove
    <2> QED BY <2>2, <2>3
  <1>2. NoRohcAbove(Compressed(o, smaller))
    <2>1. <<"zlib">> \in Layers /\ <<"zlib">> # <<"rohc">>
      BY DEF Layers
    <2> QED BY <1>1, <2>1, RohcStaysBelow DEF Compressed
  <1>3. NoRohcAbove(Ciphered(o, smaller))
    <2>1. o.cipher # NoKey => o.cipher \in Keys /\ <<"xor", o.cipher>> \in Layers
                              /\ <<"xor", o.cipher>> # <<"rohc">>
      BY DEF Layers, Payload!Options
    <2> DEFINE zipped == Compressed(o, smaller)
    <2>2. zipped \in Seq(Layers) /\ \A key : ~EndsWith(zipped, <<"xor", key>>)
      BY LayersOfPayload
    <2>3. CASE o.cipher = NoKey
      BY <1>2, <2>3 DEF Ciphered
    <2>4. CASE o.cipher # NoKey
      <3> HIDE DEF zipped
      <3>1. Payload!Xor(zipped, o.cipher) = Append(zipped, <<"xor", o.cipher>>)
        BY <2>1, <2>2, <2>4, XorUndoes
      <3>2. NoRohcAbove(zipped)
        BY <1>2 DEF zipped
      <3>3. NoRohcAbove(Append(zipped, <<"xor", o.cipher>>))
        BY <2>1, <2>4, <3>2, RohcStaysBelow
      <3> QED BY <2>4, <3>1, <3>3 DEF Ciphered, zipped
    <2> QED BY <2>3, <2>4
  <1> QED
    <2>1. <<"aead", o.aead, Payload!Aad(o, smaller)>> # <<"rohc">>
      OBVIOUS
    <2> QED BY <1>3, <2>1, LayersOfPayload, RohcStaysBelow

-----------------------------------------------------------------------------

\* The frame that OnTunPacket sends.
SentFrame(o, smaller) ==
    [flags |-> Payload!FrameFlags(o, smaller), wire |-> Payload!WirePayload(o, smaller),
     crc |-> <<Payload!FrameFlags(o, smaller), Payload!ClearPayload(o)>>]

\* What may become of a frame on its way.
Damages(f) ==
    {[f EXCEPT !.wire = Append(@, <<"damage">>)], [f EXCEPT !.crc = <<{}, Payload!Failed>>]}
    \cup {[f EXCEPT !.flags = flags] : flags \in SUBSET Payload!Flags}

PayloadInv ==
    /\ ends.from \in Payload!Options /\ ends.to \in Payload!Options
    /\ stage \in {"new", "ready"} => ~damaged /\ written = Payload!Failed
    /\ stage = "sent" =>
         /\ written = Payload!Failed
         /\ \E smaller \in BOOLEAN :
              \/ frame = SentFrame(ends.from, smaller)
              \/ damaged /\ frame \in Damages(SentFrame(ends.from, smaller))
    /\ OnlySentIsWritten
    /\ AgreeingEndsDeliver

\* The options under which nothing but the packet may be written.
Told(o, t) == o.rohc = t.rohc /\ (o.aead # NoKey => o.cipher \in {NoKey, t.cipher})

\* A frame whose header speaks of AEAD is opened only if it is the one that was
\* sealed with the same key.
LEMMA OpenedIsSealed ==
    ASSUME NEW o \in Payload!Options, NEW t \in Payload!Options, NEW smaller \in BOOLEAN, NEW f,
           f = SentFrame(o, smaller) \/ f \in Damages(SentFrame(o, smaller)),
           "aead" \in f.flags, Payload!Opened(t, f) # Payload!Failed
    PROVE  /\ f.flags = Payload!FrameFlags(o, smaller) /\ f.wire = Payload!WirePayload(o, smaller)
           /\ o.aead # NoKey /\ o.aead = t.aead
  <1> DEFINE wire == Payload!WirePayload(o, smaller)
             seal == <<"aead", t.aead, f.flags>>
  <1>1. EndsWith(f.wire, seal)
    BY DEF Payload!Opened, Payload!Strip, EndsWith
  <1>2. f.wire = wire \/ f.wire = Append(wire, <<"damage">>)
    BY DEF SentFrame, Damages
  <1>3. wire \in Seq(Layers) /\ <<"damage">> \in Layers
    BY LayersOfPayload DEF Layers
  <1>4. f.wire = wire
    <2> HIDE DEF wire, seal
    <2>1. seal # <<"damage">>
      BY DEF seal
    <2>2. \A m : EndsWith(Append(wire, <<"damage">>), m) => m = <<"damage">>
      BY <1>3, AppendLayer
    <2> QED BY <1>1, <1>2, <2>1, <2>2
  <1>5. o.aead # NoKey
    <2> SUFFICES ASSUME o.aead = NoKey PROVE FALSE
      OBVIOUS
    <2>1. f.wire = Ciphered(o, smaller) /\ \A key, flags : ~EndsWith(f.wire, <<"aead", key, flags>>)
      BY <1>4, LayersOfPayload
    <2> QED BY <1>1, <2>1
  <1>6. seal = <<"aead", o.aead, Payload!Aad(o, smaller)>>
    <2> DEFINE last == <<"aead", o.aead, Payload!Aad(o, smaller)>>
               inner == Ciphered(o, smaller)
    <2>1. f.wire = Append(inner, last) /\ inner \in Seq(Layers) /\ last \in Layers
      BY <1>4, <1>5, LayersOfPayload
    <2> HIDE DEF seal, last, inner
    <2>2. seal = last
      BY <1>1, <2>1, AppendLayer
    <2> QED BY <2>2 DEF last
  <1>7. t.aead = o.aead /\ f.flags = Payload!Aad(o, smaller)
    BY <1>6
  <1>8. Payload!Aad(o, smaller) = Payload!FrameFlags(o, smaller)
    BY <1>5 DEF Payload!Aad, Payload!FrameFlags
  <1> QED BY <1>4, <1>5, <1>7, <1>8

\* From the payload as it was before zlib the receiver gets the packet.
LEMMA RecoversClear ==
    ASSUME NEW o \in Payload!Options, NEW t \in Payload!Options, NEW f, o.rohc = t.rohc,
           Payload!Inflated(t, f) = Payload!ClearPayload(o)
    PROVE  Payload!Recovered(t, f) = {Payload!Packet}
  <1>1. CASE ~o.rohc
    BY <1>1 DEF Payload!Recovered, Payload!ClearPayload
  <1>2. CASE o.rohc
    <2> DEFINE one == Append(<<>>, <<"rohc">>)
    <2>1. <<>> \in Seq(Layers) /\ <<"rohc">> \in Layers
      BY EmptySeq DEF Layers
    <2>2. EndsWith(one, <<"rohc">>) /\ Payload!Front(one) = <<>> /\ one # Payload!Failed
      <3>1. <<"rohc">> # <<"failed">>
        OBVIOUS
      <3>2. Payload!Failed = Append(<<>>, <<"failed">>)
        BY DEF Payload!Failed
      <3>3. EndsWith(Payload!Failed, <<"failed">>)
        <4>1. <<"failed">> \in Layers
          BY DEF Layers
        <4> QED BY <2>1, <3>2, <4>1, AppendLayer
      <3>4. /\ EndsWith(one, <<"rohc">>) /\ Payload!Front(one) = <<>>
            /\ \A m : EndsWith(one, m) => m = <<"rohc">>
        BY <2>1, AppendLayer
      <3> HIDE DEF one
      <3> QED BY <3>1, <3>3, <3>4
    <2>3. Payload!ClearPayload(o) = one
      BY <1>2 DEF Payload!ClearPayload, Payload!Packet
    <2> HIDE DEF one
    <2> QED BY <1>2, <2>2, <2>3
            DEF EndsWith, Payload!Recovered, Payload!Decompressions, Payload!Packet
  <1> QED BY <1>1, <1>2

\* What the receiver accepts, whatever happened to the frame.
LEMMA AcceptedIsSent ==
    ASSUME NEW o \in Payload!Options, NEW t \in Payload!Options, NEW smaller \in BOOLEAN, NEW f,
           f = SentFrame(o, smaller) \/ f \in Damages(SentFrame(o, smaller)),
           Told(o, t), NEW clear \in Payload!Recovered(t, f), clear # Payload!Failed,
           Payload!CrcFits(f, clear)
    PROVE  clear = Payload!Packet
  <1>1. CASE "aead" \in f.flags
    <2>1. Payload!Opened(t, f) # Payload!Failed
      <3> SUFFICES ASSUME Payload!Opened(t, f) = Payload!Failed PROVE clear = Payload!Failed
        OBVIOUS
      <3>1. Payload!Inflated(t, f) = Payload!Failed
        BY DEF Payload!Inflated, Payload!Deciphered
      <3> QED BY <3>1 DEF Payload!Recovered
    <2>2. /\ f.flags = Payload!FrameFlags(o, smaller) /\ f.wire = Payload!WirePayload(o, smaller)
          /\ o.aead # NoKey /\ o.aead = t.aead
      BY <1>1, <2>1, OpenedIsSealed
    <2>3. Payload!Inflated(t, f) = Payload!ClearPayload(o)
      BY <2>2, Inflates DEF Told
    <2>4. Payload!Recovered(t, f) = {Payload!Packet}
      BY <2>3, RecoversClear DEF Told
    <2> QED BY <2>4
  <1>2. CASE "aead" \notin f.flags
    <2>1. clear = Payload!ClearPayload(o)
      <3>1. f.crc = <<f.flags, clear>>
        BY <1>2 DEF Payload!CrcFits
      <3>2. f.crc[2] = clear
        BY <3>1
      <3>3. f.crc[2] \in {Payload!ClearPayload(o), Payload!Failed}
        BY DEF SentFrame, Damages
      <3> QED BY <3>2, <3>3
    <2>2. CASE ~o.rohc
      BY <2>1, <2>2 DEF Payload!ClearPayload
    <2>3. CASE o.rohc
      <3>1. NoRohcAbove(f.wire)
        <4>1. NoRohcAbove(Payload!WirePayload(o, smaller))
          BY WireHasNoRohc
        <4>2. <<"damage">> \in Layers /\ <<"damage">> # <<"rohc">>
          BY DEF Layers
        <4>3. \/ f.wire = Payload!WirePayload(o, smaller)
              \/ f.wire = Append(Payload!WirePayload(o, smaller), <<"damage">>)
          BY DEF SentFrame, Damages
        <4> QED BY <4>1, <4>2, <4>3, RohcStaysBelow
      <3>2. NoRohcAbove(Payload!Inflated(t, f))
        BY <3>1, InflatedHasNoRohc
      <3>3. clear \in Payload!Decompressions(Payload!Inflated(t, f))
        BY <2>3 DEF Told, Payload!Recovered
      <3>4. Payload!ClearPayload(o) = <<<<"rohc">>>>
        BY <2>3 DEF Payload!ClearPayload, Payload!Packet
      <3> QED BY <2>1, <3>2, <3>3, <3>4, NotUndoneTwice
    <2> QED BY <2>2, <2>3
  <1> QED BY <1>1, <1>2

LEMMA PayloadReceives ==
    ASSUME PayloadInv, Payload!OnSerialBytes
    PROVE  PayloadInv'
  <1> DEFINE o == ends.from
             t == ends.to
  <1>1. /\ stage = "sent" /\ stage' = "received" /\ UNCHANGED <<ends, frame, damaged>>
        /\ o \in Payload!Options /\ t \in Payload!Options
    BY DEF Payload!OnSerialBytes, PayloadInv
  <1>2. PICK clear \in Payload!Recovered(t, frame) :
          written' = IF clear # Payload!Failed /\ Payload!CrcFits(frame, clear) THEN clear
                     ELSE Payload!Failed
    BY DEF Payload!OnSerialBytes
  <1>3. PICK smaller \in BOOLEAN :
          \/ frame = SentFrame(o, smaller)
          \/ damaged /\ frame \in Damages(SentFrame(o, smaller))
    BY <1>1 DEF PayloadInv
  <1>4. OnlySentIsWritten'
    <2>1. ASSUME Told(o, t) PROVE written' \in {Payload!Packet, Payload!Failed}
      <3> HIDE DEF o, t
      <3> QED BY <1>1, <1>2, <1>3, <2>1, AcceptedIsSent
    <2> QED BY <1>1, <2>1 DEF OnlySentIsWritten, Payload!OnlySentIsWritten, Told
  <1>5. AgreeingEndsDeliver'
    <2> SUFFICES ASSUME ~damaged, o.rohc = t.rohc, o.cipher \in {NoKey, t.cipher},
                        o.aead \in {NoKey, t.aead}, o.rohc => o.aead # NoKey
                 PROVE  written' = Payload!Packet
      BY <1>1 DEF AgreeingEndsDeliver, Payload!AgreeingEndsDeliver, Payload!Agree
    <2>1. frame = SentFrame(o, smaller)
      BY <1>3
    <2>2. /\ frame.flags = Payload!FrameFlags(o, smaller)
          /\ frame.wire = Payload!WirePayload(o, smaller)
          /\ frame.crc = <<Payload!FrameFlags(o, smaller), Payload!ClearPayload(o)>>
      BY <2>1 DEF SentFrame
    <2> HIDE DEF o, t
    <2>3. Payload!Inflated(t, frame) = Payload!ClearPayload(o)
      BY <1>1, <2>2, Inflates
    <2>4. clear = Payload!Packet
      BY <1>1, <1>2, <2>3, RecoversClear
    <2>5. Payload!Packet # Payload!Failed
      BY DEF Payload!Packet, Payload!Failed
    <2>6. Payload!CrcFits(frame, clear)
      <3>1. CASE o.aead # NoKey
        BY <2>2, <3>1 DEF Payload!CrcFits, Payload!FrameFlags, Payload!Flags
      <3>2. CASE ~o.rohc
        BY <2>2, <2>4, <3>2 DEF Payload!CrcFits, Payload!ClearPayload
      <3> QED BY <3>1, <3>2
    <2> QED BY <1>2, <2>4, <2>5, <2>6
  <1> QED BY <1>1, <1>4, <1>5 DEF PayloadInv

LEMMA PayloadInvariant == Payload!Spec => []PayloadInv
  <1>1. Payload!Init => PayloadInv
    <2>1. Payload!NoOptions \in Payload!Options
      BY DEF Payload!NoOptions, Payload!Options
    <2> QED BY <2>1
            DEF Payload!Init, PayloadInv, OnlySentIsWritten, Payload!OnlySentIsWritten,
                AgreeingEndsDeliver, Payload!AgreeingEndsDeliver
  <1>2. PayloadInv /\ [Payload!Next]_(Payload!vars) => PayloadInv'
    <2> SUFFICES ASSUME PayloadInv, [Payload!Next]_(Payload!vars) PROVE PayloadInv'
      OBVIOUS
    <2> USE DEF OnlySentIsWritten, Payload!OnlySentIsWritten, AgreeingEndsDeliver,
                Payload!AgreeingEndsDeliver
    <2>1. ASSUME NEW from \in Payload!Options, NEW to \in Payload!Options,
                 Payload!Configure(from, to)
          PROVE  PayloadInv'
      <3>1. /\ ends' = [from |-> from, to |-> to] /\ stage = "new" /\ stage' = "ready"
            /\ UNCHANGED <<frame, damaged, written>>
        BY <2>1 DEF Payload!Configure
      <3>2. ends'.from = from /\ ends'.to = to
        BY <3>1
      <3> QED BY <3>1, <3>2 DEF PayloadInv
    <2>2. ASSUME NEW smaller \in BOOLEAN, Payload!OnTunPacket(smaller) PROVE PayloadInv'
      <3>1. /\ frame' = SentFrame(ends.from, smaller) /\ stage = "ready" /\ stage' = "sent"
            /\ UNCHANGED <<ends, damaged, written>>
        BY <2>2 DEF Payload!OnTunPacket, SentFrame
      <3> QED BY <3>1 DEF PayloadInv
    <2>3. CASE Payload!Damage
      <3>1. /\ stage = "sent" /\ damaged' = TRUE /\ frame' \in Damages(frame) /\ ~damaged
            /\ UNCHANGED <<ends, stage, written>>
        BY <2>3 DEF Payload!Damage, Damages
      <3>2. \E smaller \in BOOLEAN : frame = SentFrame(ends.from, smaller)
        BY <3>1 DEF PayloadInv
      <3> QED BY <3>1, <3>2 DEF PayloadInv
    <2>4. CASE Payload!OnSerialBytes
      BY <2>4, PayloadReceives
    <2>5. CASE UNCHANGED Payload!vars
      BY <2>5 DEF PayloadInv, Payload!vars, Payload!Agree
    <2> QED BY <2>1, <2>2, <2>3, <2>4, <2>5 DEF Payload!Next
  <1> QED BY <1>1, <1>2, PTL DEF Payload!Spec

\* Whatever options two tunnels have and whatever happens to a frame between
\* them, the receiver writes the packet that was sent or nothing, if both use
\* ROHC or neither does, and an AEAD frame meets its sender's XOR key.
THEOREM PayloadIsSentOrDropped == PartsSpec => []OnlySentIsWritten
  <1>1. PayloadInv => OnlySentIsWritten
    BY DEF PayloadInv
  <1> QED BY <1>1, PayloadInvariant, PartsRun, PTL

\* Tunnels whose options agree deliver every packet, with AEAD if they use ROHC.
THEOREM AgreeingTunnelsDeliver == PartsSpec => []AgreeingEndsDeliver
  <1>1. PayloadInv => AgreeingEndsDeliver
    BY DEF PayloadInv
  <1> QED BY <1>1, PayloadInvariant, PartsRun, PTL
=============================================================================
