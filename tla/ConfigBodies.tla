---------------------------- MODULE ConfigBodies ----------------------------
(***************************************************************************)
(* The bodies of the configuration commands: how the driver lays them out  *)
(* (src/device/HelionetDevice.ts, and alike in WiFiUdpDevice.ts) and how   *)
(* the firmware's handlers read them (main.cpp).  The two letters in front *)
(* have told the handlers apart already, and are left out.                 *)
(*                                                                         *)
(* A string is the sequence of its bytes.  A radio configuration is a      *)
(* function of the offset to what stands there; the channel, four bytes in *)
(* both, stands at the offset of its first.                                *)
(***************************************************************************)
EXTENDS Naturals, Sequences

CONSTANTS
    MaxText,        \* the longest string a length byte can announce (255)
    MaxCred,        \* HTTP_CRED_MAX (64)
    InBufSize,      \* IN_BUF_SIZE less the two letters (257)
    Texts,          \* strings the application gives
    RawBodies,      \* bodies of a host that is not the driver
    Channels, Powers, Preambles

VARIABLES
    given,      \* the call: its kind and arguments
    body,       \* the body it was turned into
    got         \* what the handler made of it

vars == <<given, body, got>>

Nobody == <<>>
Unread == [ok |-> FALSE, texts |-> <<>>, reach |-> 0]

Init == given = <<"nothing">> /\ body = Nobody /\ got = Unread

-----------------------------------------------------------------------------
(* The driver                                                              *)

Prefixed(s) == <<Len(s)>> \o s

\* buildWifiConfigBody; longer strings are a RangeError.
BuildWifi(ssid, pass, host) == Prefixed(ssid) \o Prefixed(pass) \o Prefixed(host)
WifiAccepted(ssid, pass, host) == \A s \in {ssid, pass, host} : Len(s) <= MaxText

\* buildHttpAuthBody, likewise.
BuildHttp(user, pass) == Prefixed(user) \o Prefixed(pass)
HttpAccepted(user, pass) == \A s \in {user, pass} : Len(s) \in 1..MaxCred

\* What the application asks of the radio.
RadioConfigs ==
    [channel : Channels, power : Powers, bandwidth : 0..2, datarate : 7..12,
     coderate : 1..4, preambleLen : Preambles, crcOn : 0..1]

\* configureTx: 8 is fdev, 13 fixLen.
BuildTx(cfg) ==
    [o \in {2} \cup 6..14 |->
       CASE o = 2 -> cfg.channel [] o = 6 -> 1 [] o = 7 -> cfg.power [] o = 9 -> cfg.bandwidth
         [] o = 10 -> cfg.datarate [] o = 11 -> cfg.coderate [] o = 12 -> cfg.preambleLen
         [] o = 14 -> cfg.crcOn [] OTHER -> 0]

\* configureRx: 10 is bandwidthAfc, 12 symbTimeout, 13 fixLen, 14 payloadLen.
BuildRx(cfg) ==
    [o \in {2} \cup 6..15 |->
       CASE o = 2 -> cfg.channel [] o = 6 -> 1 [] o = 7 -> cfg.bandwidth [] o = 8 -> cfg.datarate
         [] o = 9 -> cfg.coderate [] o = 11 -> cfg.preambleLen [] o = 12 -> 5
         [] o = 15 -> cfg.crcOn [] OTHER -> 0]

-----------------------------------------------------------------------------
(* The firmware                                                            *)

\* body[off], wherever that is.
ByteAt(b, off) == IF off < Len(b) THEN b[off + 1] ELSE 0

\* A length at off and the string after it, with so many bytes to spare.
Field(b, off, spare) ==
    LET n == ByteAt(b, off) IN
    [ok |-> off + 1 + n + spare <= Len(b), next |-> off + 1 + n, reach |-> off + 1,
     text |-> IF off + 1 + n <= Len(b) THEN SubSeq(b, off + 2, off + 1 + n) ELSE <<>>]

\* Mutant of WifiSpare: the length byte of the next string is not asked for.
WifiSpareNone(k) == 0

\* The length byte that must follow the k-th string of "WC".
WifiSpare(k) == IF k < 3 THEN 1 ELSE 0

\* handleWifiConfig.
ReadWifi(b) ==
    LET s == Field(b, 0, WifiSpare(1))
        p == Field(b, s.next, WifiSpare(2))
        h == Field(b, p.next, WifiSpare(3)) IN
    IF Len(b) < 3 THEN Unread
    ELSE IF ~s.ok THEN [Unread EXCEPT !.reach = s.reach]
    ELSE IF ~p.ok THEN [Unread EXCEPT !.reach = p.reach]
    ELSE [ok |-> h.ok, reach |-> h.reach,
          texts |-> IF h.ok THEN <<s.text, p.text, h.text>> ELSE <<>>]

CredFits(n) == n \in 1..MaxCred

\* handleHttpAuthConfig.
ReadHttp(b) ==
    LET u == Field(b, 0, 1)
        p == Field(b, u.next, 0) IN
    IF Len(b) < 2 THEN Unread
    ELSE IF ~u.ok \/ ~CredFits(ByteAt(b, 0)) THEN [Unread EXCEPT !.reach = u.reach]
    ELSE [ok |-> p.ok /\ CredFits(ByteAt(b, u.next)), reach |-> p.reach,
          texts |-> IF p.ok /\ CredFits(ByteAt(b, u.next)) THEN <<u.text, p.text>> ELSE <<>>]

BandwidthKHz(c) == CASE c = 1 -> 250 [] c = 2 -> 500 [] OTHER -> 125
CodingRate(c) == IF c \in 1..4 THEN 4 + c ELSE 5

\* "TC" and "RC" in handleConfigBody.
ReadTx(b) ==
    [freq |-> b[2], power |-> b[7], bwKHz |-> BandwidthKHz(b[9]), sf |-> b[10],
     cr |-> CodingRate(b[11]), preambleLen |-> b[12], crcOn |-> b[14] # 0]

ReadRx(b) ==
    [freq |-> b[2], bwKHz |-> BandwidthKHz(b[7]), sf |-> b[8],
     cr |-> CodingRate(b[9]), preambleLen |-> b[11], crcOn |-> b[15] # 0]

-----------------------------------------------------------------------------

\* setWifi, setHttpAuth, configureTx, configureRx, or another host.
Call ==
    /\ given = <<"nothing">> /\ UNCHANGED got
    /\ \/ \E s \in Texts, p \in Texts, h \in Texts :
            /\ WifiAccepted(s, p, h)
            /\ given' = <<"WC", s, p, h>> /\ body' = BuildWifi(s, p, h)
       \/ \E u \in Texts, p \in Texts :
            /\ HttpAccepted(u, p)
            /\ given' = <<"HA", u, p>> /\ body' = BuildHttp(u, p)
       \/ \E cfg \in RadioConfigs :
            \/ given' = <<"TC", cfg>> /\ body' = BuildTx(cfg)
            \/ given' = <<"RC", cfg>> /\ body' = BuildRx(cfg)
       \/ \E b \in RawBodies, cmd \in {"raw WC", "raw HA"} : given' = <<cmd>> /\ body' = b

\* The parser has delivered the body, which it does if it fits, and the handler
\* has read it.
Handle ==
    /\ got = Unread
    /\ \/ /\ given[1] \in {"WC", "raw WC"} /\ Len(body) <= InBufSize
          /\ got' = ReadWifi(body)
       \/ /\ given[1] \in {"HA", "raw HA"} /\ Len(body) <= InBufSize
          /\ got' = ReadHttp(body)
       \/ given[1] = "TC" /\ got' = [settings |-> ReadTx(body)]
       \/ given[1] = "RC" /\ got' = [settings |-> ReadRx(body)]
    /\ UNCHANGED <<given, body>>

\* The next command.
Again ==
    /\ given # <<"nothing">>
    /\ given' = <<"nothing">> /\ body' = Nobody /\ got' = Unread

Next == Call \/ Handle \/ Again

Spec == Init /\ [][Next]_vars

-----------------------------------------------------------------------------
(* Properties                                                              *)

IsText == got # Unread /\ "texts" \in DOMAIN got

\* The handlers of "WC" and "HA" never look behind the end of the body, whatever
\* lengths it claims.
ReadsWithinBody == IsText => got.reach <= Len(body)

\* What the driver was given is what the handler gets, empty and longest
\* strings included - "WC" and "HA" bodies are laid out and read by separate
\* code with separate limits.
TextsAreRead ==
    /\ given[1] = "WC" /\ got # Unread => got.texts = Tail(given)
    /\ given[1] = "HA" /\ got # Unread => got.ok /\ got.texts = Tail(given)

\* So it is with the radio's settings: each is read where it was written, and
\* its code stands for the same on both sides (125, 250, 500 kHz; 4/5 to 4/8).
SettingsAreRead ==
    given[1] \in {"TC", "RC"} /\ got # Unread =>
      LET cfg == given[2]
          s == got.settings IN
      /\ s.freq = cfg.channel /\ s.sf = cfg.datarate /\ s.preambleLen = cfg.preambleLen
      /\ s.bwKHz = <<125, 250, 500>>[cfg.bandwidth + 1] /\ s.cr - 4 = cfg.coderate
      /\ s.crcOn = (cfg.crcOn = 1)
      /\ given[1] = "TC" => s.power = cfg.power

\* The handlers read what the driver was given, and nothing behind the body's end.
BodiesAreRead == ReadsWithinBody /\ TextsAreRead /\ SettingsAreRead
=============================================================================
