---------------------------- MODULE BoardSecrets ----------------------------
(***************************************************************************)
(* What a bridge board keeps in flash (NVS) and what it runs with: the key *)
(* of the UDP link, the credentials of its web page and of the WiFi, in    *)
(* firmware/helionet/src/main.cpp.  Flash is written one value at a time,  *)
(* and the board may lose power between any two writes.                    *)
(*                                                                         *)
(* Values are numbers, a new one for every value that is drawn or sent; 0  *)
(* is a missing or empty value, Admin the user name of a new board.        *)
(***************************************************************************)
EXTENDS Naturals, Sequences

CONSTANT MaxValue   \* bound: values drawn or sent

Admin == 1
Secrets == {"udpkey", "httpuser", "httppass"}
WifiFields == {"ssid", "pass", "host"}
Fields == Secrets \cup WifiFields

VARIABLES
    nvs,        \* flash
    ram,        \* udpAuthKey, httpUser, httpPass, cfgSsid, cfgPass, cfgHost
    pc,         \* what the board is doing
    puts,       \* the writes it has left to do
    wifiOk,     \* WiFi was connected
    udpUp,      \* udpBridge.begin has been called
    lastValue,  \* for new values
    told        \* what the host may expect of each value: what was printed, or
                \* acknowledged, and what it has sent since

vars == <<nvs, ram, pc, puts, wifiOk, udpUp, lastValue, told>>

Nothing == [f \in Fields |-> 0]

\* A board with empty flash.
Init ==
    /\ nvs = Nothing /\ ram = Nothing /\ pc = "off" /\ puts = <<>>
    /\ wifiOk = FALSE /\ udpUp = FALSE /\ lastValue = Admin
    /\ told = [f \in Fields |-> IF f \in Secrets THEN {} ELSE {0}]

-----------------------------------------------------------------------------
(* initBridgeWifi: loadWifiConfig, loadOrInitSecrets, connectWifi          *)

\* The value has to be drawn.
Missing(f) == nvs[f] = 0

\* Mutant of WriteBack: only the key.
WriteKeyBack(values) == <<<<"udpkey", values["udpkey"]>>>>

\* The writes after something was drawn.
WriteBack(values) ==
    <<<<"udpkey", values["udpkey"]>>, <<"httpuser", values["httpuser"]>>,
      <<"httppass", values["httppass"]>>>>

\* Everything is read, and what is missing is drawn.
Boot ==
    LET drawn == [f \in Fields |->
                    IF f \in Secrets /\ Missing(f)
                    THEN (IF f = "httpuser" THEN Admin
                          ELSE lastValue + (IF f = "udpkey" THEN 1 ELSE 2))
                    ELSE nvs[f]] IN
    /\ pc = "off" /\ pc' = "boot"
    /\ lastValue + 2 <= MaxValue
    /\ ram' = drawn
    /\ lastValue' = IF \E f \in Secrets : Missing(f) THEN lastValue + 2 ELSE lastValue
    /\ puts' = IF \E f \in Secrets : Missing(f) THEN WriteBack(drawn) ELSE <<>>
    /\ UNCHANGED <<nvs, wifiOk, udpUp, told>>

\* putBytes or putString.  Flash takes the value: what they return is not looked
\* at, so a write that fails is none of the outcomes the code knows of.
Put ==
    /\ puts # <<>> /\ puts' = Tail(puts)
    /\ nvs' = [nvs EXCEPT ![Head(puts)[1]] = Head(puts)[2]]
    /\ UNCHANGED <<ram, pc, wifiOk, udpUp, lastValue, told>>

\* udpBridge.begin, at boot and when "WC" has connected.
ListenWhenConnected == udpUp' = (udpUp \/ wifiOk')

\* connectWifi, with the credentials in use.
ConnectWifi(values) ==
    /\ wifiOk' \in (IF values["ssid"] = 0 THEN {FALSE} ELSE BOOLEAN)
    /\ ListenWhenConnected

\* The secrets are printed, and WiFi comes up or not.
BootDone ==
    /\ pc = "boot" /\ puts = <<>> /\ pc' = "idle"
    /\ told' = [f \in Fields |-> IF f \in Secrets THEN {ram[f]} ELSE told[f]]
    /\ ConnectWifi(ram)
    /\ UNCHANGED <<nvs, ram, puts, lastValue>>

-----------------------------------------------------------------------------
(* "AK", "HA" and "WC", over USB                                           *)

Touched(cmd) ==
    CASE cmd = "AK" -> {"udpkey"}
      [] cmd = "HA" -> {"httpuser", "httppass"}
      [] cmd = "WC" -> WifiFields

\* Mutant of Writes: the password is kept in RAM only.
WritesNoPass(cmd, v) ==
    CASE cmd = "AK" -> <<<<"udpkey", v>>>>
      [] cmd = "HA" -> <<<<"httpuser", v>>>>
      [] cmd = "WC" -> <<<<"ssid", v>>, <<"pass", v>>, <<"host", v>>>>

\* The order of the writes.
Writes(cmd, v) ==
    CASE cmd = "AK" -> <<<<"udpkey", v>>>>
      [] cmd = "HA" -> <<<<"httpuser", v>>, <<"httppass", v>>>>
      [] cmd = "WC" -> <<<<"ssid", v>>, <<"pass", v>>, <<"host", v>>>>

\* putString and the variables: fields get the value v.
Set(values, fields, v) == [f \in Fields |-> IF f \in fields THEN v ELSE values[f]]

\* The command is read.  The key and the page's credentials are in use at once,
\* the WiFi credentials after they have been saved.
Command(cmd) ==
    LET v == lastValue + 1 IN
    /\ pc = "idle" /\ pc' = cmd
    /\ v <= MaxValue /\ lastValue' = v
    /\ ram' = IF cmd = "WC" THEN ram ELSE Set(ram, Touched(cmd), v)
    /\ puts' = Writes(cmd, v)
    /\ told' = [f \in Fields |-> IF f \in Touched(cmd) THEN told[f] \cup {v} ELSE told[f]]
    /\ UNCHANGED <<nvs, wifiOk, udpUp>>

\* All is saved: CONFIG_OK, after WiFi has been tried in the case of "WC".
CommandDone ==
    /\ pc \in {"AK", "HA", "WC"} /\ puts = <<>> /\ pc' = "idle"
    /\ told' = [f \in Fields |-> IF f \in Touched(pc) THEN {lastValue} ELSE told[f]]
    /\ IF pc = "WC"
       THEN ram' = Set(ram, WifiFields, lastValue) /\ ConnectWifi(ram')
       ELSE UNCHANGED <<ram, wifiOk, udpUp>>
    /\ UNCHANGED <<nvs, puts, lastValue>>

\* Power is lost.
PowerLoss ==
    /\ pc # "off" /\ pc' = "off"
    /\ ram' = Nothing /\ puts' = <<>> /\ wifiOk' = FALSE /\ udpUp' = FALSE
    /\ UNCHANGED <<nvs, lastValue, told>>

Next ==
    \/ Boot \/ Put \/ BootDone \/ PowerLoss
    \/ \E cmd \in {"AK", "HA", "WC"} : Command(cmd)
    \/ CommandDone

Spec == Init /\ [][Next]_vars

-----------------------------------------------------------------------------
(* Properties                                                              *)

\* "The firmware persists everything in NVS so it survives reboots"
\* (set-wifi.mjs:2): flash holds what was last printed or acknowledged, or
\* something sent since - at every moment, so whenever power is lost.
StoredIsExpected == \A f \in Fields : told[f] # {} => nvs[f] \in told[f]

\* A running board uses what it has stored, and the host has been told all of
\* it: after any number of interrupted boots and commands the secrets printed
\* last are the ones in force.  Once on the WiFi it listens for datagrams, also
\* when it started without credentials or out of reach.
RunsAsTold ==
    pc = "idle" =>
      /\ ram = nvs
      /\ \A f \in Secrets : told[f] = {ram[f]}
      /\ wifiOk => udpUp
=============================================================================
