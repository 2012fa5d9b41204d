------------------------------ MODULE WifiSta -------------------------------
(***************************************************************************)
(* The Wi-Fi station (net/wifi_sta.c, net/wifi_profiles.c): the sync task  *)
(* that connects for one drain and drops the connection after it, the      *)
(* driver, and the handler of its events, which reconnects by itself.      *)
(*                                                                         *)
(* The driver and the access points are external.  A network is taken at   *)
(* its name and its key; what a profile's key holds that the file does not *)
(* give is what the stack held (wifi_profiles.c:83).                       *)
(***************************************************************************)
EXTENDS Integers, Sequences, FiniteSets, SequencesExt

CONSTANTS
  Sources,      \* [card, build]: the entries of wifi.cfg, <<>> if there is no such
                \* file, and the network of Kconfig, or None
  Air,          \* what a scan may find: sequences of [ssid, rssi]
  None,
  MaxProfiles,  \* WIFI_PROFILE_MAX
  MaxRetry,     \* MAX_RETRY
  MaxDrains,
  MaxLosses     \* times the access point drops the station or refuses it

\* There is a retry (MAX_RETRY is 5), and the strength of a signal is a signed byte.
ASSUME WifiAssumption ==
  /\ MaxProfiles \in Nat \ {0} /\ MaxRetry \in Nat \ {0} /\ MaxDrains \in Nat /\ MaxLosses \in Nat
  /\ \A aps \in Air : /\ aps \in Seq(Range(aps))
                      /\ \A a \in DOMAIN aps : aps[a].rssi \in -128 .. 127

VARIABLES
  source,       \* one of Sources
  link,         \* off, idle, connecting, up
  config,       \* the network given to the driver
  inbox,        \* events on their way to on_event
  started, connected, retry, bits, icon,
  pc,           \* where the sync task is: rest before and after a failed call,
                \* dropped after wifi_sta_drop
  profiles, chosen,
  drains, losses

driver == <<link, config, inbox>>
station == <<started, connected, retry, bits, icon>>
task == <<pc, profiles, chosen, drains>>
vars == <<source, driver, station, task, losses>>

Garbage == "garbage"
NoKey == ""

Init ==
  /\ source \in Sources
  /\ link = "off" /\ config = None /\ inbox = <<>>
  /\ started = FALSE /\ connected = FALSE /\ retry = 0 /\ bits = {} /\ icon = "down"
  /\ pc = "rest" /\ profiles = <<>> /\ chosen = None
  /\ drains = 0 /\ losses = 0

-----------------------------------------------------------------------------
(* The profiles.                                                           *)

\* An entry counts if it fits the parser's block and has a name.
Readable(entry) == entry.fits /\ entry.ssid # ""

\* parse_networks and parse_quoted_field: the first MaxProfiles of the readable
\* entries.  The key is looked for behind the name only.
Parsed(entries) ==
  LET read == SelectSeq(entries, Readable)
      keep == SubSeq(read, 1, IF Len(read) < MaxProfiles THEN Len(read) ELSE MaxProfiles)
      Keys(i) == IF keep[i].keyBehind THEN {keep[i].psk} ELSE {NoKey, Garbage}
  IN  {p \in [DOMAIN keep -> [ssid : {keep[i].ssid : i \in DOMAIN keep},
                              psk : UNION {Keys(i) : i \in DOMAIN keep}]] :
         \A i \in DOMAIN keep : p[i].ssid = keep[i].ssid /\ p[i].psk \in Keys(i)}

\* wifi_profiles_load: the build's network only if the card gives none.
Loaded(from) ==
  IF Parsed(from.card) # {<<>>} THEN Parsed(from.card)
  ELSE {IF from.build = None THEN <<>> ELSE <<from.build>>}

\* profile_matches: the first profile of that name.
Matches(list, ssid) == {i \in DOMAIN list : list[i].ssid = ssid}
Profile(list, ssid) == CHOOSE i \in Matches(list, ssid) : \A j \in Matches(list, ssid) : i <= j

\* pick_best_network: the first of the strongest that are known.
Best(list, aps) ==
  LET known == {a \in DOMAIN aps : Matches(list, aps[a].ssid) # {} /\ aps[a].rssi > -127} IN
  IF known = {} THEN None
  ELSE list[Profile(list, aps[CHOOSE a \in known :
              \A b \in known : aps[a].rssi > aps[b].rssi
                               \/ (aps[a].rssi = aps[b].rssi /\ a <= b)].ssid)]

Lists == {<<>>} \cup UNION {Loaded(from) : from \in Sources}
Networks == {None} \cup UNION {Range(list) : list \in Lists}

TypeOK ==
  /\ source \in Sources
  /\ link \in {"off", "idle", "connecting", "up"} /\ (link = "off" <=> ~started)
  /\ config \in Networks /\ chosen \in Networks
  /\ inbox \in Seq({"DISCONNECTED", "GOT_IP"})
  /\ started \in BOOLEAN /\ connected \in BOOLEAN
  /\ retry \in 0..MaxRetry /\ bits \subseteq {"CONNECTED", "FAIL"}
  /\ icon \in {"down", "up", "error"}
  /\ pc \in {"rest", "dropped", "scan", "config", "connect", "wait", "online"}
  /\ profiles \in Lists
  /\ drains \in 0..MaxDrains /\ losses \in 0..MaxLosses

-----------------------------------------------------------------------------
(* The driver.                                                             *)

\* esp_wifi_disconnect
Disconnect ==
  IF link \in {"connecting", "up"}
  THEN link' = "idle" /\ inbox' = Append(inbox, "DISCONNECTED")
  ELSE UNCHANGED <<link, inbox>>

Joins ==
  /\ link = "connecting" /\ config.psk # Garbage
  /\ link' = "up" /\ inbox' = Append(inbox, "GOT_IP")
  /\ UNCHANGED <<source, config, station, task, losses>>

\* The key is wrong, the access point refuses or is gone.
Leaves ==
  /\ \/ link = "connecting" /\ config.psk = Garbage /\ UNCHANGED losses
     \/ link \in {"connecting", "up"} /\ losses < MaxLosses /\ losses' = losses + 1
  /\ link' = "idle" /\ inbox' = Append(inbox, "DISCONNECTED")
  /\ UNCHANGED <<source, config, station, task>>

-----------------------------------------------------------------------------
(* on_event                                                                *)

\* A mistake: the end of the retries is not announced.
RetrySilently ==
  /\ icon' = "down" /\ UNCHANGED bits
  /\ retry' = IF retry < MaxRetry THEN retry + 1 ELSE retry
  /\ link' = IF link = "idle" /\ retry < MaxRetry THEN "connecting" ELSE link

Retry ==
  IF retry < MaxRetry
  THEN /\ retry' = retry + 1 /\ icon' = "down"
       /\ link' = IF link = "idle" THEN "connecting" ELSE link
       /\ UNCHANGED bits
  ELSE icon' = "error" /\ bits' = bits \cup {"FAIL"} /\ UNCHANGED <<link, retry>>

\* A mistake: the flag is lowered only when the handler gives up.
DisconnectedForGood ==
  /\ inbox # <<>> /\ Head(inbox) = "DISCONNECTED" /\ inbox' = Tail(inbox)
  /\ connected' = (connected /\ retry < MaxRetry) /\ Retry
  /\ UNCHANGED <<source, config, started, task, losses>>

\* WIFI_EVENT_STA_DISCONNECTED, also when it comes from esp_wifi_disconnect.
Disconnected ==
  /\ inbox # <<>> /\ Head(inbox) = "DISCONNECTED" /\ inbox' = Tail(inbox)
  /\ connected' = FALSE /\ Retry
  /\ UNCHANGED <<source, config, started, task, losses>>

\* IP_EVENT_STA_GOT_IP
GotIp ==
  /\ inbox # <<>> /\ Head(inbox) = "GOT_IP" /\ inbox' = Tail(inbox)
  /\ retry' = 0 /\ connected' = TRUE /\ icon' = "up" /\ bits' = bits \cup {"CONNECTED"}
  /\ UNCHANGED <<source, link, config, started, task, losses>>

-----------------------------------------------------------------------------
(* wifi_sta_connect, in the sync task; a failure leaves everything as it is. *)

Returns(to) == pc' = to /\ UNCHANGED <<profiles, chosen, drains>>

\* Radio contact takes longer than one statement after another, so that no
\* connection comes up between disconnecting and lowering the flag.
Connect ==
  /\ pc \in {"rest", "dropped"} /\ drains < MaxDrains /\ drains' = drains + 1
  /\ profiles' \in Loaded(source) /\ UNCHANGED chosen
  /\ \/ profiles' = <<>> /\ pc' = "rest" /\ UNCHANGED <<link, inbox, started, connected>>
     \/ profiles' # <<>> /\ connected /\ pc' = "online" /\ UNCHANGED <<link, inbox, started, connected>>
     \/ /\ profiles' # <<>> /\ ~connected /\ pc' = "scan"
        /\ IF started THEN Disconnect ELSE link' = "idle" /\ UNCHANGED inbox
        /\ started' = TRUE /\ UNCHANGED connected
  /\ UNCHANGED <<source, config, retry, bits, icon, losses>>

\* A scan is refused while the station is connecting, and may be broken off
\* by it.  It takes longer than the handling of the events before it.
Scan ==
  /\ pc = "scan" /\ UNCHANGED <<profiles, drains>>
  /\ \/ link = "connecting" /\ pc' = "rest" /\ UNCHANGED chosen
     \/ /\ inbox = <<>>
        /\ \E aps \in Air :
             /\ chosen' = Best(profiles, aps)
             /\ pc' = IF chosen' = None THEN "rest" ELSE "config"
  /\ UNCHANGED <<source, driver, station, losses>>

SetConfig ==
  /\ pc = "config"
  /\ \/ config' = chosen /\ Returns("connect")
     \/ UNCHANGED config /\ Returns("rest")      \* esp_wifi_set_config fails
  /\ UNCHANGED <<source, link, inbox, station, losses>>

\* A mistake: the bits of the last connection stay.
StartConnectingUncleared ==
  /\ pc = "connect"
  /\ retry' = 0
  /\ \/ link = "idle" /\ link' = "connecting" /\ Returns("wait")
     \/ link # "idle" /\ UNCHANGED link /\ (Returns("rest") \/ Returns("wait"))
  /\ UNCHANGED <<source, config, inbox, started, connected, bits, icon, losses>>

\* With the connection of the handler under way, esp_wifi_connect fails or
\* does nothing.
StartConnecting ==
  /\ pc = "connect"
  /\ retry' = 0 /\ bits' = {}
  /\ \/ link = "idle" /\ link' = "connecting" /\ Returns("wait")
     \/ link # "idle" /\ UNCHANGED link /\ (Returns("rest") \/ Returns("wait"))
  /\ UNCHANGED <<source, config, inbox, started, connected, icon, losses>>

\* xEventGroupWaitBits, which may run into its timeout.
Wait ==
  /\ pc = "wait"
  /\ IF "CONNECTED" \in bits THEN Returns("online") ELSE Returns("rest")
  /\ UNCHANGED <<source, driver, station, losses>>

\* wifi_sta_drop, after the drain or because the Hub does not answer.
Drop ==
  /\ pc = "online"
  /\ connected' = FALSE /\ icon' = "down"
  /\ Disconnect      \* s_started is set once there has been a connection
  /\ Returns("dropped")
  /\ UNCHANGED <<source, config, started, retry, bits, losses>>

Driver == Joins \/ Leaves
OnEvent == Disconnected \/ GotIp
SyncTask == Connect \/ Scan \/ SetConfig \/ StartConnecting \/ Wait \/ Drop

Next == Driver \/ OnEvent \/ SyncTask

Spec == Init /\ [][Next]_vars

\* An attempt of the driver ends and the event loop runs.
FairSpec == Spec /\ WF_vars(Joins \/ Leaves) /\ WF_vars(OnEvent)

-----------------------------------------------------------------------------

\* s_connected, which skips the scan and the connection (wifi_sta.c:148), and
\* the icon on the screen tell the state of the radio once the events are handled.
FlagTellsTheLink ==
  inbox = <<>> => (connected <=> link = "up") /\ (connected <=> icon = "up")

\* wifi_sta_connect reports success only if the station has its address, or has
\* lost it since the call began: an upload never begins on the strength of the
\* event bits of an earlier connection.
OnlineIsUp ==
  [][pc # "online" /\ pc' = "online" =>
       link = "up" \/ Contains(inbox, "DISCONNECTED") \/ retry > 0]_vars

\* A connection that is lost during a drain comes back, or the retries end and
\* the screen shows it (MAX_RETRY).
RetriesEnd ==
  pc = "online" /\ link # "up" ~> pc # "online" \/ link = "up" \/ icon = "error"

\* Wi-Fi is on only on demand (docs/specs/01-device-firmware.md:312): after the
\* drop the station stays down until the next drain connects it.
OnDemand == pc = "dropped" => link # "up"
=============================================================================
