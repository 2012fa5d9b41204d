----------------------------- MODULE WifiProofs ------------------------------
(***************************************************************************)
(* The station tells the truth about its link for every number of retries, *)
(* drains and losses and whatever the card and the air hold.               *)
(***************************************************************************)
EXTENDS WifiSta, SequenceTheorems, WellFoundedInduction, TLAPS

Events == {"DISCONNECTED", "GOT_IP"}

\* The last event on its way says whether the link is up; with none on its way
\* the flag says it.  The icon is up exactly while the flag is.
EventsTellTheLink ==
  /\ inbox # <<>> => (inbox[Len(inbox)] = "GOT_IP" <=> link = "up")
  /\ inbox = <<>> => (connected <=> link = "up")
  /\ connected <=> icon = "up"

\* While the call waits, the bit of a connection is one of this call.
BitIsOfThisCall ==
  pc = "wait" /\ "CONNECTED" \in bits =>
    link = "up" \/ Contains(inbox, "DISCONNECTED") \/ retry > 0

WifiInv == TypeOK /\ EventsTellTheLink /\ BitIsOfThisCall

-----------------------------------------------------------------------------
(* The choice of the network.                                              *)

\* A set of natural numbers that is not empty has a least one.
LEMMA LeastOfNat ==
  ASSUME NEW T, T \subseteq Nat, T # {}
  PROVE  \E x \in T : \A y \in T : x <= y
<1>1. PICK x \in T : \A y \in T : ~(<<y, x>> \in OpToRel(<, Nat))
  BY NatLessThanWellFounded, WFMin, Zenon
<1>2. ASSUME NEW y \in T PROVE x <= y
  <2>1. ~(y < x)
    <3>1. SUFFICES ASSUME y < x PROVE FALSE
      OBVIOUS
    <3>2. y \in Nat /\ x \in Nat
      OBVIOUS
    <3>3. <<y, x>> \in OpToRel(<, Nat)
      BY <3>1, <3>2, Zenon DEF OpToRel
    <3> QED
      BY <1>1, <3>3
  <2> QED
    BY <2>1
<1> QED
  BY <1>2

\* Lists of profiles are indexed by positive numbers.
LEMMA ListsAreIndexed ==
  ASSUME NEW list \in Lists
  PROVE  DOMAIN list \subseteq Nat
<1>1. CASE list = <<>>
  BY <1>1
<1>2. ASSUME NEW from \in Sources, list \in Loaded(from) PROVE DOMAIN list \subseteq Nat
  <2>1. ASSUME list \in Parsed(from.card) PROVE DOMAIN list \subseteq Nat
    BY <2>1 DEF Parsed
  <2>2. CASE Parsed(from.card) # {<<>>}
    BY <1>2, <2>1, <2>2 DEF Loaded
  <2>3. CASE Parsed(from.card) = {<<>>}
    BY <1>2, <2>3 DEF Loaded
  <2> QED
    BY <2>2, <2>3
<1> QED
  BY <1>1, <1>2 DEF Lists

\* profile_matches finds the first profile of a name that is in the list.
LEMMA ProfileIsFirst ==
  ASSUME NEW list \in Lists, NEW ssid, Matches(list, ssid) # {}
  PROVE  /\ Profile(list, ssid) \in DOMAIN list
         /\ list[Profile(list, ssid)].ssid = ssid
         /\ \A j \in Matches(list, ssid) : Profile(list, ssid) <= j
<1>1. Matches(list, ssid) \subseteq Nat
  BY ListsAreIndexed DEF Matches
<1>2. \E i \in Matches(list, ssid) : \A j \in Matches(list, ssid) : i <= j
  BY <1>1, LeastOfNat
<1>3. /\ Profile(list, ssid) \in Matches(list, ssid)
      /\ \A j \in Matches(list, ssid) : Profile(list, ssid) <= j
  BY <1>2 DEF Profile
<1> QED
  BY <1>3 DEF Matches

\* pick_best_network: if a network of the list is heard at all, the choice is the
\* first profile of a network that no other known one outshouts, and of those
\* equally loud it is the first of the scan.
LEMMA BestIsTheLoudest ==
  ASSUME NEW list \in Lists, NEW aps \in Air,
         NEW known, known = {a \in DOMAIN aps : /\ Matches(list, aps[a].ssid) # {}
                                                /\ aps[a].rssi > -127}
  PROVE  IF known = {} THEN Best(list, aps) = None
         ELSE \E a \in known :
                /\ Best(list, aps) = list[Profile(list, aps[a].ssid)]
                /\ Best(list, aps) \in Range(list)
                /\ \A b \in known : \/ aps[a].rssi > aps[b].rssi
                                    \/ aps[a].rssi = aps[b].rssi /\ a <= b
<1>1. CASE known = {}
  BY <1>1 DEF Best
<1>2. CASE known # {}
  <2> DEFINE Loudest(a) == \A b \in known : \/ aps[a].rssi > aps[b].rssi
                                            \/ aps[a].rssi = aps[b].rssi /\ a <= b
             Quiet == {127 - aps[a].rssi : a \in known}
  <2>1. \A a \in known : aps[a].rssi \in -128 .. 127
    BY WifiAssumption
  <2>2. known \subseteq Nat
    BY WifiAssumption, LenProperties
  <2>3. PICK q \in Quiet : \A r \in Quiet : q <= r
    <3>1. Quiet \subseteq Nat
      BY <2>1
    <3>2. Quiet # {}
      BY <1>2
    <3> HIDE DEF Quiet
    <3> QED
      BY <3>1, <3>2, LeastOfNat
  <2>4. PICK a \in {c \in known : 127 - aps[c].rssi = q} :
          \A b \in {c \in known : 127 - aps[c].rssi = q} : a <= b
    <3> DEFINE T == {c \in known : 127 - aps[c].rssi = q}
    <3>1. T \subseteq Nat /\ T # {}
      BY <2>2, <2>3
    <3> HIDE DEF T
    <3>2. \E a \in T : \A b \in T : a <= b
      BY <3>1, LeastOfNat
    <3> QED
      BY <3>2 DEF T
  <2>5. Loudest(a)
    <3> SUFFICES ASSUME NEW b \in known
                 PROVE  aps[a].rssi > aps[b].rssi \/ (aps[a].rssi = aps[b].rssi /\ a <= b)
      OBVIOUS
    <3>1. q <= 127 - aps[b].rssi /\ q = 127 - aps[a].rssi
      BY <2>3, <2>4
    <3>2. aps[a].rssi \in Int /\ aps[b].rssi \in Int
      BY <2>1, <2>4
    <3>3. 127 - aps[b].rssi = q => a <= b
      BY <2>4
    <3> QED
      BY <3>1, <3>2, <3>3
  <2>6. PICK c \in known : c = (CHOOSE x \in known : Loudest(x)) /\ Loudest(c)
    BY <2>4, <2>5
  <2>7. Best(list, aps) = list[Profile(list, aps[c].ssid)]
    BY <1>2, <2>6 DEF Best
  <2>8. Matches(list, aps[c].ssid) # {}
    OBVIOUS
  <2>9. Profile(list, aps[c].ssid) \in DOMAIN list
    BY <2>8, ProfileIsFirst
  <2> QED
    BY <1>2, <2>6, <2>7, <2>9 DEF Range
<1> QED
  BY <1>1, <1>2

\* What the scan chooses is a network of the device or none.
LEMMA BestIsANetwork ==
  ASSUME NEW list \in Lists, NEW aps \in Air
  PROVE  Best(list, aps) \in Networks
<1>1. Range(list) \subseteq Networks
  BY DEF Networks
<1>2. Best(list, aps) = None \/ Best(list, aps) \in Range(list)
  BY BestIsTheLoudest
<1> QED
  BY <1>1, <1>2 DEF Networks

-----------------------------------------------------------------------------
(* The events on their way.                                                *)

\* An event that is posted is the last one and takes none away.
LEMMA Posting ==
  ASSUME NEW box \in Seq(Events), NEW e \in Events
  PROVE  /\ Append(box, e) \in Seq(Events) /\ Append(box, e) # <<>>
         /\ Append(box, e)[Len(Append(box, e))] = e
         /\ Contains(Append(box, e), e)
<1>1. /\ Append(box, e) \in Seq(Events) /\ Append(box, e) # <<>>
      /\ Len(Append(box, e)) = Len(box) + 1
      /\ Append(box, e)[Len(box) + 1] = e
      /\ Len(box) \in Nat
  BY AppendProperties, LenProperties
<1>2. Len(Append(box, e)) \in 1 .. Len(Append(box, e))
  BY <1>1
<1> QED
  BY <1>1, <1>2 DEF Contains

\* Handling an event leaves the last one in its place, or is its handling.
LEMMA Handling ==
  ASSUME NEW box \in Seq(Events), box # <<>>
  PROVE  /\ Tail(box) \in Seq(Events)
         /\ Tail(box) # <<>> => Tail(box)[Len(Tail(box))] = box[Len(box)]
         /\ Tail(box) = <<>> => Head(box) = box[Len(box)]
<1>1. /\ Tail(box) \in Seq(Events) /\ Len(Tail(box)) = Len(box) - 1
      /\ \A i \in 1 .. Len(Tail(box)) : Tail(box)[i] = box[i + 1]
      /\ Len(box) \in Nat /\ Len(Tail(box)) \in Nat
  BY HeadTailProperties, LenProperties
<1>2. CASE Tail(box) # <<>>
  <2>1. Len(Tail(box)) # 0
    BY <1>1, <1>2, EmptySeq
  <2>2. Len(Tail(box)) \in 1 .. Len(Tail(box)) /\ Len(Tail(box)) + 1 = Len(box)
    BY <1>1, <2>1
  <2> QED
    BY <1>1, <1>2, <2>2
<1>3. CASE Tail(box) = <<>>
  <2>1. Len(box) = 1
    BY <1>1, <1>3
  <2>2. Head(box) = box[1]
    OBVIOUS
  <2> QED
    BY <1>1, <1>3, <2>1, <2>2
<1> QED
  BY <1>2, <1>3

\* An inbox whose last event is not a connection tells of a loss.
LEMMA LossIsTold ==
  ASSUME NEW box \in Seq(Events), box # <<>>, box[Len(box)] # "GOT_IP"
  PROVE  Contains(box, "DISCONNECTED")
<1>1. Len(box) \in 1 .. Len(box)
  <2>1. Len(box) \in Nat /\ Len(box) # 0
    BY LenProperties, EmptySeq
  <2> QED
    BY <2>1
<1>2. box[Len(box)] \in Events
  BY <1>1, ElementOfSeq
<1> QED
  BY <1>1, <1>2 DEF Contains, Events

-----------------------------------------------------------------------------
(* Types.                                                                  *)

\* The station is off with an empty inbox and no network.
LEMMA TypeInit ==
  ASSUME Init
  PROVE  TypeOK
<1>1. <<>> \in Lists /\ None \in Networks
  BY DEF Lists, Networks
<1>2. <<>> \in Seq({"DISCONNECTED", "GOT_IP"})
  BY EmptySeq
<1>3. 0 \in 0..MaxRetry /\ 0 \in 0..MaxDrains /\ 0 \in 0..MaxLosses
  BY WifiAssumption
<1> QED
  BY <1>1, <1>2, <1>3 DEF Init, TypeOK

\* Every step keeps the types.
LEMMA TypePreserves ==
  ASSUME TypeOK, [Next]_vars
  PROVE  TypeOK'
<1> USE WifiAssumption
<1>0. /\ Append(inbox, "DISCONNECTED") \in Seq({"DISCONNECTED", "GOT_IP"})
      /\ Append(inbox, "GOT_IP") \in Seq({"DISCONNECTED", "GOT_IP"})
      /\ inbox # <<>> => Tail(inbox) \in Seq({"DISCONNECTED", "GOT_IP"})
  BY Posting, Handling DEF TypeOK, Events
<1>1. ASSUME Joins PROVE TypeOK'
  BY <1>0, <1>1 DEF Joins, TypeOK, station, task
<1>2. ASSUME Leaves PROVE TypeOK'
  BY <1>0, <1>2 DEF Leaves, TypeOK, station, task
<1>3. ASSUME Disconnected PROVE TypeOK'
  <2>1. connected' \in BOOLEAN
    BY <1>3, Zenon DEF Disconnected
  <2>2. inbox' \in Seq({"DISCONNECTED", "GOT_IP"}) /\ UNCHANGED <<source, config, started, pc, profiles, chosen, drains, losses>>
    BY <1>0, <1>3 DEF Disconnected, task
  <2>3. CASE retry < MaxRetry
    <3>1. /\ retry' = retry + 1 /\ icon' = "down" /\ bits' = bits
          /\ link' = IF link = "idle" THEN "connecting" ELSE link
      BY <1>3, <2>3, Zenon DEF Disconnected, Retry
    <3> QED
      BY <2>1, <2>2, <2>3, <3>1 DEF TypeOK
  <2>4. CASE ~(retry < MaxRetry)
    <3>1. icon' = "error" /\ bits' = bits \cup {"FAIL"} /\ UNCHANGED <<link, retry>>
      BY <1>3, <2>4, Zenon DEF Disconnected, Retry
    <3> QED
      BY <2>1, <2>2, <3>1 DEF TypeOK
  <2> QED
    BY <2>3, <2>4
<1>4. ASSUME GotIp PROVE TypeOK'
  BY <1>0, <1>4 DEF GotIp, TypeOK, task
<1>5. ASSUME Connect PROVE TypeOK'
  <2>1. Loaded(source) \subseteq Lists
    BY DEF TypeOK, Lists
  <2>2. profiles' \in Lists
    BY <1>5, <2>1 DEF Connect
  <2> QED
    <3>1. drains' \in 0..MaxDrains
      BY <1>5 DEF Connect, TypeOK
    <3>2. chosen' = chosen /\ pc' \in {"rest", "online", "scan"} /\ UNCHANGED <<source, config, retry, bits, icon, losses, connected>>
      BY <1>5 DEF Connect
    <3>3. CASE UNCHANGED <<link, inbox, started>>
      BY <2>2, <3>1, <3>2, <3>3 DEF TypeOK
    <3>4. CASE link' = "idle" /\ inbox' = inbox /\ started' = TRUE
      BY <2>2, <3>1, <3>2, <3>4 DEF TypeOK
    <3>5. CASE started /\ Disconnect /\ started' = TRUE
      BY <1>0, <2>2, <3>1, <3>2, <3>5 DEF TypeOK, Disconnect
    <3> QED
      BY <1>5, <3>3, <3>4, <3>5 DEF Connect
<1>6. ASSUME Scan PROVE TypeOK'
  <2>1. chosen' \in Networks
    BY <1>6, BestIsANetwork DEF Scan, TypeOK
  <2> QED
    BY <1>6, <2>1 DEF Scan, TypeOK, driver, station
<1>7. ASSUME SetConfig PROVE TypeOK'
  BY <1>7 DEF SetConfig, Returns, TypeOK, station
<1>8. ASSUME StartConnecting PROVE TypeOK'
  BY <1>8 DEF StartConnecting, Returns, TypeOK
<1>9. ASSUME Wait PROVE TypeOK'
  BY <1>9 DEF Wait, Returns, TypeOK, driver, station
<1>10. ASSUME Drop PROVE TypeOK'
  BY <1>0, <1>10 DEF Drop, Disconnect, Returns, TypeOK
<1>11. ASSUME UNCHANGED vars PROVE TypeOK'
  BY <1>11 DEF vars, driver, station, task, TypeOK
<1> QED
  BY <1>1, <1>2, <1>3, <1>4, <1>5, <1>6, <1>7, <1>8, <1>9, <1>10, <1>11
  DEF Next, Driver, OnEvent, SyncTask

-----------------------------------------------------------------------------
(* The flag, the icon and the link.                                        *)

\* The driver posts an event with every change of the link, the handler sets the
\* flag and the icon with the last event, and the drop lowers both with the link.
LEMMA EventsTellPreserves ==
  ASSUME TypeOK, EventsTellTheLink, [Next]_vars
  PROVE  EventsTellTheLink'
<1>0. /\ inbox \in Seq(Events)
      /\ \A e \in Events : /\ Append(inbox, e) # <<>>
                           /\ Append(inbox, e)[Len(Append(inbox, e))] = e
      /\ inbox # <<>> => /\ Tail(inbox) # <<>> => Tail(inbox)[Len(Tail(inbox))] = inbox[Len(inbox)]
                         /\ Tail(inbox) = <<>> => Head(inbox) = inbox[Len(inbox)]
  BY Posting, Handling DEF TypeOK, Events
<1>d. Disconnect => \/ UNCHANGED <<link, inbox>> /\ link \notin {"connecting", "up"}
                    \/ /\ link' = "idle" /\ inbox' # <<>>
                       /\ inbox'[Len(inbox')] = "DISCONNECTED"
  BY <1>0 DEF Disconnect, Events
<1>1. ASSUME Joins \/ Leaves PROVE EventsTellTheLink'
  BY <1>0, <1>1 DEF Joins, Leaves, EventsTellTheLink, Events, station
<1>2. ASSUME Disconnected PROVE EventsTellTheLink'
  <2>1. /\ connected' = FALSE /\ icon' # "up" /\ (link' = "up" <=> link = "up")
        /\ inbox' = Tail(inbox) /\ inbox # <<>> /\ Head(inbox) = "DISCONNECTED"
    BY <1>2 DEF Disconnected, Retry
  <2>2. inbox' = <<>> => link # "up"
    BY <1>0, <2>1 DEF EventsTellTheLink
  <2>3. inbox' # <<>> => (inbox'[Len(inbox')] = "GOT_IP" <=> link' = "up")
    BY <1>0, <2>1 DEF EventsTellTheLink
  <2> QED
    BY <2>1, <2>2, <2>3 DEF EventsTellTheLink
<1>3. ASSUME GotIp PROVE EventsTellTheLink'
  <2>1. /\ connected' = TRUE /\ icon' = "up" /\ link' = link
        /\ inbox' = Tail(inbox) /\ inbox # <<>> /\ Head(inbox) = "GOT_IP"
    BY <1>3 DEF GotIp
  <2>2. inbox' = <<>> => link = "up"
    BY <1>0, <2>1 DEF EventsTellTheLink
  <2>3. inbox' # <<>> => (inbox'[Len(inbox')] = "GOT_IP" <=> link' = "up")
    BY <1>0, <2>1 DEF EventsTellTheLink
  <2> QED
    BY <2>1, <2>2, <2>3 DEF EventsTellTheLink
<1>4. ASSUME Connect PROVE EventsTellTheLink'
  <2>1. UNCHANGED <<connected, icon>>
    BY <1>4 DEF Connect
  <2>2. CASE UNCHANGED <<link, inbox>>
    BY <2>1, <2>2 DEF EventsTellTheLink
  <2>3. CASE ~started /\ link' = "idle" /\ inbox' = inbox
    BY <2>1, <2>3 DEF EventsTellTheLink, TypeOK
  <2>4. CASE Disconnect
    BY <1>d, <2>1, <2>2, <2>4 DEF EventsTellTheLink
  <2> QED
    BY <1>4, <2>2, <2>3, <2>4 DEF Connect
<1>5. ASSUME Scan \/ SetConfig \/ Wait PROVE EventsTellTheLink'
  BY <1>5 DEF Scan, SetConfig, Wait, EventsTellTheLink, driver, station
<1>6. ASSUME StartConnecting PROVE EventsTellTheLink'
  BY <1>6 DEF StartConnecting, EventsTellTheLink
<1>7. ASSUME Drop PROVE EventsTellTheLink'
  <2>1. connected' = FALSE /\ icon' = "down" /\ Disconnect
    BY <1>7 DEF Drop
  <2> QED
    BY <1>d, <2>1 DEF EventsTellTheLink
<1>8. ASSUME UNCHANGED vars PROVE EventsTellTheLink'
  BY <1>8 DEF vars, driver, station, EventsTellTheLink
<1> QED
  BY <1>1, <1>2, <1>3, <1>4, <1>5, <1>6, <1>7, <1>8
  DEF Next, Driver, OnEvent, SyncTask

\* A call clears the bits before it waits; after that a connection that is lost
\* is told by an event on its way, or by the retry its handling began.
LEMMA BitPreserves ==
  ASSUME TypeOK, EventsTellTheLink, EventsTellTheLink', TypeOK', BitIsOfThisCall, [Next]_vars
  PROVE  BitIsOfThisCall'
<1>0. /\ inbox \in Seq(Events)
      /\ \A e \in Events : Contains(Append(inbox, e), e)
  BY Posting DEF TypeOK, Events
<1>1. ASSUME Joins \/ Leaves PROVE BitIsOfThisCall'
  BY <1>0, <1>1 DEF Joins, Leaves, BitIsOfThisCall, Events
<1>2. ASSUME Disconnected PROVE BitIsOfThisCall'
  <2>1. CASE retry < MaxRetry
    BY <1>2, <2>1 DEF Disconnected, Retry, BitIsOfThisCall, TypeOK
  <2>2. CASE ~(retry < MaxRetry)
    <3>1. retry' > 0
      BY <1>2, <2>2, WifiAssumption DEF Disconnected, Retry, TypeOK
    <3> QED
      BY <3>1 DEF BitIsOfThisCall
  <2> QED
    BY <2>1, <2>2
<1>3. ASSUME GotIp PROVE BitIsOfThisCall'
  <2>1. connected' /\ inbox' \in Seq(Events)
    BY <1>3 DEF GotIp, TypeOK, Events
  <2>2. link' = "up" \/ Contains(inbox', "DISCONNECTED")
    <3>1. inbox' = <<>> => link' = "up"
      BY <2>1 DEF EventsTellTheLink
    <3>2. inbox' # <<>> /\ link' # "up" => Contains(inbox', "DISCONNECTED")
      BY <2>1, LossIsTold DEF EventsTellTheLink
    <3> QED
      BY <3>1, <3>2
  <2> QED
    BY <2>2 DEF BitIsOfThisCall
<1>4. ASSUME Connect \/ Scan \/ SetConfig \/ Wait \/ Drop PROVE pc' # "wait"
  BY <1>4 DEF Connect, Scan, SetConfig, Wait, Drop, Returns
<1>5. ASSUME StartConnecting PROVE "CONNECTED" \notin bits'
  BY <1>5 DEF StartConnecting
<1>6. ASSUME UNCHANGED vars PROVE BitIsOfThisCall'
  BY <1>6 DEF vars, driver, station, task, BitIsOfThisCall, Contains
<1> QED
  BY <1>1, <1>2, <1>3, <1>4, <1>5, <1>6
  DEF Next, Driver, OnEvent, SyncTask, BitIsOfThisCall

-----------------------------------------------------------------------------
(* The theorems.                                                           *)

\* The invariant the theorems rest on.
LEMMA WifiInvariant == Spec => []WifiInv
<1>1. Init => WifiInv
  BY TypeInit DEF Init, WifiInv, EventsTellTheLink, BitIsOfThisCall
<1>2. WifiInv /\ [Next]_vars => WifiInv'
  BY TypePreserves, EventsTellPreserves, BitPreserves DEF WifiInv
<1> QED
  BY <1>1, <1>2, PTL DEF Spec

\* wifi_sta.c: every variable keeps its type; the network the driver is given is
\* one of the card, of the build, or none.
THEOREM StationTypes == Spec => []TypeOK
<1>1. WifiInv => TypeOK
  BY DEF WifiInv
<1> QED
  BY <1>1, WifiInvariant, PTL

\* on_event and wifi_sta_drop: with the events handled, s_connected, which skips
\* the connection, and the icon say whether the radio is up.
THEOREM FlagIsTrue == Spec => []FlagTellsTheLink
<1>1. WifiInv => FlagTellsTheLink
  BY DEF WifiInv, EventsTellTheLink, FlagTellsTheLink
<1> QED
  BY <1>1, WifiInvariant, PTL

\* wifi_sta_connect: success means an address, or its loss is on its way to the
\* handler or was handled since the call began.
THEOREM SuccessIsOfThisCall == Spec => OnlineIsUp
<1>1. WifiInv /\ [Next]_vars =>
        [pc # "online" /\ pc' = "online" =>
           link = "up" \/ Contains(inbox, "DISCONNECTED") \/ retry > 0]_vars
  <2> SUFFICES ASSUME WifiInv, Next, pc # "online", pc' = "online"
               PROVE  link = "up" \/ Contains(inbox, "DISCONNECTED") \/ retry > 0
    BY Zenon
  <2>1. \/ Connect /\ connected
        \/ Wait /\ "CONNECTED" \in bits
    BY DEF Next, Driver, OnEvent, SyncTask, Joins, Leaves, Disconnected, GotIp, Connect,
           Scan, SetConfig, StartConnecting, Wait, Drop, Returns, task
  <2>2. CASE connected
    BY <2>2, LossIsTold DEF WifiInv, TypeOK, Events, EventsTellTheLink
  <2>3. CASE Wait /\ "CONNECTED" \in bits
    BY <2>3 DEF WifiInv, BitIsOfThisCall, Wait
  <2> QED
    BY <2>1, <2>2, <2>3
<1> QED
  BY <1>1, WifiInvariant, PTL DEF Spec, OnlineIsUp
=============================================================================
